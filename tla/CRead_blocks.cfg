\* creadmemimage on any file whose rows are 0..2, with a two-byte block buffer
CONSTANTS
    MaxY = 2
    NCBlock = 2
SPECIFICATION Spec
INVARIANT WholeImageOrNothing
PROPERTY CReadReturns
