\* three processes sharing a two-slot table, registering, cancelling and exiting
CONSTANTS
    p1 = p1  p2 = p2  p3 = p3  h1 = h1  h2 = h2
    Procs <- MCProcs
    Handlers <- MCHandlers
    NEXIT = 2
    NoHandler = NoHandler
    NoPid = NoPid
    NoOwner = NoOwner
SYMMETRY MCSymmetry
SPECIFICATION Spec
INVARIANT TypeOK
INVARIANT ExitsRunsAll
PROPERTY ExitsRunsOnlyOwed
