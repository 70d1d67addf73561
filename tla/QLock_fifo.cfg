\* qlock, qunlock and canqlock by three threads, pool of four nodes
CONSTANTS
    t1 = t1  t2 = t2  t3 = t3
    Threads <- Three
    NoOwner = NoOwner
    Nil = Nil
    NSlots = 4
    UseQlockt = FALSE
    UseCanqlock = TRUE
SPECIFICATION Spec
INVARIANT TypeOK
INVARIANT OneOwner
INVARIANT QueueWellFormed
PROPERTY QLockRefined
PROPERTY Starvation
