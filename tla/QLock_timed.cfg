\* qlock, qlockt, canqlock and qunlock by three threads on a pool of four nodes, the alarm of every qlockt free to fire at any point; the timeout paths that orphan the lock stop the system for good, so deadlock is not an error here
CONSTANTS
    t1 = t1  t2 = t2  t3 = t3
    Threads <- Three
    NoOwner = NoOwner
    Nil = Nil
    NSlots = 4
    UseQlockt = TRUE
    UseCanqlock = TRUE
SPECIFICATION Spec
INVARIANT MutualExclusion
CHECK_DEADLOCK FALSE
