\* rsleep, rwakeup and rwakeupall by three threads sharing one QLock, pool of four nodes; all three asleep with nobody left to wake them is a real end state, so deadlock is not checked
CONSTANTS
    t1 = t1  t2 = t2  t3 = t3
    Threads <- Three
    NoOwner = NoOwner
    Nil = Nil
    NSlots = 4
    UseQlockt = FALSE
    UseCanqlock = FALSE
    SleepTimed = {}
SPECIFICATION RSpec
INVARIANT RTypeOK
INVARIANT SleepOwnership
INVARIANT NodesAccounted
PROPERTY RendezRefined
CHECK_DEADLOCK FALSE
