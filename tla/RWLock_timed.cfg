\* three threads, two of them timed, and a three-node pool: every path of the code, aborts and endless releaseqlp loops included; these end states are real, so deadlock is not checked
CONSTANTS
    t1 = t1  t2 = t2  t3 = t3
    Threads <- Three
    NoOwner = NoOwner
    Nil = Nil
    NSlots = 3
    TimedThreads <- Timed2
SPECIFICATION Spec
INVARIANT RWExclusion
CHECK_DEADLOCK FALSE
