\* lock, unlock and lockt (with timeouts) by three threads
CONSTANTS
    t1 = t1  t2 = t2  t3 = t3
    Threads <- MCThreads
    UseCanLock = FALSE
    UseLockT = TRUE
    MaxSem = 2
    MaxTimeouts = 2
SPECIFICATION Spec
INVARIANT TypeOK
INVARIANT MutualExclusion
PROPERTY NoLostWakeup
