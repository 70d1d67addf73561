\* lock, unlock and canlock by three threads: key accounting and wakeups
CONSTANTS
    t1 = t1  t2 = t2  t3 = t3
    Threads <- MCThreads
    UseCanLock = TRUE
    UseLockT = FALSE
    MaxSem = 2
    MaxTimeouts = 0
SPECIFICATION Spec
INVARIANT KeyAccounting
PROPERTY NoLostWakeup
