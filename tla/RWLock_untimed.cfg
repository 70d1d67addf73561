\* rlock, canrlock, runlock, wlock, canwlock and wunlock by three threads
CONSTANTS
    t1 = t1  t2 = t2  t3 = t3
    Threads <- Three
    NoOwner = NoOwner
    Nil = Nil
    NSlots = 4
    TimedThreads = {}
SPECIFICATION Spec
INVARIANT TypeOK
INVARIANT OwnersAccounted
INVARIANT QueueWellFormed
INVARIANT ReaderQueuedBehindWriter
PROPERTY RWLockRefined
PROPERTY NoStarvation
