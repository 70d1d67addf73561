----------------------------- MODULE MCFastLock -----------------------------
(* Model-checking instance of FastLock: three threads on one Lock.        *)
EXTENDS FastLock

CONSTANTS t1, t2, t3

MCThreads == {t1, t2, t3}
=============================================================================
