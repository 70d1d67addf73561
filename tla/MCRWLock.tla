------------------------------ MODULE MCRWLock ------------------------------
(* RWLock with three threads given as model values *)
EXTENDS RWLock

CONSTANTS t1, t2, t3

Three == {t1, t2, t3}
Two   == {t1, t2}
Timed1 == {t2}
Timed2 == {t2, t3}
=============================================================================
