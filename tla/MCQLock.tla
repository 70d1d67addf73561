------------------------------ MODULE MCQLock ------------------------------
(* Model-checking instance of QLock: up to three threads, a small pool.   *)
EXTENDS QLock

CONSTANTS t1, t2, t3

Three == {t1, t2, t3}
Two == {t1, t2}
=============================================================================
