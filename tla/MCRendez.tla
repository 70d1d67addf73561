------------------------------ MODULE MCRendez ------------------------------
(* Model-checking instance of Rendez: up to three threads, a small pool.  *)
EXTENDS Rendez

CONSTANTS t1, t2, t3

Three == {t1, t2, t3}
Two == {t1, t2}
Timed1 == {t2}
=============================================================================
