------------------------------ MODULE MCAtexit ------------------------------
EXTENDS Atexit, TLC

CONSTANTS p1, p2, p3, h1, h2

MCProcs == {p1, p2, p3}
MCHandlers == {h1, h2}
MCSymmetry == Permutations(MCProcs) \cup Permutations(MCHandlers)
=============================================================================
