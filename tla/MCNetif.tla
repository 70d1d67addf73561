------------------------------ MODULE MCNetif ------------------------------
EXTENDS Netif, TLC

CONSTANTS p1, p2, u1, u2

(* p1 runs as the host owner, p2 as another user *)
MCUserOf == [p \in {p1, p2} |-> IF p = p1 THEN u1 ELSE u2]

(* both processes run as the host owner *)
MCOneUser == [p \in {p1, p2} |-> u1]

(* the two processes are interchangeable when they run as one user *)
MCSymmetry == Permutations({p1, p2})

(* "connect -1" (every type) and an ethernet type *)
MCConnTypes == {-1, 2048}

(* "connect -1" alone *)
MCAllType == {-1}
=============================================================================
