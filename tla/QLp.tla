-------------------------------- MODULE QLp --------------------------------
(***************************************************************************)
(* The shared pool of wait nodes of libc/9sys/qlock.c (ql.x[], ql.p) and   *)
(* the singly linked wait lists built from them.  A node is an index into  *)
(* the pool; Nil is the null pointer.  The operators are pure: a module    *)
(* that owns the variables (inuse, next, cursor, head, tail) applies them. *)
(***************************************************************************)
EXTENDS Integers, Sequences, FiniteSets

CONSTANTS
    NSlots,   \* nelem(ql.x): 1024 in the code, a handful here
    Nil       \* model value: the nil pointer

ASSUME NSlots \in Nat \ {0}

Slots == 0 .. NSlots - 1

(* getqlp: starting at op+1 it scans circularly and claims, with _tas,    *)
(* the first slot whose inuse is 0; meeting op again is abort().  The     *)
(* slot op itself is never examined.  Returns the claimed slot or Nil     *)
(* when the scan aborts.                                                  *)
GetQlp(inuse, op) ==
    LET order == [i \in 1 .. NSlots - 1 |-> (op + i) % NSlots]
        free  == {i \in 1 .. NSlots - 1 : ~inuse[order[i]]}
    IN  IF free = {} THEN Nil
        ELSE order[CHOOSE i \in free : \A j \in free : i <= j]

(* The loop of releaseqlp:                                                *)
(*   while(p != nil && p != mp && p->next != mp && p != *tail)            *)
(*       p = p->next;                                                     *)
(* k counts iterations; a loop that has run NSlots + 1 times without      *)
(* stopping is on a cycle that misses tail and never terminates: -1.     *)
RECURSIVE ReleaseScan(_, _, _, _, _)
ReleaseScan(p, mp, tail, next, k) ==
    IF p = Nil \/ p = mp \/ next[p] = mp \/ p = tail THEN p
    ELSE IF k > NSlots THEN -1
    ELSE ReleaseScan(next[p], mp, tail, next, k + 1)

(* releaseqlp(&head, &tail, mp), with the lock held: unlink mp and clear  *)
(* its inuse.  Result: outcome "abort" (mp not found, p == nil), "loop"   *)
(* (the scan never ends) or "ok" with the new head, tail, next and inuse. *)
(* When p stopped at tail without having found mp, p->next = mp->next is  *)
(* executed anyway, exactly as the code does.                             *)
ReleaseQlp(head, tail, next, inuse, mp) ==
    LET p     == ReleaseScan(head, mp, tail, next, 0)
        head2 == IF p = mp THEN next[mp] ELSE head
        next2 == IF p = mp THEN next ELSE [next EXCEPT ![p] = next[mp]]
    IN  CASE p = Nil    -> [outcome |-> "abort"]
          [] p = -1     -> [outcome |-> "loop"]
          [] OTHER      -> [outcome |-> "ok",
                            head    |-> head2,
                            tail    |-> IF head2 = Nil THEN Nil ELSE tail,
                            next    |-> next2,
                            inuse   |-> [inuse EXCEPT ![mp] = FALSE]]

(* The chain: p = q->tail; if(p == nil) q->head = mp; else p->next = mp;  *)
(* q->tail = mp; after getqlp has set mp->next = nil.                     *)
AppendNext(tail, next, mp) ==
    LET n1 == [next EXCEPT ![mp] = Nil]
    IN  IF tail = Nil THEN n1 ELSE [n1 EXCEPT ![tail] = mp]

(* The wait list read from head along next, at most NSlots + 1 nodes: a   *)
(* longer walk means the list has a cycle.                                *)
RECURSIVE Walk(_, _, _)
Walk(p, next, k) ==
    IF p = Nil \/ k > NSlots THEN <<>>
    ELSE <<p>> \o Walk(next[p], next, k + 1)

(* A wait list is well formed: walking from head ends (no cycle) at tail, *)
(* tail has no successor, and every node on it is claimed.                *)
WellFormed(head, tail, next, inuse) ==
    LET L == Walk(head, next, 0)
    IN  /\ Len(L) <= NSlots
        /\ (head = Nil) <=> (tail = Nil)
        /\ head # Nil => /\ L[Len(L)] = tail
                         /\ next[tail] = Nil
        /\ \A i \in 1 .. Len(L) : inuse[L[i]]
=============================================================================
