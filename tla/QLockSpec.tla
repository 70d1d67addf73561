------------------------------ MODULE QLockSpec ------------------------------
(***************************************************************************)
(* What a QLock promises: a mutex whose blocked lockers form a FIFO queue  *)
(* and whose unlock hands the lock straight to the head of that queue, so  *)
(* no newcomer can take a lock that has waiters.  A timed locker may give  *)
(* up and leave the queue from any position.                              *)
(***************************************************************************)
EXTENDS Sequences, SequencesExt

CONSTANTS Threads, NoOwner

VARIABLES owner, waitq

TypeOK == /\ owner \in Threads \cup {NoOwner}
          /\ waitq \in Seq(Threads)

Init == owner = NoOwner /\ waitq = <<>>

(* a free lock has no waiters, and is taken at once *)
Acquire(t) ==
    /\ owner = NoOwner /\ waitq = <<>>
    /\ owner' = t
    /\ UNCHANGED waitq

(* a held lock: the caller joins the tail of the queue *)
Wait(t) ==
    /\ owner \notin {NoOwner, t} /\ ~Contains(waitq, t)
    /\ waitq' = Append(waitq, t)
    /\ UNCHANGED owner

(* unlock passes the lock to the head of the queue, if any *)
Release(t) ==
    /\ owner = t
    /\ owner' = IF waitq = <<>> THEN NoOwner ELSE Head(waitq)
    /\ waitq' = IF waitq = <<>> THEN <<>> ELSE Tail(waitq)

(* a timed locker gives up and leaves the queue *)
GiveUp(t) ==
    /\ Contains(waitq, t)
    /\ waitq' = Remove(waitq, t)
    /\ UNCHANGED owner

Next == \E t \in Threads : Acquire(t) \/ Wait(t) \/ Release(t) \/ GiveUp(t)

Spec == Init /\ [][Next]_<<owner, waitq>>
=============================================================================
