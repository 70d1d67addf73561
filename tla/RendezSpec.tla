----------------------------- MODULE RendezSpec -----------------------------
(***************************************************************************)
(* What a Rendez promises together with its QLock (spec.md 4.5): a mutex   *)
(* with a FIFO queue of lockers, and a FIFO queue of sleepers.  Sleeping   *)
(* releases the mutex (handing it to the head locker) and joins the sleep  *)
(* queue in one step.  A wakeup, made by the holder, moves the first       *)
(* sleeper to the FRONT of the lockers' queue; it gets the mutex only when *)
(* the holder lets go.                                                     *)
(***************************************************************************)
EXTENDS Sequences, SequencesExt

CONSTANTS Threads, NoOwner

VARIABLES owner, waitq, sleepq

TypeOK == /\ owner \in Threads \cup {NoOwner}
          /\ waitq \in Seq(Threads) /\ sleepq \in Seq(Threads)

Init == owner = NoOwner /\ waitq = <<>> /\ sleepq = <<>>

Acquire(t) ==
    /\ owner = NoOwner /\ waitq = <<>>
    /\ owner' = t
    /\ UNCHANGED <<waitq, sleepq>>

Wait(t) ==
    /\ owner \notin {NoOwner, t}
    /\ ~Contains(waitq, t) /\ ~Contains(sleepq, t)
    /\ waitq' = Append(waitq, t)
    /\ UNCHANGED <<owner, sleepq>>

(* the lock goes to the head of the lockers' queue, or is freed *)
HandOn == /\ owner' = IF waitq = <<>> THEN NoOwner ELSE Head(waitq)
          /\ waitq' = IF waitq = <<>> THEN <<>> ELSE Tail(waitq)

Release(t) == owner = t /\ HandOn /\ UNCHANGED sleepq

Sleep(t) == owner = t /\ HandOn /\ sleepq' = Append(sleepq, t)

Wakeup(t) ==
    /\ owner = t /\ sleepq # <<>>
    /\ waitq' = <<Head(sleepq)>> \o waitq
    /\ sleepq' = Tail(sleepq)
    /\ UNCHANGED owner

Next == \E t \in Threads :
            Acquire(t) \/ Wait(t) \/ Release(t) \/ Sleep(t) \/ Wakeup(t)

Spec == Init /\ [][Next]_<<owner, waitq, sleepq>>
=============================================================================
