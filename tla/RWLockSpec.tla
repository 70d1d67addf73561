----------------------------- MODULE RWLockSpec -----------------------------
(***************************************************************************)
(* What a RWLock promises (spec.md 4.4): any number of readers or one      *)
(* writer, and one FIFO queue of blocked readers and writers.  A reader    *)
(* enters at once only when there is no writer and nobody waits.  A        *)
(* writer enters at once when the lock is idle.  The last reader hands the *)
(* lock to a writer at the head of the queue.  A writer hands it to the    *)
(* writer at the head, or else admits the whole leading batch of readers.  *)
(* A timed waiter may leave the queue.                                     *)
(***************************************************************************)
EXTENDS Sequences, SequencesExt

CONSTANTS Threads, NoOwner

VARIABLES rd, wr, waitq

Kinds == {"R", "W"}

TypeOK == /\ rd \subseteq Threads
          /\ wr \in Threads \cup {NoOwner}
          /\ waitq \in Seq(Threads \X Kinds)

Init == rd = {} /\ wr = NoOwner /\ waitq = <<>>

Waiting(t) == \E i \in 1 .. Len(waitq) : waitq[i][1] = t
Idle(t) == t \notin rd /\ t # wr /\ ~Waiting(t)

(* the number of readers at the front of the queue, before its first writer *)
LeadingReaders ==
    LET w == SelectInSeq(waitq, LAMBDA e : e[2] = "W")
    IN  IF w = 0 THEN Len(waitq) ELSE w - 1

ReadAcquire(t) ==
    /\ Idle(t) /\ wr = NoOwner /\ waitq = <<>>
    /\ rd' = rd \cup {t}
    /\ UNCHANGED <<wr, waitq>>

WriteAcquire(t) ==
    /\ Idle(t) /\ wr = NoOwner /\ rd = {}
    /\ wr' = t
    /\ UNCHANGED <<rd, waitq>>

Wait(t, k) ==
    /\ Idle(t)
    /\ waitq' = Append(waitq, <<t, k>>)
    /\ UNCHANGED <<rd, wr>>

(* the last reader leaving passes the lock to a writer at the head *)
ReadRelease(t) ==
    /\ t \in rd
    /\ rd' = rd \ {t}
    /\ IF rd' = {} /\ waitq # <<>> /\ Head(waitq)[2] = "W"
       THEN wr' = Head(waitq)[1] /\ waitq' = Tail(waitq)
       ELSE UNCHANGED <<wr, waitq>>

WriteRelease(t) ==
    /\ wr = t
    /\ \/ waitq = <<>> /\ wr' = NoOwner /\ UNCHANGED <<rd, waitq>>
       \/ /\ waitq # <<>> /\ Head(waitq)[2] = "W"
          /\ wr' = Head(waitq)[1] /\ waitq' = Tail(waitq)
          /\ UNCHANGED rd
       \/ /\ waitq # <<>> /\ Head(waitq)[2] = "R"
          /\ wr' = NoOwner
          /\ rd' = rd \cup {waitq[i][1] : i \in 1 .. LeadingReaders}
          /\ waitq' = SubSeq(waitq, LeadingReaders + 1, Len(waitq))

GiveUp(t) ==
    /\ Waiting(t)
    /\ waitq' = SelectSeq(waitq, LAMBDA e : e[1] # t)
    /\ UNCHANGED <<rd, wr>>

Next ==
    \E t \in Threads :
        \/ ReadAcquire(t) \/ WriteAcquire(t) \/ \E k \in Kinds : Wait(t, k)
        \/ ReadRelease(t) \/ WriteRelease(t) \/ GiveUp(t)

Spec == Init /\ [][Next]_<<rd, wr, waitq>>
=============================================================================
