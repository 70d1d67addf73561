-------------------------------- MODULE QLock --------------------------------
(***************************************************************************)
(* The queued mutex QLock of libc/9sys/qlock.c: qlock, qunlock, qlockt,    *)
(* canqlock, over the wait-node pool of QLp and the rendezvous(2) call.    *)
(*                                                                         *)
(* Every section the code runs between lock(&q->lock) and unlock(&q->lock) *)
(* is one atomic step: the only thing another thread does to the QLock's   *)
(* state without that lock is clear a node's inuse, which getqlp reads     *)
(* with _tas.  A thread that never leaves such a section (releaseqlp       *)
(* looping) keeps q->lock, and no other section can run (GuardFree).       *)
(*                                                                         *)
(* rendezvous(tag, v): two threads calling it with the same tag both       *)
(* return; the first to arrive blocks.  The wait loops retry on ~0 with no *)
(* state change, except in qlockt where ~0 caused by the awake(2) alarm    *)
(* leads to the timeout path.  abort() kills the process: the state is     *)
(* frozen with aborted naming the function that called it.               *)
(***************************************************************************)
EXTENDS QLp

CONSTANTS
    Threads,       \* the threads using one QLock
    NoOwner,       \* model value: nobody owns the lock (abstract spec)
    UseQlockt,     \* whether clients call qlockt
    UseCanqlock    \* whether clients call canqlock

ASSUME UseQlockt \in BOOLEAN /\ UseCanqlock \in BOOLEAN

VARIABLES
    locked,   \* q->locked
    head,     \* q->head
    tail,     \* q->tail
    next,     \* next field of every pool node
    inuse,    \* inuse field of every pool node
    cursor,   \* ql.p, the slot getqlp claimed last
    pc,       \* where each thread is
    mp,       \* the node a thread has claimed (its local mp), or Nil
    wk,       \* the node qunlock is waking (its local p), or Nil
    tmr,      \* the awake(2) alarm of a thread: "off", "armed", "fired"
    aborted   \* "none", or the function that called abort()

vars == <<locked, head, tail, next, inuse, cursor, pc, mp, wk, tmr, aborted>>
queue == <<head, tail, next, inuse, cursor>>

PCs == {"idle", "cs", "qlock_park", "qlock_free", "qunlock_wake",
        "qlockt_lock", "qlockt_park", "qlockt_done", "releaseqlp_loop"}
Node == Slots \cup {Nil}

(* Type invariant: every pointer (head, tail, next, mp, wk) is a pool   *)
(* node or nil, ql.p is a node, and every thread is at a known step.     *)
TypeOK ==
    /\ locked \in BOOLEAN /\ aborted \in {"none", "getqlp", "releaseqlp"}
    /\ head \in Node /\ tail \in Node /\ cursor \in Slots
    /\ next \in [Slots -> Node] /\ inuse \in [Slots -> BOOLEAN]
    /\ pc \in [Threads -> PCs]
    /\ mp \in [Threads -> Node] /\ wk \in [Threads -> Node]
    /\ tmr \in [Threads -> {"off", "armed", "fired"}]

Init ==
    /\ locked = FALSE /\ head = Nil /\ tail = Nil
    /\ next = [s \in Slots |-> Nil] /\ inuse = [s \in Slots |-> FALSE]
    /\ cursor = 0                                   \* ql.p = ql.x
    /\ pc = [t \in Threads |-> "idle"]
    /\ mp = [t \in Threads |-> Nil] /\ wk = [t \in Threads |-> Nil]
    /\ tmr = [t \in Threads |-> "off"]
    /\ aborted = "none"

Goto(t, l) == pc' = [pc EXCEPT ![t] = l]

(* no thread is stuck holding q->lock *)
GuardFree == \A u \in Threads : pc[u] # "releaseqlp_loop"

Abort(f) == aborted' = f /\ UNCHANGED <<locked, queue, pc, mp, wk, tmr>>

(* mutant: ql.p is set from the local p, which qlock uses for q->tail *)
EnqueueCursorTail(t, s) ==
    /\ head' = IF tail = Nil THEN s ELSE head
    /\ next' = AppendNext(tail, next, s)
    /\ tail' = s
    /\ inuse' = [inuse EXCEPT ![s] = TRUE]
    /\ cursor' = tail
    /\ mp' = [mp EXCEPT ![t] = s]

(* mutant: the new node is chained in front of head (a LIFO list) *)
EnqueueAtHead(t, s) ==
    /\ head' = s
    /\ next' = [next EXCEPT ![s] = head]
    /\ tail' = IF tail = Nil THEN s ELSE tail
    /\ inuse' = [inuse EXCEPT ![s] = TRUE]
    /\ cursor' = s
    /\ mp' = [mp EXCEPT ![t] = s]

(* getqlp, then chain mp at the tail of the wait list *)
Enqueue(t, s) ==
    /\ head' = IF tail = Nil THEN s ELSE head
    /\ next' = AppendNext(tail, next, s)
    /\ tail' = s
    /\ inuse' = [inuse EXCEPT ![s] = TRUE]
    /\ cursor' = s
    /\ mp' = [mp EXCEPT ![t] = s]

(* releaseqlp(&head, &tail, m) on behalf of t, run on the queue h, tl, n, *)
(* i, c, then return 0 from the timed call: "abort" kills the process,  *)
(* "loop" leaves t spinning with q->lock held, "ok" unlinks m.           *)
ApplyRelease(t, m, h, tl, n, i, c) ==
    LET r == ReleaseQlp(h, tl, n, i, m) IN
    \/ r.outcome = "abort" /\ Abort("releaseqlp")
    \/ /\ r.outcome = "loop"
       /\ head' = h /\ tail' = tl /\ next' = n /\ inuse' = i /\ cursor' = c
       /\ mp' = [mp EXCEPT ![t] = m]
       /\ Goto(t, "releaseqlp_loop")
       /\ UNCHANGED <<locked, wk, tmr, aborted>>
    \/ /\ r.outcome = "ok"
       /\ head' = r.head /\ tail' = r.tail /\ next' = r.next /\ inuse' = r.inuse
       /\ cursor' = c
       /\ mp' = [mp EXCEPT ![t] = Nil]
       /\ tmr' = [tmr EXCEPT ![t] = "off"]
       /\ Goto(t, "idle")
       /\ UNCHANGED <<locked, wk, aborted>>

-----------------------------------------------------------------------------
(* qlock: the lock is free: take it *)
QLockFree(t) ==
    /\ pc[t] = "idle" /\ GuardFree
    /\ ~locked
    /\ locked' = TRUE
    /\ Goto(t, "cs")
    /\ UNCHANGED <<queue, mp, wk, tmr, aborted>>

(* qlock: the lock is held: claim a node, chain it, and go to rendezvous *)
QLockQueue(t) ==
    /\ pc[t] = "idle" /\ GuardFree
    /\ locked
    /\ LET s == GetQlp(inuse, cursor) IN
       \/ s = Nil /\ Abort("getqlp")
       \/ /\ s # Nil
          /\ Enqueue(t, s)
          /\ Goto(t, "qlock_park")
          /\ UNCHANGED <<locked, wk, tmr, aborted>>

(* qlock: rendezvous returned; mp->inuse = 0, and the lock is ours *)
QLockRelease(t) ==
    /\ pc[t] = "qlock_free"
    /\ inuse' = [inuse EXCEPT ![mp[t]] = FALSE]
    /\ mp' = [mp EXCEPT ![t] = Nil]
    /\ Goto(t, "cs")
    /\ UNCHANGED <<locked, head, tail, next, cursor, wk, tmr, aborted>>

(* mutant: qunlock drops the test of q->head and always clears locked *)
QUnlockFreeAnyway(t) ==
    /\ pc[t] = "cs" /\ GuardFree
    /\ locked' = FALSE
    /\ Goto(t, "idle")
    /\ UNCHANGED <<queue, mp, wk, tmr, aborted>>

(* qunlock with no waiter: q->locked = 0 *)
QUnlockFree(t) ==
    /\ pc[t] = "cs" /\ GuardFree
    /\ head = Nil
    /\ locked' = FALSE
    /\ Goto(t, "idle")
    /\ UNCHANGED <<queue, mp, wk, tmr, aborted>>

(* mutant: qunlock clears q->locked before waking the head *)
QUnlockHandoffUnlocked(t) ==
    /\ pc[t] = "cs" /\ GuardFree
    /\ head # Nil
    /\ head' = next[head]
    /\ tail' = IF next[head] = Nil THEN Nil ELSE tail
    /\ wk' = [wk EXCEPT ![t] = head]
    /\ locked' = FALSE
    /\ Goto(t, "qunlock_wake")
    /\ UNCHANGED <<next, inuse, cursor, mp, tmr, aborted>>

(* mutant: qunlock forgets if(q->head == nil) q->tail = nil *)
QUnlockHandoffKeepTail(t) ==
    /\ pc[t] = "cs" /\ GuardFree
    /\ head # Nil
    /\ head' = next[head]
    /\ wk' = [wk EXCEPT ![t] = head]
    /\ Goto(t, "qunlock_wake")
    /\ UNCHANGED <<locked, tail, next, inuse, cursor, mp, tmr, aborted>>

(* qunlock with waiters: unlink the head; q->locked stays 1 and the lock  *)
(* passes to the head by the rendezvous that follows.                     *)
QUnlockHandoff(t) ==
    /\ pc[t] = "cs" /\ GuardFree
    /\ head # Nil
    /\ head' = next[head]
    /\ tail' = IF next[head] = Nil THEN Nil ELSE tail
    /\ wk' = [wk EXCEPT ![t] = head]
    /\ Goto(t, "qunlock_wake")
    /\ UNCHANGED <<locked, next, inuse, cursor, mp, tmr, aborted>>

(* canqlock: canlock(&q->lock) succeeded and the QLock is free.  A failed *)
(* canqlock changes nothing.                                              *)
CanQLock(t) ==
    /\ UseCanqlock
    /\ pc[t] = "idle" /\ GuardFree
    /\ ~locked
    /\ locked' = TRUE
    /\ Goto(t, "cs")
    /\ UNCHANGED <<queue, mp, wk, tmr, aborted>>

-----------------------------------------------------------------------------
(* qlockt: wkup = awake(ms) *)
QLocktAwake(t) ==
    /\ UseQlockt
    /\ pc[t] = "idle"
    /\ tmr' = [tmr EXCEPT ![t] = "armed"]
    /\ Goto(t, "qlockt_lock")
    /\ UNCHANGED <<locked, queue, mp, wk, aborted>>

(* the alarm goes off *)
Fire(t) ==
    /\ tmr[t] = "armed"
    /\ tmr' = [tmr EXCEPT ![t] = "fired"]
    /\ UNCHANGED <<locked, queue, pc, mp, wk, aborted>>

(* qlockt: lockt(&q->lock, ms) ran out of time: forgivewkp, return 0 *)
QLocktLockFail(t) ==
    /\ pc[t] = "qlockt_lock"
    /\ tmr[t] = "fired"
    /\ tmr' = [tmr EXCEPT ![t] = "off"]
    /\ Goto(t, "idle")
    /\ UNCHANGED <<locked, queue, mp, wk, aborted>>

(* mutant: qlockt does not test q->locked before taking the lock *)
QLocktFreeBarging(t) ==
    /\ pc[t] = "qlockt_lock" /\ GuardFree
    /\ locked' = TRUE
    /\ tmr' = [tmr EXCEPT ![t] = "off"]
    /\ Goto(t, "cs")
    /\ UNCHANGED <<queue, mp, wk, aborted>>

(* qlockt holding q->lock, the QLock free: forgivewkp, take it *)
QLocktFree(t) ==
    /\ pc[t] = "qlockt_lock" /\ GuardFree
    /\ ~locked
    /\ locked' = TRUE
    /\ tmr' = [tmr EXCEPT ![t] = "off"]
    /\ Goto(t, "cs")
    /\ UNCHANGED <<queue, mp, wk, aborted>>

(* qlockt holding q->lock, the QLock held: chain a node; if the alarm has *)
(* already fired, releaseqlp it again and return 0, else go to wait.      *)
QLocktQueue(t) ==
    /\ pc[t] = "qlockt_lock" /\ GuardFree
    /\ locked
    /\ LET s == GetQlp(inuse, cursor)
           h1 == IF tail = Nil THEN s ELSE head
           n1 == AppendNext(tail, next, s)
           i1 == [inuse EXCEPT ![s] = TRUE]
       IN
       \/ s = Nil /\ Abort("getqlp")
       \/ /\ s # Nil /\ tmr[t] # "fired"
          /\ Enqueue(t, s)
          /\ Goto(t, "qlockt_park")
          /\ UNCHANGED <<locked, wk, tmr, aborted>>
       \/ /\ s # Nil /\ tmr[t] = "fired"
          /\ ApplyRelease(t, s, h1, s, n1, i1, s)

(* qlockt: the rendezvous was interrupted and awakened(wkup): lock,       *)
(* releaseqlp(&q->head, &q->tail, mp), unlock, return 0.                  *)
QLocktTimeout(t) ==
    /\ pc[t] = "qlockt_park" /\ GuardFree
    /\ tmr[t] = "fired"
    /\ ApplyRelease(t, mp[t], head, tail, next, inuse, cursor)

(* qlockt: rendezvous returned: forgivewkp, mp->inuse = 0, return 1 *)
QLocktDone(t) ==
    /\ pc[t] = "qlockt_done"
    /\ tmr' = [tmr EXCEPT ![t] = "off"]
    /\ inuse' = [inuse EXCEPT ![mp[t]] = FALSE]
    /\ mp' = [mp EXCEPT ![t] = Nil]
    /\ Goto(t, "cs")
    /\ UNCHANGED <<locked, head, tail, next, cursor, wk, aborted>>

-----------------------------------------------------------------------------
(* the tag a thread is blocked on in rendezvous, or Nil *)
Tag(t) == CASE pc[t] \in {"qlock_park", "qlockt_park"} -> mp[t]
            [] pc[t] = "qunlock_wake"                   -> wk[t]
            [] OTHER                                    -> Nil

AfterRendezvous(l) == CASE l = "qlock_park"  -> "qlock_free"
                        [] l = "qlockt_park" -> "qlockt_done"
                        [] l = "qunlock_wake" -> "idle"

(* two threads in rendezvous on the same tag exchange values and return *)
Rendezvous(t, u) ==
    /\ t # u
    /\ Tag(t) # Nil /\ Tag(t) = Tag(u)
    /\ pc' = [pc EXCEPT ![t] = AfterRendezvous(pc[t]),
                        ![u] = AfterRendezvous(pc[u])]
    /\ wk' = [wk EXCEPT ![t] = IF pc[t] = "qunlock_wake" THEN Nil ELSE wk[t],
                        ![u] = IF pc[u] = "qunlock_wake" THEN Nil ELSE wk[u]]
    /\ UNCHANGED <<locked, queue, mp, tmr, aborted>>

Start(t) == QLockFree(t) \/ QLockQueue(t) \/ CanQLock(t) \/ QLocktAwake(t)

Inside(t) ==
    \/ QLockRelease(t) \/ QUnlockFree(t) \/ QUnlockHandoff(t)
    \/ QLocktLockFail(t) \/ QLocktFree(t) \/ QLocktQueue(t)
    \/ QLocktTimeout(t) \/ QLocktDone(t) \/ Fire(t)

Next ==
    \/ /\ aborted = "none"
       /\ \E t \in Threads : Start(t) \/ Inside(t)
                             \/ \E u \in Threads : Rendezvous(t, u)
    \/ aborted # "none" /\ UNCHANGED vars

Spec == /\ Init /\ [][Next]_vars
        /\ \A t \in Threads : WF_vars(aborted = "none" /\ Inside(t))
        /\ \A t, u \in Threads : WF_vars(aborted = "none" /\ Rendezvous(t, u))
-----------------------------------------------------------------------------
(* The threads the lock belongs to: the ones that hold it or are about to *)
(* return from qlock/qlockt with it, and a waiter unlinked by qunlock     *)
(* whose rendezvous is still to happen (the lock is in transit to it).    *)
Parked == {u \in Threads : pc[u] \in {"qlock_park", "qlockt_park"}}
InTransit == {u \in Parked : \E w \in Threads : pc[w] = "qunlock_wake" /\ wk[w] = mp[u]}
Owners == {t \in Threads : pc[t] \in {"cs", "qlock_free", "qlockt_done"}} \cup InTransit

(* Ownership: while q->locked is set exactly one thread owns the lock     *)
(* (holds it or is being handed it by qunlock's rendezvous), and nobody   *)
(* does once it is clear.  Broken by two owners, or by a lock left set    *)
(* with nobody to unlock it.                                              *)
OneOwner == IF locked THEN Cardinality(Owners) = 1 ELSE Owners = {}

(* The wait list q->head..q->tail is well formed after every critical     *)
(* section: acyclic, ending at tail, and made only of claimed nodes (no   *)
(* node is handed back to the pool while still linked, releaseqlp's NOTE). *)
QueueWellFormed == WellFormed(head, tail, next, inuse)

(* The waiter a node stands for *)
ThreadOn(n) == IF \E u \in Parked : mp[u] = n
               THEN CHOOSE u \in Parked : mp[u] = n ELSE NoOwner

(* The QLock implements QLockSpec: the wait list, read as the sequence of *)
(* its waiters, is a FIFO queue that qunlock serves from the head, with   *)
(* no barging past it, and from which only a timed-out waiter leaves.     *)
Abstract == INSTANCE QLockSpec
    WITH owner <- IF Owners = {} THEN NoOwner ELSE CHOOSE o \in Owners : TRUE,
         waitq <- [i \in 1 .. Len(Walk(head, next, 0)) |-> ThreadOn(Walk(head, next, 0)[i])]

QLockRefined == Abstract!Spec

(* Starvation freedom: every thread blocked in qlock eventually holds the *)
(* lock, given that holders unlock.                                        *)
Starvation == \A t \in Threads : (pc[t] = "qlock_park") ~> (pc[t] = "cs")

(* Mutual exclusion under every timeout: however qlockt's alarms fall    *)
(* against qunlock's hand-off, and with canqlock taking a free lock, at   *)
(* most one thread is past qlock, qlockt or canqlock.  The timeout paths  *)
(* that orphan the lock or leave a stale tail lose it for everyone; they *)
(* must never let a second thread in.                                    *)
MutualExclusion == Cardinality({t \in Threads : pc[t] = "cs"}) <= 1
=============================================================================
