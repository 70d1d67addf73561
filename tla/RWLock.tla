------------------------------- MODULE RWLock -------------------------------
(***************************************************************************)
(* The reader/writer lock RWLock of libc/9sys/qlock.c: rlock, rlockt,      *)
(* canrlock, runlock, wlock, wlockt, canwlock, wunlock, over the wait-node *)
(* pool of QLp and rendezvous(2).                                          *)
(*                                                                         *)
(* As in QLock, a section between lock(&q->lock) and unlock(&q->lock) is   *)
(* one step.  wunlock is the exception: it wakes the leading readers one   *)
(* rendezvous at a time while still holding q->lock, so a thread in that   *)
(* loop (pc "wunlock_wakeR" or "wunlock_next") keeps q->lock across steps, *)
(* as does a thread spinning in releaseqlp.  GuardFree says nobody does.   *)
(* A timed waiter whose rendezvous the awake(2) alarm interrupted leaves   *)
(* rendezvous ("rlockt_relock", "wlockt_relock") and then needs q->lock to *)
(* unlink its node.                                                        *)
(***************************************************************************)
EXTENDS QLp, SequencesExt

CONSTANTS
    Threads,    \* the threads using one RWLock
    NoOwner,    \* model value: no writer (abstract spec)
    TimedThreads  \* the threads that also call rlockt and wlockt

ASSUME TimedThreads \subseteq Threads

VARIABLES
    readers,  \* q->_readers
    writer,   \* q->writer
    head,     \* q->head
    tail,     \* q->tail
    next,     \* next field of every pool node
    inuse,    \* inuse field of every pool node
    cursor,   \* ql.p
    kind,     \* state field of every pool node: QueuingR ("R") or QueuingW ("W")
    pc,       \* where each thread is
    mp,       \* the node a thread has claimed, or Nil
    wk,       \* the node runlock or wunlock is waking (its local p), or Nil
    tmr,      \* the awake(2) alarm of a thread: "off", "armed", "fired"
    aborted   \* "none", or the function that called abort()

vars == <<readers, writer, head, tail, next, inuse, cursor, kind,
          pc, mp, wk, tmr, aborted>>
queue == <<head, tail, next, inuse, cursor, kind>>

PCs == {"idle", "rcs", "wcs",
        "rlock_park", "rlock_free", "wlock_park", "wlock_free",
        "rlockt_lock", "rlockt_park", "rlockt_relock", "rlockt_done",
        "wlockt_lock", "wlockt_park", "wlockt_relock", "wlockt_done",
        "runlock_wake", "wunlock_wakeW", "wunlock_wakeR", "wunlock_next",
        "releaseqlp_loop"}
Node == Slots \cup {Nil}

(* Type invariant: every pointer is a pool node or nil, ql.p is a node,  *)
(* the reader count is a number and every thread is at a known step.     *)
TypeOK ==
    /\ readers \in 0 .. Cardinality(Threads) /\ writer \in BOOLEAN
    /\ head \in Node /\ tail \in Node /\ cursor \in Slots
    /\ next \in [Slots -> Node] /\ inuse \in [Slots -> BOOLEAN]
    /\ kind \in [Slots -> {"R", "W"}]
    /\ pc \in [Threads -> PCs]
    /\ mp \in [Threads -> Node] /\ wk \in [Threads -> Node]
    /\ tmr \in [Threads -> {"off", "armed", "fired"}]
    /\ aborted \in {"none", "getqlp", "releaseqlp", "runlock"}

Init ==
    /\ readers = 0 /\ writer = FALSE /\ head = Nil /\ tail = Nil
    /\ next = [s \in Slots |-> Nil] /\ inuse = [s \in Slots |-> FALSE]
    /\ cursor = 0
    /\ kind = [s \in Slots |-> "R"]
    /\ pc = [t \in Threads |-> "idle"]
    /\ mp = [t \in Threads |-> Nil] /\ wk = [t \in Threads |-> Nil]
    /\ tmr = [t \in Threads |-> "off"]
    /\ aborted = "none"

Goto(t, l) == pc' = [pc EXCEPT ![t] = l]

(* nobody keeps q->lock across steps *)
GuardFree ==
    \A u \in Threads : pc[u] \notin {"wunlock_wakeR", "wunlock_next", "releaseqlp_loop"}

Abort(f) == aborted' = f /\ UNCHANGED <<readers, writer, queue, pc, mp, wk, tmr>>

(* mutant: a reader ignores the queue and only checks for a writer *)
ReadFreeBarging == ~writer

(* mutant: a reader ignores q->writer *)
ReadFreeIgnoresWriter == head = Nil

(* rlock's and canrlock's test: no writer and nobody queued *)
ReadFree == ~writer /\ head = Nil

(* wlock's and canwlock's test: no reader and no writer *)
WriteFree == readers = 0 /\ ~writer

(* the list is not empty and its head node has state k *)
HeadIs(k) == head # Nil /\ kind[head] = k

(* mutant: ql.p is set from the old tail *)
EnqueueCursorTail(t, s, k) ==
    /\ head' = IF tail = Nil THEN s ELSE head
    /\ next' = AppendNext(tail, next, s)
    /\ tail' = s
    /\ inuse' = [inuse EXCEPT ![s] = TRUE]
    /\ cursor' = tail
    /\ kind' = [kind EXCEPT ![s] = k]
    /\ mp' = [mp EXCEPT ![t] = s]

(* getqlp, then chain mp at the tail with mp->state = k *)
Enqueue(t, s, k) ==
    /\ head' = IF tail = Nil THEN s ELSE head
    /\ next' = AppendNext(tail, next, s)
    /\ tail' = s
    /\ inuse' = [inuse EXCEPT ![s] = TRUE]
    /\ cursor' = s
    /\ kind' = [kind EXCEPT ![s] = k]
    /\ mp' = [mp EXCEPT ![t] = s]

(* releaseqlp(&q->head, &q->tail, m) for t on the queue h, tl, n, i, c,  *)
(* kd, then unlock and return 0.                                          *)
ApplyRelease(t, m, h, tl, n, i, c, kd) ==
    LET r == ReleaseQlp(h, tl, n, i, m) IN
    \/ r.outcome = "abort" /\ Abort("releaseqlp")
    \/ /\ r.outcome = "loop"
       /\ head' = h /\ tail' = tl /\ next' = n /\ inuse' = i /\ cursor' = c
       /\ kind' = kd
       /\ mp' = [mp EXCEPT ![t] = m]
       /\ Goto(t, "releaseqlp_loop")
       /\ UNCHANGED <<readers, writer, wk, tmr, aborted>>
    \/ /\ r.outcome = "ok"
       /\ head' = r.head /\ tail' = r.tail /\ next' = r.next /\ inuse' = r.inuse
       /\ cursor' = c /\ kind' = kd
       /\ mp' = [mp EXCEPT ![t] = Nil]
       /\ tmr' = [tmr EXCEPT ![t] = "off"]
       /\ Goto(t, "idle")
       /\ UNCHANGED <<readers, writer, wk, aborted>>

(* rlock or wlock with the lock busy: claim a node of kind k and park *)
Block(t, k, park) ==
    LET s == GetQlp(inuse, cursor) IN
    \/ s = Nil /\ Abort("getqlp")
    \/ /\ s # Nil
       /\ Enqueue(t, s, k)
       /\ Goto(t, park)
       /\ UNCHANGED <<readers, writer, wk, tmr, aborted>>

(* rlockt or wlockt with the lock busy: claim and chain a node; if the    *)
(* alarm has already fired, releaseqlp it again and return 0.             *)
BlockTimed(t, k, park) ==
    LET s  == GetQlp(inuse, cursor)
        h1 == IF tail = Nil THEN s ELSE head
        n1 == AppendNext(tail, next, s)
        i1 == [inuse EXCEPT ![s] = TRUE]
        k1 == [kind EXCEPT ![s] = k]
    IN
    \/ s = Nil /\ Abort("getqlp")
    \/ /\ s # Nil /\ tmr[t] # "fired"
       /\ Enqueue(t, s, k)
       /\ Goto(t, park)
       /\ UNCHANGED <<readers, writer, wk, tmr, aborted>>
    \/ /\ s # Nil /\ tmr[t] = "fired"
       /\ ApplyRelease(t, s, h1, s, n1, i1, s, k1)
-----------------------------------------------------------------------------
(* rlock: no writer and nobody queued: q->_readers++ *)
RLockFree(t) ==
    /\ pc[t] = "idle" /\ GuardFree
    /\ ReadFree
    /\ readers' = readers + 1
    /\ Goto(t, "rcs")
    /\ UNCHANGED <<writer, queue, mp, wk, tmr, aborted>>

(* rlock: otherwise queue a QueuingR node and wait in rendezvous *)
RLockQueue(t) ==
    /\ pc[t] = "idle" /\ GuardFree
    /\ ~ReadFree
    /\ Block(t, "R", "rlock_park")

(* rlock: rendezvous returned: mp->inuse = 0; the read lock is ours *)
RLockRelease(t) ==
    /\ pc[t] = "rlock_free"
    /\ inuse' = [inuse EXCEPT ![mp[t]] = FALSE]
    /\ mp' = [mp EXCEPT ![t] = Nil]
    /\ Goto(t, "rcs")
    /\ UNCHANGED <<readers, writer, head, tail, next, cursor, kind, wk, tmr, aborted>>

(* canrlock: the same test as rlock; a failed canrlock changes nothing *)
CanRLock(t) ==
    /\ pc[t] = "idle" /\ GuardFree
    /\ ReadFree
    /\ readers' = readers + 1
    /\ Goto(t, "rcs")
    /\ UNCHANGED <<writer, queue, mp, wk, tmr, aborted>>

(* rlockt: wkup = awake(ms) *)
RLocktAwake(t) ==
    /\ t \in TimedThreads
    /\ pc[t] = "idle"
    /\ tmr' = [tmr EXCEPT ![t] = "armed"]
    /\ Goto(t, "rlockt_lock")
    /\ UNCHANGED <<readers, writer, queue, mp, wk, aborted>>

(* rlockt: lockt(&q->lock, ms) ran out of time: forgivewkp, return 0 *)
RLocktLockFail(t) ==
    /\ pc[t] = "rlockt_lock"
    /\ tmr[t] = "fired"
    /\ tmr' = [tmr EXCEPT ![t] = "off"]
    /\ Goto(t, "idle")
    /\ UNCHANGED <<readers, writer, queue, mp, wk, aborted>>

(* mutant: rlockt's fast path forgets q->_readers++ *)
RLocktFreeUncounted(t) ==
    /\ pc[t] = "rlockt_lock" /\ GuardFree
    /\ ReadFree
    /\ tmr' = [tmr EXCEPT ![t] = "off"]
    /\ Goto(t, "rcs")
    /\ UNCHANGED <<readers, writer, queue, mp, wk, aborted>>

(* rlockt: no writer and nobody queued: forgivewkp, q->_readers++ *)
RLocktFree(t) ==
    /\ pc[t] = "rlockt_lock" /\ GuardFree
    /\ ReadFree
    /\ readers' = readers + 1
    /\ tmr' = [tmr EXCEPT ![t] = "off"]
    /\ Goto(t, "rcs")
    /\ UNCHANGED <<writer, queue, mp, wk, aborted>>

(* rlockt: otherwise chain a QueuingR node, or give up at once if the     *)
(* alarm has fired                                                         *)
RLocktQueue(t) ==
    /\ pc[t] = "rlockt_lock" /\ GuardFree
    /\ ~ReadFree
    /\ BlockTimed(t, "R", "rlockt_park")

(* rlockt or wlockt: rendezvous returned ~0 and awakened(wkup): leave    *)
(* rendezvous to take q->lock                                              *)
Interrupted(t) ==
    /\ pc[t] \in {"rlockt_park", "wlockt_park"}
    /\ tmr[t] = "fired"
    /\ Goto(t, IF pc[t] = "rlockt_park" THEN "rlockt_relock" ELSE "wlockt_relock")
    /\ UNCHANGED <<readers, writer, queue, mp, wk, tmr, aborted>>

(* rlockt or wlockt: lock, releaseqlp(&q->head, &q->tail, mp), unlock, 0 *)
TimedOut(t) ==
    /\ pc[t] \in {"rlockt_relock", "wlockt_relock"} /\ GuardFree
    /\ ApplyRelease(t, mp[t], head, tail, next, inuse, cursor, kind)

(* rlockt: rendezvous returned: forgivewkp, mp->inuse = 0, return 1 *)
RLocktDone(t) ==
    /\ pc[t] = "rlockt_done"
    /\ tmr' = [tmr EXCEPT ![t] = "off"]
    /\ inuse' = [inuse EXCEPT ![mp[t]] = FALSE]
    /\ mp' = [mp EXCEPT ![t] = Nil]
    /\ Goto(t, "rcs")
    /\ UNCHANGED <<readers, writer, head, tail, next, cursor, kind, wk, aborted>>

(* mutant: runlock never hands the lock to a waiting writer *)
RUnlockNoHandoff(t) ==
    /\ pc[t] = "rcs" /\ GuardFree
    /\ readers > 0
    /\ readers' = readers - 1
    /\ Goto(t, "idle")
    /\ UNCHANGED <<writer, queue, mp, wk, tmr, aborted>>

(* runlock: --q->_readers; the last reader, with a waiter at the head,   *)
(* which must be a writer (else abort), unlinks it, sets q->writer and   *)
(* goes to rendezvous with it.  q->_readers <= 0 cannot hold here: the   *)
(* caller holds a read lock (OwnersAccounted).                           *)
RUnlock(t) ==
    /\ pc[t] = "rcs" /\ GuardFree
    /\ readers > 0
    /\ \/ /\ readers - 1 > 0 \/ head = Nil
          /\ readers' = readers - 1
          /\ Goto(t, "idle")
          /\ UNCHANGED <<writer, queue, mp, wk, tmr, aborted>>
       \/ /\ readers - 1 = 0 /\ head # Nil
          /\ ~HeadIs("W")
          /\ Abort("runlock")
       \/ /\ readers - 1 = 0 /\ HeadIs("W")
          /\ readers' = 0
          /\ head' = next[head]
          /\ tail' = IF next[head] = Nil THEN Nil ELSE tail
          /\ writer' = TRUE
          /\ wk' = [wk EXCEPT ![t] = head]
          /\ Goto(t, "runlock_wake")
          /\ UNCHANGED <<next, inuse, cursor, kind, mp, tmr, aborted>>
(* wlock: no reader and no writer: q->writer = 1 *)
WLockFree(t) ==
    /\ pc[t] = "idle" /\ GuardFree
    /\ WriteFree
    /\ writer' = TRUE
    /\ Goto(t, "wcs")
    /\ UNCHANGED <<readers, queue, mp, wk, tmr, aborted>>

(* wlock: otherwise queue a QueuingW node and wait in rendezvous *)
WLockQueue(t) ==
    /\ pc[t] = "idle" /\ GuardFree
    /\ ~WriteFree
    /\ Block(t, "W", "wlock_park")

(* wlock: rendezvous returned: mp->inuse = 0; the write lock is ours *)
WLockRelease(t) ==
    /\ pc[t] = "wlock_free"
    /\ inuse' = [inuse EXCEPT ![mp[t]] = FALSE]
    /\ mp' = [mp EXCEPT ![t] = Nil]
    /\ Goto(t, "wcs")
    /\ UNCHANGED <<readers, writer, head, tail, next, cursor, kind, wk, tmr, aborted>>

(* canwlock: the same test as wlock; a failed canwlock changes nothing *)
CanWLock(t) ==
    /\ pc[t] = "idle" /\ GuardFree
    /\ WriteFree
    /\ writer' = TRUE
    /\ Goto(t, "wcs")
    /\ UNCHANGED <<readers, queue, mp, wk, tmr, aborted>>

(* wlockt: wkup = awake(ms) *)
WLocktAwake(t) ==
    /\ t \in TimedThreads
    /\ pc[t] = "idle"
    /\ tmr' = [tmr EXCEPT ![t] = "armed"]
    /\ Goto(t, "wlockt_lock")
    /\ UNCHANGED <<readers, writer, queue, mp, wk, aborted>>

(* wlockt: lockt(&q->lock, ms) ran out of time: forgivewkp, return 0 *)
WLocktLockFail(t) ==
    /\ pc[t] = "wlockt_lock"
    /\ tmr[t] = "fired"
    /\ tmr' = [tmr EXCEPT ![t] = "off"]
    /\ Goto(t, "idle")
    /\ UNCHANGED <<readers, writer, queue, mp, wk, aborted>>

(* mutant: wlockt's fast path only checks q->writer *)
WLocktFreeBarging(t) ==
    /\ pc[t] = "wlockt_lock" /\ GuardFree
    /\ ~writer
    /\ writer' = TRUE
    /\ tmr' = [tmr EXCEPT ![t] = "off"]
    /\ Goto(t, "wcs")
    /\ UNCHANGED <<readers, queue, mp, wk, aborted>>

(* wlockt: no reader and no writer: forgivewkp, q->writer = 1 *)
WLocktFree(t) ==
    /\ pc[t] = "wlockt_lock" /\ GuardFree
    /\ WriteFree
    /\ writer' = TRUE
    /\ tmr' = [tmr EXCEPT ![t] = "off"]
    /\ Goto(t, "wcs")
    /\ UNCHANGED <<readers, queue, mp, wk, aborted>>

(* wlockt: otherwise chain a QueuingW node, or give up at once if the     *)
(* alarm has fired                                                         *)
WLocktQueue(t) ==
    /\ pc[t] = "wlockt_lock" /\ GuardFree
    /\ ~WriteFree
    /\ BlockTimed(t, "W", "wlockt_park")

(* wlockt: rendezvous returned: forgivewkp, mp->inuse = 0, return 1 *)
WLocktDone(t) ==
    /\ pc[t] = "wlockt_done"
    /\ tmr' = [tmr EXCEPT ![t] = "off"]
    /\ inuse' = [inuse EXCEPT ![mp[t]] = FALSE]
    /\ mp' = [mp EXCEPT ![t] = Nil]
    /\ Goto(t, "wcs")
    /\ UNCHANGED <<readers, writer, head, tail, next, cursor, kind, wk, aborted>>

(* mutant: the reader loop forgets q->_readers++ *)
WakeReaderUncounted(t) ==
    /\ head' = next[head]
    /\ wk' = [wk EXCEPT ![t] = head]
    /\ Goto(t, "wunlock_wakeR")
    /\ UNCHANGED <<readers, writer, tail, next, inuse, cursor, kind, mp, tmr, aborted>>

(* wunlock's reader loop, one turn: p = q->head; q->head = p->next;       *)
(* q->_readers++; then rendezvous(p) with q->lock still held.             *)
WakeReader(t) ==
    /\ head' = next[head]
    /\ readers' = readers + 1
    /\ wk' = [wk EXCEPT ![t] = head]
    /\ Goto(t, "wunlock_wakeR")
    /\ UNCHANGED <<writer, tail, next, inuse, cursor, kind, mp, tmr, aborted>>

(* wunlock (q->writer == 0 cannot hold: the caller holds the write lock, *)
(* OwnersAccounted).  No waiter: q->writer = 0.  A writer at the head:    *)
(* unlink it, unlock, rendezvous; q->writer stays 1.  A reader at the     *)
(* head: start the reader loop.  A node is always QueuingR or QueuingW,   *)
(* so the abort of line 465 is unreachable.                               *)
WUnlock(t) ==
    /\ pc[t] = "wcs" /\ GuardFree
    /\ writer
    /\ \/ /\ head = Nil
          /\ writer' = FALSE
          /\ Goto(t, "idle")
          /\ UNCHANGED <<readers, queue, mp, wk, tmr, aborted>>
       \/ /\ HeadIs("W")
          /\ head' = next[head]
          /\ tail' = IF next[head] = Nil THEN Nil ELSE tail
          /\ wk' = [wk EXCEPT ![t] = head]
          /\ Goto(t, "wunlock_wakeW")
          /\ UNCHANGED <<readers, writer, next, inuse, cursor, kind, mp, tmr, aborted>>
       \/ /\ HeadIs("R")
          /\ WakeReader(t)

(* mutant: wunlock leaves the loop without resetting q->tail *)
WUnlockNextKeepTail(t) ==
    /\ pc[t] = "wunlock_next"
    /\ \/ /\ HeadIs("R")
          /\ WakeReader(t)
       \/ /\ ~HeadIs("R")
          /\ writer' = FALSE
          /\ Goto(t, "idle")
          /\ UNCHANGED <<readers, head, tail, next, inuse, cursor, kind, mp, wk, tmr, aborted>>

(* mutant: wunlock wakes only the first reader of the batch *)
WUnlockNextOnce(t) ==
    /\ pc[t] = "wunlock_next"
    /\ tail' = IF head = Nil THEN Nil ELSE tail
    /\ writer' = FALSE
    /\ Goto(t, "idle")
    /\ UNCHANGED <<readers, head, next, inuse, cursor, kind, mp, wk, tmr, aborted>>

(* wunlock: the loop test after a rendezvous; on leaving the loop,        *)
(* if(q->head == nil) q->tail = nil, q->writer = 0, unlock.                *)
WUnlockNext(t) ==
    /\ pc[t] = "wunlock_next"
    /\ \/ /\ HeadIs("R")
          /\ WakeReader(t)
       \/ /\ ~HeadIs("R")
          /\ tail' = IF head = Nil THEN Nil ELSE tail
          /\ writer' = FALSE
          /\ Goto(t, "idle")
          /\ UNCHANGED <<readers, head, next, inuse, cursor, kind, mp, wk, tmr, aborted>>

(* the alarm goes off *)
Fire(t) ==
    /\ tmr[t] = "armed"
    /\ tmr' = [tmr EXCEPT ![t] = "fired"]
    /\ UNCHANGED <<readers, writer, queue, pc, mp, wk, aborted>>

-----------------------------------------------------------------------------
Parks   == {"rlock_park", "rlockt_park", "wlock_park", "wlockt_park"}
Wakers  == {"runlock_wake", "wunlock_wakeW", "wunlock_wakeR"}

(* the tag a thread is blocked on in rendezvous, or Nil *)
Tag(t) == CASE pc[t] \in Parks  -> mp[t]
            [] pc[t] \in Wakers -> wk[t]
            [] OTHER            -> Nil

AfterRendezvous(l) ==
    CASE l = "rlock_park"    -> "rlock_free"
      [] l = "rlockt_park"   -> "rlockt_done"
      [] l = "wlock_park"    -> "wlock_free"
      [] l = "wlockt_park"   -> "wlockt_done"
      [] l = "wunlock_wakeR" -> "wunlock_next"
      [] OTHER               -> "idle"

(* two threads in rendezvous on the same tag exchange values and return *)
Rendezvous(t, u) ==
    /\ t # u
    /\ Tag(t) # Nil /\ Tag(t) = Tag(u)
    /\ pc' = [pc EXCEPT ![t] = AfterRendezvous(pc[t]),
                        ![u] = AfterRendezvous(pc[u])]
    /\ wk' = [wk EXCEPT ![t] = IF pc[t] \in Wakers THEN Nil ELSE wk[t],
                        ![u] = IF pc[u] \in Wakers THEN Nil ELSE wk[u]]
    /\ UNCHANGED <<readers, writer, queue, mp, tmr, aborted>>

Start(t) ==
    \/ RLockFree(t) \/ RLockQueue(t) \/ CanRLock(t) \/ RLocktAwake(t)
    \/ WLockFree(t) \/ WLockQueue(t) \/ CanWLock(t) \/ WLocktAwake(t)

Inside(t) ==
    \/ RLockRelease(t) \/ RLocktLockFail(t) \/ RLocktFree(t) \/ RLocktQueue(t)
    \/ RLocktDone(t) \/ RUnlock(t)
    \/ WLockRelease(t) \/ WLocktLockFail(t) \/ WLocktFree(t) \/ WLocktQueue(t)
    \/ WLocktDone(t) \/ WUnlock(t) \/ WUnlockNext(t)
    \/ Interrupted(t) \/ TimedOut(t) \/ Fire(t)

Next ==
    \/ /\ aborted = "none"
       /\ \E t \in Threads : Start(t) \/ Inside(t)
                             \/ \E u \in Threads : Rendezvous(t, u)
    \/ aborted # "none" /\ UNCHANGED vars

Spec == /\ Init /\ [][Next]_vars
        /\ \A t \in Threads : WF_vars(aborted = "none" /\ Inside(t))
        /\ \A t, u \in Threads : WF_vars(aborted = "none" /\ Rendezvous(t, u))
-----------------------------------------------------------------------------
Relocks == {"rlockt_relock", "wlockt_relock"}

(* a waiter whose node runlock or wunlock has unlinked and is about to    *)
(* rendezvous with: the lock is in transit to it                          *)
Popped(u) == \E w \in Threads : pc[w] \in Wakers /\ wk[w] = mp[u] /\ mp[u] # Nil

ReadOwners ==
    {t \in Threads : pc[t] \in {"rcs", "rlock_free", "rlockt_done"}}
    \cup {u \in Threads : pc[u] \in {"rlock_park", "rlockt_park", "rlockt_relock"} /\ Popped(u)}
WriteOwners ==
    {t \in Threads : pc[t] \in {"wcs", "wlock_free", "wlockt_done"}}
    \cup {u \in Threads : pc[u] \in {"wlock_park", "wlockt_park", "wlockt_relock"} /\ Popped(u)}

(* the writer running wunlock's reader loop: it still has q->writer set *)
Releasing == {t \in Threads : pc[t] \in {"wunlock_wakeR", "wunlock_next"}}

(* The counters of the RWLock account for its owners: q->_readers is the  *)
(* number of threads holding (or being handed) a read lock, q->writer is  *)
(* set exactly while one thread holds (or is being handed, or is still    *)
(* releasing) the write lock, and readers and a writer never hold it at   *)
(* once.  Broken by a runlock, wunlock or timeout that loses or invents   *)
(* an owner.                                                              *)
OwnersAccounted ==
    /\ readers = Cardinality(ReadOwners)
    /\ writer <=> (WriteOwners \cup Releasing) # {}
    /\ Cardinality(WriteOwners \cup Releasing) <= 1
    /\ WriteOwners = {} \/ ReadOwners = {}

(* The wait list is well formed whenever q->lock is free of wunlock's     *)
(* reader loop (which resets q->tail only when it ends): acyclic, ending  *)
(* at tail, and made of claimed nodes.                                    *)
QueueWellFormed == Releasing = {} => WellFormed(head, tail, next, inuse)

(* the thread waiting on node n *)
Waiter(n) == IF \E u \in Threads : pc[u] \in Parks \cup Relocks /\ mp[u] = n
             THEN CHOOSE u \in Threads : pc[u] \in Parks \cup Relocks /\ mp[u] = n
             ELSE NoOwner

WaitList == LET L == Walk(head, next, 0)
            IN  [i \in 1 .. Len(L) |-> <<Waiter(L[i]), kind[L[i]]>>]

(* while wunlock's reader loop runs, the readers still at the front of    *)
(* the list are already admitted: nobody else can take q->lock.           *)
Admitted ==
    IF Releasing = {} THEN 0
    ELSE LET w == SelectInSeq(WaitList, LAMBDA e : e[2] = "W")
         IN  IF w = 0 THEN Len(WaitList) ELSE w - 1

(* The RWLock implements RWLockSpec: readers and writers are admitted in  *)
(* the order of the one wait list, a reader never overtakes a queued      *)
(* writer, and the last reader or the writer hands the lock on to the     *)
(* head of the list.                                                      *)
Abstract == INSTANCE RWLockSpec
    WITH rd    <- ReadOwners \cup {WaitList[i][1] : i \in 1 .. Admitted},
         wr    <- IF WriteOwners = {} THEN NoOwner ELSE CHOOSE o \in WriteOwners : TRUE,
         waitq <- SubSeq(WaitList, Admitted + 1, Len(WaitList))

RWLockRefined == Abstract!Spec

(* Every thread blocked in rlock or wlock eventually holds the lock it     *)
(* asked for, given that holders unlock: no writer is starved by readers  *)
(* and no reader batch by writers.                                        *)
NoStarvation ==
    \A t \in Threads :
        /\ (pc[t] = "rlock_park") ~> (pc[t] = "rcs")
        /\ (pc[t] = "wlock_park") ~> (pc[t] = "wcs")

(* Readers and writers exclude each other and there is at most one       *)
(* writer (spec.md 8): whatever the counters say, no two threads holding  *)
(* or being handed the lock conflict.                                     *)
RWExclusion ==
    /\ Cardinality(WriteOwners) <= 1
    /\ WriteOwners = {} \/ ReadOwners = {}

(* A reader waits at the head of the list only while a writer holds the   *)
(* lock (or is still running wunlock's reader loop): runlock relies on    *)
(* this when it aborts on a reader at the head, and a reader stranded at  *)
(* the head of an unlocked list is never woken.                           *)
ReaderQueuedBehindWriter == HeadIs("R") => writer

(* wunlock returns: a writer waking the leading readers is never stuck in *)
(* that loop, whose rendezvous calls it makes with q->lock held.          *)
WUnlockReturns == \A t \in Threads : (pc[t] = "wunlock_wakeR") ~> (pc[t] = "idle")
=============================================================================
