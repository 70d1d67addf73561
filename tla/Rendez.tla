-------------------------------- MODULE Rendez --------------------------------
(***************************************************************************)
(* The Rendez of libc/9sys/qlock.c, composed with the QLock r->l it is     *)
(* bound to: rsleep, rsleept, rwakeup, rwakeupall.  The QLock's state,     *)
(* actions and reductions are those of module QLock; a Rendez adds its own *)
(* list of sleeping nodes, r->head..r->tail, drawn from the same pool and  *)
(* guarded by the same r->l->lock.                                         *)
(*                                                                         *)
(* A client thread takes the QLock and, while it holds it ("cs"), calls    *)
(* qunlock, rsleep (or rsleept, for the threads in SleepTimed), rwakeup or *)
(* rwakeupall.  rsleep and rsleept return to "cs": their callers continue  *)
(* as holders of the QLock, which is what spec.md 4.5 promises them.       *)
(* r->l is always set, so the abort on a nil r->l is not modelled.          *)
(***************************************************************************)
EXTENDS QLock

CONSTANTS
    SleepTimed   \* the threads that call rsleept instead of rsleep

ASSUME SleepTimed \subseteq Threads

VARIABLES
    rhead,   \* r->head
    rtail    \* r->tail

rvars == <<rhead, rtail>>
allvars == <<vars, rhead, rtail>>

RPCs == PCs \cup {"rsleep_wake", "rsleep_park", "rsleep_free", "rsleept_lock",
                  "rsleept_wake", "rsleept_park", "rsleept_done", "rwakeupall"}

(* Type invariant: the pointers of both lists, mp and wk are pool nodes  *)
(* or nil, ql.p is a node, and every thread is at a known step.         *)
RTypeOK ==
    /\ locked \in BOOLEAN
    /\ aborted \in {"none", "getqlp", "releaseqlp", "rsleep", "rwakeup"}
    /\ head \in Node /\ tail \in Node /\ rhead \in Node /\ rtail \in Node
    /\ cursor \in Slots
    /\ next \in [Slots -> Node] /\ inuse \in [Slots -> BOOLEAN]
    /\ pc \in [Threads -> RPCs]
    /\ mp \in [Threads -> Node] /\ wk \in [Threads -> Node]
    /\ tmr \in [Threads -> {"off", "armed", "fired"}]

RInit == Init /\ rhead = Nil /\ rtail = Nil

(* a QLock step leaves the Rendez list alone *)
QLockStep(t) == (Start(t) \/ Inside(t)) /\ UNCHANGED rvars

(* a QLock step of a thread already inside a call *)
QLockInside(t) == Inside(t) /\ UNCHANGED rvars

RAbort(f) == Abort(f) /\ UNCHANGED rvars

-----------------------------------------------------------------------------
(* me->next after chaining node s at the end of r's list: the code tests  *)
(* r->head, not r->tail, and sets me->next = nil after r->tail->next = me. *)
SleepNext(s) == IF rhead = Nil THEN [next EXCEPT ![s] = Nil]
                ELSE [next EXCEPT ![rtail] = s, ![s] = Nil]

(* mutant: ql.p is set from r->tail instead of the claimed node *)
ChainSleeperCursorRTail(t, s) ==
    /\ rhead' = IF rhead = Nil THEN s ELSE rhead
    /\ rtail' = s
    /\ next' = SleepNext(s)
    /\ inuse' = [inuse EXCEPT ![s] = TRUE]
    /\ cursor' = rtail
    /\ mp' = [mp EXCEPT ![t] = s]

(* getqlp claimed s (ql.p = s); chain it at the end of r's list *)
ChainSleeper(t, s) ==
    /\ rhead' = IF rhead = Nil THEN s ELSE rhead
    /\ rtail' = s
    /\ next' = SleepNext(s)
    /\ inuse' = [inuse EXCEPT ![s] = TRUE]
    /\ cursor' = s
    /\ mp' = [mp EXCEPT ![t] = s]

(* mutant: with nobody queued, the QLock is not marked free *)
PassQLockKeepLocked(t, n1, wakeL, parkL) ==
    \/ /\ head # Nil
       /\ head' = n1[head]
       /\ tail' = IF n1[head] = Nil THEN Nil ELSE tail
       /\ wk' = [wk EXCEPT ![t] = head]
       /\ Goto(t, wakeL)
       /\ UNCHANGED locked
    \/ /\ head = Nil
       /\ Goto(t, parkL)
       /\ UNCHANGED <<locked, head, tail, wk>>

(* pass the qlock to the next guy: unlink the head of the QLock's list,   *)
(* read through the links n1, and rendezvous with it next (at wakeL), or *)
(* mark the QLock free; then wait at parkL.                               *)
PassQLock(t, n1, wakeL, parkL) ==
    \/ /\ head # Nil
       /\ head' = n1[head]
       /\ tail' = IF n1[head] = Nil THEN Nil ELSE tail
       /\ wk' = [wk EXCEPT ![t] = head]
       /\ Goto(t, wakeL)
       /\ UNCHANGED locked
    \/ /\ head = Nil
       /\ locked' = FALSE
       /\ Goto(t, parkL)
       /\ UNCHANGED <<head, tail, wk>>

(* The common body of rsleep and rsleept once r->l->lock is held and the  *)
(* QLock is known held: getqlp (abort when the pool is exhausted), chain  *)
(* the node on r's list, pass the QLock on.                               *)
Sleep(t, wakeL, parkL) ==
    LET s == GetQlp(inuse, cursor) IN
    \/ s = Nil /\ RAbort("getqlp")
    \/ /\ s # Nil
       /\ ChainSleeper(t, s)
       /\ PassQLock(t, SleepNext(s), wakeL, parkL)
       /\ UNCHANGED <<tmr, aborted>>

(* rsleep: lock(&r->l->lock); abort unless the QLock is held; then Sleep *)
RSleep(t) ==
    /\ pc[t] = "cs" /\ GuardFree /\ t \notin SleepTimed
    /\ \/ ~locked /\ RAbort("rsleep")
       \/ locked /\ Sleep(t, "rsleep_wake", "rsleep_park")

(* rsleep: the wakeup rendezvous returned: me->inuse = 0, the QLock is ours *)
RSleepFree(t) ==
    /\ pc[t] = "rsleep_free"
    /\ inuse' = [inuse EXCEPT ![mp[t]] = FALSE]
    /\ mp' = [mp EXCEPT ![t] = Nil]
    /\ Goto(t, "cs")
    /\ UNCHANGED <<locked, head, tail, next, cursor, wk, tmr, aborted, rhead, rtail>>

(* rsleept: wkup = awake(ms) *)
RSleeptAwake(t) ==
    /\ pc[t] = "cs" /\ t \in SleepTimed
    /\ tmr' = [tmr EXCEPT ![t] = "armed"]
    /\ Goto(t, "rsleept_lock")
    /\ UNCHANGED <<locked, queue, mp, wk, aborted, rhead, rtail>>

(* rsleept: lockt(&r->l->lock, ms) ran out of time: forgivewkp, return 0 *)
(* with the QLock still held, never released.                            *)
RSleeptLockFail(t) ==
    /\ pc[t] = "rsleept_lock" /\ tmr[t] = "fired"
    /\ tmr' = [tmr EXCEPT ![t] = "off"]
    /\ Goto(t, "cs")
    /\ UNCHANGED <<locked, queue, mp, wk, aborted, rhead, rtail>>

(* rsleept holding r->l->lock: abort unless the QLock is held; then Sleep *)
RSleeptLocked(t) ==
    /\ pc[t] = "rsleept_lock" /\ GuardFree
    /\ \/ ~locked /\ RAbort("rsleep")
       \/ locked /\ Sleep(t, "rsleept_wake", "rsleept_park")

(* rsleept, the do-while loop: awakened(wkup) (checked before the first   *)
(* rendezvous and after every interrupted one): lock, releaseqlp(&r->head, *)
(* &r->tail, me), unlock, return 0.  No forgivewkp, and the QLock is not   *)
(* taken again.                                                            *)
RSleeptTimeout(t) ==
    /\ pc[t] = "rsleept_park" /\ GuardFree /\ tmr[t] = "fired"
    /\ LET r == ReleaseQlp(rhead, rtail, next, inuse, mp[t]) IN
       \/ r.outcome = "abort" /\ RAbort("releaseqlp")
       \/ /\ r.outcome = "loop"
          /\ Goto(t, "releaseqlp_loop")
          /\ UNCHANGED <<locked, queue, mp, wk, tmr, aborted, rhead, rtail>>
       \/ /\ r.outcome = "ok"
          /\ rhead' = r.head /\ rtail' = r.tail /\ next' = r.next /\ inuse' = r.inuse
          /\ mp' = [mp EXCEPT ![t] = Nil]
          /\ tmr' = [tmr EXCEPT ![t] = "off"]
          /\ Goto(t, "cs")
          /\ UNCHANGED <<locked, head, tail, cursor, wk, aborted>>

(* rsleept: the rendezvous returned: forgivewkp, me->inuse = 0, return 1 *)
RSleeptDone(t) ==
    /\ pc[t] = "rsleept_done"
    /\ tmr' = [tmr EXCEPT ![t] = "off"]
    /\ inuse' = [inuse EXCEPT ![mp[t]] = FALSE]
    /\ mp' = [mp EXCEPT ![t] = Nil]
    /\ Goto(t, "cs")
    /\ UNCHANGED <<locked, head, tail, next, cursor, wk, aborted, rhead, rtail>>
-----------------------------------------------------------------------------
(* mutant: the woken node is appended at the tail of the QLock's list *)
MoveToTail ==
    /\ rhead' = next[rhead]
    /\ rtail' = IF next[rhead] = Nil THEN Nil ELSE rtail
    /\ next' = AppendNext(tail, next, rhead)
    /\ head' = IF tail = Nil THEN rhead ELSE head
    /\ tail' = rhead

(* mutant: r->tail is not cleared when r's list empties *)
MoveKeepRTail ==
    /\ rhead' = next[rhead]
    /\ rtail' = rtail
    /\ next' = [next EXCEPT ![rhead] = head]
    /\ head' = rhead
    /\ tail' = IF tail = Nil THEN rhead ELSE tail

(* take the head off r's list and put it on the front of the QLock's list *)
MoveToFront ==
    /\ rhead' = next[rhead]
    /\ rtail' = IF next[rhead] = Nil THEN Nil ELSE rtail
    /\ next' = [next EXCEPT ![rhead] = head]
    /\ head' = rhead
    /\ tail' = IF tail = Nil THEN rhead ELSE tail

(* One rwakeup on behalf of t, holding r->l->lock: abort unless the QLock *)
(* is held; return 0 (to l0) when r's list is empty; else move its head   *)
(* and return 1 (to l1).                                                  *)
Wake(t, l1, l0) ==
    /\ GuardFree
    /\ \/ ~locked /\ RAbort("rwakeup")
       \/ /\ locked /\ rhead = Nil
          /\ Goto(t, l0)
          /\ UNCHANGED <<locked, queue, mp, wk, tmr, aborted, rhead, rtail>>
       \/ /\ locked /\ rhead # Nil
          /\ MoveToFront
          /\ Goto(t, l1)
          /\ UNCHANGED <<locked, inuse, cursor, mp, wk, tmr, aborted>>

RWakeup(t) == pc[t] = "cs" /\ Wake(t, "cs", "cs")

(* rwakeupall: for(i=0; rwakeup(r); i++); each call its own section *)
RWakeupAll(t) == pc[t] \in {"cs", "rwakeupall"} /\ Wake(t, "rwakeupall", "cs")

-----------------------------------------------------------------------------
(* the tag a thread is blocked on in rendezvous, or Nil *)
SleepTag(t) == CASE pc[t] \in {"rsleep_park", "rsleept_park"} -> mp[t]
                 [] pc[t] \in {"rsleep_wake", "rsleept_wake"} -> wk[t]
                 [] OTHER                                      -> Tag(t)

Wakers == {"qunlock_wake", "rsleep_wake", "rsleept_wake"}

AfterSleepRendezvous(l) ==
    CASE l = "rsleep_wake"  -> "rsleep_park"
      [] l = "rsleep_park"  -> "rsleep_free"
      [] l = "rsleept_wake" -> "rsleept_park"
      [] l = "rsleept_park" -> "rsleept_done"
      [] OTHER              -> AfterRendezvous(l)

(* two threads in rendezvous on the same tag exchange values and return *)
SleepRendezvous(t, u) ==
    /\ t # u
    /\ SleepTag(t) # Nil /\ SleepTag(t) = SleepTag(u)
    /\ pc' = [pc EXCEPT ![t] = AfterSleepRendezvous(pc[t]),
                        ![u] = AfterSleepRendezvous(pc[u])]
    /\ wk' = [wk EXCEPT ![t] = IF pc[t] \in Wakers THEN Nil ELSE wk[t],
                        ![u] = IF pc[u] \in Wakers THEN Nil ELSE wk[u]]
    /\ UNCHANGED <<locked, queue, mp, tmr, aborted, rhead, rtail>>

RCall(t) ==
    \/ RSleep(t) \/ RSleepFree(t) \/ RSleeptAwake(t) \/ RSleeptLockFail(t)
    \/ RSleeptLocked(t) \/ RSleeptTimeout(t) \/ RSleeptDone(t)
    \/ RWakeup(t) \/ RWakeupAll(t)

(* After abort() no step is enabled: the process is gone. *)
RNext ==
    /\ aborted = "none"
    /\ \E t \in Threads : \/ QLockStep(t) \/ RCall(t)
                          \/ \E u \in Threads : SleepRendezvous(t, u)

(* A holder of the QLock eventually leaves "cs" (by qunlock or a sleep)   *)
(* and a thread inside a call eventually takes its next step: the client  *)
(* threads are scheduled by the kernel.  Starting a qlock is not fair.    *)
RSpec ==
    /\ RInit /\ [][RNext]_allvars
    /\ \A t \in Threads :
          WF_allvars(aborted = "none" /\ (QLockInside(t) \/ RCall(t)))
    /\ \A t, u \in Threads : WF_allvars(aborted = "none" /\ SleepRendezvous(t, u))
-----------------------------------------------------------------------------
(* The threads that have a node on one of the two lists, or one in        *)
(* transit between a list and its rendezvous                             *)
NodeHolders == {u \in Threads : pc[u] \in {"qlock_park", "qlockt_park", "rsleep_wake",
                                         "rsleep_park", "rsleept_wake", "rsleept_park"}}
Sleeping == {u \in Threads : pc[u] \in {"rsleep_park", "rsleept_park"}}
(* a parked thread whose node a waker has unlinked and will rendezvous on *)
HandedOver == {u \in NodeHolders : \E w \in Threads : pc[w] \in Wakers /\ wk[w] = mp[u]}
ROwners == {t \in Threads : pc[t] \in {"cs", "qlock_free", "qlockt_done", "rsleep_free",
                                       "rsleept_lock", "rsleept_done", "rwakeupall"}}
           \cup HandedOver

OnList(h) == LET L == Walk(h, next, 0) IN {L[i] : i \in 1 .. Len(L)}

(* Ownership through sleeps: while q->locked is set exactly one thread    *)
(* owns the QLock (holds it, or is being handed it by qunlock's or a      *)
(* sleeper's rendezvous), and none does once it is clear.  rsleep must     *)
(* give the lock up and every woken sleeper must get it back.            *)
SleepOwnership == IF locked THEN Cardinality(ROwners) = 1 ELSE ROwners = {}

(* Every node is accounted for: each thread blocked in qlock, rsleep or   *)
(* rsleept has its node on exactly one of the QLock's list and r's list,  *)
(* or handed to it by a waker, and both lists are well formed.  rwakeup   *)
(* moving a node between the lists must neither drop it (a lost wakeup)   *)
(* nor leave it on both (spec.md 3, WaitCondition).                       *)
NodesAccounted ==
    /\ WellFormed(head, tail, next, inuse) /\ WellFormed(rhead, rtail, next, inuse)
    /\ \A u \in NodeHolders :
          LET places == {p \in {"qlock", "rendez", "handed"} :
                           \/ p = "qlock" /\ mp[u] \in OnList(head)
                           \/ p = "rendez" /\ mp[u] \in OnList(rhead)
                           \/ p = "handed" /\ u \in HandedOver}
          IN  /\ Cardinality(places) = 1
              /\ pc[u] \in {"qlock_park", "qlockt_park"} => "rendez" \notin places

(* the thread waiting on a node, or NoOwner *)
WaiterOn(n) == IF \E u \in NodeHolders : mp[u] = n
               THEN CHOOSE u \in NodeHolders : mp[u] = n ELSE NoOwner
ListThreads(h) == LET L == Walk(h, next, 0) IN [i \in 1 .. Len(L) |-> WaiterOn(L[i])]

(* The Rendez and its QLock implement RendezSpec: rsleep releases the     *)
(* QLock and joins the sleep queue in one step, rwakeup moves the first   *)
(* sleeper to the front of the QLock's queue, and the QLock stays a FIFO  *)
(* mutex with direct handoff throughout.                                  *)
RAbstract == INSTANCE RendezSpec
    WITH owner  <- IF ROwners = {} THEN NoOwner ELSE CHOOSE o \in ROwners : TRUE,
         waitq  <- ListThreads(head),
         sleepq <- ListThreads(rhead)

RendezRefined == RAbstract!Spec

(* A woken sleeper gets the QLock back: once rwakeup has taken its node   *)
(* off r's list, a thread in rsleep eventually returns holding the lock.  *)
WokenAcquires ==
    \A t \in Threads :
        (pc[t] = "rsleep_park" /\ mp[t] \notin OnList(rhead)) ~> (pc[t] = "cs")
=============================================================================
