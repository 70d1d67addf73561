------------------------------ MODULE FastLock ------------------------------
(***************************************************************************)
(* The semaphore-backed spin-free Lock of lib/c/port/lock.c.               *)
(*                                                                         *)
(*   key  the atomic counter l->key (jehanne_ainc/jehanne_adec return the  *)
(*        new value);                                                      *)
(*   sem  the kernel semaphore l->sem (semacquire waits for sem > 0 and    *)
(*        takes one, semrelease adds one).                                 *)
(*                                                                         *)
(* Each thread runs a client loop: from "idle" it calls jehanne_lock,      *)
(* jehanne_canlock or jehanne_lockt; once it holds the lock ("cs") it      *)
(* calls jehanne_unlock.  Every atomic instruction or system call is one   *)
(* step, so other threads interleave between ainc/adec and the semaphore   *)
(* call that follows it.  An interrupted semacquire retries with no state  *)
(* change and is a stuttering step.                                        *)
(***************************************************************************)
EXTENDS Naturals, FiniteSets

CONSTANTS
    Threads,      \* the threads sharing one Lock
    UseCanLock,   \* whether clients call jehanne_canlock
    UseLockT,     \* whether clients call jehanne_lockt
    MaxSem,       \* bound: a client starts canlock only while sem < MaxSem
    MaxTimeouts   \* bound: lockt is called only while timeouts < MaxTimeouts

ASSUME /\ UseCanLock \in BOOLEAN /\ UseLockT \in BOOLEAN
       /\ MaxSem \in Nat /\ MaxTimeouts \in Nat

VARIABLES
    key,        \* l->key
    sem,        \* l->sem
    pc,         \* where each thread is in its client loop
    timeouts    \* number of lockt calls that timed out (bounds the model)

vars == <<key, sem, pc, timeouts>>

PCs == {"idle", "cs", "lock_sem", "unlock_sem",
        "canlock_adec", "canlock_sem", "lockt_sem"}

(* Type invariant: key and sem are counts and every thread is at a step *)
(* of lock, unlock, canlock or lockt.                                     *)
TypeOK == /\ key \in Nat /\ sem \in Nat
          /\ pc \in [Threads -> PCs]
          /\ timeouts \in Nat

Init == /\ key = 0 /\ sem = 0
        /\ pc = [t \in Threads |-> "idle"]
        /\ timeouts = 0

Goto(t, l) == pc' = [pc EXCEPT ![t] = l]

(* jehanne_lock: ainc; 0 -> 1 means we hold the lock, else wait in kernel *)
LockAinc(t) ==
    /\ pc[t] = "idle"
    /\ key' = key + 1
    /\ Goto(t, IF key + 1 = 1 THEN "cs" ELSE "lock_sem")
    /\ UNCHANGED <<sem, timeouts>>

(* mutant: the result of semacquire is not waited for *)
LockSemacquireNoWait(t) ==
    /\ pc[t] = "lock_sem"
    /\ sem' = sem - 1
    /\ Goto(t, "cs")
    /\ UNCHANGED <<key, timeouts>>

(* jehanne_lock: while(semacquire(&l->sem, 1) < 0) ;                      *)
LockSemacquire(t) ==
    /\ pc[t] = "lock_sem"
    /\ sem > 0
    /\ sem' = sem - 1
    /\ Goto(t, "cs")
    /\ UNCHANGED <<key, timeouts>>

(* mutant: unlock posts the semaphore even when nobody waits *)
UnlockAdecAlwaysPost(t) ==
    /\ pc[t] = "cs"
    /\ key' = key - 1
    /\ Goto(t, "unlock_sem")
    /\ UNCHANGED <<sem, timeouts>>

(* mutant: unlock posts only when two or more threads wait *)
UnlockAdecLostPost(t) ==
    /\ pc[t] = "cs"
    /\ key' = key - 1
    /\ Goto(t, IF key - 1 <= 1 THEN "idle" ELSE "unlock_sem")
    /\ UNCHANGED <<sem, timeouts>>

(* jehanne_unlock: adec; 1 -> 0 means no contention, else post once      *)
UnlockAdec(t) ==
    /\ pc[t] = "cs"
    /\ key' = key - 1
    /\ Goto(t, IF key - 1 = 0 THEN "idle" ELSE "unlock_sem")
    /\ UNCHANGED <<sem, timeouts>>

UnlockSemrelease(t) ==
    /\ pc[t] = "unlock_sem"
    /\ sem' = sem + 1
    /\ Goto(t, "idle")
    /\ UNCHANGED <<key, timeouts>>

(* jehanne_canlock: ainc; on failure undo with adec and, when the undo    *)
(* does not bring key to 0, semrelease once.                              *)
CanlockAinc(t) ==
    /\ UseCanLock
    /\ pc[t] = "idle"
    /\ sem < MaxSem
    /\ key' = key + 1
    /\ Goto(t, IF key + 1 = 1 THEN "cs" ELSE "canlock_adec")
    /\ UNCHANGED <<sem, timeouts>>

(* mutant: a failed canlock does not undo its increment *)
CanlockAdecNoUndo(t) ==
    /\ pc[t] = "canlock_adec"
    /\ Goto(t, "idle")
    /\ UNCHANGED <<key, sem, timeouts>>

CanlockAdec(t) ==
    /\ pc[t] = "canlock_adec"
    /\ key' = key - 1
    /\ Goto(t, IF key - 1 = 0 THEN "idle" ELSE "canlock_sem")
    /\ UNCHANGED <<sem, timeouts>>

CanlockSemrelease(t) ==
    /\ pc[t] = "canlock_sem"
    /\ sem' = sem + 1
    /\ Goto(t, "idle")
    /\ UNCHANGED <<key, timeouts>>

(* jehanne_lockt: ainc, then tsemacquire until acquired or time is up.    *)
LocktAinc(t) ==
    /\ UseLockT
    /\ pc[t] = "idle"
    /\ timeouts < MaxTimeouts
    /\ key' = key + 1
    /\ Goto(t, IF key + 1 = 1 THEN "cs" ELSE "lockt_sem")
    /\ UNCHANGED <<sem, timeouts>>

(* tsemacquire returned 1: the lock is ours                               *)
LocktTsemacquire(t) ==
    /\ pc[t] = "lockt_sem"
    /\ sem > 0
    /\ sem' = sem - 1
    /\ Goto(t, "cs")
    /\ UNCHANGED <<key, timeouts>>

(* tsemacquire returned 0, or the loop ran out of time after an           *)
(* interrupt: lockt returns 0.  The kernel takes an available count       *)
(* before reporting a timeout, so this needs sem = 0.  key is left as it  *)
(* is: lockt does not undo its ainc.                                      *)
LocktTimeout(t) ==
    /\ pc[t] = "lockt_sem"
    /\ sem = 0
    /\ timeouts' = timeouts + 1
    /\ Goto(t, "idle")
    /\ UNCHANGED <<key, sem>>

(* the steps a thread takes once it is inside a lock call                 *)
Inside(t) ==
    \/ LockSemacquire(t) \/ UnlockAdec(t) \/ UnlockSemrelease(t)
    \/ CanlockAdec(t) \/ CanlockSemrelease(t)
    \/ LocktTsemacquire(t) \/ LocktTimeout(t)

Start(t) == LockAinc(t) \/ CanlockAinc(t) \/ LocktAinc(t)

Next == \E t \in Threads : Start(t) \/ Inside(t)

(* A thread that has called into the library keeps being scheduled; a     *)
(* thread in "idle" need never call again.                                *)
Spec == Init /\ [][Next]_vars /\ \A t \in Threads : WF_vars(Inside(t))

-----------------------------------------------------------------------------
Holders == {t \in Threads : pc[t] = "cs"}

(* Mutual exclusion: at most one thread is between a successful           *)
(* jehanne_lock/canlock/lockt and its jehanne_unlock.                     *)
MutualExclusion == Cardinality(Holders) <= 1

(* The data-model invariant of the Lock: key counts the holder and every  *)
(* thread whose ainc is still outstanding (waiting in semacquire, or      *)
(* about to undo a failed canlock).                                       *)
KeyAccounting ==
    key = Cardinality({t \in Threads :
                         pc[t] \in {"cs", "lock_sem", "lockt_sem", "canlock_adec"}})

(* No lost wakeup: whenever a thread waits in semacquire, some thread     *)
(* eventually holds the lock.                                             *)
NoLostWakeup ==
    (\E t \in Threads : pc[t] = "lock_sem") ~> (Holders # {})
=============================================================================
