------------------------------- MODULE Atexit -------------------------------
(***************************************************************************)
(* The exit-handler table of libc (src/sys/src/lib/c/port/atexit.c).      *)
(* The processes of one program share the global array onex[NEXIT]; each  *)
(* entry holds a handler f and the pid that registered it.               *)
(*                                                                         *)
(*   jehanne_atexit(f)      under onexlock: the first slot with f = 0     *)
(*                          gets pid, then f; returns 0 when none is free *)
(*   jehanne_atexitdont(f)  no lock: clears every slot holding f with the *)
(*                          caller's pid                                  *)
(*   jehanne_exits(s)       no lock: from slot NEXIT-1 down to 0, clears  *)
(*                          and calls every handler of the caller's pid   *)
(*                                                                         *)
(* onexlock is a FastLock; the model takes it as an atomic mutex, which  *)
(* FastLock keeps (run fastlock_lockt, MutualExclusion).                  *)
(* Only atexit takes it: atexitdont and exits read and clear the table    *)
(* while another process may be filling a slot.  The per-slot test and    *)
(* clear of atexitdont and exits is one step: a slot whose f is non-zero  *)
(* and whose pid is the caller's can be changed by the caller alone, and  *)
(* atexit stores pid before f, so a slot being filled never shows the     *)
(* reader's pid beside a non-zero f.  A handler's own body is not         *)
(* modelled: calling it is the step that clears its slot.                *)
(*                                                                         *)
(* owed is a history variable: for each process, the bag of handlers it   *)
(* has registered with success and not yet cancelled or run.              *)
(***************************************************************************)
EXTENDS Integers, Bags

CONSTANTS
    Procs,       \* the processes of the program (their pids)
    Handlers,    \* the functions passed to atexit
    NEXIT,       \* the size of the table (33 in the code)
    NoHandler,   \* f = 0: a free slot
    NoPid,       \* the pid of a slot never used
    NoOwner      \* onexlock is free

ASSUME NEXIT \in Nat \ {0}
ASSUME NoHandler \notin Handlers /\ NoPid \notin Procs /\ NoOwner \notin Procs

VARIABLES
    onex,        \* onex[i] = [f, pid]
    onexlock,    \* the process holding onexlock, or NoOwner
    pc,          \* where each process is in its current call
    i,           \* the loop index of the current call
    arg,         \* the handler passed to the current call
    owed         \* history: handlers registered and not yet cancelled or run

vars == <<onex, onexlock, pc, i, arg, owed>>

Slots == 0 .. NEXIT - 1

TypeOK ==
    /\ onex \in [Slots -> [f : Handlers \cup {NoHandler}, pid : Procs \cup {NoPid}]]
    /\ onexlock \in Procs \cup {NoOwner}
    /\ pc \in [Procs -> {"idle", "atexit_lock", "atexit_scan", "atexit_pid",
                         "atexit_f", "atexit_unlock", "dont_scan", "exits_scan", "dead"}]
    /\ i \in [Procs -> -1 .. NEXIT]
    /\ arg \in [Procs -> Handlers \cup {NoHandler}]
    /\ \A p \in Procs : /\ IsABag(owed[p]) /\ BagToSet(owed[p]) \subseteq Handlers
                        /\ \A h \in Handlers : CopiesIn(h, owed[p]) <= NEXIT
    /\ \A s \in Slots : onex[s].f # NoHandler => onex[s].pid # NoPid

(* static Lock onexlock; Onex onex[NEXIT]: zeroed BSS *)
Init ==
    /\ onex = [s \in Slots |-> [f |-> NoHandler, pid |-> NoPid]]
    /\ onexlock = NoOwner
    /\ pc = [p \in Procs |-> "idle"]
    /\ i = [p \in Procs |-> 0]
    /\ arg = [p \in Procs |-> NoHandler]
    /\ owed = [p \in Procs |-> EmptyBag]

Goto(p, l) == pc' = [pc EXCEPT ![p] = l]
SetI(p, n) == i' = [i EXCEPT ![p] = n]
One(h) == SetToBag({h})

-----------------------------------------------------------------------------
(* jehanne_atexit(f): take onexlock, scan for a slot with f = 0, store    *)
(* the pid, then f, unlock and return 1; with no free slot unlock and     *)
(* return 0.                                                              *)
AtexitCall(p, h) ==
    /\ pc[p] = "idle"
    /\ arg' = [arg EXCEPT ![p] = h]
    /\ Goto(p, "atexit_lock")
    /\ UNCHANGED <<onex, onexlock, i, owed>>

(* mutant: the scan runs without waiting for onexlock *)
AtexitLockNoWait(p) ==
    /\ pc[p] = "atexit_lock"
    /\ SetI(p, 0)
    /\ Goto(p, "atexit_scan")
    /\ UNCHANGED <<onex, onexlock, arg, owed>>

AtexitLock(p) ==
    /\ pc[p] = "atexit_lock"
    /\ onexlock = NoOwner
    /\ onexlock' = p
    /\ SetI(p, 0)
    /\ Goto(p, "atexit_scan")
    /\ UNCHANGED <<onex, arg, owed>>

AtexitScan(p) ==
    /\ pc[p] = "atexit_scan"
    /\ i[p] < NEXIT
    /\ IF onex[i[p]].f = NoHandler
         THEN Goto(p, "atexit_pid") /\ UNCHANGED i
         ELSE SetI(p, i[p] + 1) /\ UNCHANGED pc
    /\ UNCHANGED <<onex, onexlock, arg, owed>>

(* no slot was free: unlock, return 0; the handler is not registered *)
AtexitFull(p) ==
    /\ pc[p] = "atexit_scan"
    /\ i[p] = NEXIT
    /\ onexlock' = NoOwner
    /\ Goto(p, "idle")
    /\ UNCHANGED <<onex, i, arg, owed>>

(* mutant: the pid is never stored *)
AtexitPidDropped(p) ==
    /\ pc[p] = "atexit_pid"
    /\ Goto(p, "atexit_f")
    /\ UNCHANGED <<onex, onexlock, i, arg, owed>>

AtexitPid(p) ==
    /\ pc[p] = "atexit_pid"
    /\ onex' = [onex EXCEPT ![i[p]].pid = p]
    /\ Goto(p, "atexit_f")
    /\ UNCHANGED <<onexlock, i, arg, owed>>

(* the store of f publishes the registration *)
AtexitF(p) ==
    /\ pc[p] = "atexit_f"
    /\ onex' = [onex EXCEPT ![i[p]].f = arg[p]]
    /\ owed' = [owed EXCEPT ![p] = @ (+) One(arg[p])]
    /\ Goto(p, "atexit_unlock")
    /\ UNCHANGED <<onexlock, i, arg>>

AtexitUnlock(p) ==
    /\ pc[p] = "atexit_unlock"
    /\ onexlock' = NoOwner
    /\ Goto(p, "idle")
    /\ UNCHANGED <<onex, i, arg, owed>>

(* jehanne_atexitdont(f): clear every slot holding f and the caller's pid *)
AtexitdontCall(p, h) ==
    /\ pc[p] = "idle"
    /\ arg' = [arg EXCEPT ![p] = h]
    /\ SetI(p, 0)
    /\ Goto(p, "dont_scan")
    /\ UNCHANGED <<onex, onexlock, owed>>

AtexitdontScan(p) ==
    /\ pc[p] = "dont_scan"
    /\ i[p] < NEXIT
    /\ IF onex[i[p]].f = arg[p] /\ onex[i[p]].pid = p
         THEN /\ onex' = [onex EXCEPT ![i[p]].f = NoHandler]
              /\ owed' = [owed EXCEPT ![p] = @ (-) One(arg[p])]
         ELSE UNCHANGED <<onex, owed>>
    /\ SetI(p, i[p] + 1)
    /\ UNCHANGED <<onexlock, pc, arg>>

AtexitdontDone(p) ==
    /\ pc[p] = "dont_scan"
    /\ i[p] = NEXIT
    /\ Goto(p, "idle")
    /\ UNCHANGED <<onex, onexlock, i, arg, owed>>

(* jehanne_exits(s): from slot NEXIT-1 down to 0, clear and call each     *)
(* handler registered under the caller's pid; then _fini and _exits.      *)
(* mutant: the loop starts one slot too low *)
ExitsCallSkipLast(p) ==
    /\ pc[p] = "idle"
    /\ SetI(p, NEXIT - 2)
    /\ Goto(p, "exits_scan")
    /\ UNCHANGED <<onex, onexlock, arg, owed>>

ExitsCall(p) ==
    /\ pc[p] = "idle"
    /\ SetI(p, NEXIT - 1)
    /\ Goto(p, "exits_scan")
    /\ UNCHANGED <<onex, onexlock, arg, owed>>

(* mutant: the pid test is left out *)
ExitsScanAnyPid(p) ==
    /\ pc[p] = "exits_scan"
    /\ i[p] >= 0
    /\ IF onex[i[p]].f # NoHandler
         THEN /\ onex' = [onex EXCEPT ![i[p]].f = NoHandler]
              /\ owed' = [owed EXCEPT ![p] = @ (-) One(onex[i[p]].f)]
         ELSE UNCHANGED <<onex, owed>>
    /\ SetI(p, i[p] - 1)
    /\ UNCHANGED <<onexlock, pc, arg>>

(* the handler is called once its slot is cleared *)
ExitsScan(p) ==
    /\ pc[p] = "exits_scan"
    /\ i[p] >= 0
    /\ IF onex[i[p]].f # NoHandler /\ onex[i[p]].pid = p
         THEN /\ onex' = [onex EXCEPT ![i[p]].f = NoHandler]
              /\ owed' = [owed EXCEPT ![p] = @ (-) One(onex[i[p]].f)]
         ELSE UNCHANGED <<onex, owed>>
    /\ SetI(p, i[p] - 1)
    /\ UNCHANGED <<onexlock, pc, arg>>

ExitsDone(p) ==
    /\ pc[p] = "exits_scan"
    /\ i[p] = -1
    /\ Goto(p, "dead")
    /\ UNCHANGED <<onex, onexlock, i, arg, owed>>

(* every process has exited: the program is gone *)
Terminated ==
    /\ \A p \in Procs : pc[p] = "dead"
    /\ UNCHANGED vars

Next ==
    \/ \E p \in Procs, h \in Handlers : AtexitCall(p, h) \/ AtexitdontCall(p, h)
    \/ \E p \in Procs :
         \/ AtexitLock(p) \/ AtexitScan(p) \/ AtexitFull(p) \/ AtexitPid(p)
         \/ AtexitF(p) \/ AtexitUnlock(p)
         \/ AtexitdontScan(p) \/ AtexitdontDone(p)
         \/ ExitsCall(p) \/ ExitsScan(p) \/ ExitsDone(p)
    \/ Terminated

Spec == Init /\ [][Next]_vars

-----------------------------------------------------------------------------
(* A process that has run jehanne_exits has run every handler it           *)
(* registered with success and did not cancel with atexitdont: none was    *)
(* lost to another process's registration, cleared by another process or  *)
(* skipped by the loop of exits.                                          *)
ExitsRunsAll == \A p \in Procs : pc[p] = "dead" => owed[p] = EmptyBag

(* Every handler that jehanne_exits calls was registered by the calling   *)
(* process and neither cancelled nor run before: exits never runs another *)
(* process's handler nor one twice, though it reads the table without     *)
(* onexlock while other processes register and cancel.                    *)
ExitsRunsOnlyOwed ==
    [][\A p \in Procs :
         (/\ pc[p] = "exits_scan" /\ i[p] >= 0
          /\ onex[i[p]].f # NoHandler /\ onex'[i[p]].f = NoHandler
          /\ i'[p] = i[p] - 1)
         => BagIn(onex[i[p]].f, owed[p])]_vars
=============================================================================
