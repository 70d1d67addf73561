------------------------------- MODULE Netif -------------------------------
(***************************************************************************)
(* The network interface multiplexer of the kernel (kern/port/netif.c):   *)
(* one Netif with NFile conversation slots nif->f[0..NFile-1], opened by  *)
(* processes through "clone" (openfile(nif, -1)) or by walking to an      *)
(* existing conversation's data or ctl file (openfile(nif, id)), closed   *)
(* by netifclose, and configured by ctl writes (netifwrite) and wstat.    *)
(*                                                                         *)
(* Two kinds of qlock protect it: qlock(nif), held by clone's scan, by    *)
(* every ctl write and by each interface-wide part of netifclose, and     *)
(* qlock(f), held by openfile and by netifclose.  A step of the model is  *)
(* the code from one qlock to the point where the process next blocks on  *)
(* a qlock (or returns), so the interleavings that matter are the orders  *)
(* in which those locks are taken.  netown runs under the spin lock       *)
(* netlock and never blocks: it is part of the step that calls it.        *)
(*                                                                         *)
(* Data is abstracted: a user name, a multicast address and a command are *)
(* model values, the Block queue f->iq is only "open" or "closed", and a  *)
(* ctl command is the action that matchtoken selects.                     *)
(***************************************************************************)
EXTENDS Integers, Sequences, FiniteSets, Bitwise

CONSTANTS
    Procs,        \* processes making system calls on the interface
    UserOf,       \* up->user of each process
    Eve,          \* the host owner, treated as the group by netown
    NoUser,       \* the empty owner string
    NFile,        \* nif->nfile, the number of conversation slots
    Addrs,        \* multicast addresses written to addmulti/remmulti
    ConnTypes,    \* arguments of "connect" (packet types, <0 for all)
    ScanArgs,     \* arguments of "scanbs"
    Mtus,         \* arguments of "mtu"
    MinMtu, MaxMtu,
    OModes,       \* open modes (omode&7) passed to netifopen
    WstatModes,   \* modes written by wstat
    CtlFlags,     \* which of "bridge", "vlan", "headersonly", "fat" are written
    Bound,        \* cap on f->inuse
    RefBound,     \* cap on nif->all
    MultiBound,   \* cap on the ref of a multicast address
    None          \* no process / no channel

ASSUME NFile \in Nat \ {0} /\ Bound \in Nat \ {0}
ASSUME RefBound \in Nat \ {0} /\ MultiBound \in Nat \ {0}

Slots == 0 .. NFile - 1

(* access[] of netown, indexed by omode&3 *)
Access(omode) == <<0, \o400, \o200, \o600>>[(omode % 4) + 1]

OWRITE == 2

(* 8*sizeof(f->maddr): the bits of a Netfile's multicast bitmap *)
MaddrBits == 64

VARIABLES
    file,    \* nif->f: Slots -> Netfile record, or None while unallocated
    nif,     \* the Netif's counters, mtu and multicast list nif->maddr
    hw,      \* what the driver callbacks last told the hardware
    nifq,    \* holder of qlock(nif), or None
    fq,      \* holder of qlock(f) of each slot, or None
    pc,      \* where each process is
    loc,     \* a process's locals: slot, scan index, open mode, file kind
    chan     \* the open channel of each process: [id, kind] or None

vars == <<file, nif, hw, nifq, fq, pc, loc, chan>>

PCs == {"idle", "clone_scan", "open_own",
        "close_prom", "close_scan", "close_multi", "close_all", "close_reset"}

Netfiles ==
    [inuse : 0 .. Bound, owner : {NoUser} \cup {UserOf[p] : p \in Procs},
     mode : Nat, type : ConnTypes \cup {0}, prom : {0, 1},
     scan : Nat, maddr : SUBSET (0 .. MaddrBits - 1), nmaddr : Int,
     iq : {"open", "closed"}, flags : SUBSET {"bridge", "vlan", "headersonly", "fat"}]

TypeOK ==
    /\ file \in [Slots -> Netfiles \cup {None}]
    /\ nif.prom \in Nat /\ nif.scan \in Nat /\ nif.all \in Int
    /\ nif.maddr \in Seq([addr : Addrs, ref : 0 .. MultiBound])
    /\ nifq \in Procs \cup {None} /\ fq \in [Slots -> Procs \cup {None}]
    /\ pc \in [Procs -> PCs]
    /\ chan \in [Procs -> [id : Slots, kind : {"data", "ctl"}] \cup {None}]

(* the Netfile jehanne_malloc returns zeroed, with the queue qopen made   *)
NewFile ==
    [inuse |-> 0, owner |-> NoUser, mode |-> 0, type |-> 0, prom |-> 0,
     scan |-> 0, maddr |-> {}, nmaddr |-> 0, iq |-> "open", flags |-> {}]

(* netown(f, u, omode): an unowned file is claimed by u with mode 0660;  *)
(* an owned one is checked against the user, group (Eve) or other bits.  *)
Permitted(f, u, omode) ==
    LET mode == IF u = f.owner THEN f.mode
                ELSE IF u = Eve THEN f.mode * 8 ELSE f.mode * 64
    IN (Access(omode) & mode) = Access(omode)

netown(f, u, omode) ==
    IF f.owner # NoUser
    THEN [ok |-> Permitted(f, u, omode), f |-> f]
    ELSE [ok |-> TRUE, f |-> [f EXCEPT !.owner = u, !.mode = \o660]]

(* typeinuse: a positive type some allocated conversation is connected to *)
typeinuse(type) == type > 0 /\ \E i \in Slots : file[i] # None /\ file[i].type = type

(***************************************************************************)
(* netmulti(nif, f, addr, add) on the multicast part of the state, a      *)
(* record m of nif->maddr (list), nif->nmaddr (nn), the hardware filter   *)
(* set by nif->multicast (hw), and f's bitmap (bits) and count (fn).  An  *)
(* address keeps its list position i for ever: entries are never freed.   *)
(***************************************************************************)
MPos(list, a) ==
    IF \E k \in 1 .. Len(list) : list[k].addr = a
    THEN CHOOSE k \in 1 .. Len(list) : list[k].addr = a
    ELSE Len(list) + 1

(* a first reference that is not counted in nif->nmaddr *)
MultiAddUncounted(m, a) ==
    LET k == MPos(m.list, a)
        list == IF k > Len(m.list) THEN Append(m.list, [addr |-> a, ref |-> 1])
                ELSE [m.list EXCEPT ![k].ref = @ + 1]
    IN [list |-> list, nn |-> m.nn,
        hw |-> IF list[k].ref = 1 THEN m.hw \cup {a} ELSE m.hw,
        bits |-> m.bits \cup {k - 1},
        fn |-> IF k - 1 \notin m.bits THEN m.fn + 1 ELSE m.fn]

MultiAdd(m, a) ==
    LET k == MPos(m.list, a)
        i == k - 1
        list == IF k > Len(m.list) THEN Append(m.list, [addr |-> a, ref |-> 1])
                ELSE [m.list EXCEPT ![k].ref = @ + 1]
        first == list[k].ref = 1
    IN [list |-> list,
        nn   |-> IF first THEN m.nn + 1 ELSE m.nn,
        hw   |-> IF first THEN m.hw \cup {a} ELSE m.hw,
        bits |-> IF i < MaddrBits THEN m.bits \cup {i} ELSE m.bits,
        fn   |-> IF i < MaddrBits /\ i \notin m.bits THEN m.fn + 1 ELSE m.fn]

(* without the early return for an entry whose ref is already 0 *)
MultiRemNoZeroCheck(m, a) ==
    LET k == MPos(m.list, a) IN
    IF k > Len(m.list) THEN m
    ELSE [m EXCEPT !.list = [m.list EXCEPT ![k].ref = @ - 1],
                   !.bits = @ \ {k - 1},
                   !.fn = IF k - 1 \in m.bits THEN @ - 1 ELSE @]

MultiRem(m, a) ==
    LET k == MPos(m.list, a)
        i == k - 1
    IN IF k > Len(m.list) \/ m.list[k].ref = 0 THEN m
       ELSE LET list == [m.list EXCEPT ![k].ref = @ - 1]
                last == list[k].ref = 0
            IN [list |-> list,
                nn   |-> IF last THEN m.nn - 1 ELSE m.nn,
                hw   |-> IF last THEN m.hw \ {a} ELSE m.hw,
                bits |-> IF i < MaddrBits THEN m.bits \ {i} ELSE m.bits,
                fn   |-> IF i < MaddrBits /\ i \in m.bits THEN m.fn - 1 ELSE m.fn]

(* netifclose's loop over nif->maddr: t is set to 0 and never advanced,  *)
(* so bit 0 of f->maddr decides for every entry.                         *)
RECURSIVE CloseMulti(_, _)
CloseMulti(m, k) ==
    IF k > Len(m.list) THEN m
    ELSE CloseMulti(IF 0 \in m.bits THEN MultiRem(m, m.list[k].addr) ELSE m, k + 1)

(* the multicast view of nif and of conversation f *)
MView(f) == [list |-> nif.maddr, nn |-> nif.nmaddr, hw |-> hw.multi,
             bits |-> f.maddr, fn |-> f.nmaddr]

(* write a multicast view back *)
SetMulti(i, m) ==
    /\ nif' = [nif EXCEPT !.maddr = m.list, !.nmaddr = m.nn]
    /\ hw' = [hw EXCEPT !.multi = m.hw]
    /\ file' = [file EXCEPT ![i].maddr = m.bits, ![i].nmaddr = m.fn]

(* the ref of address a in nif->maddr, 0 while it has no entry *)
RefOf(a) ==
    IF MPos(nif.maddr, a) > Len(nif.maddr) THEN 0 ELSE nif.maddr[MPos(nif.maddr, a)].ref

(* activemulti: the receive path's test that an address is wanted *)
activemulti(a) == \E k \in 1 .. Len(nif.maddr) : nif.maddr[k].addr = a /\ nif.maddr[k].ref > 0
(* the locals of a process not in a call *)
NoLoc == [id |-> 0, omode |-> 0, kind |-> "ctl"]

(***************************************************************************)
(* netifinit: an interface with no conversations and no multicast         *)
(* addresses; every process idle with no channel.                         *)
(***************************************************************************)
Init ==
    /\ file = [i \in Slots |-> None]
    /\ nif = [prom |-> 0, scan |-> 0, all |-> 0, nmaddr |-> 0, mtu |-> 0,
              maddr |-> <<>>]
    /\ hw = [prom |-> FALSE, scan |-> 0, multi |-> {}]
    /\ nifq = None /\ fq = [i \in Slots |-> None]
    /\ pc = [p \in Procs |-> "idle"]
    /\ loc = [p \in Procs |-> NoLoc]
    /\ chan = [p \in Procs |-> None]

Goto(p, l) == pc' = [pc EXCEPT ![p] = l]

(* the call returns: its locals are dead *)
Return(p) == pc' = [pc EXCEPT ![p] = "idle"] /\ loc' = [loc EXCEPT ![p] = NoLoc]

(***************************************************************************)
(* netifopen of "clone": openfile(nif, -1) takes qlock(nif) and scans the *)
(* slots from 0, each under qlock(f).                                     *)
(***************************************************************************)
CloneLock(p, omode) ==
    /\ pc[p] = "idle" /\ chan[p] = None
    /\ nifq = None
    /\ nifq' = p
    /\ loc' = [loc EXCEPT ![p] = [id |-> 0, omode |-> omode, kind |-> "ctl"]]
    /\ Goto(p, "clone_scan")
    /\ UNCHANGED <<file, nif, hw, fq, chan>>

(* past the last slot: error(Enodev); waserror releases qlock(nif) *)
CloneEnodev(p) ==
    /\ pc[p] = "clone_scan" /\ loc[p].id = NFile
    /\ nifq' = None
    /\ Return(p)
    /\ UNCHANGED <<file, nif, hw, fq, chan>>

(* an unallocated slot: a new Netfile, in use once and claimed by netown *)
CloneAlloc(p) ==
    LET i == loc[p].id IN
    /\ pc[p] = "clone_scan" /\ i < NFile /\ file[i] = None
    /\ file' = [file EXCEPT ![i] =
                   netown([NewFile EXCEPT !.inuse = 1], UserOf[p], 0).f]
    /\ nifq' = None
    /\ Goto(p, "open_own")
    /\ UNCHANGED <<nif, hw, fq, loc, chan>>

(* qlock(f) of an allocated slot that is in use: unlock it, try the next *)
CloneSkip(p) ==
    LET i == loc[p].id IN
    /\ pc[p] = "clone_scan" /\ i < NFile /\ file[i] # None
    /\ fq[i] = None /\ file[i].inuse > 0
    /\ loc' = [loc EXCEPT ![p].id = i + 1]
    /\ UNCHANGED <<file, nif, hw, nifq, fq, pc, chan>>

(* qlock(f) of an idle slot: reuse it with qreopen and netown(f, up, 0) *)
CloneReuse(p) ==
    LET i == loc[p].id IN
    /\ pc[p] = "clone_scan" /\ i < NFile /\ file[i] # None
    /\ fq[i] = None /\ file[i].inuse = 0
    /\ file' = [file EXCEPT ![i] =
                   netown([file[i] EXCEPT !.inuse = 1, !.iq = "open"], UserOf[p], 0).f]
    /\ nifq' = None
    /\ Goto(p, "open_own")
    /\ UNCHANGED <<nif, hw, fq, loc, chan>>

(***************************************************************************)
(* netifopen of an existing conversation's data or ctl file (reached by   *)
(* netifwalk, which lists only allocated slots): openfile(nif, id) under  *)
(* qlock(f).                                                              *)
(***************************************************************************)
OpenConvUncounted(p, i, kind, omode) ==
    /\ pc[p] = "idle" /\ chan[p] = None
    /\ file[i] # None /\ fq[i] = None
    /\ file' = [file EXCEPT ![i].iq = "open"]
    /\ loc' = [loc EXCEPT ![p] = [id |-> i, omode |-> omode, kind |-> kind]]
    /\ Goto(p, "open_own")
    /\ UNCHANGED <<nif, hw, nifq, fq, chan>>

OpenConv(p, i, kind, omode) ==
    /\ pc[p] = "idle" /\ chan[p] = None
    /\ file[i] # None /\ fq[i] = None
    /\ file[i].inuse < Bound
    /\ file' = [file EXCEPT ![i].inuse = @ + 1, ![i].iq = "open"]
    /\ loc' = [loc EXCEPT ![p] = [id |-> i, omode |-> omode, kind |-> kind]]
    /\ Goto(p, "open_own")
    /\ UNCHANGED <<nif, hw, nifq, fq, chan>>

(* the permission check of netifopen, netown(f, up->user, omode&7) *)
OpenOwned(p) ==
    LET r == netown(file[loc[p].id], UserOf[p], loc[p].omode) IN
    /\ pc[p] = "open_own" /\ r.ok
    /\ file' = [file EXCEPT ![loc[p].id] = r.f]
    /\ chan' = [chan EXCEPT ![p] = [id |-> loc[p].id, kind |-> loc[p].kind]]
    /\ Return(p)
    /\ UNCHANGED <<nif, hw, nifq, fq>>

(* refused: netifclose(nif, c) returns at once because c->flag has no     *)
(* COPEN yet, so the count openfile took is never given back; Eperm.     *)
OpenDenied(p) ==
    /\ pc[p] = "open_own"
    /\ ~netown(file[loc[p].id], UserOf[p], loc[p].omode).ok
    /\ Return(p)
    /\ UNCHANGED <<file, nif, hw, nifq, fq, chan>>

(***************************************************************************)
(* netifclose of an open data or ctl channel.  qlock(f) and --f->inuse;   *)
(* the last close then clears, in this order and each under qlock(nif)    *)
(* when it applies, the promiscuous mode, the scan, the multicast         *)
(* addresses and the "all types" count, then resets the file and closes  *)
(* its queue before qunlock(f).                                           *)
(***************************************************************************)
CloseStages == <<"close_prom", "close_scan", "close_multi", "close_all", "close_reset">>

Applies(f, s) ==
    CASE s = "close_prom"  -> f.prom # 0
      [] s = "close_scan"  -> f.scan # 0
      [] s = "close_multi" -> f.nmaddr # 0
      [] s = "close_all"   -> f.type < 0
      [] s = "close_reset" -> TRUE

(* the first part of netifclose, from the k-th on, whose test f passes *)
StageFrom(f, k) ==
    LET ks == {j \in k .. Len(CloseStages) : Applies(f, CloseStages[j])}
    IN CloseStages[CHOOSE j \in ks : \A j2 \in ks : j <= j2]

NextStage(p, f, s) ==
    Goto(p, StageFrom(f, 1 + CHOOSE k \in 1 .. Len(CloseStages) : CloseStages[k] = s))

(* other channels still use f: qunlock(f) and return *)
CloseShared(p) ==
    LET i == chan[p].id IN
    /\ pc[p] = "idle" /\ chan[p] # None
    /\ fq[i] = None /\ file[i].inuse > 1
    /\ file' = [file EXCEPT ![i].inuse = @ - 1]
    /\ chan' = [chan EXCEPT ![p] = None]
    /\ UNCHANGED <<nif, hw, nifq, fq, pc, loc>>

CloseLast(p) ==
    LET i == chan[p].id
        f == [file[i] EXCEPT !.inuse = @ - 1]
    IN
    /\ pc[p] = "idle" /\ chan[p] # None
    /\ fq[i] = None /\ file[i].inuse <= 1
    /\ file' = [file EXCEPT ![i] = f]
    /\ fq' = [fq EXCEPT ![i] = p]
    /\ loc' = [loc EXCEPT ![p].id = i]
    /\ chan' = [chan EXCEPT ![p] = None]
    /\ Goto(p, StageFrom(f, 1))
    /\ UNCHANGED <<nif, hw, nifq>>

ClosePromStageKeepMode(p) ==
    LET i == loc[p].id
        f == [file[i] EXCEPT !.prom = 0]
    IN
    /\ pc[p] = "close_prom" /\ nifq = None
    /\ nif' = [nif EXCEPT !.prom = @ - 1]
    /\ file' = [file EXCEPT ![i] = f]
    /\ NextStage(p, f, "close_prom")
    /\ UNCHANGED <<hw, nifq, fq, loc, chan>>

(* if(f->prom): qlock(nif); --nif->prom, promiscuous off at zero *)
ClosePromStage(p) ==
    LET i == loc[p].id
        f == [file[i] EXCEPT !.prom = 0]
    IN
    /\ pc[p] = "close_prom" /\ nifq = None
    /\ nif' = [nif EXCEPT !.prom = @ - 1]
    /\ hw' = [hw EXCEPT !.prom = IF nif.prom - 1 = 0 THEN FALSE ELSE @]
    /\ file' = [file EXCEPT ![i] = f]
    /\ NextStage(p, f, "close_prom")
    /\ UNCHANGED <<nifq, fq, loc, chan>>

(* if(f->scan): qlock(nif); --nif->scan, scanbs(arg, 0) at zero *)
CloseScanStage(p) ==
    LET i == loc[p].id
        f == [file[i] EXCEPT !.prom = 0, !.scan = 0]
    IN
    /\ pc[p] = "close_scan" /\ nifq = None
    /\ nif' = [nif EXCEPT !.scan = @ - 1]
    /\ hw' = [hw EXCEPT !.scan = IF nif.scan - 1 = 0 THEN 0 ELSE @]
    /\ file' = [file EXCEPT ![i] = f]
    /\ NextStage(p, f, "close_scan")
    /\ UNCHANGED <<nifq, fq, loc, chan>>

(* if(f->nmaddr): qlock(nif); the netmulti loop; f->nmaddr = 0 *)
CloseMultiStage(p) ==
    LET i == loc[p].id
        m == CloseMulti(MView(file[i]), 1)
        f == [file[i] EXCEPT !.maddr = m.bits, !.nmaddr = 0]
    IN
    /\ pc[p] = "close_multi" /\ nifq = None
    /\ nif' = [nif EXCEPT !.maddr = m.list, !.nmaddr = m.nn]
    /\ hw' = [hw EXCEPT !.multi = m.hw]
    /\ file' = [file EXCEPT ![i] = f]
    /\ NextStage(p, f, "close_multi")
    /\ UNCHANGED <<nifq, fq, loc, chan>>

(* if(f->type < 0): qlock(nif); --nif->all *)
CloseAllStage(p) ==
    /\ pc[p] = "close_all" /\ nifq = None
    /\ nif' = [nif EXCEPT !.all = @ - 1]
    /\ Goto(p, "close_reset")
    /\ UNCHANGED <<file, hw, nifq, fq, loc, chan>>

(* owner, type, bridge and headersonly reset, qclose(f->iq), qunlock(f) *)
CloseReset(p) ==
    LET i == loc[p].id IN
    /\ pc[p] = "close_reset"
    /\ file' = [file EXCEPT ![i].owner = NoUser, ![i].type = 0,
                            ![i].flags = @ \ {"bridge", "headersonly"},
                            ![i].iq = "closed"]
    /\ fq' = [fq EXCEPT ![i] = None]
    /\ Return(p)
    /\ UNCHANGED <<nif, hw, nifq, chan>>


(***************************************************************************)
(* netifwrite on a ctl channel: the whole command runs under qlock(nif),  *)
(* so each command is one step taken when qlock(nif) is free.  An error   *)
(* leaves through waserror, which only releases the lock.                 *)
(***************************************************************************)
Writing(p) == pc[p] = "idle" /\ chan[p] # None /\ chan[p].kind = "ctl" /\ nifq = None

(* "connect type": qclose(f->iq) first; a type in use is Einuse with the *)
(* queue left closed; otherwise the type is set, nif->all counts a       *)
(* negative one, and the queue is reopened.                              *)
WConnect(p, type) ==
    LET i == chan[p].id IN
    /\ Writing(p)
    /\ nif.all < RefBound
    /\ IF typeinuse(type)
       THEN /\ file' = [file EXCEPT ![i].iq = "closed"]
            /\ UNCHANGED nif
       ELSE /\ file' = [file EXCEPT ![i].type = type, ![i].iq = "open"]
            /\ nif' = [nif EXCEPT !.all = IF type < 0 THEN @ + 1 ELSE @]
    /\ UNCHANGED <<hw, nifq, fq, pc, loc, chan>>

(* "promiscuous": the first promiscuous conversation turns the mode on *)
WPromiscuous(p) ==
    LET i == chan[p].id IN
    /\ Writing(p) /\ file[i].prom = 0
    /\ hw' = [hw EXCEPT !.prom = IF nif.prom = 0 THEN TRUE ELSE @]
    /\ file' = [file EXCEPT ![i].prom = 1]
    /\ nif' = [nif EXCEPT !.prom = @ + 1]
    /\ UNCHANGED <<nifq, fq, pc, loc, chan>>

(* "scanbs n": a conversation not scanning yet starts with n, at least 5 *)
WScanbs(p, n) ==
    LET i == chan[p].id
        type == IF n < 5 THEN 5 ELSE n
    IN
    /\ Writing(p) /\ file[i].scan = 0
    /\ hw' = [hw EXCEPT !.scan = type]
    /\ file' = [file EXCEPT ![i].scan = type]
    /\ nif' = [nif EXCEPT !.scan = @ + 1]
    /\ UNCHANGED <<nifq, fq, pc, loc, chan>>

(* "mtu n": 0 resets, out of [minmtu, maxmtu] is Ebadarg; no hwmtu *)
WMtu(p, n) ==
    /\ Writing(p)
    /\ n = 0 \/ (MinMtu <= n /\ n <= MaxMtu)
    /\ nif' = [nif EXCEPT !.mtu = n]
    /\ UNCHANGED <<file, hw, nifq, fq, pc, loc, chan>>

(* "bridge", "vlan", "headersonly", "fat" and "fat 0" *)
WFlag(p, flag, on) ==
    LET i == chan[p].id IN
    /\ Writing(p)
    /\ on \/ flag = "fat"
    /\ file' = [file EXCEPT ![i].flags = IF on THEN @ \cup {flag} ELSE @ \ {flag}]
    /\ UNCHANGED <<nif, hw, nifq, fq, pc, loc, chan>>

(* "addmulti addr" and "remmulti addr": netmulti *)
WAddMulti(p, a) ==
    /\ Writing(p)
    /\ RefOf(a) < MultiBound
    /\ SetMulti(chan[p].id, MultiAdd(MView(file[chan[p].id]), a))
    /\ UNCHANGED <<nifq, fq, pc, loc, chan>>

WRemMulti(p, a) ==
    /\ Writing(p)
    /\ SetMulti(chan[p].id, MultiRem(MView(file[chan[p].id]), a))
    /\ UNCHANGED <<nifq, fq, pc, loc, chan>>

(***************************************************************************)
(* netifwstat of a conversation reached by walking (no open needed): it   *)
(* must pass netown(f, up->user, OWRITE), which claims an unowned file,   *)
(* then sets the owner and mode given.  It takes neither qlock.           *)
(***************************************************************************)
Wstat(p, i, uid, mode) ==
    LET r == netown(file[i], UserOf[p], OWRITE) IN
    /\ pc[p] = "idle" /\ file[i] # None
    /\ r.ok
    /\ file' = [file EXCEPT ![i] = [r.f EXCEPT !.owner = uid, !.mode = mode]]
    /\ UNCHANGED <<nif, hw, nifq, fq, pc, loc, chan>>

(***************************************************************************)
(* A process starts a call when idle; the rest of a call are its steps.   *)
(***************************************************************************)
Start(p) ==
    \/ \E om \in OModes : CloneLock(p, om)
    \/ \E i \in Slots, k \in {"data", "ctl"}, om \in OModes : OpenConv(p, i, k, om)
    \/ CloseShared(p) \/ CloseLast(p)
    \/ \E t \in ConnTypes : WConnect(p, t)
    \/ WPromiscuous(p)
    \/ \E n \in ScanArgs : WScanbs(p, n)
    \/ \E n \in Mtus : WMtu(p, n)
    \/ \E fl \in CtlFlags, on \in BOOLEAN : WFlag(p, fl, on)
    \/ \E a \in Addrs : WAddMulti(p, a) \/ WRemMulti(p, a)
    \/ \E i \in Slots, u \in {UserOf[q] : q \in Procs}, m \in WstatModes : Wstat(p, i, u, m)

Step(p) ==
    \/ CloneEnodev(p) \/ CloneAlloc(p) \/ CloneSkip(p) \/ CloneReuse(p)
    \/ OpenOwned(p) \/ OpenDenied(p)
    \/ ClosePromStage(p) \/ CloseScanStage(p) \/ CloseMultiStage(p)
    \/ CloseAllStage(p) \/ CloseReset(p)

Next == \E p \in Procs : Start(p) \/ Step(p)

(* qlock hands the lock on in FIFO order (QLock's Starvation property),  *)
(* so a step blocked on a qlock that is free infinitely often is taken.  *)
Spec == Init /\ [][Next]_vars /\ \A p \in Procs : SF_vars(Step(p))



(* The state without what no guard and no property reads: nif->mtu, the  *)
(* bridge, vlan, headersonly and fat flags, and whether f->iq is open    *)
(* (only reads of the data file, not modelled, look at it).  States that *)
(* differ only there behave alike, so TLC may identify them.             *)
Unflagged(f) == IF f = None THEN None ELSE [f EXCEPT !.flags = {}, !.iq = "open"]

Observed == <<[i \in Slots |-> Unflagged(file[i])], [nif EXCEPT !.mtu = 0],
              hw, nifq, fq, pc, loc, chan>>

-----------------------------------------------------------------------------
(* the processes that hold a count of f->inuse on slot i *)
HoldsCount(p, i) ==
    \/ chan[p] # None /\ chan[p].id = i
    \/ pc[p] = "open_own" /\ loc[p].id = i

Holders(i) == {p \in Procs : HoldsCount(p, i)}

(* f->inuse never falls below the channels and opens that hold a count on *)
(* the conversation, whatever order openfile, clone's scan and           *)
(* netifclose run in: so clone never hands out a conversation someone    *)
(* still has open, and the last close really is the last.               *)
InUseCovers ==
    \A i \in Slots : file[i] # None => file[i].inuse >= Cardinality(Holders(i))

(* The interface-wide promiscuous and scan counts equal the number of    *)
(* conversations that set them, and the hardware was last told to be     *)
(* promiscuous (nif->promiscuous) and to scan (nif->scanbs) exactly when *)
(* some conversation wants it: ctl writes and the clean-up of            *)
(* netifclose keep the counters and the driver callbacks in step.        *)
InterfaceModes ==
    /\ nif.prom = Cardinality({i \in Slots : file[i] # None /\ file[i].prom = 1})
    /\ hw.prom = (nif.prom > 0)
    /\ nif.scan = Cardinality({i \in Slots : file[i] # None /\ file[i].scan # 0})
    /\ (hw.scan # 0) = (nif.scan > 0)

(* The hardware multicast filter, as set through nif->multicast, holds  *)
(* exactly the addresses activemulti accepts, and nif->nmaddr counts     *)
(* them: every addmulti, remmulti and the clean-up loop of netifclose    *)
(* turn an address on with its first reference and off with its last.   *)
MulticastFilter ==
    /\ hw.multi = {a \in Addrs : activemulti(a)}
    /\ nif.nmaddr = Cardinality(hw.multi)

(* Every call returns: a process that started an open, a close or a ctl  *)
(* write comes back to idle, given that qlock is fair.                   *)
CallsReturn == \A p \in Procs : pc[p] # "idle" ~> pc[p] = "idle"

(* Once no conversation is in use and no call is under way, nothing of   *)
(* the interface is still switched on for a conversation: no             *)
(* promiscuous mode, no scan, no multicast address and no "all types"    *)
(* receiver.                                                             *)
Quiescent ==
    (\A i \in Slots : file[i] = None \/ file[i].inuse = 0) /\ (\A p \in Procs : pc[p] = "idle")
        => /\ nif.prom = 0 /\ nif.scan = 0 /\ nif.all = 0
           /\ hw.multi = {} /\ nif.nmaddr = 0

(* f->inuse is exactly the number of holders: a refused open gives its   *)
(* count back.                                                           *)
InUseExact ==
    \A i \in Slots : file[i] # None => file[i].inuse = Cardinality(Holders(i))

=============================================================================
