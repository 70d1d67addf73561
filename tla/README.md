# TLA+ models of Jehanne's locks, exit handlers, image reader, network interface and acme text

This directory holds TLA+ models of the synchronisation library of
`src/sys/src/lib/c/port/lock.c` and `src/sys/src/libc/9sys/qlock.c`,
of libc's exit-handler table `src/sys/src/lib/c/port/atexit.c`,
of memdraw's compressed image reader `src/sys/src/lib/memdraw/cread.c`,
of the kernel's network interface multiplexer
`src/sys/src/kern/port/netif.c`, and of acme's text handling
`src/sys/src/cmd/acme/text.c`. It also holds the TLC configurations that check them, and `PROJECT.json`, which lists
every component, run, mutant, finding and hazard and maps every modelling
definition to the source lines it translates.

## The system

`spec.md` describes five parts, leaves first:

| part | code | what it is |
|---|---|---|
| FastLock | lock.c | `key` is an atomic counter and `sem` a kernel semaphore. `lock`/`unlock`/`canlock`/`lockt` use `ainc`/`adec` and block in `semacquire`. |
| WaitNodePool | qlock.c 15-82 | `ql.x[1024]` is an array of wait nodes with `inuse` flags. `getqlp` claims a node by a circular scan from the cursor `ql.p`. `releaseqlp` unlinks a node from a list. |
| QueuedMutex (QLock) | qlock.c 84-205 | `locked` plus a FIFO list `head..tail` of wait nodes. The list is guarded by a FastLock, `q->lock`. Waiters block in `rendezvous(node, …)`. `qunlock` hands the lock to the head without clearing `locked`. `qlockt` adds a timeout using `awake`/`awakened`/`forgivewkp`. |
| QueuedRWLock | qlock.c 207-479 | reader count, `writer` flag, and one FIFO list of reader and writer nodes. |
| WaitCondition (Rendez) | qlock.c 481-631 | a sleeper list bound to a QLock. `rwakeup` moves a sleeper to the front of the QLock's list. |

Two further parts of `src/` are modelled, although `spec.md` does not
describe them:

| part | code | what it is |
|---|---|---|
| Network interface multiplexer | netif.c | One `Netif` per device, with `nfile` conversation slots. Processes open a slot through `clone` or by its number, write ctl commands (`connect`, `promiscuous`, `scanbs`, `mtu`, `addmulti`, `remmulti` and flags), `wstat` it, and close it. `qlock(nif)` guards the interface-wide counters and `qlock(f)` guards each slot. |
| Exit handlers | lib/c/port/atexit.c | The table `onex[NEXIT]` of handlers and the pids that registered them, shared by the processes of one program. `atexit` fills a free slot under the FastLock `onexlock`. `atexitdont` and `exits` read and clear the table without it. |
| Compressed image reader | lib/memdraw/cread.c | `creadmemimage(fd)` reads a 60-byte header (channel or old ldepth, rectangle), allocates the image and a block buffer of `ncblock` bytes, then reads blocks, each a 24-byte header `(maxy, nb)` and `nb` bytes, until `miny` reaches `r.max.y`. Each read goes through libc's `jehanne_readn`, whose source is not in the repository. |
| acme text | acme/text.c | A window and its zeroxes are `Text`s showing one `File`. Typed runes go into a cache in every text, at the same position, until a commit writes them into the File. Every insert or delete through one text is propagated to the others. Each text's frame shows the runes from its origin `org` on. |

The other files under `src/` (devtab, bootauth, crypto, formatting
helpers, small tools and a test) are not modelled.
`PROJECT.json` lists each of them with the reason.

How the parts interact:
- Every QLock, RWLock and Rendez operation takes `q->lock` (a FastLock),
  changes its list and flags, and releases it.
- Blocking happens only in `rendezvous`, after `q->lock` is released.
  `wunlock` is the exception: it calls `rendezvous` while holding `q->lock`.
- All lists share the one node pool.

## Modules

| module | models |
|---|---|
| `FastLock` | lock.c. One thread per client loop (`idle` → lock call → `cs` → `unlock` → `idle`). Every `ainc`, `adec`, `semacquire`, `semrelease` and `tsemacquire` is one step, so threads interleave between the counter and the semaphore. Variables: `key`, `sem`, `pc`, and `timeouts` (a bound). |
| `MCFastLock` | three threads as model values. |
| `QLp` | the node pool as pure operators: `GetQlp` (the scan of `getqlp`), `ReleaseScan`/`ReleaseQlp` (`releaseqlp`, including the abort and an endless loop), `AppendNext`, and `Walk`/`WellFormed` for the properties. A node is a slot index and `Nil` is the null pointer. |
| `QLockSpec` | the abstract QLock: an owner plus a FIFO wait queue, with direct handoff on release and give-up for timed waiters. |
| `QLock` | qlock.c's QLock operations. Variables: `locked`, `head`, `tail`, `next[]`, `inuse[]`, `cursor` (`ql.p`), per-thread `pc`, `mp`, `wk` (the node `qunlock` is waking) and `tmr` (the `awake` alarm: off/armed/fired). `aborted` records a call to `abort()`. |
| `MCQLock` | three threads as model values; `Two` and `Three` thread sets. |
| `RWLockSpec` | the abstract RWLock: a reader set, a writer, and one FIFO queue of `<<thread, "R"/"W">>`. A reader enters at once only when nobody writes or waits. The last reader hands to a writer at the head. A releasing writer hands to a head writer or admits the whole leading batch of readers. |
| `RWLock` | qlock.c's RWLock operations over `QLp`. Variables: `readers` (`q->_readers`), `writer`, the list (`head`, `tail`, `next`, `kind` of each node: `QueuingR`/`QueuingW`), the pool, and the same per-thread `pc`, `mp`, `wk`, `tmr` as `QLock`. `TimedThreads` names the threads that call `rlockt`/`wlockt` instead of `rlock`/`wlock`. |
| `MCRWLock` | three threads; `Two`, `Three`, and the timed subsets `Timed1`, `Timed2`. |
| `RendezSpec` | the abstract Rendez with its QLock: an owner, the lockers' FIFO queue and the sleepers' FIFO queue. `Sleep` releases the lock (to the head locker) and joins the sleep queue in one step. `Wakeup`, by the holder, moves the first sleeper to the front of the lockers' queue. |
| `Rendez` | `rsleep`, `rsleept`, `rwakeup`, `rwakeupall`. It `EXTENDS QLock`: the QLock's variables and actions are reused unchanged, and Rendez adds `rhead`/`rtail` (`r->head`, `r->tail`) over the same pool. `SleepTimed` names the threads that call `rsleept`. |
| `MCRendez` | three threads; `Two`, `Three`, `Timed1`. |
| `Netif` | netif.c. Variables: `file` (the slots `nif->f[]`), `nif` (counters, mtu and the multicast list `nif->maddr`), `hw` (what the driver callbacks last told the hardware), the holders of `qlock(nif)` and of each `qlock(f)`, and each process's `pc`, locals and open channel. |
| `MCNetif` | two processes and two users as model values; the connect types and the symmetry of two processes of one user. |
| `Atexit` | atexit.c. Variables: `onex`, `onexlock` (its holder), each process's `pc`, loop index `i` and argument `arg`, and the history variable `owed`: for each process, the bag of handlers it registered and has not yet cancelled or run. |
| `MCAtexit` | three processes and two handlers as model values, symmetric. |
| `CRead` | cread.c, with its three `jehanne_readn` calls. Variables: `pc`, the `readn` in progress `rd` (`len`, `n`), `new`, the rectangle's rows `r`, `miny`, the block header `blk`, whether the image and the buffer are unallocated, held or freed (`img`, `buf`), the history `loaded` of the `cloadmemimage` calls, `result`, and `eof`. No MC module: its constants are integers. |
| `AcmeText` | text.c. Variables: `file` (the File's runes), `txt` (each text's `q0`, `q1`, `org`, frame, `cq0`, cache and `eq0`), `err` (the message of an `error()` that ended acme) and `focus` (the text under the mouse). |
| `MCAcmeText` | the initial File, the writes given to `textbsinsert`, and the `VIEW`. |

### How QLock corresponds to the code

- **One critical section, one step.** Each section between `lock(&q->lock)`
  and `unlock(&q->lock)` is one atomic action. Nothing else touches the list
  under that lock. The only unguarded write is `mp->inuse = 0`, and it is its
  own step (`QLockRelease`, `QLocktDone`). `getqlp` reads `inuse` with
  `_tas`, so this reduction keeps every outcome the code can produce.
- **A thread spinning in `releaseqlp`.** Such a thread keeps `q->lock`:
  `pc = "releaseqlp_loop"`, and `GuardFree` disables every other guarded
  section.
- **`rendezvous`.** The `Rendezvous(t, u)` action pairs two threads blocked
  on the same tag (`Tag`). A `~0` return (interrupted) is a retry with no
  state change. In `qlockt` it leads to `QLocktTimeout` once the alarm has
  fired (`Fire`).
- **The timeout of a parked `qlockt` is one step.** The code returns from
  the interrupted `rendezvous`, then runs `lock(&q->lock)`, `releaseqlp`
  and `unlock` (lines 177-183). `QLocktTimeout` does all of this at once,
  as soon as the alarm has fired. Leaving `rendezvous` changes no shared
  state, and `qunlock` may still unlink the node before the step. So the
  model keeps every ordering of the timeout against `qunlock`, including
  the `releaseqlp` on a list that no longer holds the node. The model also
  lets the parked thread still meet `qunlock`'s `rendezvous` after its
  alarm fired; this is the case where the rendezvous wins the race. No
  safety property can tell the two apart. `RWLock` splits the same path,
  because there `wunlock` holds `q->lock` across its rendezvous.
- **`canqlock` trusts `canlock`.** `CanQLock` takes a free QLock in one
  step, as if `canlock(&q->lock)` were a correct try-lock. It is not: a
  failed `canlock` posts `sem` while the lock is held, which lets a waiter
  in beside the holder of `q->lock` (see the finding about `canlock`). The
  QLock runs with `canqlock` therefore assume a correct `q->lock`. The
  `canlock` bug is shown on `FastLock`, not through `QLock`.
- **`abort()`.** It sets `aborted` and freezes the state. `Next` then only
  stutters.

### How RWLock corresponds to the code

The same reductions as for QLock apply. In addition, `wunlock` keeps
`q->lock` across its `rendezvous` calls (lines 464-476). So
`pc = "wunlock_wakeR"` (waiting to rendezvous with a woken reader) and
`pc = "wunlock_next"` (back at the loop test) also disable every other
guarded section through `GuardFree`. The refinement mapping counts the
readers that the running loop has not yet popped as already admitted.
`RWLockSpec` admits the whole batch in one step.

### How Rendez corresponds to the code

A thread holding the QLock (`pc = "cs"`) may call `qunlock`, `rsleep` (or
`rsleept`), `rwakeup` or `rwakeupall`. `rsleep` and `rsleept` return to
`"cs"`, because their callers go on as holders of the QLock. Each guarded
section of `rsleep`/`rsleept` is one step (`Sleep`). It claims a node,
chains it on `r`'s list (`ChainSleeper`), then hands the QLock to the head
of its list or marks it free (`PassQLock`). `rwakeup` is one step (`Wake`,
`MoveToFront`). `rwakeupall` repeats it, one guarded section per call, until
it returns 0. `SleepRendezvous` extends `Rendezvous` with the tags of the
sleeper's two rendezvous: the hand-over, and the wait on its own node.
After `abort()` no action is enabled. All Rendez runs leave deadlock
unchecked, so such a state simply ends the behaviour.

### How Netif corresponds to the code

- **One step per stretch between qlocks.** A step runs from taking one
  qlock to the point where the process next waits for a qlock, or returns.
  `netown` runs under the spin lock `netlock` and never blocks, so it is
  part of the step that calls it. The interleavings that remain are the
  orders in which processes take `qlock(nif)` and `qlock(f)`.
- **Opening.** `clone` is `CloneLock`, then one `CloneSkip`, `CloneAlloc`
  or `CloneReuse` per slot the scan visits, or `CloneEnodev` when the scan
  finds no free slot. Opening a slot by number is `OpenConv`, followed by
  `OpenOwned` or `OpenDenied` after `netown`.
- **Closing.** `netifclose` is a sequence of stages: `CloseShared` or
  `CloseLast` under `qlock(f)`, then the promiscuous, scan, multicast and
  `connect -1` clean-ups, each taking `qlock(nif)`, then `CloseReset`.
- **ctl and wstat.** Each ctl command is one action under `qlock(nif)`:
  `WConnect`, `WPromiscuous`, `WScanbs`, `WMtu`, `WFlag`, `WAddMulti` and
  `WRemMulti`. `Wstat` changes the owner and the mode.
- **Data.** Users, multicast addresses and commands are model values. The
  queue `f->iq` is only "open" or "closed". `VIEW Observed` drops the
  fields that no guard and no property reads: `mtu`, the flags and `iq`.

### How Atexit corresponds to the code

- **Steps.** `atexit` is a step per statement: take `onexlock`
  (`AtexitLock`), test one slot (`AtexitScan`), store the pid
  (`AtexitPid`), store `f` (`AtexitF`), unlock (`AtexitUnlock`), or unlock
  and return 0 when no slot is free (`AtexitFull`). `onexlock` is taken as
  the atomic mutex that `fastlock_lockt` shows FastLock to implement.
- **The unlocked readers.** The test and clear of one slot in
  `atexitdont` (`AtexitdontScan`) and in `exits` (`ExitsScan`) is one step.
  A slot with a non-zero `f` and the caller's pid can only be changed by the
  caller. `atexit` stores the pid before `f`, so a reader never sees its own
  pid next to a handler someone else is storing. Calling the handler is the
  step that clears its slot; its body is not modelled.
- **Exit.** `ExitsCall` starts the downward loop at `NEXIT-1`, `ExitsDone`
  ends it and the process is `"dead"`. When every process is dead the
  program is gone (`Terminated`).

### How CRead corresponds to the code

- **The file is any file.** A read returns 1 to `len-n` bytes
  (`ReadnRead`), -1, or 0 at the end of the file, after which every read
  returns 0 (`ReadnFail`). The numbers `atoi` parses from a header are any
  of a small range, so every check of the code is met and failed.
- **Steps.** Each completed `readn` is followed by the step that parses
  and checks what it read: `HdrParse` (lines 25-67), `BlockHdr` (86-97),
  `BlockData` (98-101). `Alloc` is `allocmemimage` and `malloc(ncblock)`,
  each of which may fail. `Loop` is the loop test, or the return of the
  image. Every failure after the allocation goes through `Errout`.
- **Data.** Pixel bytes, the channel string and decompression are left
  out: a block is its rows and its byte count, and `flipped` records
  `_twiddlecompressed`. `ncblock` (`_compblocksize`, not under `src/`) is
  the constant `NCBlock`.
- **readn.** `creadmemimage` calls libc's `jehanne_readn` at lines 25, 78
  and 96. Its source is not in the repository. It is modelled by what
  readn(2) promises: reads are repeated until `len` bytes have come or a
  read returns 0 or -1 (`ReadnRead`, `ReadnFail`). On a short read it
  returns a count short of `len`, or -1. The caller only compares the
  result with `len`, so these are one outcome. `cmd/auth/lib/readn.c` is a
  different function and is not modelled.

### How AcmeText corresponds to the code

- **A state transformer per function.** Each function of text.c is an
  operator that maps `s = [file, txt, err, nofill]` to the state the
  function leaves. A call sequence in the C code is a composition of these
  operators. Each action applies one whole handler: `Type` is `texttype` for
  an ordinary rune, and `Key` is one of its special keys. The action's
  trailing commits, fills and selections are part of the composition.
- **`error()`.** acme's `error()` ends acme. It is modelled as `err` being
  set, after which no action is enabled. `bufinsert`, `bufdelete` and
  `bufread` check their ranges the way buff.c does, and end acme in the same
  way.
- **The frame.** The frame holds `Cap` runes, one per cell. `frinsert`
  drops what falls off the end. "Last line full" means the frame holds
  `Cap` runes. Drawing, scroll bars, `p0`/`p1` and window events are left
  out.
- **Calls outside text.c** are modelled by their effect on this state:
  - `wincommit` is `textcommit(t, TRUE)` followed by `textcommit(u, FALSE)`
    for the other texts (`typecommit`);
  - `cut` is `textdelete(t, q0, q1, TRUE)` and `textsetselect(t, q0, q0)`;
  - `mousethread` commits the text the mouse leaves and the text clicked,
    and resets its `eq0` (`Clicked`, used by `MouseTo`, `Select` and
    `DoubleClickAt`);
  - `frcharofpt` for `Kdown` is any position in the frame.
- **Newline and autoindent.** With autoindent on, `texttype` copies the
  indent of the current line into `rp` and overwrites `r` with each rune
  it reads (line 795). So the `wincommit` at line 825 runs only when the
  newline is typed at the start of a line. Otherwise the newline stays in
  the cache, as in the code (`TypeFrom`).
- **Order of texts.** `file->text` lists the texts in index order. The
  loops of texttype and textdelete visit them in that order.
- **Operator structure.** Where an operator needs the result of a call more
  than once, that result is passed as an operator parameter (`FillFrom`,
  `DropOthers`, `MoveFrom`, ...). TLC's coverage statistics then do not
  expand the call once for every reference to it.

## Runs

| run | expect | what it shows |
|---|---|---|
| fastlock_lockt | pass | Three threads using lock, unlock and lockt keep mutual exclusion. A semaphore waiter is never stranded (`NoLostWakeup`). |
| fastlock_canlock_key | pass | With `canlock`, `key` still equals the holder plus the outstanding increments. |
| qlock_fifo | pass | `qlock`/`qunlock`/`canqlock` with three threads: one owner, a well-formed list, refinement of the FIFO `QLockSpec`, and no starvation. |
| qlock_timed | pass | Three threads using `qlock`, `qlockt` and `canqlock` on a four-node pool, with every alarm free to fire at any point. The timeout races orphan the lock, corrupt the list or abort, but they never let two threads hold the lock (`MutualExclusion`). Deadlock is not checked, because the orphaned lock is a real end state. |
| rwlock_untimed | pass | Three threads using every untimed RWLock call. `readers` and `writer` account for the owners, and the list is well formed. A reader is queued only while a writer holds the lock. The lock refines `RWLockSpec`, and no waiter starves. |
| rwlock_timed | pass | Three threads, two of them timed, and a three-node pool. Readers and a writer never hold the lock together, even through the aborts and orphaned locks of the timeout races. |
| rendez_untimed | pass | Three threads with `qlock`, `qunlock`, `rsleep`, `rwakeup` and `rwakeupall`. The QLock always has exactly one owner through every sleep and wakeup (`SleepOwnership`). Every parked node is on exactly one of the two lists or being handed over, and both lists are well formed (`NodesAccounted`). The pair refines `RendezSpec`. |
| netif_lifecycle | pass | Two processes of the host owner on an interface of two slots: clone, open, every ctl command, wstat and close. Every channel holds a count in `f->inuse` (`InUseCovers`). `nif->prom` and `nif->scan` equal the slots that set them, and the hardware modes follow (`InterfaceModes`). The hardware multicast filter holds exactly the addresses with a live reference (`MulticastFilter`). |
| netif_lock_order | violation | `netifclose` takes `qlock(f)` then `qlock(nif)`, and clone's scan takes them in the other order. A last close of a promiscuous slot and a clone deadlock (`CallsReturn`, 8 states). |
| atexit_table | pass | Three processes register, cancel and run two handlers in a table of two slots. A process that has exited has run every handler it registered and did not cancel (`ExitsRunsAll`). `exits` only calls a handler the caller registered and has not cancelled or run (`ExitsRunsOnlyOwed`), although it reads the table without `onexlock`. |
| cread_blocks | pass | `creadmemimage` on any file with rows 0..2 and a 2-byte block buffer, with reads cut short, failing or ending anywhere. The blocks it loads follow one another from `r.min.y`, each a non-empty band inside the image from at most `ncblock` bytes. Once it returns, the buffer is freed and the image is held only if it is returned whole (`WholeImageOrNothing`). It always returns (`CReadReturns`). |
| acme_typing | pass | A window and its zerox on a File holding `()`, under every key, typing with autoindent, selecting, double clicks and mouse moves. Both texts always show the same runes (`ClonesAgree`). Each frame is full or reaches the end of its text (`FrameFull`). A double click just after `(` or just before `)` selects the text up to its nesting partner, compared with a reference that counts brackets. This is checked in every committed state of the run and on every File of up to five runes of `(`, `)` and `a` (`DoubleClickBrackets`). A write with backspaces through `textbsinsert` leaves every text as typing the runes one at a time would (`BsInsertEdits`). |

### Bugs found but not kept as runs

`PROJECT.json` records each of these as a finding without a run, and as a
hazard. Each hazard names the property that breaks and the configuration in
which TLC breaks it:
- `rsleept`'s timeout returns to its caller without the QLock (two
  threads, 6 states). spec.md 4.5 requires the caller to re-acquire the
  mutex.
- `wunlock` rendezvouses with `q->lock` held. A reader whose `rlockt`
  timed out waits for that lock, so neither returns (`WUnlockReturns`,
  two timed threads, 13 states).
- A failed `canlock` posts `sem` while the lock is held, so a waiter enters
  beside the holder (`MutualExclusion`, three threads using `canlock`: 7
  states).
- `qlockt` times out after `qunlock` has unlinked its node. With a third
  waiter queued, `locked` stays set and nobody owns the lock (`OneOwner`,
  8 states).
- `lockt` leaves its `ainc` in `key` when it times out (`KeyAccounting`).
- `qlockt` timing out after the handoff, with only two threads, makes
  `releaseqlp` reach nil and abort.
- `releaseqlp` leaves `q->tail` on a freed node (`QueueWellFormed`).
- `getqlp` never tests the slot `ql.p`, so it aborts with that node
  still free.
- `releaseqlp` can spin for ever on a cycle of stale links.
- `wlockt` timing out after a handoff leaves `q->writer` set with no writer
  (`OwnersAccounted`).
- A timed writer leaving the list puts a reader at its head while readers
  hold the lock. The last `runlock` then aborts (`ReaderQueuedBehindWriter`).
- A woken sleeper can starve (`WokenAcquires`, with the cfg of
  `rendez_untimed`). Every `rwakeup` puts its sleeper in front of those woken
  earlier, so two threads that wake each other and sleep in turn keep a third,
  already woken, off the QLock for ever. For the same reason `rwakeupall`
  re-injects the sleepers in reverse order.
- `rsleept`'s timeout uses `releaseqlp` on `r`'s list. This goes wrong in two
  ways:
  - After a `rwakeup`, the node is no longer on that list, and the scan
    aborts.
  - The scan can also leave `r->tail` on a freed node, so the next sleeper
    is chained behind it and is never found by `rwakeup`.

- `netifopen` of another user's conversation counts the open, then
  `netown` refuses it, and the `netifclose` that follows returns at once:
  `f->inuse` stays one too high and the slot is never reused (`InUseExact`,
  5 states).
- `netifclose`'s multicast loop never increments `t`, so only the first
  address's bit is tested. A second group stays in the hardware filter after
  the close (`Quiescent`, 8 states). Writing `connect -1` twice, and
  `addmulti` of an address already joined, also leave interface state
  behind after every slot is closed.
- acme, a window and its zerox: typing into the window and then `^U`.
  The erase loop sets `nofill` only for the text it has reached, and the
  window's `textdelete(..., TRUE)` reaches the zerox first. The zerox's
  `textfill` then commits the zerox's copy of the typing:
  - if the cached position is now past the end, `bufinsert` ends acme
    (`NoAbort`, 4 states);
  - otherwise the rune just erased is written back into the File
    (`FrameShowsView`, 4 states).
- acme, Esc after an erase: `^H`/`^U`/`^W` move `eq0` only when it is at
  `q1` or unset. Esc can then select past the end of the File, with
  `q0 > q1` (`SelectionInView`, 5 states). The next key ends acme in
  `bufread` (`NoAbort`).

No property of the Rendez survives `rsleept`: its first timeout already
breaks ownership. So `rsleept`'s actions are exercised only by the traces
above, and `rendez_untimed` is run without it.

Each property of a passing run has a mutant in `PROJECT.json`: a plausible
bug in the mapped action, defined just above it, that TLC must catch.

## Bounds

- **Threads.** Three threads are the smallest number at which a handoff to
  the head races a third thread's arrival. This is the case that separates
  FIFO from barging, and the one that orphans the lock. `qlock_timed` uses
  three threads for the same reason: the orphaned lock and the stale tail
  need a third thread.
- **Pool size.** `NSlots` is 3 or 4. With 3 threads a 3-node pool can
  actually be exhausted by three timed waiters. A 4-node pool cannot be, so
  the other behaviours are seen without the abort path.
- **Rendez.** Three threads are needed to see the QLock passed on by a
  sleep while a third thread is queued, two sleepers woken by one
  `rwakeupall`, and the starvation lasso. Four nodes let all three threads
  hold a node at once, so `getqlp` never aborts in `rendez_untimed`.
- **Netif.** Two processes and two slots: enough for a clone to race a
  close of another slot, and for two channels to share one slot. Each
  counter has a named bound: `Bound` on `f->inuse`, `RefBound` on
  `nif->all`, and `MultiBound` on a multicast address's reference.
  `MultiBound = 2` in `netif_lifecycle`, so an address can be joined twice,
  and the first join and the last leave are different steps. Both processes run as
  the host owner in `netif_lifecycle`, so `wstat` can take every permission
  away and reopen them. In that run the processes are symmetric
  (`SYMMETRY`). One address, one connect type (`-1`) and one flag suffice
  for the counting properties.
- **acme.** Two texts are the smallest case with a zerox. The File starts as
  `()`, which makes the bracket matching non-trivial. Typed runes are `a`
  and newline, with autoindent on. `MaxLen = 2` bounds what each text shows,
  and `Cap = 1` rune fills a frame. The frame is then shorter than a view,
  so a delete can empty it and `textdelete` must refill it from the File.
  Double clicks are also checked on every File of up to five runes
  (`ClickWords`), so nesting and text between brackets are covered. The bounds are small because every step runs whole handlers.
  The bugs in the findings need only one or two runes and show up under the
  same bounds. The `VIEW` forgets `cq0` of an empty cache, which nothing
  reads, and the texts after `error()`, after which nothing happens.
- **Exit handlers.** Three processes, two slots and two handlers. The
  table can be full while a third process registers. Two processes can
  hold slots of the same handler. An `exits` scan can race a registration
  and a cancel by the others. The safety of the unlocked scans rests on
  `atexit` storing the pid before `f`: with the two stores swapped, TLC
  breaks `ExitsRunsOnlyOwed` in 18 states.
- **Image reader.** Rows 0..2 give images of zero to two rows, so a
  block can be too short (`maxy <= miny`), exact, or past `r.max.y`, and an
  image can take one or two blocks. `NCBlock = 2` lets a count be 0, within
  the buffer, or one too many. The header and block lengths are the code's
  60 and 24 bytes, read in any pieces.
- **FastLock counters.** `MaxSem` and `MaxTimeouts` only bound how often
  `canlock` and `lockt` are started. They never restrict a thread already
  inside a call.

## Fairness

Weak fairness is assumed on the steps a thread takes inside a library call
(`Inside`) and on each rendezvous pair. A thread that has called in and can
proceed is eventually scheduled by the kernel. No fairness is assumed on
starting a call: a thread may stay idle for ever. The timer firing (`Fire`)
is one of a thread's `Inside` steps, so an armed alarm eventually fires
unless the call completes first. This matches `awake`, whose alarm the
kernel delivers after the timeout.

In `Rendez` the same fairness covers a holder's calls (`RCall`). A thread
holding the QLock therefore eventually leaves `"cs"` by `qunlock` or a sleep.
It may call `rwakeup` any number of times first, but each call that changes
anything empties `r`'s list further.

Deadlock checking is on, except in the Rendez runs (all three threads asleep
is a real end state of the clients), and in `rwlock_timed` and
`qlock_timed`. There `abort()`, the orphaned lock and the
`wunlock` deadlock are real end states of the timeout races. Deadlock checking stays on in `atexit_table`: its only end state, every
process dead, is the stuttering step `Terminated`. So it does in
`cread_blocks`, where the returned call stutters (`Returned`). It is also
off in the Netif runs, where the lock-order deadlock is real
(`netif_lock_order` shows it as a liveness violation). It is off in
`acme_typing` too, because `error()` ends acme.

The Netif specification has strong fairness on each process's `Step`. A
process waiting for a qlock gets it if the lock is free infinitely often,
which is the guarantee of `qlock`'s FIFO queue. `CRead` has weak fairness on its whole next-state relation: it is one
process running a call to its end, and each read returns. No fairness is
needed for what the file holds; it is chosen in each step. acme and the
exit handlers need no fairness,
because none of their properties is about liveness.

## Plan

1. Done: FastLock, the node pool and QLock, with QLock's abstract spec.
2. Done: `RWLock` over `QLp`, with `RWLockSpec`.
3. Done: `Rendez` composed with `QLock`, with `RendezSpec`.
4. Done: `Netif` (the conversations, ctl commands and close clean-up).
5. Done: acme's `Text` with zeroxes, its keys, its commit and fill.
6. Done: `atexit.c`'s handler table, over the FastLock mutex.
7. Done: `creadmemimage` on an arbitrary file.
8. acme: three texts and longer Files, if the state space can be cut down
   to fit.

## Not modelled

- Everything below is abstracted to the behaviour the properties need:
  - the kernel semaphore and `rendezvous` (external in `spec.md` 6);
  - the timer service (`awake`, `awakened`, `forgivewkp`);
  - the values passed through `rendezvous`.
- `_qlockinit`, which installs a different `rendezvous`, is not modelled.
- `qunlock`'s diagnostic print is not modelled.
- netif.c: directory generation (`netifgen`, `netifwalk`, `netifstat`),
  reads of statistics and queues (`netifread`, `netifbread`), and
  `parseaddr`. These are formatting and I/O, and addresses are model
  values.
- acme text.c: `textload`, `textcolumnate` and `textcomplete` (directory
  listing and file-name completion), `textredraw`, `textresize`,
  `textclose`, `textframescroll` and the frame drawing (layout), and mouse
  chording (`textselect2`, `textselect3`).
