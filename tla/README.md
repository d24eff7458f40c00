# A TLA+ model of the principia-softwarica kernel

This directory models the concurrent core of the kernel of principia-softwarica
(`src/kernel`, a Plan 9 kernel for x86 and ARM multiprocessors): how processes
are scheduled on several processors, how they wait for each other, how they are
woken, and the three places where much of the kernel meets these primitives:
queues of bytes, timers, and requests to file servers. The rest of the
repository is compilers, a window system, utilities and libraries: sequential
user programs, which are listed in `PROJECT.json` and not modelled.

`*.tla` are the modules, `*.cfg` the TLC configurations, `PROJECT.json` the
index: the runs, the line of source behind every definition, a mutant for every
property, the hazards, the findings and the theorems.

## 1. Inventory

| Part | State | Operations | Talks to |
|---|---|---|---|
| QLock, `concurrency/qlock.c` | `use` (spin lock), `locked`, list of waiting processes | qlock, canqlock, qunlock | sched and ready |
| RWlock, `concurrency/qlock.c` | `use`, `readers`, `writer`, list | rlock, canrlock, runlock, wlock, wunlock | sched and ready |
| Scheduler, `processes/proc.c` | `runq[]`, `runvec`; per processor `proc`, `readied`; per process `state`, `cpu`, `lastcpu`, `wired`, `priority`, `fixedpri` | ready, sched, schedinit, runproc, queueproc, dequeueproc, rebalance, hzsched, preempt, procwired, procpriority, newproc | everything that blocks; the clock |
| Sleep and wakeup, `processes/proc.c` | `Rendez.p` and its Lock; `Proc.r`, `Proc.rlock`, `notepending` | sleep, wakeup, postnote, tsleep, twakeup | scheduler, timers, all drivers |
| Semaphores, `processes/syssema.c` | value in user memory; list of `Sema` with `waiting` | semacquire, tsemacquire, semrelease | sleep, wakeup, notes |
| Rendezvous, `processes/sysproc.c` | hash chains of waiting processes in `Rgrp`, its Lock; `rendtag`, `rendval` | rendezvous; postnote pulls a process out; rfork and exit change the group | scheduler, notes |
| Process life, `proc.c`, `sysproc.c` | parent, `nchild`, `waitq`, `broken` list, `procalloc.free` | rfork, pexit, pwait, kproc | scheduler, sleep, segments |
| Queues, `files/qio.c` | Queue: blocks, `len`, `dlen`, state flags, two Rendez, two QLocks | qread, qbread, qbwrite, qproduce, qpass, qiwrite, qget, qdiscard, qconsume, qclose, qhangup, qreopen, qflush | sleep, drivers, pipes |
| Timers and alarms, `time/` | per-processor timer lists and clocks; alarm list | timeradd, timerdel, timerintr, tsleep, procalarm, alarmkproc | clock, sleep, notes |
| Mount driver, `devices/sys/devmnt.c` | requests with tags, queue of unanswered ones, `rip` (who reads) | mountrpc: write, gate, read for all, flush when interrupted | sleep, notes, queues, file servers |
| Spin locks, `concurrency/taslock.c` | `key`, `p`; `nlocks`, `delaysched` | lock, canlock, unlock, ilock, iunlock | scheduler |
| Process control, `devices/sys/devproc.c` | `procctl`, `pdbg`, `debug` | stop, start, kill, wired, pri, trace | scheduler, notes |
| Memory, channels, network, drivers | — | — | — |

What is hard here: every list above is walked or changed by several processors
and by interrupts; a process is published as waiting before it has left its
processor; a wakeup, a note and a timeout compete for the same sleeper; values
read without a lock are used under one. What makes the parts correct: a lock
has one owner; nobody who should run is lost; nobody runs twice; a wakeup
cannot fall between a test and a sleep; the panics that guard these facts are
out of reach.

## 2. Modules

| Module | Models | Checked by |
|---|---|---|
| `Mutex` | what a lock promises: an owner, processes that wait, hand-over | refinement in `qlock`, theorem |
| `Qlock` | QLock | `qlock`, `QlockProofs` |
| `RWlock` | RWlock | `rwlock`, `RWlockProofs` |
| `Sched` | the scheduler | `sched`, `sched_live`, `SchedProofs` |
| `SchedReuse` | `Sched` with Procs reused by newproc | `sched_reuse` |
| `Sleep` | sleep, wakeup, postnote | `sleep`, `SleepProofs` |
| `Sema`, `MCSema` | the semaphore system calls | `sema`, `sema_result`, `SleepProofs` |
| `ByteStream` | what a Queue promises: bytes in, the same bytes out, an end when closed | refinement in `qio`, theorem |
| `Qio`, `MCQio` | the Queues of qio.c | `qio`, `MntProofs` |
| `Mnt`, `MCMnt` | the mount driver | `mnt`, `MntProofs` |
| `Exchange` | what rendezvous promises: two values change owners in one moment, or an interruption | refinement in `rendezvous`, theorem |
| `Rendezvous` | rendezvous, notes that interrupt it, changes of group | `rendezvous`, `RendezvousProofs` |
| `Timers` | timer lists, timerintr, tsleep | `timers`, `TimersProofs` |
| `SeqLemmas` | lemmas on lists without repetitions (what they hold after an insertion or a removal, how long they are), on sums, on flattened lists, on prefixes and suffixes | `tlapm` |
| `QlockProofs`, `RWlockProofs`, `SchedProofs`, `SleepProofs`, `RendezvousProofs`, `MntProofs`, `TimersProofs` | inductive invariants and theorems, each about the module it is named after; `SleepProofs` also about `Sema`, which is built on sleep and wakeup, and `MntProofs` also about `Qio`, which carries the messages of the mount driver | `tlapm` |

Conventions. A variable `pc` (`at` in `Sema` and `Qio`) says where in the C code a
process (or processor) is. The names of `Sema` and `Qio` that other modules have
too carry a prefix (`SemNext`, `QioNext`...), so that one proof module can extend
two components. What happens under a spin lock and touches only what the lock protects is
one action, or one action to take the lock and one for the critical section;
what is read or written without the lock is an action of its own. `nil` is a
model value. The operators named after a mistake (`QlockIgnoresHolder`,
`SleepIgnoresNote`...) are not used by the specifications: each is a wrong
version of the definition that follows it, and `PROJECT.json` says which
property notices.

**Qlock.** `use` is the holder of the spin lock `q->use`; `queue` is the list
from `q->head` to `q->tail`. A process goes from `out` through the critical
section of `qlock` to `in`, or into the list and to `sched`; `qunlock` takes the
first waiter into `hand`, releases `q->use` and only then calls `ready`.
`q->locked` stays set during a hand-over, which is why `canqlock` fails then.
`Pollers` are the processes that call canqlock.

**RWlock.** The same style. `wunlock` wakes the readers at the head of the list
one by one with `q->use` held (`WunlockWake`), and readers it has made ready may
run before it is finished. The panics of runlock and wunlock are a place `panic`.

**Sched.** One `pc` per processor. `run`: on the kernel stack of `up`;
`schedinit` and `clear`: on its own stack, finishing with `up`; `runproc`,
`scan`, `found`, `picked`, `scheding`: looking for the next process. `Ready` and
`Queueproc` are the two halves of ready(): before and under the lock of runq.
`waiting` is the set of processes somebody else will call ready() on: blocking
primitives put a process there (`Block`). The walk of runproc looks at one queue
per step without the lock, and dequeueproc looks again. canlock(runq) may fail
when another processor is at a critical section of runq. Priorities are chosen
freely where the code calls reprioritize, a time slice may end at any tick (but
for a process with `fixedpri`, which only a higher queue preempts), and
the postponement of sched() while spin locks are held only delays the call.
Proc.state has one value `Blocked` for all the waiting states.

**SchedReuse** adds newproc, which makes a new process of a `Dead` one.

**Sleep.** `rp` and `pr` are `r->p` and `p->r`, `rlk` and `plk` the two spin
locks. sleep takes both, tests the condition and notepending one after the
other, and commits. wakeup takes the locks in the same order; postnote takes
`p->rlock` first and backs off (`PostnoteRetry`) when canlock(r) fails. The
caller of sleep uses the condition up when it returns without an error; the
caller of wakeup makes it true first. The texts of notes are left out.

**Sema.** The value changes only in canacquire and in semrelease's cmpswap
loop, each one atomic step; the list only with its lock held; the flag
`waiting` at any time. semwakeup walks the list element by element and calls
wakeup after it has cleared a flag, as two steps. sleep, wakeup and postnote are
atomic, which is what `Sleep` justifies. A unit that is out has been taken by a
call that answered 1 (`held`) or by one that answered 0 all the same (`untold`,
section 4); either can be released, since user code may go by the sign of the
answer, as libc's lock() does.

**Qio.** A Queue is of one of seven kinds, chosen at the start: who is at its
ends (processes at both, as in a pipe; interrupts on one side; print() beside
processes, as on a serial line) and how qopen was called (bytes, messages,
coalescing). `blocks` is the list, of records with the bytes and the allocated
size; `len` counts what is allocated, `dlen` the bytes. What is under the ilock
is one action, and the wakeup after iunlock another: an actor at `wakerr`,
`wakewr` or `both` has it still to do. qbwrite looks for room without the ilock
(`WriteFull`) and sets Qflow under it later (`WriteFlow`), when the Queue may be
empty, closed or opened again. qread keeps the blocks it has taken in
`hand` while it copies. Readers and writers are processes and may be
interrupted; a `Handler` calls the operations for interrupts, a `Closer` closes,
hangs up, reopens and flushes. qreopen has callers only where nobody uses the
Queue (a pipe closed at both ends, a conversation or a serial line opened anew),
but for netif, where others may be reading it: that is `Reopenable`. The guard is
needed: the proof of `QioSleeperWillBeWoken` failed without it, and TLC then
showed, with a `Limit` of 2, a writer that is on its way to sleep during a qclose
and a qreopen, while a reader puts a block back, and that then sleeps with Qflow
cleared. The refinement maps the
stream of `ByteStream` to the bytes in `hand` followed by those in the list.

**Mnt.** A Mntrpc is its tag. All processes take theirs from one pool
(`rpcfree`), any free one, so that a tag goes from process to process. `queue` is
the list of unanswered requests, `rip` the process that reads. `work` and
`replies` are the file server and the connection; the server is external and
answers as flush(5) says, in any order. A process that gets a note at the write,
in sleep or while reading allocates a Tflush (`FlushAlloc`) whose `flushed` is the
request before it and whose `oldtag` is the first request; mntflushfree walks that
chain. `for` in a message names the process whose request it is, and nobody once
that request is over, so that an answer to an earlier use of a tag shows. A reader
gets every reply into its own Mntrpc first; `reply` says whether what a Mntrpc
holds answers its request or another. mountmux wakes the owner of a reply after it
has left the lock, when the Mntrpc may have another owner already: whoever sleeps
on it now is woken (`MuxWakeup`). Two simplifications: the server sends
well-formed messages, so that a read fails only when the connection is hung up
(after a malformed one the code gives the tag of the reader's request back
without a flush, and nothing could be said about it); and mntfree keeps all
Mntrpcs, whereas the code returns them to malloc and their tags to the mask when
it has ten: either way the tag can be taken again, but a late wakeup on memory
that malloc has given to others is not modelled.

**Rendezvous.** `chain` is the set of processes in the hash chains of a group and
`lk` its Lock. A process that waits is at `sched` until it has left its
processor and at `off` after that; who meets it spins until then (`MeetReady`).
postnote looks at the state without the lock, takes the lock of the group that
`p->rgrp` names, looks again, and unlocks the group that `p->rgrp` names then.
Its callers hold `p->debug` (`debug`), which notify needs. Processes of `Leaver`
change their group, exit, and are made anew by rfork, with the notes and in the
group of their parent (with RFREND, as if they called rfork(RFREND) first).

**Timers.** Time is relative: `rem` is how long until a timer is due, `armed` how
long until the clock of a processor interrupts; `Tick` lets time pass for all. A
processor in timerintr takes a due timer off its list, calls twakeup (three
steps, since it reads and clears `p->trend` without a lock) or notes the HZ
clock, and puts a periodic timer back. A process executes on any processor that
is not in timerintr, and may change it between two steps.

## 3. Runs

| Run | Instance | Shows |
|---|---|---|
| `qlock` | 5 processes, all may poll | one owner, nobody lost, every waiter served, refines `Mutex` |
| `rwlock` | 4 processes, all may poll | exclusion, true counters, no panic, never free with waiters, no starvation |
| `sched` | 2 processes, 2 processors, 2 priorities, one process tuned and wired | one processor per process, nobody lost or queued twice, with rebalance, procwired, procpriority |
| `sched_live` | 3 processes, 1 processor, 2 priorities, one process tuned | a ready process runs unless processes of higher or fixed priority are before it again and again; also one behind two that ready each other |
| `sched_reuse` | 2 processes, 2 processors | **violated**, see section 4 |
| `sleep` | 2 sleepers, 2 Rendez, 2 wakers, 1 poster | no panic, pointers in step, no lost wakeup or note, no lasting lock-order deadlock, sleepers wake |
| `sema` | 3 processes, a semaphore of 2 and one of 0 on the same list, notes, timeouts | no unit lost or made, no missed wakeup, nobody sleeps for ever on a free semaphore, so wakeups go to waiters of the right one |
| `sema_result` | as `sema`, with a semaphore of 1 | **violated**, see section 4 |
| `qio` | 1 reader, 2 writers, 1 handler, 1 closer; all kinds of Queue | true counters, sleepers have somebody to wake them, refines `ByteStream`, nobody stuck |
| `mnt` | 3 processes, 4 tags, one of them used by two processes; one process gets a note | nobody gets another's reply or one to an earlier use of its tag, no tag reused too early, requests return (so the gate is never lost) |
| `rendezvous` | 3 processes, 2 tags, 2 groups, 1 poster; one process is interrupted, leaves and exits | nobody missed, chains true, the right unlock, refines `Exchange`, nobody stuck |
| `timers` | 1 process, 2 processors, 2 Rendez | lists sorted and true, no timer left, clocks in time, HZ for ever |

Type correctness (`TypeOK`) is a property of its own in `qlock` and `sched`;
elsewhere it is the first conjunct of the invariant that says what the data
structure is: `CountersTrue`, `RendezSynchronized`,
`PermitsConserved`, `LenAccurate`, `TagNotReused`, `ChainIsWaiting`, `ListsTrue`.

Bounds. All state spaces are finite and explored completely, with behaviours of
any length. Apart from the sizes of the sets there are two bounds that the code
does not have: `MaxBlocks` (blocks in a Queue; 2 are enough to go past `Limit` by
a write and to coalesce) and `MaxFlush` (how often one request is interrupted). In
`mnt` that is once, and one of the three tags of the process that is interrupted
is also the tag of another process, so that it goes back and forth between them.
What the instance leaves out, a pool of five tags that three processes share and a Tflush
that is itself flushed, was checked once by hand for `ReplyToRequester` and
`TagNotReused` (793 thousand states up to the names of tags), and the theorems
cover any sharing and any number of flushes. `NNOTE` is 1 instead of 5, so that
the queue of notes gets full. `Limit` is 4, and a block of two bytes counts
three, so one block is above half the limit and two are above it. `Data` has a
write of nothing and one that a read has to split. `Timeout` and `Period` put a
timeout before, at and after the next HZ tick. With four
processes a lock has an owner, a process at the hand-over and two in the list,
so that every mix of readers and writers at its head occurs. Two processors are
what the races of the scheduler need, and two processes what their queues do;
three on one processor (`sched_live`) leave one behind two that ready each
other. The third race of syssema.c (one acquirer is given two wakeups)
needs two releases, and so a semaphore of two. In `sema` one process polls and
waits with a timeout, one waits and gets notes, and one waits for either
semaphore, so that every way out of a call meets every other; the semaphore of 0
is there to be waited for, ahead of or behind those who wait for the first. In
`sema` everybody may end up waiting, and in `rendezvous` for partners; this is why
deadlock is not checked there. Two processes with timers on two processors were checked once by hand
without liveness (1.6 million states), and a Queue with two actors that may both
handle interrupts and close.

Fairness. A process inside qlock, sleep or a semaphore call, and a processor in
the scheduler, keeps executing (weak fairness of its steps), since the kernel's
own scheduler runs it: that is `ReadyRuns`, as long as processes of higher or fixed
priority do not keep all processors for ever, which the other modules assume.
Strong fairness stands for a spin
lock that is tried over and over and is free over and over, and for the clock,
which some time ticks while a process that has used up its slice is Running, and
whose rebalance and look at the higher queues are one interrupt. In `timers` time passes and
interrupts are served; in `mnt` the file server answers every request some time,
which is what flush(5) asks of it. Owners of locks unlock them
(the kernel's code does); nobody has to ask for anything. `postnote` has no
liveness property of its own: it may, in principle, fail its canlock for ever.

## 4. Findings

The run `sched_reuse` shows that `schedinit` frees the Proc of an exited process
before it clears its `cpu` field: the write may hit a new, running process, against
the comment in dequeueproc that cpu is nil only when the state is saved.

The run `sema_result` shows that `semacquire` and `tsemacquire` answer 0 after they
have waited for a semaphore and taken it (`syssema.c:215`, `261`), where
semacquire(2) says "Both functions return 1 if the semaphore was acquired".

Other things the code does, met while modelling it, that no run is about:

- `runproc` overwrites `lastcpu` of a process that was wired after runproc found
  it (`proc.c:744`); such a process is wired to one processor and picked from the
  run queues by another only.
- `twakeup` reads and clears `p->trend` without a lock, and `timerdel` does not
  wait for it, although the comment in timerintr (`portclock.c:236`) says that
  tdel waits "until we're done". A twakeup that belongs to an earlier tsleep can
  clear the `trend` of the next one, with another Rendez, which then has no
  timeout. `Timers` has this behaviour, so it does not state that a tsleep ends.
- `qiwrite` does not set Qflow (`qio.c:1360`). On a serial line that print() fills
  at the wrong moment, a writer can sleep with Qflow clear, and the Queue can
  drain without waking it. `SleeperWillBeWoken` and `NoStuckSleeper` except this.
- After the connection to a file server is hung up, a process that mntgate woke
  and that takes a note leaves without passing the gate on (`devmnt.c:542`); the
  properties of `Mnt` that need the gate hold until the hangup.
- A note that is posted to a process just before it waits in rendezvous does not
  interrupt it (`sysproc.c:1061`).

## 5. Proofs

`tlapm` proves the theorems below for every value of the constants: any set of
processes, processors, interrupts, Rendezes, semaphores, groups, tags, timeouts,
limits and data. For each component there is an inductive invariant (`IInv`;
`SemInv` and `QioInv` for semaphores and Queues), which every action preserves
(one lemma per action, one step per conjunct) and from which the properties
follow. Each was first checked by TLC on the instance of the component's run.
Every invariant and every refinement that a run checks is also a theorem; only
liveness is left to TLC alone.

- **Qlock.** `QlockTypeOK`, `QlockMutualExclusion`, `QlockWaiterNotLost`,
  `QlockImplementsMutex`. The inductive invariant adds to mutual
  exclusion that the list has no repetitions, holds processes asleep in qlock
  only and is empty when the lock is free (`QueueInv`), and that at most one
  process is at the ready() of qunlock, with the one asleep process that has left
  the list (`HandInv`). Without the first, a hand-over could give the lock to a
  process that has it; without the second, a process could return from sched()
  without owning the lock. The refinement maps the owner to whoever is inside or
  has been handed the lock, and the abstract waiting set to the list.
- **RWlock.** `RWlockExclusion`, `RWlockCountersTrue`, `RWlockNoPanic`,
  `RWlockNoIdleWaiters`. They are proved together, because each needs the others:
  runlock does not panic because a list behind readers starts with a writer
  (`HeadInv`); a writer may enter when `readers` is 0 because it counts the
  owners (`CountInv`); and it counts them because the readers that wunlock wakes
  owned nothing before (`WriterInv`, `QueueInv`). `WakeInv` says that the loop of
  wunlock lets at least one reader in, so that it may clear `writer` at its end;
  `HandInv` is that of Qlock, for writers.
- **Sched.** `SchedTypeOK`, `SchedOneCpu`, `SchedCpuNilOnlyWhenSaved`. The
  invariant has four parts: `Proc.cpu` and `Cpu.proc` agree (`CpuInv`);
  `Proc.state` tells the kind of place a process is in (`StateInv`); queues have
  no repetitions and are disjoint (`QueueInv`); and a process is in one place
  only: a queue, the hand of one processor, or somebody's care (`PlaceInv`). The
  last is what lets sched() set `Proc.cpu` outside the lock of runq: dequeueproc
  saw it nil, and nobody else can have the process since. `SchedReuse` shows that
  the argument stops at reused Procs. `SchedReadyInOnePlace` says that nobody is
  lost either: `LInv` adds where a process is that ready() was called on
  (`LostInv`) and when a processor may have one in hand (`HandInv`). The property
  counts the places, so the proof rests on the cardinality of a list without
  repetitions.
- **Sleep.** `SleepNoPanic`, `SleepRendezSynchronized`, `SleepNoLostWakeup`. The
  invariant derives the holder of each spin lock from where everybody is
  (`RlkInv`, `PlkInv`) and says what `r->p` and `p->r` are at every point, not
  only for who holds a lock (`RpInv`, `PrInv`). wakeup and postnote take the two
  locks in opposite orders; `WakerInv` and `PosterInv` say what each still knows
  after it has got the first and waits for the second. `CondInv` and `NoteInv`
  are the absence of lost wakeups made inductive: already between its test and
  its commitment a sleeper whose condition is true has a waker on its way.
- **Sema.** `SemaPermitsConserved`, `SemaClearedIsWoken`, `SemaNoMissedWakeup`. The
  first counts the units by what their taker was told: 1, 0, or nothing yet.
  The list holds those who wait, each once (`ListInv`), and its lock is held by
  who walks along it (`LkInv`, `WalkInv`). `NoMissedWakeup` says that somebody is
  on the way, which is not inductive: a releaser of several units may wake
  acquirers that take a unit early, time out or pass the wakeup on, and one that
  leaves must not be the last. So `DueInv` counts. What p has due from x is what
  x will still do for the waiters from its place in the list on: the n of a
  releaser that has not passed p, the one wakeup of a waiter whose flag is clear,
  the one unit of an acquirer about to try. For every sleeper with its flag set
  the value of its semaphore is at most the sum of these; so a value above 0 has
  somebody on the way. Each of the races that the comment in syssema.c describes
  is a step in which one term of the sum goes down and another goes up.
- **Rendezvous.** `RendezvousNobodyMissed`, `RendezvousChainIsWaiting`,
  `RendezvousUnlocksItsLock`, `RendezvousImplementsExchange`. State, chain and
  place agree (`StateInv`, `ChainInv`, `MetInv`); a process that has met another
  and spins until it is off its processor is the only one that will make it ready
  (`PartnerInv`). The argument that postnote depends on is `PosterInv`: while a
  poster holds `p->debug`, p has a note, so that it cannot get past notify to
  where it would change its group; hence the `p->rgrp` that postnote unlocks is
  the one that it locked. The refinement maps the moment of the exchange to the
  step in which the second process finds the first in the chain.
- **Mnt.** `MntReplyToRequester`, `MntTagNotReused`, for any sharing of tags. That
  the Mntrpcs of two processes are different is part of the invariant: a Mntrpc
  that is not free belongs to one process (`OwnerInv`), which has one of each depth
  (`UniqueInv`): its request, the Tflush of it, the next Tflush, linked by
  `flushed` (`ChainInv`, `CurInv`, `RpcInv`). While the connection lasts, messages
  under way are for requests that are not over (`LiveInv`), and the server answers
  earlier ones of a chain before later ones or never (`WorkOrder`, `ReplyOrder`);
  so when one is answered nothing is under way for it or for an earlier one
  (`DoneInv`), and mntflushfree, which starts at the last, may free them all
  (`FreeInv`). After a hangup tags are freed with replies still unread, and a reply
  to an earlier use may then be taken for the answer, but only for a request that
  cannot be written any more, and its process ends in an error (`Exempt`).
- **Qio.** `QioLenAccurate`, `QioSleeperWillBeWoken`, `QioImplementsStream`. Who
  is where, which QLock that means and which ends a kind of Queue has are `Roles`,
  `QLocksHeld` and `Ends`. A sleeper is woken because of its flag, but the flag is
  set before the sleep and the sleeper tests again without the ilock; so
  `AboutToSleep` says of who is between the two that its flag is still set, or that
  the test will send it back. A writer that has found no room and has yet to set
Qflow needs nothing: it sets the flag whatever has happened, and tests again. For a
writer that has set it this has to count the blocks that a
  reader has in hand: the reader may put some back after the writer has looked,
  and looks at Qflow itself only then. `HandFits` says that a qread that has taken
  several blocks has room for them, so that only a single one is ever split. For
  the refinement, each operation is shown to split the bytes that are there into
  those it returns, those it throws away (in a message Queue only) and those it
  leaves: `TakesBytes` for all that read, `AddsBytes` for all that write.
- **Timers.** `TimersListsTrue`, `TimersNoTimerLeft`, `TimersClockInTime`. A list
  holds the timers that name it, once each and in the order of their times
  (`ListInv`): tadd puts a timer where it belongs, tdel and timerintr take one
  out, and time that passes changes no order. The clock of a processor is set by
  the head of its list, and that there is one needs `HzInv`: the timer of the HZ
  clock is in the list or in the hands of timerintr.

Sums and flattened lists. The invariants of semaphores and Queues are about sums
(`SumFunction`) and about the bytes of a list of blocks (`FlattenSeq`), which are
a fold and a recursive function. The provers have no induction over data, so
`SeqLemmas` goes around it. A sum of natural numbers is shown to be the
cardinality of a set of tokens, one for each unit of each term, and the theorems
on cardinalities do the rest. What is true of all first parts of a list is shown
by looking at the shortest for which it would be false.

Assumptions are those on the constants. They say that the model values for nil
are not processes, processors, groups or tags, that the kinds of actors are
disjoint, that processor 0 and a priority exist, that the table of processes is
finite (`Sched`, `Sema`; the kernel allocates conf.nproc of them), that timeouts
are natural numbers and the HZ period is not 0, that a write is a sequence of
bytes and a read asks for at least one, and that the limit of a Queue is at least
2 (the kernel's are in kilobytes), so that half of it is below it and not 0.

Model-checked only: liveness (`WaiterServed`, `WakeupReturns`, `SleeperWakes`,
`NoStuckWaiter`, `ReadyRuns`, `NoStuckSleeper`, `RequestReturns`, `NobodyStuck`,
`HzRuns`), which is out of the prover's reach.

## 6. Plan

1. Done: QLock and its abstract specification, RWlock, the scheduler, sleep and
   wakeup, semaphores, Queues and the byte stream they implement, the mount
   driver, rendezvous and the exchange it implements, timers and tsleep; theorems
   on all of these, for every invariant and refinement that a run checks.
2. Modules that are left: the wait queue (rfork, pexit, pwait: every child is
   waited for once), alarms, `nlocks` and the postponed sched(), process control.

## Not modelled

Real-time scheduling, virtual memory, network protocols, drivers and the user
programs are left out, for the reasons `PROJECT.json` gives. The repository is an
operating system with its compilers, libraries and applications, of which the
kernel's concurrent core is a small part in lines: most of the rest is sequential
code over large inputs (compilers, editors, typesetting), hardware access, or
third-party programs, where a state machine would add nothing to the code.
