------------------------------- MODULE Sched -------------------------------
(***************************************************************************)
(* The multiprocessor process scheduler, kernel/processes/proc.c:          *)
(* schedinit, sched, ready, queueproc, dequeueproc, runproc, rebalance,    *)
(* hzsched, preempt, procwired and procpriority, on any number of          *)
(* processors.                                                             *)
(*                                                                         *)
(* A processor runs a process on the process's kernel stack (pc "run").    *)
(* sched() saves the process and jumps to the processor's own stack, where *)
(* schedinit puts a process that is still Running back in a run queue,     *)
(* then clears Proc.cpu, then forgets up, then looks for another process.  *)
(* From the moment it is in a run queue (or its blocked state is           *)
(* published) any processor may try to take it: the only thing that keeps  *)
(* it from being resumed before it has been saved is that dequeueproc      *)
(* refuses a process whose Proc.cpu is set.                                *)
(*                                                                         *)
(* runproc walks the queues without the lock, one level after the other,   *)
(* and dequeueproc looks for the process again under the lock.  A critical *)
(* section under the lock of runq is one action; canlock() may fail        *)
(* exactly when another processor is about to execute such a section.      *)
(*                                                                         *)
(* Left out: the real-time queues (edf.c), cpu time accounting: the value  *)
(* of reprioritize is any priority, and the end of a time slice may come   *)
(* at any clock tick.  The postponement of sched() while spin locks are    *)
(* held only delays the call.                                              *)
(***************************************************************************)
EXTENDS Naturals, Sequences, FiniteSets, SequencesExt

CONSTANTS Proc,         \* the process table
          Cpu,          \* the processors
          Cpu0,         \* the one that rebalances, CPUS(0)
          Npriq,        \* the number of priorities
          Wirable,      \* the processes that are wired to a processor
          Tuned,        \* the processes that are given a priority
          Mortal,       \* the processes that exit
          NoProc, NoCpu \* nil

Pri == 0 .. Npriq - 1

ASSUME ConstantsAssumption ==
    /\ IsFiniteSet(Proc) /\ NoProc \notin Proc
    /\ NoCpu \notin Cpu
    /\ Cpu0 \in Cpu
    /\ Npriq \in Nat \ {0}
    /\ Wirable \subseteq Proc /\ Tuned \subseteq Proc /\ Mortal \subseteq Proc

VARIABLES
    state,    \* [Proc -> Proc.state]; "Blocked" is any of the waiting states
    oncpu,    \* [Proc -> Proc.cpu]
    lastcpu,  \* [Proc -> Proc.lastcpu]
    wired,    \* [Proc -> Proc.wired]
    fixedpri, \* [Proc -> Proc.fixedpri]
    priority, \* [Proc -> Proc.priority]
    waiting,  \* the processes somebody owes a ready(): blocked or new
    runq,     \* [Pri -> the list of processes of that run queue]
    up,       \* [Cpu -> Cpu.proc]
    readied,  \* [Cpu -> Cpu.readied]
    pc,       \* [Cpu -> where the processor is in proc.c]
    tgt,      \* [Cpu -> the local p of runproc]
    lvl,      \* [Cpu -> the local rq of runproc, its index]
    pass,     \* [Cpu -> the local i of runproc: 0, or 1 for all i > 0]
    rdy,      \* [Cpu -> the process it is about to give to queueproc]
    rpri      \* [Cpu -> and in which queue]

procvars == <<state, oncpu, lastcpu, wired, fixedpri, priority, waiting>>
cpuvars  == <<up, readied, pc, tgt, lvl, pass, rdy, rpri>>
vars     == <<procvars, runq, cpuvars>>

\* "run": on the stack of up; the others are on the processor's own stack.
\* "clear": schedinit after the switch on the state of up; "found": at the
\* dequeueproc of runproc; "picked": after it; "scheding": back in sched().
OnUp  == {"run", "schedinit", "clear"}
PcSet == OnUp \cup {"runproc", "scan", "found", "picked", "scheding"}

TypeOK ==
    /\ state \in [Proc -> {"Ready", "Scheding", "Running", "Blocked", "Moribund", "Dead"}]
    /\ oncpu \in [Proc -> Cpu \cup {NoCpu}]
    /\ lastcpu \in [Proc -> Cpu \cup {NoCpu}]
    /\ wired \in [Proc -> Cpu \cup {NoCpu}]
    /\ fixedpri \in [Proc -> BOOLEAN]
    /\ priority \in [Proc -> Pri]
    /\ waiting \subseteq Proc
    /\ runq \in [Pri -> Seq(Proc)]
    /\ up \in [Cpu -> Proc \cup {NoProc}]
    /\ readied \in [Cpu -> Proc \cup {NoProc}]
    /\ pc \in [Cpu -> PcSet]
    /\ tgt \in [Cpu -> Proc \cup {NoProc}]
    /\ lvl \in [Cpu -> Pri]
    /\ pass \in [Cpu -> {0, 1}]
    /\ rdy \in [Cpu -> Proc \cup {NoProc}]
    /\ rpri \in [Cpu -> Pri]

(* Every processor has booted and is idle; every process has been made by  *)
(* newproc and nobody has called ready() on it yet.                        *)
Init ==
    /\ state = [p \in Proc |-> "Scheding"]
    /\ oncpu = [p \in Proc |-> NoCpu]
    /\ lastcpu = [p \in Proc |-> NoCpu]
    /\ wired = [p \in Proc |-> NoCpu]
    /\ fixedpri = [p \in Proc |-> FALSE]
    /\ priority = [p \in Proc |-> Npriq - 1]
    /\ waiting = Proc
    /\ runq = [i \in Pri |-> <<>>]
    /\ up = [c \in Cpu |-> NoProc]
    /\ readied = [c \in Cpu |-> NoProc]
    /\ pc = [c \in Cpu |-> "runproc"]
    /\ tgt = [c \in Cpu |-> NoProc]
    /\ lvl = [c \in Cpu |-> Npriq - 1]
    /\ pass = [c \in Cpu |-> 0]
    /\ rdy = [c \in Cpu |-> NoProc]
    /\ rpri = [c \in Cpu |-> 0]

Goto(c, to) == pc' = [pc EXCEPT ![c] = to]

(* c executes the process up[c], not inside a ready() or a rebalance().    *)
Executes(c) == pc[c] = "run" /\ rdy[c] = NoProc

anyready == \E i \in Pri : runq[i] /= <<>>
anyhigher(c) == \E i \in Pri : i > priority[up[c]] /\ runq[i] /= <<>>

-----------------------------------------------------------------------------
(* Making processes ready.                                                 *)

(* The part of ready(p) for group scheduling: unless p is giving up the    *)
(* processor, and if p may run here, c will try it first.                  *)
GroupReadiedSelf(c, p) ==
    readied' = IF wired[p] \in {NoCpu, c} THEN [readied EXCEPT ![c] = p] ELSE readied

GroupReadied(c, p) ==
    readied' = IF up[c] /= p /\ wired[p] \in {NoCpu, c}
               THEN [readied EXCEPT ![c] = p] ELSE readied

(* ready(p) up to queueproc: on behalf of the running process, or of an    *)
(* interrupt, which may come while the processor idles in runproc.         *)
Ready(c, p) ==
    /\ Executes(c) \/ (pc[c] = "scan" /\ rdy[c] = NoProc)
    /\ p \in waiting
    /\ waiting' = waiting \ {p}
    /\ GroupReadied(c, p)
    /\ \E pri \in Pri :
          /\ priority' = [priority EXCEPT ![p] = pri]
          /\ rpri' = [rpri EXCEPT ![c] = pri]
    /\ state' = [state EXCEPT ![p] = "Ready"]
    /\ rdy' = [rdy EXCEPT ![c] = p]
    /\ UNCHANGED <<oncpu, lastcpu, wired, fixedpri, runq, up, pc, tgt, lvl, pass>>

(* queueproc: append to the queue, under the lock of runq.                 *)
Queueproc(c) ==
    /\ rdy[c] /= NoProc
    /\ runq' = [runq EXCEPT ![rpri[c]] = Append(@, rdy[c])]
    /\ priority' = [priority EXCEPT ![rdy[c]] = rpri[c]]
    /\ rdy' = [rdy EXCEPT ![c] = NoProc]
    /\ rpri' = [rpri EXCEPT ![c] = 0]
    /\ UNCHANGED <<state, oncpu, lastcpu, wired, fixedpri, waiting, up, readied, pc, tgt,
                   lvl, pass>>

-----------------------------------------------------------------------------
(* Giving up the processor.                                                *)

(* A blocking primitive publishes that its process waits, and will call    *)
(* sched() next: qlock, rlock, wlock, sleep, rendezvous, procctl...        *)
Block(c) ==
    /\ Executes(c)
    /\ state[up[c]] = "Running"
    /\ state' = [state EXCEPT ![up[c]] = "Blocked"]
    /\ waiting' = waiting \cup {up[c]}
    /\ UNCHANGED <<oncpu, lastcpu, wired, fixedpri, priority, runq, cpuvars>>

(* The end of pexit.                                                       *)
Pexit(c) ==
    /\ Executes(c)
    /\ up[c] \in Mortal
    /\ state[up[c]] = "Running"
    /\ state' = [state EXCEPT ![up[c]] = "Moribund"]
    /\ UNCHANGED <<oncpu, lastcpu, wired, fixedpri, priority, waiting, runq, cpuvars>>

(* sched() with a process: save it and go to schedinit.  Called by the     *)
(* blocking primitives and by pexit, and by a running process in rfork,    *)
(* yield and the unlock() that ends a postponement.                        *)
SwitchOut(c) ==
    /\ Executes(c)
    /\ Goto(c, "schedinit")
    /\ UNCHANGED <<procvars, runq, up, tgt, lvl, pass, rdy, rpri>>

CallSched(c) == SwitchOut(c) /\ UNCHANGED readied

(* hzsched finds that up has to give way, and the clock interrupt ends in  *)
(* a call of sched(); hzclock calls it only when up is Running.  A process *)
(* of fixed priority keeps the processor beyond its slice.                 *)
Hzsched(c) ==
    /\ SwitchOut(c)
    /\ state[up[c]] = "Running"
    /\ anyhigher(c) \/ (~fixedpri[up[c]] /\ anyready)
    /\ readied' = [readied EXCEPT ![c] = NoProc]

(* preempt, at the end of the other interrupts.                            *)
Preempt(c) ==
    /\ SwitchOut(c)
    /\ state[up[c]] = "Running"
    /\ anyhigher(c)
    /\ readied' = [readied EXCEPT ![c] = NoProc]

(* schedinit, the switch on the state of up: a process that gave up the    *)
(* processor but still wants to run goes back to a run queue.              *)
Schedinit(c) ==
    /\ pc[c] = "schedinit"
    /\ Goto(c, "clear")
    /\ CASE state[up[c]] = "Running" ->
               /\ GroupReadied(c, up[c])
               /\ state' = [state EXCEPT ![up[c]] = "Ready"]
               /\ rdy' = [rdy EXCEPT ![c] = up[c]]
               /\ \E pri \in Pri :
                     /\ priority' = [priority EXCEPT ![up[c]] = pri]
                     /\ rpri' = [rpri EXCEPT ![c] = pri]
         [] state[up[c]] = "Moribund" ->
               /\ state' = [state EXCEPT ![up[c]] = "Dead"]
               /\ UNCHANGED <<rdy, rpri, priority, readied>>
         [] OTHER -> UNCHANGED <<state, rdy, rpri, priority, readied>>
    /\ UNCHANGED <<oncpu, lastcpu, wired, fixedpri, waiting, runq, up, tgt, lvl, pass>>

(* up->cpu = nil: from here on dequeueproc accepts the process.            *)
ClearCpu(c) ==
    /\ pc[c] = "clear"
    /\ rdy[c] = NoProc
    /\ oncpu' = [oncpu EXCEPT ![up[c]] = NoCpu]
    /\ Goto(c, "runproc")
    /\ UNCHANGED <<state, lastcpu, wired, fixedpri, priority, waiting, runq, up, readied,
                   tgt, lvl, pass, rdy, rpri>>

-----------------------------------------------------------------------------
(* Finding a process to run.                                               *)

(* up = nil and the start of runproc: the process this processor readied   *)
(* last is tried first, without looking at the queues.                     *)
ReadiedFits(c) ==
    /\ readied[c] /= NoProc
    /\ oncpu[readied[c]] = NoCpu
    /\ state[readied[c]] = "Ready"
    /\ wired[readied[c]] \in {NoCpu, c}

Runproc(c) ==
    /\ pc[c] = "runproc"
    /\ up' = [up EXCEPT ![c] = NoProc]
    /\ \/ /\ ReadiedFits(c)
          /\ tgt' = [tgt EXCEPT ![c] = readied[c]]
          /\ lvl' = [lvl EXCEPT ![c] = priority[readied[c]]]
          /\ Goto(c, "found")
          /\ UNCHANGED pass
       \/ /\ ~ReadiedFits(c)
          /\ lvl' = [lvl EXCEPT ![c] = Npriq - 1]
          /\ pass' = [pass EXCEPT ![c] = 0]
          /\ Goto(c, "scan")
          /\ UNCHANGED tgt
    /\ UNCHANGED <<procvars, runq, readied, rdy, rpri>>

(* The walk down the queues: a process that last ran here or nowhere, and  *)
(* from the second time around any process that is not wired.              *)
Fits(c, p) == lastcpu[p] \in {NoCpu, c} \/ (wired[p] = NoCpu /\ pass[c] > 0)

NextLevelOffByOne(c) == IF lvl[c] > 0 THEN lvl[c] - 1 ELSE Npriq

NextLevel(c) == IF lvl[c] > 0 THEN lvl[c] - 1 ELSE Npriq - 1

Scan(c) ==
    LET fitting == {i \in 1 .. Len(runq[lvl[c]]) : Fits(c, runq[lvl[c]][i])} IN
    /\ pc[c] = "scan"
    /\ rdy[c] = NoProc
    /\ \/ /\ \E i \in fitting :
                /\ \A j \in fitting : i <= j
                /\ tgt' = [tgt EXCEPT ![c] = runq[lvl[c]][i]]
          /\ Goto(c, "found")
          /\ UNCHANGED <<lvl, pass>>
       \/ /\ fitting = {}
          /\ lvl' = [lvl EXCEPT ![c] = NextLevel(c)]
          /\ pass' = [pass EXCEPT ![c] = IF lvl[c] > 0 THEN @ ELSE 1]
          /\ UNCHANGED <<pc, tgt>>
    /\ UNCHANGED <<procvars, runq, up, readied, rdy, rpri>>

(* dequeueproc: find the process again under the lock and take it out of   *)
(* the queue, unless it is gone or some processor has not let go of it.    *)
DequeuableUnsaved(p, rq, i) == i \in 1 .. Len(runq[rq]) /\ runq[rq][i] = p

Dequeuable(p, rq, i) ==
    /\ i \in 1 .. Len(runq[rq])
    /\ runq[rq][i] = p
    /\ oncpu[p] = NoCpu

TakeKeeps(p, rq) ==
    /\ \E i \in 1 .. Len(runq[rq]) : Dequeuable(p, rq, i)
    /\ UNCHANGED runq

Take(p, rq) ==
    \E i \in 1 .. Len(runq[rq]) :
        /\ Dequeuable(p, rq, i)
        /\ runq' = [runq EXCEPT ![rq] = RemoveAt(@, i)]

CannotTake(p, rq) == \A i \in 1 .. Len(runq[rq]) : ~Dequeuable(p, rq, i)

RunqBusy(c) == \E d \in Cpu \ {c} : rdy[d] /= NoProc \/ pc[d] = "found"

(* runproc at found: got it, or start again from the first queue.          *)
DequeueOk(c) ==
    /\ pc[c] = "found"
    /\ Take(tgt[c], lvl[c])
    /\ lvl' = [lvl EXCEPT ![c] = Npriq - 1]
    /\ pass' = [pass EXCEPT ![c] = 0]
    /\ Goto(c, "picked")
    /\ UNCHANGED <<procvars, up, readied, tgt, rdy, rpri>>

DequeueFail(c) ==
    /\ pc[c] = "found"
    /\ RunqBusy(c) \/ CannotTake(tgt[c], lvl[c])
    /\ lvl' = [lvl EXCEPT ![c] = Npriq - 1]
    /\ pass' = [pass EXCEPT ![c] = 0]
    /\ tgt' = [tgt EXCEPT ![c] = NoProc]
    /\ Goto(c, "scan")
    /\ UNCHANGED <<procvars, runq, up, readied, rdy, rpri>>

(* The end of runproc.                                                     *)
Pick(c) ==
    /\ pc[c] = "picked"
    /\ state' = [state EXCEPT ![tgt[c]] = "Scheding"]
    /\ lastcpu' = [lastcpu EXCEPT ![tgt[c]] = c]
    /\ Goto(c, "scheding")
    /\ UNCHANGED <<oncpu, wired, fixedpri, priority, waiting, runq, up, readied, tgt, lvl,
                   pass, rdy, rpri>>

(* sched() without a process: make the chosen one current and jump to it.  *)
Dispatch(c) ==
    /\ pc[c] = "scheding"
    /\ \E pri \in Pri : priority' = [priority EXCEPT ![tgt[c]] = pri]
    /\ readied' = [readied EXCEPT ![c] = NoProc]
    /\ up' = [up EXCEPT ![c] = tgt[c]]
    /\ state' = [state EXCEPT ![tgt[c]] = "Running"]
    /\ oncpu' = [oncpu EXCEPT ![tgt[c]] = c]
    /\ tgt' = [tgt EXCEPT ![c] = NoProc]
    /\ Goto(c, "run")
    /\ UNCHANGED <<lastcpu, wired, fixedpri, waiting, runq, lvl, pass, rdy, rpri>>

-----------------------------------------------------------------------------
(* Moving processes around.                                                *)

(* rebalance, one iteration: in the clock interrupt of processor 0, the    *)
(* first process of a queue goes to the queue its new priority asks for.   *)
Rebalance(c) ==
    /\ c = Cpu0
    /\ Executes(c)
    /\ state[up[c]] = "Running"
    /\ \E pri, npri \in Pri :
          /\ runq[pri] /= <<>>
          /\ lastcpu[Head(runq[pri])] = c
          /\ npri /= pri
          /\ Take(Head(runq[pri]), pri)
          /\ rdy' = [rdy EXCEPT ![c] = Head(runq[pri])]
          /\ rpri' = [rpri EXCEPT ![c] = npri]
    /\ UNCHANGED <<procvars, up, readied, pc, tgt, lvl, pass>>

(* procwired and procpriority, called on behalf of a running process that  *)
(* writes to the ctl file of p, its own or another's.                      *)
Procwired(c, p) ==
    /\ Executes(c)
    /\ state[p] /= "Dead"
    /\ \E home \in Cpu :
          /\ wired' = [wired EXCEPT ![p] = home]
          /\ lastcpu' = [lastcpu EXCEPT ![p] = home]
    /\ UNCHANGED <<state, oncpu, fixedpri, priority, waiting, runq, cpuvars>>

Procpriority(c, p) ==
    /\ Executes(c)
    /\ state[p] /= "Dead"
    /\ \E pri \in Pri : priority' = [priority EXCEPT ![p] = pri]
    /\ \E fixed \in BOOLEAN : fixedpri' = [fixedpri EXCEPT ![p] = fixed]
    /\ UNCHANGED <<state, oncpu, lastcpu, wired, waiting, runq, cpuvars>>

-----------------------------------------------------------------------------
(* The scheduler's own steps on processor c.                               *)
Step(c) ==
    \/ Queueproc(c) \/ Schedinit(c) \/ ClearCpu(c)
    \/ Runproc(c) \/ Scan(c) \/ DequeueOk(c) \/ DequeueFail(c)
    \/ Pick(c) \/ Dispatch(c)

Next ==
    \E c \in Cpu :
        \/ Step(c)
        \/ Block(c) \/ Pexit(c) \/ CallSched(c) \/ Hzsched(c) \/ Preempt(c)
        \/ Rebalance(c)
        \/ \E p \in Proc : Ready(c, p)
        \/ \E p \in Wirable : Procwired(c, p)
        \/ \E p \in Tuned : Procpriority(c, p)

Spec == Init /\ [][Next]_vars

(* The processors keep executing, and interrupts do not keep one from its  *)
(* own code for ever; a canlock() of runq tried again and again succeeds   *)
(* some time; a process that has published that it waits goes on to call   *)
(* sched().  Nothing obliges a process to block or to be readied.          *)
FairCpus ==
    \A c \in Cpu :
        /\ WF_vars(Step(c))
        /\ SF_vars(Scan(c))
        /\ SF_vars(DequeueOk(c))
        /\ SF_vars(CallSched(c) /\ state[up[c]] /= "Running")

(* The clock does not depend on what processes do: it some time ticks      *)
(* while a process that has used up its slice is Running, and hzsched      *)
(* looks for a higher queue after rebalance, in the same interrupt.        *)
FairClock ==
    \A c \in Cpu : SF_vars(Hzsched(c)) /\ SF_vars(Hzsched(c) /\ anyhigher(c))

FairSpec == Spec /\ FairCpus /\ FairClock
-----------------------------------------------------------------------------
InHand(c, p) == rdy[c] = p \/ (pc[c] \in {"picked", "scheding"} /\ tgt[c] = p)

(* No process is executed by two processors at once.                       *)
OneCpu ==
    \A c, d \in Cpu : c /= d /\ pc[c] = "run" /\ pc[d] = "run" => up[c] /= up[d]

(* "p->cpu==nil only when process state is saved": as long as a processor  *)
(* is on the stack of p, Proc.cpu is that processor.                       *)
CpuNilOnlyWhenSaved ==
    \A c \in Cpu : pc[c] = "run" => up[c] \in Proc /\ oncpu[up[c]] = c

(* A process that is ready is nowhere lost and nowhere twice: it is in one *)
(* place of one run queue or in the hand of one processor that will put it *)
(* there or run it, and a process in a queue or hand is ready.             *)
ReadyInOnePlace ==
    \A p \in Proc :
        LET places == {q \in Pri \X (1 .. Cardinality(Proc)) :
                           q[2] <= Len(runq[q[1]]) /\ runq[q[1]][q[2]] = p}
            hands  == {c \in Cpu : InHand(c, p)}
        IN  Cardinality(places) + Cardinality(hands) =
                IF state[p] = "Ready" \/ (state[p] = "Scheding" /\ p \notin waiting)
                THEN 1 ELSE 0

(* Who may keep a ready process of level i waiting: a process in a higher  *)
(* queue, or one that runs with a higher priority, or with at least the    *)
(* same one, fixed.                                                        *)
Outranks(q, i) ==
    \/ \E j \in Pri : j > i /\ q \in Range(runq[j])
    \/ /\ state[q] = "Running"
       /\ priority[q] > i \/ (fixedpri[q] /\ priority[q] = i)

GivesWay(p) == \E i \in Pri : p \in Range(runq[i]) /\ \E q \in Proc : Outranks(q, i)

(* Every ready process gets to run, unless processes of higher or fixed    *)
(* priority are before it again and again: the clock takes the processor   *)
(* away from those that keep it, and from processes that ready each other  *)
(* over and over (cooperative scheduling through cpu->readied).            *)
ReadyRuns == \A p \in Proc : (state[p] = "Ready") ~> (state[p] = "Running" \/ GivesWay(p))
=============================================================================
