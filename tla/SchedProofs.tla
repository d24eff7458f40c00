---------------------------- MODULE SchedProofs ----------------------------
(***************************************************************************)
(* No process runs on two processors, for any number of processes,         *)
(* processors and priorities: an inductive invariant of Sched.tla.         *)
(*                                                                         *)
(* OneCpu follows from Proc.cpu and Cpu.proc agreeing (CpuInv).  That      *)
(* sched() may set Proc.cpu of the process it got from runproc needs that  *)
(* the process is in no other processor's hand and that its Proc.cpu is    *)
(* still nil, as dequeueproc saw it: a process is in one place only, a     *)
(* queue, the hand of a processor or the care of whoever will ready() it   *)
(* (PlaceInv), and Proc.state tells which kind of place (StateInv).        *)
(* That no ready process is lost either (LostInv) needs besides that a     *)
(* processor has let go of a process before it takes another (HandInv).    *)
(***************************************************************************)
EXTENDS Sched, SeqLemmas

Picked(c) == pc[c] \in {"picked", "scheding"}

CpuInv ==
    /\ \A c \in Cpu : pc[c] \in OnUp => up[c] \in Proc /\ oncpu[up[c]] = c
    /\ \A c \in Cpu, p \in Proc : oncpu[p] = c => pc[c] \in OnUp /\ up[c] = p

StateInv ==
    /\ \A p \in waiting : state[p] \in {"Blocked", "Scheding"}
    /\ \A i \in Pri : \A p \in Range(runq[i]) : state[p] = "Ready"
    /\ \A c \in Cpu : rdy[c] \in Proc => state[rdy[c]] = "Ready"
    /\ \A c \in Cpu : pc[c] = "picked" => tgt[c] \in Proc /\ state[tgt[c]] = "Ready"
    /\ \A c \in Cpu : pc[c] = "scheding" => tgt[c] \in Proc /\ state[tgt[c]] = "Scheding"

QueueInv ==
    /\ \A i \in Pri : NoRepeat(runq[i])
    /\ \A i, j \in Pri : \A p \in Range(runq[i]) : p \in Range(runq[j]) => i = j

PlaceInv ==
    /\ \A c \in Cpu, i \in Pri : rdy[c] \notin Range(runq[i])
    /\ \A c, d \in Cpu : rdy[c] \in Proc /\ rdy[d] = rdy[c] => c = d
    /\ \A c \in Cpu, i \in Pri : Picked(c) => tgt[c] \notin Range(runq[i])
    /\ \A c, d \in Cpu : Picked(c) => rdy[d] /= tgt[c]
    /\ \A c, d \in Cpu : Picked(c) /\ Picked(d) /\ tgt[c] = tgt[d] => c = d
    /\ \A c \in Cpu : Picked(c) => tgt[c] \notin waiting /\ oncpu[tgt[c]] = NoCpu

IInv == TypeOK /\ CpuInv /\ StateInv /\ QueueInv /\ PlaceInv

HandInv == \A c \in Cpu : rdy[c] /= NoProc => pc[c] \in {"run", "scan", "clear"}

Wanted(p) == state[p] = "Ready" \/ (state[p] = "Scheding" /\ p \notin waiting)
Queued(p) == \E i \in Pri : p \in Range(runq[i])
Held(p) == \E c \in Cpu : InHand(c, p)

LostInv == \A p \in Proc : Wanted(p) => Queued(p) \/ Held(p)

LInv == IInv /\ HandInv /\ LostInv

-----------------------------------------------------------------------------
(* The run queues hold processes.                                          *)
LEMMA RunqOfProcs ==
    ASSUME TypeOK, NEW i \in Pri
    PROVE  runq[i] \in Seq(Proc) /\ Range(runq[i]) \subseteq Proc
BY RangeOfSeq DEF TypeOK

LEMMA InitIInv == Init => IInv
<1> SUFFICES ASSUME Init PROVE IInv
    OBVIOUS
<1>1. Npriq - 1 \in Pri /\ 0 \in Pri
    BY ConstantsAssumption DEF Pri
<1>2. TypeOK
    BY <1>1, EmptySeq, ConstantsAssumption DEF Init, TypeOK, PcSet, OnUp
<1>3. \A i \in Pri : Range(runq[i]) = {} /\ NoRepeat(runq[i])
    BY DEF Init, Range, NoRepeat
<1>4. CpuInv /\ StateInv /\ QueueInv /\ PlaceInv
    BY <1>3, ConstantsAssumption
       DEF Init, CpuInv, StateInv, QueueInv, PlaceInv, Picked, OnUp
<1> QED BY <1>2, <1>4 DEF IInv

(* Steps that move no process: a processor goes from one place of the code *)
(* to another without having a process in its hand before or after.        *)
LEMMA WalkIInv ==
    ASSUME IInv, TypeOK', NEW c \in Cpu, NEW to \in PcSet,
           pc' = [pc EXCEPT ![c] = to],
           UNCHANGED <<state, oncpu, waiting, runq, rdy>>,
           pc[c] \notin {"picked", "scheding"}, to \notin {"picked", "scheding"},
           pc[c] \in OnUp <=> to \in OnUp,
           \A d \in Cpu : pc[d] \in OnUp => up'[d] = up[d],
           \A d \in Cpu \ {c} : tgt'[d] = tgt[d]
    PROVE  IInv'
<1>1. CpuInv'
    BY DEF IInv, TypeOK, CpuInv, OnUp
<1>2. StateInv' /\ QueueInv' /\ PlaceInv'
    BY DEF IInv, TypeOK, StateInv, QueueInv, PlaceInv, Picked
<1> QED BY <1>1, <1>2 DEF IInv

LEMMA SwitchOutIInv ==
    ASSUME IInv, NEW c \in Cpu, CallSched(c) \/ Hzsched(c) \/ Preempt(c)
    PROVE  IInv'
<1>1. SwitchOut(c) /\ (readied' = readied \/ readied' = [readied EXCEPT ![c] = NoProc])
    BY DEF CallSched, Hzsched, Preempt
<1>2. TypeOK'
    BY <1>1 DEF IInv, TypeOK, SwitchOut, Goto, procvars, PcSet, OnUp
<1>3. /\ pc' = [pc EXCEPT ![c] = "schedinit"] /\ pc[c] = "run"
      /\ UNCHANGED <<state, oncpu, waiting, runq, rdy>> /\ UNCHANGED <<up, tgt>>
    BY <1>1 DEF SwitchOut, Executes, Goto, procvars
<1> QED BY <1>2, <1>3, WalkIInv DEF PcSet, OnUp

LEMMA RunprocIInv ==
    ASSUME IInv, NEW c \in Cpu, Runproc(c)
    PROVE  IInv'
<1>1. TypeOK'
  <2>1. Npriq - 1 \in Pri
      BY ConstantsAssumption DEF Pri
  <2>2. readied[c] /= NoProc => readied[c] \in Proc /\ priority[readied[c]] \in Pri
      BY DEF IInv, TypeOK
  <2>3. CASE ReadiedFits(c)
      BY <2>2, <2>3 DEF IInv, TypeOK, Runproc, ReadiedFits, Goto, procvars, PcSet, OnUp
  <2>4. CASE ~ReadiedFits(c)
    <3>1. /\ lvl' = [lvl EXCEPT ![c] = Npriq - 1] /\ pass' = [pass EXCEPT ![c] = 0]
          /\ pc' = [pc EXCEPT ![c] = "scan"] /\ up' = [up EXCEPT ![c] = NoProc]
          /\ UNCHANGED <<procvars, runq, readied, tgt, rdy, rpri>>
        BY <2>4 DEF Runproc, Goto
    <3> QED BY <2>1, <3>1 DEF IInv, TypeOK, procvars, PcSet, OnUp
  <2> QED BY <2>3, <2>4
<1>2. /\ pc[c] = "runproc" /\ up' = [up EXCEPT ![c] = NoProc]
      /\ UNCHANGED <<state, oncpu, waiting, runq, rdy>>
    BY DEF Runproc, procvars
<1>3. /\ \A d \in Cpu : pc[d] \in OnUp => up'[d] = up[d]
      /\ \A d \in Cpu \ {c} : tgt'[d] = tgt[d]
    BY <1>2 DEF IInv, TypeOK, Runproc, OnUp
<1>a. /\ pc[c] \notin {"picked", "scheding"}
      /\ \A to \in {"found", "scan"} : to \in PcSet /\ (pc[c] \in OnUp <=> to \in OnUp)
    BY <1>2 DEF PcSet, OnUp
<1>4. CASE pc' = [pc EXCEPT ![c] = "found"]
    BY <1>1, <1>2, <1>3, <1>a, <1>4, WalkIInv
<1>5. CASE pc' = [pc EXCEPT ![c] = "scan"]
    BY <1>1, <1>2, <1>3, <1>a, <1>5, WalkIInv
<1> QED BY <1>4, <1>5 DEF Runproc, Goto

LEMMA ScanIInv ==
    ASSUME IInv, NEW c \in Cpu, Scan(c)
    PROVE  IInv'
<1>1. lvl[c] \in Pri /\ NextLevel(c) \in Pri
    BY ConstantsAssumption DEF IInv, TypeOK, NextLevel, Pri
<1>2. \A i \in 1 .. Len(runq[lvl[c]]) : runq[lvl[c]][i] \in Proc
    BY <1>1, ElementOfSeq DEF IInv, TypeOK
<1>3. /\ pc[c] = "scan" /\ UNCHANGED <<state, oncpu, lastcpu, wired, fixedpri, priority, waiting>>
      /\ UNCHANGED <<runq, up, readied, rdy, rpri>>
    BY DEF Scan, procvars
<1>4. CASE pc' = [pc EXCEPT ![c] = "found"] /\ UNCHANGED <<lvl, pass>>
           /\ \E i \in 1 .. Len(runq[lvl[c]]) : tgt' = [tgt EXCEPT ![c] = runq[lvl[c]][i]]
  <2>1. TypeOK'
      BY <1>2, <1>3, <1>4 DEF IInv, TypeOK, PcSet, OnUp
  <2>2. \A d \in Cpu \ {c} : tgt'[d] = tgt[d]
      BY <1>4 DEF IInv, TypeOK
  <2> QED BY <1>3, <1>4, <2>1, <2>2, WalkIInv DEF PcSet, OnUp
<1>5. CASE /\ lvl' = [lvl EXCEPT ![c] = NextLevel(c)]
           /\ pass' = [pass EXCEPT ![c] = IF lvl[c] > 0 THEN @ ELSE 1]
           /\ UNCHANGED <<pc, tgt>>
  <2>1. TypeOK'
      BY <1>1, <1>3, <1>5 DEF IInv, TypeOK
  <2>2. pc' = [pc EXCEPT ![c] = "scan"]
      BY <1>3, <1>5 DEF IInv, TypeOK
  <2> QED BY <1>3, <1>5, <2>1, <2>2, WalkIInv DEF PcSet, OnUp
<1> QED BY <1>4, <1>5 DEF Scan, Goto

LEMMA DequeueFailIInv ==
    ASSUME IInv, NEW c \in Cpu, DequeueFail(c)
    PROVE  IInv'
<1>1. TypeOK'
  <2>1. Npriq - 1 \in Pri
      BY ConstantsAssumption DEF Pri
  <2> QED BY <2>1 DEF IInv, TypeOK, DequeueFail, Goto, procvars, PcSet, OnUp
<1>2. /\ pc' = [pc EXCEPT ![c] = "scan"] /\ pc[c] = "found"
      /\ UNCHANGED <<state, oncpu, waiting, runq, rdy>> /\ up' = up
      /\ \A d \in Cpu \ {c} : tgt'[d] = tgt[d]
    BY DEF IInv, TypeOK, DequeueFail, Goto, procvars
<1> QED BY <1>1, <1>2, WalkIInv DEF PcSet, OnUp
(* Wiring a process or giving it a priority moves it nowhere.              *)
LEMMA TuneIInv ==
    ASSUME IInv, NEW c \in Cpu, NEW p \in Proc, Procwired(c, p) \/ Procpriority(c, p)
    PROVE  IInv'
<1>1. TypeOK'
  <2>1. CASE Procwired(c, p)
    <3>1. PICK home \in Cpu : /\ wired' = [wired EXCEPT ![p] = home]
                             /\ lastcpu' = [lastcpu EXCEPT ![p] = home]
        BY <2>1 DEF Procwired
    <3>2. UNCHANGED <<state, oncpu, fixedpri, priority, waiting, runq, up, readied, pc, tgt>>
          /\ UNCHANGED <<lvl, pass, rdy, rpri>>
        BY <2>1 DEF Procwired, cpuvars
    <3> QED BY <3>1, <3>2 DEF IInv, TypeOK
  <2>2. CASE Procpriority(c, p)
    <3>1. PICK pri \in Pri, fixed \in BOOLEAN :
              /\ priority' = [priority EXCEPT ![p] = pri]
              /\ fixedpri' = [fixedpri EXCEPT ![p] = fixed]
        BY <2>2 DEF Procpriority
    <3>2. UNCHANGED <<state, oncpu, lastcpu, wired, waiting, runq, up, readied, pc, tgt>>
          /\ UNCHANGED <<lvl, pass, rdy, rpri>>
        BY <2>2 DEF Procpriority, cpuvars
    <3> QED BY <3>1, <3>2 DEF IInv, TypeOK
  <2> QED BY <2>1, <2>2
<1>2. /\ UNCHANGED <<state, oncpu, waiting, runq>>
      /\ UNCHANGED <<up, pc, tgt, rdy>>
    BY DEF Procwired, Procpriority, cpuvars
<1>3. CpuInv' /\ StateInv' /\ QueueInv' /\ PlaceInv'
    BY <1>2 DEF IInv, CpuInv, StateInv, QueueInv, PlaceInv, Picked
<1> QED BY <1>1, <1>3 DEF IInv

LEMMA BlockIInv ==
    ASSUME IInv, NEW c \in Cpu, Block(c)
    PROVE  IInv'
<1>1. /\ pc[c] = "run" /\ up[c] \in Proc /\ oncpu[up[c]] = c
      /\ state[up[c]] = "Running"
    BY DEF IInv, CpuInv, Block, Executes, OnUp
<1>2. /\ state' = [state EXCEPT ![up[c]] = "Blocked"]
      /\ waiting' = waiting \cup {up[c]}
      /\ UNCHANGED <<oncpu, lastcpu, wired, fixedpri, priority, runq>>
      /\ UNCHANGED <<up, readied, pc, tgt, lvl, pass, rdy, rpri>>
    BY DEF Block, cpuvars
<1>3. TypeOK' /\ CpuInv' /\ QueueInv'
    BY <1>1, <1>2 DEF IInv, TypeOK, CpuInv, QueueInv
<1>4. StateInv'
    BY <1>1, <1>2, RunqOfProcs DEF IInv, TypeOK, StateInv
<1>5. PlaceInv'
    BY <1>1, <1>2, ConstantsAssumption DEF IInv, TypeOK, PlaceInv, Picked
<1> QED BY <1>3, <1>4, <1>5 DEF IInv

LEMMA PexitIInv ==
    ASSUME IInv, NEW c \in Cpu, Pexit(c)
    PROVE  IInv'
<1>1. /\ pc[c] = "run" /\ up[c] \in Proc /\ oncpu[up[c]] = c
      /\ state[up[c]] = "Running"
    BY DEF IInv, CpuInv, Pexit, Executes, OnUp
<1>2. /\ state' = [state EXCEPT ![up[c]] = "Moribund"]
      /\ UNCHANGED <<oncpu, lastcpu, wired, fixedpri, priority, waiting, runq>>
      /\ UNCHANGED <<up, readied, pc, tgt, lvl, pass, rdy, rpri>>
    BY DEF Pexit, cpuvars
<1>3. TypeOK' /\ CpuInv' /\ QueueInv' /\ PlaceInv'
    BY <1>1, <1>2 DEF IInv, TypeOK, CpuInv, QueueInv, PlaceInv, Picked
<1>4. StateInv'
    BY <1>1, <1>2, RunqOfProcs DEF IInv, TypeOK, StateInv
<1> QED BY <1>3, <1>4 DEF IInv
(* ready(): the process leaves the care of whoever had to ready it for the *)
(* hand of the processor that does.                                        *)
LEMMA ReadyIInv ==
    ASSUME IInv, NEW c \in Cpu, NEW p \in Proc, Ready(c, p)
    PROVE  IInv'
<1>1. /\ p \in waiting /\ waiting' = waiting \ {p} /\ rdy[c] = NoProc
      /\ state' = [state EXCEPT ![p] = "Ready"]
      /\ rdy' = [rdy EXCEPT ![c] = p]
      /\ UNCHANGED <<oncpu, lastcpu, wired, fixedpri, runq, up, pc, tgt, lvl, pass>>
    BY DEF Ready, Executes
<1>2. TypeOK'
    BY DEF IInv, TypeOK, Ready, GroupReadied
<1>3. /\ state[p] \in {"Blocked", "Scheding"}
      /\ \A i \in Pri : p \notin Range(runq[i])
      /\ \A d \in Cpu : rdy[d] /= p
      /\ \A d \in Cpu : Picked(d) => tgt[d] /= p
    BY <1>1 DEF IInv, StateInv, PlaceInv
<1>4. CpuInv' /\ QueueInv'
    BY <1>1 DEF IInv, CpuInv, QueueInv
<1>5. StateInv'
    BY <1>1, <1>3, RunqOfProcs DEF IInv, TypeOK, StateInv, Picked
<1>6. PlaceInv'
    BY <1>1, <1>3 DEF IInv, TypeOK, PlaceInv, Picked
<1> QED BY <1>2, <1>4, <1>5, <1>6 DEF IInv

(* queueproc: from the hand of the processor to the end of a queue.        *)
LEMMA QueueprocIInv ==
    ASSUME IInv, NEW c \in Cpu, Queueproc(c)
    PROVE  IInv'
<1> DEFINE q == rpri[c]
<1>1. /\ rdy[c] \in Proc /\ q \in Pri /\ runq \in [Pri -> Seq(Proc)]
      /\ runq[q] \in Seq(Proc)
    BY DEF IInv, TypeOK, Queueproc
<1>2. /\ Append(runq[q], rdy[c]) \in Seq(Proc)
      /\ Range(Append(runq[q], rdy[c])) = Range(runq[q]) \cup {rdy[c]}
      /\ NoRepeat(Append(runq[q], rdy[c]))
    BY <1>1, AppendRange, AppendProperties DEF IInv, QueueInv, PlaceInv
<1>3. /\ runq' = [runq EXCEPT ![q] = Append(runq[q], rdy[c])]
      /\ rdy' = [rdy EXCEPT ![c] = NoProc]
      /\ UNCHANGED <<state, oncpu, lastcpu, wired, fixedpri, waiting, up, readied, pc, tgt,
                     lvl, pass>>
    BY DEF Queueproc
<1>4. /\ runq' \in [Pri -> Seq(Proc)]
      /\ \A i \in Pri : NoRepeat(runq'[i])
      /\ \A i \in Pri : \A p : p \in Range(runq'[i]) <=>
                               p \in Range(runq[i]) \/ (i = q /\ p = rdy[c])
    BY <1>1, <1>2, <1>3 DEF IInv, QueueInv
<1>a. \A d \in Cpu : rdy'[d] = IF d = c THEN NoProc ELSE rdy[d]
    BY <1>3 DEF IInv, TypeOK
<1> HIDE DEF q
<1>5. TypeOK'
  <2>1. 0 \in Pri
      BY ConstantsAssumption DEF Pri
  <2> QED BY <1>1, <1>3, <1>4, <2>1 DEF IInv, TypeOK, Queueproc, q
<1>6. CpuInv'
    BY <1>3 DEF IInv, CpuInv
<1>7. StateInv'
    BY <1>1, <1>3, <1>4, <1>a, ConstantsAssumption DEF IInv, StateInv
<1>8. QueueInv'
    BY <1>1, <1>4 DEF IInv, QueueInv, PlaceInv
<1>9. PlaceInv'
  <2>2. \A i \in Pri : NoProc \notin Range(runq'[i])
      BY <1>4, RangeOfSeq, ConstantsAssumption
  <2>3. \A d \in Cpu, i \in Pri : rdy'[d] \notin Range(runq'[i])
    <3>1. \A d \in Cpu \ {c} : rdy[d] /= rdy[c]
        BY <1>1 DEF IInv, PlaceInv
    <3>2. \A d \in Cpu, i \in Pri : rdy[d] \notin Range(runq[i])
        BY DEF IInv, PlaceInv
    <3> QED BY <1>4, <1>a, <2>2, <3>1, <3>2
  <2>4. \A d \in Cpu, i \in Pri : Picked(d) => tgt[d] \notin Range(runq'[i])
      BY <1>4 DEF IInv, PlaceInv
  <2>5. \A d, e \in Cpu : Picked(d) => rdy'[e] /= tgt[d]
      BY <1>a, ConstantsAssumption DEF IInv, PlaceInv, StateInv, Picked
  <2>6. \A d, e \in Cpu : rdy'[d] \in Proc /\ rdy'[e] = rdy'[d] => d = e
      BY <1>a, ConstantsAssumption DEF IInv, PlaceInv
  <2> QED BY <1>3, <2>3, <2>4, <2>5, <2>6 DEF IInv, PlaceInv, Picked
<1> QED BY <1>5, <1>6, <1>7, <1>8, <1>9 DEF IInv
(* schedinit with a process that is still Running takes it in hand.        *)
LEMMA SchedinitIInv ==
    ASSUME IInv, NEW c \in Cpu, Schedinit(c)
    PROVE  IInv'
<1>1. /\ pc[c] = "schedinit" /\ pc' = [pc EXCEPT ![c] = "clear"]
      /\ UNCHANGED <<oncpu, lastcpu, wired, fixedpri, waiting, runq, up, readied, tgt, lvl, pass>>
      /\ up[c] \in Proc /\ oncpu[up[c]] = c
    BY DEF IInv, CpuInv, Schedinit, GroupReadied, Goto, OnUp
<1>2. \A d \in Cpu : Picked(d)' <=> Picked(d)
    BY <1>1 DEF IInv, TypeOK, Picked
<1>3. \A d \in Cpu : Picked(d) => tgt[d] \in Proc /\ tgt[d] /= up[c]
    BY <1>1, ConstantsAssumption DEF IInv, PlaceInv, StateInv, Picked
<1>4. CpuInv'
    BY <1>1 DEF IInv, TypeOK, CpuInv, OnUp
<1>5. QueueInv'
    BY <1>1 DEF IInv, QueueInv
<1>6. CASE state[up[c]] = "Running"
  <2>1. /\ state' = [state EXCEPT ![up[c]] = "Ready"]
        /\ rdy' = [rdy EXCEPT ![c] = up[c]]
        /\ \E pri \in Pri :
              /\ priority' = [priority EXCEPT ![up[c]] = pri]
              /\ rpri' = [rpri EXCEPT ![c] = pri]
      BY <1>6 DEF Schedinit
  <2>2. TypeOK'
      BY <1>1, <2>1 DEF IInv, TypeOK, PcSet, OnUp
  <2>3. /\ \A i \in Pri : up[c] \notin Range(runq[i])
        /\ \A d \in Cpu : rdy[d] /= up[c]
        /\ up[c] \notin waiting
      BY <1>1, <1>6 DEF IInv, StateInv
  <2>4. StateInv'
      BY <1>1, <1>3, <2>1, <2>3, RunqOfProcs DEF IInv, TypeOK, StateInv, Picked
  <2>5. PlaceInv'
      BY <1>1, <1>2, <1>3, <2>1, <2>3 DEF IInv, TypeOK, PlaceInv
  <2> QED BY <1>4, <1>5, <2>2, <2>4, <2>5 DEF IInv
<1>7. CASE state[up[c]] /= "Running"
  <2>1. /\ UNCHANGED <<rdy, rpri, priority>>
        /\ state' = state \/ (state[up[c]] = "Moribund" /\ state' = [state EXCEPT ![up[c]] = "Dead"])
      BY <1>7 DEF Schedinit
  <2>2. TypeOK'
      BY <1>1, <2>1 DEF IInv, TypeOK, PcSet, OnUp
  <2>3. StateInv'
    <3>1. CASE state' = state
        BY <1>1, <2>1, <3>1 DEF IInv, TypeOK, StateInv
    <3>2. CASE state[up[c]] = "Moribund" /\ state' = [state EXCEPT ![up[c]] = "Dead"]
        BY <1>1, <1>3, <2>1, <3>2, RunqOfProcs DEF IInv, TypeOK, StateInv, Picked
    <3> QED BY <2>1, <3>1, <3>2
  <2>4. PlaceInv'
      BY <1>1, <1>2, <2>1 DEF IInv, TypeOK, PlaceInv
  <2> QED BY <1>4, <1>5, <2>2, <2>3, <2>4 DEF IInv
<1> QED BY <1>6, <1>7

LEMMA ClearCpuIInv ==
    ASSUME IInv, NEW c \in Cpu, ClearCpu(c)
    PROVE  IInv'
<1>1. /\ pc[c] = "clear" /\ pc' = [pc EXCEPT ![c] = "runproc"]
      /\ oncpu' = [oncpu EXCEPT ![up[c]] = NoCpu]
      /\ UNCHANGED <<state, lastcpu, wired, fixedpri, priority, waiting, runq, up, readied,
                     tgt, lvl, pass, rdy, rpri>>
      /\ up[c] \in Proc
    BY DEF IInv, CpuInv, ClearCpu, Goto, OnUp
<1>2. TypeOK'
    BY <1>1 DEF IInv, TypeOK, PcSet, OnUp
<1>3. CpuInv'
    BY <1>1, ConstantsAssumption DEF IInv, TypeOK, CpuInv, OnUp
<1>4. StateInv' /\ QueueInv' /\ PlaceInv'
    BY <1>1 DEF IInv, TypeOK, StateInv, QueueInv, PlaceInv, Picked
<1> QED BY <1>2, <1>3, <1>4 DEF IInv

(* The end of runproc: the process stays in hand.                          *)
LEMMA PickIInv ==
    ASSUME IInv, NEW c \in Cpu, Pick(c)
    PROVE  IInv'
<1>1. /\ pc[c] = "picked" /\ pc' = [pc EXCEPT ![c] = "scheding"]
      /\ state' = [state EXCEPT ![tgt[c]] = "Scheding"]
      /\ lastcpu' = [lastcpu EXCEPT ![tgt[c]] = c]
      /\ UNCHANGED <<oncpu, wired, fixedpri, priority, waiting, runq, up, readied, tgt, lvl,
                     pass, rdy, rpri>>
      /\ tgt[c] \in Proc /\ Picked(c)
    BY DEF IInv, StateInv, Pick, Goto, Picked
<1>2. TypeOK'
    BY <1>1 DEF IInv, TypeOK, PcSet, OnUp
<1>3. CpuInv' /\ QueueInv' /\ PlaceInv'
    BY <1>1 DEF IInv, TypeOK, CpuInv, QueueInv, PlaceInv, Picked, OnUp
<1>4. StateInv'
  <2>1. /\ \A i \in Pri : tgt[c] \notin Range(runq[i])
        /\ \A d \in Cpu : rdy[d] /= tgt[c]
        /\ \A d \in Cpu \ {c} : Picked(d) => tgt[d] /= tgt[c]
        /\ tgt[c] \notin waiting
      BY <1>1 DEF IInv, PlaceInv
  <2> QED BY <1>1, <2>1, RunqOfProcs DEF IInv, TypeOK, StateInv, Picked
<1> QED BY <1>2, <1>3, <1>4 DEF IInv

(* sched() makes the process it has in hand current: Proc.cpu was nil.     *)
LEMMA DispatchIInv ==
    ASSUME IInv, NEW c \in Cpu, Dispatch(c)
    PROVE  IInv'
<1>1. /\ pc[c] = "scheding" /\ pc' = [pc EXCEPT ![c] = "run"]
      /\ up' = [up EXCEPT ![c] = tgt[c]]
      /\ state' = [state EXCEPT ![tgt[c]] = "Running"]
      /\ oncpu' = [oncpu EXCEPT ![tgt[c]] = c]
      /\ tgt' = [tgt EXCEPT ![c] = NoProc]
      /\ UNCHANGED <<lastcpu, wired, fixedpri, waiting, runq, lvl, pass, rdy, rpri>>
      /\ tgt[c] \in Proc /\ Picked(c)
    BY DEF IInv, StateInv, Dispatch, Goto, Picked
<1>2. TypeOK'
    BY <1>1 DEF IInv, TypeOK, PcSet, OnUp, Dispatch
<1>3. /\ \A i \in Pri : tgt[c] \notin Range(runq[i])
      /\ \A d \in Cpu : rdy[d] /= tgt[c]
      /\ \A d \in Cpu \ {c} : Picked(d) => tgt[d] /= tgt[c]
      /\ tgt[c] \notin waiting /\ oncpu[tgt[c]] = NoCpu
    BY <1>1 DEF IInv, PlaceInv
<1>4. CpuInv'
    BY <1>1, <1>3, ConstantsAssumption DEF IInv, TypeOK, CpuInv, OnUp
<1>5. QueueInv' /\ PlaceInv'
    BY <1>1, <1>3 DEF IInv, TypeOK, QueueInv, PlaceInv, Picked
<1>6. StateInv'
    BY <1>1, <1>3, RunqOfProcs DEF IInv, TypeOK, StateInv, Picked
<1> QED BY <1>2, <1>4, <1>5, <1>6 DEF IInv
(* dequeueproc takes a process that is saved out of the one queue it was   *)
(* in, and leaves everything else in its queue.                            *)
LEMMA TakeRunq ==
    ASSUME TypeOK, QueueInv, NEW p, NEW rq \in Pri, Take(p, rq)
    PROVE  /\ p \in Proc /\ oncpu[p] = NoCpu /\ p \in Range(runq[rq])
           /\ runq' \in [Pri -> Seq(Proc)]
           /\ \A i \in Pri : NoRepeat(runq'[i])
           /\ \A i \in Pri : \A q : q \in Range(runq'[i]) <=>
                                    q \in Range(runq[i]) /\ q /= p
<1>1. runq \in [Pri -> Seq(Proc)] /\ runq[rq] \in Seq(Proc)
    BY DEF TypeOK
<1>2. PICK i \in 1 .. Len(runq[rq]) :
          /\ Dequeuable(p, rq, i)
          /\ runq' = [runq EXCEPT ![rq] = RemoveAt(runq[rq], i)]
    BY DEF Take
<1>3. runq[rq][i] = p /\ oncpu[p] = NoCpu
    BY <1>2 DEF Dequeuable
<1>4. p \in Range(runq[rq]) /\ p \in Proc
    BY <1>1, <1>3, InRange, ElementOfSeq
<1>5. /\ RemoveAt(runq[rq], i) \in Seq(Proc)
      /\ Range(RemoveAt(runq[rq], i)) = Range(runq[rq]) \ {p}
      /\ NoRepeat(RemoveAt(runq[rq], i))
    BY <1>1, <1>3, RemoveAtRange DEF QueueInv
<1>6. \A j \in Pri : j /= rq => p \notin Range(runq[j])
    BY <1>4 DEF QueueInv
<1>7. /\ runq' \in [Pri -> Seq(Proc)]
      /\ \A j \in Pri : NoRepeat(runq'[j])
    BY <1>1, <1>2, <1>5 DEF QueueInv
<1>8. \A j \in Pri : \A q : q \in Range(runq'[j]) <=> q \in Range(runq[j]) /\ q /= p
    BY <1>1, <1>2, <1>5, <1>6
<1> QED BY <1>3, <1>4, <1>7, <1>8

LEMMA DequeueOkIInv ==
    ASSUME IInv, NEW c \in Cpu, DequeueOk(c)
    PROVE  IInv'
<1> DEFINE p == tgt[c]
<1>1. /\ pc[c] = "found" /\ pc' = [pc EXCEPT ![c] = "picked"] /\ Take(p, lvl[c])
      /\ UNCHANGED <<state, oncpu, lastcpu, wired, fixedpri, priority, waiting>>
      /\ UNCHANGED <<up, readied, tgt, rdy, rpri>>
      /\ lvl[c] \in Pri
    BY DEF IInv, TypeOK, DequeueOk, Goto, procvars
<1>2. /\ p \in Proc /\ oncpu[p] = NoCpu /\ p \in Range(runq[lvl[c]])
      /\ runq' \in [Pri -> Seq(Proc)]
      /\ \A i \in Pri : NoRepeat(runq'[i])
      /\ \A i \in Pri : \A q : q \in Range(runq'[i]) <=> q \in Range(runq[i]) /\ q /= p
    BY <1>1, TakeRunq DEF IInv
<1>3. /\ state[p] = "Ready" /\ p \notin waiting
      /\ \A d \in Cpu : rdy[d] /= p
      /\ \A d \in Cpu : Picked(d) => tgt[d] /= p
    BY <1>1, <1>2 DEF IInv, StateInv, PlaceInv
<1>4. TypeOK'
  <2>1. Npriq - 1 \in Pri
      BY ConstantsAssumption DEF Pri
  <2> QED BY <1>1, <1>2, <2>1 DEF IInv, TypeOK, DequeueOk, PcSet, OnUp
<1>5. CpuInv'
    BY <1>1 DEF IInv, TypeOK, CpuInv, OnUp
<1>6. StateInv'
    BY <1>1, <1>2, <1>3 DEF IInv, TypeOK, StateInv
<1>7. QueueInv'
    BY <1>2 DEF IInv, QueueInv
<1>8. PlaceInv'
  <2>1. \A d \in Cpu : Picked(d)' <=> Picked(d) \/ d = c
      BY <1>1 DEF IInv, TypeOK, Picked
  <2> QED BY <1>1, <1>2, <1>3, <2>1 DEF IInv, PlaceInv
<1> QED BY <1>4, <1>5, <1>6, <1>7, <1>8 DEF IInv

LEMMA RebalanceIInv ==
    ASSUME IInv, NEW c \in Cpu, Rebalance(c)
    PROVE  IInv'
<1>1. PICK pri \in Pri, npri \in Pri :
          /\ Take(Head(runq[pri]), pri)
          /\ rdy' = [rdy EXCEPT ![c] = Head(runq[pri])]
          /\ rpri' = [rpri EXCEPT ![c] = npri]
    BY DEF Rebalance
<1>2. /\ UNCHANGED <<state, oncpu, lastcpu, wired, fixedpri, priority, waiting>>
      /\ UNCHANGED <<up, readied, pc, tgt, lvl, pass>>
      /\ rdy[c] = NoProc
    BY DEF Rebalance, procvars, Executes
<1> DEFINE p == Head(runq[pri])
<1>3. /\ p \in Proc /\ oncpu[p] = NoCpu /\ p \in Range(runq[pri])
      /\ runq' \in [Pri -> Seq(Proc)]
      /\ \A i \in Pri : NoRepeat(runq'[i])
      /\ \A i \in Pri : \A q : q \in Range(runq'[i]) <=> q \in Range(runq[i]) /\ q /= p
    BY <1>1, TakeRunq DEF IInv
<1>4. rdy' = [rdy EXCEPT ![c] = p] /\ rpri' = [rpri EXCEPT ![c] = npri]
    BY <1>1
<1> HIDE DEF p
<1>5. /\ state[p] = "Ready"
      /\ \A d \in Cpu : rdy[d] /= p
      /\ \A d \in Cpu : Picked(d) => tgt[d] /= p
    BY <1>3 DEF IInv, StateInv, PlaceInv
<1>6. TypeOK'
    BY <1>2, <1>3, <1>4 DEF IInv, TypeOK
<1>7. CpuInv'
    BY <1>2 DEF IInv, CpuInv
<1>8. StateInv'
    BY <1>2, <1>3, <1>4, <1>5 DEF IInv, TypeOK, StateInv
<1>9. QueueInv'
    BY <1>3 DEF IInv, QueueInv
<1>10. PlaceInv'
  <2>1. \A d \in Cpu : /\ Picked(d)' <=> Picked(d)
                      /\ tgt'[d] = tgt[d]
                      /\ rdy'[d] = IF d = c THEN p ELSE rdy[d]
      BY <1>2, <1>4 DEF IInv, TypeOK, Picked
  <2>2. \A d \in Cpu, i \in Pri : rdy'[d] \notin Range(runq'[i])
      BY <1>3, <2>1 DEF IInv, PlaceInv
  <2>3. \A d, e \in Cpu : rdy'[d] \in Proc /\ rdy'[e] = rdy'[d] => d = e
      BY <1>5, <2>1 DEF IInv, PlaceInv
  <2>4. \A d \in Cpu, i \in Pri : Picked(d)' => tgt'[d] \notin Range(runq'[i])
      BY <1>3, <2>1 DEF IInv, PlaceInv
  <2>5. \A d, e \in Cpu : Picked(d)' => rdy'[e] /= tgt'[d]
      BY <1>5, <2>1 DEF IInv, PlaceInv
  <2>6. /\ \A d, e \in Cpu : Picked(d)' /\ Picked(e)' /\ tgt'[d] = tgt'[e] => d = e
        /\ \A d \in Cpu : Picked(d)' => tgt'[d] \notin waiting' /\ oncpu'[tgt'[d]] = NoCpu
      BY <1>2, <2>1 DEF IInv, PlaceInv
  <2> QED BY <2>2, <2>3, <2>4, <2>5, <2>6 DEF PlaceInv
<1> QED BY <1>6, <1>7, <1>8, <1>9, <1>10 DEF IInv

-----------------------------------------------------------------------------
LEMMA StepIInv == IInv /\ [Next]_vars => IInv'
<1> SUFFICES ASSUME IInv, [Next]_vars PROVE IInv'
    OBVIOUS
<1>1. CASE UNCHANGED vars
  <2>1. /\ UNCHANGED <<state, oncpu, lastcpu, wired, fixedpri, priority, waiting, runq>>
        /\ UNCHANGED <<up, readied, pc, tgt, lvl, pass, rdy, rpri>>
      BY <1>1 DEF vars, procvars, cpuvars
  <2>2. TypeOK' /\ CpuInv'
      BY <2>1 DEF IInv, TypeOK, CpuInv
  <2>3. StateInv' /\ QueueInv' /\ PlaceInv'
      BY <2>1 DEF IInv, StateInv, QueueInv, PlaceInv, Picked
  <2> QED BY <2>2, <2>3 DEF IInv
<1>2. CASE Next
  <2>1. PICK c \in Cpu :
           \/ Step(c)
           \/ Block(c) \/ Pexit(c) \/ CallSched(c) \/ Hzsched(c) \/ Preempt(c)
           \/ Rebalance(c)
           \/ \E p \in Proc : Ready(c, p)
           \/ \E p \in Proc : Procwired(c, p) \/ Procpriority(c, p)
      BY <1>2, ConstantsAssumption DEF Next
  <2>2. CASE Step(c)
      BY <2>2, QueueprocIInv, SchedinitIInv, ClearCpuIInv, RunprocIInv, ScanIInv,
         DequeueOkIInv, DequeueFailIInv, PickIInv, DispatchIInv DEF Step
  <2>3. CASE Block(c) \/ Pexit(c) \/ CallSched(c) \/ Hzsched(c) \/ Preempt(c) \/ Rebalance(c)
      BY <2>3, BlockIInv, PexitIInv, SwitchOutIInv, RebalanceIInv
  <2>4. CASE \E p \in Proc : Ready(c, p)
      BY <2>4, ReadyIInv
  <2>5. CASE \E p \in Proc : Procwired(c, p) \/ Procpriority(c, p)
      BY <2>5, TuneIInv
  <2> QED BY <2>1, <2>2, <2>3, <2>4, <2>5
<1> QED BY <1>1, <1>2

(* The indices, queues and processor states of proc.c stay in their types. *)
THEOREM SchedTypeOK == Spec => []TypeOK
<1>1. IInv => TypeOK
    BY DEF IInv
<1> QED BY <1>1, InitIInv, StepIInv, PTL DEF Spec

(* dequeueproc's comment, "p->cpu==nil only when process state is saved":  *)
(* while a processor is on the kernel stack of a process, Proc.cpu of the  *)
(* process is that processor.                                              *)
THEOREM SchedCpuNilOnlyWhenSaved == Spec => []CpuNilOnlyWhenSaved
<1>1. IInv => CpuNilOnlyWhenSaved
    BY DEF IInv, CpuInv, CpuNilOnlyWhenSaved, OnUp
<1> QED BY <1>1, InitIInv, StepIInv, PTL DEF Spec

(* sched(), schedinit and runproc never let two processors execute the     *)
(* same process.                                                           *)
THEOREM SchedOneCpu == Spec => []OneCpu
<1>1. IInv => OneCpu
    BY DEF IInv, CpuInv, OneCpu, OnUp
<1> QED BY <1>1, InitIInv, StepIInv, PTL DEF Spec

-----------------------------------------------------------------------------
(* No ready process is lost.                                               *)
LEMMA NotLost ==
    ASSUME LInv,
           \A p \in Proc : Wanted(p)' => Wanted(p) \/ Queued(p)' \/ Held(p)',
           \A p \in Proc : Queued(p) \/ Held(p) =>
               Queued(p)' \/ Held(p)' \/ ~Wanted(p)'
    PROVE  LostInv'
    BY DEF LInv, LostInv

(* Steps that put nothing into a hand or queue and take nothing out.       *)
LEMMA WalkLInv ==
    ASSUME LInv, IInv', NEW c \in Cpu, NEW to,
           pc' = [pc EXCEPT ![c] = to],
           UNCHANGED <<runq, rdy>>,
           pc[c] \notin {"picked", "scheding"},
           rdy[c] = NoProc \/ to \in {"run", "scan", "clear"},
           \A d \in Cpu \ {c} : tgt'[d] = tgt[d],
           \A p \in Proc : Wanted(p)' => Wanted(p)
    PROVE  LInv'
<1>1. HandInv'
    BY DEF LInv, IInv, TypeOK, HandInv
<1>2. \A p \in Proc : (Queued(p) => Queued(p)') /\ (Held(p) => Held(p)')
    BY DEF LInv, IInv, TypeOK, Queued, Held, InHand
<1>3. LostInv'
    BY <1>2, NotLost
<1> QED BY <1>1, <1>3 DEF LInv

LEMMA QuietLInv ==
    ASSUME LInv, NEW c \in Cpu,
           \/ CallSched(c) \/ Hzsched(c) \/ Preempt(c) \/ ClearCpu(c)
           \/ Runproc(c) \/ Scan(c) \/ DequeueFail(c)
    PROVE  LInv'
<1>1. IInv'
    BY SwitchOutIInv, ClearCpuIInv, RunprocIInv, ScanIInv, DequeueFailIInv DEF LInv
<1>2. /\ UNCHANGED <<state, waiting, runq, rdy>> /\ \A d \in Cpu \ {c} : tgt'[d] = tgt[d]
      /\ pc[c] \in {"run", "clear", "runproc", "scan", "found"}
    BY DEF LInv, IInv, TypeOK, CallSched, Hzsched, Preempt, SwitchOut, Executes, ClearCpu,
           Runproc, Scan, DequeueFail, procvars
<1>3. \A p \in Proc : Wanted(p)' <=> Wanted(p)
    BY <1>2 DEF Wanted
<1>4. rdy[c] = NoProc
  <2>1. pc[c] \in {"runproc", "found"} => rdy[c] = NoProc
      BY DEF LInv, HandInv
  <2> QED BY <2>1 DEF CallSched, Hzsched, Preempt, SwitchOut, Executes, ClearCpu, Runproc,
             Scan, DequeueFail
<1>5. \E to : pc' = [pc EXCEPT ![c] = to]
  <2>1. pc' = pc => pc' = [pc EXCEPT ![c] = pc[c]]
      BY DEF LInv, IInv, TypeOK
  <2> QED BY <2>1 DEF CallSched, Hzsched, Preempt, SwitchOut, ClearCpu, Runproc, Scan,
             DequeueFail, Goto
<1> QED BY <1>1, <1>2, <1>3, <1>4, <1>5, WalkLInv

LEMMA RunningLInv ==
    ASSUME LInv, NEW c \in Cpu,
           \/ Block(c) \/ Pexit(c)
           \/ \E p \in Proc : Procwired(c, p) \/ Procpriority(c, p)
    PROVE  LInv'
<1>1. IInv'
    BY BlockIInv, PexitIInv, TuneIInv DEF LInv
<1>2. UNCHANGED <<runq, rdy, tgt, pc>> /\ pc[c] = "run"
    BY DEF Block, Pexit, Procwired, Procpriority, cpuvars, Executes
<1>3. pc' = [pc EXCEPT ![c] = "run"]
    BY <1>2 DEF LInv, IInv, TypeOK
<1>4. \A p \in Proc : Wanted(p)' => Wanted(p)
  <2>1. CASE Block(c)
      BY <2>1 DEF Block, Wanted, LInv, IInv, TypeOK
  <2>2. CASE Pexit(c)
      BY <2>2 DEF Pexit, Wanted, LInv, IInv, TypeOK
  <2>3. CASE \E p \in Proc : Procwired(c, p) \/ Procpriority(c, p)
      BY <2>3 DEF Procwired, Procpriority, Wanted
  <2> QED BY <2>1, <2>2, <2>3
<1> QED BY <1>1, <1>2, <1>3, <1>4, WalkLInv

LEMMA ReadyLInv ==
    ASSUME LInv, NEW c \in Cpu, NEW p \in Proc, Ready(c, p)
    PROVE  LInv'
<1>1. IInv'
    BY ReadyIInv DEF LInv
<1>2. /\ rdy[c] = NoProc /\ pc[c] \in {"run", "scan"} /\ waiting' = waiting \ {p}
      /\ state' = [state EXCEPT ![p] = "Ready"] /\ rdy' = [rdy EXCEPT ![c] = p]
      /\ UNCHANGED <<runq, pc, tgt>>
    BY DEF Ready, Executes
<1>3. /\ rdy'[c] = p /\ \A d \in Cpu \ {c} : rdy'[d] = rdy[d]
      /\ \A q \in Proc \ {p} : state'[q] = state[q]
    BY <1>2 DEF LInv, IInv, TypeOK
<1>4. HandInv'
    BY <1>2, <1>3 DEF LInv, HandInv
<1>5. \A q \in Proc : (Queued(q) => Queued(q)') /\ (Held(q) => Held(q)') /\ Held(p)'
    BY <1>2, <1>3, ConstantsAssumption DEF Queued, Held, InHand
<1>6. \A q \in Proc : Wanted(q)' => Wanted(q) \/ q = p
    BY <1>2, <1>3 DEF Wanted
<1>7. LostInv'
    BY <1>5, <1>6, NotLost
<1> QED BY <1>1, <1>4, <1>7 DEF LInv

LEMMA QueueprocLInv ==
    ASSUME LInv, NEW c \in Cpu, Queueproc(c)
    PROVE  LInv'
<1>1. IInv'
    BY QueueprocIInv DEF LInv
<1>a. PICK p \in Proc, q \in Pri : p = rdy[c] /\ q = rpri[c]
    BY DEF LInv, IInv, TypeOK, Queueproc
<1>2. /\ runq[q] \in Seq(Proc) /\ runq \in [Pri -> Seq(Proc)]
      /\ runq' = [runq EXCEPT ![q] = Append(runq[q], p)]
      /\ rdy' = [rdy EXCEPT ![c] = NoProc]
      /\ UNCHANGED <<state, waiting, pc, tgt>>
    BY <1>a DEF LInv, IInv, TypeOK, Queueproc
<1>3. /\ rdy'[c] = NoProc /\ \A d \in Cpu \ {c} : rdy'[d] = rdy[d]
    BY <1>2 DEF LInv, IInv, TypeOK
<1>4. Range(Append(runq[q], p)) = Range(runq[q]) \cup {p}
    BY <1>2, AppendRange
<1>5. \A x \in Proc : (Queued(x) => Queued(x)') /\ Queued(p)'
    BY <1>2, <1>4 DEF Queued
<1>6. \A x \in Proc : Held(x) => Held(x)' \/ x = p
    BY <1>a, <1>2, <1>3 DEF Held, InHand
<1>7. \A x \in Proc : Wanted(x)' <=> Wanted(x)
    BY <1>2 DEF Wanted
<1>8. HandInv'
    BY <1>2, <1>3 DEF LInv, HandInv
<1>9. LostInv'
    BY <1>2, <1>5, <1>6, <1>7, NotLost
<1> QED BY <1>1, <1>8, <1>9 DEF LInv

LEMMA SchedinitLInv ==
    ASSUME LInv, NEW c \in Cpu, Schedinit(c)
    PROVE  LInv'
<1>1. IInv'
    BY SchedinitIInv DEF LInv
<1>2. /\ pc[c] = "schedinit" /\ pc' = [pc EXCEPT ![c] = "clear"]
      /\ UNCHANGED <<waiting, runq, tgt>>
    BY DEF Schedinit, Goto
<1>a. PICK p \in Proc : p = up[c]
    BY <1>2 DEF LInv, IInv, CpuInv, OnUp
<1>3. rdy[c] = NoProc
    BY <1>2 DEF LInv, HandInv
<1>4. CASE state[p] = "Running"
  <2>1. /\ state' = [state EXCEPT ![p] = "Ready"] /\ rdy' = [rdy EXCEPT ![c] = p]
      BY <1>a, <1>4 DEF Schedinit
  <2>2. /\ rdy'[c] = p /\ pc'[c] = "clear"
        /\ \A d \in Cpu \ {c} : rdy'[d] = rdy[d] /\ pc'[d] = pc[d]
        /\ \A q \in Proc \ {p} : state'[q] = state[q]
      BY <1>2, <2>1 DEF LInv, IInv, TypeOK
  <2>3. HandInv'
      BY <2>2 DEF LInv, HandInv
  <2>4. \A q \in Proc : (Queued(q) => Queued(q)') /\ (Held(q) => Held(q)') /\ Held(p)'
      BY <1>2, <1>3, <2>2, ConstantsAssumption DEF Queued, Held, InHand
  <2>5. \A q \in Proc : Wanted(q)' => Wanted(q) \/ q = p
      BY <1>2, <2>2 DEF Wanted
  <2>6. LostInv'
      BY <2>4, <2>5, NotLost
  <2> QED BY <1>1, <2>3, <2>6 DEF LInv
<1>5. CASE state[p] /= "Running"
  <2>1. /\ rdy' = rdy
        /\ state' = state \/ state' = [state EXCEPT ![p] = "Dead"]
      BY <1>a, <1>5 DEF Schedinit
  <2>2. \A q \in Proc : Wanted(q)' => Wanted(q)
      BY <1>2, <2>1 DEF Wanted, LInv, IInv, TypeOK
  <2> QED BY <1>1, <1>2, <1>3, <2>1, <2>2, WalkLInv
<1> QED BY <1>4, <1>5

LEMMA TakeLInv ==
    ASSUME LInv, NEW c \in Cpu, DequeueOk(c) \/ Rebalance(c)
    PROVE  LInv'
<1>1. IInv'
    BY DequeueOkIInv, RebalanceIInv DEF LInv
<1>2. UNCHANGED <<state, waiting, tgt>> /\ \A p \in Proc : Wanted(p)' <=> Wanted(p)
    BY DEF DequeueOk, Rebalance, procvars, Wanted
<1>3. rdy[c] = NoProc
    BY DEF LInv, HandInv, DequeueOk, Rebalance, Executes
<1>4. PICK p \in Proc, i \in Pri :
          /\ Take(p, i)
          /\ \/ pc' = [pc EXCEPT ![c] = "picked"] /\ tgt[c] = p /\ rdy' = rdy /\ pc[c] = "found"
             \/ rdy' = [rdy EXCEPT ![c] = p] /\ pc' = pc /\ pc[c] = "run"
  <2>1. CASE DequeueOk(c)
    <3>1. lvl[c] \in Pri /\ Take(tgt[c], lvl[c])
        BY <2>1 DEF DequeueOk, LInv, IInv, TypeOK
    <3>2. tgt[c] \in Proc
        BY <3>1, TakeRunq DEF LInv, IInv
    <3> QED BY <2>1, <3>1, <3>2 DEF DequeueOk, Goto
  <2>2. CASE Rebalance(c)
    <3>1. PICK i \in Pri : /\ Take(Head(runq[i]), i)
                           /\ rdy' = [rdy EXCEPT ![c] = Head(runq[i])]
        BY <2>2 DEF Rebalance
    <3>2. Head(runq[i]) \in Proc
        BY <3>1, TakeRunq DEF LInv, IInv
    <3> QED BY <2>2, <3>1, <3>2 DEF Rebalance, Executes
  <2> QED BY <2>1, <2>2
<1>5. \A j \in Pri : \A q : q \in Range(runq'[j]) <=> q \in Range(runq[j]) /\ q /= p
    BY <1>4, TakeRunq DEF LInv, IInv
<1>6. \A q \in Proc : Queued(q) => Queued(q)' \/ q = p
    BY <1>5 DEF Queued
<1>7. HandInv'
    BY <1>3, <1>4 DEF LInv, HandInv, IInv, TypeOK
<1>8. \A q \in Proc : (Held(q) => Held(q)') /\ Held(p)'
    BY <1>2, <1>3, <1>4, <1>5, ConstantsAssumption DEF Held, InHand, LInv, IInv, TypeOK
<1>9. LostInv'
    BY <1>2, <1>5, <1>6, <1>8, NotLost
<1> QED BY <1>1, <1>7, <1>9 DEF LInv

LEMMA PickLInv ==
    ASSUME LInv, NEW c \in Cpu, Pick(c)
    PROVE  LInv'
<1>1. IInv'
    BY PickIInv DEF LInv
<1>a. PICK p \in Proc : p = tgt[c]
    BY DEF Pick, LInv, IInv, StateInv
<1>2. /\ pc[c] = "picked" /\ pc' = [pc EXCEPT ![c] = "scheding"]
      /\ state' = [state EXCEPT ![p] = "Scheding"]
      /\ UNCHANGED <<waiting, runq, tgt, rdy>>
    BY <1>a DEF Pick, Goto
<1>3. \A q \in Proc : (Queued(q) => Queued(q)') /\ (Held(q) => Held(q)') /\ Held(p)'
    BY <1>a, <1>2 DEF Queued, Held, InHand, LInv, IInv, TypeOK
<1>4. \A q \in Proc : Wanted(q)' => Wanted(q) \/ q = p
    BY <1>2 DEF Wanted, LInv, IInv, TypeOK
<1>5. HandInv'
    BY <1>2 DEF LInv, HandInv, IInv, TypeOK
<1>6. LostInv'
    BY <1>3, <1>4, NotLost
<1> QED BY <1>1, <1>5, <1>6 DEF LInv

LEMMA DispatchLInv ==
    ASSUME LInv, NEW c \in Cpu, Dispatch(c)
    PROVE  LInv'
<1>1. IInv'
    BY DispatchIInv DEF LInv
<1>a. PICK p \in Proc : p = tgt[c]
    BY DEF Dispatch, LInv, IInv, StateInv
<1>2. /\ pc[c] = "scheding" /\ pc' = [pc EXCEPT ![c] = "run"]
      /\ state' = [state EXCEPT ![p] = "Running"] /\ tgt' = [tgt EXCEPT ![c] = NoProc]
      /\ UNCHANGED <<waiting, runq, rdy>>
    BY <1>a DEF Dispatch, Goto
<1>3. \A q \in Proc : (Queued(q) => Queued(q)') /\ (Held(q) => Held(q)' \/ q = p)
    BY <1>a, <1>2 DEF Queued, Held, InHand, LInv, IInv, TypeOK
<1>4. \A q \in Proc : (Wanted(q)' => Wanted(q)) /\ ~Wanted(p)'
    BY <1>2 DEF Wanted, LInv, IInv, TypeOK
<1>5. HandInv'
    BY <1>2 DEF LInv, HandInv, IInv, TypeOK
<1>6. LostInv'
    BY <1>3, <1>4, NotLost
<1> QED BY <1>1, <1>5, <1>6 DEF LInv

LEMMA InitLInv == Init => LInv
<1>1. Init => HandInv /\ LostInv
    BY DEF Init, HandInv, LostInv, Wanted
<1> QED BY <1>1, InitIInv DEF LInv

LEMMA StepLInv == LInv /\ [Next]_vars => LInv'
<1> SUFFICES ASSUME LInv, [Next]_vars PROVE LInv'
    OBVIOUS
<1>1. CASE UNCHANGED vars
  <2>1. IInv'
      BY <1>1, StepIInv DEF LInv
  <2>2. HandInv' /\ LostInv'
      BY <1>1 DEF LInv, HandInv, LostInv, Wanted, Queued, Held, InHand, vars, procvars, cpuvars
  <2> QED BY <2>1, <2>2 DEF LInv
<1>2. CASE Next
  <2>1. PICK c \in Cpu :
           \/ Step(c)
           \/ Block(c) \/ Pexit(c) \/ CallSched(c) \/ Hzsched(c) \/ Preempt(c)
           \/ Rebalance(c)
           \/ \E p \in Proc : Ready(c, p)
           \/ \E p \in Proc : Procwired(c, p) \/ Procpriority(c, p)
      BY <1>2, ConstantsAssumption DEF Next
  <2>2. CASE Step(c)
      BY <2>2, QueueprocLInv, SchedinitLInv, QuietLInv, TakeLInv, PickLInv, DispatchLInv DEF Step
  <2>3. CASE CallSched(c) \/ Hzsched(c) \/ Preempt(c)
      BY <2>3, QuietLInv
  <2>4. CASE Block(c) \/ Pexit(c) \/ \E p \in Proc : Procwired(c, p) \/ Procpriority(c, p)
      BY <2>4, RunningLInv
  <2>5. CASE Rebalance(c) \/ \E p \in Proc : Ready(c, p)
      BY <2>5, TakeLInv, ReadyLInv
  <2> QED BY <2>1, <2>2, <2>3, <2>4, <2>5
<1> QED BY <1>1, <1>2

(* What LInv says, counted.                                                *)
LEMMA LInvOnePlace == LInv => ReadyInOnePlace
<1> SUFFICES ASSUME LInv, NEW p \in Proc
             PROVE  LET places == {q \in Pri \X (1 .. Cardinality(Proc)) :
                                      q[2] <= Len(runq[q[1]]) /\ runq[q[1]][q[2]] = p}
                        hands  == {c \in Cpu : InHand(c, p)}
                    IN  Cardinality(places) + Cardinality(hands) =
                            IF Wanted(p) THEN 1 ELSE 0
    BY DEF ReadyInOnePlace, Wanted
<1> DEFINE places == {q \in Pri \X (1 .. Cardinality(Proc)) :
                         q[2] <= Len(runq[q[1]]) /\ runq[q[1]][q[2]] = p}
           hands == {c \in Cpu : InHand(c, p)}
<1>1. \A i \in Pri : /\ runq[i] \in Seq(Proc) /\ Len(runq[i]) \in Nat
                     /\ Len(runq[i]) <= Cardinality(Proc) /\ Cardinality(Proc) \in Nat
  <2> SUFFICES ASSUME NEW i \in Pri
               PROVE  /\ runq[i] \in Seq(Proc) /\ Len(runq[i]) \in Nat
                      /\ Len(runq[i]) <= Cardinality(Proc) /\ Cardinality(Proc) \in Nat
      OBVIOUS
  <2>1. runq[i] \in Seq(Proc) /\ Range(runq[i]) \subseteq Proc /\ Len(runq[i]) \in Nat
      BY RunqOfProcs, LenProperties DEF LInv, IInv
  <2>2. Cardinality(Range(runq[i])) = Len(runq[i])
      BY <2>1, ListCardinality DEF LInv, IInv, QueueInv
  <2>3. Cardinality(Range(runq[i])) <= Cardinality(Proc) /\ Cardinality(Proc) \in Nat
      BY <2>1, FS_Subset, FS_CardinalityType, ConstantsAssumption
  <2> QED BY <2>1, <2>2, <2>3
<1>2. ASSUME NEW i \in Pri, p \in Range(runq[i]) PROVE Cardinality(places) = 1
  <2>1. PICK j \in 1 .. Len(runq[i]) : runq[i][j] = p
      BY <1>1, <1>2, InRange
  <2>2. <<i, j>> \in places
      BY <1>1, <2>1
  <2>3. ASSUME NEW q \in places PROVE q = <<i, j>>
    <3>1. /\ q = <<q[1], q[2]>> /\ q[1] \in Pri /\ q[2] \in 1 .. Len(runq[q[1]])
          /\ runq[q[1]][q[2]] = p
        BY <1>1, <2>3
    <3>2. p \in Range(runq[q[1]])
        BY <1>1, <3>1, InRange
    <3>3. q[1] = i
        BY <1>2, <3>1, <3>2 DEF LInv, IInv, QueueInv
    <3>4. q[2] = j
        BY <2>1, <3>1, <3>3 DEF LInv, IInv, QueueInv, NoRepeat
    <3> QED BY <3>1, <3>3, <3>4
  <2>4. places = {<<i, j>>}
      BY <2>2, <2>3
  <2> QED BY <2>4, FS_Singleton
<1>3. ASSUME ~Queued(p) PROVE Cardinality(places) = 0
  <2>1. ASSUME NEW q \in places PROVE FALSE
    <3>1. q[1] \in Pri /\ q[2] \in 1 .. Len(runq[q[1]]) /\ runq[q[1]][q[2]] = p
        BY <1>1, <2>1
    <3> QED BY <1>1, <1>3, <3>1, InRange DEF Queued
  <2>2. places = {}
      BY <2>1
  <2> QED BY <2>2, FS_EmptySet
<1>4. ASSUME Held(p) PROVE Cardinality(hands) = 1 /\ ~Queued(p) /\ Wanted(p)
  <2>1. PICK c \in Cpu : InHand(c, p)
      BY <1>4 DEF Held
  <2>2. ASSUME NEW d \in Cpu, InHand(d, p) PROVE d = c
      BY <2>1, <2>2 DEF InHand, LInv, IInv, PlaceInv, Picked
  <2>3. hands = {c}
      BY <2>1, <2>2
  <2>4. ~Queued(p) /\ Wanted(p)
      BY <2>1 DEF InHand, Queued, Wanted, LInv, IInv, PlaceInv, StateInv, Picked
  <2> QED BY <2>3, <2>4, FS_Singleton
<1>5. ASSUME ~Held(p) PROVE Cardinality(hands) = 0
  <2>1. hands = {}
      BY <1>5 DEF Held
  <2> QED BY <2>1, FS_EmptySet
<1>6. Queued(p) => Wanted(p) /\ Cardinality(places) = 1
    BY <1>2 DEF Queued, Wanted, LInv, IInv, StateInv
<1>7. Wanted(p) => Queued(p) \/ Held(p)
    BY DEF LInv, LostInv
<1> HIDE DEF places, hands
<1>8. Cardinality(places) + Cardinality(hands) = IF Wanted(p) THEN 1 ELSE 0
    BY <1>3, <1>4, <1>5, <1>6, <1>7
<1> QED BY <1>8 DEF places, hands

(* ready(), queueproc, dequeueproc, runproc and rebalance lose no process  *)
(* and never have one in two places: a process that is Ready, or Scheding  *)
(* after runproc has chosen it, is in one place of one run queue or in the *)
(* hand of one processor, and no other process is.                         *)
THEOREM SchedReadyInOnePlace == Spec => []ReadyInOnePlace
    BY InitLInv, StepLInv, LInvOnePlace, PTL DEF Spec
=============================================================================
