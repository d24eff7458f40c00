------------------------------- MODULE Timers -------------------------------
(***************************************************************************)
(* The timers of kernel/time/portclock.c and tsleep of processes/proc.c.   *)
(* Every processor has a list of timers, sorted by time, and a clock that  *)
(* interrupts it when the first one is due; timerintr takes the timers     *)
(* that are due off the list and calls their functions, without the lock   *)
(* of the list.  A Proc is a Timer, which tsleep puts in the list of the   *)
(* processor that runs the process; twakeup ends the sleep.  A process may *)
(* go on elsewhere while twakeup runs for it.                              *)
(*                                                                         *)
(* Times are relative: rem is how far off a timer is, 0 when it is due.    *)
(* What happens under the lock of a list, or of a Rendez (Sleep.tla), is   *)
(* one action.                                                             *)
(***************************************************************************)
EXTENDS Naturals, Sequences, FiniteSets, SequencesExt

CONSTANTS Proc, Cpu, Rendez,
          Timeout,     \* the times it calls tsleep with
          Period,      \* the period of the HZ clock
          NoCpu, NoRendez, NoTimer, Never

ASSUME TimersAssumption ==
    /\ Proc \cap Cpu = {} /\ NoTimer \notin Proc \cup Cpu /\ NoCpu \notin Cpu
    /\ NoRendez \notin Rendez
    /\ Timeout \subseteq Nat /\ Period \in Nat \ {0} /\ Never \notin Nat

\* One for every process, and the HZ clock of every processor.
Timer == Proc \cup Cpu

VARIABLES
    list,        \* [Cpu -> timers[cpu], the first one first]
    tt,          \* [Timer -> t->tt, the list it is in]
    rem,         \* [Timer -> t->twhen, from now]
    armed,       \* [Cpu -> when the clock of the processor will interrupt]
    ipc, it,     \* [Cpu -> where timerintr is, and its t]
    itrend,      \* [Cpu -> the trend of twakeup]
    pc,          \* [Proc -> where it is in tsleep]
    on,          \* [Proc -> the Rendez it is in tsleep with]
    trend        \* [Proc -> p->trend]

vars == <<list, tt, rem, armed, ipc, it, itrend, pc, on, trend>>
intr == <<ipc, it, itrend>>
lists == <<list, tt, rem, armed>>

TypeOK ==
    /\ list \in [Cpu -> Seq(Timer)]
    /\ tt \in [Timer -> Cpu \cup {NoCpu}]
    /\ rem \in [Timer -> Nat]
    /\ armed \in [Cpu -> Nat \cup {Never}]
    /\ ipc \in [Cpu -> {"none", "loop", "call", "clear", "wake", "again"}]
    /\ it \in [Cpu -> Timer \cup {NoTimer}]
    /\ itrend \in [Cpu -> Rendez \cup {NoRendez}]
    /\ pc \in [Proc -> {"run", "add", "sleep", "asleep", "woken", "del"}]
    /\ on \in [Proc -> Rendez \cup {NoRendez}]
    /\ trend \in [Proc -> Rendez \cup {NoRendez}]

(* timersinit on every processor                                           *)
Init ==
    /\ list = [c \in Cpu |-> <<c>>]
    /\ tt = [t \in Timer |-> IF t \in Cpu THEN t ELSE NoCpu]
    /\ rem = [t \in Timer |-> IF t \in Cpu THEN Period ELSE 0]
    /\ armed = [c \in Cpu |-> Period]
    /\ ipc = [c \in Cpu |-> "none"]
    /\ it = [c \in Cpu |-> NoTimer]
    /\ itrend = [c \in Cpu |-> NoRendez]
    /\ pc = [p \in Proc |-> "run"]
    /\ on = [p \in Proc |-> NoRendez]
    /\ trend = [p \in Proc |-> NoRendez]

Goto(p, to) == pc' = [pc EXCEPT ![p] = to]
IntrGoto(c, to) == ipc' = [ipc EXCEPT ![c] = to]

-----------------------------------------------------------------------------
(* tadd: t, due in d, before the first timer that is due later.            *)
Before(c, d) == {i \in 1 .. Len(list[c]) : rem[list[c][i]] > d}

PlaceLast(c, d) == Len(list[c]) + 1

Place(c, d) ==
    IF Before(c, d) = {} THEN Len(list[c]) + 1
    ELSE CHOOSE i \in Before(c, d) : \A j \in Before(c, d) : i <= j

Tadd(c, t, d) ==
    /\ list' = [list EXCEPT ![c] = InsertAt(@, Place(c, d), t)]
    /\ tt' = [tt EXCEPT ![t] = c]
    /\ rem' = [rem EXCEPT ![t] = d]

(* tsleep(r, fn, arg, d), with a Rendez nobody else sleeps on              *)
TsleepCall(p, r) ==
    /\ pc[p] = "run"
    /\ \A q \in Proc : on[q] /= r
    /\ trend' = [trend EXCEPT ![p] = r]
    /\ on' = [on EXCEPT ![p] = r]
    /\ Goto(p, "add")
    /\ UNCHANGED <<lists, intr>>

TimeraddUnarmed(p, c, d) ==
    /\ pc[p] = "add"
    /\ ipc[c] = "none"
    /\ Tadd(c, p, d)
    /\ Goto(p, "sleep")
    /\ UNCHANGED <<armed, intr, on, trend>>

(* timeradd on processor c, which is not in timerintr: the clock must come *)
(* earlier if p is the first timer now.                                    *)
Timeradd(p, c, d) ==
    /\ pc[p] = "add"
    /\ ipc[c] = "none"
    /\ Tadd(c, p, d)
    /\ armed' = [armed EXCEPT ![c] = IF Place(c, d) = 1 THEN d ELSE @]
    /\ Goto(p, "sleep")
    /\ UNCHANGED <<intr, on, trend>>

(* sleep(r, tfn, arg): it does not when trend is nil or fn is true.        *)
Sleep(p) ==
    /\ pc[p] = "sleep"
    /\ \/ trend[p] = NoRendez /\ Goto(p, "woken")
       \/ trend[p] /= NoRendez /\ \E happened \in BOOLEAN :
             Goto(p, IF happened THEN "woken" ELSE "asleep")
    /\ UNCHANGED <<lists, intr, on, trend>>

(* Somebody calls wakeup(r), or posts a note.                              *)
Wakeup(p) ==
    /\ pc[p] = "asleep"
    /\ Goto(p, "woken")
    /\ UNCHANGED <<lists, intr, on, trend>>

TsleepReturnNoDel(p) ==
    /\ pc[p] = "woken"
    /\ on' = [on EXCEPT ![p] = NoRendez]
    /\ Goto(p, "run")
    /\ UNCHANGED <<lists, intr, trend>>

(* if(up->tt) timerdel(up), read without a lock                            *)
TsleepReturn(p) ==
    /\ pc[p] = "woken"
    /\ \/ tt[p] = NoCpu /\ Goto(p, "run") /\ on' = [on EXCEPT ![p] = NoRendez]
       \/ tt[p] /= NoCpu /\ Goto(p, "del") /\ UNCHANGED on
    /\ UNCHANGED <<lists, intr, trend>>

TimerdelSetsLate(p, c) ==
    /\ pc[p] = "del"
    /\ ipc[c] = "none"
    /\ \/ tt[p] = NoCpu /\ UNCHANGED <<list, tt, armed>>
       \/ \E d \in Cpu :
             /\ tt[p] = d
             /\ list' = [list EXCEPT ![d] = RemoveFirst(@, p)]
             /\ tt' = [tt EXCEPT ![p] = NoCpu]
             /\ armed' = [armed EXCEPT ![d] = IF d = c /\ Len(list[d]) > 1 THEN rem[Last(list[d])] ELSE @]
    /\ rem' = [rem EXCEPT ![p] = 0]
    /\ on' = [on EXCEPT ![p] = NoRendez]
    /\ Goto(p, "run")
    /\ UNCHANGED <<intr, trend>>

(* timerdel and tdel on processor c, which finds that timerintr was faster *)
(* or removes p.  The clock is set for the timer that comes first now, but *)
(* only if it is the clock of the processor p runs on.                     *)
DelFirst(p, d) == Head(list[d]) = p /\ Len(list[d]) > 1

Timerdel(p, c) ==
    /\ pc[p] = "del"
    /\ ipc[c] = "none"
    /\ \/ tt[p] = NoCpu /\ UNCHANGED <<list, tt, armed>>
       \/ \E d \in Cpu :
             /\ tt[p] = d
             /\ list' = [list EXCEPT ![d] = RemoveFirst(@, p)]
             /\ tt' = [tt EXCEPT ![p] = NoCpu]
             /\ armed' = [armed EXCEPT ![d] = IF d = c /\ DelFirst(p, d) THEN rem[list[d][2]] ELSE @]
    /\ rem' = [rem EXCEPT ![p] = 0]
    /\ on' = [on EXCEPT ![p] = NoRendez]
    /\ Goto(p, "run")
    /\ UNCHANGED <<intr, trend>>

-----------------------------------------------------------------------------
(* timerintr on processor c.  A timer that comes due while it runs is      *)
(* taken now, not by another interrupt right after.                        *)
Timerintr(c) ==
    /\ ipc[c] = "none"
    /\ armed[c] = 0
    /\ armed' = [armed EXCEPT ![c] = Never]
    /\ IntrGoto(c, "loop")
    /\ UNCHANGED <<list, tt, rem, it, itrend, pc, on, trend>>

Due(c) == list[c] /= <<>> /\ rem[Head(list[c])] = 0

IntrPop(c) ==
    /\ ipc[c] = "loop"
    /\ Due(c)
    /\ it' = [it EXCEPT ![c] = Head(list[c])]
    /\ list' = [list EXCEPT ![c] = Tail(@)]
    /\ tt' = [tt EXCEPT ![Head(list[c])] = NoCpu]
    /\ IntrGoto(c, "call")
    /\ UNCHANGED <<rem, armed, itrend, pc, on, trend>>

(* The next one is later: set the clock.  When the list is empty the clock *)
(* is not set.                                                             *)
IntrDone(c) ==
    /\ ipc[c] = "loop"
    /\ ~Due(c)
    /\ armed' = [armed EXCEPT ![c] = IF list[c] = <<>> THEN @ ELSE rem[Head(list[c])]]
    /\ IntrGoto(c, "none")
    /\ UNCHANGED <<list, tt, rem, it, itrend, pc, on, trend>>

(* twakeup for a process: trend = p->trend; p->trend = nil; wakeup(trend). *)
(* None of it under a lock that the process takes.                         *)
IntrCall(c) ==
    /\ ipc[c] = "call"
    /\ \/ /\ it[c] \in Proc
          /\ itrend' = [itrend EXCEPT ![c] = trend[it[c]]]
          /\ IntrGoto(c, "clear")
       \/ /\ it[c] \in Cpu                   \* the HZ clock
          /\ IntrGoto(c, "again")
          /\ UNCHANGED itrend
    /\ UNCHANGED <<lists, it, pc, on, trend>>

TwakeupClear(c) ==
    /\ ipc[c] = "clear"
    /\ trend' = [trend EXCEPT ![it[c]] = NoRendez]
    /\ IntrGoto(c, "wake")
    /\ UNCHANGED <<lists, it, itrend, pc, on>>

TwakeupWake(c) ==
    /\ ipc[c] = "wake"
    /\ pc' = [p \in Proc |-> IF pc[p] = "asleep" /\ on[p] = itrend[c] THEN "woken"
                             ELSE pc[p]]
    /\ itrend' = [itrend EXCEPT ![c] = NoRendez]
    /\ IntrGoto(c, "again")
    /\ UNCHANGED <<lists, it, on, trend>>

IntrAgainOneShot(c) ==
    /\ ipc[c] = "again"
    /\ UNCHANGED <<list, tt, rem>>
    /\ it' = [it EXCEPT ![c] = NoTimer]
    /\ IntrGoto(c, "loop")
    /\ UNCHANGED <<armed, itrend, pc, on, trend>>

(* A periodic timer goes back into the list.  Its next time is a period    *)
(* after the last, so less than that from now if the interrupt was late.   *)
IntrAgain(c) ==
    /\ ipc[c] = "again"
    /\ \/ it[c] \in Cpu /\ \E d \in 0 .. Period : Tadd(c, it[c], d)
       \/ it[c] \in Proc /\ UNCHANGED <<list, tt, rem>>
    /\ it' = [it EXCEPT ![c] = NoTimer]
    /\ IntrGoto(c, "loop")
    /\ UNCHANGED <<armed, itrend, pc, on, trend>>

-----------------------------------------------------------------------------
(* Time passes, for all processors alike.                                  *)
Closer(n) == IF n \in Nat /\ n > 0 THEN n - 1 ELSE n

Tick ==
    /\ rem' = [t \in Timer |-> IF tt[t] = NoCpu THEN rem[t] ELSE Closer(rem[t])]
    /\ armed' = [c \in Cpu |-> IF armed[c] = Never THEN Never ELSE Closer(armed[c])]
    /\ UNCHANGED <<list, tt, intr, pc, on, trend>>

(* A process executes on a processor that is not in timerintr.             *)
Executes == \E c \in Cpu : ipc[c] = "none"

Step(p) ==
    \/ \E c \in Cpu, d \in Timeout : Timeradd(p, c, d)
    \/ \E c \in Cpu : Timerdel(p, c)
    \/ Executes /\ (Sleep(p) \/ TsleepReturn(p))

IntrStep(c) ==
    \/ Timerintr(c) \/ IntrPop(c) \/ IntrDone(c) \/ IntrCall(c)
    \/ TwakeupClear(c) \/ TwakeupWake(c) \/ IntrAgain(c)

Next ==
    \/ \E p \in Proc : Step(p) \/ Wakeup(p)
    \/ \E p \in Proc, r \in Rendez : Executes /\ TsleepCall(p, r)
    \/ \E c \in Cpu : IntrStep(c)
    \/ Tick

Spec == Init /\ [][Next]_vars

(* Time passes, interrupts come and are handled, processes in tsleep keep  *)
(* executing.  Nobody has to call wakeup.                                  *)
FairSpec ==
    /\ Spec
    /\ WF_vars(Tick)
    /\ \A c \in Cpu : WF_vars(IntrStep(c))
    /\ \A p \in Proc : SF_vars(Step(p))

-----------------------------------------------------------------------------
(* A timer is in the list that its tt names, once, and in no other, and    *)
(* the lists are sorted, although timers are taken out of lists of other   *)
(* processors.  And all variables have their types.                        *)
ListsTrue ==
    /\ TypeOK
    /\ \A c \in Cpu :
        /\ ToSet(list[c]) = {t \in Timer : tt[t] = c}
        /\ Cardinality(ToSet(list[c])) = Len(list[c])
        /\ \A i \in 1 .. Len(list[c]) - 1 : rem[list[c][i]] <= rem[list[c][i + 1]]

(* The assertions of tadd and timerintr: nobody puts a timer in a list     *)
(* while timerintr has it, or it is in one; and tsleep does not find the   *)
(* timer of its last call ("timer active").                                *)
NoTimerLeft ==
    /\ \A p \in Proc : pc[p] \in {"run", "add"} => tt[p] = NoCpu
    /\ \A c \in Cpu : ipc[c] = "again" /\ it[c] \in Cpu => tt[it[c]] = NoCpu

(* The clock of a processor is never set later than its first timer, or    *)
(* not at all, unless timerintr is running there.                          *)
ClockInTime ==
    \A c \in Cpu :
        ipc[c] = "none" => armed[c] /= Never /\ armed[c] <= rem[Head(list[c])]

(* The HZ clock of every processor goes on for ever.                       *)
HzRuns == \A c \in Cpu : []<>(ipc[c] = "call" /\ it[c] = c)
=============================================================================
