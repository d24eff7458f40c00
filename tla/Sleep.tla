------------------------------- MODULE Sleep -------------------------------
(***************************************************************************)
(* sleep, wakeup and postnote of kernel/processes/proc.c: a process waits  *)
(* on a Rendez for a condition; whoever makes the condition true calls     *)
(* wakeup; a note (signal) gets the process out of the sleep as well.      *)
(*                                                                         *)
(* r->p and p->r point at each other while p sleeps on r.  Two spin locks  *)
(* protect the pair, the Lock of the Rendez and p->rlock.  sleep and       *)
(* wakeup take them in this order; postnote only knows p, takes p->rlock   *)
(* first, and has to let go of it when canlock(r) fails.                   *)
(*                                                                         *)
(* The condition and notepending are set without either lock.  Whatever    *)
(* happens between the last lock() and the first unlock() and touches only *)
(* what the locks protect is part of one action.                           *)
(*                                                                         *)
(* Several processes may call wakeup(r) and postnote(p), but one at a time *)
(* calls sleep(r): its callers hold a QLock or own the Rendez.             *)
(***************************************************************************)
EXTENDS Naturals, FiniteSets

CONSTANTS Sleeper,           \* processes that sleep
          Waker,             \* processes or interrupts that call wakeup
          Poster,            \* processes that call postnote
          Rendez,
          NoProc, NoRendez,  \* nil
          Nobody             \* a Lock that is not held

Actor == Sleeper \cup Waker \cup Poster

ASSUME ActorsAssumption ==
    /\ Sleeper \cap Waker = {} /\ Sleeper \cap Poster = {} /\ Waker \cap Poster = {}
    /\ NoProc \notin Sleeper /\ NoRendez \notin Rendez /\ Nobody \notin Actor

VARIABLES
    cond,        \* [Rendez -> has what its sleeper waits for happened?]
    rp,          \* [Rendez -> r->p]
    rlk,         \* [Rendez -> who holds r->Lock]
    pr,          \* [Sleeper -> p->r]
    plk,         \* [Sleeper -> who holds p->rlock]
    state,       \* [Sleeper -> Proc.state]
    notepending, \* [Sleeper -> p->notepending]
    pc,          \* [Actor -> where it is]
    ron,         \* [Actor -> the r of sleep, wakeup and postnote]
    pon          \* [Waker \cup Poster -> the p of wakeup and postnote]

vars == <<cond, rp, rlk, pr, plk, state, notepending, pc, ron, pon>>

SleeperPc == {"run", "sleep_r", "sleep_p", "test", "commit", "asleep", "awake"}
WakerPc   == {"idle", "wakeup_r", "wakeup_p", "panic"}
PosterPc  == {"idle", "post_p", "post_r", "post_out", "panic"}

\* Where the code follows the pointer r, and where p: nil would be a fault.
UsesRendez == (SleeperPc \ {"run"}) \cup {"wakeup_r", "wakeup_p", "post_r"}
UsesProc   == {"wakeup_p", "post_p", "post_r", "post_out"}

TypeOK ==
    /\ cond \in [Rendez -> BOOLEAN]
    /\ rp \in [Rendez -> Sleeper \cup {NoProc}]
    /\ rlk \in [Rendez -> Actor \cup {Nobody}]
    /\ pr \in [Sleeper -> Rendez \cup {NoRendez}]
    /\ plk \in [Sleeper -> Actor \cup {Nobody}]
    /\ state \in [Sleeper -> {"Running", "Wakeme", "Ready"}]
    /\ notepending \in [Sleeper -> BOOLEAN]
    /\ pc \in [Actor -> SleeperPc \cup WakerPc \cup PosterPc]
    /\ \A a \in Sleeper : pc[a] \in SleeperPc
    /\ \A a \in Waker : pc[a] \in WakerPc
    /\ \A a \in Poster : pc[a] \in PosterPc
    /\ ron \in [Actor -> Rendez \cup {NoRendez}]
    /\ pon \in [Waker \cup Poster -> Sleeper \cup {NoProc}]
    /\ \A a \in Actor : pc[a] \in UsesRendez => ron[a] \in Rendez
    /\ \A a \in Waker \cup Poster : pc[a] \in UsesProc => pon[a] \in Sleeper

Init ==
    /\ cond = [r \in Rendez |-> FALSE]
    /\ rp = [r \in Rendez |-> NoProc]
    /\ rlk = [r \in Rendez |-> Nobody]
    /\ pr = [p \in Sleeper |-> NoRendez]
    /\ plk = [p \in Sleeper |-> Nobody]
    /\ state = [p \in Sleeper |-> "Running"]
    /\ notepending = [p \in Sleeper |-> FALSE]
    /\ pc = [a \in Actor |-> IF a \in Sleeper THEN "run" ELSE "idle"]
    /\ ron = [a \in Actor |-> NoRendez]
    /\ pon = [a \in Waker \cup Poster |-> NoProc]

Goto(a, to) == pc' = [pc EXCEPT ![a] = to]

-----------------------------------------------------------------------------
(* sleep(r, f, arg), where f says whether cond[r].                         *)

SleepCall(p, r) ==
    /\ pc[p] = "run"
    /\ \A q \in Sleeper : ron[q] /= r
    /\ ron' = [ron EXCEPT ![p] = r]
    /\ Goto(p, "sleep_r")
    /\ UNCHANGED <<cond, rp, rlk, pr, plk, state, notepending, pon>>

SleepWithoutRlock(p) ==
    /\ pc[p] = "sleep_r"
    /\ Goto(p, "sleep_p")
    /\ UNCHANGED <<cond, rp, rlk, pr, plk, state, notepending, ron, pon>>

SleepLockRendez(p) ==
    /\ pc[p] = "sleep_r"
    /\ rlk[ron[p]] = Nobody
    /\ rlk' = [rlk EXCEPT ![ron[p]] = p]
    /\ Goto(p, "sleep_p")
    /\ UNCHANGED <<cond, rp, pr, plk, state, notepending, ron, pon>>

(* lock(&up->rlock), and r->p = up.                                        *)
SleepLockProc(p) ==
    /\ pc[p] = "sleep_p"
    /\ plk[p] = Nobody
    /\ plk' = [plk EXCEPT ![p] = p]
    /\ rp' = [rp EXCEPT ![ron[p]] = p]
    /\ Goto(p, "test")
    /\ UNCHANGED <<cond, rlk, pr, state, notepending, ron, pon>>

(* "condition happened or a note is pending, never mind"                   *)
SleepNeverMind(p) ==
    /\ rp' = [rp EXCEPT ![ron[p]] = NoProc]
    /\ plk' = [plk EXCEPT ![p] = Nobody]
    /\ rlk' = [rlk EXCEPT ![ron[p]] = Nobody]
    /\ Goto(p, "awake")
    /\ UNCHANGED <<pr, state>>

SleepTest(p) ==
    /\ pc[p] = "test"
    /\ \/ cond[ron[p]] /\ SleepNeverMind(p)
       \/ ~cond[ron[p]] /\ Goto(p, "commit") /\ UNCHANGED <<rp, rlk, pr, plk, state>>
    /\ UNCHANGED <<cond, notepending, ron, pon>>

SleepIgnoresNote(p) ==
    /\ pc[p] = "commit"
    /\ state' = [state EXCEPT ![p] = "Wakeme"]
    /\ pr' = [pr EXCEPT ![p] = ron[p]]
    /\ plk' = [plk EXCEPT ![p] = Nobody]
    /\ rlk' = [rlk EXCEPT ![ron[p]] = Nobody]
    /\ Goto(p, "asleep")
    /\ UNCHANGED <<cond, rp, notepending, ron, pon>>

(* The test of notepending, and the commitment: "now we are committed to   *)
(* change state and call scheduler".                                       *)
SleepCommit(p) ==
    /\ pc[p] = "commit"
    /\ \/ notepending[p] /\ SleepNeverMind(p)
       \/ /\ ~notepending[p]
          /\ state' = [state EXCEPT ![p] = "Wakeme"]
          /\ pr' = [pr EXCEPT ![p] = ron[p]]
          /\ plk' = [plk EXCEPT ![p] = Nobody]
          /\ rlk' = [rlk EXCEPT ![ron[p]] = Nobody]
          /\ Goto(p, "asleep")
          /\ UNCHANGED rp
    /\ UNCHANGED <<cond, notepending, ron, pon>>

(* The scheduler runs the process again.                                   *)
SleepResume(p) ==
    /\ pc[p] = "asleep"
    /\ state[p] = "Ready"
    /\ state' = [state EXCEPT ![p] = "Running"]
    /\ Goto(p, "awake")
    /\ UNCHANGED <<cond, rp, rlk, pr, plk, notepending, ron, pon>>

(* The end of sleep: error(Eintr) when there is a note; otherwise the      *)
(* caller looks at the condition and, when it holds, uses it up.           *)
SleepReturn(p) ==
    /\ pc[p] = "awake"
    /\ \/ /\ notepending[p]
          /\ notepending' = [notepending EXCEPT ![p] = FALSE]
          /\ UNCHANGED cond
       \/ /\ ~notepending[p]
          /\ cond' = [cond EXCEPT ![ron[p]] = FALSE]
          /\ UNCHANGED notepending
    /\ ron' = [ron EXCEPT ![p] = NoRendez]
    /\ Goto(p, "run")
    /\ UNCHANGED <<rp, rlk, pr, plk, state, pon>>

-----------------------------------------------------------------------------
(* wakeup(r).                                                              *)

(* The caller makes the condition true, then calls wakeup.                 *)
WakeupCall(w, r) ==
    /\ pc[w] = "idle"
    /\ cond' = [cond EXCEPT ![r] = TRUE]
    /\ ron' = [ron EXCEPT ![w] = r]
    /\ Goto(w, "wakeup_r")
    /\ UNCHANGED <<rp, rlk, pr, plk, state, notepending, pon>>

WakeupGivesUp(w) ==
    /\ pc[w] = "wakeup_r"
    /\ IF rlk[ron[w]] = Nobody /\ rp[ron[w]] /= NoProc
       THEN /\ pon' = [pon EXCEPT ![w] = rp[ron[w]]]
            /\ rlk' = [rlk EXCEPT ![ron[w]] = w]
            /\ Goto(w, "wakeup_p")
            /\ UNCHANGED ron
       ELSE /\ Goto(w, "idle")
            /\ ron' = [ron EXCEPT ![w] = NoRendez]
            /\ UNCHANGED <<rlk, pon>>
    /\ UNCHANGED <<cond, rp, pr, plk, state, notepending>>

(* lock(r); p = r->p, and unlock(r) if there is nobody.                    *)
WakeupLockRendez(w) ==
    /\ pc[w] = "wakeup_r"
    /\ rlk[ron[w]] = Nobody
    /\ \/ /\ rp[ron[w]] = NoProc
          /\ Goto(w, "idle")
          /\ ron' = [ron EXCEPT ![w] = NoRendez]
          /\ UNCHANGED <<rlk, pon>>
       \/ /\ rp[ron[w]] /= NoProc
          /\ pon' = [pon EXCEPT ![w] = rp[ron[w]]]
          /\ rlk' = [rlk EXCEPT ![ron[w]] = w]
          /\ Goto(w, "wakeup_p")
          /\ UNCHANGED ron
    /\ UNCHANGED <<cond, rp, pr, plk, state, notepending>>

Panic(a) == Goto(a, "panic") /\ UNCHANGED <<rp, rlk, pr, state, ron, pon>>

WakeupKeepsPr(w) ==
    /\ pc[w] = "wakeup_p"
    /\ plk[pon[w]] = Nobody
    /\ rp' = [rp EXCEPT ![ron[w]] = NoProc]
    /\ state' = [state EXCEPT ![pon[w]] = "Ready"]
    /\ rlk' = [rlk EXCEPT ![ron[w]] = Nobody]
    /\ ron' = [ron EXCEPT ![w] = NoRendez]
    /\ pon' = [pon EXCEPT ![w] = NoProc]
    /\ Goto(w, "idle")
    /\ UNCHANGED <<cond, pr, plk, notepending>>

(* lock(&p->rlock), the sanity check, ready(p), and both unlocks.          *)
WakeupReady(w) ==
    /\ pc[w] = "wakeup_p"
    /\ plk[pon[w]] = Nobody
    /\ \/ /\ state[pon[w]] /= "Wakeme" \/ pr[pon[w]] /= ron[w]
          /\ Panic(w)
       \/ /\ state[pon[w]] = "Wakeme" /\ pr[pon[w]] = ron[w]
          /\ rp' = [rp EXCEPT ![ron[w]] = NoProc]
          /\ pr' = [pr EXCEPT ![pon[w]] = NoRendez]
          /\ state' = [state EXCEPT ![pon[w]] = "Ready"]
          /\ rlk' = [rlk EXCEPT ![ron[w]] = Nobody]
          /\ ron' = [ron EXCEPT ![w] = NoRendez]
          /\ pon' = [pon EXCEPT ![w] = NoProc]
          /\ Goto(w, "idle")
    /\ UNCHANGED <<cond, plk, notepending>>

-----------------------------------------------------------------------------
(* postnote(p), without the queue of note texts.                           *)

PostnoteCall(a, p) ==
    /\ pc[a] = "idle"
    /\ notepending' = [notepending EXCEPT ![p] = TRUE]
    /\ pon' = [pon EXCEPT ![a] = p]
    /\ Goto(a, "post_p")
    /\ UNCHANGED <<cond, rp, rlk, pr, plk, state, ron>>

(* lock(&p->rlock); r = p->r; "waiting for a wakeup?"                      *)
PostnoteLockProc(a) ==
    /\ pc[a] = "post_p"
    /\ plk[pon[a]] = Nobody
    /\ plk' = [plk EXCEPT ![pon[a]] = a]
    /\ ron' = [ron EXCEPT ![a] = pr[pon[a]]]
    /\ Goto(a, IF pr[pon[a]] = NoRendez THEN "post_out" ELSE "post_r")
    /\ UNCHANGED <<cond, rp, rlk, pr, state, notepending, pon>>

PostnoteKeepsRp(a) ==
    /\ pc[a] = "post_r"
    /\ rlk[ron[a]] = Nobody
    /\ pr' = [pr EXCEPT ![pon[a]] = NoRendez]
    /\ state' = [state EXCEPT ![pon[a]] = "Ready"]
    /\ Goto(a, "post_out")
    /\ UNCHANGED <<cond, rp, rlk, plk, notepending, ron, pon>>

(* canlock(r) succeeds: the sanity check, ready(p), unlock(r).             *)
PostnoteReady(a) ==
    /\ pc[a] = "post_r"
    /\ rlk[ron[a]] = Nobody
    /\ \/ /\ state[pon[a]] /= "Wakeme" \/ rp[ron[a]] /= pon[a]
          /\ Panic(a)
       \/ /\ state[pon[a]] = "Wakeme" /\ rp[ron[a]] = pon[a]
          /\ pr' = [pr EXCEPT ![pon[a]] = NoRendez]
          /\ rp' = [rp EXCEPT ![ron[a]] = NoProc]
          /\ state' = [state EXCEPT ![pon[a]] = "Ready"]
          /\ Goto(a, "post_out")
          /\ UNCHANGED <<rlk, ron, pon>>
    /\ UNCHANGED <<cond, plk, notepending>>

PostnoteSpins(a) ==
    /\ pc[a] = "post_r"
    /\ rlk[ron[a]] /= Nobody
    /\ UNCHANGED vars

(* It fails: unlock(&p->rlock), sched(), and again.                        *)
PostnoteRetry(a) ==
    /\ pc[a] = "post_r"
    /\ rlk[ron[a]] /= Nobody
    /\ plk' = [plk EXCEPT ![pon[a]] = Nobody]
    /\ ron' = [ron EXCEPT ![a] = NoRendez]
    /\ Goto(a, "post_p")
    /\ UNCHANGED <<cond, rp, rlk, pr, state, notepending, pon>>

PostnoteOut(a) ==
    /\ pc[a] = "post_out"
    /\ plk' = [plk EXCEPT ![pon[a]] = Nobody]
    /\ pon' = [pon EXCEPT ![a] = NoProc]
    /\ ron' = [ron EXCEPT ![a] = NoRendez]
    /\ Goto(a, "idle")
    /\ UNCHANGED <<cond, rp, rlk, pr, state, notepending>>

-----------------------------------------------------------------------------
SleepStep(p) ==
    \/ SleepLockRendez(p) \/ SleepLockProc(p) \/ SleepTest(p) \/ SleepCommit(p)
    \/ SleepResume(p) \/ SleepReturn(p)
WakeupStep(w) == WakeupLockRendez(w) \/ WakeupReady(w)
PostnoteStep(a) ==
    PostnoteLockProc(a) \/ PostnoteReady(a) \/ PostnoteRetry(a) \/ PostnoteOut(a)

Next ==
    \/ \E p \in Sleeper : SleepStep(p) \/ \E r \in Rendez : SleepCall(p, r)
    \/ \E w \in Waker : WakeupStep(w) \/ \E r \in Rendez : WakeupCall(w, r)
    \/ \E a \in Poster : PostnoteStep(a) \/ \E p \in Sleeper : PostnoteCall(a, p)

Spec == Init /\ [][Next]_vars

(* Everybody who is inside sleep, wakeup or postnote keeps executing, and  *)
(* a lock() that waits for a lock which is free over and over some time    *)
(* gets it.  The canlock() of postnote may fail for ever, and nobody has   *)
(* to call any of them.                                                    *)
FairSpec ==
    /\ Spec
    /\ \A p \in Sleeper : SF_vars(SleepStep(p))
    /\ \A w \in Waker : SF_vars(WakeupStep(w))
    /\ \A a \in Poster : SF_vars(PostnoteStep(a))

-----------------------------------------------------------------------------
Asleep(p) == pc[p] = "asleep" /\ state[p] = "Wakeme"

(* Neither "wakeup: state" nor "postnote: state": whoever holds one of the *)
(* two locks and got a pointer from what it protects finds, with the       *)
(* second lock, a process that sleeps there.                               *)
NoPanic == \A a \in Actor : pc[a] /= "panic"

(* "we lock both the process and the rendezvous to keep r->p and p->r      *)
(* synchronized": every pointer has its type; seen under the lock that     *)
(* protects it, it is matched by the other one, and a process sleeps where *)
(* p->r says.                                                              *)
RendezSynchronized ==
    /\ TypeOK
    /\ \A r \in Rendez : rlk[r] = Nobody /\ rp[r] /= NoProc => pr[rp[r]] = r
    /\ \A p \in Sleeper : plk[p] = Nobody /\ pr[p] /= NoRendez => rp[pr[p]] = p
    /\ \A p \in Sleeper : pr[p] /= NoRendez <=> Asleep(p)

(* No lost wakeup: a process that sleeps although its condition has        *)
(* happened is about to be woken by the wakeup of whoever made it happen;  *)
(* one that sleeps although a note is pending is about to be readied by    *)
(* the postnote that posted it.                                            *)
NoLostWakeup ==
    \A p \in Sleeper :
        /\ Asleep(p) /\ cond[ron[p]] =>
            \E w \in Waker : ron[w] = ron[p] /\ pc[w] \in {"wakeup_r", "wakeup_p"}
        /\ Asleep(p) /\ notepending[p] =>
            \E a \in Poster : pon[a] = p /\ pc[a] \in {"post_p", "post_r"}

(* The two orders of locking never block each other for good: a wakeup     *)
(* always returns, because postnote lets go of p->rlock.                   *)
WakeupReturns == \A w \in Waker : []<>(pc[w] = "idle")

(* A process whose condition has happened, or that has got a note, does    *)
(* not go on sleeping.                                                     *)
SleeperWakes ==
    \A p \in Sleeper : []<>~(Asleep(p) /\ (cond[ron[p]] \/ notepending[p]))
=============================================================================
