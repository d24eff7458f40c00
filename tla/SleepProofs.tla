---------------------------- MODULE SleepProofs ----------------------------
(***************************************************************************)
(* Proofs about sleep, wakeup and postnote, for any number of processes,   *)
(* of interrupts and of Rendezes: no panic, r->p and p->r synchronized,    *)
(* and no lost wakeup.                                                     *)
(*                                                                         *)
(* The inductive invariant says who holds which of the two locks by where  *)
(* everybody is (RlkInv, PlkInv), what r->p and p->r are at every point    *)
(* and not only for whoever holds a lock (RpInv, PrInv), what the two      *)
(* callers that hold one lock and wait for the other know (WakerInv,       *)
(* PosterInv), and who is on the way to a process that sleeps, or is about *)
(* to, although there is something for it (CondInv, NoteInv).              *)
(*                                                                         *)
(* And about semaphores, which are built on these: permits are conserved,  *)
(* a waiter whose flag is clear is woken, and no waiter sleeps while the   *)
(* semaphore has a value and nobody is about to wake it.  That somebody is *)
(* under way does not follow from itself: each waiter that is woken may    *)
(* leave without the unit that was meant for it.  So the wakeups are       *)
(* counted: for every sleeper, the value is at most the number of flags    *)
(* that releasers have still to clear from its place in the list on, and   *)
(* of units that acquirers will still take or pass on (DueInv).            *)
(***************************************************************************)
EXTENDS Sleep, Sema, SeqLemmas

\* Where a process that has set r->p has not yet gone to sleep.
Committing(p) == pc[p] \in {"test", "commit"}

(* The callers of sleep do not share a Rendez.                             *)
RonInv ==
    /\ \A p \in Sleeper : pc[p] = "run" => ron[p] = NoRendez
    /\ \A p, q \in Sleeper : p /= q /\ ron[p] /= NoRendez => ron[p] /= ron[q]

HoldsRendez(a) ==
    \/ a \in Sleeper /\ pc[a] \in {"sleep_p", "test", "commit"}
    \/ a \in Waker /\ pc[a] = "wakeup_p"

HoldsProc(a, p) ==
    \/ a = p /\ Committing(p)
    \/ a \in Poster /\ pc[a] \in {"post_r", "post_out"} /\ pon[a] = p

RlkInv == \A r \in Rendez, a \in Actor : rlk[r] = a <=> HoldsRendez(a) /\ ron[a] = r
PlkInv == \A p \in Sleeper, a \in Actor : plk[p] = a <=> HoldsProc(a, p)

(* r->p names the process that sleeps on r or is about to, and only then.  *)
RpInv ==
    /\ \A r \in Rendez : rp[r] /= NoProc =>
          ron[rp[r]] = r /\ (Committing(rp[r]) \/ Asleep(rp[r]))
    /\ \A p \in Sleeper : Committing(p) \/ Asleep(p) => rp[ron[p]] = p

(* p->r names where p sleeps, and is nil when it does not.                 *)
PrInv ==
    \A p \in Sleeper :
        /\ Asleep(p) => pr[p] = ron[p]
        /\ ~Asleep(p) => pr[p] = NoRendez
        /\ pc[p] = "asleep" => state[p] \in {"Wakeme", "Ready"}
        /\ pc[p] /= "asleep" => state[p] = "Running"

WakerInv ==
    \A w \in Waker : pc[w] = "wakeup_p" => rp[ron[w]] = pon[w] /\ Asleep(pon[w])
PosterInv ==
    \A a \in Poster : pc[a] = "post_r" => pr[pon[a]] = ron[a]

Waking(r) == \E w \in Waker : ron[w] = r /\ pc[w] \in {"wakeup_r", "wakeup_p"}
Posting(p) == \E a \in Poster : pon[a] = p /\ pc[a] \in {"post_p", "post_r"}

CondInv ==
    \A p \in Sleeper : (pc[p] = "commit" \/ Asleep(p)) /\ cond[ron[p]] => Waking(ron[p])
NoteInv ==
    \A p \in Sleeper : Asleep(p) /\ notepending[p] => Posting(p)

IInv ==
    /\ TypeOK /\ NoPanic /\ RonInv /\ RlkInv /\ PlkInv /\ RpInv /\ PrInv
    /\ WakerInv /\ PosterInv /\ CondInv /\ NoteInv

-----------------------------------------------------------------------------
(* Nobody follows a pointer that is nil.                                   *)
LEMMA Pointers ==
    ASSUME TypeOK
    PROVE  /\ \A q \in Sleeper : pc[q] /= "run" => ron[q] \in Rendez
           /\ \A x \in Waker :
                 /\ pc[x] \in {"wakeup_r", "wakeup_p"} => ron[x] \in Rendez
                 /\ pc[x] = "wakeup_p" => pon[x] \in Sleeper
           /\ \A x \in Poster :
                 /\ pc[x] = "post_r" => ron[x] \in Rendez
                 /\ pc[x] \in {"post_p", "post_r", "post_out"} => pon[x] \in Sleeper
    BY DEF TypeOK, Actor, UsesRendez, UsesProc

LEMMA SleepCallIInv ==
    ASSUME IInv, NEW p \in Sleeper, NEW r \in Rendez,
           SleepCall(p, r)
    PROVE  IInv'
<1>1. /\ pc[p] = "run" /\ \A q \in Sleeper : ron[q] /= r
      /\ ron' = [ron EXCEPT ![p] = r] /\ pc' = [pc EXCEPT ![p] = "sleep_r"]
      /\ cond' = cond /\ rp' = rp /\ rlk' = rlk /\ pr' = pr
      /\ plk' = plk /\ state' = state /\ notepending' = notepending /\ pon' = pon
    BY DEF SleepCall, Goto
<1>2. TypeOK' /\ NoPanic'
    BY <1>1, ActorsAssumption DEF IInv, TypeOK, NoPanic, Actor, SleeperPc
<1>3. RonInv'
    BY <1>1 DEF IInv, TypeOK, RonInv
<1>4. RlkInv'
    BY <1>1 DEF IInv, RlkInv, HoldsRendez
<1>5. PlkInv'
    BY <1>1 DEF IInv, PlkInv, HoldsProc, Committing
<1>6. RpInv'
    BY <1>1 DEF IInv, RpInv, Committing, Asleep
<1>7. PrInv'
    BY <1>1 DEF IInv, PrInv, Asleep
<1>8. WakerInv'
    BY <1>1 DEF IInv, WakerInv, Asleep
<1>9. PosterInv'
    BY <1>1 DEF IInv, PosterInv
<1>10. CondInv'
    BY <1>1 DEF IInv, CondInv, Waking, Asleep
<1>11. NoteInv'
    BY <1>1 DEF IInv, NoteInv, Posting, Asleep
<1> QED BY <1>2, <1>3, <1>4, <1>5, <1>6, <1>7, <1>8, <1>9, <1>10, <1>11 DEF IInv

LEMMA SleepLockRendezIInv ==
    ASSUME IInv, NEW p \in Sleeper,
           SleepLockRendez(p)
    PROVE  IInv'
<1>1. /\ pc[p] = "sleep_r" /\ rlk[ron[p]] = Nobody
      /\ rlk' = [rlk EXCEPT ![ron[p]] = p] /\ pc' = [pc EXCEPT ![p] = "sleep_p"]
      /\ cond' = cond /\ rp' = rp /\ pr' = pr /\ plk' = plk
      /\ state' = state /\ notepending' = notepending /\ ron' = ron /\ pon' = pon
    BY DEF SleepLockRendez, Goto
<1>2. TypeOK' /\ NoPanic'
     BY <1>1, ActorsAssumption DEF IInv, TypeOK, NoPanic, Actor, SleeperPc,
       UsesRendez
<1>3. RonInv'
    BY <1>1 DEF IInv, RonInv
<1>4. RlkInv'
    BY <1>1, ActorsAssumption DEF IInv, TypeOK, RlkInv, HoldsRendez
<1>5. PlkInv'
    BY <1>1 DEF IInv, PlkInv, HoldsProc, Committing
<1>6. RpInv'
    BY <1>1 DEF IInv, RpInv, Committing, Asleep
<1>7. PrInv'
    BY <1>1 DEF IInv, PrInv, Asleep
<1>8. WakerInv'
    BY <1>1 DEF IInv, WakerInv, Asleep
<1>9. PosterInv'
    BY <1>1 DEF IInv, PosterInv
<1>10. CondInv'
    BY <1>1 DEF IInv, CondInv, Waking, Asleep
<1>11. NoteInv'
    BY <1>1 DEF IInv, NoteInv, Posting, Asleep
<1> QED BY <1>2, <1>3, <1>4, <1>5, <1>6, <1>7, <1>8, <1>9, <1>10, <1>11 DEF IInv

LEMMA SleepLockProcIInv ==
    ASSUME IInv, NEW p \in Sleeper,
           SleepLockProc(p)
    PROVE  IInv'
<1>1. /\ pc[p] = "sleep_p" /\ plk[p] = Nobody
      /\ plk' = [plk EXCEPT ![p] = p] /\ rp' = [rp EXCEPT ![ron[p]] = p]
      /\ pc' = [pc EXCEPT ![p] = "test"]
      /\ cond' = cond /\ rlk' = rlk /\ pr' = pr /\ state' = state
      /\ notepending' = notepending /\ ron' = ron /\ pon' = pon
    BY DEF SleepLockProc, Goto
<1>2. ron[p] \in Rendez
    BY <1>1, Pointers DEF IInv
<1>3. rp[ron[p]] = NoProc
     BY <1>1, <1>2, ActorsAssumption DEF IInv, TypeOK, RpInv, RonInv,
       Committing, Asleep
<1>4. TypeOK' /\ NoPanic'
     BY <1>1, ActorsAssumption DEF IInv, TypeOK, NoPanic, Actor, SleeperPc,
       UsesRendez
<1>5. RonInv'
    BY <1>1 DEF IInv, RonInv
<1>6. RlkInv'
    BY <1>1 DEF IInv, RlkInv, HoldsRendez
<1>7. PlkInv'
    BY <1>1, ActorsAssumption DEF IInv, TypeOK, PlkInv, HoldsProc, Committing
<1>8. RpInv'
     BY <1>1, <1>2, <1>3, ActorsAssumption DEF IInv, TypeOK, RpInv, Committing,
       Asleep, Actor
<1>9. PrInv'
    BY <1>1 DEF IInv, PrInv, Asleep
<1>10. WakerInv'
    BY <1>1 DEF IInv, TypeOK, WakerInv, Asleep, RlkInv, HoldsRendez, Actor
<1>11. PosterInv'
    BY <1>1 DEF IInv, PosterInv
<1>12. CondInv'
    BY <1>1 DEF IInv, CondInv, Waking, Asleep
<1>13. NoteInv'
    BY <1>1 DEF IInv, NoteInv, Posting, Asleep
<1> QED BY <1>4, <1>5, <1>6, <1>7, <1>8, <1>9, <1>10, <1>11, <1>12, <1>13 DEF
     IInv

LEMMA SleepNeverMindIInv ==
    ASSUME IInv, NEW p \in Sleeper,
           SleepNeverMind(p), Committing(p),
           UNCHANGED <<cond, notepending, ron, pon>>
    PROVE  IInv'
<1>1. /\ rp' = [rp EXCEPT ![ron[p]] = NoProc] /\ plk' = [plk EXCEPT ![p] = Nobody]
      /\ rlk' = [rlk EXCEPT ![ron[p]] = Nobody]
      /\ pc' = [pc EXCEPT ![p] = "awake"]
      /\ cond' = cond /\ pr' = pr /\ state' = state /\ notepending' = notepending
      /\ ron' = ron /\ pon' = pon
    BY DEF SleepNeverMind, Goto
<1>2. pc[p] \in {"test", "commit"} /\ ron[p] \in Rendez
    BY Pointers DEF IInv, Committing
<1>3. \A x \in Waker : pc[x] = "wakeup_p" => ron[x] /= ron[p]
    BY <1>2 DEF IInv, RlkInv, HoldsRendez, Actor
<1>4. TypeOK' /\ NoPanic'
    BY <1>1, <1>2, ActorsAssumption DEF IInv, TypeOK, NoPanic, Actor, SleeperPc
<1>5. RonInv'
    BY <1>1 DEF IInv, RonInv
<1>6. RlkInv'
     BY <1>1, <1>3, ActorsAssumption DEF IInv, TypeOK, RlkInv, HoldsRendez,
       RonInv
<1>7. PlkInv'
     BY <1>1, ActorsAssumption DEF IInv, TypeOK, PlkInv, HoldsProc, Committing,
       Actor
<1>8. RpInv'
    BY <1>1 DEF IInv, TypeOK, RpInv, Committing, Asleep, Actor
<1>9. PrInv'
    BY <1>1, <1>2 DEF IInv, PrInv, Asleep
<1>10. WakerInv'
    BY <1>1, <1>2, <1>3 DEF IInv, WakerInv, Asleep
<1>11. PosterInv'
    BY <1>1 DEF IInv, PosterInv
<1>12. CondInv'
    BY <1>1, ActorsAssumption DEF IInv, CondInv, Waking, Asleep
<1>13. NoteInv'
    BY <1>1, ActorsAssumption DEF IInv, NoteInv, Posting, Asleep
<1> QED BY <1>4, <1>5, <1>6, <1>7, <1>8, <1>9, <1>10, <1>11, <1>12, <1>13 DEF
     IInv

LEMMA SleepTestIInv ==
    ASSUME IInv, NEW p \in Sleeper,
           SleepTest(p), ~cond[ron[p]]
    PROVE  IInv'
<1>1. /\ pc[p] = "test"
      /\ pc' = [pc EXCEPT ![p] = "commit"]
      /\ cond' = cond /\ rp' = rp /\ rlk' = rlk /\ pr' = pr
      /\ plk' = plk /\ state' = state /\ notepending' = notepending /\ ron' = ron
      /\ pon' = pon
    BY DEF SleepTest, Goto
<1>2. TypeOK' /\ NoPanic'
     BY <1>1, ActorsAssumption DEF IInv, TypeOK, NoPanic, Actor, SleeperPc,
       UsesRendez
<1>3. RonInv'
    BY <1>1 DEF IInv, RonInv
<1>4. RlkInv'
    BY <1>1 DEF IInv, RlkInv, HoldsRendez
<1>5. PlkInv'
    BY <1>1 DEF IInv, PlkInv, HoldsProc, Committing
<1>6. RpInv'
    BY <1>1 DEF IInv, RpInv, Committing, Asleep
<1>7. PrInv'
    BY <1>1 DEF IInv, PrInv, Asleep
<1>8. WakerInv'
    BY <1>1 DEF IInv, WakerInv, Asleep
<1>9. PosterInv'
    BY <1>1 DEF IInv, PosterInv
<1>10. CondInv'
    BY <1>1 DEF IInv, CondInv, Waking, Asleep
<1>11. NoteInv'
    BY <1>1 DEF IInv, NoteInv, Posting, Asleep
<1> QED BY <1>2, <1>3, <1>4, <1>5, <1>6, <1>7, <1>8, <1>9, <1>10, <1>11 DEF IInv

LEMMA SleepCommitIInv ==
    ASSUME IInv, NEW p \in Sleeper,
           SleepCommit(p), ~notepending[p]
    PROVE  IInv'
<1>1. /\ pc[p] = "commit"
      /\ state' = [state EXCEPT ![p] = "Wakeme"] /\ pr' = [pr EXCEPT ![p] = ron[p]]
      /\ plk' = [plk EXCEPT ![p] = Nobody] /\ rlk' = [rlk EXCEPT ![ron[p]] = Nobody]
      /\ pc' = [pc EXCEPT ![p] = "asleep"]
      /\ cond' = cond /\ rp' = rp /\ notepending' = notepending /\ ron' = ron
      /\ pon' = pon
    BY DEF SleepCommit, Goto
<1>2. ron[p] \in Rendez
    BY <1>1, Pointers DEF IInv
<1>3. \A a \in Poster : pc[a] = "post_r" => pon[a] /= p
    BY <1>1 DEF IInv, PlkInv, HoldsProc, Committing, Actor
<1>4. TypeOK' /\ NoPanic'
     BY <1>1, ActorsAssumption DEF IInv, TypeOK, NoPanic, Actor, SleeperPc,
       UsesRendez
<1>5. RonInv'
    BY <1>1 DEF IInv, RonInv
<1>6. RlkInv'
    BY <1>1, ActorsAssumption DEF IInv, TypeOK, RlkInv, HoldsRendez, Actor
<1>7. PlkInv'
     BY <1>1, ActorsAssumption DEF IInv, TypeOK, PlkInv, HoldsProc, Committing,
       Actor
<1>8. RpInv'
    BY <1>1 DEF IInv, TypeOK, RpInv, Committing, Asleep
<1>9. PrInv'
    BY <1>1 DEF IInv, TypeOK, PrInv, Asleep, Actor
<1>10. WakerInv'
    BY <1>1 DEF IInv, WakerInv, Asleep
<1>11. PosterInv'
    BY <1>1, <1>3 DEF IInv, PosterInv
<1>12. CondInv'
    BY <1>1 DEF IInv, CondInv, Waking, Asleep
<1>13. NoteInv'
    BY <1>1 DEF IInv, NoteInv, Posting, Asleep
<1> QED BY <1>4, <1>5, <1>6, <1>7, <1>8, <1>9, <1>10, <1>11, <1>12, <1>13 DEF
     IInv

LEMMA SleepResumeIInv ==
    ASSUME IInv, NEW p \in Sleeper,
           SleepResume(p)
    PROVE  IInv'
<1>1. /\ pc[p] = "asleep" /\ state[p] = "Ready"
      /\ state' = [state EXCEPT ![p] = "Running"]
      /\ pc' = [pc EXCEPT ![p] = "awake"]
      /\ cond' = cond /\ rp' = rp /\ rlk' = rlk /\ pr' = pr
      /\ plk' = plk /\ notepending' = notepending /\ ron' = ron /\ pon' = pon
    BY DEF SleepResume, Goto
<1>2. TypeOK' /\ NoPanic'
     BY <1>1, ActorsAssumption DEF IInv, TypeOK, NoPanic, Actor, SleeperPc,
       UsesRendez
<1>3. RonInv'
    BY <1>1 DEF IInv, RonInv
<1>4. RlkInv'
    BY <1>1 DEF IInv, RlkInv, HoldsRendez
<1>5. PlkInv'
    BY <1>1 DEF IInv, PlkInv, HoldsProc, Committing
<1>6. RpInv'
    BY <1>1 DEF IInv, RpInv, Committing, Asleep
<1>7. PrInv'
    BY <1>1 DEF IInv, TypeOK, PrInv, Asleep, Actor
<1>8. WakerInv'
    BY <1>1 DEF IInv, WakerInv, Asleep
<1>9. PosterInv'
    BY <1>1 DEF IInv, PosterInv
<1>10. CondInv'
    BY <1>1 DEF IInv, CondInv, Waking, Asleep
<1>11. NoteInv'
    BY <1>1 DEF IInv, NoteInv, Posting, Asleep
<1> QED BY <1>2, <1>3, <1>4, <1>5, <1>6, <1>7, <1>8, <1>9, <1>10, <1>11 DEF IInv

LEMMA SleepReturnIInv ==
    ASSUME IInv, NEW p \in Sleeper,
           SleepReturn(p)
    PROVE  IInv'
<1>1. /\ pc[p] = "awake"
      /\ ron' = [ron EXCEPT ![p] = NoRendez]
      /\ pc' = [pc EXCEPT ![p] = "run"]
      /\ rp' = rp /\ rlk' = rlk /\ pr' = pr /\ plk' = plk
      /\ state' = state /\ pon' = pon
    BY DEF SleepReturn, Goto
<1>2. \/ notepending' = [notepending EXCEPT ![p] = FALSE] /\ cond' = cond
      \/ notepending' = notepending /\ cond' = [cond EXCEPT ![ron[p]] = FALSE]
    BY DEF SleepReturn
<1>3. \A q \in Sleeper : pc[q] /= "run" => ron[q] \in Rendez
    BY Pointers DEF IInv
<1>4. TypeOK' /\ NoPanic'
  <2>1. notepending' \in [Sleeper -> BOOLEAN] /\ cond' \in [Rendez -> BOOLEAN]
      BY <1>2 DEF IInv, TypeOK
  <2> QED BY <1>1, <2>1, ActorsAssumption DEF IInv, TypeOK, NoPanic, Actor,
       SleeperPc, WakerPc, PosterPc, UsesRendez, UsesProc
<1>5. RonInv'
    BY <1>1 DEF IInv, TypeOK, RonInv
<1>6. RlkInv'
    BY <1>1 DEF IInv, RlkInv, HoldsRendez
<1>7. PlkInv'
    BY <1>1 DEF IInv, PlkInv, HoldsProc, Committing
<1>8. RpInv'
    BY <1>1 DEF IInv, RpInv, Committing, Asleep
<1>9. PrInv'
    BY <1>1 DEF IInv, PrInv, Asleep
<1>10. WakerInv'
    BY <1>1 DEF IInv, WakerInv, Asleep
<1>11. PosterInv'
    BY <1>1 DEF IInv, PosterInv
<1>12. CondInv'
    BY <1>1, <1>2, <1>3 DEF IInv, TypeOK, CondInv, Waking, Asleep
<1>13. NoteInv'
    BY <1>1, <1>2 DEF IInv, TypeOK, NoteInv, Posting, Asleep
<1> QED BY <1>4, <1>5, <1>6, <1>7, <1>8, <1>9, <1>10, <1>11, <1>12, <1>13 DEF
     IInv

LEMMA WakeupCallIInv ==
    ASSUME IInv, NEW w \in Waker, NEW r \in Rendez,
           WakeupCall(w, r)
    PROVE  IInv'
<1>1. /\ pc[w] = "idle"
      /\ cond' = [cond EXCEPT ![r] = TRUE] /\ ron' = [ron EXCEPT ![w] = r]
      /\ pc' = [pc EXCEPT ![w] = "wakeup_r"]
      /\ rp' = rp /\ rlk' = rlk /\ pr' = pr /\ plk' = plk
      /\ state' = state /\ notepending' = notepending /\ pon' = pon
    BY DEF WakeupCall, Goto
<1>2. \A x \in Waker : pc[x] = "wakeup_p" => ron[x] \in Rendez /\ pon[x] \in Sleeper
    BY Pointers DEF IInv
<1>3. TypeOK' /\ NoPanic'
     BY <1>1, ActorsAssumption DEF IInv, TypeOK, NoPanic, Actor, WakerPc,
       UsesProc
<1>4. RonInv'
    BY <1>1, ActorsAssumption DEF IInv, RonInv
<1>5. RlkInv'
    BY <1>1 DEF IInv, RlkInv, HoldsRendez
<1>6. PlkInv'
    BY <1>1 DEF IInv, PlkInv, HoldsProc, Committing
<1>7. RpInv'
    BY <1>1 DEF IInv, RpInv, Committing, Asleep
<1>8. PrInv'
    BY <1>1 DEF IInv, PrInv, Asleep
<1>9. WakerInv'
    BY <1>1 DEF IInv, WakerInv, Asleep
<1>10. PosterInv'
    BY <1>1 DEF IInv, PosterInv
<1>11. CondInv'
    BY <1>1 DEF IInv, TypeOK, CondInv, Waking, Asleep, Actor
<1>12. NoteInv'
    BY <1>1 DEF IInv, NoteInv, Posting, Asleep
<1> QED BY <1>3, <1>4, <1>5, <1>6, <1>7, <1>8, <1>9, <1>10, <1>11, <1>12 DEF
     IInv

LEMMA WakeupNobodyIInv ==
    ASSUME IInv, NEW w \in Waker,
           WakeupLockRendez(w), rp[ron[w]] = NoProc
    PROVE  IInv'
<1>1. /\ pc[w] = "wakeup_r"
      /\ ron' = [ron EXCEPT ![w] = NoRendez]
      /\ pc' = [pc EXCEPT ![w] = "idle"]
      /\ cond' = cond /\ rp' = rp /\ rlk' = rlk /\ pr' = pr
      /\ plk' = plk /\ state' = state /\ notepending' = notepending /\ pon' = pon
    BY DEF WakeupLockRendez, Goto
<1>2. \A q \in Sleeper : pc[q] = "commit" \/ Asleep(q) => ron[q] /= ron[w]
    BY ActorsAssumption DEF IInv, RpInv, Committing
<1>3. TypeOK' /\ NoPanic'
     BY <1>1, ActorsAssumption DEF IInv, TypeOK, NoPanic, Actor, SleeperPc,
       WakerPc, UsesRendez, UsesProc
<1>4. RonInv'
    BY <1>1 DEF IInv, RonInv
<1>5. RlkInv'
    BY <1>1 DEF IInv, RlkInv, HoldsRendez
<1>6. PlkInv'
    BY <1>1 DEF IInv, PlkInv, HoldsProc, Committing
<1>7. RpInv'
    BY <1>1 DEF IInv, RpInv, Committing, Asleep
<1>8. PrInv'
    BY <1>1 DEF IInv, PrInv, Asleep
<1>9. WakerInv'
    BY <1>1 DEF IInv, WakerInv, Asleep
<1>10. PosterInv'
    BY <1>1 DEF IInv, PosterInv
<1>11. CondInv'
    BY <1>1, <1>2 DEF IInv, CondInv, Waking, Asleep
<1>12. NoteInv'
    BY <1>1 DEF IInv, NoteInv, Posting, Asleep
<1> QED BY <1>3, <1>4, <1>5, <1>6, <1>7, <1>8, <1>9, <1>10, <1>11, <1>12 DEF
     IInv

LEMMA WakeupLockRendezIInv ==
    ASSUME IInv, NEW w \in Waker,
           WakeupLockRendez(w), rp[ron[w]] /= NoProc
    PROVE  IInv'
<1>1. /\ pc[w] = "wakeup_r" /\ rlk[ron[w]] = Nobody
      /\ pon' = [pon EXCEPT ![w] = rp[ron[w]]] /\ rlk' = [rlk EXCEPT ![ron[w]] = w]
      /\ pc' = [pc EXCEPT ![w] = "wakeup_p"]
      /\ cond' = cond /\ rp' = rp /\ ron' = ron /\ pr' = pr
      /\ plk' = plk /\ state' = state /\ notepending' = notepending
    BY DEF WakeupLockRendez, Goto
<1>2. ron[w] \in Rendez /\ rp[ron[w]] \in Sleeper
    BY <1>1, Pointers DEF IInv, TypeOK
<1>3. Asleep(rp[ron[w]])
     BY <1>1, <1>2, ActorsAssumption DEF IInv, RpInv, RlkInv, HoldsRendez,
       Committing, Actor
<1>4. \A x \in Waker : pc[x] = "wakeup_p" => ron[x] \in Rendez /\ pon[x] \in Sleeper
    BY Pointers DEF IInv
<1>5. TypeOK' /\ NoPanic'
     BY <1>1, ActorsAssumption DEF IInv, TypeOK, NoPanic, Actor, WakerPc,
       UsesRendez
<1>6. RonInv'
    BY <1>1 DEF IInv, RonInv
<1>7. RlkInv'
    BY <1>1, ActorsAssumption DEF IInv, TypeOK, RlkInv, HoldsRendez
<1>8. PlkInv'
    BY <1>1 DEF IInv, PlkInv, HoldsProc, Committing
<1>9. RpInv'
    BY <1>1 DEF IInv, RpInv, Committing, Asleep
<1>10. PrInv'
    BY <1>1 DEF IInv, PrInv, Asleep
<1>11. WakerInv'
    BY <1>1, <1>3 DEF IInv, TypeOK, WakerInv, Asleep
<1>12. PosterInv'
    BY <1>1 DEF IInv, PosterInv
<1>13. CondInv'
    BY <1>1 DEF IInv, CondInv, Waking, Asleep
<1>14. NoteInv'
    BY <1>1 DEF IInv, NoteInv, Posting, Asleep
<1> QED BY <1>5, <1>6, <1>7, <1>8, <1>9, <1>10, <1>11, <1>12, <1>13, <1>14 DEF
     IInv

LEMMA WakeupReadyIInv ==
    ASSUME IInv, NEW w \in Waker,
           WakeupReady(w), state[pon[w]] = "Wakeme", pr[pon[w]] = ron[w]
    PROVE  IInv'
<1>1. /\ pc[w] = "wakeup_p" /\ plk[pon[w]] = Nobody
      /\ rp' = [rp EXCEPT ![ron[w]] = NoProc] /\ pr' = [pr EXCEPT ![pon[w]] = NoRendez]
      /\ state' = [state EXCEPT ![pon[w]] = "Ready"] /\ rlk' = [rlk EXCEPT ![ron[w]] = Nobody]
      /\ ron' = [ron EXCEPT ![w] = NoRendez] /\ pon' = [pon EXCEPT ![w] = NoProc]
      /\ pc' = [pc EXCEPT ![w] = "idle"]
      /\ cond' = cond /\ plk' = plk /\ notepending' = notepending
    BY DEF WakeupReady, Goto
<1>2. ron[w] \in Rendez /\ pon[w] \in Sleeper
    BY <1>1, Pointers DEF IInv
<1>3. rp[ron[w]] = pon[w] /\ Asleep(pon[w])
    BY <1>1 DEF IInv, WakerInv
<1>4. \A q \in Sleeper : (Committing(q) \/ Asleep(q)) /\ ron[q] = ron[w] => q = pon[w]
    BY <1>3 DEF IInv, RpInv
<1>5. \A x \in Waker : pc[x] = "wakeup_p" /\ x /= w => ron[x] /= ron[w]
    BY <1>1, <1>2 DEF IInv, RlkInv, HoldsRendez, Actor
<1>6. \A x \in Waker : pc[x] = "wakeup_p" => ron[x] \in Rendez /\ pon[x] \in Sleeper
    BY Pointers DEF IInv
<1>7. \A x \in Waker : pc[x] = "wakeup_p" /\ x /= w => pon[x] /= pon[w]
    BY <1>1, <1>5, <1>6, ActorsAssumption DEF IInv, RpInv, WakerInv
<1>8. \A q \in Sleeper :
        pc'[q] = "commit" \/ Asleep(q)' =>
        (pc[q] = "commit" \/ Asleep(q)) /\ ron[q] /= ron[w] /\ ron'[q] = ron[q]
    BY <1>1, <1>3, <1>4 DEF IInv, TypeOK, Committing, Asleep
<1>9. \A r \in Rendez : r /= ron[w] /\ Waking(r) => Waking(r)'
    BY <1>1 DEF Waking
<1>10. \A q \in Sleeper : pc[q] /= "run" => ron[q] \in Rendez
    BY Pointers DEF IInv
<1>11. TypeOK' /\ NoPanic'
     BY <1>1, ActorsAssumption DEF IInv, TypeOK, NoPanic, Actor, SleeperPc,
       WakerPc, UsesRendez, UsesProc
<1>12. RonInv'
    BY <1>1 DEF IInv, RonInv
<1>13. RlkInv'
    BY <1>1, ActorsAssumption DEF IInv, TypeOK, RlkInv, HoldsRendez, Actor
<1>14. PlkInv'
    BY <1>1 DEF IInv, PlkInv, HoldsProc, Committing
<1>15. RpInv'
    BY <1>1, <1>2, <1>3 DEF IInv, TypeOK, RpInv, Committing, Asleep
<1>16. PrInv'
    BY <1>1 DEF IInv, TypeOK, PrInv, Asleep
<1>17. WakerInv'
    BY <1>1, <1>7 DEF IInv, TypeOK, WakerInv, Asleep, Actor
<1>18. PosterInv'
     BY <1>1, ActorsAssumption DEF IInv, TypeOK, PosterInv, PlkInv, HoldsProc,
       Actor
<1>19. CondInv'
    BY <1>1, <1>8, <1>9, <1>10 DEF IInv, CondInv, Asleep
<1>20. NoteInv'
    BY <1>1 DEF IInv, NoteInv, Posting, Asleep
<1> QED BY <1>11, <1>12, <1>13, <1>14, <1>15, <1>16, <1>17, <1>18, <1>19, <1>20
     DEF IInv

LEMMA PostnoteCallIInv ==
    ASSUME IInv, NEW a \in Poster, NEW p \in Sleeper,
           PostnoteCall(a, p)
    PROVE  IInv'
<1>1. /\ pc[a] = "idle"
      /\ notepending' = [notepending EXCEPT ![p] = TRUE] /\ pon' = [pon EXCEPT ![a] = p]
      /\ pc' = [pc EXCEPT ![a] = "post_p"]
      /\ cond' = cond /\ rp' = rp /\ rlk' = rlk /\ pr' = pr
      /\ plk' = plk /\ state' = state /\ ron' = ron
    BY DEF PostnoteCall, Goto
<1>2. TypeOK' /\ NoPanic'
     BY <1>1, ActorsAssumption DEF IInv, TypeOK, NoPanic, Actor, SleeperPc,
       PosterPc, UsesRendez
<1>3. RonInv'
    BY <1>1 DEF IInv, RonInv
<1>4. RlkInv'
    BY <1>1 DEF IInv, RlkInv, HoldsRendez
<1>5. PlkInv'
    BY <1>1 DEF IInv, PlkInv, HoldsProc, Committing
<1>6. RpInv'
    BY <1>1 DEF IInv, RpInv, Committing, Asleep
<1>7. PrInv'
    BY <1>1 DEF IInv, PrInv, Asleep
<1>8. WakerInv'
    BY <1>1 DEF IInv, WakerInv, Asleep
<1>9. PosterInv'
    BY <1>1 DEF IInv, PosterInv
<1>10. CondInv'
    BY <1>1 DEF IInv, CondInv, Waking, Asleep
<1>11. NoteInv'
    BY <1>1 DEF IInv, TypeOK, NoteInv, Posting, Asleep, Actor
<1> QED BY <1>2, <1>3, <1>4, <1>5, <1>6, <1>7, <1>8, <1>9, <1>10, <1>11 DEF IInv

LEMMA PostnoteLockProcIInv ==
    ASSUME IInv, NEW a \in Poster,
           PostnoteLockProc(a)
    PROVE  IInv'
<1>1. /\ pc[a] = "post_p" /\ plk[pon[a]] = Nobody
      /\ plk' = [plk EXCEPT ![pon[a]] = a] /\ ron' = [ron EXCEPT ![a] = pr[pon[a]]]
      /\ pc' = [pc EXCEPT ![a] = IF pr[pon[a]] = NoRendez THEN "post_out" ELSE "post_r"]
      /\ cond' = cond /\ rp' = rp /\ rlk' = rlk /\ pr' = pr
      /\ state' = state /\ notepending' = notepending /\ pon' = pon
    BY DEF PostnoteLockProc, Goto
<1>2. pon[a] \in Sleeper
    BY <1>1, Pointers DEF IInv
<1>3. pr[pon[a]] = NoRendez => ~Asleep(pon[a])
    BY <1>1, Pointers, ActorsAssumption DEF IInv, PrInv, Asleep
<1>4. TypeOK' /\ NoPanic'
     BY <1>1, ActorsAssumption DEF IInv, TypeOK, NoPanic, Actor, SleeperPc,
       PosterPc, UsesRendez, UsesProc
<1>5. RonInv'
    BY <1>1, ActorsAssumption DEF IInv, RonInv
<1>6. RlkInv'
    BY <1>1 DEF IInv, RlkInv, HoldsRendez
<1>7. PlkInv'
    BY <1>1, ActorsAssumption DEF IInv, TypeOK, PlkInv, HoldsProc, Committing
<1>8. RpInv'
    BY <1>1 DEF IInv, RpInv, Committing, Asleep
<1>9. PrInv'
    BY <1>1 DEF IInv, PrInv, Asleep
<1>10. WakerInv'
    BY <1>1 DEF IInv, WakerInv, Asleep
<1>11. PosterInv'
    BY <1>1 DEF IInv, TypeOK, PosterInv
<1>12. CondInv'
    BY <1>1 DEF IInv, CondInv, Waking, Asleep
<1>13. NoteInv'
    BY <1>1, <1>3 DEF IInv, NoteInv, Posting, Asleep
<1> QED BY <1>4, <1>5, <1>6, <1>7, <1>8, <1>9, <1>10, <1>11, <1>12, <1>13 DEF
     IInv

LEMMA PostnoteReadyIInv ==
    ASSUME IInv, NEW a \in Poster,
           PostnoteReady(a), state[pon[a]] = "Wakeme", rp[ron[a]] = pon[a]
    PROVE  IInv'
<1>1. /\ pc[a] = "post_r" /\ rlk[ron[a]] = Nobody
      /\ rp' = [rp EXCEPT ![ron[a]] = NoProc] /\ pr' = [pr EXCEPT ![pon[a]] = NoRendez]
      /\ state' = [state EXCEPT ![pon[a]] = "Ready"]
      /\ pc' = [pc EXCEPT ![a] = "post_out"]
      /\ cond' = cond /\ rlk' = rlk /\ plk' = plk /\ notepending' = notepending
      /\ ron' = ron /\ pon' = pon
    BY DEF PostnoteReady, Goto
<1>2. ron[a] \in Rendez /\ pon[a] \in Sleeper
    BY <1>1, Pointers DEF IInv
<1>3. ron[pon[a]] = ron[a] /\ Asleep(pon[a])
    BY <1>2, ActorsAssumption DEF IInv, RpInv, PrInv, Asleep
<1>4. \A x \in Waker : pc[x] = "wakeup_p" => ron[x] \in Rendez /\ pon[x] \in Sleeper
    BY Pointers DEF IInv
<1>5. \A x \in Waker : pc[x] = "wakeup_p" => ron[x] /= ron[a]
    BY <1>1, <1>2, ActorsAssumption DEF IInv, RlkInv, HoldsRendez, Actor
<1>6. \A x \in Waker : pc[x] = "wakeup_p" => pon[x] /= pon[a]
    BY <1>2, <1>4, <1>5, ActorsAssumption DEF IInv, RpInv, WakerInv
<1>7. \A q \in Sleeper : (Committing(q) \/ Asleep(q)) /\ ron[q] = ron[a] => q = pon[a]
    BY DEF IInv, RpInv
<1>8. TypeOK' /\ NoPanic'
     BY <1>1, ActorsAssumption DEF IInv, TypeOK, NoPanic, Actor, PosterPc,
       UsesRendez, UsesProc
<1>9. RonInv'
    BY <1>1 DEF IInv, RonInv
<1>10. RlkInv'
    BY <1>1 DEF IInv, RlkInv, HoldsRendez
<1>11. PlkInv'
    BY <1>1 DEF IInv, PlkInv, HoldsProc, Committing
<1>12. RpInv'
    BY <1>1, <1>3 DEF IInv, TypeOK, RpInv, Committing, Asleep
<1>13. PrInv'
    BY <1>1 DEF IInv, TypeOK, PrInv, Asleep
<1>14. WakerInv'
    BY <1>1, <1>6 DEF IInv, WakerInv, Asleep
<1>15. PosterInv'
    BY <1>1 DEF IInv, TypeOK, PosterInv, PlkInv, HoldsProc, Actor
<1>16. CondInv'
    BY <1>1 DEF IInv, CondInv, Waking, Asleep
<1>17. NoteInv'
    BY <1>1 DEF IInv, TypeOK, NoteInv, Posting, Asleep
<1> QED BY <1>8, <1>9, <1>10, <1>11, <1>12, <1>13, <1>14, <1>15, <1>16, <1>17
     DEF IInv

LEMMA PostnoteRetryIInv ==
    ASSUME IInv, NEW a \in Poster,
           PostnoteRetry(a)
    PROVE  IInv'
<1>1. /\ pc[a] = "post_r"
      /\ plk' = [plk EXCEPT ![pon[a]] = Nobody] /\ ron' = [ron EXCEPT ![a] = NoRendez]
      /\ pc' = [pc EXCEPT ![a] = "post_p"]
      /\ cond' = cond /\ rp' = rp /\ rlk' = rlk /\ pr' = pr
      /\ state' = state /\ notepending' = notepending /\ pon' = pon
    BY DEF PostnoteRetry, Goto
<1>2. TypeOK' /\ NoPanic'
     BY <1>1, ActorsAssumption DEF IInv, TypeOK, NoPanic, Actor, SleeperPc,
       PosterPc, UsesRendez, UsesProc
<1>3. RonInv'
    BY <1>1 DEF IInv, RonInv
<1>4. RlkInv'
    BY <1>1 DEF IInv, RlkInv, HoldsRendez
<1>5. PlkInv'
     BY <1>1, ActorsAssumption DEF IInv, TypeOK, PlkInv, HoldsProc, Committing,
       Actor
<1>6. RpInv'
    BY <1>1 DEF IInv, RpInv, Committing, Asleep
<1>7. PrInv'
    BY <1>1 DEF IInv, PrInv, Asleep
<1>8. WakerInv'
    BY <1>1 DEF IInv, WakerInv, Asleep
<1>9. PosterInv'
    BY <1>1 DEF IInv, TypeOK, PosterInv
<1>10. CondInv'
    BY <1>1 DEF IInv, CondInv, Waking, Asleep
<1>11. NoteInv'
    BY <1>1 DEF IInv, NoteInv, Posting, Asleep
<1> QED BY <1>2, <1>3, <1>4, <1>5, <1>6, <1>7, <1>8, <1>9, <1>10, <1>11 DEF IInv

LEMMA PostnoteOutIInv ==
    ASSUME IInv, NEW a \in Poster,
           PostnoteOut(a)
    PROVE  IInv'
<1>1. /\ pc[a] = "post_out"
      /\ plk' = [plk EXCEPT ![pon[a]] = Nobody] /\ pon' = [pon EXCEPT ![a] = NoProc]
      /\ ron' = [ron EXCEPT ![a] = NoRendez]
      /\ pc' = [pc EXCEPT ![a] = "idle"]
      /\ cond' = cond /\ rp' = rp /\ rlk' = rlk /\ pr' = pr
      /\ state' = state /\ notepending' = notepending
    BY DEF PostnoteOut, Goto
<1>2. TypeOK' /\ NoPanic'
     BY <1>1, ActorsAssumption DEF IInv, TypeOK, NoPanic, Actor, SleeperPc,
       PosterPc, UsesRendez, UsesProc
<1>3. RonInv'
    BY <1>1 DEF IInv, RonInv
<1>4. RlkInv'
    BY <1>1 DEF IInv, RlkInv, HoldsRendez
<1>5. PlkInv'
     BY <1>1, ActorsAssumption DEF IInv, TypeOK, PlkInv, HoldsProc, Committing,
       Actor
<1>6. RpInv'
    BY <1>1 DEF IInv, RpInv, Committing, Asleep
<1>7. PrInv'
    BY <1>1 DEF IInv, PrInv, Asleep
<1>8. WakerInv'
    BY <1>1 DEF IInv, WakerInv, Asleep
<1>9. PosterInv'
    BY <1>1 DEF IInv, PosterInv
<1>10. CondInv'
    BY <1>1 DEF IInv, CondInv, Waking, Asleep
<1>11. NoteInv'
    BY <1>1 DEF IInv, NoteInv, Posting, Asleep
<1> QED BY <1>2, <1>3, <1>4, <1>5, <1>6, <1>7, <1>8, <1>9, <1>10, <1>11 DEF IInv

-----------------------------------------------------------------------------
LEMMA InitIInv == Init => IInv
<1> SUFFICES ASSUME Init PROVE IInv
    OBVIOUS
<1>1. TypeOK /\ NoPanic
     BY ActorsAssumption DEF Init, TypeOK, NoPanic, Actor, SleeperPc, WakerPc,
       PosterPc, UsesRendez, UsesProc
<1>2. \A p \in Sleeper : pc[p] = "run" /\ state[p] = "Running"
    BY DEF Init, Actor
<1>3. \A a \in Waker \cup Poster : pc[a] = "idle"
    BY ActorsAssumption DEF Init, Actor
<1>4. RonInv /\ RlkInv /\ PlkInv
     BY ActorsAssumption DEF Init, RonInv, RlkInv, PlkInv, HoldsProc,
       Committing, Actor
<1>5. RpInv /\ PrInv
    BY <1>2 DEF Init, RpInv, PrInv, Asleep, Committing
<1>6. WakerInv /\ PosterInv /\ CondInv /\ NoteInv
    BY <1>2, <1>3 DEF WakerInv, PosterInv, CondInv, NoteInv, Asleep
<1> QED BY <1>1, <1>4, <1>5, <1>6 DEF IInv

(* The sanity check of wakeup never fails: WakerInv.                       *)
LEMMA WakeupStepIInv ==
    ASSUME IInv, NEW w \in Waker, WakeupStep(w)
    PROVE  IInv'
<1>1. CASE WakeupLockRendez(w)
    BY <1>1, WakeupNobodyIInv, WakeupLockRendezIInv
<1>2. CASE WakeupReady(w)
  <2>1. pc[w] = "wakeup_p" /\ pon[w] \in Sleeper
      BY <1>2, Pointers DEF WakeupReady, IInv
  <2>2. rp[ron[w]] = pon[w] /\ Asleep(pon[w]) /\ ron[w] \in Rendez
      BY <2>1, Pointers DEF IInv, WakerInv
  <2>3. state[pon[w]] = "Wakeme" /\ pr[pon[w]] = ron[w]
      BY <2>1, <2>2, ActorsAssumption DEF IInv, RpInv, PrInv, Asleep
  <2> QED BY <1>2, <2>3, WakeupReadyIInv
<1> QED BY <1>1, <1>2 DEF WakeupStep

(* Nor does that of postnote: PosterInv.                                   *)
LEMMA PostnoteStepIInv ==
    ASSUME IInv, NEW a \in Poster, PostnoteStep(a)
    PROVE  IInv'
<1>1. CASE PostnoteReady(a)
  <2>1. pc[a] = "post_r" /\ pon[a] \in Sleeper /\ ron[a] \in Rendez
      BY <1>1, Pointers DEF PostnoteReady, IInv
  <2>2. pr[pon[a]] = ron[a] /\ Asleep(pon[a])
      BY <2>1, ActorsAssumption DEF IInv, PosterInv, PrInv
  <2>3. state[pon[a]] = "Wakeme" /\ rp[ron[a]] = pon[a]
      BY <2>1, <2>2 DEF IInv, PrInv, RpInv, Asleep
  <2> QED BY <1>1, <2>3, PostnoteReadyIInv
<1> QED BY <1>1, PostnoteLockProcIInv, PostnoteRetryIInv, PostnoteOutIInv DEF
     PostnoteStep

LEMMA SleepStepIInv ==
    ASSUME IInv, NEW p \in Sleeper, SleepStep(p)
    PROVE  IInv'
<1>1. CASE SleepTest(p)
  <2>1. CASE cond[ron[p]]
      BY <1>1, <2>1, SleepNeverMindIInv DEF SleepTest, Committing
  <2> QED BY <1>1, <2>1, SleepTestIInv
<1>2. CASE SleepCommit(p)
  <2>1. CASE notepending[p]
      BY <1>2, <2>1, SleepNeverMindIInv DEF SleepCommit, Committing
  <2> QED BY <1>2, <2>1, SleepCommitIInv
<1> QED BY <1>1, <1>2, SleepLockRendezIInv, SleepLockProcIInv, SleepResumeIInv,
     SleepReturnIInv DEF SleepStep

LEMMA StepIInv == IInv /\ [Next]_vars => IInv'
<1> SUFFICES ASSUME IInv, [Next]_vars PROVE IInv'
    OBVIOUS
<1>1. CASE \E p \in Sleeper : SleepStep(p) \/ \E r \in Rendez : SleepCall(p, r)
    BY <1>1, SleepStepIInv, SleepCallIInv
<1>2. CASE \E w \in Waker : WakeupStep(w) \/ \E r \in Rendez : WakeupCall(w, r)
    BY <1>2, WakeupStepIInv, WakeupCallIInv
<1>3. CASE \E a \in Poster : PostnoteStep(a) \/ \E p \in Sleeper : PostnoteCall(a, p)
    BY <1>3, PostnoteStepIInv, PostnoteCallIInv
<1>4. CASE UNCHANGED vars
     BY <1>4 DEF vars, IInv, TypeOK, NoPanic, RonInv, RlkInv, PlkInv, RpInv,
       PrInv, WakerInv, PosterInv, CondInv, NoteInv, HoldsRendez, HoldsProc,
       Committing, Asleep, Waking, Posting
<1> QED BY <1>1, <1>2, <1>3, <1>4 DEF Next

LEMMA InvIInv == Spec => []IInv
    BY InitIInv, StepIInv, PTL DEF Spec

-----------------------------------------------------------------------------
(* Neither sanity check of proc.c ("wakeup: state", "postnote: state") can *)
(* fail, however many processes sleep, wake and post notes.                *)
THEOREM SleepNoPanic == Spec => []NoPanic
<1>1. IInv => NoPanic
    BY DEF IInv
<1> QED BY <1>1, InvIInv, PTL

(* r->p and p->r are synchronized for whoever holds one of the locks, p->r *)
(* says who sleeps, and no nil pointer is followed.                        *)
THEOREM SleepRendezSynchronized == Spec => []RendezSynchronized
<1>1. ASSUME IInv PROVE RendezSynchronized
  <2>1. \A r \in Rendez : rlk[r] = Nobody /\ rp[r] /= NoProc => pr[rp[r]] = r
    <3> SUFFICES ASSUME NEW r \in Rendez, rlk[r] = Nobody, rp[r] /= NoProc
                 PROVE  pr[rp[r]] = r
        OBVIOUS
    <3>1. rp[r] \in Sleeper /\ ron[rp[r]] = r
        BY <1>1 DEF IInv, TypeOK, RpInv
    <3>2. ~Committing(rp[r])
         BY <1>1, <3>1, ActorsAssumption DEF IInv, RlkInv, HoldsRendez,
           Committing, Actor
    <3> QED BY <1>1, <3>1, <3>2 DEF IInv, RpInv, PrInv
  <2>2. \A p \in Sleeper : pr[p] /= NoRendez <=> Asleep(p)
      BY <1>1, Pointers, ActorsAssumption DEF IInv, PrInv, Asleep
  <2>3. \A p \in Sleeper : plk[p] = Nobody /\ pr[p] /= NoRendez => rp[pr[p]] = p
      BY <1>1 DEF IInv, PrInv, RpInv
  <2> QED BY <1>1, <2>1, <2>2, <2>3 DEF IInv, RendezSynchronized
<1> QED BY <1>1, InvIInv, PTL

(* No lost wakeup: a process that sleeps although its condition has        *)
(* happened, or although a note is pending, is about to be made ready by a *)
(* wakeup, or a postnote, that is under way.                               *)
THEOREM SleepNoLostWakeup == Spec => []NoLostWakeup
<1>1. IInv => NoLostWakeup
    BY DEF IInv, CondInv, NoteInv, Waking, Posting, NoLostWakeup
<1> QED BY <1>1, InvIInv, PTL

-----------------------------------------------------------------------------
(* Semaphores: who is in semwakeup, and who is in the list.                *)
Releasing(x) == at[x] \in {"swk_lock", "swk", "swk_wake"}
Listed(x) == at[x] \in {"wait", "try", "sleep", "asleep", "woken", "dequeue"}

(* The list has those who wait, each one once; whoever walks along it has  *)
(* its lock.                                                               *)
ListInv == NoRepeat(list) /\ Range(list) = {x \in Proc : Listed(x)}

LkInv == \A x \in Proc : lk = x <=> at[x] \in {"swk", "swk_wake"}

(* A flag is only set for a waiter, up to its own test of it.              *)
FlagInv == \A x \in Proc : waiting[x] => Listed(x) \/ at[x] \in {"pass", "done"}

(* semwakeup has something left to give, to a waiter for its semaphore.    *)
WalkInv ==
    \A x \in Proc :
        /\ at[x] = "swk" => cur[x] >= 1
        /\ at[x] = "swk_wake" => n[x] > 0 /\ addr[list[cur[x]]] = addr[x]

(* A result is there only on the way out.                                  *)
ResultInv ==
    \A x \in Proc : result[x] /= "none" =>
        at[x] \in {"dequeue", "pass", "done"} \/ Releasing(x)

(* Is p in the list at k or after it?                                      *)
Ahead(x, k, p) == \E i \in k .. Len(list) : list[i] = p

(* How many flags x will clear, or how much it will take of the value: a   *)
(* releaser that has not begun clears n; an acquirer about to try takes    *)
(* what there is, or there is nothing; one whose flag has been cleared     *)
(* passes the wakeup on.                                                   *)
Owed(x) ==
    IF at[x] = "swk_lock" THEN n[x]
    ELSE IF waiting[x] THEN IF at[x] = "try" THEN 1 ELSE 0
    ELSE IF at[x] = "try" THEN 2
    ELSE IF Listed(x) \/ at[x] = "pass" THEN 1 ELSE 0

(* The part of it that can come to p: a releaser past p has nothing for it.*)
Due(p, x) ==
    IF addr[x] /= addr[p] THEN 0
    ELSE IF at[x] = "swk" THEN IF Ahead(x, cur[x], p) THEN n[x] ELSE 0
    ELSE IF at[x] = "swk_wake" THEN IF Ahead(x, cur[x] + 1, p) THEN n[x] - 1 ELSE 0
    ELSE Owed(x)

Sleeping(p) == at[p] \in {"sleep", "asleep"} /\ waiting[p]

(* A sleeper with its flag set has at least the value coming.              *)
DueInv ==
    \A p \in Proc : Sleeping(p) => value[addr[p]] <= SumFunction([x \in Proc |-> Due(p, x)])

SemInv ==
    /\ SemTypeOK /\ ListInv /\ LkInv /\ FlagInv /\ WalkInv /\ ResultInv
    /\ ClearedIsWoken /\ PermitsConserved /\ DueInv

\* What x has for the waiters of a, when it is not in semwakeup.
Coming(x, a) == IF addr[x] = a THEN Owed(x) ELSE 0

LEMMA DueNat ==
    ASSUME SemTypeOK, WalkInv, NEW p \in Proc
    PROVE  [x \in Proc |-> Due(p, x)] \in [Proc -> Nat]
<1> SUFFICES ASSUME NEW x \in Proc PROVE Due(p, x) \in Nat
    OBVIOUS
<1>1. Owed(x) \in Nat
    BY DEF Owed, SemTypeOK
<1>2. n[x] \in Nat /\ (at[x] = "swk_wake" => n[x] > 0)
    BY DEF SemTypeOK, WalkInv
<1>3. at[x] = "swk_wake" => n[x] - 1 \in Nat
    BY <1>2
<1> QED BY <1>1, <1>2, <1>3 DEF Due

LEMMA DueSame ==
    ASSUME SemInv, NEW p \in Proc, NEW x \in Proc,
           addr'[p] = addr[p], addr'[x] = addr[x], at'[x] = at[x],
           waiting'[x] = waiting[x], n'[x] = n[x], cur'[x] = cur[x],
           list' = list \/ lk = Unlocked
    PROVE  Due(p, x)' = Due(p, x)
<1>1. Owed(x)' = Owed(x)
    BY DEF Owed, Listed
<1>2. CASE list' = list
    BY <1>1, <1>2 DEF Due, Ahead
<1>3. CASE lk = Unlocked
  <2>1. at[x] \notin {"swk", "swk_wake"}
      BY <1>3, ConstantsAssumption DEF SemInv, LkInv
  <2> QED BY <1>1, <2>1 DEF Due
<1> QED BY <1>2, <1>3

LEMMA DueStep ==
    ASSUME SemInv, SemTypeOK', WalkInv', NEW y \in Proc, NEW p \in Proc,
           Sleeping(p), addr'[p] = addr[p],
           \A x \in Proc \ {y} : Due(p, x) <= Due(p, x)',
           value'[addr[p]] + Due(p, y) <= value[addr[p]] + Due(p, y)'
    PROVE  value'[addr'[p]] <= SumFunction([x \in Proc |-> Due(p, x)])'
<1> DEFINE f == [x \in Proc |-> Due(p, x)]
           g == [x \in Proc |-> Due(p, x)']
<1>1. f \in [Proc -> Nat]
    BY DueNat DEF SemInv
<1>2. g \in [Proc -> Nat]
  <2>1. ASSUME NEW x \in Proc PROVE Due(p, x)' \in Nat
    <3>1. Owed(x)' \in Nat
        BY DEF Owed, SemTypeOK
    <3>2. n'[x] \in Nat /\ (at'[x] = "swk_wake" => n'[x] > 0)
        BY DEF SemTypeOK, WalkInv
    <3>3. at'[x] = "swk_wake" => n'[x] - 1 \in Nat
        BY <3>2
    <3> QED BY <3>1, <3>2, <3>3 DEF Due
  <2> QED BY <2>1
<1>3. addr[p] \in Addr /\ value[addr[p]] \in Nat /\ value'[addr[p]] \in Nat
  <2>1. at[p] /= "idle"
      BY DEF Sleeping
  <2> QED BY <2>1 DEF SemInv, SemTypeOK
<1>4. IsFiniteSet(Proc)
    BY ConstantsAssumption
<1>5. SumFunction(f) \in Nat /\ SumFunction(g) \in Nat
    BY <1>1, <1>2, <1>4, SumNat
<1>6. SumFunction(f) + g[y] <= SumFunction(g) + f[y]
  <2>1. \A x \in Proc \ {y} : f[x] <= g[x]
      OBVIOUS
  <2> HIDE DEF f, g
  <2> QED BY <1>1, <1>2, <1>4, <2>1, SumGrows
<1>7. value[addr[p]] <= SumFunction(f)
    BY DEF SemInv, DueInv
<1>8. f[y] = Due(p, y) /\ g[y] = Due(p, y)' /\ f[y] \in Nat /\ g[y] \in Nat
    BY <1>1, <1>2
<1>9. value'[addr[p]] <= SumFunction(g)
    BY <1>3, <1>5, <1>6, <1>7, <1>8
<1> QED BY <1>9

(* Only y moves, and what p has coming does not shrink by more than the    *)
(* value does.                                                             *)
LEMMA OneMovesDue ==
    ASSUME SemInv, SemTypeOK', WalkInv', NEW y \in Proc,
           \A x \in Proc \ {y} :
              /\ addr'[x] = addr[x] /\ at'[x] = at[x] /\ waiting'[x] = waiting[x]
              /\ n'[x] = n[x] /\ cur'[x] = cur[x],
           list' = list \/ lk = Unlocked,
           \A p \in Proc : Sleeping(p)' =>
              \/ value'[addr'[p]] = 0
              \/ /\ Sleeping(p) /\ addr'[p] = addr[p]
                 /\ value'[addr[p]] + Due(p, y) <= value[addr[p]] + Due(p, y)'
    PROVE  DueInv'
<1> SUFFICES ASSUME NEW p \in Proc, Sleeping(p)'
             PROVE  value'[addr'[p]] <= SumFunction([x \in Proc |-> Due(p, x)])'
    BY DEF DueInv
<1> DEFINE g == [x \in Proc |-> Due(p, x)']
<1>1. g \in [Proc -> Nat]
  <2>1. ASSUME NEW x \in Proc PROVE Due(p, x)' \in Nat
    <3>1. Owed(x)' \in Nat
        BY DEF Owed, SemTypeOK
    <3>2. n'[x] \in Nat /\ (at'[x] = "swk_wake" => n'[x] > 0)
        BY DEF SemTypeOK, WalkInv
    <3>3. at'[x] = "swk_wake" => n'[x] - 1 \in Nat
        BY <3>2
    <3> QED BY <3>1, <3>2, <3>3 DEF Due
  <2> QED BY <2>1
<1>2. SumFunction(g) \in Nat
    BY <1>1, ConstantsAssumption, SumNat
<1>3. CASE value'[addr'[p]] = 0
    BY <1>2, <1>3
<1>4. CASE /\ Sleeping(p) /\ addr'[p] = addr[p]
           /\ value'[addr[p]] + Due(p, y) <= value[addr[p]] + Due(p, y)'
  <2>1. Due(p, y) \in Nat /\ Due(p, y)' \in Nat
    <3>1. [x \in Proc |-> Due(p, x)] \in [Proc -> Nat]
        BY DueNat DEF SemInv
    <3> QED BY <1>1, <3>1
  <2>2. ASSUME NEW x \in Proc \ {y} PROVE Due(p, x) <= Due(p, x)'
    <3>1. Due(p, x)' = Due(p, x)
        BY <1>4, <2>2, DueSame
    <3> QED BY <1>1, <3>1
  <2> QED BY <1>4, <2>2, DueStep
<1> QED BY <1>3, <1>4

(* The units that are out, and the one that p is going to answer for.      *)
Taken(p, a) ==
    held[a] + untold[a] + (IF result[p] = "acquired" /\ addr[p] = a THEN 1 ELSE 0)

Acquired(a) == {x \in Proc : result[x] = "acquired" /\ addr[x] = a}

(* Only p takes or gives back, and the value of the semaphore says so.     *)
LEMMA PermitsMove ==
    ASSUME SemInv, SemTypeOK', NEW p \in Proc,
           \A x \in Proc \ {p} : result'[x] = result[x] /\ addr'[x] = addr[x],
           \A a \in Addr : value'[a] + Taken(p, a)' = value[a] + Taken(p, a)
    PROVE  PermitsConserved'
<1> SUFFICES ASSUME NEW a \in Addr
             PROVE  value'[a] + held'[a] + untold'[a] + Cardinality(Acquired(a)')
                        = Permits[a]
    BY DEF PermitsConserved, Acquired
<1> DEFINE R == Acquired(a) \ {p}
<1>1. IsFiniteSet(Acquired(a)) /\ Cardinality(Acquired(a)) \in Nat
  <2>1. IsFiniteSet(Acquired(a))
      BY ConstantsAssumption, FS_Subset DEF Acquired
  <2> QED BY <2>1, FS_CardinalityType
<1>5. IsFiniteSet(R) /\ Cardinality(R) \in Nat
    BY <1>1, FS_RemoveElement, FS_CardinalityType
<1>6. Cardinality(Acquired(a))
        = Cardinality(R) + (IF result[p] = "acquired" /\ addr[p] = a THEN 1 ELSE 0)
  <2>1. CASE p \in Acquired(a)
    <3>1. Acquired(a) = R \cup {p} /\ p \notin R
        BY <2>1
    <3> HIDE DEF R
    <3> QED BY <1>5, <2>1, <3>1, FS_AddElement DEF Acquired
  <2>2. CASE p \notin Acquired(a)
    <3>1. Acquired(a) = R
        BY <2>2
    <3> QED BY <1>5, <2>2, <3>1 DEF Acquired
  <2> QED BY <2>1, <2>2
<1>7. Cardinality(Acquired(a)')
        = Cardinality(R) + (IF result'[p] = "acquired" /\ addr'[p] = a THEN 1 ELSE 0)
  <2>1. CASE p \in Acquired(a)'
    <3>1. Acquired(a)' = R \cup {p} /\ p \notin R
        BY <2>1 DEF Acquired
    <3> HIDE DEF R
    <3> QED BY <1>5, <2>1, <3>1, FS_AddElement DEF Acquired
  <2>2. CASE p \notin Acquired(a)'
    <3>1. Acquired(a)' = R /\ ~(result'[p] = "acquired" /\ addr'[p] = a)
        BY <2>2 DEF Acquired
    <3> HIDE DEF R
    <3> QED BY <1>5, <3>1
  <2> QED BY <2>1, <2>2
<1>8. value[a] + held[a] + untold[a] + Cardinality(Acquired(a)) = Permits[a]
    BY DEF SemInv, PermitsConserved, Acquired
<1>9. /\ value[a] \in Nat /\ value'[a] \in Nat
      /\ held[a] \in Nat /\ held'[a] \in Nat
      /\ untold[a] \in Nat /\ untold'[a] \in Nat /\ Permits[a] \in Nat
    BY ConstantsAssumption DEF SemInv, SemTypeOK
<1>10. value'[a] + Taken(p, a)' = value[a] + Taken(p, a)
    OBVIOUS
<1> HIDE DEF R
<1> QED BY <1>1, <1>5, <1>6, <1>7, <1>8, <1>9, <1>10 DEF Taken

(* The list, its lock and who is on it.                                    *)
LEMMA ListSame ==
    ASSUME SemInv, list' = list, \A x \in Proc : Listed(x)' = Listed(x)
    PROVE  ListInv'
<1>1. {x \in Proc : Listed(x)}' = {x \in Proc : Listed(x)}
    OBVIOUS
<1> QED BY <1>1 DEF SemInv, ListInv

LEMMA WalkerAlone ==
    ASSUME SemInv, NEW x \in Proc, at[x] \in {"swk", "swk_wake"}
    PROVE  lk = x /\ \A y \in Proc \ {x} : at[y] \notin {"swk", "swk_wake"}
    BY DEF SemInv, LkInv

LEMMA NoWalker ==
    ASSUME SemInv, lk = Unlocked
    PROVE  /\ \A y \in Proc : at[y] \notin {"swk", "swk_wake"}
           /\ \A y \in Proc : at[y] = "asleep" => waiting[y]
<1>1. \A y \in Proc : at[y] \notin {"swk", "swk_wake"}
    BY ConstantsAssumption DEF SemInv, LkInv
<1> QED BY <1>1 DEF SemInv, ClearedIsWoken

-----------------------------------------------------------------------------

Walking(x) == at[x] \in {"swk", "swk_wake"}

(* Only p moves, and it does not hold the lock; the list may change when   *)
(* nobody does.                                                            *)
OnlyMoves(p) ==
    /\ \A x \in Proc \ {p} :
          /\ addr'[x] = addr[x] /\ at'[x] = at[x] /\ waiting'[x] = waiting[x]
          /\ n'[x] = n[x] /\ cur'[x] = cur[x] /\ result'[x] = result[x]
    /\ lk' = lk
    /\ list' = list \/ lk = Unlocked
    /\ ~Walking(p) /\ ~Walking(p)'
    /\ Listed(p) => addr'[p] = addr[p]

LEMMA OnlyMovesInv ==
    ASSUME SemInv, NEW p \in Proc, OnlyMoves(p),
           SemTypeOK', ListInv', PermitsConserved',
           waiting'[p] => Listed(p)' \/ at'[p] \in {"pass", "done"},
           result'[p] /= "none" => at'[p] \in {"dequeue", "pass", "done", "swk_lock"},
           at'[p] = "asleep" => waiting'[p],
           \A q \in Proc : Sleeping(q)' =>
              \/ value'[addr'[q]] = 0
              \/ /\ Sleeping(q) /\ addr'[q] = addr[q]
                 /\ value'[addr[q]] + Coming(p, addr[q])
                       <= value[addr[q]] + Coming(p, addr[q])'
    PROVE  SemInv'
<1>1. LkInv'
    BY ConstantsAssumption DEF SemInv, LkInv, OnlyMoves, Walking
<1>2. FlagInv'
    BY DEF SemInv, FlagInv, OnlyMoves, Listed
<1>3. ResultInv'
    BY DEF SemInv, ResultInv, OnlyMoves, Releasing, Walking
<1>4. WalkInv'
  <2>1. ASSUME NEW x \in Proc, Walking(x)'
        PROVE  /\ x /= p /\ list' = list /\ Walking(x) /\ at'[x] = at[x]
               /\ n'[x] = n[x] /\ cur'[x] = cur[x] /\ addr'[x] = addr[x]
    <3>1. x /= p /\ Walking(x)
        BY <2>1 DEF OnlyMoves, Walking
    <3>2. lk /= Unlocked
        BY <3>1, NoWalker DEF Walking
    <3> QED BY <3>1, <3>2 DEF OnlyMoves
  <2>2. ASSUME NEW x \in Proc, at[x] = "swk_wake", list' = list
        PROVE  addr'[list[cur[x]]] = addr[list[cur[x]]]
    <3>1. cur[x] \in 1 .. Len(list)
        BY <2>2 DEF SemInv, SemTypeOK
    <3>2. list[cur[x]] \in Proc /\ Listed(list[cur[x]])
        BY <3>1, InRange DEF SemInv, SemTypeOK, ListInv
    <3> QED BY <3>2 DEF OnlyMoves
  <2> QED BY <2>1, <2>2 DEF SemInv, WalkInv, Walking
<1>5. ClearedIsWoken'
  <2>1. ASSUME NEW x \in Proc, at'[x] = "asleep", ~waiting'[x]
        PROVE  \E q \in Proc : at'[q] = "swk_wake" /\ list'[cur'[q]] = x
    <3>1. x /= p /\ at[x] = "asleep" /\ ~waiting[x]
        BY <2>1 DEF OnlyMoves
    <3>2. PICK q \in Proc : at[q] = "swk_wake" /\ list[cur[q]] = x
        BY <3>1 DEF SemInv, ClearedIsWoken
    <3>3. lk /= Unlocked /\ q /= p
        BY <3>2, NoWalker DEF OnlyMoves, Walking
    <3> QED BY <3>2, <3>3 DEF OnlyMoves
  <2> QED BY <2>1 DEF ClearedIsWoken
<1>6. DueInv'
  <2>1. ASSUME NEW q \in Proc, addr'[q] = addr[q]
        PROVE  Due(q, p) = Coming(p, addr[q]) /\ Due(q, p)' = Coming(p, addr[q])'
      BY <2>1 DEF OnlyMoves, Walking, Due, Coming
  <2> QED BY <1>4, <2>1, OneMovesDue DEF OnlyMoves
<1> QED BY <1>1, <1>2, <1>3, <1>4, <1>5, <1>6 DEF SemInv

-----------------------------------------------------------------------------

LEMMA SetWaitingInv ==
    ASSUME SemInv, NEW p \in Proc, SetWaiting(p)
    PROVE  SemInv'
<1>1. SemTypeOK'
    BY DEF SetWaiting, Moves, kept, SemInv, SemTypeOK, PcSet
<1>2. ListInv'
  <2>1. \A x \in Proc : Listed(x)' = Listed(x)
      BY SMTT(30) DEF SetWaiting, Moves, Listed, SemInv, SemTypeOK
  <2> QED BY <2>1, ListSame DEF SetWaiting, kept
<1>3. PermitsConserved'
    BY <1>1, PermitsMove DEF SetWaiting, Moves, kept, SemInv, SemTypeOK, Taken, ResultInv, Releasing
<1>4. OnlyMoves(p)
    BY DEF SetWaiting, Moves, kept, SemInv, SemTypeOK, OnlyMoves, Walking, Listed
<1>5. /\ waiting'[p] => Listed(p)' \/ at'[p] \in {"pass", "done"}
      /\ result'[p] /= "none" => at'[p] \in {"dequeue", "pass", "done", "swk_lock"}
      /\ at'[p] = "asleep" => waiting'[p]
    BY DEF SetWaiting, Moves, kept, SemInv, SemTypeOK, FlagInv, ResultInv, Listed, Releasing
<1>6. ASSUME NEW q \in Proc, Sleeping(q)'
      PROVE  \/ value'[addr'[q]] = 0
             \/ /\ Sleeping(q) /\ addr'[q] = addr[q]
                /\ value'[addr[q]] + Coming(p, addr[q])
                      <= value[addr[q]] + Coming(p, addr[q])'
    BY <1>6 DEF SetWaiting, Moves, kept, SemInv, SemTypeOK, Sleeping, Coming, Owed, Listed
<1> QED BY <1>1, <1>2, <1>3, <1>4, <1>5, <1>6, OnlyMovesInv

LEMMA SemSleepInv ==
    ASSUME SemInv, NEW p \in Proc, SemSleep(p)
    PROVE  SemInv'
<1>1. SemTypeOK'
    BY DEF SemSleep, Moves, kept, SemInv, SemTypeOK, PcSet
<1>2. ListInv'
  <2>1. \A x \in Proc : Listed(x)' = Listed(x)
      BY SMTT(30) DEF SemSleep, Moves, Listed, SemInv, SemTypeOK
  <2> QED BY <2>1, ListSame DEF SemSleep, kept
<1>3. PermitsConserved'
    BY <1>1, PermitsMove DEF SemSleep, Moves, kept, SemInv, SemTypeOK, Taken, ResultInv, Releasing
<1>4. OnlyMoves(p)
    BY DEF SemSleep, Moves, kept, SemInv, SemTypeOK, OnlyMoves, Walking, Listed
<1>5. /\ waiting'[p] => Listed(p)' \/ at'[p] \in {"pass", "done"}
      /\ result'[p] /= "none" => at'[p] \in {"dequeue", "pass", "done", "swk_lock"}
      /\ at'[p] = "asleep" => waiting'[p]
    BY DEF SemSleep, Moves, kept, SemInv, SemTypeOK, FlagInv, ResultInv, Listed, Releasing
<1>6. ASSUME NEW q \in Proc, Sleeping(q)'
      PROVE  \/ value'[addr'[q]] = 0
             \/ /\ Sleeping(q) /\ addr'[q] = addr[q]
                /\ value'[addr[q]] + Coming(p, addr[q])
                      <= value[addr[q]] + Coming(p, addr[q])'
    BY <1>6 DEF SemSleep, Moves, kept, SemInv, SemTypeOK, Sleeping, Coming, Owed, Listed
<1> QED BY <1>1, <1>2, <1>3, <1>4, <1>5, <1>6, OnlyMovesInv

LEMMA SemSleepReturnInv ==
    ASSUME SemInv, NEW p \in Proc, SemSleepReturn(p)
    PROVE  SemInv'
<1>1. SemTypeOK'
    BY DEF SemSleepReturn, Moves, kept, SemInv, SemTypeOK, PcSet
<1>2. ListInv'
  <2>1. \A x \in Proc : Listed(x)' = Listed(x)
      BY SMTT(30) DEF SemSleepReturn, Moves, Listed, SemInv, SemTypeOK
  <2> QED BY <2>1, ListSame DEF SemSleepReturn, kept
<1>3. PermitsConserved'
  <2>1. result[p] = "none"
      BY DEF SemSleepReturn, SemInv, ResultInv, Releasing
  <2>2. \A x \in Proc : result'[x] = "acquired" <=> result[x] = "acquired"
      BY <2>1 DEF SemSleepReturn, SemInv, SemTypeOK
  <2>3. \A x \in Proc \ {p} : result'[x] = result[x]
      BY DEF SemSleepReturn, SemInv, SemTypeOK
  <2> QED BY <1>1, <2>2, <2>3, PermitsMove DEF SemSleepReturn, kept, Taken
<1>4. OnlyMoves(p)
    BY DEF SemSleepReturn, Moves, kept, SemInv, SemTypeOK, OnlyMoves, Walking, Listed
<1>5. /\ waiting'[p] => Listed(p)' \/ at'[p] \in {"pass", "done"}
      /\ result'[p] /= "none" => at'[p] \in {"dequeue", "pass", "done", "swk_lock"}
      /\ at'[p] = "asleep" => waiting'[p]
    BY DEF SemSleepReturn, Moves, kept, SemInv, SemTypeOK, FlagInv, ResultInv, Listed, Releasing
<1>6. ASSUME NEW q \in Proc, Sleeping(q)'
      PROVE  \/ value'[addr'[q]] = 0
             \/ /\ Sleeping(q) /\ addr'[q] = addr[q]
                /\ value'[addr[q]] + Coming(p, addr[q])
                      <= value[addr[q]] + Coming(p, addr[q])'
  <2>1. Owed(p)' = Owed(p) /\ addr' = addr
      BY DEF SemSleepReturn, Moves, kept, SemInv, SemTypeOK, FlagInv, Owed, Listed
  <2>2. Sleeping(q) /\ addr'[q] = addr[q] /\ q /= p
      BY <1>6 DEF SemSleepReturn, Moves, kept, SemInv, SemTypeOK, Sleeping
  <2>3. addr[q] \in Addr /\ value[addr[q]] \in Nat /\ Owed(p) \in Nat
      BY <2>2 DEF SemInv, SemTypeOK, Sleeping, Owed
  <2> QED BY <2>1, <2>2, <2>3 DEF SemSleepReturn, kept, Coming, SemInv, SemTypeOK, Moves
<1> QED BY <1>1, <1>2, <1>3, <1>4, <1>5, <1>6, OnlyMovesInv

LEMMA PassOnInv ==
    ASSUME SemInv, NEW p \in Proc, PassOn(p)
    PROVE  SemInv'
<1>1. SemTypeOK'
    BY DEF PassOn, Moves, kept, SemInv, SemTypeOK, PcSet
<1>2. ListInv'
  <2>1. \A x \in Proc : Listed(x)' = Listed(x)
      BY SMTT(30) DEF PassOn, Moves, Listed, SemInv, SemTypeOK
  <2> QED BY <2>1, ListSame DEF PassOn, kept
<1>3. PermitsConserved'
    BY <1>1, PermitsMove DEF PassOn, Moves, kept, SemInv, SemTypeOK, Taken, ResultInv, Releasing
<1>4. OnlyMoves(p)
    BY DEF PassOn, Moves, kept, SemInv, SemTypeOK, OnlyMoves, Walking, Listed
<1>5. /\ waiting'[p] => Listed(p)' \/ at'[p] \in {"pass", "done"}
      /\ result'[p] /= "none" => at'[p] \in {"dequeue", "pass", "done", "swk_lock"}
      /\ at'[p] = "asleep" => waiting'[p]
    BY DEF PassOn, Moves, kept, SemInv, SemTypeOK, FlagInv, ResultInv, Listed, Releasing
<1>6. ASSUME NEW q \in Proc, Sleeping(q)'
      PROVE  \/ value'[addr'[q]] = 0
             \/ /\ Sleeping(q) /\ addr'[q] = addr[q]
                /\ value'[addr[q]] + Coming(p, addr[q])
                      <= value[addr[q]] + Coming(p, addr[q])'
    BY <1>6 DEF PassOn, Moves, kept, SemInv, SemTypeOK, Sleeping, Coming, Owed, Listed
<1> QED BY <1>1, <1>2, <1>3, <1>4, <1>5, <1>6, OnlyMovesInv

LEMMA TwakeupInv ==
    ASSUME SemInv, NEW p \in Proc, Twakeup(p)
    PROVE  SemInv'
<1>1. SemTypeOK'
    BY DEF Twakeup, Moves, kept, SemInv, SemTypeOK, PcSet
<1>2. ListInv'
  <2>1. \A x \in Proc : Listed(x)' = Listed(x)
      BY SMTT(30) DEF Twakeup, Moves, Listed, SemInv, SemTypeOK
  <2> QED BY <2>1, ListSame DEF Twakeup, kept
<1>3. PermitsConserved'
    BY <1>1, PermitsMove DEF Twakeup, Moves, kept, SemInv, SemTypeOK, Taken, ResultInv, Releasing
<1>4. OnlyMoves(p)
    BY DEF Twakeup, Moves, kept, SemInv, SemTypeOK, OnlyMoves, Walking, Listed
<1>5. /\ waiting'[p] => Listed(p)' \/ at'[p] \in {"pass", "done"}
      /\ result'[p] /= "none" => at'[p] \in {"dequeue", "pass", "done", "swk_lock"}
      /\ at'[p] = "asleep" => waiting'[p]
    BY DEF Twakeup, Moves, kept, SemInv, SemTypeOK, FlagInv, ResultInv, Listed, Releasing
<1>6. ASSUME NEW q \in Proc, Sleeping(q)'
      PROVE  \/ value'[addr'[q]] = 0
             \/ /\ Sleeping(q) /\ addr'[q] = addr[q]
                /\ value'[addr[q]] + Coming(p, addr[q])
                      <= value[addr[q]] + Coming(p, addr[q])'
    BY <1>6 DEF Twakeup, Moves, kept, SemInv, SemTypeOK, Sleeping, Coming, Owed, Listed
<1> QED BY <1>1, <1>2, <1>3, <1>4, <1>5, <1>6, OnlyMovesInv

LEMMA PostnoteInv ==
    ASSUME SemInv, NEW p \in Proc, Postnote(p)
    PROVE  SemInv'
<1>1. SemTypeOK'
    BY DEF Postnote, Moves, kept, SemInv, SemTypeOK, PcSet
<1>2. ListInv'
  <2>1. \A x \in Proc : Listed(x)' = Listed(x)
      BY SMTT(30) DEF Postnote, Moves, Listed, SemInv, SemTypeOK
  <2> QED BY <2>1, ListSame DEF Postnote, kept
<1>3. PermitsConserved'
    BY <1>1, PermitsMove DEF Postnote, Moves, kept, SemInv, SemTypeOK, Taken, ResultInv, Releasing
<1>4. OnlyMoves(p)
    BY DEF Postnote, Moves, kept, SemInv, SemTypeOK, OnlyMoves, Walking, Listed
<1>5. /\ waiting'[p] => Listed(p)' \/ at'[p] \in {"pass", "done"}
      /\ result'[p] /= "none" => at'[p] \in {"dequeue", "pass", "done", "swk_lock"}
      /\ at'[p] = "asleep" => waiting'[p]
    BY DEF Postnote, Moves, kept, SemInv, SemTypeOK, FlagInv, ResultInv, Listed, Releasing
<1>6. ASSUME NEW q \in Proc, Sleeping(q)'
      PROVE  \/ value'[addr'[q]] = 0
             \/ /\ Sleeping(q) /\ addr'[q] = addr[q]
                /\ value'[addr[q]] + Coming(p, addr[q])
                      <= value[addr[q]] + Coming(p, addr[q])'
  <2>1. Sleeping(q) /\ Owed(p)' = Owed(p)
      BY <1>6 DEF Postnote, SemInv, SemTypeOK, Sleeping, Owed, Listed
  <2>2. addr[q] \in Addr /\ value[addr[q]] \in Nat /\ Owed(p) \in Nat
      BY <2>1 DEF SemInv, SemTypeOK, Sleeping, Owed
  <2> QED BY <2>1, <2>2 DEF Postnote, kept, Coming
<1> QED BY <1>1, <1>2, <1>3, <1>4, <1>5, <1>6, OnlyMovesInv

LEMMA SemqueueInv ==
    ASSUME SemInv, NEW p \in Proc, Semqueue(p)
    PROVE  SemInv'
<1>1. SemTypeOK'
    BY DEF Semqueue, Moves, kept, SemInv, SemTypeOK, PcSet
<1>2. ListInv'
  <2>1. ~Listed(p) /\ p \notin Range(list)
      BY DEF Semqueue, SemInv, ListInv, Listed
  <2>2. {x \in Proc : Listed(x)}' = {x \in Proc : Listed(x)} \cup {p}
      BY DEF Semqueue, Moves, SemInv, SemTypeOK, Listed
  <2>3. Range(list') = Range(list) \cup {p} /\ NoRepeat(list')
      BY <2>1, AppendRange DEF Semqueue, SemInv, SemTypeOK, ListInv
  <2> QED BY <2>2, <2>3 DEF SemInv, ListInv
<1>3. PermitsConserved'
    BY <1>1, PermitsMove DEF Semqueue, Moves, kept, SemInv, SemTypeOK, Taken, ResultInv, Releasing
<1>4. OnlyMoves(p)
    BY DEF Semqueue, Moves, kept, SemInv, SemTypeOK, OnlyMoves, Walking, Listed
<1>5. /\ waiting'[p] => Listed(p)' \/ at'[p] \in {"pass", "done"}
      /\ result'[p] /= "none" => at'[p] \in {"dequeue", "pass", "done", "swk_lock"}
      /\ at'[p] = "asleep" => waiting'[p]
    BY DEF Semqueue, Moves, kept, SemInv, SemTypeOK, FlagInv, ResultInv, Listed, Releasing
<1>6. ASSUME NEW q \in Proc, Sleeping(q)'
      PROVE  \/ value'[addr'[q]] = 0
             \/ /\ Sleeping(q) /\ addr'[q] = addr[q]
                /\ value'[addr[q]] + Coming(p, addr[q])
                      <= value[addr[q]] + Coming(p, addr[q])'
    BY <1>6 DEF Semqueue, Moves, kept, SemInv, SemTypeOK, Sleeping, Coming, Owed, Listed
<1> QED BY <1>1, <1>2, <1>3, <1>4, <1>5, <1>6, OnlyMovesInv

LEMMA SemdequeueInv ==
    ASSUME SemInv, NEW p \in Proc, Semdequeue(p)
    PROVE  SemInv'
<1>1. SemTypeOK'
  <2>1. PICK k \in DOMAIN list : list[k] = p /\ list' = RemoveAt(list, k)
      BY DEF Semdequeue
  <2>2. list' \in Seq(Proc)
      BY <2>1, RemoveAtRange, LenProperties DEF SemInv, SemTypeOK, ListInv
  <2>3. \A x \in Proc : at[x] /= "swk_wake"
      BY NoWalker DEF Semdequeue
  <2> QED BY <2>2, <2>3 DEF Semdequeue, Moves, kept, SemInv, SemTypeOK, PcSet
<1>2. ListInv'
  <2>1. PICK k \in DOMAIN list : list[k] = p /\ list' = RemoveAt(list, k)
      BY DEF Semdequeue
  <2>2. Range(list') = Range(list) \ {p} /\ NoRepeat(list')
      BY <2>1, RemoveAtRange, LenProperties DEF SemInv, SemTypeOK, ListInv
  <2>3. {x \in Proc : Listed(x)}' = {x \in Proc : Listed(x)} \ {p}
      BY DEF Semdequeue, Moves, SemInv, SemTypeOK, Listed
  <2> QED BY <2>2, <2>3 DEF SemInv, ListInv
<1>3. PermitsConserved'
    BY <1>1, PermitsMove DEF Semdequeue, Moves, kept, SemInv, SemTypeOK, Taken, ResultInv, Releasing
<1>4. OnlyMoves(p)
    BY DEF Semdequeue, Moves, kept, SemInv, SemTypeOK, OnlyMoves, Walking, Listed
<1>5. /\ waiting'[p] => Listed(p)' \/ at'[p] \in {"pass", "done"}
      /\ result'[p] /= "none" => at'[p] \in {"dequeue", "pass", "done", "swk_lock"}
      /\ at'[p] = "asleep" => waiting'[p]
    BY DEF Semdequeue, Moves, kept, SemInv, SemTypeOK, FlagInv, ResultInv, Listed, Releasing
<1>6. ASSUME NEW q \in Proc, Sleeping(q)'
      PROVE  \/ value'[addr'[q]] = 0
             \/ /\ Sleeping(q) /\ addr'[q] = addr[q]
                /\ value'[addr[q]] + Coming(p, addr[q])
                      <= value[addr[q]] + Coming(p, addr[q])'
    BY <1>6, SMTT(30) DEF Semdequeue, Moves, kept, SemInv, SemTypeOK, Sleeping, Coming, Owed, Listed
<1> QED BY <1>1, <1>2, <1>3, <1>4, <1>5, <1>6, OnlyMovesInv

LEMMA DoneInv ==
    ASSUME SemInv, NEW p \in Proc, Done(p)
    PROVE  SemInv'
<1>1. SemTypeOK'
  <2>1. untold' \in [Addr -> Nat]
    <3>1. addr[p] \in Addr /\ untold[addr[p]] + 1 \in Nat
        BY DEF Done, SemInv, SemTypeOK
    <3> QED BY <3>1 DEF Done, SemInv, SemTypeOK
  <2>2. /\ result' = [result EXCEPT ![p] = "none"]
        /\ waiting' = [waiting EXCEPT ![p] = FALSE] /\ n' = [n EXCEPT ![p] = 0]
        /\ addr' = [addr EXCEPT ![p] = NoAddr] /\ mode' = [mode EXCEPT ![p] = "none"]
        /\ at' = [at EXCEPT ![p] = "idle"] /\ UNCHANGED <<value, list, lk, note, cur, held>>
      BY DEF Done, Moves
  <2> QED BY <2>1, <2>2 DEF SemInv, SemTypeOK, PcSet
<1>2. ListInv'
  <2>1. \A x \in Proc : Listed(x)' = Listed(x)
      BY SMTT(30) DEF Done, Moves, Listed, SemInv, SemTypeOK
  <2> QED BY <2>1, ListSame DEF Done, kept
<1>3. PermitsConserved'
  <2>1. \A x \in Proc \ {p} : result'[x] = result[x] /\ addr'[x] = addr[x]
      BY DEF Done, SemInv, SemTypeOK
  <2>2. result'[p] = "none" /\ addr[p] \in Addr
      BY DEF Done, SemInv, SemTypeOK
  <2>3. ASSUME NEW a \in Addr PROVE Taken(p, a)' = Taken(p, a)
    <3>1. held[a] \in Nat /\ untold[a] \in Nat /\ held' = held
        BY DEF Done, SemInv, SemTypeOK
    <3>2. untold'[a] = IF result[p] = "acquired" /\ addr[p] = a THEN untold[a] + 1
                       ELSE untold[a]
        BY <2>2, <3>1 DEF Done, SemInv, SemTypeOK
    <3> QED BY <2>2, <3>1, <3>2 DEF Taken
  <2> QED BY <1>1, <2>1, <2>3, PermitsMove DEF Done
<1>4. OnlyMoves(p)
    BY DEF Done, Moves, kept, SemInv, SemTypeOK, OnlyMoves, Walking, Listed
<1>5. /\ waiting'[p] => Listed(p)' \/ at'[p] \in {"pass", "done"}
      /\ result'[p] /= "none" => at'[p] \in {"dequeue", "pass", "done", "swk_lock"}
      /\ at'[p] = "asleep" => waiting'[p]
    BY DEF Done, Moves, kept, SemInv, SemTypeOK, FlagInv, ResultInv, Listed, Releasing
<1>6. ASSUME NEW q \in Proc, Sleeping(q)'
      PROVE  \/ value'[addr'[q]] = 0
             \/ /\ Sleeping(q) /\ addr'[q] = addr[q]
                /\ value'[addr[q]] + Coming(p, addr[q])
                      <= value[addr[q]] + Coming(p, addr[q])'
    BY <1>6 DEF Done, Moves, kept, SemInv, SemTypeOK, Sleeping, Coming, Owed, Listed
<1> QED BY <1>1, <1>2, <1>3, <1>4, <1>5, <1>6, OnlyMovesInv

LEMMA TryAgainInv ==
    ASSUME SemInv, NEW p \in Proc, TryAgain(p)
    PROVE  SemInv'
<1>1. SemTypeOK'
  <2>1. addr[p] \in Addr /\ value[addr[p]] \in Nat
      BY DEF TryAgain, SemInv, SemTypeOK
  <2>2. value' \in [Addr -> Nat]
    <3>1. CASE canacquire(addr[p]) /\ TakeOne(addr[p])
      <4>1. value[addr[p]] - 1 \in Nat
          BY <2>1, <3>1 DEF canacquire
      <4> QED BY <3>1, <4>1 DEF TakeOne, SemInv, SemTypeOK
    <3> QED BY <3>1 DEF TryAgain, SemInv, SemTypeOK
  <2> QED BY <2>2 DEF TryAgain, Moves, kept, SemInv, SemTypeOK, PcSet
<1>2. ListInv'
  <2>1. \A x \in Proc : Listed(x)' = Listed(x)
      BY SMTT(30) DEF TryAgain, Moves, Listed, SemInv, SemTypeOK
  <2> QED BY <2>1, ListSame DEF TryAgain, kept
<1>3. PermitsConserved'
  <2>1. addr[p] \in Addr /\ result[p] = "none"
      BY DEF TryAgain, SemInv, SemTypeOK, ResultInv, Releasing
  <2>2. \A x \in Proc \ {p} : result'[x] = result[x] /\ addr'[x] = addr[x]
      BY DEF TryAgain, kept, SemInv, SemTypeOK
  <2>3. ASSUME NEW a \in Addr PROVE value'[a] + Taken(p, a)' = value[a] + Taken(p, a)
    <3>1. value[a] \in Nat /\ held[a] \in Nat /\ untold[a] \in Nat
        BY DEF SemInv, SemTypeOK
    <3>2. CASE value' = value /\ result' = result
        BY <3>2 DEF TryAgain, kept, Taken
    <3>3. CASE TakeOne(addr[p]) /\ result' = [result EXCEPT ![p] = "acquired"]
      <4>1. value'[a] = IF addr[p] = a THEN value[a] - 1 ELSE value[a]
          BY <2>1, <3>3 DEF TakeOne, SemInv, SemTypeOK
      <4>2. result'[p] = "acquired" /\ held' = held /\ untold' = untold /\ addr' = addr
          BY <3>3 DEF TryAgain, kept, SemInv, SemTypeOK
      <4> QED BY <2>1, <3>1, <4>1, <4>2 DEF Taken
    <3> QED BY <3>2, <3>3 DEF TryAgain
  <2> QED BY <1>1, <2>2, <2>3, PermitsMove
<1>4. OnlyMoves(p)
    BY DEF TryAgain, Moves, kept, SemInv, SemTypeOK, OnlyMoves, Walking, Listed
<1>5. /\ waiting'[p] => Listed(p)' \/ at'[p] \in {"pass", "done"}
      /\ result'[p] /= "none" => at'[p] \in {"dequeue", "pass", "done", "swk_lock"}
      /\ at'[p] = "asleep" => waiting'[p]
    BY DEF TryAgain, Moves, kept, SemInv, SemTypeOK, FlagInv, ResultInv, Listed, Releasing
<1>6. ASSUME NEW q \in Proc, Sleeping(q)'
      PROVE  \/ value'[addr'[q]] = 0
             \/ /\ Sleeping(q) /\ addr'[q] = addr[q]
                /\ value'[addr[q]] + Coming(p, addr[q])
                      <= value[addr[q]] + Coming(p, addr[q])'
  <2>1. addr[q] \in Addr /\ value[addr[q]] \in Nat /\ addr' = addr
      BY <1>6 DEF TryAgain, Moves, kept, SemInv, SemTypeOK, Sleeping
  <2>2. CASE ~canacquire(addr[p])
    <3>1. addr[p] \in Addr /\ value' = value /\ value[addr[p]] = 0
        BY <2>2 DEF TryAgain, canacquire, SemInv, SemTypeOK
    <3>2. addr[q] /= addr[p] => Sleeping(q)
        BY <1>6, <2>2 DEF TryAgain, Moves, SemInv, SemTypeOK, Sleeping
    <3> QED BY <2>1, <3>1, <3>2 DEF Coming
  <2>3. CASE canacquire(addr[p])
    <3>1. /\ addr[p] \in Addr /\ value[addr[p]] \in Nat /\ value[addr[p]] > 0
          /\ value'[addr[q]] = IF addr[p] = addr[q] THEN value[addr[q]] - 1
                                ELSE value[addr[q]]
        BY <2>1, <2>3 DEF TryAgain, canacquire, TakeOne, SemInv, SemTypeOK
    <3>2. Sleeping(q)
        BY <1>6, <2>3 DEF TryAgain, Moves, SemInv, SemTypeOK, Sleeping
    <3>3. Owed(p) = Owed(p)' + 1 /\ Owed(p)' \in Nat
        BY <2>3 DEF TryAgain, Moves, SemInv, SemTypeOK, Owed, Listed
    <3> QED BY <2>1, <3>1, <3>2, <3>3 DEF Coming
  <2> QED BY <2>2, <2>3
<1> QED BY <1>1, <1>2, <1>3, <1>4, <1>5, <1>6, OnlyMovesInv

LEMMA SemacquireCallInv ==
    ASSUME SemInv, NEW p \in Proc, NEW a \in Addr, NEW how \in {"poll", "block", "timed"},
           SemacquireCall(p, a, how)
    PROVE  SemInv'
<1>1. SemTypeOK'
  <2>1. value[a] \in Nat /\ held[a] \in Nat
      BY DEF SemInv, SemTypeOK
  <2>2. value' \in [Addr -> Nat]
    <3>1. CASE canacquire(a) /\ TakeOne(a)
      <4>1. value[a] - 1 \in Nat
          BY <2>1, <3>1 DEF canacquire
      <4> QED BY <3>1, <4>1 DEF TakeOne, SemInv, SemTypeOK
    <3> QED BY <3>1 DEF SemacquireCall, SemInv, SemTypeOK
  <2>3. held' \in [Addr -> Nat]
    <3>1. held[a] + 1 \in Nat
        BY <2>1
    <3> QED BY <3>1 DEF SemacquireCall, SemInv, SemTypeOK
  <2>4. /\ mode' \in [Proc -> {"none", "block", "timed", "release"}]
        /\ at' \in [Proc -> PcSet]
        /\ addr' \in [Proc -> Addr \cup {NoAddr}]
        /\ \A x \in Proc : at'[x] /= "idle" => addr'[x] \in Addr
    <3>1. CASE UNCHANGED <<addr, mode, at>>
        BY <3>1 DEF SemInv, SemTypeOK
    <3>2. CASE /\ how /= "poll" /\ addr' = [addr EXCEPT ![p] = a]
               /\ mode' = [mode EXCEPT ![p] = how] /\ Moves(p, "queue")
      <4>1. how \in {"block", "timed"}
          BY <3>2
      <4> QED BY <3>2, <4>1 DEF Moves, SemInv, SemTypeOK, PcSet
    <3> QED BY <3>1, <3>2 DEF SemacquireCall
  <2>5. \A x \in Proc : at'[x] = "swk_wake" => at[x] = "swk_wake"
      BY DEF SemacquireCall, Moves, SemInv, SemTypeOK
  <2> QED BY <2>2, <2>3, <2>4, <2>5 DEF SemacquireCall, SemInv, SemTypeOK
<1>2. ListInv'
  <2>1. \A x \in Proc : Listed(x)' = Listed(x)
      BY DEF SemacquireCall, Moves, Listed, SemInv, SemTypeOK
  <2> QED BY <2>1, ListSame DEF SemacquireCall
<1>3. PermitsConserved'
  <2>1. result[p] = "none" /\ result' = result
      BY DEF SemacquireCall, SemInv, SemTypeOK, ResultInv, Releasing
  <2>2. \A x \in Proc \ {p} : addr'[x] = addr[x]
      BY DEF SemacquireCall, SemInv, SemTypeOK
  <2>3. ASSUME NEW b \in Addr PROVE value'[b] + held'[b] = value[b] + held[b]
    <3>1. value[b] \in Nat /\ held[b] \in Nat
        BY DEF SemInv, SemTypeOK
    <3>2. CASE value' = value /\ held' = held
        BY <3>2
    <3>3. CASE TakeOne(a) /\ held' = [held EXCEPT ![a] = @ + 1]
      <4>1. value'[b] = IF b = a THEN value[b] - 1 ELSE value[b]
          BY <3>3 DEF TakeOne, SemInv, SemTypeOK
      <4>2. held'[b] = IF b = a THEN held[b] + 1 ELSE held[b]
          BY <3>1, <3>3 DEF SemInv, SemTypeOK
      <4> QED BY <3>1, <4>1, <4>2
    <3> QED BY <3>2, <3>3 DEF SemacquireCall
  <2>4. ASSUME NEW b \in Addr PROVE value'[b] + Taken(p, b)' = value[b] + Taken(p, b)
    <3>1. /\ held[b] \in Nat /\ held'[b] \in Nat /\ value[b] \in Nat /\ value'[b] \in Nat
          /\ untold[b] \in Nat
        BY <1>1 DEF SemInv, SemTypeOK
    <3>2. untold' = untold
        BY DEF SemacquireCall
    <3> QED BY <2>1, <2>3, <3>1, <3>2 DEF Taken
  <2> QED BY <1>1, <2>1, <2>2, <2>4, PermitsMove
<1>4. OnlyMoves(p)
    BY DEF SemacquireCall, Moves, kept, SemInv, SemTypeOK, OnlyMoves, Walking, Listed
<1>5. /\ waiting'[p] => Listed(p)' \/ at'[p] \in {"pass", "done"}
      /\ result'[p] /= "none" => at'[p] \in {"dequeue", "pass", "done", "swk_lock"}
      /\ at'[p] = "asleep" => waiting'[p]
    BY DEF SemacquireCall, Moves, kept, SemInv, SemTypeOK, FlagInv, ResultInv, Listed, Releasing
<1>6. ASSUME NEW q \in Proc, Sleeping(q)'
      PROVE  \/ value'[addr'[q]] = 0
             \/ /\ Sleeping(q) /\ addr'[q] = addr[q]
                /\ value'[addr[q]] + Coming(p, addr[q])
                      <= value[addr[q]] + Coming(p, addr[q])'
  <2>1. q /= p /\ Sleeping(q) /\ addr'[q] = addr[q]
      BY <1>6 DEF SemacquireCall, Moves, SemInv, SemTypeOK, Sleeping
  <2>2. addr[q] \in Addr /\ value[addr[q]] \in Nat /\ value'[addr[q]] \in Nat
      BY <1>1, <2>1 DEF SemInv, SemTypeOK, Sleeping
  <2>3. value'[addr[q]] <= value[addr[q]]
    <3>1. CASE TakeOne(a)
      <4>1. value'[addr[q]] = IF addr[q] = a THEN value[addr[q]] - 1 ELSE value[addr[q]]
          BY <2>2, <3>1 DEF TakeOne, SemInv, SemTypeOK
      <4> QED BY <2>2, <4>1
    <3>2. CASE value' = value
        BY <2>2, <3>2
    <3> QED BY <3>1, <3>2 DEF SemacquireCall
  <2>4. Owed(p) = 0 /\ Owed(p)' = 0
      BY DEF SemacquireCall, Moves, SemInv, SemTypeOK, FlagInv, Owed, Listed
  <2> QED BY <2>1, <2>2, <2>3, <2>4 DEF Coming
<1> QED BY <1>1, <1>2, <1>3, <1>4, <1>5, <1>6, OnlyMovesInv

LEMMA SemreleaseCallInv ==
    ASSUME SemInv, NEW p \in Proc, NEW a \in Addr,
           NEW u \in 0 .. untold[a], NEW delta \in u .. held[a] + u,
           delta > 0, SemreleaseCall(p, a, delta, u)
    PROVE  SemInv'
<1>0. value[a] \in Nat /\ held[a] \in Nat /\ untold[a] \in Nat
    BY DEF SemInv, SemTypeOK
<1>1. SemTypeOK'
  <2>1. /\ delta \in Nat /\ value[a] + delta \in Nat
        /\ held[a] - (delta - u) \in Nat /\ untold[a] - u \in Nat
      BY <1>0
  <2>2. value' \in [Addr -> Nat]
      BY <2>1 DEF SemreleaseCall, SemInv, SemTypeOK
  <2>3. held' \in [Addr -> Nat] /\ untold' \in [Addr -> Nat]
      BY <2>1 DEF SemreleaseCall, SemInv, SemTypeOK
  <2> QED BY <2>1, <2>2, <2>3 DEF SemreleaseCall, Moves, SemInv, SemTypeOK, PcSet
<1>2. ListInv'
  <2>1. \A x \in Proc : Listed(x)' = Listed(x)
      BY SMTT(30) DEF SemreleaseCall, Moves, Listed, SemInv, SemTypeOK
  <2> QED BY <2>1, ListSame DEF SemreleaseCall
<1>3. PermitsConserved'
  <2>1. result[p] = "none" /\ result' = result
      BY DEF SemreleaseCall, SemInv, SemTypeOK, ResultInv, Releasing
  <2>2. \A x \in Proc \ {p} : addr'[x] = addr[x]
      BY DEF SemreleaseCall, SemInv, SemTypeOK
  <2>3. ASSUME NEW b \in Addr PROVE value'[b] + Taken(p, b)' = value[b] + Taken(p, b)
    <3>1. value[b] \in Nat /\ held[b] \in Nat /\ untold[b] \in Nat /\ delta \in Nat /\ u \in Nat
        BY <1>0 DEF SemInv, SemTypeOK
    <3>2. value'[b] = IF b = a THEN value[b] + delta ELSE value[b]
        BY DEF SemreleaseCall, SemInv, SemTypeOK
    <3>3. held'[b] = IF b = a THEN held[b] - (delta - u) ELSE held[b]
        BY <3>1 DEF SemreleaseCall, SemInv, SemTypeOK
    <3>4. untold'[b] = IF b = a THEN untold[b] - u ELSE untold[b]
        BY <3>1 DEF SemreleaseCall, SemInv, SemTypeOK
    <3>5. value'[b] + held'[b] + untold'[b] = value[b] + held[b] + untold[b]
        BY <3>1, <3>2, <3>3, <3>4
    <3>6. value'[b] \in Nat /\ held'[b] \in Nat /\ untold'[b] \in Nat
        BY <1>1 DEF SemTypeOK
    <3> QED BY <2>1, <3>1, <3>5, <3>6 DEF Taken
  <2> QED BY <1>1, <2>1, <2>2, <2>3, PermitsMove
<1>4. OnlyMoves(p)
    BY DEF SemreleaseCall, Moves, kept, SemInv, SemTypeOK, OnlyMoves, Walking, Listed
<1>5. /\ waiting'[p] => Listed(p)' \/ at'[p] \in {"pass", "done"}
      /\ result'[p] /= "none" => at'[p] \in {"dequeue", "pass", "done", "swk_lock"}
      /\ at'[p] = "asleep" => waiting'[p]
    BY DEF SemreleaseCall, Moves, kept, SemInv, SemTypeOK, FlagInv, ResultInv, Listed, Releasing
<1>6. ASSUME NEW q \in Proc, Sleeping(q)'
      PROVE  \/ value'[addr'[q]] = 0
             \/ /\ Sleeping(q) /\ addr'[q] = addr[q]
                /\ value'[addr[q]] + Coming(p, addr[q])
                      <= value[addr[q]] + Coming(p, addr[q])'
  <2>1. q /= p /\ Sleeping(q) /\ addr'[q] = addr[q] /\ addr'[p] = a
      BY <1>6 DEF SemreleaseCall, Moves, SemInv, SemTypeOK, Sleeping
  <2>2. addr[q] \in Addr /\ value[addr[q]] \in Nat
      BY <2>1 DEF SemInv, SemTypeOK, Sleeping
  <2>3. value'[addr[q]] = IF addr[q] = a THEN value[addr[q]] + delta ELSE value[addr[q]]
      BY <2>2 DEF SemreleaseCall, SemInv, SemTypeOK
  <2>4. Owed(p) = 0 /\ Owed(p)' = delta /\ delta \in Nat
      BY <1>0, SMTT(30) DEF SemreleaseCall, Moves, SemInv, SemTypeOK, FlagInv, Owed, Listed
  <2> QED BY <2>1, <2>2, <2>3, <2>4 DEF Coming
<1> QED BY <1>1, <1>2, <1>3, <1>4, <1>5, <1>6, OnlyMovesInv

-----------------------------------------------------------------------------
(* semwakeup.                                                              *)
LEMMA SemwakeupLockInv ==
    ASSUME SemInv, NEW p \in Proc, SemwakeupLock(p)
    PROVE  SemInv'
<1>1. SemTypeOK'
    BY DEF SemwakeupLock, Moves, kept, SemInv, SemTypeOK, PcSet
<1>2. ListInv'
  <2>1. \A x \in Proc : Listed(x)' = Listed(x)
      BY SMTT(30) DEF SemwakeupLock, Moves, Listed, SemInv, SemTypeOK
  <2> QED BY <2>1, ListSame DEF SemwakeupLock
<1>3. LkInv' /\ FlagInv' /\ WalkInv' /\ ResultInv'
    BY ConstantsAssumption DEF SemwakeupLock, Moves, kept, SemInv, LkInv, FlagInv,
       WalkInv, ResultInv, SemTypeOK, Listed, Releasing
<1>4. ClearedIsWoken'
    BY NoWalker DEF SemwakeupLock, Moves, SemInv, SemTypeOK, ClearedIsWoken
<1>5. PermitsConserved'
    BY <1>1, PermitsMove DEF SemwakeupLock, kept, Taken
<1>6. DueInv'
  <2>1. \A x \in Proc \ {p} :
           /\ addr'[x] = addr[x] /\ at'[x] = at[x] /\ waiting'[x] = waiting[x]
           /\ n'[x] = n[x] /\ cur'[x] = cur[x]
      BY DEF SemwakeupLock, Moves, kept, SemInv, SemTypeOK
  <2>2. ASSUME NEW q \in Proc, Sleeping(q)'
        PROVE  /\ Sleeping(q) /\ addr'[q] = addr[q]
               /\ value'[addr[q]] + Due(q, p) <= value[addr[q]] + Due(q, p)'
    <3>1. Sleeping(q) /\ UNCHANGED <<value, addr, list, n>>
        BY <2>2 DEF SemwakeupLock, Moves, kept, SemInv, SemTypeOK, Sleeping
    <3>2. addr[q] \in Addr /\ value[addr[q]] \in Nat /\ n[p] \in Nat
        BY <3>1 DEF SemInv, SemTypeOK, Sleeping
    <3>3. \E i \in 1 .. Len(list) : list[i] = q
        BY <3>1, InRange DEF SemInv, SemTypeOK, ListInv, Listed, Sleeping
    <3>4. at[p] = "swk_lock" /\ at'[p] = "swk" /\ cur'[p] = 1
        BY DEF SemwakeupLock, Moves, SemInv, SemTypeOK
    <3>5. Due(q, p)' = Due(q, p)
        BY <3>1, <3>3, <3>4 DEF Due, Owed, Ahead
    <3> QED BY <3>1, <3>2, <3>5 DEF Due, Owed
  <2> QED BY <1>1, <1>3, <2>1, <2>2, OneMovesDue DEF SemwakeupLock
<1> QED BY <1>1, <1>2, <1>3, <1>4, <1>5, <1>6 DEF SemInv

LEMMA SemwakeupUnlockInv ==
    ASSUME SemInv, NEW p \in Proc, SemwakeupUnlock(p)
    PROVE  SemInv'
<1>1. SemTypeOK'
    BY DEF SemwakeupUnlock, Moves, kept, SemInv, SemTypeOK, PcSet
<1>2. ListInv'
  <2>1. \A x \in Proc : Listed(x)' = Listed(x)
      BY SMTT(30) DEF SemwakeupUnlock, Moves, Listed, SemInv, SemTypeOK
  <2> QED BY <2>1, ListSame DEF SemwakeupUnlock
<1>3. LkInv' /\ FlagInv' /\ WalkInv' /\ ResultInv'
    BY ConstantsAssumption DEF SemwakeupUnlock, Moves, kept, SemInv, LkInv, FlagInv,
       WalkInv, ResultInv, SemTypeOK, Listed, Releasing
<1>4. ClearedIsWoken'
    BY WalkerAlone DEF SemwakeupUnlock, Moves, SemInv, SemTypeOK, ClearedIsWoken
<1>5. PermitsConserved'
    BY <1>1, PermitsMove DEF SemwakeupUnlock, kept, Taken
<1>6. DueInv'
  <2>1. \A x \in Proc \ {p} :
           /\ addr'[x] = addr[x] /\ at'[x] = at[x] /\ waiting'[x] = waiting[x]
           /\ n'[x] = n[x] /\ cur'[x] = cur[x]
      BY DEF SemwakeupUnlock, Moves, kept, SemInv, SemTypeOK
  <2>2. ASSUME NEW q \in Proc, Sleeping(q)'
        PROVE  /\ Sleeping(q) /\ addr'[q] = addr[q]
               /\ value'[addr[q]] + Due(q, p) <= value[addr[q]] + Due(q, p)'
    <3>1. Sleeping(q) /\ UNCHANGED <<value, addr, list, n>>
        BY <2>2 DEF SemwakeupUnlock, Moves, kept, SemInv, SemTypeOK, Sleeping
    <3>2. addr[q] \in Addr /\ value[addr[q]] \in Nat
        BY <3>1 DEF SemInv, SemTypeOK, Sleeping
    <3>3. /\ at[p] = "swk" /\ at'[p] = "done"
          /\ cur[p] \in Nat /\ Len(list) \in Nat
          /\ cur[p] > Len(list) \/ n[p] = 0
        BY LenProperties DEF SemwakeupUnlock, Moves, SemInv, SemTypeOK
    <3>4. Due(q, p) = 0
        BY <3>3 DEF Due, Ahead
    <3>5. Due(q, p)' = 0
        BY <3>3 DEF Due, Owed, Listed
    <3> QED BY <3>1, <3>2, <3>4, <3>5
  <2> QED BY <1>1, <1>3, <2>1, <2>2, OneMovesDue DEF SemwakeupUnlock
<1> QED BY <1>1, <1>2, <1>3, <1>4, <1>5, <1>6 DEF SemInv

(* Where the walker is, and whom it looks at.                              *)
LEMMA WalkerTarget ==
    ASSUME SemInv, NEW p \in Proc, cur[p] \in 1 .. Len(list)
    PROVE  list[cur[p]] \in Proc /\ Listed(list[cur[p]])
    BY InRange DEF SemInv, SemTypeOK, ListInv

LEMMA SemwakeupSkipInv ==
    ASSUME SemInv, NEW p \in Proc, SemwakeupTurn(p), ~Wanted(p, list[cur[p]])
    PROVE  SemInv'
<1>1. SemTypeOK'
  <2>1. cur[p] + 1 \in Nat /\ at[p] = "swk" /\ at' = at /\ waiting' = waiting
           /\ cur' = [cur EXCEPT ![p] = cur[p] + 1]
      BY DEF SemwakeupTurn, SemInv, SemTypeOK
  <2>2. cur' \in [Proc -> Nat] /\ \A x \in Proc \ {p} : cur'[x] = cur[x]
      BY <2>1 DEF SemInv, SemTypeOK
  <2> QED BY <2>1, <2>2 DEF SemwakeupTurn, kept, SemInv, SemTypeOK
<1>2. ListInv'
    BY ListSame DEF SemwakeupTurn, Listed
<1>3. LkInv' /\ FlagInv' /\ WalkInv' /\ ResultInv'
  <2>1. cur[p] \in Nat /\ cur'[p] = cur[p] + 1 /\ at[p] = "swk"
      BY DEF SemwakeupTurn, SemInv, SemTypeOK
  <2>2. \A x \in Proc \ {p} : cur'[x] = cur[x]
      BY DEF SemwakeupTurn, SemInv, SemTypeOK
  <2> QED BY <2>1, <2>2 DEF SemwakeupTurn, kept, SemInv, LkInv, FlagInv, WalkInv,
          ResultInv, Listed, Releasing
<1>4. ClearedIsWoken'
    BY WalkerAlone DEF SemwakeupTurn, SemInv, SemTypeOK, ClearedIsWoken
<1>5. PermitsConserved'
    BY <1>1, PermitsMove DEF SemwakeupTurn, kept, Taken
<1>6. DueInv'
  <2>1. \A x \in Proc \ {p} :
           /\ addr'[x] = addr[x] /\ at'[x] = at[x] /\ waiting'[x] = waiting[x]
           /\ n'[x] = n[x] /\ cur'[x] = cur[x]
      BY DEF SemwakeupTurn, kept, SemInv, SemTypeOK
  <2>2. ASSUME NEW q \in Proc, Sleeping(q)'
        PROVE  /\ Sleeping(q) /\ addr'[q] = addr[q]
               /\ value'[addr[q]] + Due(q, p) <= value[addr[q]] + Due(q, p)'
    <3>1. Sleeping(q) /\ UNCHANGED <<value, addr, list, n, at>>
        BY <2>2 DEF SemwakeupTurn, kept, Sleeping
    <3>2. addr[q] \in Addr /\ value[addr[q]] \in Nat /\ n[p] \in Nat
        BY <3>1 DEF SemInv, SemTypeOK, Sleeping
    <3>3. at[p] = "swk" /\ cur'[p] = cur[p] + 1 /\ cur[p] \in Nat
        BY DEF SemwakeupTurn, SemInv, SemTypeOK
    <3>4. CASE addr[p] = addr[q]
      <4>1. list[cur[p]] /= q
          BY <3>1, <3>4 DEF Wanted, Sleeping
      <4>2. Ahead(p, cur[p], q) => Ahead(p, cur[p] + 1, q)
        <5>1. ASSUME NEW i \in cur[p] .. Len(list), list[i] = q
              PROVE  i \in cur[p] + 1 .. Len(list)
            BY <3>3, <4>1, <5>1, LenProperties DEF SemInv, SemTypeOK
        <5> QED BY <5>1 DEF Ahead
      <4>3. Due(q, p) = IF Ahead(p, cur[p], q) THEN n[p] ELSE 0
          BY <3>3, <3>4 DEF Due
      <4>4. Due(q, p)' = IF Ahead(p, cur[p] + 1, q) THEN n[p] ELSE 0
          BY <3>1, <3>3, <3>4 DEF Due, Ahead
      <4> QED BY <3>1, <3>2, <4>2, <4>3, <4>4
    <3>5. CASE addr[p] /= addr[q]
        BY <3>1, <3>2, <3>5 DEF Due
    <3> QED BY <3>4, <3>5
  <2> QED BY <1>1, <1>3, <2>1, <2>2, OneMovesDue DEF SemwakeupTurn
<1> QED BY <1>1, <1>2, <1>3, <1>4, <1>5, <1>6 DEF SemInv

(* The unit that p will not give to others is with the process whose flag  *)
(* it has cleared.                                                         *)
LEMMA SemwakeupClearInv ==
    ASSUME SemInv, NEW p \in Proc, SemwakeupTurn(p),
           NEW w, w = list[cur[p]], Wanted(p, w)
    PROVE  SemInv'
<1>1. at[p] = "swk" /\ cur[p] \in 1 .. Len(list) /\ n[p] > 0 /\ n[p] \in Nat
    BY LenProperties DEF SemwakeupTurn, SemInv, SemTypeOK, WalkInv
<1>2. /\ w \in Proc /\ Listed(w) /\ w /= p
      /\ addr[w] = addr[p] /\ waiting[w]
    BY <1>1, WalkerTarget DEF Wanted, Listed
<1>3. /\ UNCHANGED <<value, list, lk, note, result, n, cur, addr, mode, held, untold>>
      /\ waiting' = [waiting EXCEPT ![w] = FALSE]
      /\ at' = [at EXCEPT ![p] = "swk_wake"]
    BY DEF SemwakeupTurn, Moves, kept
<1>4. SemTypeOK'
    BY <1>1, <1>2, <1>3 DEF SemInv, SemTypeOK, PcSet
<1>5. ListInv'
    BY <1>1, <1>3, ListSame, SMTT(30) DEF SemInv, SemTypeOK, Listed
<1>6. LkInv' /\ FlagInv' /\ WalkInv' /\ ResultInv'
  <2>1. LkInv'
      BY <1>1, <1>3 DEF SemInv, SemTypeOK, LkInv
  <2>2. FlagInv'
      BY <1>1, <1>2, <1>3 DEF SemInv, SemTypeOK, FlagInv, Listed
  <2>3. WalkInv'
      BY <1>1, <1>2, <1>3 DEF SemInv, SemTypeOK, WalkInv
  <2>4. ResultInv'
      BY <1>1, <1>3 DEF SemInv, SemTypeOK, ResultInv, Releasing
  <2> QED BY <2>1, <2>2, <2>3, <2>4
<1>7. ClearedIsWoken'
  <2>1. ASSUME NEW x \in Proc, at'[x] = "asleep", ~waiting'[x] PROVE x = w
    <3>1. at[x] = "asleep" /\ (x = w \/ ~waiting[x])
        BY <1>1, <1>2, <1>3, <2>1 DEF SemInv, SemTypeOK
    <3>2. \A y \in Proc : at[y] /= "swk_wake"
        BY <1>1, WalkerAlone
    <3> QED BY <3>1, <3>2 DEF SemInv, ClearedIsWoken
  <2>2. at'[p] = "swk_wake" /\ list'[cur'[p]] = w
      BY <1>3 DEF SemInv, SemTypeOK
  <2> QED BY <2>1, <2>2 DEF ClearedIsWoken
<1>8. PermitsConserved'
    BY <1>3, <1>4, PermitsMove DEF Taken
<1>9. DueInv'
  <2> SUFFICES ASSUME NEW q \in Proc, Sleeping(q)'
               PROVE  value'[addr'[q]] <= SumFunction([x \in Proc |-> Due(q, x)])'
      BY DEF DueInv
  <2> DEFINE f == [x \in Proc |-> Due(q, x)]
             g == [x \in Proc |-> Due(q, x)']
  <2>1. Sleeping(q) /\ q /= w
      BY <1>1, <1>2, <1>3 DEF Sleeping, SemInv, SemTypeOK
  <2>2. f \in [Proc -> Nat]
      BY DueNat DEF SemInv
  <2>3. \A x \in Proc \ {p, w} : Due(q, x)' = Due(q, x)
    <3> SUFFICES ASSUME NEW x \in Proc \ {p, w} PROVE Due(q, x)' = Due(q, x)
        OBVIOUS
    <3>1. addr'[x] = addr[x] /\ at'[x] = at[x] /\ waiting'[x] = waiting[x]
             /\ n'[x] = n[x] /\ cur'[x] = cur[x] /\ addr'[q] = addr[q] /\ list' = list
        BY <1>3 DEF SemInv, SemTypeOK
    <3> QED BY <3>1, DueSame
  <2>4. /\ Due(q, p)' \in Nat /\ Due(q, w)' \in Nat
        /\ Due(q, p) + Due(q, w) <= Due(q, p)' + Due(q, w)'
    <3>1. CASE addr[q] = addr[p]
      <4>1. Owed(w) \in Nat /\ Owed(w)' = Owed(w) + 1
          BY <1>1, <1>2, <1>3, SMTT(30) DEF SemInv, SemTypeOK, Owed, Listed
      <4>2. Due(q, w) = Owed(w) /\ Due(q, w)' = Owed(w)'
          BY <1>1, <1>2, <1>3, <3>1 DEF SemInv, SemTypeOK, Due, Listed
      <4>3. Ahead(p, cur[p], q) <=> Ahead(p, cur[p] + 1, q)
        <5>1. ASSUME NEW i \in cur[p] .. Len(list), list[i] = q
              PROVE  i \in cur[p] + 1 .. Len(list)
            BY <1>1, <2>1, <5>1, LenProperties DEF SemInv, SemTypeOK
        <5>2. cur[p] + 1 .. Len(list) \subseteq cur[p] .. Len(list)
            BY <1>1, LenProperties DEF SemInv, SemTypeOK
        <5> QED BY <5>1, <5>2 DEF Ahead
      <4>4. Due(q, p) = IF Ahead(p, cur[p] + 1, q) THEN n[p] ELSE 0
          BY <1>1, <3>1, <4>3 DEF Due
      <4>5. Due(q, p)' = IF Ahead(p, cur[p] + 1, q) THEN n[p] - 1 ELSE 0
          BY <1>1, <1>3, <3>1 DEF SemInv, SemTypeOK, Due, Ahead
      <4>6. n[p] - 1 \in Nat
          BY <1>1
      <4>7. CASE Ahead(p, cur[p] + 1, q)
        <5>1. Due(q, p) = n[p] /\ Due(q, p)' = n[p] - 1
            BY <4>4, <4>5, <4>7
        <5>2. n[p] + Owed(w) <= (n[p] - 1) + (Owed(w) + 1)
            BY <1>1, <4>1
        <5> QED BY <4>1, <4>2, <4>6, <5>1, <5>2
      <4>8. CASE ~Ahead(p, cur[p] + 1, q)
        <5>1. Due(q, p) = 0 /\ Due(q, p)' = 0
            BY <4>4, <4>5, <4>8
        <5> QED BY <4>1, <4>2, <5>1
      <4> QED BY <4>7, <4>8
    <3>2. CASE addr[q] /= addr[p]
        BY <1>2, <1>3, <3>2 DEF Due
    <3> QED BY <3>1, <3>2
  <2>5. g \in [Proc -> Nat]
    <3>1. ASSUME NEW x \in Proc PROVE Due(q, x)' \in Nat
      <4>1. CASE x \notin {p, w}
        <5>1. Due(q, x)' = Due(q, x)
            BY <2>3, <4>1
        <5> QED BY <2>2, <5>1
      <4> QED BY <2>4, <4>1
    <3> QED BY <3>1
  <2>6. SumFunction(f) <= SumFunction(g)
    <3>1. f[p] + f[w] <= g[p] + g[w]
        BY <1>2, <2>4
    <3>2. \A x \in Proc \ {p, w} : f[x] = g[x]
        BY <2>3
    <3> HIDE DEF f, g
    <3> QED BY <1>2, <2>2, <2>5, <3>1, <3>2, ConstantsAssumption, SumTransfer
  <2>7. value[addr[q]] <= SumFunction(f)
      BY <2>1 DEF SemInv, DueInv
  <2>8. SumFunction(f) \in Nat /\ SumFunction(g) \in Nat
      BY <2>2, <2>5, ConstantsAssumption, SumNat
  <2>9. value[addr[q]] \in Nat
      BY <2>1 DEF SemInv, SemTypeOK, Sleeping
  <2>10. value'[addr'[q]] <= SumFunction(g)
      BY <1>3, <2>6, <2>7, <2>8, <2>9
  <2> QED BY <2>10
<1> QED BY <1>4, <1>5, <1>6, <1>7, <1>8, <1>9 DEF SemInv

LEMMA SemwakeupWakeInv ==
    ASSUME SemInv, NEW p \in Proc, SemwakeupWake(p), NEW w, w = list[cur[p]]
    PROVE  SemInv'
<1>1. at[p] = "swk_wake" /\ cur[p] \in 1 .. Len(list) /\ n[p] > 0 /\ n[p] \in Nat
    BY DEF SemwakeupWake, SemInv, SemTypeOK, WalkInv
<1>2. w \in Proc /\ Listed(w) /\ w /= p
    BY <1>1, WalkerTarget DEF Listed
<1>3. /\ UNCHANGED <<value, list, lk, note, waiting, result, addr, mode, held, untold>>
      /\ at'[p] = "swk" /\ n'[p] = n[p] - 1 /\ cur'[p] = cur[p] + 1
      /\ at'[w] = IF at[w] = "asleep" THEN "woken" ELSE at[w]
      /\ \A x \in Proc \ {p} : n'[x] = n[x] /\ cur'[x] = cur[x]
      /\ \A x \in Proc \ {p, w} : at'[x] = at[x]
    BY <1>2 DEF SemwakeupWake, kept, SemInv, SemTypeOK
<1>4. SemTypeOK'
  <2>1. n[p] - 1 \in Nat /\ cur[p] + 1 \in Nat
      BY <1>1 DEF SemInv, SemTypeOK
  <2>2. at' \in [Proc -> PcSet]
      BY DEF SemwakeupWake, SemInv, SemTypeOK, PcSet
  <2>3. n' \in [Proc -> Nat] /\ cur' \in [Proc -> Nat]
      BY <2>1 DEF SemwakeupWake, SemInv, SemTypeOK
  <2> QED BY <1>1, <1>2, <1>3, <2>2, <2>3 DEF SemInv, SemTypeOK, Listed
<1>5. ListInv'
  <2>1. \A x \in Proc : Listed(x)' = Listed(x)
      BY <1>1, <1>2, <1>3 DEF Listed
  <2> QED BY <1>3, <2>1, ListSame
<1>6. LkInv' /\ FlagInv' /\ WalkInv' /\ ResultInv'
  <2>1. LkInv'
      BY <1>1, <1>2, <1>3 DEF SemInv, LkInv, Listed
  <2>2. FlagInv'
      BY <1>1, <1>2, <1>3 DEF SemInv, FlagInv, Listed
  <2>3. WalkInv'
      BY <1>1, <1>2, <1>3 DEF SemInv, WalkInv, Listed
  <2>4. ResultInv'
      BY <1>1, <1>2, <1>3 DEF SemInv, ResultInv, Releasing, Listed
  <2> QED BY <2>1, <2>2, <2>3, <2>4
<1>7. ClearedIsWoken'
  <2>1. ASSUME NEW x \in Proc, at'[x] = "asleep", ~waiting'[x] PROVE FALSE
    <3>1. at[x] = "asleep" /\ ~waiting[x] /\ x /= w
        BY <1>1, <1>2, <1>3, <2>1
    <3>2. \A y \in Proc \ {p} : at[y] /= "swk_wake"
        BY <1>1, WalkerAlone
    <3> QED BY <3>1, <3>2 DEF SemInv, ClearedIsWoken
  <2> QED BY <2>1 DEF ClearedIsWoken
<1>8. PermitsConserved'
    BY <1>3, <1>4, PermitsMove DEF Taken
<1>9. DueInv'
  <2> SUFFICES ASSUME NEW q \in Proc, Sleeping(q)'
               PROVE  value'[addr'[q]] <= SumFunction([x \in Proc |-> Due(q, x)])'
      BY DEF DueInv
  <2>1. Sleeping(q)
      BY <1>1, <1>2, <1>3 DEF Sleeping, SemInv, SemTypeOK
  <2>2. Due(q, p)' = Due(q, p)
    <3>1. Due(q, p) = IF addr[p] /= addr[q] THEN 0
                      ELSE IF Ahead(p, cur[p] + 1, q) THEN n[p] - 1 ELSE 0
        BY <1>1 DEF Due
    <3>2. Due(q, p)' = IF addr[p] /= addr[q] THEN 0
                       ELSE IF Ahead(p, cur[p] + 1, q) THEN n[p] - 1 ELSE 0
        BY <1>1, <1>3 DEF Due, Ahead
    <3> QED BY <3>1, <3>2
  <2>3. Due(q, w)' = Due(q, w)
    <3>1. Owed(w)' = Owed(w)
        BY <1>2, <1>3 DEF Owed, Listed
    <3> QED BY <1>2, <1>3, <3>1 DEF Due, Listed
  <2>4. ASSUME NEW x \in Proc \ {p, w} PROVE Due(q, x)' = Due(q, x)
      BY <1>3, DueSame
  <2>5. \A x \in Proc : Due(q, x) \in Nat
    <3>1. [x \in Proc |-> Due(q, x)] \in [Proc -> Nat]
        BY DueNat DEF SemInv
    <3> QED BY <3>1
  <2>6. ASSUME NEW x \in Proc \ {p} PROVE Due(q, x) <= Due(q, x)'
      BY <2>3, <2>4, <2>5
  <2>7. value'[addr[q]] + Due(q, p) <= value[addr[q]] + Due(q, p)'
    <3>1. value[addr[q]] \in Nat
        BY <2>1 DEF SemInv, SemTypeOK, Sleeping
    <3> QED BY <1>3, <2>2, <2>5, <3>1
  <2> QED BY <1>3, <1>4, <1>6, <2>1, <2>6, <2>7, DueStep
<1> QED BY <1>4, <1>5, <1>6, <1>7, <1>8, <1>9 DEF SemInv

-----------------------------------------------------------------------------
LEMMA SemInitInv == SemInit => SemInv
<1> SUFFICES ASSUME SemInit PROVE SemInv
    OBVIOUS
<1>1. SemTypeOK
    BY ConstantsAssumption DEF SemInit, SemTypeOK, PcSet
<1>2. ListInv
  <2>1. Range(list) = {} /\ NoRepeat(list)
      BY DEF SemInit, NoRepeat, Range
  <2> QED BY <2>1 DEF SemInit, ListInv, Listed
<1>3. /\ LkInv /\ FlagInv /\ WalkInv /\ ResultInv
      /\ ClearedIsWoken /\ DueInv
    BY ConstantsAssumption DEF SemInit, LkInv, FlagInv, WalkInv, ResultInv,
       ClearedIsWoken, DueInv, Sleeping
<1>4. PermitsConserved
  <2> SUFFICES ASSUME NEW a \in Addr
               PROVE  value[a] + held[a] + untold[a] + Cardinality(Acquired(a)) = Permits[a]
      BY <1>1 DEF PermitsConserved, Acquired
  <2>3. held[a] = 0 /\ untold[a] = 0
      BY DEF SemInit
  <2>4. Acquired(a) = {}
      BY DEF SemInit, Acquired
  <2>5. value[a] = Permits[a] /\ Permits[a] \in Nat
      BY ConstantsAssumption DEF SemInit
  <2> QED BY <2>3, <2>4, <2>5, FS_EmptySet
<1> QED BY <1>1, <1>2, <1>3, <1>4 DEF SemInv

LEMMA SemStepInv == SemInv /\ [SemNext]_semvars => SemInv'
<1> SUFFICES ASSUME SemInv, [SemNext]_semvars PROVE SemInv'
    OBVIOUS
<1>1. ASSUME NEW p \in Proc, Step(p) PROVE SemInv'
  <2>1. CASE SemwakeupTurn(p)
    <3>1. Wanted(p, list[cur[p]]) => SemInv'
        BY <2>1, SemwakeupClearInv
    <3> QED BY <2>1, <3>1, SemwakeupSkipInv
  <2> QED BY <1>1, <2>1, SemqueueInv, SetWaitingInv, TryAgainInv, SemSleepInv,
          SemSleepReturnInv, SemdequeueInv, PassOnInv, DoneInv, SemwakeupLockInv,
          SemwakeupWakeInv, SemwakeupUnlockInv DEF Step
<1>2. CASE UNCHANGED semvars
  <2>1. SemTypeOK'
      BY <1>2 DEF semvars, SemInv, SemTypeOK
  <2>2. ListInv'
      BY <1>2, ListSame DEF semvars, Listed
  <2>3. LkInv' /\ FlagInv' /\ WalkInv' /\ ResultInv' /\ ClearedIsWoken'
      BY <1>2 DEF semvars, SemInv, LkInv, FlagInv, WalkInv, ResultInv, ClearedIsWoken,
         Listed, Releasing
  <2>4. PermitsConserved'
      BY <1>2, <2>1 DEF semvars, SemInv, PermitsConserved
  <2>5. DueInv'
      BY <1>2 DEF semvars, SemInv, DueInv, Due, Owed, Ahead, Listed, Sleeping
  <2> QED BY <2>1, <2>2, <2>3, <2>4, <2>5 DEF SemInv
<1>3. ASSUME NEW p \in Proc, NEW call \in Calls[p], SemacquireCall(p, call[1], call[2])
      PROVE  SemInv'
  <2>1. call \in Addr \X {"poll", "block", "timed"}
      BY ConstantsAssumption
  <2>2. call[1] \in Addr /\ call[2] \in {"poll", "block", "timed"}
      BY <2>1
  <2> QED BY <1>3, <2>2, SemacquireCallInv
<1> QED BY <1>1, <1>2, <1>3, PostnoteInv, TwakeupInv, SemreleaseCallInv DEF SemNext

LEMMA SemSpecInv == SemSpec => []SemInv
    BY SemInitInv, SemStepInv, PTL DEF SemSpec

-----------------------------------------------------------------------------
(* No unit of a semaphore is created or lost, and its value never goes     *)
(* below zero, whatever the notes, timeouts and releases that cross: a     *)
(* unit that was taken is one that some call returned with, whether it     *)
(* said so or not, and can be released.                                    *)
THEOREM SemaPermitsConserved == SemSpec => []PermitsConserved
<1>1. SemInv => PermitsConserved
    BY DEF SemInv
<1> QED BY <1>1, SemSpecInv, PTL

(* A process whose flag was cleared does not stay asleep: the releaser is  *)
(* about to wake it.                                                       *)
THEOREM SemaClearedIsWoken == SemSpec => []ClearedIsWoken
<1>1. SemInv => ClearedIsWoken
    BY DEF SemInv
<1> QED BY <1>1, SemSpecInv, PTL

(* The three races that syssema.c describes cost no wakeup: while somebody *)
(* sleeps on a semaphore that is free, a wakeup for it is on its way.      *)
THEOREM SemaNoMissedWakeup == SemSpec => []NoMissedWakeup
<1>1. ASSUME SemInv PROVE NoMissedWakeup
  <2> SUFFICES ASSUME NEW p \in Proc, at[p] = "asleep", waiting[p], value[addr[p]] > 0
               PROVE  \E q \in Proc : Active(q, addr[p])
      BY DEF NoMissedWakeup
  <2> DEFINE f == [x \in Proc |-> Due(p, x)]
  <2>1. f \in [Proc -> Nat]
      BY <1>1, DueNat DEF SemInv
  <2>2. value[addr[p]] \in Nat /\ value[addr[p]] <= SumFunction(f)
      BY <1>1 DEF SemInv, SemTypeOK, DueInv, Sleeping
  <2>3. \E x \in Proc : f[x] > 0
    <3> HIDE DEF f
    <3>1. SumFunction(f) > 0
        BY <2>1, <2>2, ConstantsAssumption, SumNat
    <3> QED BY <2>1, <3>1, ConstantsAssumption, SumPositive
  <2>4. PICK x \in Proc : Due(p, x) > 0
      BY <2>3
  <2>5. addr[x] = addr[p]
      BY <2>4 DEF Due
  <2>6. CASE at[x] = "asleep"
    <3>1. ~waiting[x]
        BY <2>4, <2>6 DEF Due, Owed
    <3>2. PICK q \in Proc : at[q] = "swk_wake" /\ list[cur[q]] = x
        BY <1>1, <2>6, <3>1 DEF SemInv, ClearedIsWoken
    <3>3. addr[q] = addr[x]
        BY <1>1, <3>2 DEF SemInv, WalkInv
    <3> QED BY <2>5, <3>2, <3>3 DEF Active
  <2>7. CASE at[x] /= "asleep"
      BY <2>4, <2>5, <2>7 DEF Due, Owed, Active, Listed
  <2> QED BY <2>6, <2>7
<1> QED BY <1>1, SemSpecInv, PTL
=============================================================================
