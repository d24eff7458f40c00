----------------------------- MODULE Rendezvous -----------------------------
(***************************************************************************)
(* The rendezvous system call (kernel/processes/sysproc.c) against notes   *)
(* that pull a process out of it (postnote, proc.c), rfork(RFREND), which  *)
(* gives the process another group, and exit.                              *)
(*                                                                         *)
(* The group has a Lock.  postnote finds the group through the process,    *)
(* p->rgrp, once to lock it and once more to unlock it, after it has made  *)
(* the process ready.  What keeps p->rgrp from changing in between is      *)
(* another lock: whoever posts a note to a user process holds its p->debug,*)
(* and a process with a note needs that lock on its way out of the kernel  *)
(* (notify) and when it exits.                                             *)
(*                                                                         *)
(* What happens under a Lock or under p->debug without waiting is one      *)
(* action.  Processes here do not use sleep, so the first half of postnote *)
(* does nothing (Sleep.tla), and notes are NUser: they do not kill.        *)
(***************************************************************************)
EXTENDS Naturals, FiniteSets

CONSTANTS Proc, Poster, Tag, Group,
          Noted,        \* the processes that get notes
          Leaver,       \* those that change their group and exit; never the
                        \* first process, whose exit is a panic
          NNOTE,        \* how many notes a process can have queued
          FirstGroup,   \* the group of all processes at the start
          Interrupted,  \* ~0, what an interrupted rendezvous returns
          Nobody, NoGroup, NoTag, NoVal

ASSUME RendezvousAssumption ==
    /\ Proc \cap Poster = {} /\ Nobody \notin Proc \cup Poster
    /\ Noted \subseteq Proc /\ Leaver \subseteq Proc /\ Leaver /= Proc
    /\ FirstGroup \in Group /\ NoGroup \notin Group
    /\ NNOTE \in Nat \ {0}
    /\ NoVal \notin Proc \cup {Interrupted}
    /\ {"idle", "waiting"} \cap (Proc \cup {Interrupted}) = {}

VARIABLES
    pc,          \* [Proc \cup Poster -> where it is]
    state,       \* [Proc -> p->state]
    rgrp,        \* [Proc -> p->rgrp]
    old,         \* [Proc -> the group rfork is leaving]
    lk,          \* [Group -> who holds its Lock]
    chain,       \* [Group -> the processes in its rendhash]
    rendtag,     \* [Proc -> p->rendtag]
    rendval,     \* [Proc -> p->rendval]
    val,         \* [Proc -> the result of the call, once it has one]
    partner,     \* [Proc -> the process it has met and will make ready]
    debug,       \* [Proc -> who holds p->debug]
    nnote,       \* [Proc -> p->nnote]
    notified,    \* [Proc -> p->notified]
    on           \* [Poster -> the process it posts to]

vars == <<pc, state, rgrp, old, lk, chain, rendtag, rendval, val, partner,
          debug, nnote, notified, on>>
groups == <<rgrp, old>>
notes == <<debug, nnote, notified, on>>
rend == <<rendtag, rendval>>

TypeOK ==
    /\ pc \in [Proc \cup Poster -> {"user", "rlock", "spin", "sched", "off", "ret",
                  "close", "exit", "dead", "idle", "check", "lock", "unlock", "out"}]
    /\ state \in [Proc -> {"Running", "Rendezvous", "Ready", "Dead"}]
    /\ rgrp \in [Proc -> Group \cup {NoGroup}]
    /\ old \in [Proc -> Group \cup {NoGroup}]
    /\ lk \in [Group -> Proc \cup Poster \cup {Nobody}]
    /\ chain \in [Group -> SUBSET Proc]
    /\ rendtag \in [Proc -> Tag \cup {NoTag}]
    /\ rendval \in [Proc -> Proc \cup {Interrupted}]
    /\ val \in [Proc -> Proc \cup {Interrupted, NoVal}]
    /\ partner \in [Proc -> Proc \cup {Nobody}]
    /\ debug \in [Proc -> Poster \cup {Nobody}]
    /\ nnote \in [Proc -> 0 .. NNOTE]
    /\ notified \in [Proc -> BOOLEAN]
    /\ on \in [Poster -> Proc \cup {Nobody}]

Init ==
    /\ pc = [x \in Proc \cup Poster |-> IF x \in Proc THEN "user" ELSE "idle"]
    /\ state = [p \in Proc |-> "Running"]
    /\ rgrp = [p \in Proc |-> FirstGroup]
    /\ old = [p \in Proc |-> NoGroup]
    /\ lk = [g \in Group |-> Nobody]
    /\ chain = [g \in Group |-> {}]
    /\ rendtag = [p \in Proc |-> NoTag]
    /\ rendval = [p \in Proc |-> Interrupted]
    /\ val = [p \in Proc |-> NoVal]
    /\ partner = [p \in Proc |-> Nobody]
    /\ debug = [p \in Proc |-> Nobody]
    /\ nnote = [p \in Proc |-> 0]
    /\ notified = [p \in Proc |-> FALSE]
    /\ on = [a \in Poster |-> Nobody]

Goto(x, to) == pc' = [pc EXCEPT ![x] = to]

-----------------------------------------------------------------------------
(* sysrendezvous(tag, value); the value of p is p.                         *)
Sysrendezvous(p, tag) ==
    /\ pc[p] = "user"
    /\ rendval' = [rendval EXCEPT ![p] = Interrupted]
    /\ rendtag' = [rendtag EXCEPT ![p] = tag]
    /\ Goto(p, "rlock")
    /\ UNCHANGED <<state, groups, lk, chain, val, partner, notes>>

MatchesOffCpu(p) ==
    {q \in chain[rgrp[p]] : rendtag[q] = rendtag[p] /\ pc[q] = "off"}

Matches(p) == {q \in chain[rgrp[p]] : rendtag[q] = rendtag[p]}

(* lock(up->rgrp).  Somebody waits with this tag: exchange the values and  *)
(* keep the Lock while the other one is still on its processor.            *)
Meet(p) ==
    /\ pc[p] = "rlock"
    /\ lk[rgrp[p]] = Nobody
    /\ \E q \in Matches(p) :
          /\ chain' = [chain EXCEPT ![rgrp[p]] = @ \ {q}]
          /\ val' = [val EXCEPT ![p] = rendval[q]]
          /\ rendval' = [rendval EXCEPT ![q] = p]
          /\ partner' = [partner EXCEPT ![p] = q]
    /\ lk' = [lk EXCEPT ![rgrp[p]] = p]
    /\ Goto(p, "spin")
    /\ UNCHANGED <<state, groups, rendtag, notes>>

MeetReadyForgotten(p) ==
    /\ pc[p] = "spin"
    /\ pc[partner[p]] = "off"
    /\ partner' = [partner EXCEPT ![p] = Nobody]
    /\ lk' = [lk EXCEPT ![rgrp[p]] = Nobody]
    /\ Goto(p, "ret")
    /\ UNCHANGED <<state, groups, chain, rend, val, notes>>

(* while(p->cpu != 0); ready(p); unlock(up->rgrp)                          *)
MeetReady(p) ==
    /\ pc[p] = "spin"
    /\ pc[partner[p]] = "off"
    /\ state' = [state EXCEPT ![partner[p]] = "Ready"]
    /\ partner' = [partner EXCEPT ![p] = Nobody]
    /\ lk' = [lk EXCEPT ![rgrp[p]] = Nobody]
    /\ Goto(p, "ret")
    /\ UNCHANGED <<groups, chain, rend, val, notes>>

(* Nobody does: wait.  After unlock(up->rgrp) the process still runs.      *)
Wait(p) ==
    /\ pc[p] = "rlock"
    /\ lk[rgrp[p]] = Nobody
    /\ Matches(p) = {}
    /\ rendval' = [rendval EXCEPT ![p] = p]
    /\ chain' = [chain EXCEPT ![rgrp[p]] = @ \cup {p}]
    /\ state' = [state EXCEPT ![p] = "Rendezvous"]
    /\ Goto(p, "sched")
    /\ UNCHANGED <<groups, lk, rendtag, val, partner, notes>>

Sched(p) ==
    /\ pc[p] = "sched"
    /\ Goto(p, "off")
    /\ UNCHANGED <<state, groups, lk, chain, rend, val, partner, notes>>

Resume(p) ==
    /\ pc[p] = "off"
    /\ state[p] = "Ready"
    /\ state' = [state EXCEPT ![p] = "Running"]
    /\ val' = [val EXCEPT ![p] = rendval[p]]
    /\ Goto(p, "ret")
    /\ UNCHANGED <<groups, lk, chain, rend, partner, notes>>

-----------------------------------------------------------------------------
(* What the call leaves in the Proc is not read again before it is set.    *)
Forget(p) ==
    /\ val' = [val EXCEPT ![p] = NoVal]
    /\ rendval' = [rendval EXCEPT ![p] = Interrupted]
    /\ rendtag' = [rendtag EXCEPT ![p] = NoTag]

(* The end of a system call (not of rfork): notify, if there are notes.    *)
NotifyUnlocked(p) ==
    /\ pc[p] = "ret"
    /\ nnote' = [nnote EXCEPT ![p] = IF notified[p] \/ @ = 0 THEN @ ELSE @ - 1]
    /\ notified' = [notified EXCEPT ![p] = @ \/ nnote[p] > 0]
    /\ Forget(p)
    /\ Goto(p, "user")
    /\ UNCHANGED <<state, groups, lk, chain, partner, debug, on>>

Notify(p) ==
    /\ pc[p] = "ret"
    /\ nnote[p] > 0 => debug[p] = Nobody
    /\ nnote' = [nnote EXCEPT ![p] = IF notified[p] \/ @ = 0 THEN @ ELSE @ - 1]
    /\ notified' = [notified EXCEPT ![p] = @ \/ nnote[p] > 0]
    /\ Forget(p)
    /\ Goto(p, "user")
    /\ UNCHANGED <<state, groups, lk, chain, partner, debug, on>>

(* The noted system call, at the end of the handler.                       *)
SysNoted(p) ==
    /\ pc[p] = "user"
    /\ notified[p]
    /\ debug[p] = Nobody
    /\ notified' = [notified EXCEPT ![p] = FALSE]
    /\ Goto(p, "ret")
    /\ UNCHANGED <<state, groups, lk, chain, rend, val, partner, debug, nnote, on>>

(* rfork(RFREND): a group that nobody has, and decref of the old one, which *)
(* takes the Lock that the group shares with its reference count.          *)
Fresh(g) == \A p \in Proc : g \notin {rgrp[p], old[p]}

RforkRend(p, g) ==
    /\ pc[p] = "user"
    /\ Fresh(g)
    /\ rgrp' = [rgrp EXCEPT ![p] = g]
    /\ old' = [old EXCEPT ![p] = rgrp[p]]
    /\ lk' = [lk EXCEPT ![g] = Nobody]
    /\ chain' = [chain EXCEPT ![g] = {}]
    /\ Goto(p, "close")
    /\ UNCHANGED <<state, rend, val, partner, notes>>

Closergrp(p, to) ==
    /\ lk[old[p]] = Nobody
    /\ old' = [old EXCEPT ![p] = NoGroup]
    /\ Goto(p, to)

RforkClose(p) ==
    /\ pc[p] = "close" /\ state[p] = "Running"
    /\ Closergrp(p, "user")
    /\ UNCHANGED <<state, rgrp, lk, chain, rend, val, partner, notes>>

(* pexit: the group is gone under p->debug, and decref'd after that.       *)
Pexit(p) ==
    /\ pc[p] = "user"
    /\ debug[p] = Nobody
    /\ old' = [old EXCEPT ![p] = rgrp[p]]
    /\ rgrp' = [rgrp EXCEPT ![p] = NoGroup]
    /\ state' = [state EXCEPT ![p] = "Dead"]
    /\ Goto(p, "close")
    /\ UNCHANGED <<lk, chain, rend, val, partner, notes>>

PexitClose(p) ==
    /\ pc[p] = "close" /\ state[p] = "Dead"
    /\ Closergrp(p, "exit")
    /\ UNCHANGED <<state, rgrp, lk, chain, rend, val, partner, notes>>

(* "release debuggers", and the last sched() of the process                *)
PexitSched(p) ==
    /\ pc[p] = "exit"
    /\ debug[p] = Nobody
    /\ Goto(p, "dead")
    /\ UNCHANGED <<state, groups, lk, chain, rend, val, partner, notes>>

(* rfork(RFPROC) of q makes a new process in the group of q, with the      *)
(* notes of q.  With RFREND too the group is a new one: as if the first    *)
(* thing that the process does were RforkRend.                             *)
RforkProc(q, p) ==
    /\ pc[q] = "user" /\ pc[p] = "dead"
    /\ lk[rgrp[q]] = Nobody
    /\ rgrp' = [rgrp EXCEPT ![p] = rgrp[q]]
    /\ state' = [state EXCEPT ![p] = "Running"]
    /\ nnote' = [nnote EXCEPT ![p] = nnote[q]]
    /\ notified' = [notified EXCEPT ![p] = FALSE]
    /\ Goto(p, "user")
    /\ UNCHANGED <<old, lk, chain, rend, val, partner, debug, on>>

-----------------------------------------------------------------------------
(* postnote, called with p->debug held.  A note that does not fit is lost, *)
(* but the process is interrupted all the same.                            *)
Postnote(a, p) ==
    /\ pc[a] = "idle"
    /\ debug[p] = Nobody /\ pc[p] /= "dead"
    /\ debug' = [debug EXCEPT ![p] = a]
    /\ nnote' = [nnote EXCEPT ![p] = IF @ < NNOTE THEN @ + 1 ELSE @]
    /\ on' = [on EXCEPT ![a] = p]
    /\ Goto(a, "check")
    /\ UNCHANGED <<state, groups, lk, chain, rend, val, partner, notified>>

(* if(p->state != Rendezvous) return, without a lock                       *)
PostnoteCheck(a) ==
    /\ pc[a] = "check"
    /\ Goto(a, IF state[on[a]] = "Rendezvous" THEN "lock" ELSE "out")
    /\ UNCHANGED <<state, groups, lk, chain, rend, val, partner, notes>>

PostnotePullOutUnchecked(a) ==
    LET p == on[a] IN
    /\ pc[a] = "lock"
    /\ lk[rgrp[p]] = Nobody
    /\ lk' = [lk EXCEPT ![rgrp[p]] = a]
    /\ rendval' = [rendval EXCEPT ![p] = Interrupted]
    /\ chain' = [chain EXCEPT ![rgrp[p]] = @ \ {p}]
    /\ state' = [state EXCEPT ![p] = "Ready"]
    /\ Goto(a, "unlock")
    /\ UNCHANGED <<groups, rendtag, val, partner, notes>>

PostnotePullOutKeeps(a) ==
    LET p == on[a] IN
    /\ pc[a] = "lock"
    /\ lk[rgrp[p]] = Nobody
    /\ lk' = [lk EXCEPT ![rgrp[p]] = a]
    /\ \/ /\ state[p] = "Rendezvous"
          /\ rendval' = [rendval EXCEPT ![p] = Interrupted]
          /\ state' = [state EXCEPT ![p] = "Ready"]
       \/ /\ state[p] /= "Rendezvous"
          /\ UNCHANGED <<rendval, state>>
    /\ Goto(a, "unlock")
    /\ UNCHANGED <<groups, chain, rendtag, val, partner, notes>>

(* "Try and pull out of a rendezvous": lock(p->rgrp) and look again.       *)
PostnotePullOut(a) ==
    LET p == on[a] IN
    /\ pc[a] = "lock"
    /\ lk[rgrp[p]] = Nobody
    /\ lk' = [lk EXCEPT ![rgrp[p]] = a]
    /\ \/ /\ state[p] = "Rendezvous"
          /\ rendval' = [rendval EXCEPT ![p] = Interrupted]
          /\ chain' = [chain EXCEPT ![rgrp[p]] = @ \ {p}]
          /\ state' = [state EXCEPT ![p] = "Ready"]
       \/ /\ state[p] /= "Rendezvous"
          /\ UNCHANGED <<rendval, chain, state>>
    /\ Goto(a, "unlock")
    /\ UNCHANGED <<groups, rendtag, val, partner, notes>>

(* unlock(p->rgrp), whatever p->rgrp is now                                *)
PostnoteUnlock(a) ==
    /\ pc[a] = "unlock"
    /\ lk' = [lk EXCEPT ![rgrp[on[a]]] = Nobody]
    /\ Goto(a, "out")
    /\ UNCHANGED <<state, groups, chain, rend, val, partner, notes>>

(* The caller of postnote releases p->debug.                               *)
PostnoteOut(a) ==
    /\ pc[a] = "out"
    /\ debug' = [debug EXCEPT ![on[a]] = Nobody]
    /\ on' = [on EXCEPT ![a] = Nobody]
    /\ Goto(a, "idle")
    /\ UNCHANGED <<state, groups, lk, chain, rend, val, partner, nnote, notified>>

-----------------------------------------------------------------------------
Step(p) ==
    \/ Meet(p) \/ MeetReady(p) \/ Wait(p) \/ Sched(p) \/ Resume(p)
    \/ Notify(p) \/ RforkClose(p) \/ PexitClose(p) \/ PexitSched(p)

PosterStep(a) ==
    PostnoteCheck(a) \/ PostnotePullOut(a) \/ PostnoteUnlock(a) \/ PostnoteOut(a)

Next ==
    \/ \E p \in Proc :
          \/ Step(p) \/ SysNoted(p)
          \/ \E t \in Tag : Sysrendezvous(p, t)
    \/ \E p \in Leaver :
          \/ Pexit(p)
          \/ \E g \in Group : RforkRend(p, g)
          \/ \E q \in Proc : RforkProc(q, p)
    \/ \E a \in Poster : PosterStep(a) \/ \E p \in Noted : Postnote(a, p)

Spec == Init /\ [][Next]_vars

(* Everybody inside the kernel keeps executing, and gets a lock that is    *)
(* free over and over.  Nobody has to make a system call or post a note.   *)
FairSpec ==
    /\ Spec
    /\ \A p \in Proc : SF_vars(Step(p))
    /\ \A a \in Poster : SF_vars(PosterStep(a))

-----------------------------------------------------------------------------
(* Two processes that wait with the same tag in the same group would wait  *)
(* for each other for ever: the second to arrive must have met the first.  *)
NobodyMissed ==
    \A g \in Group : \A p, q \in chain[g] : p /= q => rendtag[p] /= rendtag[q]

(* The hash chains hold exactly the processes that wait and have not been  *)
(* met, each in the group it has now: otherwise a process is made ready    *)
(* twice, or met after it was interrupted.  No more than NNOTE notes are   *)
(* queued, and all variables have their types (TypeOK).                    *)
ChainIsWaiting ==
    /\ TypeOK
    /\ \A g \in Group : \A p \in chain[g] :
          state[p] = "Rendezvous" /\ rgrp[p] = g
    /\ \A p \in Proc : state[p] = "Rendezvous" =>
          p \in chain[rgrp[p]] \/ \E q \in Proc : partner[q] = p

(* postnote dereferences p->rgrp twice after it let go of p: it must find  *)
(* a group to lock, and unlock the one it locked.  unlock() says of        *)
(* anything else "up changed" or "not locked" (taslock.c).                 *)
UnlocksItsLock ==
    \A a \in Poster :
        /\ pc[a] = "lock" => rgrp[on[a]] \in Group
        /\ pc[a] = "unlock" => rgrp[on[a]] \in Group /\ lk[rgrp[on[a]]] = a

(* Every behaviour is one of Exchange: the values are exchanged in one     *)
(* moment, and no note takes back what a process has got.                  *)
Call(p) ==
    IF pc[p] \in {"sched", "off"}
    THEN IF p \in chain[rgrp[p]] THEN "waiting" ELSE rendval[p]
    ELSE IF val[p] /= NoVal THEN val[p] ELSE "idle"

Abstract == INSTANCE Exchange WITH call <- [p \in Proc |-> Call(p)]

ImplementsExchange == Abstract!Spec

(* Nobody is stuck in the kernel, on a Lock, on p->debug or after it was   *)
(* met or interrupted: the only endless wait is the one for a partner.     *)
Waits(p) == \E g \in Group : p \in chain[g]

NobodyStuck == \A p \in Proc : []<>(pc[p] \in {"user", "dead"} \/ Waits(p))
=============================================================================
