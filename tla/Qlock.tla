------------------------------- MODULE Qlock -------------------------------
(***************************************************************************)
(* The queueing lock of the kernel: QLock, kernel/concurrency/qlock.c.     *)
(*                                                                         *)
(* The fields of a QLock (locked, the list head..tail) are protected by a  *)
(* spin lock q->use.  A process that finds the lock taken appends itself   *)
(* to the list, sets its own state to Queueing, releases q->use and calls  *)
(* sched(); the process that releases the lock takes the first waiter off  *)
(* the list, leaves locked set, releases q->use, and only then calls       *)
(* ready() on the waiter: the lock is handed over, never freed, while      *)
(* somebody waits.  So a waiter can be made Ready before it has called     *)
(* sched(), and is in nobody's list between the dequeue and the ready().   *)
(*                                                                         *)
(* The critical sections under q->use are one action each, after the       *)
(* action that takes q->use; canlock() failing because another process is  *)
(* inside is therefore visible.  sched() and ready() are reduced to what   *)
(* a lock sees of them: a process that is not Running takes no step.       *)
(***************************************************************************)
EXTENDS Sequences, FiniteSets, SequencesExt

CONSTANTS Proc,     \* the processes that use the lock
          Pollers,  \* those that also try it with canqlock
          NoProc    \* nil

ASSUME ConstantsAssumption == NoProc \notin Proc /\ Pollers \subseteq Proc

VARIABLES locked,   \* q->locked
          queue,    \* the list q->head ... q->tail, linked through qnext
          use,      \* the holder of the spin lock q->use, or NoProc
          state,    \* [Proc -> Proc.state]
          pc,       \* [Proc -> where the process is in qlock.c]
          hand      \* [Proc -> the local p of qunlock: dequeued, not ready yet]

vars == <<locked, queue, use, state, pc, hand>>

\* "out": no lock held; "in": the lock is held; "sched": enqueued, on its way
\* into or inside sched(); "ready": at the ready(p) of qunlock; the *_cs are
\* the critical sections, q->use held.
PcSet == {"out", "qlock_cs", "canqlock_cs", "sched", "in", "qunlock_cs", "ready"}

TypeOK ==
    /\ locked \in BOOLEAN
    /\ queue \in Seq(Proc)
    /\ use \in Proc \cup {NoProc}
    /\ state \in [Proc -> {"Running", "Queueing", "Ready"}]
    /\ pc \in [Proc -> PcSet]
    /\ hand \in [Proc -> Proc \cup {NoProc}]
    /\ \A p \in Proc : pc[p] = "ready" => hand[p] \in Proc

Init ==
    /\ locked = FALSE
    /\ queue = <<>>
    /\ use = NoProc
    /\ state = [p \in Proc |-> "Running"]
    /\ pc = [p \in Proc |-> "out"]
    /\ hand = [p \in Proc |-> NoProc]

-----------------------------------------------------------------------------
(* lock(&q->use): spins until it is free.                                  *)
LockUse(p, from, to) ==
    /\ pc[p] = from
    /\ use = NoProc
    /\ use' = p
    /\ pc' = [pc EXCEPT ![p] = to]
    /\ UNCHANGED <<locked, queue, state, hand>>

(* qlock: take the lock, or join the list and fall asleep.                 *)
QlockStart(p) == LockUse(p, "out", "qlock_cs")

QlockIgnoresHolder(p) ==
    /\ pc[p] = "qlock_cs"
    /\ use' = NoProc
    /\ \/ /\ queue = <<>>
          /\ locked' = TRUE
          /\ pc' = [pc EXCEPT ![p] = "in"]
          /\ UNCHANGED <<queue, state>>
       \/ /\ queue /= <<>>
          /\ queue' = Append(queue, p)
          /\ state' = [state EXCEPT ![p] = "Queueing"]
          /\ pc' = [pc EXCEPT ![p] = "sched"]
          /\ UNCHANGED locked
    /\ UNCHANGED hand

QlockJumpsQueue(p) ==
    /\ pc[p] = "qlock_cs"
    /\ use' = NoProc
    /\ \/ /\ ~locked
          /\ locked' = TRUE
          /\ pc' = [pc EXCEPT ![p] = "in"]
          /\ UNCHANGED <<queue, state>>
       \/ /\ locked
          /\ queue' = <<p>> \o queue
          /\ state' = [state EXCEPT ![p] = "Queueing"]
          /\ pc' = [pc EXCEPT ![p] = "sched"]
          /\ UNCHANGED locked
    /\ UNCHANGED hand

Qlock(p) ==
    /\ pc[p] = "qlock_cs"
    /\ use' = NoProc
    /\ \/ /\ ~locked
          /\ locked' = TRUE
          /\ pc' = [pc EXCEPT ![p] = "in"]
          /\ UNCHANGED <<queue, state>>
       \/ /\ locked
          /\ queue' = Append(queue, p)
          /\ state' = [state EXCEPT ![p] = "Queueing"]
          /\ pc' = [pc EXCEPT ![p] = "sched"]
          /\ UNCHANGED locked
    /\ UNCHANGED hand

(* The return of sched() in qlock: somebody handed the lock over.          *)
QlockResume(p) ==
    /\ pc[p] = "sched"
    /\ state[p] = "Ready"
    /\ state' = [state EXCEPT ![p] = "Running"]
    /\ pc' = [pc EXCEPT ![p] = "in"]
    /\ UNCHANGED <<locked, queue, use, hand>>

(* canqlock: gives up when q->use is taken, and when the lock is.          *)
CanqlockBusy(p) ==
    /\ pc[p] = "out"
    /\ use /= NoProc
    /\ UNCHANGED vars

CanqlockStart(p) == LockUse(p, "out", "canqlock_cs")

Canqlock(p) ==
    /\ pc[p] = "canqlock_cs"
    /\ use' = NoProc
    /\ locked' = TRUE
    /\ pc' = [pc EXCEPT ![p] = IF locked THEN "out" ELSE "in"]
    /\ UNCHANGED <<queue, state, hand>>

(* qunlock: hand the lock to the first waiter, or free it.                 *)
QunlockStart(p) == LockUse(p, "in", "qunlock_cs")

QunlockFreesFirst(p) ==
    /\ pc[p] = "qunlock_cs"
    /\ use' = NoProc
    /\ locked' = FALSE
    /\ \/ /\ queue /= <<>>
          /\ hand' = [hand EXCEPT ![p] = Head(queue)]
          /\ queue' = Tail(queue)
          /\ pc' = [pc EXCEPT ![p] = "ready"]
       \/ /\ queue = <<>>
          /\ pc' = [pc EXCEPT ![p] = "out"]
          /\ UNCHANGED <<queue, hand>>
    /\ UNCHANGED state

QunlockSkipsReady(p) ==
    /\ pc[p] = "qunlock_cs"
    /\ use' = NoProc
    /\ pc' = [pc EXCEPT ![p] = "out"]
    /\ \/ queue /= <<>> /\ queue' = Tail(queue) /\ UNCHANGED locked
       \/ queue = <<>> /\ locked' = FALSE /\ UNCHANGED queue
    /\ UNCHANGED <<state, hand>>

QunlockAssumesWaiter(p) ==
    /\ pc[p] = "qunlock_cs"
    /\ use' = NoProc
    /\ hand' = [hand EXCEPT ![p] = IF queue = <<>> THEN NoProc ELSE Head(queue)]
    /\ queue' = IF queue = <<>> THEN queue ELSE Tail(queue)
    /\ pc' = [pc EXCEPT ![p] = "ready"]
    /\ UNCHANGED <<locked, state>>

Qunlock(p) ==
    /\ pc[p] = "qunlock_cs"
    /\ use' = NoProc
    /\ \/ /\ queue /= <<>>
          /\ hand' = [hand EXCEPT ![p] = Head(queue)]
          /\ queue' = Tail(queue)
          /\ pc' = [pc EXCEPT ![p] = "ready"]
          /\ UNCHANGED locked
       \/ /\ queue = <<>>
          /\ locked' = FALSE
          /\ pc' = [pc EXCEPT ![p] = "out"]
          /\ UNCHANGED <<queue, hand>>
    /\ UNCHANGED state

(* ready(p), after q->use is released.                                     *)
QunlockReady(p) ==
    /\ pc[p] = "ready"
    /\ state' = [state EXCEPT ![hand[p]] = "Ready"]
    /\ hand' = [hand EXCEPT ![p] = NoProc]
    /\ pc' = [pc EXCEPT ![p] = "out"]
    /\ UNCHANGED <<locked, queue, use>>

-----------------------------------------------------------------------------
(* What a process does once it has asked for the lock; whether and when it *)
(* asks is its own business.                                               *)
Proceed(p) ==
    \/ Qlock(p)
    \/ QlockResume(p)
    \/ Canqlock(p)
    \/ QunlockStart(p)
    \/ Qunlock(p)
    \/ QunlockReady(p)

Next ==
    \/ \E p \in Proc : QlockStart(p) \/ Proceed(p)
    \/ \E p \in Pollers : CanqlockStart(p) \/ CanqlockBusy(p)

Spec == Init /\ [][Next]_vars

(* A process that is inside the lock's code, or holds the lock, goes on,   *)
(* and its lock(&q->use) does not lose the race against the processes that *)
(* keep polling the lock forever.                                          *)
FairSpec ==
    /\ Spec
    /\ \A p \in Proc : WF_vars(Proceed(p)) /\ SF_vars(QunlockStart(p))

-----------------------------------------------------------------------------
(* Dequeued by qunlock and not yet back from sched(): the lock is already  *)
(* this process's although it does not run.                                *)
Handed(p) == pc[p] = "sched" /\ p \notin Range(queue)

Owns(p) == pc[p] \in {"in", "qunlock_cs"} \/ Handed(p)

(* Mutual exclusion, the handover included: the lock belongs to at most    *)
(* one process, running or still to be made ready by qunlock, and locked   *)
(* says whether it belongs to anybody.                                     *)
MutualExclusion ==
    /\ \A p, q \in Proc : Owns(p) /\ Owns(q) => p = q
    /\ locked <=> \E p \in Proc : Owns(p)

(* No waiter is forgotten: a process asleep in qlock is in the list, or    *)
(* exactly one process is about to call ready() on it.  So ready() is      *)
(* never called twice for one sleep, nor on a process that runs.           *)
WaiterNotLost ==
    /\ \A p \in Proc : state[p] = "Queueing" /\ p \notin Range(queue)
            => Cardinality({q \in Proc : hand[q] = p}) = 1
    /\ \A q \in Proc : hand[q] /= NoProc
            => state[hand[q]] = "Queueing" /\ Handed(hand[q])

(* Every process that queued for the lock gets it.                         *)
WaiterServed == \A p \in Proc : (pc[p] = "sched") ~> (pc[p] = "in")

(* qlock.c implements the abstract mutex: the owner is whoever the lock    *)
(* belongs to, the waiting processes are those in the list.                *)
OwnerOf == IF \E p \in Proc : Owns(p) THEN CHOOSE p \in Proc : Owns(p) ELSE NoProc

M == INSTANCE Mutex WITH owner <- OwnerOf, waiting <- Range(queue)

ImplementsMutex == M!Spec
=============================================================================
