------------------------------- MODULE RWlock -------------------------------
(***************************************************************************)
(* The queueing readers/writer lock: RWlock, kernel/concurrency/qlock.c.   *)
(*                                                                         *)
(* readers counts the readers, writer says that there is a writer, and the *)
(* list head..tail holds blocked readers and writers in order of arrival;  *)
(* which of the two a waiter is can only be told from its Proc.state,      *)
(* QueueingR or QueueingW.  The last reader hands the lock to the first    *)
(* waiter, which must be a writer (runlock panics otherwise); a writer     *)
(* hands it to the first waiter if that is a writer and otherwise to all   *)
(* the readers at the front of the list, one ready() at a time with the    *)
(* spin lock q->use held and writer still set.                             *)
(*                                                                         *)
(* As in Qlock.tla the critical sections under q->use are atomic, except   *)
(* the loop of wunlock, which is one action per iteration since the        *)
(* readers it readies run before it ends.                                  *)
(***************************************************************************)
EXTENDS Naturals, Sequences, FiniteSets, SequencesExt

CONSTANTS Proc,     \* the processes that use the lock
          Pollers,  \* those that also try it with canrlock
          NoProc    \* nil

ASSUME ConstantsAssumption == NoProc \notin Proc /\ Pollers \subseteq Proc

VARIABLES readers,  \* q->readers
          writer,   \* q->writer
          queue,    \* the list q->head ... q->tail
          use,      \* the holder of the spin lock q->use, or NoProc
          state,    \* [Proc -> Proc.state]
          pc,       \* [Proc -> where the process is in qlock.c]
          hand      \* [Proc -> the local p, dequeued, still to be readied]

vars == <<readers, writer, queue, use, state, pc, hand>>

\* "rsched" and "wsched": enqueued by rlock or wlock, at or inside sched();
\* "wunlock_wake": in the loop of wunlock; "panic": panic() was called.
Critical == {"rlock_cs", "canrlock_cs", "wlock_cs", "runlock_cs", "wunlock_cs",
             "wunlock_wake", "panic"}
PcSet == Critical \cup {"out", "rsched", "wsched", "reading", "writing", "ready"}

TypeOK ==
    /\ readers \in Nat
    /\ writer \in BOOLEAN
    /\ queue \in Seq(Proc)
    /\ use \in Proc \cup {NoProc}
    /\ state \in [Proc -> {"Running", "QueueingR", "QueueingW", "Ready"}]
    /\ pc \in [Proc -> PcSet]
    /\ hand \in [Proc -> Proc \cup {NoProc}]

Init ==
    /\ readers = 0
    /\ writer = FALSE
    /\ queue = <<>>
    /\ use = NoProc
    /\ state = [p \in Proc |-> "Running"]
    /\ pc = [p \in Proc |-> "out"]
    /\ hand = [p \in Proc |-> NoProc]

Goto(p, to) == pc' = [pc EXCEPT ![p] = to]

(* lock(&q->use): spins until it is free.                                  *)
LockUse(p, from, to) ==
    /\ pc[p] = from
    /\ use = NoProc
    /\ use' = p
    /\ Goto(p, to)
    /\ UNCHANGED <<readers, writer, queue, state, hand>>

(* Join the list and release q->use; what is left is to call sched().      *)
Enqueue(p, s, to) ==
    /\ queue' = Append(queue, p)
    /\ state' = [state EXCEPT ![p] = s]
    /\ use' = NoProc
    /\ Goto(p, to)
    /\ UNCHANGED <<readers, writer, hand>>

(* The return of sched() in rlock and wlock.                               *)
Resume(p, from, to) ==
    /\ pc[p] = from
    /\ state[p] = "Ready"
    /\ state' = [state EXCEPT ![p] = "Running"]
    /\ Goto(p, to)
    /\ UNCHANGED <<readers, writer, queue, use, hand>>

(* Take the first waiter off the list and release q->use, to ready() it.   *)
Dequeue(p) ==
    /\ hand' = [hand EXCEPT ![p] = Head(queue)]
    /\ queue' = Tail(queue)
    /\ use' = NoProc
    /\ Goto(p, "ready")
    /\ UNCHANGED state

-----------------------------------------------------------------------------
(* rlock: a reader joins the readers unless a writer is inside or anybody  *)
(* is waiting.                                                             *)
RlockStart(p) == LockUse(p, "out", "rlock_cs")

MayRead == ~writer /\ queue = <<>>

Admit(p) ==
    /\ readers' = readers + 1
    /\ use' = NoProc
    /\ Goto(p, "reading")
    /\ UNCHANGED <<writer, queue, state, hand>>

RlockOvertakes(p) ==
    /\ pc[p] = "rlock_cs"
    /\ \/ ~writer /\ Admit(p)
       \/ writer /\ Enqueue(p, "QueueingR", "rsched")

Rlock(p) ==
    /\ pc[p] = "rlock_cs"
    /\ \/ MayRead /\ Admit(p)
       \/ ~MayRead /\ Enqueue(p, "QueueingR", "rsched")

RlockResume(p) == Resume(p, "rsched", "reading")

(* canrlock: the same, but it gives up instead of waiting.                 *)
CanrlockStart(p) == LockUse(p, "out", "canrlock_cs")

Canrlock(p) ==
    /\ pc[p] = "canrlock_cs"
    /\ \/ MayRead /\ Admit(p)
       \/ /\ ~MayRead
          /\ use' = NoProc
          /\ Goto(p, "out")
          /\ UNCHANGED <<readers, writer, queue, state, hand>>

(* runlock: the last reader hands the lock to the writer that waits.       *)
RunlockStart(p) == LockUse(p, "reading", "runlock_cs")

RunlockIgnoresReaders(p) ==
    /\ pc[p] = "runlock_cs"
    /\ readers' = readers - 1
    /\ \/ /\ queue = <<>>
          /\ use' = NoProc
          /\ Goto(p, "out")
          /\ UNCHANGED <<writer, queue, state, hand>>
       \/ /\ queue /= <<>>
          /\ writer' = TRUE
          /\ Dequeue(p)

Runlock(p) ==
    /\ pc[p] = "runlock_cs"
    /\ readers' = readers - 1
    /\ \/ /\ readers > 1 \/ queue = <<>>
          /\ use' = NoProc
          /\ Goto(p, "out")
          /\ UNCHANGED <<writer, queue, state, hand>>
       \/ /\ ~(readers > 1 \/ queue = <<>>)
          /\ state[Head(queue)] /= "QueueingW"
          /\ Goto(p, "panic")
          /\ UNCHANGED <<writer, queue, use, state, hand>>
       \/ /\ ~(readers > 1 \/ queue = <<>>)
          /\ state[Head(queue)] = "QueueingW"
          /\ writer' = TRUE
          /\ Dequeue(p)

(* wlock: a writer needs the lock to itself.                               *)
WlockStart(p) == LockUse(p, "out", "wlock_cs")

Wlock(p) ==
    /\ pc[p] = "wlock_cs"
    /\ \/ /\ readers = 0 /\ ~writer
          /\ writer' = TRUE
          /\ use' = NoProc
          /\ Goto(p, "writing")
          /\ UNCHANGED <<readers, queue, state, hand>>
       \/ /\ ~(readers = 0 /\ ~writer)
          /\ Enqueue(p, "QueueingW", "wsched")

WlockResume(p) == Resume(p, "wsched", "writing")

(* wunlock: free the lock, hand it to a writer, or let in the readers at   *)
(* the front of the list.                                                  *)
WunlockStart(p) == LockUse(p, "writing", "wunlock_cs")

Wunlock(p) ==
    /\ pc[p] = "wunlock_cs"
    /\ \/ /\ queue = <<>>
          /\ writer' = FALSE
          /\ use' = NoProc
          /\ Goto(p, "out")
          /\ UNCHANGED <<readers, queue, state, hand>>
       \/ /\ queue /= <<>>
          /\ state[Head(queue)] = "QueueingW"
          /\ UNCHANGED <<readers, writer>>
          /\ Dequeue(p)
       \/ /\ queue /= <<>>
          /\ state[Head(queue)] /= "QueueingW"
          /\ Goto(p, IF state[Head(queue)] = "QueueingR" THEN "wunlock_wake" ELSE "panic")
          /\ UNCHANGED <<readers, writer, queue, use, state, hand>>

WunlockWakesOne(p) ==
    /\ pc[p] = "wunlock_wake"
    /\ queue' = Tail(queue)
    /\ readers' = readers + 1
    /\ state' = [state EXCEPT ![Head(queue)] = "Ready"]
    /\ writer' = FALSE
    /\ use' = NoProc
    /\ Goto(p, "out")
    /\ UNCHANGED hand

WunlockWake(p) ==
    /\ pc[p] = "wunlock_wake"
    /\ \/ /\ queue /= <<>> /\ state[Head(queue)] = "QueueingR"
          /\ queue' = Tail(queue)
          /\ readers' = readers + 1
          /\ state' = [state EXCEPT ![Head(queue)] = "Ready"]
          /\ UNCHANGED <<writer, use, pc, hand>>
       \/ /\ ~(queue /= <<>> /\ state[Head(queue)] = "QueueingR")
          /\ writer' = FALSE
          /\ use' = NoProc
          /\ Goto(p, "out")
          /\ UNCHANGED <<readers, queue, state, hand>>

(* ready(p), after q->use is released by runlock or wunlock.               *)
HandoverReady(p) ==
    /\ pc[p] = "ready"
    /\ state' = [state EXCEPT ![hand[p]] = "Ready"]
    /\ hand' = [hand EXCEPT ![p] = NoProc]
    /\ Goto(p, "out")
    /\ UNCHANGED <<readers, writer, queue, use>>

-----------------------------------------------------------------------------
(* What a process does once it has asked for the lock.                     *)
Proceed(p) ==
    \/ Rlock(p) \/ RlockResume(p) \/ Canrlock(p)
    \/ RunlockStart(p) \/ Runlock(p)
    \/ Wlock(p) \/ WlockResume(p)
    \/ WunlockStart(p) \/ Wunlock(p) \/ WunlockWake(p)
    \/ HandoverReady(p)

Next ==
    \/ \E p \in Proc : RlockStart(p) \/ WlockStart(p) \/ Proceed(p)
    \/ \E p \in Pollers : CanrlockStart(p)

Spec == Init /\ [][Next]_vars

(* A process that is inside the lock's code, or holds the lock, goes on,   *)
(* and its lock(&q->use) does not lose the race against the processes that *)
(* keep polling the lock forever.                                          *)
FairSpec ==
    /\ Spec
    /\ \A p \in Proc : WF_vars(Proceed(p)) /\ SF_vars(RunlockStart(p) \/ WunlockStart(p))

-----------------------------------------------------------------------------
(* Taken off the list and not yet back from sched().                       *)
Handed(p, where) == pc[p] = where /\ p \notin Range(queue)

OwnsR(p) == pc[p] \in {"reading", "runlock_cs"} \/ Handed(p, "rsched")
OwnsW(p) == pc[p] \in {"writing", "wunlock_cs"} \/ Handed(p, "wsched")

(* One writer and no reader, or readers only, waiters that own the lock    *)
(* already (taken off the list, still to run) included.                    *)
ReadersWriterExclusion ==
    \A p, q \in Proc : p /= q /\ OwnsW(p) => ~OwnsW(q) /\ ~OwnsR(q)

(* The variables have their types, and the two counters tell the truth     *)
(* outside wunlock's loop: readers is the number of processes with the     *)
(* lock for reading, writer says whether one has it for writing.           *)
CountersTrue ==
    /\ TypeOK
    /\ readers = Cardinality({p \in Proc : OwnsR(p)})
    /\ (\A p \in Proc : pc[p] /= "wunlock_wake")
           => (writer <=> \E p \in Proc : OwnsW(p))

(* The panic()s of runlock and wunlock, on a waiter in a state they did    *)
(* not expect, are never reached.                                          *)
NoPanic == \A p \in Proc : pc[p] /= "panic"

(* Nobody sleeps on a free lock, and nobody but a writer sleeps behind     *)
(* readers: outside the critical sections a list that is not empty means a *)
(* writer inside, or readers inside and a writer first in the list.        *)
NoIdleWaiters ==
    use = NoProc /\ queue /= <<>>
        => writer \/ (readers > 0 /\ state[Head(queue)] = "QueueingW")

(* Readers that arrive later do not overtake a waiting writer, and every   *)
(* process that queued is served.                                          *)
WaiterServed ==
    \A p \in Proc :
        /\ (pc[p] = "rsched") ~> (pc[p] = "reading")
        /\ (pc[p] = "wsched") ~> (pc[p] = "writing")
=============================================================================
