---------------------------- MODULE QlockProofs ----------------------------
(***************************************************************************)
(* Mutual exclusion of QLock for any number of processes, that no waiter   *)
(* is lost, and that qlock.c implements the abstract Mutex, by an          *)
(* inductive invariant of Qlock.tla.                                       *)
(*                                                                         *)
(* MutualExclusion is not inductive alone: that a qunlock hands the lock   *)
(* to a process that did not own it yet needs the list to be without       *)
(* repetitions and to hold processes asleep in qlock only; that qlock may  *)
(* take the lock when locked is clear needs the list to be empty then; and *)
(* that a process which comes back from sched() owns the lock needs to     *)
(* know that ready() is only called on the process it was handed to.       *)
(***************************************************************************)
EXTENDS Qlock, SeqLemmas, FiniteSetTheorems

QueueInv ==
    /\ NoRepeat(queue)
    /\ \A p \in Range(queue) : pc[p] = "sched" /\ state[p] = "Queueing"
    /\ queue /= <<>> => locked

(* The processes at the ready() of qunlock: at most one, and the process   *)
(* in its hand is the one asleep process that has left the list.           *)
HandInv ==
    /\ \A q \in Proc : pc[q] = "ready" =>
            hand[q] \in Proc /\ Handed(hand[q]) /\ state[hand[q]] = "Queueing"
    /\ \A q \in Proc : pc[q] /= "ready" => hand[q] = NoProc
    /\ \A q, r \in Proc : pc[q] = "ready" /\ pc[r] = "ready" => q = r
    /\ \A p \in Proc : Handed(p) /\ state[p] = "Queueing" => \E q \in Proc : hand[q] = p

StateInv == \A p \in Proc : state[p] /= "Running" <=> pc[p] = "sched"

IInv == TypeOK /\ QueueInv /\ MutualExclusion /\ HandInv /\ StateInv

-----------------------------------------------------------------------------
(* The list holds processes.                                               *)
LEMMA QueueOfProcs == TypeOK => Range(queue) \subseteq Proc
BY RangeOfSeq DEF TypeOK

LEMMA InitIInv == Init => IInv
<1> SUFFICES ASSUME Init PROVE IInv
    OBVIOUS
<1>1. TypeOK
    BY ConstantsAssumption, EmptySeq DEF Init, TypeOK, PcSet
<1>2. QueueInv
    BY DEF Init, QueueInv, NoRepeat, Range
<1>3. MutualExclusion /\ HandInv /\ StateInv
    BY DEF Init, MutualExclusion, Owns, Handed, HandInv, StateInv
<1> QED BY <1>1, <1>2, <1>3 DEF IInv

(* A step of p that changes nothing but its own pc, between two places     *)
(* where it owns the lock or two where it does not.                        *)
LEMMA MoveIInv ==
    ASSUME IInv, NEW p \in Proc, NEW to \in PcSet,
           pc' = [pc EXCEPT ![p] = to],
           TypeOK', UNCHANGED <<locked, queue, state, hand>>,
           pc[p] \notin {"sched", "ready"}, to \notin {"sched", "ready"},
           pc[p] \in {"in", "qunlock_cs"} <=> to \in {"in", "qunlock_cs"}
    PROVE  IInv'
<1>1. \A q \in Range(queue) : q \in Proc /\ q /= p
    BY QueueOfProcs DEF IInv, QueueInv
<1>2. QueueInv'
    BY <1>1 DEF IInv, QueueInv, TypeOK
<1>3. \A q \in Proc : (Owns(q)' <=> Owns(q)) /\ (Handed(q)' <=> Handed(q))
    BY DEF IInv, TypeOK, Owns, Handed
<1>4. MutualExclusion'
    BY <1>3 DEF IInv, MutualExclusion
<1>5. HandInv'
    BY <1>3 DEF IInv, HandInv, TypeOK
<1>6. StateInv'
    BY DEF IInv, StateInv, TypeOK
<1> QED BY <1>2, <1>4, <1>5, <1>6 DEF IInv

LEMMA LockUseIInv ==
    ASSUME IInv, NEW p \in Proc, QlockStart(p) \/ CanqlockStart(p) \/ QunlockStart(p)
    PROVE  IInv'
<1>1. CASE QlockStart(p)
  <2>1. TypeOK'
      BY <1>1 DEF IInv, TypeOK, QlockStart, LockUse, PcSet
  <2> QED BY <1>1, <2>1, MoveIInv DEF QlockStart, LockUse, PcSet
<1>2. CASE CanqlockStart(p)
  <2>1. TypeOK'
      BY <1>2 DEF IInv, TypeOK, CanqlockStart, LockUse, PcSet
  <2> QED BY <1>2, <2>1, MoveIInv DEF CanqlockStart, LockUse, PcSet
<1>3. CASE QunlockStart(p)
  <2>1. TypeOK'
      BY <1>3 DEF IInv, TypeOK, QunlockStart, LockUse, PcSet
  <2> QED BY <1>3, <2>1, MoveIInv DEF QunlockStart, LockUse, PcSet
<1> QED BY <1>1, <1>2, <1>3

(* p, which did not own the free lock, takes it: qlock and canqlock.       *)
LEMMA TakeIInv ==
    ASSUME IInv, NEW p \in Proc, ~locked, locked' = TRUE,
           pc' = [pc EXCEPT ![p] = "in"], TypeOK',
           UNCHANGED <<queue, state, hand>>, pc[p] \in {"qlock_cs", "canqlock_cs"}
    PROVE  IInv'
<1>1. \A q \in Range(queue) : q \in Proc /\ q /= p
    BY QueueOfProcs DEF IInv, QueueInv
<1>2. QueueInv'
    BY <1>1 DEF IInv, QueueInv, TypeOK
<1>3. \A q \in Proc : ~Owns(q)
    BY DEF IInv, MutualExclusion
<1>4. \A q \in Proc : (Owns(q)' <=> q = p) /\ (Handed(q)' <=> Handed(q))
    BY <1>3 DEF IInv, TypeOK, Owns, Handed
<1>5. MutualExclusion'
    BY <1>4 DEF MutualExclusion
<1>6. HandInv'
    BY <1>4 DEF IInv, HandInv, TypeOK
<1>7. StateInv'
    BY DEF IInv, StateInv, TypeOK
<1> QED BY <1>2, <1>5, <1>6, <1>7 DEF IInv

LEMMA QlockIInv ==
    ASSUME IInv, NEW p \in Proc, Qlock(p)
    PROVE  IInv'
<1>1. TypeOK'
  <2>1. Append(queue, p) \in Seq(Proc)
      BY AppendProperties DEF IInv, TypeOK
  <2>2. queue' \in Seq(Proc) /\ locked' \in BOOLEAN
      BY <2>1 DEF IInv, TypeOK, Qlock
  <2> QED BY <2>2 DEF IInv, TypeOK, Qlock, PcSet
<1>2. CASE ~locked
    BY <1>1, <1>2, TakeIInv DEF Qlock
<1>3. CASE locked
  <2>1. /\ locked' = locked /\ queue' = Append(queue, p) /\ hand' = hand
        /\ pc' = [pc EXCEPT ![p] = "sched"] /\ state' = [state EXCEPT ![p] = "Queueing"]
        /\ pc[p] = "qlock_cs"
      BY <1>3 DEF Qlock
  <2>2. \A q \in Range(queue) : q \in Proc /\ q /= p
      BY <2>1, QueueOfProcs DEF IInv, QueueInv
  <2>3. Range(queue') = Range(queue) \cup {p} /\ NoRepeat(queue')
      BY <2>1, <2>2, AppendRange DEF IInv, TypeOK, QueueInv
  <2>4. QueueInv'
      BY <1>3, <2>1, <2>2, <2>3 DEF IInv, TypeOK, QueueInv
  <2>5. \A q \in Proc : (Owns(q)' <=> Owns(q)) /\ (Handed(q)' <=> Handed(q))
      BY <2>1, <2>3 DEF IInv, TypeOK, Owns, Handed
  <2>6. MutualExclusion'
      BY <2>1, <2>5 DEF IInv, MutualExclusion
  <2>7. HandInv'
    <3>1. ~Handed(p)
        BY <2>1 DEF Handed
    <3> QED BY <2>1, <2>5, <3>1 DEF IInv, HandInv, TypeOK
  <2>8. StateInv'
      BY <2>1 DEF IInv, StateInv, TypeOK
  <2> QED BY <1>1, <2>4, <2>6, <2>7, <2>8 DEF IInv
<1> QED BY <1>2, <1>3

LEMMA CanqlockIInv ==
    ASSUME IInv, NEW p \in Proc, Canqlock(p)
    PROVE  IInv'
<1>1. TypeOK'
    BY DEF IInv, TypeOK, Canqlock, PcSet
<1>2. CASE ~locked
    BY <1>1, <1>2, TakeIInv DEF Canqlock
<1>3. CASE locked
  <2>1. locked' = locked
      BY <1>3 DEF IInv, TypeOK, Canqlock
  <2> QED BY <1>1, <1>3, <2>1, MoveIInv DEF Canqlock, PcSet
<1> QED BY <1>2, <1>3

(* Coming back from sched(): Ready means taken off the list.               *)
LEMMA QlockResumeIInv ==
    ASSUME IInv, NEW p \in Proc, QlockResume(p)
    PROVE  IInv'
<1>1. TypeOK'
    BY DEF IInv, TypeOK, QlockResume, PcSet
<1>2. p \notin Range(queue)
    BY DEF IInv, QueueInv, QlockResume
<1>3. Handed(p)
    BY <1>2 DEF Handed, QlockResume
<1>4. \A q \in Proc : (Owns(q)' <=> Owns(q)) /\ (q /= p => (Handed(q)' <=> Handed(q)))
    BY <1>3 DEF IInv, TypeOK, QlockResume, Owns, Handed
<1>5. QueueInv'
    BY <1>2, QueueOfProcs DEF IInv, TypeOK, QlockResume, QueueInv
<1>6. MutualExclusion'
    BY <1>4 DEF IInv, QlockResume, MutualExclusion
<1>7. HandInv'
  <2>1. \A q \in Proc : pc[q] = "ready" => hand[q] /= p
      BY DEF IInv, HandInv, QlockResume
  <2>2. ~Handed(p)'
      BY DEF IInv, TypeOK, QlockResume, Handed
  <2> QED BY <2>1, <2>2, <1>4 DEF IInv, TypeOK, QlockResume, HandInv
<1>8. StateInv'
    BY DEF IInv, TypeOK, QlockResume, StateInv
<1> QED BY <1>1, <1>5, <1>6, <1>7, <1>8 DEF IInv

(* The owner gives the lock to the first waiter or frees it.               *)
LEMMA QunlockIInv ==
    ASSUME IInv, NEW p \in Proc, Qunlock(p)
    PROVE  IInv'
<1>1. TypeOK'
  <2>1. queue /= <<>> => Head(queue) \in Proc /\ Tail(queue) \in Seq(Proc)
      BY HeadTailProperties DEF IInv, TypeOK
  <2>2. queue' \in Seq(Proc) /\ locked' \in BOOLEAN
      BY <2>1 DEF IInv, TypeOK, Qunlock
  <2>3. hand' \in [Proc -> Proc \cup {NoProc}]
      BY <2>1 DEF IInv, TypeOK, Qunlock
  <2> QED BY <2>2, <2>3 DEF IInv, TypeOK, Qunlock, PcSet
<1>2. Owns(p) /\ \A q \in Proc : Owns(q) => q = p
    BY DEF IInv, MutualExclusion, Owns, Qunlock
<1>3. \A q \in Proc : ~Handed(q)
    BY <1>2 DEF Owns, Handed, Qunlock
<1>4. \A q \in Proc : pc[q] /= "ready"
    BY <1>3 DEF IInv, HandInv
<1>5. StateInv'
    BY DEF IInv, TypeOK, Qunlock, StateInv
<1>6. CASE queue /= <<>>
  <2> DEFINE h == Head(queue)
  <2>1. /\ locked' = locked /\ queue' = Tail(queue) /\ state' = state
        /\ hand' = [hand EXCEPT ![p] = h] /\ pc' = [pc EXCEPT ![p] = "ready"]
        /\ pc[p] = "qunlock_cs"
      BY <1>6 DEF Qunlock
  <2>2. Range(queue') = Range(queue) \ {h} /\ h \in Range(queue) /\ NoRepeat(queue')
      BY <1>6, <2>1, TailRange DEF IInv, TypeOK, QueueInv
  <2>3. h \in Proc /\ h /= p /\ pc[h] = "sched" /\ state[h] = "Queueing"
      BY <2>1, <2>2, QueueOfProcs DEF IInv, QueueInv
  <2> HIDE DEF h
  <2>4. QueueInv'
      BY <1>6, <2>1, <2>2, QueueOfProcs DEF IInv, TypeOK, QueueInv
  <2>5. \A q \in Proc : (Handed(q)' <=> q = h) /\ (Owns(q)' <=> q = h)
      BY <1>2, <1>3, <2>1, <2>2, <2>3 DEF IInv, TypeOK, Handed, Owns
  <2>6. MutualExclusion'
      BY <1>2, <2>1, <2>3, <2>5 DEF IInv, MutualExclusion
  <2>7. HandInv'
      BY <1>4, <2>1, <2>3, <2>5 DEF IInv, TypeOK, HandInv
  <2> QED BY <1>1, <1>5, <2>4, <2>6, <2>7 DEF IInv
<1>7. CASE queue = <<>>
  <2>1. /\ locked' = FALSE /\ queue' = queue /\ state' = state /\ hand' = hand
        /\ pc' = [pc EXCEPT ![p] = "out"] /\ pc[p] = "qunlock_cs"
      BY <1>7 DEF Qunlock
  <2>2. QueueInv'
      BY <1>7, <2>1, QueueOfProcs DEF IInv, TypeOK, QueueInv
  <2>3. \A q \in Proc : ~Handed(q)' /\ ~Owns(q)'
      BY <1>2, <1>3, <2>1 DEF IInv, TypeOK, Handed, Owns
  <2>4. MutualExclusion'
      BY <2>1, <2>3 DEF MutualExclusion
  <2>5. HandInv'
      BY <1>4, <2>1, <2>3 DEF IInv, TypeOK, HandInv
  <2> QED BY <1>1, <1>5, <2>2, <2>4, <2>5 DEF IInv
<1> QED BY <1>6, <1>7

LEMMA QunlockReadyIInv ==
    ASSUME IInv, NEW p \in Proc, QunlockReady(p)
    PROVE  IInv'
<1> DEFINE h == hand[p]
<1>1. h \in Proc /\ Handed(h) /\ state[h] = "Queueing" /\ pc[p] = "ready" /\ h /= p
    BY DEF IInv, HandInv, QunlockReady, Handed
<1>2. TypeOK'
    BY <1>1 DEF IInv, TypeOK, QunlockReady, PcSet
<1>3. /\ state' = [state EXCEPT ![h] = "Ready"] /\ hand' = [hand EXCEPT ![p] = NoProc]
      /\ pc' = [pc EXCEPT ![p] = "out"] /\ locked' = locked /\ queue' = queue
    BY DEF QunlockReady
<1> HIDE DEF h
<1>4. h \notin Range(queue) /\ p \notin Range(queue)
    BY <1>1 DEF Handed, IInv, QueueInv
<1>5. QueueInv'
    BY <1>3, <1>4, QueueOfProcs DEF IInv, TypeOK, QueueInv
<1>6. \A q \in Proc : (Owns(q)' <=> Owns(q)) /\ (Handed(q)' <=> Handed(q))
    BY <1>1, <1>3 DEF IInv, TypeOK, Owns, Handed
<1>7. MutualExclusion'
    BY <1>3, <1>6 DEF IInv, MutualExclusion
<1>8. HandInv'
  <2>1. \A q \in Proc : pc[q] = "ready" => q = p
      BY <1>1 DEF IInv, HandInv
  <2>2. \A q \in Proc : Handed(q) => q = h
      BY <1>1 DEF IInv, MutualExclusion, Owns
  <2>3. state'[h] = "Ready"
      BY <1>1, <1>3 DEF IInv, TypeOK
  <2> QED BY <1>3, <1>6, <2>1, <2>2, <2>3 DEF IInv, TypeOK, HandInv
<1>9. StateInv'
    BY <1>1, <1>3 DEF IInv, TypeOK, StateInv, Handed
<1> QED BY <1>2, <1>5, <1>7, <1>8, <1>9 DEF IInv

LEMMA StepIInv == IInv /\ [Next]_vars => IInv'
<1> SUFFICES ASSUME IInv, [Next]_vars PROVE IInv'
    OBVIOUS
<1>1. CASE UNCHANGED vars
    BY <1>1 DEF vars, IInv, TypeOK, QueueInv, MutualExclusion, HandInv, StateInv,
                Owns, Handed
<1>2. CASE \E p \in Pollers : CanqlockBusy(p)
    BY <1>1, <1>2 DEF CanqlockBusy
<1>3. CASE \E p \in Proc : QlockStart(p) \/ CanqlockStart(p) \/ QunlockStart(p)
    BY <1>3, LockUseIInv
<1>4. CASE \E p \in Proc : Qlock(p) \/ QlockResume(p) \/ Canqlock(p) \/ Qunlock(p)
                              \/ QunlockReady(p)
    BY <1>4, QlockIInv, QlockResumeIInv, CanqlockIInv, QunlockIInv, QunlockReadyIInv
<1> QED BY <1>1, <1>2, <1>3, <1>4, ConstantsAssumption DEF Next, Proceed

LEMMA InvIInv == Spec => []IInv
BY InitIInv, StepIInv, PTL DEF Spec

-----------------------------------------------------------------------------
(* The type invariant of Qlock.tla.                                        *)
THEOREM QlockTypeOK == Spec => []TypeOK
BY InvIInv, PTL DEF IInv

(* At most one process owns a QLock, the process it was handed to and      *)
(* that still has to be made ready included, and q->locked says whether    *)
(* one does, for any number of processes.                                  *)
THEOREM QlockMutualExclusion == Spec => []MutualExclusion
BY InvIInv, PTL DEF IInv

(* A process asleep in qlock is in the list or is the one that exactly one *)
(* qunlock is about to ready(): no wakeup is lost and none is doubled.     *)
THEOREM QlockWaiterNotLost == Spec => []WaiterNotLost
<1>1. IInv => WaiterNotLost
  <2> SUFFICES ASSUME IInv PROVE WaiterNotLost
      OBVIOUS
  <2>1. ASSUME NEW p \in Proc, state[p] = "Queueing", p \notin Range(queue)
        PROVE  Cardinality({q \in Proc : hand[q] = p}) = 1
    <3>1. Handed(p)
        BY <2>1 DEF IInv, StateInv, Handed
    <3>2. PICK q \in Proc : hand[q] = p
        BY <2>1, <3>1 DEF IInv, HandInv
    <3>3. \A r \in Proc : hand[r] = p => r = q
        BY <3>2, ConstantsAssumption DEF IInv, HandInv
    <3>4. {r \in Proc : hand[r] = p} = {q}
        BY <3>2, <3>3
    <3> QED BY <3>4, FS_Singleton
  <2>2. ASSUME NEW q \in Proc, hand[q] /= NoProc
        PROVE  state[hand[q]] = "Queueing" /\ Handed(hand[q])
      BY <2>2 DEF IInv, HandInv
  <2> QED BY <2>1, <2>2 DEF WaiterNotLost
<1> QED BY <1>1, InvIInv, PTL

-----------------------------------------------------------------------------
(* The owner of the refinement mapping is the process that owns the lock.  *)
LEMMA OwnerOfIs ==
    ASSUME MutualExclusion
    PROVE  /\ \A p \in Proc : Owns(p) => OwnerOf = p
           /\ (\A p \in Proc : ~Owns(p)) => OwnerOf = NoProc
           /\ \A p \in Proc : OwnerOf = p => Owns(p)
BY ConstantsAssumption DEF MutualExclusion, OwnerOf

(* The same of the next state.                                             *)
LEMMA OwnerOfNext ==
    ASSUME MutualExclusion'
    PROVE  /\ \A p \in Proc : Owns(p)' => OwnerOf' = p
           /\ (\A p \in Proc : ~Owns(p)') => OwnerOf' = NoProc
BY ConstantsAssumption DEF MutualExclusion, OwnerOf

LEMMA SameOwnerOf ==
    ASSUME MutualExclusion, MutualExclusion', \A q \in Proc : Owns(q)' <=> Owns(q)
    PROVE  OwnerOf' = OwnerOf
BY OwnerOfIs, OwnerOfNext

LEMMA InitRefines == Init => M!Init
<1> SUFFICES ASSUME Init PROVE M!Init
    OBVIOUS
<1>1. \A p \in Proc : ~Owns(p)
    BY DEF Init, Owns, Handed
<1>2. OwnerOf = NoProc
    BY <1>1 DEF OwnerOf
<1>3. Range(queue) = {}
    BY DEF Init, Range
<1> QED BY <1>2, <1>3 DEF M!Init

(* Every step is a step of the abstract mutex or changes nothing of it.    *)
LEMMA StepRefines ==
    ASSUME IInv, IInv', [Next]_vars
    PROVE  [M!Next]_(M!vars)
<1> USE DEF M!vars
<1>a. MutualExclusion /\ MutualExclusion'
    BY DEF IInv
<1>1. CASE UNCHANGED vars
  <2>1. \A q \in Proc : Owns(q)' <=> Owns(q)
      BY <1>1 DEF vars, Owns, Handed
  <2> QED BY <1>a, <1>1, <2>1, SameOwnerOf DEF vars
<1>2. CASE \E p \in Pollers : CanqlockBusy(p)
    BY <1>1, <1>2 DEF CanqlockBusy
<1>3. ASSUME NEW p \in Proc, QlockStart(p) \/ CanqlockStart(p) \/ QunlockStart(p)
      PROVE  UNCHANGED <<OwnerOf, Range(queue)>>
  <2>1. \A q \in Proc : Owns(q)' <=> Owns(q)
      BY <1>3 DEF IInv, TypeOK, QlockStart, CanqlockStart, QunlockStart, LockUse, Owns, Handed
  <2> QED BY <1>a, <1>3, <2>1, SameOwnerOf DEF QlockStart, CanqlockStart, QunlockStart, LockUse
<1>4. ASSUME NEW p \in Proc, QlockResume(p) \/ QunlockReady(p)
      PROVE  UNCHANGED <<OwnerOf, Range(queue)>>
  <2>1. QlockResume(p) => p \notin Range(queue)
      BY DEF IInv, QueueInv, QlockResume
  <2>2. \A q \in Proc : Owns(q)' <=> Owns(q)
      BY <1>4, <2>1 DEF IInv, TypeOK, QlockResume, QunlockReady, Owns, Handed
  <2> QED BY <1>a, <1>4, <2>2, SameOwnerOf DEF QlockResume, QunlockReady
<1>5. ASSUME NEW p \in Proc, Qlock(p) \/ Canqlock(p), ~locked
      PROVE  M!Acquire(p)
  <2>1. OwnerOf = NoProc
      BY <1>a, <1>5, OwnerOfIs DEF MutualExclusion
  <2>2. Owns(p)' /\ queue' = queue
      BY <1>5 DEF IInv, TypeOK, Qlock, Canqlock, Owns
  <2> QED BY <1>a, <2>1, <2>2, OwnerOfNext DEF M!Acquire
<1>6. ASSUME NEW p \in Proc, Canqlock(p), locked
      PROVE  UNCHANGED <<OwnerOf, Range(queue)>>
  <2>1. \A q \in Proc : Owns(q)' <=> Owns(q)
      BY <1>6 DEF IInv, TypeOK, Canqlock, Owns, Handed
  <2> QED BY <1>a, <1>6, <2>1, SameOwnerOf DEF Canqlock
<1>7. ASSUME NEW p \in Proc, Qlock(p), locked
      PROVE  M!Block(p)
  <2>1. /\ queue' = Append(queue, p) /\ pc' = [pc EXCEPT ![p] = "sched"]
        /\ pc[p] = "qlock_cs"
      BY <1>7 DEF Qlock
  <2>2. p \notin Range(queue)
      BY <2>1 DEF IInv, QueueInv
  <2>3. Range(queue') = Range(queue) \cup {p}
      BY <2>1, AppendRange DEF IInv, TypeOK
  <2>4. \A q \in Proc : Owns(q)' <=> Owns(q)
      BY <2>1, <2>3 DEF IInv, TypeOK, Owns, Handed
  <2>5. OwnerOf' = OwnerOf
      BY <1>a, <2>4, SameOwnerOf
  <2>6. OwnerOf \notin {NoProc, p}
    <3>1. PICK o \in Proc : Owns(o)
        BY <1>a, <1>7 DEF MutualExclusion
    <3>2. ~Owns(p)
        BY <2>1 DEF Owns, Handed
    <3> QED BY <1>a, <3>1, <3>2, OwnerOfIs, ConstantsAssumption
  <2> QED BY <2>2, <2>3, <2>5, <2>6 DEF M!Block
<1>8. ASSUME NEW p \in Proc, Qunlock(p), queue = <<>>
      PROVE  M!Free(p)
  <2>1. Owns(p) /\ OwnerOf = p
      BY <1>a, <1>8, OwnerOfIs DEF Qunlock, Owns
  <2>2. locked' = FALSE /\ queue' = queue
      BY <1>8 DEF Qunlock
  <2>3. OwnerOf' = NoProc
      BY <1>a, <2>2, OwnerOfNext DEF MutualExclusion
  <2>4. Range(queue) = {}
      BY <1>8 DEF Range
  <2> QED BY <2>1, <2>2, <2>3, <2>4 DEF M!Free
<1>9. ASSUME NEW p \in Proc, Qunlock(p), queue /= <<>>
      PROVE  \E q \in Proc : M!Pass(p, q)
  <2>0. PICK h \in Proc : h = Head(queue)
      BY <1>9, HeadTailProperties DEF IInv, TypeOK
  <2>1. Owns(p) /\ OwnerOf = p
      BY <1>a, <1>9, OwnerOfIs DEF Qunlock, Owns
  <2>2. /\ queue' = Tail(queue) /\ pc' = [pc EXCEPT ![p] = "ready"]
        /\ pc[p] = "qunlock_cs"
      BY <1>9 DEF Qunlock
  <2>3. Range(queue') = Range(queue) \ {h} /\ h \in Range(queue)
      BY <1>9, <2>0, <2>2, TailRange DEF IInv, TypeOK, QueueInv
  <2>4. h \in Proc /\ pc[h] = "sched" /\ h /= p
      BY <2>2, <2>3, QueueOfProcs DEF IInv, QueueInv
  <2>5. Owns(h)'
      BY <2>2, <2>3, <2>4 DEF IInv, TypeOK, Owns, Handed
  <2>6. OwnerOf' = h
      BY <1>a, <2>4, <2>5, OwnerOfNext
  <2> QED BY <2>1, <2>3, <2>4, <2>6 DEF M!Pass
<1> QED
    BY <1>1, <1>2, <1>3, <1>4, <1>5, <1>6, <1>7, <1>8, <1>9, ConstantsAssumption
       DEF Next, Proceed, M!Next

(* qlock.c implements the abstract mutex: whatever a process sees of a     *)
(* QLock is a step of Mutex.tla, which has no list, no spin lock and no    *)
(* window between the handover and the ready().                            *)
THEOREM QlockImplementsMutex == Spec => ImplementsMutex
<1>1. Init => M!Init
    BY InitRefines
<1>2. IInv /\ IInv' /\ [Next]_vars => [M!Next]_(M!vars)
    BY StepRefines
<1> QED BY <1>1, <1>2, InvIInv, PTL DEF Spec, ImplementsMutex, M!Spec
=============================================================================
