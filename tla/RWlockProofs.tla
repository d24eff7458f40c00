---------------------------- MODULE RWlockProofs ----------------------------
(***************************************************************************)
(* Exclusion, true counters, no panic and no idle waiters of the RWlock    *)
(* for any set of processes, by an inductive invariant of RWlock.tla.      *)
(*                                                                         *)
(* The four are proved together, since each needs the others: runlock does *)
(* not panic because a list behind readers starts with a writer, a writer  *)
(* may enter at readers = 0 because readers counts the owners, and it      *)
(* counts them because the readers that wunlock wakes were not owners.     *)
(* What is added is about the hand-over: what the list holds, who has the  *)
(* spin lock, whom a process at its ready() has in hand, and that the loop *)
(* of wunlock ends with a reader inside.                                   *)
(***************************************************************************)
EXTENDS RWlock, SeqLemmas, FiniteSetTheorems

Readers == {p \in Proc : OwnsR(p)}
Waking == \E p \in Proc : pc[p] = "wunlock_wake"

UseInv == \A p \in Proc : pc[p] \in Critical <=> use = p

QueueInv ==
    /\ NoRepeat(queue)
    /\ \A p \in Range(queue) :
          \/ pc[p] = "rsched" /\ state[p] = "QueueingR"
          \/ pc[p] = "wsched" /\ state[p] = "QueueingW"

CountInv == IsFiniteSet(Readers) /\ readers = Cardinality(Readers)

(* In the loop of wunlock q->writer is set and nobody is a writer.         *)
WriterInv ==
    /\ Waking => writer /\ \A p \in Proc : ~OwnsW(p)
    /\ ~Waking => (writer <=> \E p \in Proc : OwnsW(p))

(* The loop of wunlock lets in at least one reader.                        *)
WakeInv == Waking => readers > 0 \/ (queue /= <<>> /\ state[Head(queue)] = "QueueingR")

(* NoIdleWaiters, inside the critical sections too.                        *)
HeadInv ==
    queue /= <<>> => writer \/ (readers > 0 /\ state[Head(queue)] = "QueueingW")

(* At most one process is at the ready() of a hand-over, and the process   *)
(* in its hand is a writer that has left the list and still sleeps.        *)
HandInv ==
    /\ \A q \in Proc : pc[q] = "ready" =>
            hand[q] \in Proc /\ Handed(hand[q], "wsched") /\ state[hand[q]] = "QueueingW"
    /\ \A q, r \in Proc : pc[q] = "ready" /\ pc[r] = "ready" => q = r

IInv ==
    /\ TypeOK /\ NoPanic /\ UseInv /\ QueueInv /\ ReadersWriterExclusion
    /\ CountInv /\ WriterInv /\ WakeInv /\ HeadInv /\ HandInv

-----------------------------------------------------------------------------
(* The list holds processes.                                               *)
LEMMA QueueOfProcs == TypeOK => Range(queue) \subseteq Proc
BY RangeOfSeq DEF TypeOK

(* The first of the list, and what is left without it.                     *)
LEMMA QueueHead ==
    ASSUME IInv, queue /= <<>>
    PROVE  /\ Head(queue) \in Proc /\ Head(queue) \in Range(queue)
           /\ Tail(queue) \in Seq(Proc) /\ NoRepeat(Tail(queue))
           /\ Range(Tail(queue)) = Range(queue) \ {Head(queue)}
<1>1. Head(queue) \in Proc /\ Tail(queue) \in Seq(Proc)
    BY HeadTailProperties DEF IInv, TypeOK
<1>2. /\ Range(Tail(queue)) = Range(queue) \ {Head(queue)}
      /\ Head(queue) \in Range(queue) /\ NoRepeat(Tail(queue))
    BY TailRange DEF IInv, TypeOK, QueueInv
<1> QED BY <1>1, <1>2

(* The first of the list stays the first when a process joins it.          *)
LEMMA AppendHead ==
    ASSUME NEW S, NEW s \in Seq(S), NEW e \in S
    PROVE  /\ Append(s, e) \in Seq(S) /\ Append(s, e) /= <<>>
           /\ Head(Append(s, e)) = IF s = <<>> THEN e ELSE Head(s)
<1>1. Append(s, e) \in Seq(S) /\ Len(Append(s, e)) = Len(s) + 1 /\ Len(s) \in Nat
    BY AppendProperties
<1>2. Append(s, e) /= <<>>
    BY <1>1
<1>3. CASE s = <<>>
    BY <1>3
<1>4. CASE s /= <<>>
  <2>1. Len(s) >= 1
      BY <1>1, <1>4, EmptySeq
  <2>2. Append(s, e)[1] = s[1]
      BY <2>1, AppendProperties
  <2> QED BY <1>1, <1>2, <1>4, <2>2
<1> QED BY <1>1, <1>2, <1>3, <1>4

(* What the counter of readers needs to know about a set of processes.     *)
LEMMA CountReaders ==
    ASSUME CountInv, NEW p \in Proc
    PROVE  /\ readers \in Nat
           /\ OwnsR(p) => readers >= 1
           /\ readers = 0 => \A q \in Proc : ~OwnsR(q)
           /\ OwnsR(p) /\ readers <= 1 => \A q \in Proc : OwnsR(q) => q = p
<1>1. IsFiniteSet(Readers) /\ readers = Cardinality(Readers) /\ readers \in Nat
    BY FS_CardinalityType DEF CountInv
<1>2. readers = 0 => Readers = {}
    BY <1>1, FS_EmptySet
<1>3. ASSUME OwnsR(p) PROVE readers >= 1
    BY <1>1, <1>2, <1>3 DEF Readers
<1>4. ASSUME OwnsR(p), readers <= 1 PROVE \A q \in Proc : OwnsR(q) => q = p
  <2>1. readers = 1
      BY <1>1, <1>3, <1>4
  <2>2. PICK x : Readers = {x}
      BY <1>1, <2>1, FS_Singleton
  <2> QED BY <1>4, <2>2 DEF Readers
<1> QED BY <1>1, <1>2, <1>3, <1>4 DEF Readers

(* The counter follows the set.                                            *)
LEMMA CountSame ==
    ASSUME CountInv, readers' = readers, \A q \in Proc : OwnsR(q)' <=> OwnsR(q)
    PROVE  CountInv'
<1>1. Readers' = Readers
    BY DEF Readers
<1> QED BY <1>1 DEF CountInv

LEMMA CountAdd ==
    ASSUME CountInv, NEW p \in Proc, ~OwnsR(p), readers' = readers + 1,
           \A q \in Proc : OwnsR(q)' <=> OwnsR(q) \/ q = p
    PROVE  CountInv'
<1>1. Readers' = Readers \cup {p} /\ p \notin Readers
    BY DEF Readers
<1> QED BY <1>1, FS_AddElement DEF CountInv

LEMMA CountRemove ==
    ASSUME CountInv, NEW p \in Proc, OwnsR(p), readers' = readers - 1,
           \A q \in Proc : OwnsR(q)' <=> OwnsR(q) /\ q /= p
    PROVE  CountInv'
<1>1. Readers' = Readers \ {p} /\ p \in Readers
    BY DEF Readers
<1> QED BY <1>1, FS_RemoveElement DEF CountInv

LEMMA InitIInv == Init => IInv
<1> SUFFICES ASSUME Init PROVE IInv
    OBVIOUS
<1>1. TypeOK
    BY ConstantsAssumption, EmptySeq DEF Init, TypeOK, PcSet
<1>2. QueueInv
    BY DEF Init, QueueInv, NoRepeat, Range
<1>3. \A p \in Proc : ~OwnsR(p) /\ ~OwnsW(p)
    BY DEF Init, OwnsR, OwnsW, Handed
<1>4. Readers = {}
    BY <1>3 DEF Readers
<1>5. CountInv
    BY <1>4, FS_EmptySet DEF CountInv, Init
<1>6. UseInv
    BY ConstantsAssumption DEF Init, UseInv, Critical
<1>7. NoPanic /\ ReadersWriterExclusion /\ WriterInv /\ WakeInv /\ HeadInv /\ HandInv
    BY <1>3 DEF Init, NoPanic, ReadersWriterExclusion, WriterInv, WakeInv, Waking,
                HeadInv, HandInv
<1> QED BY <1>1, <1>2, <1>5, <1>6, <1>7 DEF IInv

-----------------------------------------------------------------------------
(* A step of p that changes nothing but its own pc and the spin lock, and  *)
(* not what it owns.                                                       *)
LEMMA MoveIInv ==
    ASSUME IInv, NEW p \in Proc, NEW to \in PcSet \ {"panic"},
           pc' = [pc EXCEPT ![p] = to], TypeOK', UseInv',
           UNCHANGED <<readers, writer, queue, state, hand>>,
           pc[p] \notin {"rsched", "wsched", "ready", "wunlock_wake"},
           to \notin {"rsched", "wsched", "ready", "wunlock_wake"},
           pc[p] \in {"reading", "runlock_cs"} <=> to \in {"reading", "runlock_cs"},
           pc[p] \in {"writing", "wunlock_cs"} <=> to \in {"writing", "wunlock_cs"}
    PROVE  IInv'
<1>1. \A q \in Range(queue) : q \in Proc /\ q /= p
    BY QueueOfProcs DEF IInv, QueueInv
<1>2. QueueInv'
    BY <1>1 DEF IInv, QueueInv, TypeOK
<1>3. \A q \in Proc : (OwnsR(q)' <=> OwnsR(q)) /\ (OwnsW(q)' <=> OwnsW(q))
    BY DEF IInv, TypeOK, OwnsR, OwnsW, Handed
<1>4. Waking' <=> Waking
    BY DEF IInv, TypeOK, Waking
<1>5. CountInv'
    BY <1>3, CountSame DEF IInv
<1>6. NoPanic' /\ HandInv'
    BY DEF IInv, TypeOK, NoPanic, HandInv, Handed
<1>7. ReadersWriterExclusion' /\ WriterInv' /\ WakeInv' /\ HeadInv'
    BY <1>3, <1>4 DEF IInv, ReadersWriterExclusion, WriterInv, WakeInv, HeadInv
<1> QED BY <1>2, <1>5, <1>6, <1>7 DEF IInv

LEMMA LockUseIInv ==
    ASSUME IInv, NEW p \in Proc, NEW from, NEW to, LockUse(p, from, to),
           \/ from = "out" /\ to \in {"rlock_cs", "canrlock_cs", "wlock_cs"}
           \/ from = "reading" /\ to = "runlock_cs"
           \/ from = "writing" /\ to = "wunlock_cs"
    PROVE  IInv'
<1>1. TypeOK'
    BY DEF IInv, TypeOK, LockUse, Goto, PcSet, Critical
<1>2. UseInv'
    BY ConstantsAssumption DEF IInv, TypeOK, UseInv, LockUse, Goto, Critical
<1>3. /\ pc' = [pc EXCEPT ![p] = to] /\ pc[p] = from
      /\ UNCHANGED <<readers, writer, queue, state, hand>>
    BY DEF LockUse, Goto
<1>4. to \in PcSet \ {"panic"}
    BY DEF PcSet, Critical
<1> QED BY <1>1, <1>2, <1>3, <1>4, MoveIInv

(* p owns the spin lock, so nobody else is in a critical section.          *)
LEMMA Alone ==
    ASSUME IInv, NEW p \in Proc, pc[p] \in Critical
    PROVE  use = p /\ \A q \in Proc : pc[q] \in Critical => q = p
BY DEF IInv, UseInv

(* A reader enters: rlock and canrlock.                                    *)
LEMMA AdmitIInv ==
    ASSUME IInv, NEW p \in Proc, pc[p] \in {"rlock_cs", "canrlock_cs"}, MayRead, Admit(p)
    PROVE  IInv'
<1>1. use = p /\ \A q \in Proc : pc[q] \in Critical => q = p
    BY Alone DEF Critical
<1>2. /\ readers' = readers + 1 /\ use' = NoProc /\ pc' = [pc EXCEPT ![p] = "reading"]
      /\ writer' = writer /\ queue' = queue /\ state' = state /\ hand' = hand
      /\ ~writer /\ queue = <<>>
    BY DEF Admit, Goto, MayRead
<1>3. TypeOK'
    BY <1>2 DEF IInv, TypeOK, PcSet, Critical
<1>4. UseInv' /\ NoPanic'
    BY <1>1, <1>2, ConstantsAssumption DEF IInv, TypeOK, UseInv, NoPanic, Critical
<1>5. \A q \in Range(queue) : q \in Proc /\ q /= p
    BY QueueOfProcs DEF IInv, QueueInv
<1>6. QueueInv'
    BY <1>2, <1>5 DEF IInv, TypeOK, QueueInv
<1>7. ~Waking /\ ~Waking'
    BY <1>1, <1>2 DEF IInv, TypeOK, Waking, Critical
<1>8. \A q \in Proc : ~OwnsW(q)
    BY <1>2, <1>7 DEF IInv, WriterInv
<1>9. \A q \in Proc : (OwnsR(q)' <=> OwnsR(q) \/ q = p) /\ ~OwnsW(q)'
    BY <1>2, <1>8 DEF IInv, TypeOK, OwnsR, OwnsW, Handed
<1>10. ~OwnsR(p)
    BY DEF OwnsR, Handed
<1>11. CountInv'
    BY <1>2, <1>9, <1>10, CountAdd DEF IInv
<1>12. HandInv'
    BY <1>2 DEF IInv, TypeOK, HandInv, Handed
<1>13. ReadersWriterExclusion' /\ WriterInv' /\ WakeInv' /\ HeadInv'
    BY <1>2, <1>7, <1>9 DEF ReadersWriterExclusion, WriterInv, WakeInv, HeadInv
<1> QED BY <1>3, <1>4, <1>6, <1>11, <1>12, <1>13 DEF IInv

(* A process joins the list, where it is not idle: a writer is inside, or  *)
(* readers and a writer first in the list.                                 *)
LEMMA EnqueueIInv ==
    ASSUME IInv, NEW p \in Proc, pc[p] \in {"rlock_cs", "wlock_cs"},
           NEW s, NEW to, Enqueue(p, s, to),
           \/ s = "QueueingR" /\ to = "rsched" /\ (writer \/ queue /= <<>>)
           \/ s = "QueueingW" /\ to = "wsched" /\ (writer \/ readers > 0)
    PROVE  IInv'
<1>1. use = p /\ \A q \in Proc : pc[q] \in Critical => q = p
    BY Alone DEF Critical
<1>2. /\ queue' = Append(queue, p) /\ state' = [state EXCEPT ![p] = s]
      /\ pc' = [pc EXCEPT ![p] = to] /\ use' = NoProc
      /\ readers' = readers /\ writer' = writer /\ hand' = hand
    BY DEF Enqueue, Goto
<1>3. /\ queue' \in Seq(Proc) /\ queue' /= <<>>
      /\ Head(queue') = IF queue = <<>> THEN p ELSE Head(queue)
    BY <1>2, AppendHead DEF IInv, TypeOK
<1>4. TypeOK'
    BY <1>2, <1>3 DEF IInv, TypeOK, PcSet, Critical
<1>5. UseInv' /\ NoPanic'
    BY <1>1, <1>2, ConstantsAssumption DEF IInv, TypeOK, UseInv, NoPanic, Critical
<1>6. \A q \in Range(queue) : q \in Proc /\ q /= p
    BY QueueOfProcs DEF IInv, QueueInv
<1>7. Range(queue') = Range(queue) \cup {p} /\ NoRepeat(queue')
    BY <1>2, <1>6, AppendRange DEF IInv, TypeOK, QueueInv
<1>8. QueueInv'
    BY <1>2, <1>6, <1>7 DEF IInv, TypeOK, QueueInv
<1>9. ~Waking /\ ~Waking'
    BY <1>1, <1>2 DEF IInv, TypeOK, Waking, Critical
<1>10. \A q \in Proc : (OwnsR(q)' <=> OwnsR(q)) /\ (OwnsW(q)' <=> OwnsW(q))
    BY <1>2, <1>7 DEF IInv, TypeOK, OwnsR, OwnsW, Handed
<1>11. CountInv'
    BY <1>2, <1>10, CountSame DEF IInv
<1>12. HandInv'
    BY <1>2, <1>7 DEF IInv, TypeOK, HandInv, Handed
<1>13. ReadersWriterExclusion' /\ WriterInv' /\ WakeInv'
    BY <1>2, <1>9, <1>10 DEF IInv, ReadersWriterExclusion, WriterInv, WakeInv
<1>14. HeadInv'
  <2>1. queue /= <<>> => Head(queue) \in Proc /\ Head(queue) /= p
      BY <1>6, QueueHead
  <2> QED BY <1>2, <1>3, <2>1 DEF IInv, TypeOK, HeadInv
<1> QED BY <1>4, <1>5, <1>8, <1>11, <1>12, <1>13, <1>14 DEF IInv

LEMMA RlockIInv ==
    ASSUME IInv, NEW p \in Proc, Rlock(p)
    PROVE  IInv'
<1>1. CASE MayRead
    BY <1>1, AdmitIInv DEF Rlock
<1>2. CASE ~MayRead
    BY <1>2, EnqueueIInv DEF Rlock, MayRead
<1> QED BY <1>1, <1>2

LEMMA CanrlockIInv ==
    ASSUME IInv, NEW p \in Proc, Canrlock(p)
    PROVE  IInv'
<1>1. CASE MayRead
    BY <1>1, AdmitIInv DEF Canrlock
<1>2. CASE ~MayRead
  <2>1. use = p /\ \A q \in Proc : pc[q] \in Critical => q = p
      BY Alone DEF Canrlock, Critical
  <2>2. /\ pc[p] = "canrlock_cs" /\ use' = NoProc /\ pc' = [pc EXCEPT ![p] = "out"]
        /\ UNCHANGED <<readers, writer, queue, state, hand>>
      BY <1>2 DEF Canrlock, Goto
  <2>3. TypeOK'
      BY <2>2 DEF IInv, TypeOK, PcSet
  <2>4. UseInv'
      BY <2>1, <2>2, ConstantsAssumption DEF IInv, TypeOK, UseInv, Critical
  <2>5. "out" \in PcSet \ {"panic"}
      BY DEF PcSet
  <2> QED BY <2>2, <2>3, <2>4, <2>5, MoveIInv
<1> QED BY <1>1, <1>2

(* A process that was made ready comes back from sched() as an owner,      *)
(* which it was already.                                                   *)
LEMMA ResumeIInv ==
    ASSUME IInv, NEW p \in Proc, NEW from, NEW to, Resume(p, from, to),
           \/ from = "rsched" /\ to = "reading"
           \/ from = "wsched" /\ to = "writing"
    PROVE  IInv'
<1>1. /\ pc[p] = from /\ state[p] = "Ready" /\ state' = [state EXCEPT ![p] = "Running"]
      /\ pc' = [pc EXCEPT ![p] = to]
      /\ UNCHANGED <<readers, writer, queue, use, hand>>
    BY DEF Resume, Goto
<1>2. TypeOK'
    BY <1>1 DEF IInv, TypeOK, PcSet
<1>3. UseInv' /\ NoPanic'
    BY <1>1 DEF IInv, TypeOK, UseInv, NoPanic, Critical
<1>4. \A q \in Range(queue) : q \in Proc /\ q /= p
    BY <1>1, QueueOfProcs DEF IInv, QueueInv
<1>5. QueueInv'
    BY <1>1, <1>4 DEF IInv, TypeOK, QueueInv
<1>6. \A q \in Proc : (OwnsR(q)' <=> OwnsR(q)) /\ (OwnsW(q)' <=> OwnsW(q))
    BY <1>1, <1>4 DEF IInv, TypeOK, OwnsR, OwnsW, Handed
<1>7. Waking' <=> Waking
    BY <1>1 DEF IInv, TypeOK, Waking
<1>8. CountInv'
    BY <1>1, <1>6, CountSame DEF IInv
<1>9. HandInv'
    BY <1>1 DEF IInv, TypeOK, HandInv, Handed
<1>10. ReadersWriterExclusion' /\ WriterInv'
    BY <1>1, <1>6, <1>7 DEF IInv, ReadersWriterExclusion, WriterInv
<1>11. WakeInv' /\ HeadInv'
  <2>1. queue /= <<>> => Head(queue) \in Proc /\ Head(queue) /= p
      BY <1>4, QueueHead
  <2> QED BY <1>1, <1>7, <2>1 DEF IInv, TypeOK, WakeInv, HeadInv
<1> QED BY <1>2, <1>3, <1>5, <1>8, <1>9, <1>10, <1>11 DEF IInv

(* A writer enters a free lock, which nobody waits for.                    *)
LEMMA WlockIInv ==
    ASSUME IInv, NEW p \in Proc, Wlock(p)
    PROVE  IInv'
<1>1. CASE ~(readers = 0 /\ ~writer)
  <2>1. writer \/ readers > 0
      BY <1>1 DEF IInv, TypeOK
  <2> QED BY <1>1, <2>1, EnqueueIInv DEF Wlock
<1>2. CASE readers = 0 /\ ~writer
  <2>1. use = p /\ \A q \in Proc : pc[q] \in Critical => q = p
      BY Alone DEF Wlock, Critical
  <2>2. /\ pc[p] = "wlock_cs" /\ writer' = TRUE /\ use' = NoProc
        /\ pc' = [pc EXCEPT ![p] = "writing"]
        /\ UNCHANGED <<readers, queue, state, hand>>
      BY <1>2 DEF Wlock, Goto
  <2>3. TypeOK'
      BY <2>2 DEF IInv, TypeOK, PcSet
  <2>4. UseInv' /\ NoPanic'
      BY <2>1, <2>2, ConstantsAssumption DEF IInv, TypeOK, UseInv, NoPanic, Critical
  <2>5. \A q \in Range(queue) : q \in Proc /\ q /= p
      BY <2>2, QueueOfProcs DEF IInv, QueueInv
  <2>6. QueueInv'
      BY <2>2, <2>5 DEF IInv, TypeOK, QueueInv
  <2>7. ~Waking /\ ~Waking'
      BY <2>1, <2>2 DEF IInv, TypeOK, Waking, Critical
  <2>8. \A q \in Proc : ~OwnsW(q) /\ ~OwnsR(q)
      BY <1>2, <2>7, CountReaders DEF IInv, WriterInv
  <2>9. \A q \in Proc : (OwnsR(q)' <=> OwnsR(q)) /\ (OwnsW(q)' <=> q = p)
      BY <2>2, <2>8 DEF IInv, TypeOK, OwnsR, OwnsW, Handed
  <2>10. CountInv'
      BY <2>2, <2>9, CountSame DEF IInv
  <2>11. HandInv'
      BY <2>2 DEF IInv, TypeOK, HandInv, Handed
  <2>12. ReadersWriterExclusion' /\ WriterInv' /\ WakeInv' /\ HeadInv'
      BY <2>2, <2>7, <2>8, <2>9 DEF ReadersWriterExclusion, WriterInv, WakeInv, HeadInv
  <2> QED BY <2>3, <2>4, <2>6, <2>10, <2>11, <2>12 DEF IInv
<1> QED BY <1>1, <1>2

(* The only owner p, a reader or a writer, hands the lock to the writer    *)
(* that is first in the list: runlock and wunlock.                         *)
LEMMA DequeueIInv ==
    ASSUME IInv, NEW p \in Proc, Dequeue(p), queue /= <<>>,
           state[Head(queue)] = "QueueingW", writer' = TRUE,
           \/ pc[p] = "runlock_cs" /\ readers <= 1 /\ readers' = readers - 1
           \/ pc[p] = "wunlock_cs" /\ readers' = readers
    PROVE  IInv'
<1> DEFINE h == Head(queue)
<1>1. use = p /\ \A q \in Proc : pc[q] \in Critical => q = p
    BY Alone DEF Critical
<1>2. /\ hand' = [hand EXCEPT ![p] = h] /\ queue' = Tail(queue) /\ use' = NoProc
      /\ pc' = [pc EXCEPT ![p] = "ready"] /\ state' = state /\ state[h] = "QueueingW"
    BY DEF Dequeue, Goto
<1>3. /\ h \in Proc /\ h \in Range(queue)
      /\ queue' \in Seq(Proc) /\ NoRepeat(queue') /\ Range(queue') = Range(queue) \ {h}
    BY <1>2, QueueHead
<1> HIDE DEF h
<1>4. \A q \in Range(queue) : q \in Proc /\ q /= p
    BY QueueOfProcs DEF IInv, QueueInv
<1>5. pc[h] = "wsched" /\ h /= p
    BY <1>2, <1>3, <1>4 DEF IInv, QueueInv
<1>6. OwnsR(p) \/ OwnsW(p)
    BY DEF OwnsR, OwnsW
<1>7. OwnsR(p) <=> pc[p] = "runlock_cs"
    BY DEF OwnsR, Handed
<1>8. \A q \in Proc : q /= p => ~OwnsW(q) /\ ~OwnsR(q)
  <2>1. CASE pc[p] = "runlock_cs"
    <3>1. \A q \in Proc : OwnsR(q) => q = p
        BY <1>7, <2>1, CountReaders DEF IInv
    <3> QED BY <1>7, <2>1, <3>1 DEF IInv, ReadersWriterExclusion
  <2>2. CASE pc[p] = "wunlock_cs"
    <3>1. OwnsW(p)
        BY <2>2 DEF OwnsW
    <3> QED BY <3>1 DEF IInv, ReadersWriterExclusion
  <2> QED BY <2>1, <2>2
<1>9. readers' \in Nat
    BY <1>7, CountReaders DEF IInv
<1>10. TypeOK'
    BY <1>2, <1>3, <1>9 DEF IInv, TypeOK, PcSet
<1>11. UseInv' /\ NoPanic'
    BY <1>1, <1>2, ConstantsAssumption DEF IInv, TypeOK, UseInv, NoPanic, Critical
<1>12. QueueInv'
    BY <1>2, <1>3, <1>4 DEF IInv, TypeOK, QueueInv
<1>13. \A q \in Proc : pc[q] /= "ready"
  <2> SUFFICES ASSUME NEW q \in Proc, pc[q] = "ready" PROVE FALSE
      OBVIOUS
  <2>1. hand[q] \in Proc /\ OwnsW(hand[q]) /\ hand[q] /= p
      BY DEF IInv, HandInv, OwnsW, Handed
  <2> QED BY <2>1, <1>8
<1>14. ~Waking /\ ~Waking'
    BY <1>1, <1>2 DEF IInv, TypeOK, Waking, Critical
<1>15. \A q \in Proc : ~OwnsR(q)' /\ (OwnsW(q)' <=> q = h)
    BY <1>2, <1>3, <1>5, <1>8 DEF IInv, TypeOK, OwnsR, OwnsW, Handed
<1>16. CountInv'
  <2>1. CASE pc[p] = "runlock_cs"
      BY <1>7, <1>8, <1>15, <2>1, CountRemove DEF IInv
  <2>2. CASE pc[p] = "wunlock_cs"
      BY <1>7, <1>8, <1>15, <2>2, CountSame DEF IInv
  <2> QED BY <2>1, <2>2
<1>17. HandInv'
    BY <1>2, <1>3, <1>5, <1>13 DEF IInv, TypeOK, HandInv, Handed
<1>18. ReadersWriterExclusion' /\ WriterInv' /\ WakeInv' /\ HeadInv'
    BY <1>3, <1>14, <1>15 DEF ReadersWriterExclusion, WriterInv, WakeInv, HeadInv
<1> QED BY <1>10, <1>11, <1>12, <1>16, <1>17, <1>18 DEF IInv

(* Behind readers there is no writer inside, so a list that is not empty   *)
(* starts with a writer and runlock does not panic.                        *)
LEMMA RunlockIInv ==
    ASSUME IInv, NEW p \in Proc, Runlock(p)
    PROVE  IInv'
<1>1. use = p /\ \A q \in Proc : pc[q] \in Critical => q = p
    BY Alone DEF Runlock, Critical
<1>2. pc[p] = "runlock_cs" /\ OwnsR(p) /\ ~OwnsW(p)
    BY DEF Runlock, OwnsR, OwnsW, Handed
<1>3. readers \in Nat /\ readers >= 1
    BY <1>2, CountReaders DEF IInv
<1>4. ~Waking
    BY <1>1, <1>2 DEF Waking, Critical
<1>5. \A q \in Proc : ~OwnsW(q)
    BY <1>2 DEF IInv, ReadersWriterExclusion
<1>6. ~writer
    BY <1>4, <1>5 DEF IInv, WriterInv
<1>7. queue /= <<>> => state[Head(queue)] = "QueueingW"
    BY <1>6 DEF IInv, HeadInv
<1>8. CASE readers > 1 \/ queue = <<>>
  <2>1. /\ readers' = readers - 1 /\ use' = NoProc /\ pc' = [pc EXCEPT ![p] = "out"]
        /\ writer' = writer /\ queue' = queue /\ state' = state /\ hand' = hand
      BY <1>8 DEF Runlock, Goto
  <2>2. TypeOK'
      BY <1>3, <2>1 DEF IInv, TypeOK, PcSet
  <2>3. UseInv' /\ NoPanic'
      BY <1>1, <2>1, ConstantsAssumption DEF IInv, TypeOK, UseInv, NoPanic, Critical
  <2>4. \A q \in Range(queue) : q \in Proc /\ q /= p
      BY <1>2, QueueOfProcs DEF IInv, QueueInv
  <2>5. QueueInv'
      BY <2>1, <2>4 DEF IInv, TypeOK, QueueInv
  <2>6. \A q \in Proc : (OwnsR(q)' <=> OwnsR(q) /\ q /= p) /\ ~OwnsW(q)'
      BY <1>2, <1>5, <2>1 DEF IInv, TypeOK, OwnsR, OwnsW, Handed
  <2>7. CountInv'
      BY <1>2, <2>1, <2>6, CountRemove DEF IInv
  <2>8. ~Waking'
      BY <1>4, <2>1 DEF IInv, TypeOK, Waking
  <2>9. HandInv'
      BY <1>2, <2>1 DEF IInv, TypeOK, HandInv, Handed
  <2>10. ReadersWriterExclusion' /\ WriterInv' /\ WakeInv'
      BY <1>6, <2>1, <2>6, <2>8 DEF ReadersWriterExclusion, WriterInv, WakeInv
  <2>11. HeadInv'
      BY <1>3, <1>7, <1>8, <2>1 DEF HeadInv
  <2> QED BY <2>2, <2>3, <2>5, <2>7, <2>9, <2>10, <2>11 DEF IInv
<1>9. CASE ~(readers > 1 \/ queue = <<>>)
  <2>1. /\ Dequeue(p) /\ writer' = TRUE /\ readers' = readers - 1
        /\ queue /= <<>> /\ state[Head(queue)] = "QueueingW"
      BY <1>7, <1>9 DEF Runlock
  <2>2. readers <= 1
      BY <1>3, <1>9
  <2> QED BY <1>2, <2>1, <2>2, DequeueIInv
<1> QED BY <1>8, <1>9

LEMMA WunlockIInv ==
    ASSUME IInv, NEW p \in Proc, Wunlock(p)
    PROVE  IInv'
<1>1. use = p /\ \A q \in Proc : pc[q] \in Critical => q = p
    BY Alone DEF Wunlock, Critical
<1>2. pc[p] = "wunlock_cs" /\ OwnsW(p) /\ ~OwnsR(p)
    BY DEF Wunlock, OwnsR, OwnsW, Handed
<1>3. \A q \in Proc : q /= p => ~OwnsW(q) /\ ~OwnsR(q)
    BY <1>2 DEF IInv, ReadersWriterExclusion
<1>4. ~Waking
    BY <1>1, <1>2 DEF Waking, Critical
<1>5. writer
    BY <1>2, <1>4 DEF IInv, WriterInv
<1>6. \A q \in Range(queue) : q \in Proc /\ q /= p
    BY <1>2, QueueOfProcs DEF IInv, QueueInv
<1>7. CASE queue = <<>>
  <2>1. /\ readers' = readers /\ use' = NoProc /\ pc' = [pc EXCEPT ![p] = "out"]
        /\ writer' = FALSE /\ queue' = queue /\ state' = state /\ hand' = hand
      BY <1>7 DEF Wunlock, Goto
  <2>2. TypeOK'
      BY <2>1 DEF IInv, TypeOK, PcSet
  <2>3. UseInv' /\ NoPanic'
      BY <1>1, <2>1, ConstantsAssumption DEF IInv, TypeOK, UseInv, NoPanic, Critical
  <2>4. QueueInv'
      BY <2>1, <1>6 DEF IInv, TypeOK, QueueInv
  <2>5. \A q \in Proc : (OwnsR(q)' <=> OwnsR(q)) /\ ~OwnsW(q)'
      BY <1>2, <1>3, <2>1 DEF IInv, TypeOK, OwnsR, OwnsW, Handed
  <2>6. CountInv'
      BY <2>1, <2>5, CountSame DEF IInv
  <2>7. ~Waking'
      BY <1>4, <2>1 DEF IInv, TypeOK, Waking
  <2>8. HandInv'
      BY <1>2, <2>1 DEF IInv, TypeOK, HandInv, Handed
  <2>9. ReadersWriterExclusion' /\ WriterInv' /\ WakeInv' /\ HeadInv'
      BY <1>7, <2>1, <2>5, <2>7 DEF ReadersWriterExclusion, WriterInv, WakeInv, HeadInv
  <2> QED BY <2>2, <2>3, <2>4, <2>6, <2>8, <2>9 DEF IInv
<1>8. CASE queue /= <<>> /\ state[Head(queue)] = "QueueingW"
  <2>1. Dequeue(p) /\ readers' = readers /\ writer' = TRUE
      BY <1>5, <1>8 DEF IInv, TypeOK, Wunlock
  <2> QED BY <1>2, <1>8, <2>1, DequeueIInv
<1>9. CASE queue /= <<>> /\ state[Head(queue)] /= "QueueingW"
  <2>1. state[Head(queue)] = "QueueingR"
      BY <1>9, QueueHead DEF IInv, QueueInv
  <2>2. /\ pc' = [pc EXCEPT ![p] = "wunlock_wake"]
        /\ UNCHANGED <<readers, writer, queue, use, state, hand>>
      BY <1>9, <2>1 DEF Wunlock, Goto
  <2>3. TypeOK'
      BY <2>2 DEF IInv, TypeOK, PcSet, Critical
  <2>4. UseInv' /\ NoPanic'
      BY <1>2, <2>2 DEF IInv, TypeOK, UseInv, NoPanic, Critical
  <2>5. QueueInv'
      BY <2>2, <1>6 DEF IInv, TypeOK, QueueInv
  <2>6. \A q \in Proc : (OwnsR(q)' <=> OwnsR(q)) /\ ~OwnsW(q)'
      BY <1>2, <1>3, <2>2 DEF IInv, TypeOK, OwnsR, OwnsW, Handed
  <2>7. CountInv'
      BY <2>2, <2>6, CountSame DEF IInv
  <2>8. Waking'
      BY <2>2 DEF IInv, TypeOK, Waking
  <2>9. HandInv'
      BY <1>2, <2>2 DEF IInv, TypeOK, HandInv, Handed
  <2>10. ReadersWriterExclusion' /\ WriterInv' /\ WakeInv' /\ HeadInv'
      BY <1>5, <1>9, <2>1, <2>2, <2>6, <2>8
         DEF ReadersWriterExclusion, WriterInv, WakeInv, HeadInv
  <2> QED BY <2>3, <2>4, <2>5, <2>7, <2>9, <2>10 DEF IInv
<1> QED BY <1>7, <1>8, <1>9

(* One round of the loop of wunlock lets in the first reader of the list;  *)
(* at its end the readers that were let in have the lock.                  *)
LEMMA WunlockWakeIInv ==
    ASSUME IInv, NEW p \in Proc, WunlockWake(p)
    PROVE  IInv'
<1> DEFINE h == Head(queue)
<1>1. use = p /\ \A q \in Proc : pc[q] \in Critical => q = p
    BY Alone DEF WunlockWake, Critical
<1>2. pc[p] = "wunlock_wake" /\ Waking
    BY DEF WunlockWake, Waking
<1>3. writer /\ \A q \in Proc : ~OwnsW(q)
    BY <1>2 DEF IInv, WriterInv
<1>4. \A q \in Range(queue) : q \in Proc /\ q /= p
    BY <1>2, QueueOfProcs DEF IInv, QueueInv
<1>5. CASE queue /= <<>> /\ state[h] = "QueueingR"
  <2>1. /\ queue' = Tail(queue) /\ readers' = readers + 1
        /\ state' = [state EXCEPT ![h] = "Ready"]
        /\ writer' = writer /\ use' = use /\ pc' = pc /\ hand' = hand
      BY <1>5 DEF WunlockWake
  <2>2. /\ h \in Proc /\ h \in Range(queue)
        /\ queue' \in Seq(Proc) /\ NoRepeat(queue') /\ Range(queue') = Range(queue) \ {h}
      BY <1>5, <2>1, QueueHead
  <2>3. state[h] = "QueueingR"
      BY <1>5
  <2> HIDE DEF h
  <2>4. pc[h] = "rsched"
      BY <2>2, <2>3 DEF IInv, QueueInv
  <2>5. TypeOK'
      BY <2>1, <2>2 DEF IInv, TypeOK
  <2>6. UseInv' /\ NoPanic' /\ Waking'
      BY <1>2, <2>1 DEF IInv, UseInv, NoPanic, Waking
  <2>7. QueueInv'
      BY <1>4, <2>1, <2>2 DEF IInv, TypeOK, QueueInv
  <2>8. \A q \in Proc : (OwnsR(q)' <=> OwnsR(q) \/ q = h) /\ ~OwnsW(q)'
      BY <1>3, <2>1, <2>2, <2>4 DEF OwnsR, OwnsW, Handed
  <2>9. ~OwnsR(h)
      BY <2>2, <2>4 DEF OwnsR, Handed
  <2>10. CountInv'
      BY <2>1, <2>2, <2>8, <2>9, CountAdd DEF IInv
  <2>11. HandInv'
      BY <2>1, <2>2, <2>3 DEF IInv, TypeOK, HandInv, Handed
  <2>12. readers' > 0
      BY <2>1 DEF IInv, TypeOK
  <2>13. ReadersWriterExclusion' /\ WriterInv' /\ WakeInv' /\ HeadInv'
      BY <1>3, <2>1, <2>6, <2>8, <2>12 DEF ReadersWriterExclusion, WriterInv, WakeInv, HeadInv
  <2> QED BY <2>5, <2>6, <2>7, <2>10, <2>11, <2>13 DEF IInv
<1>6. CASE ~(queue /= <<>> /\ state[h] = "QueueingR")
  <2>1. /\ writer' = FALSE /\ use' = NoProc /\ pc' = [pc EXCEPT ![p] = "out"]
        /\ readers' = readers /\ queue' = queue /\ state' = state /\ hand' = hand
      BY <1>6 DEF WunlockWake, Goto
  <2>2. readers > 0
      BY <1>2, <1>6 DEF IInv, WakeInv
  <2>3. queue /= <<>> => state[h] = "QueueingW"
      BY <1>6, QueueHead DEF IInv, QueueInv
  <2>4. TypeOK'
      BY <2>1 DEF IInv, TypeOK, PcSet
  <2>5. UseInv' /\ NoPanic'
      BY <1>1, <2>1, ConstantsAssumption DEF IInv, TypeOK, UseInv, NoPanic, Critical
  <2>6. QueueInv'
      BY <1>4, <2>1 DEF IInv, TypeOK, QueueInv
  <2>7. \A q \in Proc : (OwnsR(q)' <=> OwnsR(q)) /\ ~OwnsW(q)'
      BY <1>2, <1>3, <2>1 DEF IInv, TypeOK, OwnsR, OwnsW, Handed
  <2>8. CountInv'
      BY <2>1, <2>7, CountSame DEF IInv
  <2>9. ~Waking'
      BY <1>1, <2>1 DEF IInv, TypeOK, Waking, Critical
  <2>10. HandInv'
      BY <1>2, <2>1 DEF IInv, TypeOK, HandInv, Handed
  <2>11. ReadersWriterExclusion' /\ WriterInv' /\ WakeInv' /\ HeadInv'
      BY <2>1, <2>2, <2>3, <2>7, <2>9 DEF ReadersWriterExclusion, WriterInv, WakeInv, HeadInv
  <2> QED BY <2>4, <2>5, <2>6, <2>8, <2>10, <2>11 DEF IInv
<1> QED BY <1>5, <1>6

LEMMA HandoverReadyIInv ==
    ASSUME IInv, NEW p \in Proc, HandoverReady(p)
    PROVE  IInv'
<1> DEFINE h == hand[p]
<1>1. /\ pc[p] = "ready" /\ state' = [state EXCEPT ![h] = "Ready"]
      /\ hand' = [hand EXCEPT ![p] = NoProc] /\ pc' = [pc EXCEPT ![p] = "out"]
      /\ UNCHANGED <<readers, writer, queue, use>>
    BY DEF HandoverReady, Goto
<1>2. h \in Proc /\ Handed(h, "wsched") /\ h /= p /\ h \notin Range(queue)
    BY <1>1 DEF IInv, HandInv, Handed
<1>3. \A q \in Proc : pc[q] = "ready" => q = p
    BY <1>1 DEF IInv, HandInv
<1> HIDE DEF h
<1>4. TypeOK'
    BY <1>1, <1>2 DEF IInv, TypeOK, PcSet
<1>5. UseInv' /\ NoPanic'
    BY <1>1 DEF IInv, TypeOK, UseInv, NoPanic, Critical
<1>6. \A q \in Range(queue) : q \in Proc /\ q /= p /\ q /= h
    BY <1>1, <1>2, QueueOfProcs DEF IInv, QueueInv
<1>7. QueueInv'
    BY <1>1, <1>6 DEF IInv, TypeOK, QueueInv
<1>8. \A q \in Proc : (OwnsR(q)' <=> OwnsR(q)) /\ (OwnsW(q)' <=> OwnsW(q))
    BY <1>1 DEF IInv, TypeOK, OwnsR, OwnsW, Handed
<1>9. Waking' <=> Waking
    BY <1>1 DEF IInv, TypeOK, Waking
<1>10. CountInv'
    BY <1>1, <1>8, CountSame DEF IInv
<1>11. HandInv'
    BY <1>1, <1>3 DEF IInv, TypeOK, HandInv
<1>12. ReadersWriterExclusion' /\ WriterInv'
    BY <1>1, <1>8, <1>9 DEF IInv, ReadersWriterExclusion, WriterInv
<1>13. WakeInv' /\ HeadInv'
  <2>1. queue /= <<>> => Head(queue) \in Proc /\ Head(queue) /= h
      BY <1>6, QueueHead
  <2> QED BY <1>1, <1>9, <2>1 DEF IInv, TypeOK, WakeInv, HeadInv
<1> QED BY <1>4, <1>5, <1>7, <1>10, <1>11, <1>12, <1>13 DEF IInv

LEMMA StepIInv == IInv /\ [Next]_vars => IInv'
<1> SUFFICES ASSUME IInv, [Next]_vars PROVE IInv'
    OBVIOUS
<1>1. CASE UNCHANGED vars
  <2>1. \A q \in Proc : (OwnsR(q)' <=> OwnsR(q)) /\ (OwnsW(q)' <=> OwnsW(q))
      BY <1>1 DEF vars, OwnsR, OwnsW, Handed
  <2>2. CountInv'
      BY <1>1, <2>1, CountSame DEF IInv, vars
  <2> QED BY <1>1, <2>1, <2>2 DEF vars, IInv, TypeOK, NoPanic, UseInv, QueueInv, Waking,
             ReadersWriterExclusion, WriterInv, WakeInv, HeadInv, HandInv, Handed
<1>2. ASSUME NEW p \in Proc, RlockStart(p) \/ WlockStart(p) \/ CanrlockStart(p)
                                \/ RunlockStart(p) \/ WunlockStart(p)
      PROVE  IInv'
    BY <1>2, LockUseIInv
       DEF RlockStart, WlockStart, CanrlockStart, RunlockStart, WunlockStart
<1>3. ASSUME NEW p \in Proc, RlockResume(p) \/ WlockResume(p)
      PROVE  IInv'
    BY <1>3, ResumeIInv DEF RlockResume, WlockResume
<1>4. ASSUME NEW p \in Proc, \/ Rlock(p) \/ Canrlock(p) \/ Runlock(p) \/ Wlock(p)
                             \/ Wunlock(p) \/ WunlockWake(p) \/ HandoverReady(p)
      PROVE  IInv'
    BY <1>4, RlockIInv, CanrlockIInv, RunlockIInv, WlockIInv, WunlockIInv,
       WunlockWakeIInv, HandoverReadyIInv
<1> QED BY <1>1, <1>2, <1>3, <1>4, ConstantsAssumption DEF Next, Proceed

LEMMA InvIInv == Spec => []IInv
BY InitIInv, StepIInv, PTL DEF Spec

-----------------------------------------------------------------------------
(* One writer, or readers only, for any number of processes: also while    *)
(* wunlock lets in readers one by one and after a hand-over.               *)
THEOREM RWlockExclusion == Spec => []ReadersWriterExclusion
BY InvIInv, PTL DEF IInv

(* q->readers is the number of processes that have the lock for reading,   *)
(* it never wraps below zero, and q->writer says whether there is a writer.*)
THEOREM RWlockCountersTrue == Spec => []CountersTrue
<1>1. IInv => CountersTrue
    BY DEF IInv, CountInv, Readers, WriterInv, Waking, CountersTrue
<1> QED BY <1>1, InvIInv, PTL

(* The panics of runlock and wunlock are out of reach.                     *)
THEOREM RWlockNoPanic == Spec => []NoPanic
BY InvIInv, PTL DEF IInv

(* Nobody waits for a lock that is free, and no reader waits behind        *)
(* readers only.                                                           *)
THEOREM RWlockNoIdleWaiters == Spec => []NoIdleWaiters
<1>1. IInv => NoIdleWaiters
    BY DEF IInv, HeadInv, NoIdleWaiters
<1> QED BY <1>1, InvIInv, PTL
=============================================================================
