---------------------------- MODULE TimersProofs ----------------------------
(***************************************************************************)
(* Proofs about the timers, for any number of processes, processors and    *)
(* Rendezs and any timeouts: the lists are sorted and true, no timer is    *)
(* put in a list twice, and no clock is set later than the first timer.    *)
(*                                                                         *)
(* What the lists need besides: the timers that timerintr holds (ItInv)    *)
(* and the timer of the HZ clock, which is in the list of its processor    *)
(* or in the hands of timerintr (HzInv), so that a list is never empty     *)
(* when the clock has to be set for its first timer.                       *)
(***************************************************************************)
EXTENDS Timers, SeqLemmas

(* l holds the timers T, each one once, in the order of their times r.     *)
ListOK(l, T, r) ==
    /\ l \in Seq(Timer) /\ Range(l) = T /\ NoRepeat(l)
    /\ \A i \in 1 .. Len(l) - 1 : r[l[i]] <= r[l[i + 1]]

(* Position k of l is the one for a timer due in d.                        *)
Fits(l, k, r, d) ==
    /\ k \in 1 .. Len(l) + 1
    /\ \A i \in 1 .. Len(l) : i < k => r[l[i]] <= d
    /\ k <= Len(l) => r[l[k]] > d

In(c) == {t \in Timer : tt[t] = c}

ListInv == \A c \in Cpu : ListOK(list[c], In(c), rem)

ItInv ==
    \A c \in Cpu :
        /\ ipc[c] \in {"none", "loop"} => it[c] = NoTimer
        /\ ipc[c] \in {"clear", "wake"} => it[c] \in Proc
        /\ ipc[c] \in {"call", "again"} => it[c] \in Proc \cup {c}

HzInv == \A c \in Cpu : tt[c] = IF it[c] = c THEN NoCpu ELSE c

PcInv == \A p \in Proc : pc[p] \in {"run", "add"} => tt[p] = NoCpu

IInv == TypeOK /\ ListInv /\ ItInv /\ HzInv /\ PcInv /\ ClockInTime

-----------------------------------------------------------------------------
(* What a list loses or gets, and times that change in the same order,     *)
(* leave it in order.                                                      *)
LEMMA SameOrderOK ==
    ASSUME NEW l, NEW T, NEW r, NEW r2, ListOK(l, T, r),
           \A t, u \in T : r[t] <= r[u] => r2[t] <= r2[u]
    PROVE  ListOK(l, T, r2)
<1>1. Len(l) \in Nat /\ \A i \in 1 .. Len(l) : l[i] \in T
    BY InRange, LenProperties DEF ListOK
<1>2. \A i \in 1 .. Len(l) - 1 : i \in 1 .. Len(l) /\ i + 1 \in 1 .. Len(l)
    BY <1>1
<1> QED BY <1>1, <1>2 DEF ListOK

LEMMA FirstOf ==
    ASSUME NEW l, NEW T, NEW r, ListOK(l, T, r)
    PROVE  /\ Len(l) \in Nat
           /\ \A t \in T : \E i \in 1 .. Len(l) : l[i] = t
           /\ \A i \in 1 .. Len(l) : l[i] \in T
           /\ T /= {} => l /= <<>> /\ Len(l) > 0 /\ Head(l) = l[1] /\ Head(l) \in T
<1>1. Len(l) \in Nat /\ \A i \in 1 .. Len(l) : l[i] \in T
    BY InRange, LenProperties DEF ListOK
<1>2. \A t \in T : \E i \in 1 .. Len(l) : l[i] = t
    BY InRange DEF ListOK
<1>3. ASSUME T /= {} PROVE Len(l) > 0 /\ 1 \in 1 .. Len(l)
    BY <1>1, <1>2, <1>3
<1> QED BY <1>1, <1>2, <1>3 DEF ListOK

LEMMA InsertOK ==
    ASSUME NEW l, NEW T, NEW r \in [Timer -> Nat], ListOK(l, T, r),
           NEW t \in Timer, t \notin T, NEW r2 \in [Timer -> Nat],
           \A u \in T : r2[u] = r[u],
           NEW k, Fits(l, k, r, r2[t])
    PROVE  /\ ListOK(InsertAt(l, k, t), T \cup {t}, r2)
           /\ Head(InsertAt(l, k, t)) = IF k = 1 THEN t ELSE Head(l)
<1> DEFINE m == InsertAt(l, k, t)
<1>1. l \in Seq(Timer) /\ Range(l) = T /\ NoRepeat(l) /\ Len(l) \in Nat
         /\ k \in Nat /\ 1 <= k /\ k <= Len(l) + 1 /\ k \in 1 .. Len(l) + 1
    BY LenProperties DEF ListOK, Fits
<1>2. m \in Seq(Timer) /\ Range(m) = T \cup {t} /\ NoRepeat(m) /\ Len(m) = Len(l) + 1
    BY <1>1, InsertAtElements, InsertAtRange
<1>3. /\ \A i \in 1 .. k - 1 : m[i] = l[i]
      /\ m[k] = t
      /\ \A i \in k .. Len(l) : m[i + 1] = l[i]
    BY <1>1, InsertAtElements
<1>4. \A i \in 1 .. Len(l) : l[i] \in Timer /\ r2[l[i]] = r[l[i]]
    BY <1>1, InRange, ElementOfSeq
<1>5. \A u \in Timer : r[u] \in Nat /\ r2[u] \in Nat
    OBVIOUS
<1> HIDE DEF m
<1>7. ASSUME NEW i \in 1 .. Len(m) - 1 PROVE r2[m[i]] <= r2[m[i + 1]]
  <2>0. i \in Nat /\ 1 <= i /\ i <= Len(l) /\ i \in 1 .. Len(l) + 1 /\ i + 1 \in 1 .. Len(l) + 1
      BY <1>1, <1>2
  <2>1. CASE i + 1 < k
    <3>1. i \in 1 .. Len(l) - 1 /\ i + 1 \in 1 .. Len(l)
             /\ i \in 1 .. k - 1 /\ i + 1 \in 1 .. k - 1
        BY <1>1, <2>0, <2>1
    <3>2. m[i] = l[i] /\ m[i + 1] = l[i + 1] /\ r[l[i]] <= r[l[i + 1]]
        BY <1>3, <3>1 DEF ListOK
    <3> QED BY <1>4, <1>5, <2>0, <3>1, <3>2
  <2>2. CASE i + 1 = k
    <3>0. i \in 1 .. k - 1 /\ i < k /\ i \in 1 .. Len(l)
        BY <1>1, <2>0, <2>2
    <3>1. m[i] = l[i] /\ m[i + 1] = t
        BY <1>3, <2>2, <3>0
    <3>2. r[l[i]] <= r2[t]
        BY <3>0 DEF Fits
    <3> QED BY <1>4, <1>5, <3>0, <3>1, <3>2
  <2>3. CASE i = k
    <3>1. m[i] = t /\ m[i + 1] = l[i] /\ i \in 1 .. Len(l)
        BY <1>1, <1>3, <2>0, <2>3
    <3>2. r[l[i]] > r2[t]
        BY <2>0, <2>3 DEF Fits
    <3> QED BY <1>4, <1>5, <3>1, <3>2
  <2>4. CASE i > k
    <3>1. i - 1 \in 1 .. Len(l) - 1 /\ i - 1 \in 1 .. Len(l) /\ i \in 1 .. Len(l) /\ (i - 1) + 1 = i
        BY <1>1, <2>0, <2>4
    <3>2. m[i] = l[i - 1] /\ m[i + 1] = l[i]
      <4>1. i \in k .. Len(l) /\ i - 1 \in k .. Len(l) /\ (i - 1) + 1 = i
          BY <1>1, <2>0, <2>4
      <4> QED BY <1>3, <4>1
    <3>3. r[l[i - 1]] <= r[l[i]]
        BY <3>1 DEF ListOK
    <3> QED BY <1>4, <1>5, <3>1, <3>2, <3>3
  <2>5. i + 1 < k \/ i + 1 = k \/ i = k \/ i > k
      BY <1>1, <2>0
  <2> QED BY <2>1, <2>2, <2>3, <2>4, <2>5
<1>8. ListOK(m, T \cup {t}, r2)
    BY <1>2, <1>7 DEF ListOK
<1>9. Head(m) = m[1]
    BY <1>1, <1>2
<1>10. Head(m) = IF k = 1 THEN t ELSE Head(l)
  <2>1. CASE k = 1
      BY <1>1, <1>3, <1>9, <2>1
  <2>2. CASE k /= 1
    <3>1. l /= <<>> /\ Head(l) = l[1] /\ 1 < k
        BY <1>1, <2>2
    <3> QED BY <1>1, <1>3, <1>9, <3>1
  <2> QED BY <2>1, <2>2
<1> QED BY <1>8, <1>10 DEF m

LEMMA RemoveOK ==
    ASSUME NEW l, NEW T, NEW r \in [Timer -> Nat], ListOK(l, T, r), NEW p \in T
    PROVE  /\ ListOK(RemoveFirst(l, p), T \ {p}, r)
           /\ Head(l) /= p => Head(RemoveFirst(l, p)) = Head(l)
           /\ Head(l) = p /\ T /= {p} =>
                /\ Len(l) > 1 /\ l[2] \in T \ {p} /\ r[p] <= r[l[2]]
                /\ Head(RemoveFirst(l, p)) = l[2]
<1> DEFINE m == RemoveFirst(l, p)
<1>1. l \in Seq(Timer) /\ Range(l) = T /\ NoRepeat(l) /\ Len(l) \in Nat
    BY LenProperties DEF ListOK
<1>2. PICK k \in 1 .. Len(l) : l[k] = p
    BY FirstOf
<1>3. m = RemoveAt(l, k)
  <2>1. {i \in 1 .. Len(l) : l[i] = p} = {k}
      BY <1>1, <1>2 DEF NoRepeat
  <2>2. k \in Nat
      BY <1>1
  <2>3. Min({k}) = k
      BY <2>2 DEF Min
  <2> QED BY <1>2, <2>1, <2>3 DEF RemoveFirst, SelectInSeq
<1>4. m \in Seq(Timer) /\ Range(m) = T \ {p} /\ NoRepeat(m) /\ Len(m) = Len(l) - 1
  <2>1. Len(m) = Len(l) - 1
      BY <1>1, <1>3, RemoveAtElements
  <2> QED BY <1>1, <1>2, <1>3, <2>1, RemoveAtRange
<1>5. \A i \in 1 .. Len(l) - 1 : m[i] = IF i < k THEN l[i] ELSE l[i + 1]
    BY <1>1, <1>3, RemoveAtElements
<1> HIDE DEF m
<1>6. \A i \in 1 .. Len(l) : l[i] \in Timer /\ r[l[i]] \in Nat
    BY <1>1, ElementOfSeq
<1>7. ASSUME NEW i \in 1 .. Len(m) - 1 PROVE r[m[i]] <= r[m[i + 1]]
  <2>1. i \in 1 .. Len(l) - 1 /\ i + 1 \in 1 .. Len(l) - 1 /\ (i + 1) + 1 \in 1 .. Len(l)
      BY <1>1, <1>4
  <2>2. r[l[i]] <= r[l[i + 1]] /\ r[l[i + 1]] <= r[l[(i + 1) + 1]]
      BY <2>1 DEF ListOK
  <2>3. r[l[i]] <= r[l[(i + 1) + 1]]
    <3>1. i \in 1 .. Len(l) /\ i + 1 \in 1 .. Len(l)
        BY <1>1, <2>1
    <3> QED BY <1>6, <2>1, <2>2, <3>1
  <2>4. /\ m[i] = IF i < k THEN l[i] ELSE l[i + 1]
        /\ m[i + 1] = IF i + 1 < k THEN l[i + 1] ELSE l[(i + 1) + 1]
      BY <1>5, <2>1
  <2> QED BY <1>1, <2>1, <2>2, <2>3, <2>4
<1>8. ListOK(m, T \ {p}, r)
    BY <1>4, <1>7 DEF ListOK
<1>9. Head(l) = l[1] /\ 1 \in 1 .. Len(l)
    BY <1>1, <1>2
<1>10. ASSUME Head(l) /= p PROVE Head(m) = Head(l)
  <2>1. 1 < k /\ 1 \in 1 .. Len(l) - 1
      BY <1>1, <1>2, <1>9, <1>10
  <2>2. m[1] = l[1]
      BY <1>5, <2>1
  <2>3. Head(m) = m[1]
      BY <1>1, <1>4, <2>1
  <2> QED BY <1>9, <2>2, <2>3
<1>11. ASSUME Head(l) = p, T /= {p}
       PROVE  /\ Len(l) > 1 /\ l[2] \in T \ {p} /\ r[p] <= r[l[2]]
              /\ Head(m) = l[2]
  <2>1. k = 1
      BY <1>1, <1>2, <1>9, <1>11 DEF NoRepeat
  <2>2. T \ {p} /= {}
      BY <1>11
  <2>3. Len(m) > 0 /\ Head(m) = m[1] /\ Head(m) \in T \ {p}
      BY <1>8, <2>2, FirstOf
  <2>4. 1 \in 1 .. Len(l) - 1 /\ ~(1 < k) /\ 1 + 1 = 2
      BY <1>1, <1>4, <2>1, <2>3
  <2>5. m[1] = l[2] /\ r[l[1]] <= r[l[2]]
      BY <1>5, <2>4 DEF ListOK
  <2> QED BY <1>1, <1>4, <1>9, <1>11, <2>3, <2>5
<1> QED BY <1>8, <1>10, <1>11 DEF m

LEMMA TailOK ==
    ASSUME NEW l, NEW T, NEW r, ListOK(l, T, r), l /= <<>>
    PROVE  ListOK(Tail(l), T \ {Head(l)}, r)
<1> DEFINE m == Tail(l)
<1>1. l \in Seq(Timer) /\ Range(l) = T /\ NoRepeat(l) /\ Len(l) \in Nat
    BY LenProperties DEF ListOK
<1>2. m \in Seq(Timer) /\ Len(m) = Len(l) - 1 /\ \A i \in 1 .. Len(m) : m[i] = l[i + 1]
    BY <1>1, HeadTailProperties
<1>3. Range(m) = T \ {Head(l)} /\ NoRepeat(m)
    BY <1>1, TailRange
<1> HIDE DEF m
<1>4. ASSUME NEW i \in 1 .. Len(m) - 1 PROVE r[m[i]] <= r[m[i + 1]]
  <2>1. i \in 1 .. Len(m) /\ i + 1 \in 1 .. Len(m) /\ i + 1 \in 1 .. Len(l) - 1
      BY <1>1, <1>2
  <2>2. r[l[i + 1]] <= r[l[(i + 1) + 1]]
      BY <2>1 DEF ListOK
  <2> QED BY <1>2, <2>1, <2>2
<1> QED BY <1>2, <1>3, <1>4 DEF ListOK, m

-----------------------------------------------------------------------------
LEMMA PlaceOf ==
    ASSUME IInv, NEW c \in Cpu, NEW d \in Nat
    PROVE  Fits(list[c], Place(c, d), rem, d)
<1>1. ListOK(list[c], In(c), rem)
    BY DEF IInv, ListInv
<1>2. Len(list[c]) \in Nat /\ \A i \in 1 .. Len(list[c]) : rem[list[c][i]] \in Nat
    BY <1>1, FirstOf DEF IInv, TypeOK, In
<1>3. CASE Before(c, d) = {}
  <2>1. Place(c, d) = Len(list[c]) + 1
      BY <1>3 DEF Place
  <2>2. \A i \in 1 .. Len(list[c]) : ~(rem[list[c][i]] > d)
      BY <1>3 DEF Before
  <2> QED BY <1>2, <2>1, <2>2 DEF Fits
<1>4. CASE Before(c, d) /= {}
  <2>1. Before(c, d) \in SUBSET Nat
      BY DEF Before
  <2>2. \E i \in Before(c, d) : \A j \in Before(c, d) : i <= j
      BY <1>4, <2>1, SmallestOf
  <2>3. Place(c, d) \in Before(c, d) /\ \A j \in Before(c, d) : Place(c, d) <= j
      BY <1>4, <2>2 DEF Place
  <2> QED BY <1>2, <2>3 DEF Before, Fits
<1> QED BY <1>3, <1>4

(* While timerintr does not hold the HZ timer of a processor, it is in the *)
(* list, which is not empty.                                               *)
LEMMA HzInList ==
    ASSUME IInv, NEW c \in Cpu, ipc[c] \in {"none", "loop"}
    PROVE  c \in In(c) /\ list[c] /= <<>> /\ Head(list[c]) \in In(c)
<1>1. it[c] /= c
    BY TimersAssumption DEF IInv, ItInv
<1>2. c \in In(c)
    BY <1>1 DEF IInv, HzInv, In, Timer
<1>3. ListOK(list[c], In(c), rem)
    BY DEF IInv, ListInv
<1> QED BY <1>2, <1>3, FirstOf

LEMMA TaddOK ==
    ASSUME IInv, NEW c \in Cpu, NEW t \in Timer, NEW d \in Nat, tt[t] = NoCpu,
           Tadd(c, t, d)
    PROVE  /\ list' \in [Cpu -> Seq(Timer)]
           /\ tt' \in [Timer -> Cpu \cup {NoCpu}]
           /\ rem' \in [Timer -> Nat]
           /\ ListInv'
           /\ Head(list'[c]) = IF Place(c, d) = 1 THEN t ELSE Head(list[c])
<1> DEFINE k == Place(c, d)
<1>1. /\ list \in [Cpu -> Seq(Timer)] /\ tt \in [Timer -> Cpu \cup {NoCpu}]
      /\ rem \in [Timer -> Nat]
    BY DEF IInv, TypeOK
<1>2. /\ list'[c] = InsertAt(list[c], k, t)
      /\ \A x \in Cpu : x /= c => list'[x] = list[x]
      /\ list' = [list EXCEPT ![c] = InsertAt(list[c], k, t)]
    BY <1>1 DEF Tadd
<1>3. tt' = [tt EXCEPT ![t] = c] /\ rem' = [rem EXCEPT ![t] = d]
    BY DEF Tadd
<1>4. \A x \in Cpu : ListOK(list[x], In(x), rem) /\ t \notin In(x)
    BY TimersAssumption DEF IInv, ListInv, In
<1>5. /\ ListOK(InsertAt(list[c], k, t), In(c) \cup {t}, rem')
      /\ Head(InsertAt(list[c], k, t)) = IF k = 1 THEN t ELSE Head(list[c])
  <2>1. Fits(list[c], k, rem, d)
      BY PlaceOf
  <2>2. rem \in [Timer -> Nat] /\ ListOK(list[c], In(c), rem) /\ t \notin In(c)
      BY <1>1, <1>4
  <2>3. rem'[t] = d /\ rem' \in [Timer -> Nat] /\ \A u \in In(c) : rem'[u] = rem[u]
      BY <1>1, <1>3, <2>2 DEF In
  <2> HIDE DEF k
  <2> QED BY <2>1, <2>2, <2>3, InsertOK
<1>6. In(c)' = In(c) \cup {t}
    BY <1>1, <1>3 DEF In
<1>7. ASSUME NEW x \in Cpu, x /= c PROVE ListOK(list[x], In(x)', rem')
  <2>1. In(x)' = In(x)
      BY <1>1, <1>3, <1>4, <1>7 DEF In
  <2>2. \A u \in In(x) : rem'[u] = rem[u]
      BY <1>1, <1>3, <1>4 DEF In
  <2> QED BY <1>4, <2>1, <2>2, SameOrderOK
<1>8. ListInv'
    BY <1>2, <1>5, <1>6, <1>7 DEF ListInv
<1>9. list' \in [Cpu -> Seq(Timer)]
    BY <1>1, <1>2, <1>5 DEF ListOK
<1> QED BY <1>1, <1>2, <1>3, <1>5, <1>8, <1>9

-----------------------------------------------------------------------------
LEMMA InitIInv == Init => IInv
<1> SUFFICES ASSUME Init PROVE IInv
    OBVIOUS
<1>1. TypeOK /\ ItInv /\ HzInv /\ PcInv
    BY TimersAssumption DEF Init, TypeOK, ItInv, HzInv, PcInv, Timer
<1>2. ASSUME NEW c \in Cpu PROVE ListOK(<<c>>, In(c), rem)
  <2>1. In(c) = {c}
      BY <1>2, TimersAssumption DEF Init, In, Timer
  <2>2. <<c>> \in Seq(Timer) /\ Len(<<c>>) = 1 /\ <<c>>[1] = c
      BY DEF Timer
  <2>3. Range(<<c>>) = {c}
    <3>1. ASSUME NEW x PROVE x \in Range(<<c>>) <=> x = c
      <4>1. x \in Range(<<c>>) <=> \E i \in 1 .. Len(<<c>>) : <<c>>[i] = x
          BY <2>2, InRange
      <4> QED BY <2>2, <4>1
    <3> QED BY <3>1
  <2> QED BY <2>1, <2>2, <2>3 DEF ListOK, NoRepeat
<1>3. ListInv
    BY <1>2 DEF Init, ListInv
<1>4. ClockInTime
    BY TimersAssumption DEF Init, ClockInTime, Timer
<1> QED BY <1>1, <1>3, <1>4 DEF IInv

(* Steps of a process in tsleep that leave the lists and timerintr alone.  *)
LEMMA MoveIInv ==
    ASSUME IInv, UNCHANGED <<lists, intr>>,
           pc' \in [Proc -> {"run", "add", "sleep", "asleep", "woken", "del"}],
           on' \in [Proc -> Rendez \cup {NoRendez}],
           trend' \in [Proc -> Rendez \cup {NoRendez}],
           \A p \in Proc : pc'[p] \in {"run", "add"} =>
               pc[p] \in {"run", "add"} \/ tt[p] = NoCpu
    PROVE  IInv'
<1>1. /\ list' = list /\ tt' = tt /\ rem' = rem /\ armed' = armed
      /\ ipc' = ipc /\ it' = it /\ itrend' = itrend
    BY DEF lists, intr
<1>2. TypeOK'
    BY <1>1 DEF IInv, TypeOK
<1>3. ListInv' /\ ItInv' /\ HzInv' /\ ClockInTime'
    BY <1>1 DEF IInv, ListInv, ListOK, In, ItInv, HzInv, ClockInTime
<1>4. PcInv'
    BY <1>1 DEF IInv, PcInv
<1> QED BY <1>2, <1>3, <1>4 DEF IInv

LEMMA TsleepCallIInv ==
    ASSUME IInv, NEW p \in Proc, NEW r \in Rendez, TsleepCall(p, r)
    PROVE  IInv'
    BY MoveIInv DEF IInv, TypeOK, TsleepCall, Goto

LEMMA SleepIInv ==
    ASSUME IInv, NEW p \in Proc, Sleep(p) \/ Wakeup(p) \/ TsleepReturn(p)
    PROVE  IInv'
<1>1. CASE Sleep(p)
    BY <1>1, MoveIInv DEF IInv, TypeOK, Sleep, Goto
<1>2. CASE Wakeup(p)
    BY <1>2, MoveIInv DEF IInv, TypeOK, Wakeup, Goto
<1>3. CASE TsleepReturn(p)
    BY <1>3, MoveIInv DEF IInv, TypeOK, TsleepReturn, Goto
<1> QED BY <1>1, <1>2, <1>3

LEMMA TimeraddIInv ==
    ASSUME IInv, NEW p \in Proc, NEW c \in Cpu, NEW d \in Timeout, Timeradd(p, c, d)
    PROVE  IInv'
<1>1. /\ p \in Timer /\ p \notin Cpu /\ d \in Nat /\ pc[p] = "add" /\ ipc[c] = "none"
      /\ Tadd(c, p, d)
    BY TimersAssumption DEF Timer, Timeradd
<1>2. tt[p] = NoCpu
    BY <1>1 DEF IInv, PcInv
<1>3. /\ list' \in [Cpu -> Seq(Timer)] /\ tt' \in [Timer -> Cpu \cup {NoCpu}]
      /\ rem' \in [Timer -> Nat] /\ ListInv'
      /\ Head(list'[c]) = IF Place(c, d) = 1 THEN p ELSE Head(list[c])
    BY <1>1, <1>2, TaddOK
<1>4. /\ armed' = [armed EXCEPT ![c] = IF Place(c, d) = 1 THEN d ELSE armed[c]]
      /\ pc' = [pc EXCEPT ![p] = "sleep"] /\ on' = on /\ trend' = trend
      /\ ipc' = ipc /\ it' = it /\ itrend' = itrend
    BY DEF Timeradd, Goto, intr
<1>5. TypeOK'
    BY <1>1, <1>3, <1>4 DEF IInv, TypeOK
<1>6. tt' = [tt EXCEPT ![p] = c] /\ rem' = [rem EXCEPT ![p] = d]
         /\ \A x \in Cpu : x /= c => list'[x] = list[x]
    BY <1>1 DEF Tadd, IInv, TypeOK
<1>7. ItInv' /\ HzInv' /\ PcInv'
    BY <1>1, <1>4, <1>6 DEF IInv, TypeOK, ItInv, HzInv, PcInv, Timer
<1>8. ASSUME NEW x \in Cpu, ipc[x] = "none"
      PROVE  armed'[x] /= Never /\ armed'[x] <= rem'[Head(list'[x])]
  <2>1. /\ armed[x] /= Never /\ armed[x] <= rem[Head(list[x])]
        /\ Head(list[x]) \in Timer /\ Head(list[x]) /= p
      BY <1>2, <1>8, HzInList, TimersAssumption DEF IInv, ClockInTime, In
  <2>2. rem'[Head(list[x])] = rem[Head(list[x])] /\ rem'[p] = d
      BY <1>1, <1>6, <2>1 DEF IInv, TypeOK
  <2>3. CASE x = c /\ Place(c, d) = 1
      BY <1>1, <1>3, <1>4, <2>2, <2>3, TimersAssumption DEF IInv, TypeOK
  <2>4. CASE x = c /\ Place(c, d) /= 1
      BY <1>3, <1>4, <2>1, <2>2, <2>4 DEF IInv, TypeOK
  <2>5. CASE x /= c
      BY <1>4, <1>6, <2>1, <2>2, <2>5 DEF IInv, TypeOK
  <2> QED BY <2>3, <2>4, <2>5
<1>9. ClockInTime'
    BY <1>4, <1>8 DEF ClockInTime
<1> QED BY <1>3, <1>5, <1>7, <1>9 DEF IInv

LEMMA TimerdelIInv ==
    ASSUME IInv, NEW p \in Proc, NEW c \in Cpu, Timerdel(p, c)
    PROVE  IInv'
<1>1. p \in Timer /\ p \notin Cpu /\ NoCpu \notin Cpu
    BY TimersAssumption DEF Timer
<1>2. /\ rem' = [rem EXCEPT ![p] = 0] /\ on' = [on EXCEPT ![p] = NoRendez]
      /\ pc' = [pc EXCEPT ![p] = "run"] /\ trend' = trend
      /\ ipc' = ipc /\ it' = it /\ itrend' = itrend
    BY DEF Timerdel, Goto, intr
<1>3. /\ rem \in [Timer -> Nat] /\ list \in [Cpu -> Seq(Timer)]
      /\ tt \in [Timer -> Cpu \cup {NoCpu}] /\ armed \in [Cpu -> Nat \cup {Never}]
    BY DEF IInv, TypeOK
<1>4. \A x \in Cpu : ListOK(list[x], In(x), rem)
    BY DEF IInv, ListInv
<1>5. \A x \in Cpu : ipc[x] = "none" =>
        armed[x] /= Never /\ armed[x] <= rem[Head(list[x])] /\ armed[x] \in Nat
    BY <1>3 DEF IInv, ClockInTime
<1>6. CASE tt[p] = NoCpu /\ UNCHANGED <<list, tt, armed>>
  <2>1. list' = list /\ tt' = tt /\ armed' = armed
      BY <1>6
  <2>2. TypeOK' /\ ItInv' /\ HzInv' /\ PcInv'
      BY <1>1, <1>2, <1>6, <2>1 DEF IInv, TypeOK, ItInv, HzInv, PcInv
  <2>3. \A x \in Cpu : In(x)' = In(x) /\ \A u \in In(x) : rem'[u] = rem[u]
      BY <1>1, <1>2, <1>3, <1>6, <2>1 DEF In
  <2>4. ListInv'
      BY <1>4, <2>1, <2>3, SameOrderOK DEF ListInv
  <2>5. ClockInTime'
      BY <1>2, <1>5, <2>1, <2>3, HzInList DEF ClockInTime
  <2> QED BY <2>2, <2>4, <2>5 DEF IInv
<1>7. ASSUME NEW d \in Cpu, tt[p] = d, list' = [list EXCEPT ![d] = RemoveFirst(@, p)],
             tt' = [tt EXCEPT ![p] = NoCpu],
             armed' = [armed EXCEPT ![d] = IF d = c /\ DelFirst(p, d) THEN rem[list[d][2]]
                                           ELSE @]
      PROVE  IInv'
  <2> DEFINE m == RemoveFirst(list[d], p)
  <2>1. p \in In(d) /\ \A x \in Cpu : x /= d => p \notin In(x)
      BY <1>1, <1>7 DEF In
  <2>2. /\ ListOK(m, In(d) \ {p}, rem)
        /\ Head(list[d]) /= p => Head(m) = Head(list[d])
        /\ Head(list[d]) = p /\ In(d) /= {p} =>
              /\ Len(list[d]) > 1 /\ list[d][2] \in In(d) \ {p}
              /\ rem[p] <= rem[list[d][2]] /\ Head(m) = list[d][2]
      BY <1>3, <1>4, <2>1, RemoveOK
  <2>3. list'[d] = m /\ m \in Seq(Timer) /\ \A x \in Cpu : x /= d => list'[x] = list[x]
      BY <1>3, <1>7, <2>2 DEF ListOK
  <2> HIDE DEF m
  <2>4. \A x \in Cpu : In(x)' = In(x) \ {p}
      BY <1>1, <1>3, <1>7 DEF In
  <2>5. \A x \in Cpu : \A u \in In(x) \ {p} : rem'[u] = rem[u]
      BY <1>1, <1>2, <1>3 DEF In
  <2>6. ListInv'
    <3>1. ASSUME NEW x \in Cpu PROVE ListOK(list'[x], In(x) \ {p}, rem)
      <4>1. CASE x = d
          BY <2>2, <2>3, <4>1
      <4>2. CASE x /= d
        <5>1. In(x) \ {p} = In(x)
            BY <2>1, <4>2
        <5> QED BY <1>4, <2>3, <4>2, <5>1
      <4> QED BY <4>1, <4>2
    <3>2. ASSUME NEW x \in Cpu PROVE ListOK(list'[x], In(x)', rem')
        BY <2>4, <2>5, <3>1, SameOrderOK
    <3> QED BY <3>2 DEF ListInv
  <2>7. armed' \in [Cpu -> Nat \cup {Never}]
        /\ \A x \in Cpu : x /= d \/ ~(d = c /\ DelFirst(p, d)) => armed'[x] = armed[x]
    <3>1. CASE d = c /\ DelFirst(p, d)
      <4>1. Len(list[d]) \in Nat /\ Len(list[d]) > 1
          BY <1>3, <3>1, LenProperties DEF DelFirst
      <4>2. list[d][2] \in Timer
          BY <1>3, <4>1, ElementOfSeq
      <4> QED BY <1>3, <1>7, <4>2
    <3>2. CASE ~(d = c /\ DelFirst(p, d))
        BY <1>3, <1>7, <3>2
    <3> QED BY <3>1, <3>2
  <2>8. TypeOK'
    <3>1. list' \in [Cpu -> Seq(Timer)] /\ tt' \in [Timer -> Cpu \cup {NoCpu}]
             /\ rem' \in [Timer -> Nat]
        BY <1>1, <1>2, <1>3, <1>7, <2>3 DEF m
    <3> QED BY <1>2, <2>7, <3>1 DEF IInv, TypeOK
  <2>9. ItInv' /\ HzInv' /\ PcInv'
      BY <1>1, <1>2, <1>3, <1>7 DEF IInv, TypeOK, ItInv, HzInv, PcInv, Timer
  <2>10. ASSUME NEW x \in Cpu, ipc[x] = "none"
         PROVE  armed'[x] /= Never /\ armed'[x] <= rem'[Head(list'[x])]
    <3>1. x \in In(x) /\ Head(list[x]) \in In(x) /\ x /= p
        BY <1>1, <2>10, HzInList
    <3>2. CASE x /= d
      <4>1. Head(list[x]) \in In(x) \ {p}
          BY <2>1, <3>1, <3>2
      <4> QED BY <1>5, <2>3, <2>5, <2>7, <2>10, <3>2, <4>1
    <3>3. CASE x = d /\ Head(list[d]) /= p
      <4>1. armed'[x] = armed[x] /\ Head(list'[x]) = Head(list[x])
               /\ Head(list[x]) \in In(x) \ {p}
          BY <2>2, <2>3, <2>7, <3>1, <3>3 DEF DelFirst
      <4> QED BY <1>5, <2>5, <2>10, <4>1
    <3>4. CASE x = d /\ Head(list[d]) = p
      <4>1. /\ Len(list[d]) > 1 /\ list[d][2] \in In(d) \ {p}
            /\ rem[p] <= rem[list[d][2]] /\ Head(list'[x]) = list[d][2]
          BY <2>2, <2>3, <3>1, <3>4
      <4>2. rem'[Head(list'[x])] = rem[list[d][2]]
          BY <2>5, <4>1
      <4>3. rem[p] \in Nat /\ rem[list[d][2]] \in Nat /\ rem[list[d][2]] /= Never
          BY <1>1, <1>3, <4>1, TimersAssumption DEF In
      <4>4. CASE d = c
        <5>1. armed'[x] = rem[list[d][2]]
            BY <1>3, <1>7, <3>4, <4>1, <4>4 DEF DelFirst
        <5> QED BY <4>2, <4>3, <5>1
      <4>5. CASE d /= c
        <5>1. armed'[x] = armed[x] /\ armed[x] <= rem[p]
            BY <1>5, <2>7, <2>10, <3>4, <4>5
        <5> QED BY <1>5, <2>10, <4>1, <4>2, <4>3, <5>1
      <4> QED BY <4>4, <4>5
    <3> QED BY <3>2, <3>3, <3>4
  <2>11. ClockInTime'
      BY <1>2, <2>10 DEF ClockInTime
  <2> QED BY <2>6, <2>8, <2>9, <2>11 DEF IInv
<1> QED BY <1>6, <1>7 DEF Timerdel

(* Steps of timerintr that leave the lists alone.                          *)
LEMMA IntrMoveIInv ==
    ASSUME IInv, NEW c \in Cpu, list' = list, tt' = tt, rem' = rem,
           armed' \in [Cpu -> Nat \cup {Never}],
           \A x \in Cpu : x /= c => armed'[x] = armed[x],
           NEW to \in {"none", "loop", "call", "clear", "wake", "again"},
           ipc' = [ipc EXCEPT ![c] = to],
           it' \in [Cpu -> Timer \cup {NoTimer}],
           \A x \in Cpu : x /= c => it'[x] = it[x],
           itrend' \in [Cpu -> Rendez \cup {NoRendez}],
           on' = on, trend' \in [Proc -> Rendez \cup {NoRendez}],
           pc' \in [Proc -> {"run", "add", "sleep", "asleep", "woken", "del"}],
           \A p \in Proc : pc'[p] \in {"run", "add"} => pc[p] \in {"run", "add"},
           it'[c] = c <=> it[c] = c,
           to \in {"none", "loop"} => it'[c] = NoTimer,
           to \in {"clear", "wake"} => it'[c] \in Proc,
           to \in {"call", "again"} => it'[c] \in Proc \cup {c},
           to = "none" => armed'[c] /= Never /\ armed'[c] <= rem[Head(list[c])]
    PROVE  IInv'
<1>1. TypeOK'
    BY DEF IInv, TypeOK
<1>2. ListInv' /\ PcInv'
    BY DEF IInv, ListInv, In, PcInv, ListOK
<1>3. ipc'[c] = to /\ \A x \in Cpu : x /= c => ipc'[x] = ipc[x]
    BY DEF IInv, TypeOK
<1>4. ItInv'
    BY <1>3 DEF IInv, ItInv
<1>5. HzInv'
    BY DEF IInv, HzInv
<1>6. ClockInTime'
    BY <1>3 DEF IInv, ClockInTime
<1> QED BY <1>1, <1>2, <1>4, <1>5, <1>6 DEF IInv

LEMMA TimerintrIInv ==
    ASSUME IInv, NEW c \in Cpu, Timerintr(c)
    PROVE  IInv'
    BY IntrMoveIInv DEF IInv, TypeOK, ItInv, Timerintr, IntrGoto

LEMMA IntrDoneIInv ==
    ASSUME IInv, NEW c \in Cpu, IntrDone(c)
    PROVE  IInv'
<1>1. list[c] /= <<>> /\ Head(list[c]) \in Timer
    BY HzInList DEF IntrDone, In
<1>2. rem[Head(list[c])] \in Nat /\ rem[Head(list[c])] /= Never
    BY <1>1, TimersAssumption DEF IInv, TypeOK
<1>3. armed' = [armed EXCEPT ![c] = rem[Head(list[c])]]
    BY <1>1 DEF IntrDone
<1>4. /\ armed' \in [Cpu -> Nat \cup {Never}] /\ armed'[c] = rem[Head(list[c])]
      /\ \A x \in Cpu : x /= c => armed'[x] = armed[x]
    BY <1>2, <1>3 DEF IInv, TypeOK
<1>5. it[c] = NoTimer
    BY DEF IntrDone, IInv, ItInv
<1>6. armed'[c] /= Never /\ armed'[c] <= rem[Head(list[c])]
    BY <1>2, <1>4
<1>7. ipc' = [ipc EXCEPT ![c] = "none"] /\ UNCHANGED <<list, tt, rem, it, itrend, pc, on, trend>>
    BY DEF IntrDone, IntrGoto
<1> QED BY <1>4, <1>5, <1>6, <1>7, IntrMoveIInv DEF IInv, TypeOK

LEMMA TwakeupIInv ==
    ASSUME IInv, NEW c \in Cpu, IntrCall(c) \/ TwakeupClear(c) \/ TwakeupWake(c)
    PROVE  IInv'
<1>1. CASE IntrCall(c) /\ it[c] \in Proc
  <2>1. it[c] /= c /\ it[c] \notin Cpu
      BY <1>1, TimersAssumption
  <2>2. /\ ipc' = [ipc EXCEPT ![c] = "clear"]
        /\ itrend' = [itrend EXCEPT ![c] = trend[it[c]]]
        /\ UNCHANGED <<list, tt, rem, armed, it, pc, on, trend>>
      BY <1>1, <2>1 DEF IntrCall, IntrGoto, lists
  <2>3. itrend' \in [Cpu -> Rendez \cup {NoRendez}]
      BY <1>1, <2>2 DEF IInv, TypeOK
  <2> QED BY <1>1, <2>1, <2>2, <2>3, IntrMoveIInv DEF IInv, TypeOK
<1>2. CASE IntrCall(c) /\ it[c] \notin Proc
  <2>1. it[c] = c
      BY <1>2 DEF IInv, ItInv, IntrCall
  <2> QED BY <1>2, <2>1, IntrMoveIInv DEF IInv, TypeOK, IntrCall, IntrGoto, lists
<1>3. CASE TwakeupClear(c)
  <2>1. it[c] \in Proc
      BY <1>3 DEF IInv, ItInv, TwakeupClear
  <2> QED BY <1>3, <2>1, IntrMoveIInv DEF IInv, TypeOK, TwakeupClear, IntrGoto, lists
<1>4. CASE TwakeupWake(c)
  <2>1. it[c] \in Proc
      BY <1>4 DEF IInv, ItInv, TwakeupWake
  <2>2. /\ pc' \in [Proc -> {"run", "add", "sleep", "asleep", "woken", "del"}]
        /\ \A p \in Proc : pc'[p] \in {"run", "add"} => pc[p] \in {"run", "add"}
      BY <1>4 DEF IInv, TypeOK, TwakeupWake
  <2> QED BY <1>4, <2>1, <2>2, IntrMoveIInv DEF IInv, TypeOK, TwakeupWake, IntrGoto, lists
<1> QED BY <1>1, <1>2, <1>3, <1>4

LEMMA IntrPopIInv ==
    ASSUME IInv, NEW c \in Cpu, IntrPop(c)
    PROVE  IInv'
<1> DEFINE t == Head(list[c])
<1>1. /\ ipc[c] = "loop" /\ it' = [it EXCEPT ![c] = t] /\ list' = [list EXCEPT ![c] = Tail(@)]
      /\ tt' = [tt EXCEPT ![t] = NoCpu] /\ ipc' = [ipc EXCEPT ![c] = "call"]
      /\ UNCHANGED <<rem, armed, itrend, pc, on, trend>>
    BY DEF IntrPop, IntrGoto
<1>2. t \in Timer /\ tt[t] = c /\ list[c] /= <<>>
    BY <1>1, HzInList DEF In
<1> HIDE DEF t
<1>3. /\ list \in [Cpu -> Seq(Timer)] /\ tt \in [Timer -> Cpu \cup {NoCpu}]
      /\ it \in [Cpu -> Timer \cup {NoTimer}]
      /\ ipc \in [Cpu -> {"none", "loop", "call", "clear", "wake", "again"}]
    BY DEF IInv, TypeOK
<1>4. \A x \in Cpu : ListOK(list[x], In(x), rem)
    BY DEF IInv, ListInv
<1>5. ListOK(Tail(list[c]), In(c) \ {t}, rem)
    BY <1>2, <1>4, TailOK DEF t
<1>6. /\ list'[c] = Tail(list[c]) /\ Tail(list[c]) \in Seq(Timer)
      /\ \A x \in Cpu : x /= c => list'[x] = list[x]
      /\ list' \in [Cpu -> Seq(Timer)]
    BY <1>1, <1>3, <1>5 DEF ListOK
<1>7. In(c)' = In(c) \ {t} /\ \A x \in Cpu : x /= c => In(x)' = In(x)
    BY <1>1, <1>2, <1>3, TimersAssumption DEF In
<1>8. ListInv'
    BY <1>1, <1>4, <1>5, <1>6, <1>7 DEF ListInv
<1>9. TypeOK'
    BY <1>1, <1>2, <1>6 DEF IInv, TypeOK
<1>10. t \in Proc \cup {c}
  <2>1. ASSUME t \in Cpu PROVE t = c
    <3>1. tt[t] = IF it[t] = t THEN NoCpu ELSE t
        BY <2>1 DEF IInv, HzInv
    <3> QED BY <1>2, <3>1, TimersAssumption
  <2> QED BY <1>2, <2>1 DEF Timer
<1>11. ItInv'
    BY <1>1, <1>3, <1>10 DEF IInv, TypeOK, ItInv
<1>12. HzInv'
  <2>1. it[c] /= c
      BY <1>1, TimersAssumption DEF IInv, ItInv
  <2> QED BY <1>1, <1>2, <1>3, <1>10, <2>1, TimersAssumption DEF IInv, HzInv, Timer
<1>13. PcInv'
    BY <1>1, <1>2, <1>3 DEF IInv, PcInv, Timer
<1>14. ClockInTime'
    BY <1>1, <1>3, <1>6 DEF IInv, ClockInTime
<1> QED BY <1>8, <1>9, <1>11, <1>12, <1>13, <1>14 DEF IInv

LEMMA IntrAgainIInv ==
    ASSUME IInv, NEW c \in Cpu, IntrAgain(c)
    PROVE  IInv'
<1>1. /\ ipc[c] = "again" /\ it' = [it EXCEPT ![c] = NoTimer] /\ ipc' = [ipc EXCEPT ![c] = "loop"]
      /\ UNCHANGED <<armed, itrend, pc, on, trend>>
    BY DEF IntrAgain, IntrGoto
<1>2. /\ it \in [Cpu -> Timer \cup {NoTimer}]
      /\ ipc \in [Cpu -> {"none", "loop", "call", "clear", "wake", "again"}]
      /\ it'[c] = NoTimer /\ \A x \in Cpu : x /= c => it'[x] = it[x]
      /\ ipc'[c] = "loop" /\ \A x \in Cpu : x /= c => ipc'[x] = ipc[x]
    BY <1>1 DEF IInv, TypeOK
<1>3. NoTimer /= c
    BY TimersAssumption
<1>4. CASE it[c] \in Proc /\ UNCHANGED <<list, tt, rem>>
  <2>1. it[c] /= c
      BY <1>4, TimersAssumption
  <2> QED BY <1>1, <1>2, <1>3, <1>4, <2>1, IntrMoveIInv DEF IInv, TypeOK
<1>5. ASSUME it[c] \in Cpu, NEW d \in 0 .. Period, Tadd(c, it[c], d) PROVE IInv'
  <2>1. it[c] = c /\ c \in Timer /\ d \in Nat
      BY <1>1, <1>5, TimersAssumption DEF IInv, ItInv, Timer
  <2>2. tt[c] = NoCpu
      BY <2>1 DEF IInv, HzInv
  <2>3. Tadd(c, c, d)
      BY <1>5, <2>1
  <2>4. /\ list' \in [Cpu -> Seq(Timer)] /\ tt' \in [Timer -> Cpu \cup {NoCpu}]
        /\ rem' \in [Timer -> Nat] /\ ListInv'
      BY <2>1, <2>2, <2>3, TaddOK
  <2>5. /\ tt' = [tt EXCEPT ![c] = c] /\ rem' = [rem EXCEPT ![c] = d]
        /\ \A x \in Cpu : x /= c => list'[x] = list[x]
      BY <2>3 DEF Tadd, IInv, TypeOK
  <2>6. TypeOK'
      BY <1>1, <2>4 DEF IInv, TypeOK
  <2>7. ItInv'
      BY <1>2 DEF IInv, ItInv
  <2>8. HzInv' /\ PcInv'
      BY <1>1, <1>2, <1>3, <2>1, <2>5, TimersAssumption DEF IInv, TypeOK, HzInv, PcInv, Timer
  <2>9. ASSUME NEW x \in Cpu, ipc'[x] = "none"
        PROVE  armed'[x] /= Never /\ armed'[x] <= rem'[Head(list'[x])]
    <3>1. x /= c /\ ipc[x] = "none" /\ list'[x] = list[x] /\ armed'[x] = armed[x]
        BY <1>1, <1>2, <2>5, <2>9
    <3>2. Head(list[x]) \in Timer /\ Head(list[x]) /= c
        BY <2>2, <3>1, HzInList, TimersAssumption DEF In
    <3>3. rem'[Head(list[x])] = rem[Head(list[x])]
        BY <2>5, <3>2 DEF IInv, TypeOK
    <3> QED BY <3>1, <3>3 DEF IInv, ClockInTime
  <2>10. ClockInTime'
      BY <2>9 DEF ClockInTime
  <2> QED BY <2>4, <2>6, <2>7, <2>8, <2>10 DEF IInv
<1> QED BY <1>4, <1>5 DEF IntrAgain

LEMMA TickIInv ==
    ASSUME IInv, Tick
    PROVE  IInv'
<1>1. /\ rem' = [t \in Timer |-> IF tt[t] = NoCpu THEN rem[t] ELSE Closer(rem[t])]
      /\ armed' = [c \in Cpu |-> IF armed[c] = Never THEN Never ELSE Closer(armed[c])]
      /\ list' = list /\ tt' = tt /\ ipc' = ipc /\ it' = it /\ itrend' = itrend
      /\ pc' = pc /\ on' = on /\ trend' = trend
    BY DEF Tick, intr
<1>2. \A n \in Nat : Closer(n) \in Nat /\ \A k \in Nat : k <= n => Closer(k) <= Closer(n)
    BY DEF Closer
<1>3. /\ rem \in [Timer -> Nat] /\ armed \in [Cpu -> Nat \cup {Never}]
    BY DEF IInv, TypeOK
<1>4. rem' \in [Timer -> Nat] /\ armed' \in [Cpu -> Nat \cup {Never}]
    BY <1>1, <1>2, <1>3
<1>5. TypeOK' /\ ItInv' /\ HzInv' /\ PcInv'
    BY <1>1, <1>4 DEF IInv, TypeOK, ItInv, HzInv, PcInv
<1>6. \A c \in Cpu : \A t \in In(c) : rem'[t] = Closer(rem[t])
    BY <1>1, TimersAssumption DEF In
<1>7. ASSUME NEW c \in Cpu PROVE ListOK(list[c], In(c), rem')
  <2>1. \A t, u \in In(c) : rem[t] <= rem[u] => rem'[t] <= rem'[u]
      BY <1>2, <1>3, <1>6 DEF In
  <2> QED BY <2>1, SameOrderOK DEF IInv, ListInv
<1>8. ListInv'
    BY <1>1, <1>7 DEF ListInv, In
<1>9. ASSUME NEW c \in Cpu, ipc[c] = "none"
      PROVE  armed'[c] /= Never /\ armed'[c] <= rem'[Head(list[c])]
  <2>1. Head(list[c]) \in In(c) /\ Head(list[c]) \in Timer
      BY <1>9, HzInList DEF In
  <2>2. armed[c] \in Nat /\ armed[c] <= rem[Head(list[c])] /\ rem[Head(list[c])] \in Nat
      BY <1>3, <1>9, <2>1 DEF IInv, ClockInTime
  <2>3. armed'[c] = Closer(armed[c])
      BY <1>1, <2>2, TimersAssumption
  <2>4. Closer(armed[c]) \in Nat /\ Closer(armed[c]) <= Closer(rem[Head(list[c])])
      BY <1>2, <2>2
  <2> QED BY <1>6, <2>1, <2>3, <2>4, TimersAssumption
<1>10. ClockInTime'
    BY <1>1, <1>9 DEF ClockInTime
<1> QED BY <1>5, <1>8, <1>10 DEF IInv

-----------------------------------------------------------------------------
LEMMA NextIInv == IInv /\ [Next]_vars => IInv'
<1> SUFFICES ASSUME IInv, [Next]_vars PROVE IInv'
    OBVIOUS
<1>1. CASE \E p \in Proc : Step(p) \/ Wakeup(p)
    BY <1>1, TimeraddIInv, TimerdelIInv, SleepIInv DEF Step
<1>2. CASE \E p \in Proc, r \in Rendez : Executes /\ TsleepCall(p, r)
    BY <1>2, TsleepCallIInv
<1>3. CASE \E c \in Cpu : IntrStep(c)
    BY <1>3, TimerintrIInv, IntrPopIInv, IntrDoneIInv, TwakeupIInv, IntrAgainIInv DEF IntrStep
<1>4. CASE Tick
    BY <1>4, TickIInv
<1>5. CASE UNCHANGED vars
    BY <1>5, MoveIInv DEF vars, lists, intr, IInv, TypeOK
<1> QED BY <1>1, <1>2, <1>3, <1>4, <1>5 DEF Next

LEMMA TimersIInv == Spec => []IInv
    BY InitIInv, NextIInv, PTL DEF Spec

LEMMA IInvListsTrue == IInv => ListsTrue
<1> SUFFICES ASSUME IInv, NEW c \in Cpu
             PROVE  /\ ToSet(list[c]) = {t \in Timer : tt[t] = c}
                    /\ Cardinality(ToSet(list[c])) = Len(list[c])
                    /\ \A i \in 1 .. Len(list[c]) - 1 : rem[list[c][i]] <= rem[list[c][i + 1]]
    BY DEF ListsTrue, IInv
<1>1. ListOK(list[c], In(c), rem)
    BY DEF IInv, ListInv
<1>2. ToSet(list[c]) = Range(list[c])
    BY DEF ToSet, Range
<1> QED BY <1>1, <1>2, ListCardinality DEF ListOK, In

(* A timer is in the list that its tt names, once, and in no other, and    *)
(* the lists are sorted by time, whatever timeradd, timerdel on another    *)
(* processor, timerintr and the passing of time do to them.                *)
THEOREM TimersListsTrue == Spec => []ListsTrue
    BY TimersIInv, IInvListsTrue, PTL

(* The assertions of tadd and timerintr hold: no timer is put in a list    *)
(* while it is in one, and tsleep never finds its timer active.            *)
THEOREM TimersNoTimerLeft == Spec => []NoTimerLeft
<1>1. IInv => NoTimerLeft
  <2> SUFFICES ASSUME IInv, NEW c \in Cpu, ipc[c] = "again", it[c] \in Cpu
               PROVE  tt[it[c]] = NoCpu
      BY DEF NoTimerLeft, IInv, PcInv
  <2>1. it[c] = c
      BY TimersAssumption DEF IInv, ItInv
  <2> QED BY <2>1 DEF IInv, HzInv
<1> QED BY <1>1, TimersIInv, PTL

(* The clock of a processor is set, and not later than its first timer,    *)
(* whenever timerintr is not running there, also when timerdel on another  *)
(* processor took the first timer and left the clock alone.                *)
THEOREM TimersClockInTime == Spec => []ClockInTime
<1>1. IInv => ClockInTime
    BY DEF IInv
<1> QED BY <1>1, TimersIInv, PTL
=============================================================================
