----------------------------- MODULE SeqLemmas -----------------------------
(***************************************************************************)
(* Facts about lists that proofs of several components use.                *)
(*                                                                         *)
(* Lists of processes are sequences without repetitions: what adding at    *)
(* the end, taking the first and taking any one does to the set of         *)
(* elements.  The queues of qlock.c and of proc.c are changed in these     *)
(* ways only; a timer also goes into the middle of a list.                 *)
(*                                                                         *)
(* Sums over the elements of a set or of a list are numbers of tokens: one *)
(* token for each unit of each element, so that the theorems on Cardinality*)
(* say what a change of one element does.  A list of lists is flattened by *)
(* a recursive function; what it yields is found by looking at the first   *)
(* list for which it would be wrong.                                       *)
(***************************************************************************)
EXTENDS Naturals, Sequences, SequencesExt, SequenceTheorems, FiniteSetTheorems,
        WellFoundedInduction, TLAPS

NoRepeat(s) == \A i, j \in 1 .. Len(s) : s[i] = s[j] => i = j

(* An element of a list is at some position of it.                         *)
LEMMA InRange ==
    ASSUME NEW S, NEW s \in Seq(S), NEW e
    PROVE  e \in Range(s) <=> \E i \in 1 .. Len(s) : s[i] = e
BY RangeEquality

(* Appending adds one element, and no repetition if it was not there.      *)
LEMMA AppendRange ==
    ASSUME NEW S, NEW s \in Seq(S), NEW e \in S
    PROVE  /\ Range(Append(s, e)) = Range(s) \cup {e}
           /\ NoRepeat(s) /\ e \notin Range(s) => NoRepeat(Append(s, e))
<1> DEFINE t == Append(s, e)
<1>1. t \in Seq(S) /\ Len(t) = Len(s) + 1 /\ Len(s) \in Nat
    BY AppendProperties
<1>2. \A i \in 1 .. Len(s) : t[i] = s[i]
    BY AppendProperties
<1>3. t[Len(s) + 1] = e
    BY AppendProperties
<1>4. \A i \in 1 .. Len(t) : i \in 1 .. Len(s) \/ i = Len(s) + 1
    BY <1>1
<1> HIDE DEF t
<1>5. ASSUME NEW x PROVE x \in Range(t) <=> x \in Range(s) \cup {e}
  <2>1. x \in Range(t) <=> \E i \in 1 .. Len(t) : t[i] = x
      BY <1>1, InRange
  <2>2. x \in Range(s) <=> \E i \in 1 .. Len(s) : s[i] = x
      BY InRange
  <2> QED BY <2>1, <2>2, <1>1, <1>2, <1>3, <1>4
<1>6. ASSUME NoRepeat(s), e \notin Range(s) PROVE NoRepeat(t)
  <2>1. \A i \in 1 .. Len(s) : s[i] /= e
      BY <1>6, InRange
  <2> QED BY <2>1, <1>1, <1>2, <1>3, <1>4, <1>6 DEF NoRepeat
<1> QED BY <1>5, <1>6 DEF t

(* Taking the first off a list without repetitions removes one element.    *)
LEMMA TailRange ==
    ASSUME NEW S, NEW s \in Seq(S), s /= <<>>, NoRepeat(s)
    PROVE  /\ Range(Tail(s)) = Range(s) \ {Head(s)}
           /\ Head(s) \in Range(s)
           /\ NoRepeat(Tail(s))
<1> DEFINE t == Tail(s)
           h == Head(s)
<1>1. t \in Seq(S) /\ Len(t) = Len(s) - 1 /\ Len(s) \in Nat \ {0}
    BY EmptySeq, HeadTailProperties
<1>2. \A i \in 1 .. Len(t) : t[i] = s[i + 1]
    BY HeadTailProperties
<1>3. h = s[1]
    OBVIOUS
<1> HIDE DEF t, h
<1>4. \A i \in 1 .. Len(t) : i + 1 \in 1 .. Len(s) /\ i + 1 /= 1
    BY <1>1
<1>5. \A i \in 1 .. Len(s) : i = 1 \/ (i - 1 \in 1 .. Len(t) /\ s[i] = t[i - 1])
    BY <1>1, <1>2
<1>6. 1 \in 1 .. Len(s)
    BY <1>1
<1>7. ASSUME NEW x PROVE x \in Range(t) <=> x \in Range(s) \ {h}
  <2>1. x \in Range(t) <=> \E i \in 1 .. Len(t) : t[i] = x
      BY <1>1, InRange
  <2>2. x \in Range(s) <=> \E i \in 1 .. Len(s) : s[i] = x
      BY InRange
  <2>3. ASSUME x \in Range(t) PROVE x \in Range(s) \ {h}
    <3>1. PICK i \in 1 .. Len(t) : t[i] = x
        BY <2>1, <2>3
    <3>2. s[i + 1] = x /\ i + 1 \in 1 .. Len(s) /\ i + 1 /= 1
        BY <3>1, <1>2, <1>4
    <3>3. x /= s[1]
        BY <3>2, <1>6 DEF NoRepeat
    <3> QED BY <3>2, <3>3, <2>2, <1>3
  <2>4. ASSUME x \in Range(s), x /= h PROVE x \in Range(t)
    <3>1. PICK i \in 1 .. Len(s) : s[i] = x
        BY <2>2, <2>4
    <3>2. i /= 1
        BY <3>1, <2>4, <1>3
    <3> QED BY <3>1, <3>2, <1>5, <2>1
  <2> QED BY <2>3, <2>4
<1>8. h \in Range(s)
    BY <1>3, <1>6, InRange
<1>9. NoRepeat(t)
  <2> SUFFICES ASSUME NEW i \in 1 .. Len(t), NEW j \in 1 .. Len(t), t[i] = t[j]
               PROVE  i = j
      BY DEF NoRepeat
  <2>1. s[i + 1] = s[j + 1] /\ i + 1 \in 1 .. Len(s) /\ j + 1 \in 1 .. Len(s)
      BY <1>2, <1>4
  <2>2. i + 1 = j + 1
      BY <2>1 DEF NoRepeat
  <2> QED BY <2>2
<1> QED BY <1>7, <1>8, <1>9 DEF t, h

(* Taking the element at any position off a list moves up those after it.  *)
LEMMA RemoveAtElements ==
    ASSUME NEW S, NEW s \in Seq(S), NEW k \in 1 .. Len(s)
    PROVE  /\ RemoveAt(s, k) \in Seq(S)
           /\ Len(RemoveAt(s, k)) = Len(s) - 1
           /\ \A i \in 1 .. Len(s) - 1 :
                RemoveAt(s, k)[i] = IF i < k THEN s[i] ELSE s[i + 1]
<1> DEFINE a == SubSeq(s, 1, k - 1)
           b == SubSeq(s, k + 1, Len(s))
           t == RemoveAt(s, k)
<1>1. Len(s) \in Nat /\ k \in Nat /\ 1 <= k /\ k <= Len(s)
         /\ \A i \in 1 .. Len(s) : s[i] \in S
    BY LenProperties, ElementOfSeq
<1>2. a \in Seq(S) /\ Len(a) = k - 1 /\ \A i \in 1 .. k - 1 : a[i] = s[i]
  <2>1. \A i \in 1 .. k - 1 : s[i] \in S
      BY <1>1
  <2>2. /\ a \in Seq(S)
        /\ Len(a) = IF 1 <= k - 1 THEN k - 1 - 1 + 1 ELSE 0
        /\ \A i \in 1 .. k - 1 - 1 + 1 : a[i] = s[1 + i - 1]
      BY <1>1, <2>1, SubSeqProperties
  <2> QED BY <1>1, <2>2
<1>3. b \in Seq(S) /\ Len(b) = Len(s) - k /\ \A i \in 1 .. Len(s) - k : b[i] = s[k + i]
  <2>1. \A i \in k + 1 .. Len(s) : s[i] \in S
      BY <1>1
  <2>2. /\ b \in Seq(S)
        /\ Len(b) = IF k + 1 <= Len(s) THEN Len(s) - (k + 1) + 1 ELSE 0
        /\ \A i \in 1 .. Len(s) - (k + 1) + 1 : b[i] = s[k + 1 + i - 1]
      BY <1>1, <2>1, SubSeqProperties
  <2> QED BY <1>1, <2>2
<1>4. t = a \o b
    BY DEF RemoveAt
<1> HIDE DEF a, b, t
<1>5. /\ t \in Seq(S)
      /\ Len(t) = Len(s) - 1
      /\ \A i \in 1 .. Len(s) - 1 : t[i] = IF i <= k - 1 THEN a[i] ELSE b[i - (k - 1)]
  <2>1. /\ a \o b \in Seq(S) /\ Len(a \o b) = Len(a) + Len(b)
        /\ \A i \in 1 .. Len(a) + Len(b) :
             (a \o b)[i] = IF i <= Len(a) THEN a[i] ELSE b[i - Len(a)]
      BY <1>2, <1>3, ConcatProperties
  <2> QED BY <1>1, <1>2, <1>3, <1>4, <2>1
<1> QED BY <1>1, <1>2, <1>3, <1>5 DEF t

(* It removes just that element if there are no repetitions.               *)
LEMMA RemoveAtRange ==
    ASSUME NEW S, NEW s \in Seq(S), NEW k \in 1 .. Len(s), NoRepeat(s)
    PROVE  /\ RemoveAt(s, k) \in Seq(S)
           /\ Range(RemoveAt(s, k)) = Range(s) \ {s[k]}
           /\ NoRepeat(RemoveAt(s, k))
<1> DEFINE t == RemoveAt(s, k)
<1>1. Len(s) \in Nat /\ k \in Nat /\ 1 <= k /\ k <= Len(s)
    BY LenProperties
<1>5. t \in Seq(S) /\ Len(t) = Len(s) - 1
    BY RemoveAtElements
<1>6. \A i \in 1 .. Len(s) - 1 : t[i] = IF i < k THEN s[i] ELSE s[i + 1]
    BY RemoveAtElements
<1> HIDE DEF t
<1>7. ASSUME NEW x PROVE x \in Range(t) <=> x \in Range(s) \ {s[k]}
  <2>1. x \in Range(t) <=> \E i \in 1 .. Len(s) - 1 : t[i] = x
      BY <1>5, InRange
  <2>2. x \in Range(s) <=> \E i \in 1 .. Len(s) : s[i] = x
      BY InRange
  <2>3. ASSUME x \in Range(t) PROVE x \in Range(s) /\ x /= s[k]
    <3>1. PICK i \in 1 .. Len(s) - 1 : t[i] = x
        BY <2>1, <2>3
    <3>2. PICK j \in 1 .. Len(s) : j /= k /\ s[j] = x
        BY <1>1, <1>6, <3>1
    <3> QED BY <2>2, <3>2 DEF NoRepeat
  <2>4. ASSUME x \in Range(s), x /= s[k] PROVE x \in Range(t)
    <3>1. PICK j \in 1 .. Len(s) : s[j] = x
        BY <2>2, <2>4
    <3>2. j /= k
        BY <2>4, <3>1
    <3>3. CASE j < k
        BY <1>1, <1>6, <2>1, <3>1, <3>3
    <3>4. CASE j > k
      <4>1. j - 1 \in 1 .. Len(s) - 1 /\ ~(j - 1 < k) /\ (j - 1) + 1 = j
          BY <1>1, <3>4
      <4> QED BY <1>6, <2>1, <3>1, <4>1
    <3> QED BY <1>1, <3>2, <3>3, <3>4
  <2> QED BY <2>3, <2>4
<1>8. NoRepeat(t)
  <2> SUFFICES ASSUME NEW i \in 1 .. Len(t), NEW j \in 1 .. Len(t), t[i] = t[j]
               PROVE  i = j
      BY DEF NoRepeat
  <2> DEFINE u(n) == IF n < k THEN n ELSE n + 1
  <2>a. \A n \in 1 .. Len(t) : t[n] = s[u(n)]
      BY <1>5, <1>6
  <2>b. \A n \in 1 .. Len(t) : u(n) \in 1 .. Len(s)
      BY <1>1, <1>5
  <2>1. s[u(i)] = s[u(j)] /\ u(i) \in 1 .. Len(s) /\ u(j) \in 1 .. Len(s)
    <3> HIDE DEF u
    <3> QED BY <2>a, <2>b
  <2>2. u(i) = u(j)
      BY <2>1 DEF NoRepeat
  <2> QED BY <1>1, <1>5, <2>2
<1> QED BY <1>5, <1>7, <1>8 DEF t

(* Putting an element at any position moves down those after it.           *)
LEMMA InsertAtElements ==
    ASSUME NEW S, NEW s \in Seq(S), NEW e \in S, NEW k \in 1 .. Len(s) + 1
    PROVE  /\ InsertAt(s, k, e) \in Seq(S)
           /\ Len(InsertAt(s, k, e)) = Len(s) + 1
           /\ \A i \in 1 .. k - 1 : InsertAt(s, k, e)[i] = s[i]
           /\ InsertAt(s, k, e)[k] = e
           /\ \A i \in k .. Len(s) : InsertAt(s, k, e)[i + 1] = s[i]
<1> DEFINE a == SubSeq(s, 1, k - 1)
           m == <<e>>
           b == SubSeq(s, k, Len(s))
           t == InsertAt(s, k, e)
<1>1. Len(s) \in Nat /\ k \in Nat /\ 1 <= k /\ k <= Len(s) + 1
         /\ \A i \in 1 .. Len(s) : s[i] \in S
    BY LenProperties, ElementOfSeq
<1>2. a \in Seq(S) /\ Len(a) = k - 1 /\ \A i \in 1 .. k - 1 : a[i] = s[i]
  <2>1. \A i \in 1 .. k - 1 : s[i] \in S
      BY <1>1
  <2>2. /\ a \in Seq(S)
        /\ Len(a) = IF 1 <= k - 1 THEN k - 1 - 1 + 1 ELSE 0
        /\ \A i \in 1 .. k - 1 - 1 + 1 : a[i] = s[1 + i - 1]
      BY <1>1, <2>1, SubSeqProperties
  <2> QED BY <1>1, <2>2
<1>3. /\ b \in Seq(S) /\ Len(b) = Len(s) + 1 - k
      /\ \A i \in 1 .. Len(s) + 1 - k : b[i] = s[k + i - 1]
  <2>1. \A i \in k .. Len(s) : s[i] \in S
      BY <1>1
  <2>2. /\ b \in Seq(S)
        /\ Len(b) = IF k <= Len(s) THEN Len(s) - k + 1 ELSE 0
        /\ \A i \in 1 .. Len(s) - k + 1 : b[i] = s[k + i - 1]
      BY <1>1, <2>1, SubSeqProperties
  <2> QED BY <1>1, <2>2
<1>4. m \in Seq(S) /\ Len(m) = 1 /\ m[1] = e
    OBVIOUS
<1>5. t = (a \o m) \o b
    BY DEF InsertAt
<1> HIDE DEF a, b, m, t
<1>6. /\ a \o m \in Seq(S) /\ Len(a \o m) = k
      /\ \A i \in 1 .. k : (a \o m)[i] = IF i <= k - 1 THEN a[i] ELSE m[i - (k - 1)]
  <2>1. /\ a \o m \in Seq(S) /\ Len(a \o m) = Len(a) + Len(m)
        /\ \A i \in 1 .. Len(a) + Len(m) :
             (a \o m)[i] = IF i <= Len(a) THEN a[i] ELSE m[i - Len(a)]
      BY <1>2, <1>4, ConcatProperties
  <2> QED BY <1>1, <1>2, <1>4, <2>1
<1> DEFINE n == a \o m
<1>7. n \in Seq(S) /\ Len(n) = k /\ \A i \in 1 .. k : n[i] = IF i < k THEN s[i] ELSE e
    BY <1>1, <1>2, <1>4, <1>6
<1>8. /\ t \in Seq(S) /\ Len(t) = Len(n) + Len(b)
      /\ \A i \in 1 .. Len(n) + Len(b) :
           t[i] = IF i <= Len(n) THEN n[i] ELSE b[i - Len(n)]
  <2>1. t = n \o b
      BY <1>5
  <2> HIDE DEF n
  <2> QED BY <1>3, <1>7, <2>1, ConcatProperties
<1> HIDE DEF n
<1>9. ASSUME NEW i \in 1 .. k - 1 PROVE t[i] = s[i]
    BY <1>1, <1>3, <1>7, <1>8
<1>10. t[k] = e
    BY <1>1, <1>3, <1>7, <1>8
<1>11. ASSUME NEW i \in k .. Len(s) PROVE t[i + 1] = s[i]
  <2>1. /\ i + 1 \in 1 .. Len(n) + Len(b) /\ ~(i + 1 <= Len(n))
        /\ i + 1 - Len(n) \in 1 .. Len(s) + 1 - k /\ k + (i + 1 - Len(n)) - 1 = i
      BY <1>1, <1>3, <1>7
  <2>2. t[i + 1] = b[i + 1 - Len(n)]
      BY <1>8, <2>1
  <2>3. b[i + 1 - Len(n)] = s[k + (i + 1 - Len(n)) - 1]
      BY <1>3, <2>1
  <2> QED BY <2>1, <2>2, <2>3
<1> QED BY <1>1, <1>3, <1>7, <1>8, <1>9, <1>10, <1>11 DEF t

(* It adds one element, and no repetition if it was not there.             *)
LEMMA InsertAtRange ==
    ASSUME NEW S, NEW s \in Seq(S), NEW e \in S, NEW k \in 1 .. Len(s) + 1,
           NoRepeat(s), e \notin Range(s)
    PROVE  /\ Range(InsertAt(s, k, e)) = Range(s) \cup {e}
           /\ NoRepeat(InsertAt(s, k, e))
<1> DEFINE t == InsertAt(s, k, e)
<1>1. Len(s) \in Nat /\ k \in Nat /\ 1 <= k /\ k <= Len(s) + 1
    BY LenProperties
<1>2. t \in Seq(S) /\ Len(t) = Len(s) + 1
    BY InsertAtElements
<1>3. /\ \A i \in 1 .. k - 1 : t[i] = s[i]
      /\ t[k] = e
      /\ \A i \in k .. Len(s) : t[i + 1] = s[i]
    BY InsertAtElements
<1> HIDE DEF t
<1>a. \A i \in 1 .. Len(s) + 1 :
        t[i] = IF i < k THEN s[i] ELSE IF i = k THEN e ELSE s[i - 1]
  <2> SUFFICES ASSUME NEW i \in 1 .. Len(s) + 1, i > k PROVE t[i] = s[i - 1]
      BY <1>1, <1>3
  <2>1. i - 1 \in k .. Len(s) /\ (i - 1) + 1 = i
      BY <1>1
  <2> QED BY <1>3, <2>1
<1>4. \A i \in 1 .. Len(s) : s[i] /= e
    BY InRange
<1>5. ASSUME NEW x PROVE x \in Range(t) <=> x \in Range(s) \cup {e}
  <2>1. x \in Range(t) <=> \E i \in 1 .. Len(s) + 1 : t[i] = x
      BY <1>2, InRange
  <2>2. x \in Range(s) <=> \E i \in 1 .. Len(s) : s[i] = x
      BY InRange
  <2>3. ASSUME x \in Range(t) PROVE x \in Range(s) \cup {e}
    <3>1. PICK i \in 1 .. Len(s) + 1 : t[i] = x
        BY <2>1, <2>3
    <3> QED BY <1>1, <1>a, <2>2, <3>1
  <2>4. ASSUME x \in Range(s) PROVE x \in Range(t)
    <3>1. PICK j \in 1 .. Len(s) : s[j] = x
        BY <2>2, <2>4
    <3>2. CASE j < k
        BY <1>1, <1>a, <2>1, <3>1, <3>2
    <3>3. CASE j >= k
      <4>1. j + 1 \in 1 .. Len(s) + 1 /\ ~(j + 1 < k) /\ j + 1 /= k /\ (j + 1) - 1 = j
          BY <1>1, <3>3
      <4> QED BY <1>a, <2>1, <3>1, <4>1
    <3> QED BY <1>1, <3>2, <3>3
  <2>5. ASSUME x = e PROVE x \in Range(t)
      BY <1>1, <1>a, <2>1, <2>5
  <2> QED BY <2>3, <2>4, <2>5
<1>6. NoRepeat(t)
  <2> SUFFICES ASSUME NEW i \in 1 .. Len(s) + 1, NEW j \in 1 .. Len(s) + 1, t[i] = t[j]
               PROVE  i = j
      BY <1>2 DEF NoRepeat
  <2>1. CASE i = k \/ j = k
      BY <1>1, <1>a, <1>4, <2>1
  <2>2. CASE i /= k /\ j /= k
    <3> DEFINE u(n) == IF n < k THEN n ELSE n - 1
    <3>1. t[i] = s[u(i)] /\ t[j] = s[u(j)]
        BY <1>a, <2>2
    <3>2. u(i) \in 1 .. Len(s) /\ u(j) \in 1 .. Len(s)
        BY <1>1, <2>2
    <3>3. u(i) = u(j)
      <4> HIDE DEF u
      <4> QED BY <3>1, <3>2 DEF NoRepeat
    <3> QED BY <1>1, <2>2, <3>3
  <2> QED BY <2>1, <2>2
<1> QED BY <1>5, <1>6 DEF t

(* A list without repetitions is as long as it has elements.               *)
LEMMA ListCardinality ==
    ASSUME NEW S, NEW s \in Seq(S), NoRepeat(s)
    PROVE  Cardinality(Range(s)) = Len(s)
<1>1. Len(s) \in Nat /\ DOMAIN s = 1 .. Len(s)
    BY LenProperties
<1>2. s \in Bijection(1 .. Len(s), Range(s))
    BY <1>1 DEF NoRepeat, Bijection, Injection, Surjection, IsInjective, Range
<1> QED BY <1>1, <1>2, FS_CountingElements DEF ExistsBijection

(* A list is its first n elements and those after them.                    *)
LEMMA SplitAt ==
    ASSUME NEW S, NEW s \in Seq(S), NEW n \in 0 .. Len(s)
    PROVE  /\ SubSeq(s, 1, n) \in Seq(S) /\ SubSeq(s, n + 1, Len(s)) \in Seq(S)
           /\ Len(SubSeq(s, 1, n)) = n /\ Len(SubSeq(s, n + 1, Len(s))) = Len(s) - n
           /\ s = SubSeq(s, 1, n) \o SubSeq(s, n + 1, Len(s))
<1>1. Len(s) \in Nat /\ \A i \in 1 .. Len(s) : s[i] \in S
    BY LenProperties, ElementOfSeq
<1>2. SubSeq(s, 1, n) \in Seq(S) /\ Len(SubSeq(s, 1, n)) = n
    BY <1>1, SubSeqProperties
<1>3. SubSeq(s, n + 1, Len(s)) \in Seq(S) /\ Len(SubSeq(s, n + 1, Len(s))) = Len(s) - n
    BY <1>1, SubSeqProperties
<1>4. SubSeq(s, 1, n) \o SubSeq(s, n + 1, Len(s)) = SubSeq(s, 1, Len(s))
  <2>1. 1 \in 1 .. Len(s) + 1 /\ n \in 1 - 1 .. Len(s) /\ Len(s) \in n .. Len(s)
      BY <1>1
  <2> QED BY <2>1, ConcatAdjacentSubSeq
<1> QED BY <1>2, <1>3, <1>4, SubSeqFull

(* A set of natural numbers has a smallest element.                        *)
LEMMA SmallestOf ==
    ASSUME NEW S \in SUBSET Nat, S /= {}
    PROVE  \E x \in S : \A y \in S : x <= y
<1> DEFINE less == {ss \in Nat \X Nat : ss[1] < ss[2]}
<1>1. IsWellFoundedOn(less, Nat)
    BY NatLessThanWellFounded DEF OpToRel
<1> HIDE DEF less
<1>2. PICK x \in S : \A y \in S : ~(<<y, x>> \in less)
    BY <1>1, WFMin
<1>3. \A y \in S : ~(y < x)
    BY <1>2 DEF less
<1> QED BY <1>3

(* Each set of numbers up to m that is not empty has a largest and a       *)
(* smallest.                                                               *)
LEMMA LargestOf ==
    ASSUME NEW m \in Nat, NEW S \in SUBSET (0 .. m), S /= {}
    PROVE  Max(S) \in S /\ \A y \in S : y <= Max(S)
<1> DEFINE T == {m - x : x \in S}
<1>1. T \in SUBSET Nat /\ T /= {}
    OBVIOUS
<1> HIDE DEF T
<1>2. PICK z \in T : \A y \in T : z <= y
    BY <1>1, SmallestOf
<1>3. PICK x \in S : z = m - x
    BY <1>2 DEF T
<1>4. \A y \in S : m - y \in T
    BY DEF T
<1>5. \A y \in S : y <= x
  <2> SUFFICES ASSUME NEW y \in S PROVE y <= x
      OBVIOUS
  <2>1. x \in Nat /\ y \in Nat /\ x <= m /\ y <= m
      OBVIOUS
  <2>2. m - x <= m - y
      BY <1>2, <1>3, <1>4
  <2> QED BY <2>1, <2>2
<1>6. \E a \in S : \A b \in S : a >= b
    BY <1>5
<1>7. Max(S) \in S /\ \A b \in S : Max(S) >= b
    BY <1>6 DEF Max
<1> QED BY <1>7

LEMMA LeastOf ==
    ASSUME NEW S \in SUBSET Nat, S /= {}
    PROVE  Min(S) \in S /\ \A y \in S : Min(S) <= y
BY SmallestOf DEF Min

-----------------------------------------------------------------------------
(* Sums.  f[x] tokens for every x of S: the sum of f over S is how many    *)
(* there are.                                                              *)
Tokens(f, S) == UNION {{x} \X (1 .. f[x]) : x \in S}

LEMMA TokensOf ==
    ASSUME NEW S, IsFiniteSet(S), NEW f, \A x \in S : f[x] \in Nat
    PROVE  IsFiniteSet(Tokens(f, S)) /\ Cardinality(Tokens(f, S)) \in Nat
<1> DEFINE U == {{x} \X (1 .. f[x]) : x \in S}
<1>1. IsFiniteSet(U)
  <2>1. [x \in S |-> {x} \X (1 .. f[x])] \in Surjection(S, U)
      BY DEF Surjection
  <2> QED BY <2>1, FS_Surjection
<1>2. ASSUME NEW x \in S PROVE IsFiniteSet({x} \X (1 .. f[x]))
  <2>1. 1 \in Int /\ f[x] \in Int
      OBVIOUS
  <2>2. IsFiniteSet({x}) /\ IsFiniteSet(1 .. f[x])
      BY <2>1, FS_Singleton, FS_Interval
  <2> QED BY <2>2, FS_Product
<1> QED BY <1>1, <1>2, FS_UNION, FS_CardinalityType DEF Tokens

LEMMA TokensOfNone == ASSUME NEW f PROVE Cardinality(Tokens(f, {})) = 0
<1>1. Tokens(f, {}) = {}
    BY DEF Tokens
<1> QED BY <1>1, FS_EmptySet

LEMMA TokensOfOneLess ==
    ASSUME NEW S, IsFiniteSet(S), NEW f, \A y \in S : f[y] \in Nat, NEW x \in S
    PROVE  Cardinality(Tokens(f, S)) = f[x] + Cardinality(Tokens(f, S \ {x}))
<1> DEFINE A == {x} \X (1 .. f[x])
           B == Tokens(f, S \ {x})
<1>1. IsFiniteSet(S \ {x})
    BY FS_RemoveElement
<1>2. IsFiniteSet(B) /\ Cardinality(B) \in Nat
    BY <1>1, TokensOf
<1>3. IsFiniteSet(A) /\ Cardinality(A) = f[x]
  <2>1. IsFiniteSet(1 .. f[x]) /\ Cardinality(1 .. f[x]) = f[x]
      BY FS_Interval
  <2>2. IsFiniteSet({x}) /\ Cardinality({x}) = 1
      BY FS_Singleton
  <2>3. IsFiniteSet(A) /\ Cardinality(A) = Cardinality({x}) * Cardinality(1 .. f[x])
      BY <2>1, <2>2, FS_Product
  <2> QED BY <2>1, <2>2, <2>3
<1>4. A \cap B = {}
    BY DEF Tokens
<1>5. Tokens(f, S) = A \cup B
    BY DEF Tokens
<1> HIDE DEF A, B
<1>6. Cardinality(A \cup B) = Cardinality(A) + Cardinality(B) - Cardinality(A \cap B)
    BY <1>2, <1>3, FS_Union
<1>7. Cardinality(A \cap B) = 0
    BY <1>4, FS_EmptySet
<1>8. Cardinality(Tokens(f, S)) = f[x] + Cardinality(B)
    BY <1>2, <1>3, <1>5, <1>6, <1>7
<1> QED BY <1>8 DEF B

LEMMA SumIsTokens ==
    ASSUME NEW S, IsFiniteSet(S), NEW f, \A x \in S : f[x] \in Nat
    PROVE  SumFunctionOnSet(f, S) = Cardinality(Tokens(f, S))
<1> DEFINE any(s) == CHOOSE x \in s : TRUE
           turn(g) == [s \in SUBSET S |-> IF s = {} THEN 0 ELSE f[any(s)] + g[s \ {any(s)}]]
           h == CHOOSE g : g = turn(g)
           count == [s \in SUBSET S |-> Cardinality(Tokens(f, s))]
<1>1. SumFunctionOnSet(f, S) = h[S]
    BY DEF SumFunctionOnSet, FoldFunctionOnSet, MapThenFoldSet
<1>2. ASSUME NEW s \in SUBSET S, s /= {} PROVE any(s) \in s
    BY <1>2
<1>3. \A s \in SUBSET S : IsFiniteSet(s)
    BY FS_Subset
<1> HIDE DEF any
<1>4. ASSUME NEW s \in SUBSET S, s /= {}
      PROVE  Cardinality(Tokens(f, s)) = f[any(s)] + Cardinality(Tokens(f, s \ {any(s)}))
    BY <1>2, <1>3, <1>4, TokensOfOneLess
<1>5. count = turn(count)
    BY <1>2, <1>4, TokensOfNone
<1>6. h = turn(h)
    BY <1>5
<1> HIDE DEF h
<1>7. /\ h[{}] = 0
      /\ \A s \in SUBSET S : s /= {} => h[s] = f[any(s)] + h[s \ {any(s)}]
  <2>1. \A s \in SUBSET S : h[s] = turn(h)[s]
      BY <1>6
  <2> QED BY <2>1
<1> HIDE DEF turn, count
<1> DEFINE Bad == {s \in SUBSET S : h[s] /= Cardinality(Tokens(f, s))}
<1>8. ASSUME Bad /= {} PROVE FALSE
  <2>1. IsWellFoundedOn(StrictSubsetOrdering(S), FiniteSubsetsOf(S))
      BY FS_StrictSubsetOrderingWellFounded
  <2>2. Bad \subseteq FiniteSubsetsOf(S)
      BY FS_FiniteSubsetsOfFinite
  <2>3. PICK s \in Bad : \A t \in Bad : ~(<<t, s>> \in StrictSubsetOrdering(S))
      BY <1>8, <2>1, <2>2, WFMin
  <2>4. CASE s = {}
      BY <1>7, <2>4, TokensOfNone
  <2>5. CASE s /= {}
    <3>1. any(s) \in s /\ s \ {any(s)} \in SUBSET S
        BY <1>2, <2>5
    <3>2. <<s \ {any(s)}, s>> \in StrictSubsetOrdering(S)
        BY <3>1 DEF StrictSubsetOrdering
    <3>3. h[s \ {any(s)}] = Cardinality(Tokens(f, s \ {any(s)}))
        BY <2>3, <3>1, <3>2
    <3> QED BY <1>4, <1>7, <2>5, <3>3
  <2> QED BY <2>4, <2>5
<1> QED BY <1>1, <1>8

(* A sum is a natural number.                                              *)
LEMMA SumNat ==
    ASSUME NEW S, IsFiniteSet(S), NEW f \in [S -> Nat]
    PROVE  SumFunction(f) \in Nat
<1>1. \A x \in S : f[x] \in Nat
    OBVIOUS
<1> QED BY <1>1, SumIsTokens, TokensOf DEF SumFunction

LEMMA SumOneLess ==
    ASSUME NEW S, IsFiniteSet(S), NEW f \in [S -> Nat], NEW x \in S
    PROVE  /\ SumFunctionOnSet(f, S \ {x}) \in Nat
           /\ SumFunction(f) = f[x] + SumFunctionOnSet(f, S \ {x})
<1>1. (\A y \in S : f[y] \in Nat) /\ (\A y \in S \ {x} : f[y] \in Nat)
    OBVIOUS
<1>2. IsFiniteSet(S \ {x})
    BY FS_RemoveElement
<1> QED BY <1>1, <1>2, SumIsTokens, TokensOf, TokensOfOneLess DEF SumFunction

(* One term changes, and the sum by as much.                               *)
LEMMA SumChange ==
    ASSUME NEW S, IsFiniteSet(S), NEW f \in [S -> Nat], NEW g \in [S -> Nat],
           NEW x \in S, \A y \in S \ {x} : g[y] = f[y]
    PROVE  SumFunction(g) + f[x] = SumFunction(f) + g[x]
<1>1. Tokens(f, S \ {x}) = Tokens(g, S \ {x})
    BY DEF Tokens
<1>2. IsFiniteSet(S \ {x})
    BY FS_RemoveElement
<1>3. SumFunctionOnSet(f, S \ {x}) = SumFunctionOnSet(g, S \ {x})
  <2>1. (\A y \in S \ {x} : f[y] \in Nat) /\ (\A y \in S \ {x} : g[y] \in Nat)
      OBVIOUS
  <2> QED BY <1>1, <1>2, <2>1, SumIsTokens
<1>4. f[x] \in Nat /\ g[x] \in Nat
    OBVIOUS
<1> QED BY <1>3, <1>4, SumOneLess

(* A sum is 0 only when all its terms are.                                 *)
LEMMA SumPositive ==
    ASSUME NEW S, IsFiniteSet(S), NEW f \in [S -> Nat], SumFunction(f) > 0
    PROVE  \E x \in S : f[x] > 0
<1> SUFFICES ASSUME \A x \in S : f[x] = 0 PROVE Cardinality(Tokens(f, S)) = 0
    BY SumIsTokens DEF SumFunction
<1>1. Tokens(f, S) = {}
    BY DEF Tokens
<1> QED BY <1>1, FS_EmptySet

(* When the terms other than that of x do not get smaller, the sum grows   *)
(* by at least what that of x does.                                        *)
LEMMA SumGrows ==
    ASSUME NEW S, IsFiniteSet(S), NEW f \in [S -> Nat], NEW g \in [S -> Nat],
           NEW x \in S, \A y \in S \ {x} : f[y] <= g[y]
    PROVE  SumFunction(f) + g[x] <= SumFunction(g) + f[x]
<1> DEFINE R == S \ {x}
<1>1. IsFiniteSet(R) /\ (\A y \in R : f[y] \in Nat) /\ (\A y \in R : g[y] \in Nat)
    BY FS_RemoveElement
<1>2. \A y \in R : 1 .. f[y] \subseteq 1 .. g[y]
    BY <1>1
<1>3. Tokens(f, R) \subseteq Tokens(g, R)
    BY <1>2 DEF Tokens
<1>4. Cardinality(Tokens(f, R)) <= Cardinality(Tokens(g, R))
    BY <1>1, <1>3, TokensOf, FS_Subset
<1>5. SumFunctionOnSet(f, R) <= SumFunctionOnSet(g, R)
    BY <1>1, <1>4, SumIsTokens
<1>6. f[x] \in Nat /\ g[x] \in Nat
    OBVIOUS
<1>7. /\ SumFunctionOnSet(f, R) \in Nat /\ SumFunction(f) = f[x] + SumFunctionOnSet(f, R)
      /\ SumFunctionOnSet(g, R) \in Nat /\ SumFunction(g) = g[x] + SumFunctionOnSet(g, R)
    BY SumOneLess
<1> QED BY <1>5, <1>6, <1>7

(* Two terms change, and together they do not get smaller.                 *)
LEMMA SumTransfer ==
    ASSUME NEW S, IsFiniteSet(S), NEW f \in [S -> Nat], NEW g \in [S -> Nat],
           NEW x \in S, NEW y \in S, x /= y, f[x] + f[y] <= g[x] + g[y],
           \A z \in S \ {x, y} : f[z] = g[z]
    PROVE  SumFunction(f) <= SumFunction(g)
<1> DEFINE h == [f EXCEPT ![y] = g[y]]
<1>1. h \in [S -> Nat] /\ h[y] = g[y] /\ h[x] = f[x]
    OBVIOUS
<1>2. \A z \in S \ {y} : h[z] = f[z]
    OBVIOUS
<1>3. \A z \in S \ {x} : g[z] = h[z]
    OBVIOUS
<1> HIDE DEF h
<1>4. SumFunction(h) + f[y] = SumFunction(f) + h[y]
    BY <1>1, <1>2, SumChange
<1>5. SumFunction(g) + h[x] = SumFunction(h) + g[x]
    BY <1>1, <1>3, SumChange
<1>6. SumFunction(f) \in Nat /\ SumFunction(g) \in Nat /\ SumFunction(h) \in Nat
    BY <1>1, SumNat
<1>7. f[x] \in Nat /\ f[y] \in Nat /\ g[x] \in Nat /\ g[y] \in Nat
    OBVIOUS
<1> QED BY <1>1, <1>4, <1>5, <1>6, <1>7

(* The sum over a list and one after it.                                   *)
LEMMA SumConcat ==
    ASSUME NEW m \in Nat, NEW k \in Nat,
           NEW f \in [1 .. m -> Nat], NEW g \in [1 .. k -> Nat], NEW h \in [1 .. m + k -> Nat],
           \A i \in 1 .. m : h[i] = f[i],
           \A i \in 1 .. k : h[m + i] = g[i]
    PROVE  SumFunction(h) = SumFunction(f) + SumFunction(g)
<1> DEFINE F == Cardinality(Tokens(f, 1 .. m))
           G(j) == Cardinality(Tokens(g, 1 .. j))
           H(j) == Cardinality(Tokens(h, 1 .. m + j))
           Bad == {j \in 0 .. k : H(j) /= F + G(j)}
<1> HIDE DEF F, G, H
<1>1. /\ \A i \in 1 .. m + k : h[i] \in Nat
      /\ \A i \in 1 .. k : g[i] \in Nat
      /\ \A i \in 1 .. m : f[i] \in Nat
    OBVIOUS
<1>2. ASSUME NEW n \in Nat PROVE IsFiniteSet(1 .. n)
    BY FS_Interval
<1>3. ASSUME NEW j \in 0 .. k
      PROVE  /\ IsFiniteSet(1 .. m + j) /\ IsFiniteSet(1 .. j)
             /\ \A i \in 1 .. m + j : h[i] \in Nat
             /\ \A i \in 1 .. j : g[i] \in Nat
  <2>1. m + j \in Nat /\ j \in Nat /\ m + j <= m + k /\ j <= k
      OBVIOUS
  <2>2. 1 .. m + j \subseteq 1 .. m + k /\ 1 .. j \subseteq 1 .. k
      BY <2>1
  <2> QED BY <1>1, <1>2, <2>1, <2>2
<1>4. F \in Nat /\ \A j \in 0 .. k : H(j) \in Nat /\ G(j) \in Nat
    BY <1>1, <1>2, <1>3, TokensOf DEF F, G, H
<1>5. H(0) = F + G(0)
  <2>1. Tokens(h, 1 .. m) = Tokens(f, 1 .. m)
    <3>1. \A i \in 1 .. m : h[i] = f[i]
        OBVIOUS
    <3> QED BY <3>1, Zenon DEF Tokens
  <2>2. 1 .. 0 = {} /\ m + 0 = m
      OBVIOUS
  <2>3. G(0) = 0
      BY <2>2, TokensOfNone DEF G
  <2>4. H(0) = F
      BY <2>1, <2>2 DEF F, H
  <2> QED BY <1>4, <2>3, <2>4
<1>6. ASSUME NEW j \in 1 .. k
      PROVE  H(j) = h[m + j] + H(j - 1) /\ G(j) = g[j] + G(j - 1)
  <2>1. ASSUME NEW n \in Nat \ {0} PROVE (1 .. n) \ {n} = 1 .. n - 1
      OBVIOUS
  <2>2. m + j \in Nat \ {0} /\ j \in Nat \ {0} /\ (m + j) - 1 = m + (j - 1) /\ j \in 0 .. k
      OBVIOUS
  <2>3. m + j \in 1 .. m + j /\ j \in 1 .. j
      BY <2>2
  <2>4. H(j) = h[m + j] + H(j - 1)
    <3>1. Cardinality(Tokens(h, 1 .. m + j))
            = h[m + j] + Cardinality(Tokens(h, (1 .. m + j) \ {m + j}))
        BY <1>3, <2>2, <2>3, TokensOfOneLess
    <3>2. (1 .. m + j) \ {m + j} = 1 .. m + (j - 1)
        BY <2>1, <2>2
    <3> QED BY <3>1, <3>2 DEF H
  <2>5. G(j) = g[j] + G(j - 1)
    <3>1. Cardinality(Tokens(g, 1 .. j))
            = g[j] + Cardinality(Tokens(g, (1 .. j) \ {j}))
        BY <1>3, <2>2, <2>3, TokensOfOneLess
    <3> QED BY <2>1, <2>2, <3>1 DEF G
  <2> QED BY <2>4, <2>5
<1>7. ASSUME Bad /= {} PROVE FALSE
  <2>1. PICK j \in Bad : \A i \in Bad : j <= i
    <3>1. Bad \in SUBSET Nat
        OBVIOUS
    <3> HIDE DEF Bad
    <3> QED BY <1>7, <3>1, SmallestOf
  <2>2. j /= 0
      BY <1>5
  <2>3. j \in 1 .. k /\ j - 1 \in 0 .. k /\ ~(j <= j - 1)
      BY <2>2
  <2>4. H(j - 1) = F + G(j - 1)
    <3>1. j - 1 \notin Bad
        BY <2>1, <2>3
    <3> QED BY <2>3, <3>1
  <2>5. h[m + j] = g[j] /\ g[j] \in Nat
      BY <2>3
  <2>6. H(j) = F + G(j)
      BY <1>4, <1>6, <2>3, <2>4, <2>5
  <2> QED BY <2>6
<1>8. k \in 0 .. k
    OBVIOUS
<1>9. H(k) = F + G(k)
    BY <1>7, <1>8
<1>10. DOMAIN f = 1 .. m /\ DOMAIN g = 1 .. k /\ DOMAIN h = 1 .. m + k
    OBVIOUS
<1>11. SumFunction(f) = F /\ SumFunction(g) = G(k) /\ SumFunction(h) = H(k)
    BY <1>1, <1>2, <1>3, <1>8, <1>10, SumIsTokens DEF F, G, H, SumFunction
<1> QED BY <1>9, <1>11

-----------------------------------------------------------------------------
(* The sequences of a sequence, one after the other.                       *)

(* What FlattenSeq computes exists: f[n] is the first n of them.           *)
Flattens(f, s) == f = [i \in 1 .. Len(s) |-> IF i = 1 THEN s[i] ELSE f[i - 1] \o s[i]]

LEMMA FlattenExists ==
    ASSUME NEW S, NEW s \in Seq(Seq(S)), s /= <<>>
    PROVE  \E f : Flattens(f, s)
<1> DEFINE Steps(g, n) == g = [i \in 1 .. n |-> IF i = 1 THEN s[i] ELSE g[i - 1] \o s[i]]
           Bad == {n \in 1 .. Len(s) : ~ \E g : Steps(g, n)}
<1>1. Len(s) \in Nat \ {0}
    BY EmptySeq
<1>2. ASSUME Bad /= {} PROVE FALSE
  <2>1. PICK n \in Bad : \A m \in Bad : n <= m
    <3>1. 1 .. Len(s) \subseteq Nat
        OBVIOUS
    <3>2. Bad \in SUBSET Nat
        BY <3>1, Zenon
    <3> HIDE DEF Bad
    <3> QED BY <1>2, <3>2, SmallestOf
  <2>2. n \in 1 .. Len(s) /\ n \in Nat
      OBVIOUS
  <2>3. CASE n = 1
    <3> DEFINE h == [i \in 1 .. 1 |-> s[1]]
    <3>1. Steps(h, 1)
        OBVIOUS
    <3> QED BY <2>3, <3>1
  <2>4. CASE n > 1
    <3>1. n - 1 \in 1 .. Len(s) /\ ~(n <= n - 1)
        BY <1>1, <2>2, <2>4
    <3>2. PICK g : Steps(g, n - 1)
        BY <2>1, <3>1
    <3> DEFINE h == [i \in 1 .. n |-> IF i = n THEN g[n - 1] \o s[n] ELSE g[i]]
    <3>3. \A i \in 1 .. n - 1 : h[i] = g[i]
        BY <2>2
    <3>4. ASSUME NEW i \in 1 .. n
          PROVE  h[i] = IF i = 1 THEN s[i] ELSE h[i - 1] \o s[i]
      <4>1. CASE i = n
        <5>1. n \in 1 .. n /\ n - 1 \in 1 .. n - 1 /\ n /= 1
            BY <2>2, <2>4
        <5>2. h[n - 1] = g[n - 1]
            BY <3>3, <5>1
        <5>3. h[n] = g[n - 1] \o s[n]
            BY <5>1
        <5> HIDE DEF h
        <5> QED BY <4>1, <5>1, <5>2, <5>3
      <4>2. CASE i /= n
        <5>1. i \in 1 .. n - 1
            BY <2>2, <4>2
        <5>2. g[i] = IF i = 1 THEN s[i] ELSE g[i - 1] \o s[i]
            BY <3>2, <5>1
        <5>3. i /= 1 => i - 1 \in 1 .. n - 1
            BY <5>1
        <5> QED BY <3>3, <5>1, <5>2, <5>3
      <4> QED BY <4>1, <4>2
    <3>5. h = [i \in 1 .. n |-> h[i]]
        OBVIOUS
    <3> HIDE DEF h
    <3>6. Steps(h, n)
        BY <3>4, <3>5
    <3> QED BY <3>6
  <2> QED BY <2>2, <2>3, <2>4
<1>3. Len(s) \in 1 .. Len(s)
    BY <1>1
<1>4. \E g : Steps(g, Len(s))
    BY <1>2, <1>3
<1> QED BY <1>4 DEF Flattens

LEMMA FlattenIs ==
    ASSUME NEW S, NEW s \in Seq(Seq(S)), s /= <<>>
    PROVE  \E f : /\ FlattenSeq(s) = f[Len(s)]
                  /\ f[1] = s[1]
                  /\ \A i \in 2 .. Len(s) : f[i] = f[i - 1] \o s[i]
                  /\ \A i \in 1 .. Len(s) : f[i] \in Seq(S)
<1>1. Len(s) \in Nat \ {0}
    BY EmptySeq
<1> DEFINE f == CHOOSE g : Flattens(g, s)
           Bad == {n \in 1 .. Len(s) : f[n] \notin Seq(S)}
<1>2. Flattens(f, s)
    BY FlattenExists
<1>3. FlattenSeq(s) = f[Len(s)]
    BY <1>1 DEF FlattenSeq, Flattens
<1> HIDE DEF f
<1>4. \A i \in 1 .. Len(s) : f[i] = IF i = 1 THEN s[i] ELSE f[i - 1] \o s[i]
  <2> DEFINE h == [i \in 1 .. Len(s) |-> IF i = 1 THEN s[i] ELSE f[i - 1] \o s[i]]
  <2>1. f = h
      BY <1>2 DEF Flattens
  <2>2. \A i \in 1 .. Len(s) : h[i] = IF i = 1 THEN s[i] ELSE f[i - 1] \o s[i]
      OBVIOUS
  <2> HIDE DEF h
  <2> QED BY <2>1, <2>2
<1>5. f[1] = s[1] /\ \A i \in 2 .. Len(s) : f[i] = f[i - 1] \o s[i]
  <2>1. 1 \in 1 .. Len(s) /\ \A i \in 2 .. Len(s) : i \in 1 .. Len(s) /\ i /= 1
      BY <1>1
  <2> QED BY <1>4, <2>1, Zenon
<1>6. \A i \in 1 .. Len(s) : s[i] \in Seq(S)
    BY ElementOfSeq
<1>7. ASSUME Bad /= {} PROVE FALSE
  <2>1. PICK n \in Bad : \A m \in Bad : n <= m
    <3>1. Bad \in SUBSET Nat
        OBVIOUS
    <3> HIDE DEF Bad
    <3> QED BY <1>7, <3>1, SmallestOf
  <2>2. n /= 1
      BY <1>1, <1>5, <1>6
  <2>3. n - 1 \in 1 .. Len(s) /\ n \in 2 .. Len(s) /\ ~(n <= n - 1) /\ n \in 1 .. Len(s)
      BY <1>1, <2>2
  <2>4. f[n - 1] \in Seq(S)
      BY <2>1, <2>3
  <2>5. f[n - 1] \o s[n] \in Seq(S)
      BY <1>6, <2>3, <2>4, ConcatProperties
  <2> QED BY <1>5, <2>3, <2>5
<1> QED BY <1>3, <1>5, <1>7

LEMMA FlattenOfNone == FlattenSeq(<<>>) = <<>>
BY DEF FlattenSeq

LEMMA FlattenType ==
    ASSUME NEW S, NEW s \in Seq(Seq(S))
    PROVE  FlattenSeq(s) \in Seq(S)
<1>1. CASE s = <<>>
  <2>1. <<>> \in Seq(S)
      OBVIOUS
  <2> QED BY <1>1, <2>1, FlattenOfNone
<1>2. CASE s /= <<>>
  <2>1. Len(s) \in 1 .. Len(s)
    <3>1. Len(s) \in Nat \ {0}
        BY <1>2, EmptySeq
    <3> QED BY <3>1
  <2> QED BY <1>2, <2>1, FlattenIs
<1> QED BY <1>1, <1>2

LEMMA FlattenAppend ==
    ASSUME NEW S, NEW s \in Seq(Seq(S)), NEW e \in Seq(S)
    PROVE  FlattenSeq(Append(s, e)) = FlattenSeq(s) \o e
<1> DEFINE t == Append(s, e)
           n == Len(s)
<1>1. /\ t \in Seq(Seq(S)) /\ t /= <<>> /\ Len(t) = n + 1 /\ n \in Nat
      /\ \A i \in 1 .. n : t[i] = s[i]
      /\ t[n + 1] = e
    BY AppendProperties, LenProperties
<1> HIDE DEF t
<1>2. PICK f : /\ FlattenSeq(t) = f[n + 1]
               /\ f[1] = t[1]
               /\ \A i \in 2 .. n + 1 : f[i] = f[i - 1] \o t[i]
  <2>1. PICK f : /\ FlattenSeq(t) = f[Len(t)]
                 /\ f[1] = t[1]
                 /\ \A i \in 2 .. Len(t) : f[i] = f[i - 1] \o t[i]
                 /\ \A i \in 1 .. Len(t) : f[i] \in Seq(S)
      BY <1>1, FlattenIs
  <2> QED BY <1>1, <2>1
<1>3. CASE s = <<>>
  <2>1. n = 0
      BY <1>3
  <2>2. FlattenSeq(t) = e
      BY <1>1, <1>2, <2>1
  <2>3. <<>> \o e = e
      BY ConcatEmptySeq
  <2> QED BY <1>3, <2>2, <2>3, FlattenOfNone DEF t
<1>4. CASE s /= <<>>
  <2>1. n \in Nat \ {0}
      BY <1>4, EmptySeq
  <2>2. PICK g : /\ FlattenSeq(s) = g[n]
                 /\ g[1] = s[1]
                 /\ \A i \in 2 .. n : g[i] = g[i - 1] \o s[i]
                 /\ \A i \in 1 .. n : g[i] \in Seq(S)
      BY <1>4, FlattenIs
  <2> DEFINE Bad == {i \in 1 .. n : f[i] /= g[i]}
  <2>3. ASSUME Bad /= {} PROVE FALSE
    <3>1. PICK i \in Bad : \A j \in Bad : i <= j
      <4>1. Bad \in SUBSET Nat
          OBVIOUS
      <4> HIDE DEF Bad
      <4> QED BY <2>3, <4>1, SmallestOf
    <3>2. i /= 1
        BY <1>1, <1>2, <2>1, <2>2
    <3>3. i - 1 \in 1 .. n /\ i \in 2 .. n /\ i \in 2 .. n + 1 /\ ~(i <= i - 1) /\ i \in 1 .. n
        BY <2>1, <3>2
    <3>4. f[i - 1] = g[i - 1]
        BY <3>1, <3>3
    <3>5. f[i] = f[i - 1] \o t[i] /\ g[i] = g[i - 1] \o s[i] /\ t[i] = s[i]
        BY <1>1, <1>2, <2>2, <3>3
    <3>6. f[i] = g[i]
        BY <3>4, <3>5
    <3> QED BY <3>6
  <2>4. n \in 1 .. n /\ n + 1 \in 2 .. n + 1 /\ (n + 1) - 1 = n
      BY <2>1
  <2>5. f[n] = g[n]
      BY <2>3, <2>4
  <2>6. f[n + 1] = f[n] \o e
      BY <1>1, <1>2, <2>4
  <2> QED BY <1>2, <2>2, <2>5, <2>6 DEF t
<1> QED BY <1>3, <1>4

LEMMA FlattenConcat ==
    ASSUME NEW S, NEW s \in Seq(Seq(S)), NEW t \in Seq(Seq(S))
    PROVE  FlattenSeq(s \o t) = FlattenSeq(s) \o FlattenSeq(t)
<1>a. \A x, y, z \in Seq(S) : (x \o y) \o z = x \o (y \o z)
  <2> TAKE x, y, z \in Seq(S)
  <2> QED BY ConcatAssociative, SMTT(30)
<1>b. \A x, y, z \in Seq(Seq(S)) : (x \o y) \o z = x \o (y \o z)
  <2> DEFINE T == Seq(S)
  <2>1. \A x, y, z \in Seq(T) : (x \o y) \o z = x \o (y \o z)
    <3> HIDE DEF T
    <3> TAKE x, y, z \in Seq(T)
    <3> QED BY ConcatAssociative, SMTT(30)
  <2> QED BY <2>1
<1> DEFINE u(k) == SubSeq(t, 1, k)
           Bad == {k \in 0 .. Len(t) : FlattenSeq(s \o u(k)) /= FlattenSeq(s) \o FlattenSeq(u(k))}
<1>1. Len(t) \in Nat /\ \A i \in 1 .. Len(t) : t[i] \in Seq(S)
    BY LenProperties, ElementOfSeq
<1>2. ASSUME NEW k \in 0 .. Len(t) PROVE u(k) \in Seq(Seq(S))
    BY SplitAt
<1>3. u(0) = <<>>
    BY SubSeqEmpty
<1>4. ASSUME NEW k \in 1 .. Len(t) PROVE u(k) = u(k - 1) \o <<t[k]>>
  <2>1. 1 \in 1 .. Len(t) /\ k \in 1 .. Len(t)
      BY <1>1
  <2> QED BY <2>1, SubSeqRecursiveSecond
<1>5. u(Len(t)) = t
    BY SubSeqFull
<1> HIDE DEF u
<1>6. ASSUME Bad /= {} PROVE FALSE
  <2>1. PICK k \in Bad : \A j \in Bad : k <= j
    <3>1. 0 .. Len(t) \subseteq Nat
        OBVIOUS
    <3>2. Bad \in SUBSET Nat
        BY <3>1, Zenon
    <3> HIDE DEF Bad
    <3> QED BY <1>6, <3>2, SmallestOf
  <2>2. k /= 0
    <3>1. s \o <<>> = s /\ FlattenSeq(s) \in Seq(S)
        BY ConcatEmptySeq, FlattenType
    <3>2. FlattenSeq(s) \o <<>> = FlattenSeq(s)
        BY <3>1, ConcatEmptySeq
    <3>3. FlattenSeq(s \o u(0)) = FlattenSeq(s) \o FlattenSeq(u(0))
        BY <1>3, <3>1, <3>2, FlattenOfNone
    <3> QED BY <3>3
  <2>3. k \in 1 .. Len(t) /\ k - 1 \in 0 .. Len(t) /\ ~(k <= k - 1) /\ k \in 0 .. Len(t)
      BY <2>2
  <2>4. FlattenSeq(s \o u(k - 1)) = FlattenSeq(s) \o FlattenSeq(u(k - 1))
      BY <2>1, <2>3
  <2> DEFINE v == u(k - 1)
             e == t[k]
  <2>5. v \in Seq(Seq(S)) /\ e \in Seq(S) /\ u(k) = v \o <<e>>
      BY <1>1, <1>2, <1>4, <2>3
  <2>6. FlattenSeq(s \o v) = FlattenSeq(s) \o FlattenSeq(v)
      BY <2>4
  <2> HIDE DEF v, e
  <2>7. s \o v \in Seq(Seq(S)) /\ <<e>> \in Seq(Seq(S))
      BY <2>5, ConcatProperties
  <2>8. u(k) = Append(v, e) /\ s \o u(k) = Append(s \o v, e)
    <3>1. s \o (v \o <<e>>) = (s \o v) \o <<e>>
        BY <1>b, <2>5, <2>7, Zenon
    <3>2. Append(v, e) = v \o <<e>> /\ Append(s \o v, e) = (s \o v) \o <<e>>
        BY <2>5, <2>7, AppendIsConcat
    <3> QED BY <2>5, <3>1, <3>2
  <2>9. /\ FlattenSeq(u(k)) = FlattenSeq(v) \o e
        /\ FlattenSeq(s \o u(k)) = FlattenSeq(s \o v) \o e
      BY <2>5, <2>7, <2>8, FlattenAppend
  <2>10. (FlattenSeq(s) \o FlattenSeq(v)) \o e = FlattenSeq(s) \o (FlattenSeq(v) \o e)
    <3>1. FlattenSeq(s) \in Seq(S) /\ FlattenSeq(v) \in Seq(S)
        BY <2>5, FlattenType
    <3> QED BY <1>a, <2>5, <3>1, Zenon
  <2>11. FlattenSeq(s \o u(k)) = FlattenSeq(s) \o FlattenSeq(u(k))
      BY <2>6, <2>9, <2>10
  <2> QED BY <2>11
<1>7. Len(t) \in 0 .. Len(t)
    BY <1>1
<1>8. FlattenSeq(s \o u(Len(t))) = FlattenSeq(s) \o FlattenSeq(u(Len(t)))
    BY <1>6, <1>7
<1> QED BY <1>5, <1>8

LEMMA FlattenOne ==
    ASSUME NEW S, NEW e \in Seq(S)
    PROVE  FlattenSeq(<<e>>) = e
<1>1. Append(<<>>, e) = <<e>> /\ <<>> \in Seq(Seq(S))
    OBVIOUS
<1>2. FlattenSeq(<<e>>) = FlattenSeq(<<>>) \o e
    BY <1>1, FlattenAppend
<1> QED BY <1>2, FlattenOfNone, ConcatEmptySeq

-----------------------------------------------------------------------------
(* The two parts of a sequence.                                            *)
LEMMA FirstPart ==
    ASSUME NEW S, NEW s \in Seq(S), NEW t \in Seq(S)
    PROVE  SubSeq(s \o t, 1, Len(s)) = s
<1>1. /\ s \o t \in Seq(S) /\ Len(s \o t) = Len(s) + Len(t) /\ Len(s) \in Nat /\ Len(t) \in Nat
      /\ \A i \in 1 .. Len(s) + Len(t) : (s \o t)[i] = IF i <= Len(s) THEN s[i] ELSE t[i - Len(s)]
    BY ConcatProperties, LenProperties
<1>2. \A i \in 1 .. Len(s) : (s \o t)[i] = s[i] /\ s[i] \in S
    BY <1>1, ElementOfSeq
<1>3. /\ SubSeq(s \o t, 1, Len(s)) \in Seq(S)
      /\ Len(SubSeq(s \o t, 1, Len(s))) = Len(s)
      /\ \A i \in 1 .. Len(s) : SubSeq(s \o t, 1, Len(s))[i] = (s \o t)[i]
  <2>1. \A i \in 1 .. Len(s) : (s \o t)[i] \in S
      BY <1>2
  <2> DEFINE x == s \o t
  <2> HIDE DEF x
  <2>2. /\ SubSeq(x, 1, Len(s)) \in Seq(S)
        /\ Len(SubSeq(x, 1, Len(s))) = IF 1 <= Len(s) THEN Len(s) - 1 + 1 ELSE 0
        /\ \A i \in 1 .. Len(s) - 1 + 1 : SubSeq(x, 1, Len(s))[i] = x[1 + i - 1]
    <3>1. \A i \in 1 .. Len(s) : x[i] \in S
        BY <2>1 DEF x
    <3> QED BY <1>1, <3>1, SubSeqProperties
  <2>3. /\ Len(SubSeq(x, 1, Len(s))) = Len(s)
        /\ \A i \in 1 .. Len(s) : SubSeq(x, 1, Len(s))[i] = x[i]
      BY <1>1, <2>2
  <2> QED BY <2>2, <2>3 DEF x
<1>4. \A i \in 1 .. Len(s) : SubSeq(s \o t, 1, Len(s))[i] = s[i]
    BY <1>2, <1>3
<1> QED BY <1>3, <1>4, SeqEqual

LEMMA IsPrefixOfConcat ==
    ASSUME NEW S, NEW s \in Seq(S), NEW t \in Seq(S)
    PROVE  IsPrefix(s, s \o t)
<1>1. Len(s) <= Len(s \o t)
    BY ConcatProperties, LenProperties
<1> QED BY <1>1, FirstPart, SubSeqFull DEF IsPrefix

LEMMA ReverseParts ==
    ASSUME NEW S, NEW s \in Seq(S)
    PROVE  /\ Reverse(s) \in Seq(S) /\ Len(Reverse(s)) = Len(s)
           /\ \A i \in 1 .. Len(s) : Reverse(s)[i] = s[(Len(s) - i) + 1]
<1>1. Len(s) \in Nat /\ \A i \in 1 .. Len(s) : s[(Len(s) - i) + 1] \in S
    BY LenProperties, ElementOfSeq
<1> QED BY <1>1 DEF Reverse

LEMMA IsSuffixOfConcat ==
    ASSUME NEW S, NEW s \in Seq(S), NEW t \in Seq(S)
    PROVE  IsSuffix(t, s \o t)
<1> DEFINE x == s \o t
           a == Reverse(t)
           b == Reverse(x)
<1>1. /\ x \in Seq(S) /\ Len(x) = Len(s) + Len(t) /\ Len(s) \in Nat /\ Len(t) \in Nat
      /\ \A i \in 1 .. Len(s) + Len(t) : x[i] = IF i <= Len(s) THEN s[i] ELSE t[i - Len(s)]
    BY ConcatProperties, LenProperties
<1> HIDE DEF x
<1>2. /\ a \in Seq(S) /\ Len(a) = Len(t) /\ \A i \in 1 .. Len(t) : a[i] = t[(Len(t) - i) + 1]
      /\ b \in Seq(S) /\ Len(b) = Len(x) /\ \A i \in 1 .. Len(x) : b[i] = x[(Len(x) - i) + 1]
    BY <1>1, ReverseParts
<1>3. ASSUME NEW i \in 1 .. Len(t) PROVE b[i] = a[i]
  <2> DEFINE j == (Len(x) - i) + 1
  <2>1. /\ i \in 1 .. Len(x) /\ j \in 1 .. Len(s) + Len(t) /\ ~(j <= Len(s))
        /\ j - Len(s) = (Len(t) - i) + 1
      BY <1>1
  <2>2. b[i] = x[j]
      BY <1>2, <2>1
  <2> HIDE DEF j
  <2>3. x[j] = t[j - Len(s)]
      BY <1>1, <2>1
  <2> QED BY <1>2, <2>1, <2>2, <2>3
<1> HIDE DEF a, b
<1>4. \A i \in 1 .. Len(b) : b[i] \in S
    BY <1>2, ElementOfSeq
<1>5. /\ SubSeq(b, 1, Len(t)) \in Seq(S)
      /\ Len(SubSeq(b, 1, Len(t))) = Len(t)
      /\ \A i \in 1 .. Len(t) : SubSeq(b, 1, Len(t))[i] = b[i]
  <2>1. \A i \in 1 .. Len(t) : b[i] \in S
      BY <1>1, <1>2, <1>4
  <2>2. /\ SubSeq(b, 1, Len(t)) \in Seq(S)
        /\ Len(SubSeq(b, 1, Len(t))) = IF 1 <= Len(t) THEN Len(t) - 1 + 1 ELSE 0
        /\ \A i \in 1 .. Len(t) - 1 + 1 : SubSeq(b, 1, Len(t))[i] = b[1 + i - 1]
      BY <1>1, <2>1, SubSeqProperties
  <2> QED BY <1>1, <2>2
<1>6. SubSeq(b, 1, Len(t)) = a
  <2>1. \A i \in 1 .. Len(t) : SubSeq(b, 1, Len(t))[i] = a[i]
      BY <1>3, <1>5
  <2> QED BY <1>2, <1>5, <2>1, SeqEqual
<1>7. SubSeq(a, 1, Len(a)) = a
    BY <1>2, SubSeqFull
<1>8. Len(a) <= Len(b)
    BY <1>1, <1>2
<1>9. IsPrefix(a, b)
    BY <1>2, <1>6, <1>7, <1>8 DEF IsPrefix
<1> QED BY <1>9 DEF IsSuffix, a, b, x
=============================================================================
