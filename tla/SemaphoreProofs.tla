--------------------------- MODULE SemaphoreProofs ---------------------------
(***************************************************************************)
(* Proofs about module Semaphore, for every number of slots and requests:  *)
(* slots are accounted for, none is idle while a request waits, and the    *)
(* semaphore implements the first-come first-served InflightLimit.         *)
(***************************************************************************)
EXTENDS Semaphore, FiniteSetTheorems, SequenceTheorems, TLAPS

Occupied == Held \cup ready
InAcquire == {r \in Requests : acq[r] \in {"waiting", "canceled"}}

(***************************************************************************)
(* The inductive invariant.  SlotsAccounted alone is not inductive: that   *)
(* Release grants a slot to a request which does not have one yet needs    *)
(* LineIsExact, and that it grants no more than one slot, and so does not  *)
(* exceed the limit, needs NoIdleSlot.                                     *)
(***************************************************************************)
SemInv ==
  /\ TypeOK
  /\ IsFiniteSet(Occupied)
  /\ SlotsAccounted
  /\ NoIdleSlot
  /\ LineIsExact

LEMMA SemInit == Init => SemInv
<1> SUFFICES ASSUME Init PROVE SemInv
  OBVIOUS
<1> USE SemaphoreAssumption DEF Init
<1>1. <<>> \in Seq(Requests) /\ Len(<<>>) = 0
  BY EmptySeq
<1>2. TypeOK
  BY <1>1 DEF TypeOK
<1>3. Occupied = {}
  BY DEF Occupied, Held
<1>4. IsFiniteSet(Occupied) /\ Cardinality(Occupied) = 0
  BY <1>3, FS_EmptySet
<1>5. SlotsAccounted
  BY <1>4 DEF SlotsAccounted, Occupied
<1>6. NoIdleSlot
  BY DEF NoIdleSlot
<1>7. LineIsExact
  <2>1. Waiting = {}
    BY <1>1 DEF Waiting
  <2> QED
    BY <1>1, <2>1 DEF LineIsExact
<1> QED
  BY <1>2, <1>4, <1>5, <1>6, <1>7 DEF SemInv

----------------------------------------------------------------------------
(* Sequences without repetition                                            *)

Elems(s) == {s[i] : i \in 1..Len(s)}
Distinct(s) == \A i, j \in 1..Len(s) : s[i] = s[j] => i = j

(* Appending a new element to a line.                                      *)
LEMMA AppendLine ==
  ASSUME NEW S, NEW s \in Seq(S), NEW e \in S, e \notin Elems(s), Distinct(s)
  PROVE  /\ Append(s, e) \in Seq(S)
         /\ Elems(Append(s, e)) = Elems(s) \cup {e}
         /\ Distinct(Append(s, e))
<1> DEFINE t == Append(s, e)
           n == Len(s)
<1>1. /\ t \in Seq(S) /\ Len(t) = n + 1 /\ n \in Nat
      /\ \A i \in 1..n : t[i] = s[i]
      /\ t[n + 1] = e
  BY AppendProperties, LenProperties
<1> HIDE DEF t, n
<1>2. \A i \in 1..n : s[i] # e
  BY DEF Elems, n
<1>3. 1..(n + 1) = (1..n) \cup {n + 1}
  BY <1>1
<1>4. {t[i] : i \in 1..(n + 1)} = {s[i] : i \in 1..n} \cup {e}
  BY <1>1, <1>3
<1>5. Elems(t) = {t[i] : i \in 1..(n + 1)} /\ Elems(s) = {s[i] : i \in 1..n}
  BY <1>1 DEF Elems, n
<1>6. ASSUME NEW i \in 1..(n + 1), NEW j \in 1..(n + 1), t[i] = t[j]
      PROVE  i = j
  <2>1. CASE i \in 1..n /\ j \in 1..n
    BY <1>1, <1>6, <2>1 DEF Distinct, n
  <2>2. CASE i = n + 1 /\ j \in 1..n
    BY <1>1, <1>2, <1>6, <2>2
  <2>3. CASE i \in 1..n /\ j = n + 1
    BY <1>1, <1>2, <1>6, <2>3
  <2>4. CASE i = n + 1 /\ j = n + 1
    BY <2>4
  <2> QED
    BY <1>3, <2>1, <2>2, <2>3, <2>4
<1>7. Distinct(t)
  BY <1>1, <1>6 DEF Distinct
<1> QED
  BY <1>1, <1>4, <1>5, <1>7 DEF t

(* The elements of the line without its i-th.                              *)
LEMMA RemoveAtElements ==
  ASSUME NEW S, NEW s \in Seq(S), NEW i \in 1..Len(s)
  PROVE  LET t == RemoveAt(s, i)
         IN /\ t \in Seq(S)
            /\ Len(t) = Len(s) - 1
            /\ \A j \in 1..Len(t) : t[j] = IF j < i THEN s[j] ELSE s[j + 1]
<1> DEFINE a == SubSeq(s, 1, i - 1)
           b == SubSeq(s, i + 1, Len(s))
<1>1. Len(s) \in Nat /\ i \in Int /\ i - 1 \in Int /\ i + 1 \in Int /\ 1 \in Int
  BY LenProperties
<1>2. \A j \in 1..Len(s) : s[j] \in S
  BY ElementOfSeq
<1>3. /\ a \in Seq(S) /\ Len(a) = i - 1
      /\ \A j \in 1..(i - 1) : a[j] = s[j]
  <2>1. \A j \in 1..(i - 1) : s[j] \in S
    BY <1>1, <1>2
  <2>2. /\ a \in Seq(S)
        /\ Len(a) = IF 1 <= i - 1 THEN i - 1 - 1 + 1 ELSE 0
        /\ \A j \in 1..(i - 1 - 1 + 1) : a[j] = s[1 + j - 1]
    BY <1>1, <2>1, SubSeqProperties
  <2> QED
    BY <1>1, <2>2
<1>4. /\ b \in Seq(S) /\ Len(b) = Len(s) - i
      /\ \A j \in 1..(Len(s) - i) : b[j] = s[i + j]
  <2>1. \A j \in (i + 1)..Len(s) : s[j] \in S
    BY <1>1, <1>2
  <2>2. /\ b \in Seq(S)
        /\ Len(b) = IF i + 1 <= Len(s) THEN Len(s) - (i + 1) + 1 ELSE 0
        /\ \A j \in 1..(Len(s) - (i + 1) + 1) : b[j] = s[(i + 1) + j - 1]
    BY <1>1, <2>1, SubSeqProperties
  <2> QED
    BY <1>1, <2>2
<1> HIDE DEF a, b
<1>5. /\ a \o b \in Seq(S)
      /\ Len(a \o b) = Len(a) + Len(b)
      /\ \A j \in 1..(Len(a) + Len(b)) :
           (a \o b)[j] = IF j <= Len(a) THEN a[j] ELSE b[j - Len(a)]
  BY <1>3, <1>4, ConcatProperties
<1>6. RemoveAt(s, i) = a \o b
  BY DEF RemoveAt, a, b
<1>7. Len(a \o b) = Len(s) - 1
  BY <1>1, <1>3, <1>4, <1>5
<1>8. ASSUME NEW j \in 1..(Len(s) - 1)
      PROVE  (a \o b)[j] = IF j < i THEN s[j] ELSE s[j + 1]
  <2>1. (a \o b)[j] = IF j <= i - 1 THEN a[j] ELSE b[j - (i - 1)]
    BY <1>1, <1>3, <1>4, <1>5
  <2>2. CASE j < i
    BY <1>1, <1>3, <2>1, <2>2
  <2>3. CASE ~ (j < i)
    <3>1. j - (i - 1) \in 1..(Len(s) - i) /\ i + (j - (i - 1)) = j + 1
      BY <1>1, <2>3
    <3>2. b[j - (i - 1)] = s[i + (j - (i - 1))]
      BY <1>4, <3>1
    <3>3. b[j - (i - 1)] = s[j + 1]
      BY <3>1, <3>2
    <3>4. ~ (j <= i - 1)
      BY <1>1, <2>3
    <3> QED
      BY <2>1, <2>3, <3>3, <3>4
  <2> QED
    BY <2>2, <2>3
<1> QED
  BY <1>5, <1>6, <1>7, <1>8

(* Taking one request out of a line takes out that request only.           *)
LEMMA RemoveLine ==
  ASSUME NEW S, NEW s \in Seq(S), NEW i \in 1..Len(s), Distinct(s)
  PROVE  /\ RemoveAt(s, i) \in Seq(S)
         /\ Elems(RemoveAt(s, i)) = Elems(s) \ {s[i]}
         /\ Distinct(RemoveAt(s, i))
<1> DEFINE t == RemoveAt(s, i)
           n == Len(s)
<1>1. /\ t \in Seq(S) /\ Len(t) = n - 1 /\ n \in Nat
      /\ \A j \in 1..(n - 1) : t[j] = IF j < i THEN s[j] ELSE s[j + 1]
  BY RemoveAtElements, LenProperties
<1> HIDE DEF t
<1>2. ASSUME NEW j \in 1..(n - 1)
      PROVE  \E k \in 1..n : k # i /\ t[j] = s[k] /\ (k = j \/ k = j + 1)
                             /\ (k = j <=> j < i)
  <2>1. CASE j < i
    BY <1>1, <2>1
  <2>2. CASE ~ (j < i)
    <3>1. j + 1 \in 1..n /\ j + 1 # i /\ j + 1 # j
      BY <1>1, <2>2
    <3> QED
      BY <1>1, <2>2, <3>1
  <2> QED
    BY <2>1, <2>2
<1>3. ASSUME NEW k \in 1..n, k # i
      PROVE  \E j \in 1..(n - 1) : t[j] = s[k]
  <2>1. CASE k < i
    BY <1>1, <2>1
  <2>2. CASE i < k
    <3>1. k - 1 \in 1..(n - 1) /\ ~ (k - 1 < i) /\ (k - 1) + 1 = k
      BY <1>1, <2>2
    <3> QED
      BY <1>1, <3>1
  <2> QED
    BY <1>1, <1>3, <2>1, <2>2
<1>4. Elems(t) = Elems(s) \ {s[i]}
  <2>1. ASSUME NEW j \in 1..(n - 1) PROVE t[j] \in Elems(s) \ {s[i]}
    <3>1. PICK k \in 1..n : k # i /\ t[j] = s[k]
      BY <1>2
    <3> QED
      BY <3>1 DEF Elems, Distinct
  <2>2. ASSUME NEW x \in Elems(s) \ {s[i]} PROVE x \in Elems(t)
    <3>1. PICK k \in 1..n : x = s[k] /\ k # i
      BY DEF Elems
    <3>2. PICK j \in 1..(n - 1) : t[j] = s[k]
      BY <1>3, <3>1
    <3> QED
      BY <1>1, <3>1, <3>2 DEF Elems
  <2>3. ASSUME NEW x \in Elems(t) PROVE x \in Elems(s) \ {s[i]}
    BY <1>1, <2>1, <2>3 DEF Elems
  <2> QED
    BY <2>2, <2>3
<1>5. ASSUME NEW j \in 1..(n - 1), NEW l \in 1..(n - 1), t[j] = t[l]
      PROVE  j = l
  <2>1. PICK k \in 1..n : t[j] = s[k] /\ (k = j \/ k = j + 1) /\ (k = j <=> j < i)
    BY <1>2
  <2>2. PICK m \in 1..n : t[l] = s[m] /\ (m = l \/ m = l + 1) /\ (m = l <=> l < i)
    BY <1>2
  <2>3. k = m
    BY <1>5, <2>1, <2>2 DEF Distinct
  <2> QED
    BY <1>1, <2>1, <2>2, <2>3
<1>6. Distinct(t)
  BY <1>1, <1>5 DEF Distinct
<1> QED
  BY <1>1, <1>4, <1>6 DEF t

----------------------------------------------------------------------------
(* The steps of the semaphore                                              *)

(* What the invariant says of the numbers and of the line.                 *)
LEMMA InvFacts ==
  ASSUME SemInv
  PROVE  /\ cur \in Nat /\ Size \in Nat \ {0} /\ cur <= Size
         /\ cur = Cardinality(Occupied) /\ IsFiniteSet(Occupied)
         /\ waiters \in Seq(Requests) /\ Len(waiters) \in Nat
         /\ waiters # <<>> => cur = Size
         /\ Waiting = Elems(waiters) /\ Distinct(waiters)
         /\ Waiting = InAcquire \ ready
         /\ ready \subseteq InAcquire
         /\ acq \in [Requests ->
                     {"outside", "waiting", "canceled", "held", "refused"}]
<1>1. /\ cur = Cardinality(Occupied) /\ IsFiniteSet(Occupied) /\ cur <= Size
      /\ ready \subseteq InAcquire
  BY DEF SemInv, SlotsAccounted, Occupied, InAcquire
<1>2. cur \in Nat
  BY <1>1, FS_CardinalityType
<1>3. waiters \in Seq(Requests) /\ Len(waiters) \in Nat
  BY LenProperties DEF SemInv, TypeOK
<1>4. waiters # <<>> => cur = Size
  BY <1>1, <1>2, SemaphoreAssumption DEF SemInv, NoIdleSlot
<1>5. /\ Waiting = Elems(waiters) /\ Distinct(waiters)
      /\ Waiting = InAcquire \ ready
  BY DEF SemInv, LineIsExact, Waiting, Elems, Distinct, InAcquire
<1> QED
  BY <1>1, <1>2, <1>3, <1>4, <1>5, SemaphoreAssumption DEF SemInv, TypeOK

(* The invariant, put together from what a step leaves.                    *)
LEMMA InvFromParts ==
  ASSUME TypeOK', IsFiniteSet(Occupied)', (cur = Cardinality(Occupied))',
         (cur <= Size)', (ready \subseteq InAcquire)', NoIdleSlot',
         (Elems(waiters) = InAcquire \ ready)', Distinct(waiters)'
  PROVE  SemInv'
<1>1. SlotsAccounted'
  BY DEF SlotsAccounted, Occupied, InAcquire
<1>2. LineIsExact'
  BY DEF LineIsExact, Elems, Distinct, InAcquire, Waiting
<1> QED
  BY <1>1, <1>2 DEF SemInv

(* Module InflightLimit counts as this one does.                           *)
LEMMA SameCardinality ==
  ASSUME NEW S
  PROVE  Limit!Cardinality(S) = Cardinality(S)
  BY DEF Limit!Cardinality, Cardinality, Limit!IsFiniteSet, IsFiniteSet

LimitStep == [Limit!Next]_(Limit!limitVars)

LEMMA AcquireStep ==
  ASSUME SemInv, NEW r \in Requests, Acquire(r)
  PROVE  SemInv' /\ LimitStep
<1>1. /\ acq[r] = "outside" /\ r \notin Occupied /\ r \notin InAcquire
      /\ r \notin Elems(waiters) /\ r \notin ready
  BY InvFacts DEF Acquire, Occupied, InAcquire, Held
<1>2. CASE cur < Size /\ waiters = <<>>
  <2>1. /\ cur' = cur + 1 /\ acq' = [acq EXCEPT ![r] = "held"]
        /\ waiters' = waiters /\ ready' = ready /\ ended' = ended
    BY <1>2 DEF Acquire
  <2>2. Occupied' = Occupied \cup {r}
    BY <1>1, <2>1, InvFacts DEF Occupied, Held
  <2>3. InAcquire' = InAcquire
    BY <1>1, <2>1, InvFacts DEF InAcquire
  <2>4. /\ IsFiniteSet(Occupied \cup {r})
        /\ Cardinality(Occupied \cup {r}) = Cardinality(Occupied) + 1
    BY <1>1, InvFacts, FS_AddElement
  <2>5. TypeOK'
    BY <2>1, InvFacts DEF SemInv, TypeOK
  <2>6. NoIdleSlot'
    BY <1>2, <2>1 DEF NoIdleSlot
  <2>7. cur' = Cardinality(Occupied)' /\ IsFiniteSet(Occupied)' /\ cur' <= Size
    BY <1>2, <2>1, <2>2, <2>4, InvFacts
  <2>8. (ready \subseteq InAcquire)' /\ Distinct(waiters)'
    BY <2>1, <2>3, InvFacts DEF Distinct
  <2>9. (Elems(waiters) = InAcquire \ ready)'
    BY <2>1, <2>3, InvFacts DEF Elems
  <2>10. SemInv'
    BY <2>5, <2>6, <2>7, <2>8, <2>9, InvFromParts
  <2>11. Limit!Enter(r)
    <3>1. r \notin Held \cup ready /\ r \notin Limit!Queued
      BY <1>1 DEF Occupied, Limit!Queued, Elems
    <3>2. Cardinality(Held \cup ready) < Size
      BY <1>2, InvFacts DEF Occupied
    <3>3. (Held \cup ready)' = (Held \cup ready) \cup {r}
      BY <2>2 DEF Occupied
    <3> QED
      BY <2>1, <3>1, <3>2, <3>3, SameCardinality DEF Limit!Enter
  <2> QED
    BY <2>10, <2>11 DEF LimitStep, Limit!Next
<1>3. CASE ~ (cur < Size /\ waiters = <<>>)
  <2>1. /\ cur' = cur /\ acq' = [acq EXCEPT ![r] = "waiting"]
        /\ waiters' = Append(waiters, r) /\ ready' = ready /\ ended' = ended
    BY <1>3 DEF Acquire
  <2>2. Occupied' = Occupied
    BY <1>1, <2>1, InvFacts DEF Occupied, Held
  <2>3. InAcquire' = InAcquire \cup {r}
    BY <1>1, <2>1, InvFacts DEF InAcquire
  <2>4. /\ waiters' \in Seq(Requests) /\ Distinct(waiters')
        /\ Elems(waiters') = Elems(waiters) \cup {r}
    BY <1>1, <2>1, InvFacts, AppendLine
  <2>5. TypeOK'
    BY <2>1, <2>4, InvFacts DEF SemInv, TypeOK
  <2>6. cur = Size
    BY <1>3, InvFacts
  <2>7. NoIdleSlot'
    BY <2>1, <2>6, InvFacts DEF NoIdleSlot
  <2>8. cur' = Cardinality(Occupied)' /\ IsFiniteSet(Occupied)' /\ cur' <= Size
    BY <2>1, <2>2, InvFacts
  <2>9. (ready \subseteq InAcquire)' /\ Distinct(waiters)'
    BY <2>1, <2>3, <2>4, InvFacts DEF Distinct
  <2>10. (Elems(waiters) = InAcquire \ ready)'
    <3>1. Elems(waiters)' = Elems(waiters')
      BY DEF Elems
    <3> QED
      BY <1>1, <2>1, <2>3, <2>4, <3>1, InvFacts
  <2>11. SemInv'
    BY <2>5, <2>7, <2>8, <2>9, <2>10, InvFromParts
  <2>12. Limit!Enter(r)
    <3>1. r \notin Held \cup ready /\ r \notin Limit!Queued
      BY <1>1 DEF Occupied, Limit!Queued, Elems
    <3>2. ~ (Cardinality(Held \cup ready) < Size)
      BY <2>6, InvFacts DEF Occupied
    <3>3. (Held \cup ready)' = Held \cup ready
      BY <2>2 DEF Occupied
    <3> QED
      BY <2>1, <3>1, <3>2, <3>3, SameCardinality DEF Limit!Enter
  <2> QED
    BY <2>11, <2>12 DEF LimitStep, Limit!Next
<1> QED
  BY <1>2, <1>3

(* A request that notices its slot, in either case of the select.          *)
LEMMA NoticeSlot ==
  ASSUME SemInv, NEW r \in Requests, acq[r] \in {"waiting", "canceled"},
         r \in ready, acq' = [acq EXCEPT ![r] = "held"],
         ready' = ready \ {r}, UNCHANGED <<cur, waiters, ended>>
  PROVE  SemInv' /\ LimitStep
<1>1. Occupied' = Occupied
  BY InvFacts DEF Occupied, Held
<1>2. InAcquire' = InAcquire \ {r}
  BY InvFacts DEF InAcquire
<1>3. TypeOK'
  BY InvFacts DEF SemInv, TypeOK
<1>4. NoIdleSlot'
  BY DEF SemInv, NoIdleSlot
<1>5. cur' = Cardinality(Occupied)' /\ IsFiniteSet(Occupied)' /\ cur' <= Size
  BY <1>1, InvFacts
<1>6. (ready \subseteq InAcquire)' /\ Distinct(waiters)'
  BY <1>2, InvFacts DEF Distinct
<1>7. (Elems(waiters) = InAcquire \ ready)'
  BY <1>2, InvFacts DEF Elems
<1>8. SemInv'
  BY <1>3, <1>4, <1>5, <1>6, <1>7, InvFromParts
<1>9. UNCHANGED Limit!limitVars
  BY <1>1 DEF Limit!limitVars, Occupied
<1> QED
  BY <1>8, <1>9 DEF LimitStep

LEMMA SelectReadyStep ==
  ASSUME SemInv, NEW r \in Requests, SelectReady(r)
  PROVE  SemInv' /\ LimitStep
  BY NoticeSlot DEF SelectReady

(* The steps that change neither the line nor who has a slot.              *)
LEMMA QuietStep ==
  ASSUME SemInv, TypeOK', UNCHANGED <<cur, waiters, ready>>,
         Held' = Held, InAcquire' = InAcquire
  PROVE  SemInv' /\ LimitStep
<1>1. Occupied' = Occupied
  BY DEF Occupied
<1>2. cur' = Cardinality(Occupied)' /\ IsFiniteSet(Occupied)' /\ cur' <= Size
  BY <1>1, InvFacts
<1>3. (ready \subseteq InAcquire)' /\ Distinct(waiters)' /\ NoIdleSlot'
  BY InvFacts DEF Distinct, SemInv, NoIdleSlot
<1>4. (Elems(waiters) = InAcquire \ ready)'
  BY InvFacts DEF Elems
<1>5. SemInv'
  BY <1>2, <1>3, <1>4, InvFromParts
<1>6. UNCHANGED Limit!limitVars
  BY DEF Limit!limitVars
<1> QED
  BY <1>5, <1>6 DEF LimitStep

LEMMA SelectDoneStep ==
  ASSUME SemInv, NEW r \in Requests, SelectDone(r)
  PROVE  SemInv' /\ LimitStep
<1>1. Held' = Held /\ InAcquire' = InAcquire
  BY InvFacts DEF SelectDone, Held, InAcquire
<1>2. TypeOK' /\ UNCHANGED <<cur, waiters, ready>>
  BY InvFacts DEF SelectDone, SemInv, TypeOK
<1> QED
  BY <1>1, <1>2, QuietStep

LEMMA RefusedStep ==
  ASSUME SemInv, NEW r \in Requests, Refused(r)
  PROVE  SemInv' /\ LimitStep
<1>1. Held' = Held /\ InAcquire' = InAcquire
  BY InvFacts DEF Refused, Held, InAcquire
<1>2. TypeOK' /\ UNCHANGED <<cur, waiters, ready>>
  BY InvFacts DEF Refused, SemInv, TypeOK
<1> QED
  BY <1>1, <1>2, QuietStep

LEMMA ContextEndsStep ==
  ASSUME SemInv, NEW r \in Requests, ContextEnds(r)
  PROVE  SemInv' /\ LimitStep
<1>1. Held' = Held /\ InAcquire' = InAcquire
  BY DEF ContextEnds, Held, InAcquire
<1>2. TypeOK' /\ UNCHANGED <<cur, waiters, ready>>
  BY DEF ContextEnds, SemInv, TypeOK
<1> QED
  BY <1>1, <1>2, QuietStep

LEMMA CancelStep ==
  ASSUME SemInv, NEW r \in Requests, Cancel(r)
  PROVE  SemInv' /\ LimitStep
<1>1. CASE r \in ready
  BY <1>1, NoticeSlot DEF Cancel
<1>2. CASE r \notin ready
  <2>1. PICK i \in 1..Len(waiters) :
          waiters[i] = r /\ waiters' = RemoveAt(waiters, i)
    BY <1>2 DEF Cancel
  <2>2. /\ acq[r] = "canceled" /\ acq' = [acq EXCEPT ![r] = "refused"]
        /\ cur' = cur /\ ready' = ready /\ ended' = ended
    BY <1>2 DEF Cancel
  <2>3. /\ waiters' \in Seq(Requests) /\ Distinct(waiters')
        /\ Elems(waiters') = Elems(waiters) \ {r}
    BY <2>1, InvFacts, RemoveLine
  <2>4. Held' = Held /\ Occupied' = Occupied
    BY <2>2, InvFacts DEF Occupied, Held
  <2>5. InAcquire' = InAcquire \ {r}
    BY <2>2, InvFacts DEF InAcquire
  <2>6. TypeOK'
    BY <2>2, <2>3, InvFacts DEF SemInv, TypeOK
  <2>7. waiters # <<>>
    BY <2>1, EmptySeq, InvFacts
  <2>8. NoIdleSlot'
    BY <2>2, <2>7, InvFacts DEF NoIdleSlot
  <2>9. cur' = Cardinality(Occupied)' /\ IsFiniteSet(Occupied)' /\ cur' <= Size
    BY <2>2, <2>4, InvFacts
  <2>10. (ready \subseteq InAcquire)' /\ Distinct(waiters)'
    BY <1>2, <2>2, <2>3, <2>5, InvFacts DEF Distinct
  <2>11. (Elems(waiters) = InAcquire \ ready)'
    <3>1. Elems(waiters)' = Elems(waiters')
      BY DEF Elems
    <3> QED
      BY <2>2, <2>3, <2>5, <3>1, InvFacts
  <2>12. SemInv'
    BY <2>6, <2>8, <2>9, <2>10, <2>11, InvFromParts
  <2>13. Limit!GiveUp(r)
    BY <2>1, <2>2, <2>4 DEF Limit!GiveUp, Limit!RemoveAt, RemoveAt
  <2> QED
    BY <2>12, <2>13 DEF LimitStep, Limit!Next
<1> QED
  BY <1>1, <1>2

LEMMA ReleaseStep ==
  ASSUME SemInv, NEW r \in Requests, Release(r)
  PROVE  SemInv' /\ LimitStep
<1>1. /\ acq[r] = "held" /\ acq' = [acq EXCEPT ![r] = "outside"]
      /\ ended' = ended \ {r}
      /\ cur' = cur - 1 + Granted(cur - 1)
      /\ waiters' = SubSeq(waiters, Granted(cur - 1) + 1, Len(waiters))
      /\ ready' = ready \cup {waiters[i] : i \in 1..Granted(cur - 1)}
  BY DEF Release
<1>2. /\ r \in Occupied /\ r \notin ready /\ r \notin InAcquire
      /\ r \notin Elems(waiters) /\ r \in Held
  BY <1>1, InvFacts DEF Occupied, Held, InAcquire
<1>3. Held' = Held \ {r} /\ InAcquire' = InAcquire
  BY <1>1, InvFacts DEF Held, InAcquire
<1>4. /\ IsFiniteSet(Occupied \ {r})
      /\ Cardinality(Occupied \ {r}) = Cardinality(Occupied) - 1
  BY <1>2, InvFacts, FS_RemoveElement
<1>5. Cardinality(Occupied) \in Nat /\ Cardinality(Occupied) # 0
  BY <1>2, InvFacts, FS_CardinalityType, FS_EmptySet
<1>6. CASE waiters = <<>>
  <2>1. Len(waiters) = 0
    BY <1>6, EmptySeq, InvFacts
  <2>2. Granted(cur - 1) = 0
    BY <1>5, <2>1, InvFacts DEF Granted
  <2>3. cur' = cur - 1 /\ ready' = ready
    BY <1>1, <2>2, InvFacts
  <2>4. waiters' = waiters
    BY <1>1, <1>6, <2>1, <2>2, SubSeqEmpty
  <2>5. Occupied' = Occupied \ {r}
    BY <1>2, <1>3, <2>3 DEF Occupied
  <2>6. TypeOK'
    <3>1. cur' \in Nat
      BY <1>5, <2>3, InvFacts
    <3>2. ended' \subseteq Requests /\ ready' \subseteq Requests
      BY <1>1, <2>3 DEF SemInv, TypeOK
    <3>3. acq' \in [Requests ->
                   {"outside", "waiting", "canceled", "held", "refused"}]
      BY <1>1, InvFacts
    <3> QED
      BY <2>4, <3>1, <3>2, <3>3, InvFacts DEF TypeOK
  <2>7. NoIdleSlot'
    BY <1>6, <2>4 DEF NoIdleSlot
  <2>8. cur' = Cardinality(Occupied)' /\ IsFiniteSet(Occupied)' /\ cur' <= Size
    BY <1>4, <1>5, <2>3, <2>5, InvFacts
  <2>9. (ready \subseteq InAcquire)' /\ Distinct(waiters)'
    BY <1>3, <2>3, <2>4, InvFacts DEF Distinct
  <2>10. (Elems(waiters) = InAcquire \ ready)'
    BY <1>3, <2>3, <2>4, InvFacts DEF Elems
  <2>11. SemInv'
    BY <2>6, <2>7, <2>8, <2>9, <2>10, InvFromParts
  <2>12. Limit!Leave(r)
    BY <1>2, <1>6, <2>4, <2>5 DEF Limit!Leave, Occupied
  <2> QED
    BY <2>11, <2>12 DEF LimitStep, Limit!Next
<1>7. CASE waiters # <<>>
  <2> DEFINE h == waiters[1]
  <2>1. Len(waiters) \in Nat \ {0} /\ Head(waiters) = h /\ 1 \in 1..Len(waiters)
    BY <1>7, EmptySeq, InvFacts
  <2>2. Granted(cur - 1) = 1
    <3>1. cur = Size /\ Size \in Nat
      BY <1>7, InvFacts
    <3>2. Size - (cur - 1) = 1
      BY <3>1
    <3>3. Granted(cur - 1) = IF Len(waiters) <= 1 THEN Len(waiters) ELSE 1
      BY <3>2 DEF Granted
    <3> QED
      BY <2>1, <3>3
  <2>3. cur' = cur /\ ready' = ready \cup {h}
    <3>1. {waiters[i] : i \in 1..1} = {h}
      OBVIOUS
    <3> QED
      BY <1>1, <2>2, <3>1, InvFacts
  <2>4. waiters' = SubSeq(waiters, 2, Len(waiters)) /\ waiters' = Tail(waiters)
    BY <1>1, <1>7, <2>2, InvFacts, TailIsSubSeq
  <2>5. waiters' = RemoveAt(waiters, 1)
    <3>1. SubSeq(waiters, 1, 0) = <<>>
      BY SubSeqEmpty
    <3>2. waiters' \in Seq(Requests)
      BY <1>7, <2>4, InvFacts, HeadTailProperties
    <3>3. <<>> \o waiters' = waiters'
      BY <3>2, ConcatEmptySeq
    <3> QED
      BY <2>4, <3>1, <3>3 DEF RemoveAt
  <2>6. /\ waiters' \in Seq(Requests) /\ Distinct(waiters')
        /\ Elems(waiters') = Elems(waiters) \ {h}
    BY <2>1, <2>5, InvFacts, RemoveLine
  <2>7. h \in Elems(waiters) /\ h \in Requests
    BY <2>1, InvFacts, ElementOfSeq DEF Elems
  <2>8. h \in InAcquire /\ h \notin ready /\ h \notin Occupied /\ h # r
    BY <1>2, <2>7, InvFacts DEF InAcquire, Occupied, Held
  <2>9. Occupied' = (Occupied \ {r}) \cup {h}
    BY <1>2, <1>3, <2>3, <2>8 DEF Occupied
  <2>10. /\ IsFiniteSet((Occupied \ {r}) \cup {h})
         /\ Cardinality((Occupied \ {r}) \cup {h}) = Cardinality(Occupied \ {r}) + 1
    BY <1>4, <2>8, FS_AddElement
  <2>11. TypeOK'
    BY <1>1, <2>3, <2>6, <2>7, InvFacts DEF SemInv, TypeOK
  <2>12. NoIdleSlot'
    BY <1>7, <2>3, InvFacts DEF NoIdleSlot
  <2>13. cur' = Cardinality(Occupied)' /\ IsFiniteSet(Occupied)' /\ cur' <= Size
    BY <1>4, <1>5, <2>3, <2>9, <2>10, InvFacts
  <2>14. (ready \subseteq InAcquire)' /\ Distinct(waiters)'
    BY <1>3, <2>3, <2>6, <2>8, InvFacts DEF Distinct
  <2>15. (Elems(waiters) = InAcquire \ ready)'
    <3>1. Elems(waiters)' = Elems(waiters')
      BY DEF Elems
    <3> QED
      BY <1>3, <2>3, <2>6, <3>1, InvFacts
  <2>16. SemInv'
    BY <2>11, <2>12, <2>13, <2>14, <2>15, InvFromParts
  <2>17. Limit!Leave(r)
    <3>1. (Held \cup ready)' = ((Held \cup ready) \ {r}) \cup {Head(waiters)}
      BY <2>1, <2>9 DEF Occupied
    <3> QED
      BY <1>2, <1>7, <2>4, <3>1 DEF Limit!Leave, Occupied
  <2> QED
    BY <2>16, <2>17 DEF LimitStep, Limit!Next
<1> QED
  BY <1>6, <1>7

LEMMA SemNext ==
  ASSUME SemInv, [Next]_semVars
  PROVE  SemInv' /\ LimitStep
<1>1. ASSUME NEW r \in Requests,
             \/ Acquire(r) \/ SelectReady(r) \/ SelectDone(r) \/ Cancel(r)
             \/ Release(r) \/ Refused(r) \/ ContextEnds(r)
      PROVE  SemInv' /\ LimitStep
  BY <1>1, AcquireStep, SelectReadyStep, SelectDoneStep, CancelStep,
     ReleaseStep, RefusedStep, ContextEndsStep
<1>2. CASE UNCHANGED semVars
  <2>1. Held' = Held /\ InAcquire' = InAcquire
    BY <1>2 DEF semVars, Held, InAcquire
  <2>2. TypeOK' /\ UNCHANGED <<cur, waiters, ready>>
    BY <1>2 DEF semVars, SemInv, TypeOK
  <2> QED
    BY <2>1, <2>2, QuietStep
<1> QED
  BY <1>1, <1>2 DEF Next

----------------------------------------------------------------------------

THEOREM SemInvariant == SafeSpec => []SemInv
<1>1. SemInv /\ [Next]_semVars => SemInv'
  BY SemNext
<1> QED
  BY SemInit, <1>1, PTL DEF SafeSpec

(* The semaphore's state keeps its type.                                   *)
THEOREM SemTypeOK == SafeSpec => []TypeOK
<1>1. SemInv => TypeOK
  BY DEF SemInv
<1> QED
  BY <1>1, SemInvariant, PTL

(***************************************************************************)
(* Slots are accounted for: never more than Size are taken, and each by a  *)
(* request that has it or will notice it, cancelled or not.                *)
(***************************************************************************)
THEOREM SemSlotsAccounted == SafeSpec => []SlotsAccounted
<1>1. SemInv => SlotsAccounted
  BY DEF SemInv
<1> QED
  BY <1>1, SemInvariant, PTL

(* While a request waits, every slot is taken.                             *)
THEOREM SemNoIdleSlot == SafeSpec => []NoIdleSlot
<1>1. SemInv => NoIdleSlot
  BY DEF SemInv
<1> QED
  BY <1>1, SemInvariant, PTL

(* The line holds exactly the requests that wait, once each.               *)
THEOREM SemLineIsExact == SafeSpec => []LineIsExact
<1>1. SemInv => LineIsExact
  BY DEF SemInv
<1> QED
  BY <1>1, SemInvariant, PTL

(***************************************************************************)
(* semaphore.Weighted with unit weights implements the server's limit:     *)
(* slots pass from a finished scan to the request that came first.         *)
(***************************************************************************)
THEOREM SemImplementsLimit == SafeSpec => ImplementsLimit
<1>1. Init => Limit!Init
  BY EmptySeq DEF Init, Limit!Init, Held
<1>2. SemInv /\ [Next]_semVars => [Limit!Next]_(Limit!limitVars)
  BY SemNext DEF LimitStep
<1> QED
  BY <1>1, <1>2, SemInvariant, PTL DEF SafeSpec, ImplementsLimit, Limit!Spec

============================================================================
