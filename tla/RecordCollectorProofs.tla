----------------------- MODULE RecordCollectorProofs -----------------------
(***************************************************************************)
(* Proofs about module RecordCollector: what the stable sort returns, and  *)
(* the collector's invariants for every set of request ids, timestamps and *)
(* parameters and any number of events.                                    *)
(***************************************************************************)
EXTENDS RecordCollector, FiniteSetTheorems, SequenceTheorems, TLAPS

----------------------------------------------------------------------------
(* The stable sort                                                         *)

(* The ranks of a sequence's positions order them as Before does.          *)
LEMMA RankMonotone ==
  ASSUME NEW s, Len(s) \in Nat, \A i \in 1..Len(s) : s[i].reqSeq \in Int,
         NEW i \in 1..Len(s), NEW j \in 1..Len(s), Before(s, i, j)
  PROVE  Rank(s, i) < Rank(s, j)
<1> DEFINE n == Len(s)
           A(x) == {k \in 1..n : Before(s, k, x)}
<1>1. IsFiniteSet(1..n)
  BY FS_Interval
<1>2. IsFiniteSet(A(i)) /\ IsFiniteSet(A(j))
  BY <1>1, FS_Subset, A(i) \in SUBSET (1..n), A(j) \in SUBSET (1..n)
<1>3. i \notin A(i)
  BY DEF Before
<1>4. A(i) \cup {i} \in SUBSET A(j)
  <2> SUFFICES ASSUME NEW k \in A(i)
               PROVE  Before(s, k, j)
    OBVIOUS
  <2>1. k \in 1..n /\ Before(s, k, i)
    OBVIOUS
  <2> QED
    BY <2>1 DEF Before
<1>5. Cardinality(A(i) \cup {i}) = Cardinality(A(i)) + 1
  BY <1>2, <1>3, FS_AddElement
<1>6. Cardinality(A(i) \cup {i}) <= Cardinality(A(j))
  BY <1>2, <1>4, FS_Subset
<1>7. Cardinality(A(i)) \in Nat /\ Cardinality(A(j)) \in Nat
  BY <1>2, FS_CardinalityType
<1>8. Rank(s, i) = 1 + Cardinality(A(i)) /\ Rank(s, j) = 1 + Cardinality(A(j))
  BY DEF Rank
<1> QED
  BY <1>5, <1>6, <1>7, <1>8

(* Every position's rank is a position.                                    *)
LEMMA RankRange ==
  ASSUME NEW s, Len(s) \in Nat, NEW i \in 1..Len(s), s[i].reqSeq \in Int
  PROVE  Rank(s, i) \in 1..Len(s)
<1> DEFINE n == Len(s)
           A == {k \in 1..n : Before(s, k, i)}
<1>0. n \in Nat /\ 1 \in Int /\ n \in Int
  OBVIOUS
<1>1. IsFiniteSet(1..n) /\ Cardinality(1..n) = n
  <2>1. IsFiniteSet(1..n) /\ Cardinality(1..n) = IF 1 > n THEN 0 ELSE n - 1 + 1
    BY <1>0, FS_Interval
  <2> QED
    BY <1>0, <2>1
<1>2. IsFiniteSet((1..n) \ {i}) /\ Cardinality((1..n) \ {i}) = n - 1
  BY <1>1, FS_RemoveElement
<1>3. A \in SUBSET ((1..n) \ {i})
  BY DEF Before
<1>4. IsFiniteSet(A) /\ Cardinality(A) <= n - 1
  BY <1>2, <1>3, FS_Subset
<1>5. Cardinality(A) \in Nat
  BY <1>4, FS_CardinalityType
<1>6. Rank(s, i) = 1 + Cardinality(A)
  BY DEF Rank
<1> QED
  BY <1>4, <1>5, <1>6

(* Every position is the rank of exactly one position.                     *)
LEMMA RankOnto ==
  ASSUME NEW s, Len(s) \in Nat, \A i \in 1..Len(s) : s[i].reqSeq \in Int
  PROVE  /\ \A i, j \in 1..Len(s) : Rank(s, i) = Rank(s, j) => i = j
         /\ \A k \in 1..Len(s) : \E i \in 1..Len(s) : Rank(s, i) = k
<1> DEFINE n == Len(s)
           rk == [i \in 1..n |-> Rank(s, i)]
<1>1. \A i \in 1..n : Rank(s, i) \in 1..n
  BY RankRange
<1>2. ASSUME NEW i \in 1..n, NEW j \in 1..n, Rank(s, i) = Rank(s, j)
      PROVE  i = j
  <2>1. i = j \/ Before(s, i, j) \/ Before(s, j, i)
    BY DEF Before
  <2>2. CASE Before(s, i, j)
    <3>1. Rank(s, i) < Rank(s, j)
      BY <2>2, RankMonotone
    <3> QED
      BY <3>1, <1>1, <1>2
  <2>3. CASE Before(s, j, i)
    <3>1. Rank(s, j) < Rank(s, i)
      BY <2>3, RankMonotone
    <3> QED
      BY <3>1, <1>1, <1>2
  <2> QED
    BY <2>1, <2>2, <2>3
<1>3. rk \in Injection(1..n, 1..n)
  BY <1>1, <1>2 DEF Injection, IsInjective
<1>4. IsFiniteSet(1..n)
  BY FS_Interval
<1>5. rk \in Surjection(1..n, 1..n)
  BY <1>3, <1>4, FS_Injection
<1>6. \A k \in 1..n : \E i \in 1..n : rk[i] = k
  BY <1>5 DEF Surjection
<1> QED
  BY <1>2, <1>6

(***************************************************************************)
(* sort.SliceStable permutes the slice, and where the result has k before  *)
(* l the original elements compare by reqSeq, then by original position.   *)
(***************************************************************************)
LEMMA StableSortPermutes ==
  ASSUME NEW S, NEW s \in Seq(S), \A i \in 1..Len(s) : s[i].reqSeq \in Int
  PROVE  \E p \in [1..Len(s) -> 1..Len(s)] :
           /\ StableSort(s) = [k \in 1..Len(s) |-> s[p[k]]]
           /\ \A i \in 1..Len(s) : \E k \in 1..Len(s) : p[k] = i
           /\ \A k, l \in 1..Len(s) : k < l => Before(s, p[k], p[l])
<1> DEFINE n == Len(s)
           p == [k \in 1..n |-> CHOOSE i \in 1..n : Rank(s, i) = k]
<1>1. n \in Nat
  BY LenProperties
<1>2. \A k \in 1..n : p[k] \in 1..n /\ Rank(s, p[k]) = k
  BY <1>1, RankOnto
<1>3. \A i \in 1..n : Rank(s, i) \in 1..n /\ p[Rank(s, i)] = i
  <2> SUFFICES ASSUME NEW i \in 1..n
               PROVE  Rank(s, i) \in 1..n /\ p[Rank(s, i)] = i
    OBVIOUS
  <2>1. Rank(s, i) \in 1..n
    BY <1>1, RankRange
  <2>2. p[Rank(s, i)] \in 1..n /\ Rank(s, p[Rank(s, i)]) = Rank(s, i)
    BY <1>2, <2>1
  <2> QED
    BY <1>1, <2>1, <2>2, RankOnto
<1>4. ASSUME NEW k \in 1..n, NEW l \in 1..n, k < l
      PROVE  Before(s, p[k], p[l])
  <2>1. p[k] \in 1..n /\ p[l] \in 1..n /\ Rank(s, p[k]) = k /\ Rank(s, p[l]) = l
    BY <1>2
  <2>2. p[k] # p[l]
    BY <1>4, <2>1
  <2>3. Before(s, p[k], p[l]) \/ Before(s, p[l], p[k])
    BY <2>1, <2>2 DEF Before
  <2>4. CASE Before(s, p[l], p[k])
    <3>1. Rank(s, p[l]) < Rank(s, p[k])
      BY <1>1, <2>1, <2>4, RankMonotone
    <3> QED
      BY <3>1, <2>1, <1>4
  <2> QED
    BY <2>3, <2>4
<1>5. StableSort(s) = [k \in 1..n |-> s[p[k]]]
  BY DEF StableSort
<1>6. p \in [1..n -> 1..n]
  BY <1>2
<1>7. \A i \in 1..n : \E k \in 1..n : p[k] = i
  BY <1>3
<1> QED
  BY <1>4, <1>5, <1>6, <1>7

----------------------------------------------------------------------------
(* The collector                                                           *)

(* A record's timestamp and stamp are numbers.                             *)
LEMMA RecordFields ==
  ASSUME NEW q \in Record, Times \subseteq Nat
  PROVE  q.reqSeq \in Int /\ q.stamp \in Nat
<1>1. q.reqSeq \in Times /\ q.stamp \in Nat
  BY DEF Record
<1>2. q.reqSeq \in Nat /\ q.stamp \in Nat
  BY <1>1, Zenon
<1> QED
  BY <1>2

(***************************************************************************)
(* What addRecord does to one slice: appending a record younger than all   *)
(* the others to a chronological slice and sorting it yields a             *)
(* chronological slice with the old elements and the new one.              *)
(***************************************************************************)
LEMMA AddSorted ==
  ASSUME NEW s \in Seq(Record), NEW r \in Record,
         \A i \in 1..Len(s) : s[i].stamp < r.stamp,
         \A i, j \in 1..Len(s) : i < j => Earlier(s[i], s[j]),
         Times \subseteq Nat
  PROVE  LET t == StableSort(Append(s, r))
         IN /\ t \in Seq(Record)
            /\ ElementsOf(t) = ElementsOf(s) \cup {r}
            /\ \A i, j \in 1..Len(t) : i < j => Earlier(t[i], t[j])
<1> DEFINE a == Append(s, r)
           n == Len(a)
           t == StableSort(a)
<1>1. /\ a \in Seq(Record) /\ n = Len(s) + 1 /\ Len(s) \in Nat
      /\ \A i \in 1..Len(s) : a[i] = s[i]
      /\ a[n] = r
  BY AppendProperties, LenProperties
<1>2. \A i \in 1..n : a[i] \in Record /\ a[i].reqSeq \in Int /\ a[i].stamp \in Nat
  <2> SUFFICES ASSUME NEW i \in 1..n
               PROVE  a[i] \in Record /\ a[i].reqSeq \in Int /\ a[i].stamp \in Nat
    OBVIOUS
  <2>1. a[i] \in Record
    BY <1>1, ElementOfSeq
  <2> QED
    BY <2>1, RecordFields
<1>3. PICK p \in [1..n -> 1..n] :
        /\ t = [k \in 1..n |-> a[p[k]]]
        /\ \A i \in 1..n : \E k \in 1..n : p[k] = i
        /\ \A k, l \in 1..n : k < l => Before(a, p[k], p[l])
  BY <1>1, <1>2, StableSortPermutes
<1> HIDE DEF a, n, t
<1>4. n \in Nat
  BY <1>1
<1>5. t \in Seq(Record) /\ Len(t) = n
  <2>1. \A k \in 1..n : a[p[k]] \in Record
    BY <1>2
  <2>2. t \in [1..n -> Record]
    BY <1>3, <2>1
  <2> QED
    BY <1>4, <2>2
<1>6. ElementsOf(t) = ElementsOf(s) \cup {r}
  <2>1. ElementsOf(t) = {a[i] : i \in 1..n}
    <3>1. \A k \in 1..n : t[k] = a[p[k]] /\ p[k] \in 1..n
      BY <1>3
    <3>2. \A i \in 1..n : \E k \in 1..n : t[k] = a[i]
      BY <1>3, <3>1
    <3>3. {t[k] : k \in 1..n} = {a[i] : i \in 1..n}
      <4>1. ASSUME NEW k \in 1..n PROVE t[k] \in {a[i] : i \in 1..n}
        BY <3>1
      <4>2. ASSUME NEW i \in 1..n PROVE a[i] \in {t[k] : k \in 1..n}
        BY <3>2
      <4> QED
        BY <4>1, <4>2
    <3>4. ElementsOf(t) = {t[k] : k \in 1..n}
      BY <1>5 DEF ElementsOf
    <3> QED
      BY <3>3, <3>4
  <2>2. {a[i] : i \in 1..n} = {s[i] : i \in 1..Len(s)} \cup {r}
    <3>1. 1..n = (1..Len(s)) \cup {n}
      BY <1>1
    <3>2. \A i \in 1..Len(s) : a[i] = s[i]
      BY <1>1
    <3>3. a[n] = r
      BY <1>1
    <3> HIDE DEF n, a
    <3> QED
      BY <3>1, <3>2, <3>3
  <2> QED
    BY <2>1, <2>2 DEF ElementsOf
<1>7. ASSUME NEW k \in 1..n, NEW l \in 1..n, k < l
      PROVE  Earlier(t[k], t[l])
  <2>1. t[k] = a[p[k]] /\ t[l] = a[p[l]] /\ p[k] \in 1..n /\ p[l] \in 1..n
    BY <1>3
  <2>2. Before(a, p[k], p[l])
    BY <1>3, <1>7
  <2>3. CASE a[p[k]].reqSeq < a[p[l]].reqSeq
    BY <2>1, <2>3 DEF Earlier
  <2>4. CASE a[p[k]].reqSeq = a[p[l]].reqSeq /\ p[k] < p[l]
    <3>1. p[k] \in 1..Len(s)
      BY <1>1, <2>1, <2>4
    <3>2. CASE p[l] = n
      <4>1. a[p[k]].stamp < a[p[l]].stamp
        BY <1>1, <3>1, <3>2
      <4> QED
        BY <2>1, <2>4, <4>1 DEF Earlier
    <3>3. CASE p[l] # n
      <4>1. p[l] \in 1..Len(s)
        BY <1>1, <2>1, <3>3
      <4>2. Earlier(s[p[k]], s[p[l]])
        BY <2>4, <3>1, <4>1
      <4> QED
        BY <1>1, <2>1, <3>1, <4>1, <4>2
    <3> QED
      BY <3>2, <3>3
  <2> QED
    BY <2>2, <2>3, <2>4 DEF Before
<1> QED
  BY <1>5, <1>6, <1>7 DEF a, n, t

(* A delivered record is known by its stamp, and stamps are used in turn.  *)
StampsIdentify ==
  /\ \A r \in delivered : r.stamp <= Cardinality(delivered)
  /\ \A r, q \in delivered : r.stamp = q.stamp => r = q

(***************************************************************************)
(* The inductive invariant.  Chronology alone is not inductive: that a new *)
(* record goes after its ties needs its stamp to be the largest, which is  *)
(* what ExactlyThose and StampsIdentify say together.                      *)
(***************************************************************************)
CollectorInv ==
  /\ TypeOK
  /\ StampsIdentify
  /\ Chronological
  /\ ExactlyThose(records, Cardinality(delivered))
  /\ SnapshotIsConsistentCut

LEMMA CollectorInit == Init => CollectorInv
<1> SUFFICES ASSUME Init PROVE CollectorInv
  OBVIOUS
<1>1. <<>> \in Seq(Record) /\ Len(<<>>) = 0
  BY EmptySeq
<1>2. IsFiniteSet({}) /\ Cardinality({}) = 0
  BY FS_EmptySet
<1>3. TypeOK
  BY <1>1, <1>2 DEF Init, TypeOK, Collected
<1>4. StampsIdentify
  BY DEF Init, StampsIdentify
<1>5. ChronologicalIn(records) /\ ChronologicalIn(snapshot)
  BY <1>1 DEF Init, ChronologicalIn
<1>6. \A id \in ReqIDs : ElementsOf(records[id]) = {} /\ ElementsOf(snapshot[id]) = {}
  BY <1>1 DEF Init, ElementsOf
<1>7. \A id \in ReqIDs, k \in Nat : {r \in delivered : r.reqID = id /\ r.stamp <= k} = {}
  BY DEF Init
<1>8. Cardinality(delivered) = 0
  BY <1>2 DEF Init
<1>9. ExactlyThose(records, Cardinality(delivered)) /\ ExactlyThose(snapshot, 0)
  BY <1>6, <1>7, <1>8 DEF ExactlyThose
<1> QED
  BY <1>3, <1>4, <1>5, <1>8, <1>9 DEF CollectorInv, Chronological, SnapshotIsConsistentCut

(* get(): the snapshot is the cut at the present moment.                   *)
LEMMA GetKeepsInv ==
  ASSUME CollectorInv, Get
  PROVE  CollectorInv'
<1>1. TypeOK' /\ StampsIdentify'
  BY DEF CollectorInv, Get, TypeOK, StampsIdentify
<1>2. Chronological' /\ ExactlyThose(records, Cardinality(delivered))'
  BY DEF CollectorInv, Get, Chronological, ChronologicalIn, ExactlyThose
<1>3. Cardinality(delivered) \in Nat
  BY FS_CardinalityType DEF CollectorInv, TypeOK
<1>4. ChronologicalIn(snapshot)'
  BY DEF CollectorInv, Get, Chronological, ChronologicalIn
<1>5. ExactlyThose(snapshot, Cardinality(delivered))'
  BY DEF CollectorInv, Get, ExactlyThose
<1>6. Cardinality(delivered)' \in 0..Cardinality(delivered)'
  BY <1>3 DEF Get
<1> QED
  BY <1>1, <1>2, <1>4, <1>5, <1>6 DEF CollectorInv, SnapshotIsConsistentCut

(* The next event's record is new, and its stamp larger than any before.   *)
LEMMA NextRecord ==
  ASSUME CollectorInv, NEW isRequest \in BOOLEAN, NEW id \in ReqIDs \cup {NoID},
         NEW seq \in Times, NEW p \in Params
  PROVE  LET r == NewRecord(isRequest, id, seq, p)
             n == Cardinality(delivered)
         IN /\ r \in Record /\ r.reqID = id /\ n \in Nat /\ r.stamp = n + 1
            /\ r \notin delivered /\ IsFiniteSet(delivered \cup {r})
            /\ Cardinality(delivered \cup {r}) = n + 1
<1> DEFINE r == NewRecord(isRequest, id, seq, p)
           n == Cardinality(delivered)
<1>1. n \in Nat
  BY FS_CardinalityType DEF CollectorInv, TypeOK
<1>2. r \in Record /\ r.reqID = id /\ r.stamp = n + 1
  BY <1>1 DEF NewRecord, Record
<1>3. r \notin delivered
  BY <1>1, <1>2 DEF CollectorInv, StampsIdentify
<1> HIDE DEF r
<1>4. /\ IsFiniteSet(delivered \cup {r})
      /\ Cardinality(delivered \cup {r}) = n + 1
  BY <1>3, FS_AddElement DEF CollectorInv, TypeOK
<1> USE DEF r
<1> QED
  BY <1>1, <1>2, <1>3, <1>4

(* addRequest and addResponse.                                             *)
LEMMA AddEventKeepsInv ==
  ASSUME CollectorInv, NEW isRequest \in BOOLEAN, NEW id \in ReqIDs \cup {NoID},
         NEW seq \in Times, NEW p \in Params,
         AddEvent(NewRecord(isRequest, id, seq, p))
  PROVE  CollectorInv'
<1> USE CollectorAssumption
<1> DEFINE r == NewRecord(isRequest, id, seq, p)
           n == Cardinality(delivered)
<1>1. /\ r \in Record /\ r.reqID = id /\ n \in Nat /\ r.stamp = n + 1
      /\ r \notin delivered /\ IsFiniteSet(delivered \cup {r})
      /\ Cardinality(delivered \cup {r}) = n + 1
  BY NextRecord
<1> HIDE DEF r
<1>2. delivered' = delivered \cup {r} /\ snapshot' = snapshot /\ AddRecord(r)
  BY DEF AddEvent, r
<1>3. Cardinality(delivered)' = n + 1 /\ IsFiniteSet(delivered)' /\ delivered' \in SUBSET Record
  BY <1>1, <1>2 DEF CollectorInv, TypeOK
<1>4. \A q \in delivered : q \in Record /\ q.stamp \in Nat /\ q.stamp <= n
  BY DEF CollectorInv, TypeOK, StampsIdentify, Record
<1>5. StampsIdentify'
  <2>1. \A q \in delivered' : q.stamp <= Cardinality(delivered)'
    BY <1>1, <1>2, <1>3, <1>4
  <2>2. \A q1, q2 \in delivered' : q1.stamp = q2.stamp => q1 = q2
    BY <1>1, <1>2, <1>4 DEF CollectorInv, StampsIdentify
  <2> QED
    BY <2>1, <2>2 DEF StampsIdentify
<1>6. \A k \in Nat, i \in ReqIDs : k <= n =>
        {q \in delivered' : q.reqID = i /\ q.stamp <= k}
          = {q \in delivered : q.reqID = i /\ q.stamp <= k}
  BY <1>1, <1>2, <1>4
<1>7. \A i \in ReqIDs :
        {q \in delivered' : q.reqID = i /\ q.stamp <= n + 1}
          = {q \in delivered : q.reqID = i /\ q.stamp <= n}
              \cup (IF i = id THEN {r} ELSE {})
  BY <1>1, <1>2, <1>4
<1>8. SnapshotIsConsistentCut'
  <2>1. PICK k \in 0..n : ExactlyThose(snapshot, k)
    BY DEF CollectorInv, SnapshotIsConsistentCut
  <2>2. ExactlyThose(snapshot, k)'
    BY <1>1, <1>2, <1>6, <2>1 DEF ExactlyThose
  <2>3. ChronologicalIn(snapshot)'
    BY <1>2 DEF CollectorInv, SnapshotIsConsistentCut, ChronologicalIn
  <2>4. k \in 0..Cardinality(delivered)'
    BY <1>1, <1>3, <2>1
  <2> QED
    BY <2>2, <2>3, <2>4 DEF SnapshotIsConsistentCut
<1>9. \A i \in ReqIDs :
        /\ records'[i] \in Seq(Record)
        /\ ElementsOf(records'[i]) = ElementsOf(records[i]) \cup (IF i = id THEN {r} ELSE {})
        /\ \A j, k \in 1..Len(records'[i]) : j < k => Earlier(records'[i][j], records'[i][k])
  <2> SUFFICES ASSUME NEW i \in ReqIDs
               PROVE  /\ records'[i] \in Seq(Record)
                      /\ ElementsOf(records'[i]) = ElementsOf(records[i])
                           \cup (IF i = id THEN {r} ELSE {})
                      /\ \A j, k \in 1..Len(records'[i]) :
                           j < k => Earlier(records'[i][j], records'[i][k])
    OBVIOUS
  <2>1. /\ records \in [ReqIDs -> Seq(Record)]
        /\ records[i] \in Seq(Record)
        /\ \A j, k \in 1..Len(records[i]) : j < k => Earlier(records[i][j], records[i][k])
        /\ ElementsOf(records[i]) = {q \in delivered : q.reqID = i /\ q.stamp <= n}
    BY DEF CollectorInv, TypeOK, Collected, Chronological, ChronologicalIn, ExactlyThose
  <2>2. CASE i = id
    <3>1. records'[i] = StableSort(Append(records[i], r))
      BY <1>1, <1>2, <2>1, <2>2 DEF AddRecord
    <3>2. \A j \in 1..Len(records[i]) : records[i][j].stamp < r.stamp
      <4>1. \A j \in 1..Len(records[i]) : records[i][j] \in delivered
        BY <2>1 DEF ElementsOf
      <4> QED
        BY <1>1, <1>4, <4>1
    <3>3. /\ records'[i] \in Seq(Record)
          /\ ElementsOf(records'[i]) = ElementsOf(records[i]) \cup {r}
          /\ \A j, k \in 1..Len(records'[i]) :
               j < k => Earlier(records'[i][j], records'[i][k])
      <4>1. records[i] \in Seq(Record) /\ r \in Record
        BY <1>1, <2>1
      <4>2. \A j, k \in 1..Len(records[i]) :
              j < k => Earlier(records[i][j], records[i][k])
        BY <2>1
      <4> DEFINE s == StableSort(Append(records[i], r))
      <4>3. /\ s \in Seq(Record)
            /\ ElementsOf(s) = ElementsOf(records[i]) \cup {r}
            /\ \A j, k \in 1..Len(s) : j < k => Earlier(s[j], s[k])
        BY <3>2, <4>1, <4>2, AddSorted, Zenon
      <4> QED
        BY <3>1, <4>3
    <3> QED
      BY <2>2, <3>3
  <2>3. CASE i # id
    <3>1. records'[i] = records[i]
      BY <1>1, <1>2, <2>1, <2>3 DEF AddRecord
    <3> QED
      BY <2>1, <2>3, <3>1
  <2> QED
    BY <2>2, <2>3
<1>10. records' \in [ReqIDs -> Seq(Record)]
  <2>1. records \in [ReqIDs -> Seq(Record)]
    BY DEF CollectorInv, TypeOK, Collected
  <2>2. CASE id = NoID
    BY <1>1, <1>2, <2>1, <2>2 DEF AddRecord
  <2>3. CASE id # NoID
    <3>1. records' = [records EXCEPT ![id] = StableSort(Append(@, r))] /\ id \in ReqIDs
      BY <1>1, <1>2, <2>3 DEF AddRecord
    <3>2. records'[id] \in Seq(Record)
      BY <1>9, <3>1
    <3> QED
      BY <2>1, <3>1, <3>2
  <2> QED
    BY <2>2, <2>3
<1>11. TypeOK'
  BY <1>2, <1>3, <1>10 DEF CollectorInv, TypeOK, Collected
<1>12. Chronological'
  BY <1>9 DEF Chronological, ChronologicalIn
<1>13. ExactlyThose(records, Cardinality(delivered))'
  BY <1>3, <1>7, <1>9 DEF CollectorInv, ExactlyThose
<1> QED
  BY <1>5, <1>8, <1>11, <1>12, <1>13 DEF CollectorInv

LEMMA CollectorNext == CollectorInv /\ [Next]_collectorVars => CollectorInv'
<1> SUFFICES ASSUME CollectorInv, [Next]_collectorVars
             PROVE  CollectorInv'
  OBVIOUS
<1>1. CASE Get
  BY <1>1, GetKeepsInv
<1>2. ASSUME NEW isRequest \in BOOLEAN, NEW id \in ReqIDs \cup {NoID},
             NEW seq \in Times, NEW p \in Params,
             AddEvent(NewRecord(isRequest, id, seq, p))
      PROVE  CollectorInv'
  BY <1>2, AddEventKeepsInv
<1>3. CASE UNCHANGED collectorVars
  BY <1>3 DEF collectorVars, CollectorInv, TypeOK, StampsIdentify, Chronological,
     ChronologicalIn, ExactlyThose, SnapshotIsConsistentCut
<1> QED
  BY <1>1, <1>2, <1>3 DEF Next

THEOREM CollectorInvariant == Spec => []CollectorInv
  BY CollectorInit, CollectorNext, PTL DEF Spec

(* The collector's state keeps its type.                                   *)
THEOREM CollectorTypeOK == Spec => []TypeOK
<1>1. CollectorInv => TypeOK
  BY DEF CollectorInv
<1> QED
  BY <1>1, CollectorInvariant, PTL

(***************************************************************************)
(* addRecord keeps the records of every request id in the order of their   *)
(* timestamps, ties in order of arrival, for any number of events.         *)
(***************************************************************************)
THEOREM CollectorChronological == Spec => []Chronological
<1>1. CollectorInv => Chronological
  BY DEF CollectorInv
<1> QED
  BY <1>1, CollectorInvariant, PTL

(***************************************************************************)
(* addRecord loses no record and keeps none twice, although it sorts the   *)
(* slice again after every event.                                          *)
(***************************************************************************)
THEOREM CollectorEveryEventOnce == Spec => []EveryEventOnce
<1>1. ASSUME CollectorInv PROVE EveryEventOnce
  <2> SUFFICES ASSUME NEW id \in ReqIDs, NEW i \in 1..Len(records[id]),
                      NEW j \in 1..Len(records[id]),
                      records[id][i].stamp = records[id][j].stamp, i # j
               PROVE  FALSE
    BY <1>1 DEF CollectorInv, EveryEventOnce
  <2>1. records[id][i] \in delivered /\ records[id][j] \in delivered
    BY <1>1 DEF CollectorInv, ExactlyThose, ElementsOf
  <2>2. records[id][i] = records[id][j]
    BY <1>1, <2>1 DEF CollectorInv, StampsIdentify
  <2>3. /\ records[id][i].reqSeq \in Nat
        /\ records[id][i].stamp \in Nat
    BY <1>1, <2>1, CollectorAssumption DEF CollectorInv, TypeOK, Record
  <2>4. records[id] \in Seq(Record)
    BY <1>1 DEF CollectorInv, TypeOK, Collected
  <2>5. i < j \/ j < i
    BY <2>4
  <2>6. Earlier(records[id][i], records[id][j]) \/ Earlier(records[id][j], records[id][i])
    BY <1>1, <2>5 DEF CollectorInv, Chronological, ChronologicalIn
  <2> QED
    BY <2>2, <2>3, <2>6 DEF Earlier
<1> QED
  BY <1>1, CollectorInvariant, PTL

(***************************************************************************)
(* What get() returned is, across all request ids, the events delivered up *)
(* to one moment, in order.                                                *)
(***************************************************************************)
THEOREM CollectorSnapshotCut == Spec => []SnapshotIsConsistentCut
<1>1. CollectorInv => SnapshotIsConsistentCut
  BY DEF CollectorInv
<1> QED
  BY <1>1, CollectorInvariant, PTL

============================================================================
