------------------------ MODULE CollectorLockProofs ------------------------
(***************************************************************************)
(* Proofs about module CollectorLock, for any request ids, timestamps and  *)
(* number of events: at the grain of the mutex the collector implements    *)
(* the atomic one, and so has what module RecordCollectorProofs proves.    *)
(***************************************************************************)
EXTENDS CollectorLock, RecordCollectorProofs

(* What the mutex protects, apart from the collector's own state           *)
LockTyped ==
  /\ lock \in {"none", "events", "task"}
  /\ adding \in [at : {"idle"}] \cup
                [at : {"called", "locked", "appended"}, r : Record]
  /\ copying \in [at : {"idle", "locked"}, todo : SUBSET ReqIDs, r : Collected]
  /\ lock = "events" <=> adding.at \in {"locked", "appended"}
  /\ lock = "task" <=> copying.at = "locked"

(* The record that is on its way was built from the last delivery.         *)
AddingNext ==
  adding.at # "idle" =>
    /\ adding.r.reqID \in ReqIDs
    /\ adding.r.stamp = Cardinality(delivered) + 1

(* What get has copied is still what the collector holds.                  *)
CopyCurrent ==
  copying.at = "locked" =>
    \A id \in ReqIDs \ copying.todo : copying.r[id] = records[id]

(***************************************************************************)
(* The inductive invariant.  That get's piecemeal copy is one moment's is  *)
(* CopyCurrent, which is kept because nobody adds while get has the mutex. *)
(***************************************************************************)
LockInv == CollectorInv /\ LockTyped /\ AddingNext /\ CopyCurrent

LEMMA EmptyCollected == Empty \in Collected
<1>1. <<>> \in Seq(Record)
  BY EmptySeq
<1> QED
  BY <1>1 DEF Empty, Collected

LEMMA LockInitInv == LockInit => LockInv
<1> SUFFICES ASSUME LockInit PROVE LockInv
  OBVIOUS
<1>1. CollectorInv
  BY CollectorInit DEF LockInit
<1>2. LockTyped /\ AddingNext /\ CopyCurrent
  BY EmptyCollected DEF LockInit, LockTyped, AddingNext, CopyCurrent
<1> QED
  BY <1>1, <1>2 DEF LockInv

----------------------------------------------------------------------------
(* Every step is a step of the atomic collector or none of it.             *)

LEMMA CallAddSimulates ==
  ASSUME NEW isRequest \in BOOLEAN, NEW id \in ReqIDs \cup {NoID},
         NEW seq \in Times, NEW p \in Params, CallAdd(isRequest, id, seq, p)
  PROVE  [Next]_collectorVars
<1>1. CASE id = NoID
  <2>1. AddEvent(NewRecord(isRequest, id, seq, p))
    BY <1>1 DEF CallAdd, AddEvent, AddRecord, NewRecord
  <2> QED
    BY <2>1 DEF Next
<1>2. CASE id # NoID
  BY <1>2 DEF CallAdd, collectorVars
<1> QED
  BY <1>1, <1>2

LEMMA AddSortSimulates ==
  ASSUME LockInv, AddSort
  PROVE  Next
<1> DEFINE r == adding.r
<1>1. r \in Record /\ r.reqID \in ReqIDs /\ r.stamp = Cardinality(delivered) + 1
  BY DEF LockInv, LockTyped, AddingNext, AddSort
<1>2. r = NewRecord(r.isRequest, r.reqID, r.reqSeq, r.params)
  BY <1>1 DEF NewRecord, Record
<1>3. r.isRequest \in BOOLEAN /\ r.reqSeq \in Times /\ r.params \in Params
  BY <1>1 DEF Record
<1>4. InMemory(r.reqID) = Append(records[r.reqID], r)
  BY DEF AddSort, InMemory
<1>5. r.reqID # NoID
  BY <1>1, CollectorAssumption
<1>6. AddEvent(r)
  BY <1>4, <1>5 DEF AddSort, AddEvent, AddRecord
<1> QED
  BY <1>1, <1>2, <1>3, <1>6 DEF Next

LEMMA GetReturnSimulates ==
  ASSUME LockInv, GetReturn
  PROVE  Next
<1>1. \A id \in ReqIDs : copying.r[id] = records[id]
  BY DEF LockInv, CopyCurrent, GetReturn
<1>2. copying.r \in Collected /\ records \in Collected
  BY DEF LockInv, LockTyped, CollectorInv, TypeOK
<1>3. copying.r = records
  BY <1>1, <1>2 DEF Collected
<1>4. Get
  BY <1>3 DEF GetReturn, Get
<1> QED
  BY <1>4 DEF Next

LEMMA LockSimulates ==
  ASSUME LockInv, [LockNext]_lockVars
  PROVE  [Next]_collectorVars
<1>1. CASE \E isRequest \in BOOLEAN, id \in ReqIDs \cup {NoID},
              seq \in Times, p \in Params : CallAdd(isRequest, id, seq, p)
  BY <1>1, CallAddSimulates
<1>2. CASE AddSort \/ GetReturn
  BY <1>2, AddSortSimulates, GetReturnSimulates
<1>3. CASE AddLock \/ AddAppend \/ GetLock \/ \E id \in ReqIDs : GetCopy(id)
  BY <1>3 DEF AddLock, AddAppend, GetLock, GetCopy
<1>4. CASE UNCHANGED lockVars
  BY <1>4 DEF lockVars
<1> QED
  BY <1>1, <1>2, <1>3, <1>4 DEF LockNext

----------------------------------------------------------------------------
(* The invariant, step by step                                             *)

LEMMA CallAddKeepsInv ==
  ASSUME LockInv, CollectorInv',
         NEW isRequest \in BOOLEAN, NEW id \in ReqIDs \cup {NoID},
         NEW seq \in Times, NEW p \in Params, CallAdd(isRequest, id, seq, p)
  PROVE  LockInv'
<1> DEFINE r == NewRecord(isRequest, id, seq, p)
<1>1. r \in Record /\ r.stamp = Cardinality(delivered) + 1 /\ r.reqID = id
  BY NextRecord DEF LockInv, NewRecord
<1>2. adding.at = "idle" /\ UNCHANGED <<records, lock, copying>>
  BY DEF CallAdd
<1>3. CASE id = NoID
  BY <1>2, <1>3 DEF CallAdd, LockInv, LockTyped, AddingNext, CopyCurrent
<1>4. CASE id # NoID
  <2>1. adding' = [at |-> "called", r |-> r] /\ UNCHANGED delivered
    BY <1>4 DEF CallAdd
  <2>2. LockTyped'
    BY <1>1, <1>2, <2>1 DEF LockInv, LockTyped
  <2>3. AddingNext' /\ CopyCurrent'
    BY <1>1, <1>2, <1>4, <2>1 DEF LockInv, AddingNext, CopyCurrent
  <2> QED
    BY <2>2, <2>3 DEF LockInv
<1> QED
  BY <1>3, <1>4

LEMMA AddLockKeepsInv ==
  ASSUME LockInv, CollectorInv', AddLock
  PROVE  LockInv'
<1>1. LockTyped'
  BY DEF AddLock, LockInv, LockTyped
<1>2. AddingNext' /\ CopyCurrent'
  BY DEF AddLock, collectorVars, LockInv, LockTyped, AddingNext, CopyCurrent
<1> QED
  BY <1>1, <1>2 DEF LockInv

LEMMA AddAppendKeepsInv ==
  ASSUME LockInv, CollectorInv', AddAppend
  PROVE  LockInv'
<1>1. LockTyped'
  BY DEF AddAppend, LockInv, LockTyped
<1>2. AddingNext' /\ CopyCurrent'
  BY DEF AddAppend, collectorVars, LockInv, LockTyped, AddingNext, CopyCurrent
<1> QED
  BY <1>1, <1>2 DEF LockInv

LEMMA AddSortKeepsInv ==
  ASSUME LockInv, CollectorInv', AddSort
  PROVE  LockInv'
<1>1. LockTyped' /\ AddingNext'
  BY DEF AddSort, LockInv, LockTyped, AddingNext
<1>2. copying.at # "locked"
  BY DEF AddSort, LockInv, LockTyped
<1>3. CopyCurrent'
  BY <1>2 DEF AddSort, CopyCurrent
<1> QED
  BY <1>1, <1>3 DEF LockInv

LEMMA GetLockKeepsInv ==
  ASSUME LockInv, CollectorInv', GetLock
  PROVE  LockInv'
<1>1. LockTyped'
  BY EmptyCollected DEF GetLock, LockInv, LockTyped
<1>2. AddingNext' /\ CopyCurrent'
  BY DEF GetLock, collectorVars, LockInv, LockTyped, AddingNext, CopyCurrent
<1> QED
  BY <1>1, <1>2 DEF LockInv

LEMMA GetCopyKeepsInv ==
  ASSUME LockInv, CollectorInv', NEW id \in ReqIDs, GetCopy(id)
  PROVE  LockInv'
<1>1. InMemory(id) = records[id]
  BY DEF GetCopy, InMemory, LockInv, LockTyped
<1>2. records[id] \in Seq(Record)
  BY DEF LockInv, CollectorInv, TypeOK, Collected
<1>3. /\ copying \in [at : {"idle", "locked"}, todo : SUBSET ReqIDs, r : Collected]
      /\ copying' = [at |-> "locked", todo |-> copying.todo \ {id},
                     r |-> [copying.r EXCEPT ![id] = records[id]]]
  BY <1>1 DEF GetCopy, LockInv, LockTyped
<1>4. copying'.r \in Collected
  BY <1>2, <1>3 DEF Collected
<1>5. LockTyped'
  BY <1>3, <1>4 DEF GetCopy, LockInv, LockTyped
<1>6. AddingNext'
  BY DEF GetCopy, collectorVars, LockInv, AddingNext
<1>7. CopyCurrent'
  <2>1. DOMAIN copying.r = ReqIDs
    BY <1>3 DEF Collected
  <2>2. ASSUME NEW q \in ReqIDs \ (copying.todo \ {id})
        PROVE  copying'.r[q] = records[q]
    <3>1. CASE q = id
      BY <1>3, <2>1, <3>1
    <3>2. CASE q # id
      BY <1>3, <2>1, <2>2, <3>2 DEF GetCopy, LockInv, CopyCurrent
    <3> QED
      BY <3>1, <3>2
  <2>3. UNCHANGED records
    BY DEF GetCopy, collectorVars
  <2> QED
    BY <1>3, <2>2, <2>3 DEF CopyCurrent
<1> QED
  BY <1>5, <1>6, <1>7 DEF LockInv

LEMMA GetReturnKeepsInv ==
  ASSUME LockInv, CollectorInv', GetReturn
  PROVE  LockInv'
<1>1. LockTyped'
  BY EmptyCollected DEF GetReturn, LockInv, LockTyped
<1>2. AddingNext' /\ CopyCurrent'
  BY DEF GetReturn, LockInv, AddingNext, CopyCurrent
<1> QED
  BY <1>1, <1>2 DEF LockInv

LEMMA LockNextInv ==
  ASSUME LockInv, [LockNext]_lockVars
  PROVE  LockInv'
<1>1. CollectorInv'
  BY LockSimulates, CollectorNext DEF LockInv
<1>2. CASE LockNext
  BY <1>1, <1>2, CallAddKeepsInv, AddLockKeepsInv, AddAppendKeepsInv,
     AddSortKeepsInv, GetLockKeepsInv, GetCopyKeepsInv, GetReturnKeepsInv
     DEF LockNext
<1>3. CASE UNCHANGED lockVars
  BY <1>1, <1>3 DEF lockVars, collectorVars, LockInv, LockTyped, AddingNext,
     CopyCurrent
<1> QED
  BY <1>2, <1>3

----------------------------------------------------------------------------

THEOREM LockInvariant == LockSpec => []LockInv
<1>1. LockInv /\ [LockNext]_lockVars => LockInv'
  BY LockNextInv
<1> QED
  BY LockInitInv, <1>1, PTL DEF LockSpec

(* The two goroutines keep their types and exclude each other.             *)
THEOREM CollectorLockTypeOK == LockSpec => []LockTypeOK
<1>1. LockInv => LockTypeOK
  BY DEF LockInv, LockTyped, LockTypeOK, CollectorInv
<1> QED
  BY <1>1, LockInvariant, PTL

(***************************************************************************)
(* With its mutex the collector is the atomic one: addRecord takes effect  *)
(* when it has sorted, get when it returns.                                *)
(***************************************************************************)
THEOREM LockImplementsCollector == LockSpec => ImplementsCollector
<1>1. LockInit => Init
  BY DEF LockInit
<1>2. LockInv /\ [LockNext]_lockVars => [Next]_collectorVars
  BY LockSimulates
<1> QED
  BY <1>1, <1>2, LockInvariant, PTL DEF LockSpec, ImplementsCollector, Spec

(* So every snapshot that get returns piecemeal is a consistent cut.       *)
THEOREM LockSnapshotCut == LockSpec => []SnapshotIsConsistentCut
  BY LockImplementsCollector, CollectorSnapshotCut, PTL DEF ImplementsCollector

============================================================================
