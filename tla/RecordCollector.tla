-------------------------- MODULE RecordCollector --------------------------
(***************************************************************************)
(* The recordCollector of one scan (parser/types.go) as its callers see    *)
(* it: addRecord and get are single steps.  Module CollectorLock takes the *)
(* two methods apart and shows that their mutex makes them so.             *)
(*                                                                         *)
(* A record keeps what the ordering and the report depend on: the request  *)
(* id, the DevTools timestamp (reqSeq), whether it is a request, and the   *)
(* event's parameters.  The stamp numbers the events in the order in which *)
(* the callbacks run; it stands for the identity of the params map.        *)
(***************************************************************************)
EXTENDS Integers, Sequences, FiniteSets

CONSTANTS
  ReqIDs,     (* request ids Chrome hands out                               *)
  NoID,       (* the empty request id, which addRecord ignores              *)
  Times,      (* DevTools timestamps, as whole ticks                        *)
  Params      (* what the parser reads from an event's parameters           *)

ASSUME CollectorAssumption == NoID \notin ReqIDs /\ Times \subseteq Nat

VARIABLES
  records,    (* recordCollector.records: the records of each request id    *)
  snapshot,   (* the copy the last get() returned                           *)
  delivered   (* history: every record handed to addRecord                  *)

collectorVars == <<records, snapshot, delivered>>

Record ==
  [isRequest : BOOLEAN, reqID : ReqIDs \cup {NoID}, reqSeq : Times,
   params : Params, stamp : Nat]

Collected == [ReqIDs -> Seq(Record)]

(***************************************************************************)
(* sort.SliceStable by reqSeq: element i goes to the position given by the *)
(* number of elements that come before it, a tie being broken by the       *)
(* position the elements had.                                              *)
(***************************************************************************)
Before(s, i, j) ==
  \/ s[i].reqSeq < s[j].reqSeq
  \/ s[i].reqSeq = s[j].reqSeq /\ i < j

Rank(s, i) == 1 + Cardinality({j \in 1..Len(s) : Before(s, j, i)})

StableSort(s) ==
  [k \in 1..Len(s) |-> s[CHOOSE i \in 1..Len(s) : Rank(s, i) = k]]

(* addRecord: an event without a request id is dropped before the lock.    *)
AddRecord(r) ==
  records' = IF r.reqID = NoID
             THEN records
             ELSE [records EXCEPT ![r.reqID] = StableSort(Append(@, r))]

(* The record addRequest or addResponse builds from the next event.        *)
NewRecord(isRequest, id, seq, p) ==
  [isRequest |-> isRequest, reqID |-> id, reqSeq |-> seq, params |-> p,
   stamp |-> Cardinality(delivered) + 1]

(* addRequest and addResponse                                              *)
AddEvent(r) ==
  /\ AddRecord(r)
  /\ delivered' = delivered \cup {r}
  /\ UNCHANGED snapshot

(* get()                                                                   *)
Get ==
  /\ snapshot' = records
  /\ UNCHANGED <<records, delivered>>

Init ==
  /\ records = [id \in ReqIDs |-> <<>>]
  /\ snapshot = [id \in ReqIDs |-> <<>>]
  /\ delivered = {}

Next ==
  \/ Get
  \/ \E isRequest \in BOOLEAN, id \in ReqIDs \cup {NoID}, seq \in Times,
        p \in Params : AddEvent(NewRecord(isRequest, id, seq, p))

Spec == Init /\ [][Next]_collectorVars

----------------------------------------------------------------------------

(* The type of the collector's state.                                      *)
TypeOK ==
  /\ records \in Collected
  /\ snapshot \in Collected
  /\ delivered \in SUBSET Record
  /\ IsFiniteSet(delivered)

Earlier(r, q) ==
  r.reqSeq < q.reqSeq \/ (r.reqSeq = q.reqSeq /\ r.stamp < q.stamp)

ChronologicalIn(c) ==
  \A id \in ReqIDs : \A i, j \in 1..Len(c[id]) :
    i < j => Earlier(c[id][i], c[id][j])

(***************************************************************************)
(* The records of a request id are in the order of their timestamps, and   *)
(* those of one timestamp in the order in which they arrived, whatever the *)
(* order of arrival (parser/types.go:80): parseResponse pairs a response,  *)
(* or a redirect, with the record before it.                               *)
(***************************************************************************)
Chronological == ChronologicalIn(records)

ElementsOf(s) == {s[i] : i \in 1..Len(s)}

ExactlyThose(c, k) ==
  \A id \in ReqIDs :
    ElementsOf(c[id]) = {r \in delivered : r.reqID = id /\ r.stamp <= k}

(***************************************************************************)
(* Appending and re-sorting in place neither loses a record nor keeps one  *)
(* twice: every event with a request id is in the collector exactly once.  *)
(***************************************************************************)
EveryEventOnce ==
  /\ ExactlyThose(records, Cardinality(delivered))
  /\ \A id \in ReqIDs : \A i, j \in 1..Len(records[id]) :
       records[id][i].stamp = records[id][j].stamp => i = j

(***************************************************************************)
(* What get() returned is a consistent cut: for some moment in the past,   *)
(* across all request ids, exactly the events delivered up to that moment, *)
(* in chronological order.                                                 *)
(***************************************************************************)
SnapshotIsConsistentCut ==
  /\ ChronologicalIn(snapshot)
  /\ \E k \in 0..Cardinality(delivered) : ExactlyThose(snapshot, k)

============================================================================
