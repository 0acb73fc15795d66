--------------------------- MODULE CollectorLock ---------------------------
(***************************************************************************)
(* recordCollector at the grain of its mutex (parser/types.go:64-96).      *)
(* addRecord runs on godet's event goroutine: it locks, appends, sorts in  *)
(* place and unlocks.  get runs on the task's goroutine: it locks, copies  *)
(* the slices of the map one request id after the other, in the map's      *)
(* arbitrary order, and unlocks.                                           *)
(*                                                                         *)
(* The variables of RecordCollector are the collector as if each method    *)
(* took effect at once: addRecord when it has sorted, get when it returns. *)
(* What is in memory before that is InMemory.                              *)
(***************************************************************************)
EXTENDS RecordCollector

CONSTANT MaxEvents   (* bound: events delivered in one behaviour            *)

ASSUME LockAssumption == MaxEvents \in Nat

VARIABLES
  lock,       (* holder of rc.l: "none", "events" or "task"                 *)
  adding,     (* addRecord's progress: [at, r]                              *)
  copying     (* get's progress: [at, todo, r]; r is the map it is building *)

lockVars == <<collectorVars, lock, adding, copying>>

Empty == [id \in ReqIDs |-> <<>>]

LockInit ==
  /\ Init
  /\ lock = "none"
  /\ adding = [at |-> "idle"]
  /\ copying = [at |-> "idle", todo |-> {}, r |-> Empty]

(* rc.records[id], in which an appended record is not in its place yet     *)
InMemory(id) ==
  IF adding.at = "appended" /\ adding.r.reqID = id
  THEN Append(records[id], adding.r) ELSE records[id]

(* The event goroutine calls addRequest or addResponse.                    *)
CallAdd(isRequest, id, seq, p) ==
  LET r == NewRecord(isRequest, id, seq, p)
  IN /\ adding.at = "idle"
     /\ Cardinality(delivered) < MaxEvents
     /\ IF id = NoID
        THEN /\ delivered' = delivered \cup {r}
             /\ UNCHANGED adding
        ELSE /\ adding' = [at |-> "called", r |-> r]
             /\ UNCHANGED delivered
     /\ UNCHANGED <<records, lock, copying, snapshot>>

(* Seeded fault: addRecord does not wait for the lock.                      *)
AddWithoutLock ==
  /\ adding.at = "called"
  /\ lock' = "events"
  /\ adding' = [adding EXCEPT !.at = "locked"]
  /\ UNCHANGED <<collectorVars, copying>>

AddLock ==
  /\ adding.at = "called"
  /\ lock = "none"
  /\ lock' = "events"
  /\ adding' = [adding EXCEPT !.at = "locked"]
  /\ UNCHANGED <<collectorVars, copying>>

AddAppend ==
  /\ adding.at = "locked"
  /\ adding' = [adding EXCEPT !.at = "appended"]
  /\ UNCHANGED <<collectorVars, lock, copying>>

(* Seeded fault: the slice is not sorted again.                            *)
AddNotSorting ==
  /\ adding.at = "appended"
  /\ records' = [records EXCEPT ![adding.r.reqID] = InMemory(adding.r.reqID)]
  /\ lock' = "none"
  /\ delivered' = delivered \cup {adding.r}
  /\ adding' = [at |-> "idle"]
  /\ UNCHANGED <<copying, snapshot>>

(* Seeded fault: a record replaces those of the same timestamp.            *)
AddReplacing ==
  /\ adding.at = "appended"
  /\ LET Kept(q) == q.reqSeq # adding.r.reqSeq \/ q = adding.r
     IN records' = [records EXCEPT ![adding.r.reqID] =
                      StableSort(SelectSeq(InMemory(adding.r.reqID), Kept))]
  /\ lock' = "none"
  /\ delivered' = delivered \cup {adding.r}
  /\ adding' = [at |-> "idle"]
  /\ UNCHANGED <<copying, snapshot>>

(* sort.SliceStable and the deferred unlock                                *)
AddSort ==
  /\ adding.at = "appended"
  /\ records' = [records EXCEPT ![adding.r.reqID] =
                   StableSort(InMemory(adding.r.reqID))]
  /\ lock' = "none"
  /\ delivered' = delivered \cup {adding.r}
  /\ adding' = [at |-> "idle"]
  /\ UNCHANGED <<copying, snapshot>>

(* Seeded fault: get does not wait for the lock.                            *)
GetWithoutLock ==
  /\ copying.at = "idle"
  /\ lock' = "task"
  /\ copying' = [at |-> "locked", todo |-> ReqIDs, r |-> Empty]
  /\ UNCHANGED <<collectorVars, adding>>

GetLock ==
  /\ copying.at = "idle"
  /\ lock = "none"
  /\ lock' = "task"
  /\ copying' = [at |-> "locked", todo |-> ReqIDs, r |-> Empty]
  /\ UNCHANGED <<collectorVars, adding>>

(* One iteration of get's loop over the map.                               *)
GetCopy(id) ==
  /\ copying.at = "locked"
  /\ id \in copying.todo
  /\ copying' = [copying EXCEPT !.todo = @ \ {id}, !.r[id] = InMemory(id)]
  /\ UNCHANGED <<collectorVars, lock, adding>>

GetReturn ==
  /\ copying.at = "locked"
  /\ copying.todo = {}
  /\ snapshot' = copying.r
  /\ lock' = "none"
  /\ copying' = [at |-> "idle", todo |-> {}, r |-> Empty]
  /\ UNCHANGED <<records, adding, delivered>>

LockNext ==
  \/ \E isRequest \in BOOLEAN, id \in ReqIDs \cup {NoID},
        seq \in Times, p \in Params : CallAdd(isRequest, id, seq, p)
  \/ AddLock \/ AddAppend \/ AddSort
  \/ GetLock \/ (\E id \in ReqIDs : GetCopy(id)) \/ GetReturn

LockSpec == LockInit /\ [][LockNext]_lockVars

----------------------------------------------------------------------------

(***************************************************************************)
(* The type of the state of the two goroutines and of what they share; the *)
(* mutex names the goroutine that is in its critical section.              *)
(***************************************************************************)
LockTypeOK ==
  /\ TypeOK
  /\ lock \in {"none", "events", "task"}
  /\ adding \in [at : {"idle"}] \cup
                [at : {"called", "locked", "appended"}, r : Record]
  /\ copying \in [at : {"idle", "locked"}, todo : SUBSET ReqIDs, r : Collected]
  /\ lock = "events" <=> adding.at \in {"locked", "appended"}
  /\ lock = "task" <=> copying.at = "locked"

(***************************************************************************)
(* The mutex-level methods implement the atomic collector, although get    *)
(* copies the map piecemeal and addRecord leaves the slice unsorted in     *)
(* between.                                                                *)
(***************************************************************************)
ImplementsCollector == Spec

============================================================================
