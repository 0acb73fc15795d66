------------------------------ MODULE Semaphore ------------------------------
(***************************************************************************)
(* semaphore.Weighted (vendor/golang.org/x/sync/semaphore/semaphore.go) as *)
(* the server uses it: every Acquire and Release has weight 1, and a       *)
(* request releases exactly what it acquired.  What the code does between  *)
(* s.mu.Lock and s.mu.Unlock is one step; the select in Acquire, which     *)
(* waits for the slot and for the end of the request's context, is not     *)
(* under the mutex.                                                        *)
(***************************************************************************)
EXTENDS Integers, Sequences, FiniteSets, SequencesExt

CONSTANTS
  Requests,   (* HTTP requests and asynchronous jobs                        *)
  Size        (* --max, which is positive when the semaphore is used        *)

ASSUME SemaphoreAssumption == Size \in Nat \ {0}

VARIABLES
  cur,        (* s.cur                                                      *)
  waiters,    (* s.waiters: the requests in line, oldest first              *)
  ready,      (* requests whose ready channel is closed                     *)
  ended,      (* requests whose context is done                             *)
  acq         (* where a request is: "outside", "waiting" in the select,    *)
              (* "canceled" when it saw ctx.Done, "held" or "refused"       *)

semVars == <<cur, waiters, ready, ended, acq>>

Waiting == {waiters[i] : i \in 1..Len(waiters)}
Held == {r \in Requests : acq[r] = "held"}

Init ==
  /\ cur = 0
  /\ waiters = <<>>
  /\ ready = {}
  /\ ended = {}
  /\ acq = [r \in Requests |-> "outside"]

(* Acquire up to the select: take a free slot if nobody waits, or queue.   *)
Acquire(r) ==
  /\ acq[r] = "outside"
  /\ IF cur < Size /\ waiters = <<>>
     THEN /\ cur' = cur + 1
          /\ acq' = [acq EXCEPT ![r] = "held"]
          /\ UNCHANGED waiters
     ELSE /\ waiters' = Append(waiters, r)
          /\ acq' = [acq EXCEPT ![r] = "waiting"]
          /\ UNCHANGED cur
  /\ UNCHANGED <<ready, ended>>

(* case <-ready                                                            *)
SelectReady(r) ==
  /\ acq[r] = "waiting"
  /\ r \in ready
  /\ acq' = [acq EXCEPT ![r] = "held"]
  /\ ready' = ready \ {r}
  /\ UNCHANGED <<cur, waiters, ended>>

(* case <-ctx.Done(), which may be chosen when ready is closed as well     *)
SelectDone(r) ==
  /\ acq[r] = "waiting"
  /\ r \in ended
  /\ acq' = [acq EXCEPT ![r] = "canceled"]
  /\ UNCHANGED <<cur, waiters, ready, ended>>

(* Seeded fault: a slot granted after the context ended is forgotten.      *)
CancelForgettingSlot(r) ==
  /\ acq[r] = "canceled"
  /\ acq' = [acq EXCEPT ![r] = "refused"]
  /\ waiters' = SelectSeq(waiters, LAMBDA q : q # r)
  /\ ready' = ready \ {r}
  /\ UNCHANGED <<cur, ended>>

(* Seeded fault: the request that gives up stays in line.                  *)
CancelStayingInLine(r) ==
  /\ acq[r] = "canceled"
  /\ acq' = [acq EXCEPT ![r] = IF r \in ready THEN "held" ELSE "refused"]
  /\ ready' = ready \ {r}
  /\ UNCHANGED <<cur, waiters, ended>>

(* The rest of that case: a slot that came in between is kept.             *)
Cancel(r) ==
  /\ acq[r] = "canceled"
  /\ IF r \in ready
     THEN /\ acq' = [acq EXCEPT ![r] = "held"]
          /\ ready' = ready \ {r}
          /\ UNCHANGED waiters
     ELSE /\ acq' = [acq EXCEPT ![r] = "refused"]
          /\ \E i \in 1..Len(waiters) :
               waiters[i] = r /\ waiters' = RemoveAt(waiters, i)
          /\ UNCHANGED ready
  /\ UNCHANGED <<cur, ended>>

(* Seeded fault: the last free slot is not granted.                        *)
GrantedTooFew(c) == IF Len(waiters) < Size - c THEN Len(waiters) ELSE Size - c - 1

(* How many waiters Release's loop lets in when it starts with c taken     *)
Granted(c) == IF Len(waiters) <= Size - c THEN Len(waiters) ELSE Size - c

(* Seeded fault: the slot goes to the request that came last.              *)
ReleaseToLast(r) ==
  /\ acq[r] = "held"
  /\ LET n == Len(waiters)
         k == Granted(cur - 1)
     IN /\ cur' = cur - 1 + k
        /\ waiters' = SubSeq(waiters, 1, n - k)
        /\ ready' = ready \cup {waiters[i] : i \in (n - k + 1)..n}
  /\ acq' = [acq EXCEPT ![r] = "outside"]
  /\ ended' = ended \ {r}

(* Release; the request is over and its name may be used by a new one.     *)
Release(r) ==
  /\ acq[r] = "held"
  /\ LET k == Granted(cur - 1)
     IN /\ cur' = cur - 1 + k
        /\ waiters' = SubSeq(waiters, k + 1, Len(waiters))
        /\ ready' = ready \cup {waiters[i] : i \in 1..k}
  /\ acq' = [acq EXCEPT ![r] = "outside"]
  /\ ended' = ended \ {r}

(* Seeded fault: a refused request gives back a slot it never had.         *)
RefusedReleasing(r) ==
  /\ acq[r] = "refused"
  /\ cur' = cur - 1
  /\ acq' = [acq EXCEPT ![r] = "outside"]
  /\ ended' = ended \ {r}
  /\ UNCHANGED <<waiters, ready>>

(* A refused request is answered and over.                                 *)
Refused(r) ==
  /\ acq[r] = "refused"
  /\ acq' = [acq EXCEPT ![r] = "outside"]
  /\ ended' = ended \ {r}
  /\ UNCHANGED <<cur, waiters, ready>>

(* The client goes away: net/http ends the request's context.              *)
ContextEnds(r) ==
  /\ acq[r] # "outside"
  /\ ended' = ended \cup {r}
  /\ UNCHANGED <<cur, waiters, ready, acq>>

Next ==
  \E r \in Requests :
    \/ Acquire(r) \/ SelectReady(r) \/ SelectDone(r) \/ Cancel(r)
    \/ Release(r) \/ Refused(r) \/ ContextEnds(r)

(***************************************************************************)
(* Every request in Acquire takes its steps, and every scan ends and       *)
(* releases its slot.  Clients need not come or go away.                   *)
(***************************************************************************)
Fairness ==
  \A r \in Requests :
    WF_semVars(SelectReady(r)) /\ WF_semVars(Cancel(r)) /\ WF_semVars(Release(r))

SafeSpec == Init /\ [][Next]_semVars
Spec == SafeSpec /\ Fairness

----------------------------------------------------------------------------

(***************************************************************************)
(* The type of the semaphore's state.  That cur is a natural number is the *)
(* check "released more than held" of Release, which never panics.         *)
(***************************************************************************)
TypeOK ==
  /\ cur \in Nat
  /\ waiters \in Seq(Requests)
  /\ ready \subseteq Requests
  /\ ended \subseteq Requests
  /\ acq \in [Requests ->
              {"outside", "waiting", "canceled", "held", "refused"}]

(***************************************************************************)
(* Every slot that is taken belongs to a request that has it or is about   *)
(* to notice that it has: a context that ends while Release grants the     *)
(* slot neither leaks it nor gives it back twice.                          *)
(***************************************************************************)
SlotsAccounted ==
  /\ cur = Cardinality(Held \cup ready)
  /\ cur <= Size
  /\ ready \subseteq {r \in Requests : acq[r] \in {"waiting", "canceled"}}

(***************************************************************************)
(* No slot is idle while a request waits, whatever the order in which      *)
(* waiters gave up and slots were released.                                *)
(***************************************************************************)
NoIdleSlot == cur < Size => waiters = <<>>

(***************************************************************************)
(* The line holds, once each, exactly the requests that are still in       *)
(* Acquire and have not been granted a slot.                               *)
(***************************************************************************)
LineIsExact ==
  /\ Waiting = {r \in Requests : acq[r] \in {"waiting", "canceled"}} \ ready
  /\ \A i, j \in 1..Len(waiters) : waiters[i] = waiters[j] => i = j

Limit == INSTANCE InflightLimit WITH
           admitted <- Held \cup ready, queue <- waiters

(***************************************************************************)
(* The semaphore implements the limit: a slot that is released goes to the *)
(* oldest waiter in the same step, and nobody overtakes.                   *)
(***************************************************************************)
ImplementsLimit == Limit!Spec

(* If scans end, every request that waits gets its slot or is refused.     *)
NobodyWaitsForever ==
  \A r \in Requests :
    acq[r] = "waiting" ~> acq[r] \in {"held", "refused"}

============================================================================
