---------------------------- MODULE InflightLimit ----------------------------
(***************************************************************************)
(* What the server relies on when it limits the scans that run at a time   *)
(* (cmd/server/main.go:370-377 and 199-209): at most Size requests are     *)
(* admitted, the others queue, a slot that is given up goes at once to the *)
(* request that has queued longest, and one that queues may give up.       *)
(* Module Semaphore is the implementation.                                 *)
(***************************************************************************)
EXTENDS Integers, Sequences, FiniteSets, SequencesExt

CONSTANTS
  Requests,   (* HTTP requests and asynchronous jobs                        *)
  Size        (* --max                                                      *)

VARIABLES
  admitted,   (* requests that have a slot                                  *)
  queue       (* requests that wait for one, oldest first                   *)

limitVars == <<admitted, queue>>

Queued == {queue[i] : i \in 1..Len(queue)}

Init == admitted = {} /\ queue = <<>>

Enter(r) ==
  /\ r \notin admitted /\ r \notin Queued
  /\ IF Cardinality(admitted) < Size
     THEN admitted' = admitted \cup {r} /\ UNCHANGED queue
     ELSE queue' = Append(queue, r) /\ UNCHANGED admitted

Leave(r) ==
  /\ r \in admitted
  /\ IF queue = <<>>
     THEN admitted' = admitted \ {r} /\ UNCHANGED queue
     ELSE /\ admitted' = (admitted \ {r}) \cup {Head(queue)}
          /\ queue' = Tail(queue)

GiveUp(r) ==
  /\ \E i \in 1..Len(queue) :
       queue[i] = r /\ queue' = RemoveAt(queue, i)
  /\ UNCHANGED admitted

Next == \E r \in Requests : Enter(r) \/ Leave(r) \/ GiveUp(r)

Spec == Init /\ [][Next]_limitVars

============================================================================
