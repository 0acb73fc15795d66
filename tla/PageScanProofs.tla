--------------------------- MODULE PageScanProofs ---------------------------
(***************************************************************************)
(* Proofs about module PageScan, for any request ids, cookies, domains,    *)
(* queue capacity and number of events: what Chrome reports before the     *)
(* load event that ends the wait is in the report.                         *)
(***************************************************************************)
EXTENDS PageScan, SequenceTheorems, FiniteSetTheorems, TLAPS

RP == INSTANCE RecordCollectorProofs WITH Params <- 1..MaxEvents

----------------------------------------------------------------------------
(* The inductive invariant                                                 *)

AllMethods == NetworkMethods \cup LoadMethods

IsRequest(method) == method = "Network.requestWillBeSent"

NetworkParams ==
  [n : Nat, id : ReqIDs, time : Times, data : BOOLEAN, cookie : Cookies \cup {NoCookie}]
LoadParams == [n : Nat]

(* What Chrome may emit; only a response with a URL of the net sets a      *)
(* cookie.                                                                 *)
Emitted ==
  {e \in [method : NetworkMethods, params : NetworkParams] :
     e.params.cookie # NoCookie =>
       e.method = "Network.responseReceived" /\ ~ e.params.data}
  \cup [method : LoadMethods, params : LoadParams]

Results == [ok : BOOLEAN] \cup [ok : BOOLEAN, cookies : SUBSET Cookies]

Message ==
  [kind : {"reply"}, result : Results]
  \cup [kind : {"event"}, method : AllMethods, params : NetworkParams \cup LoadParams]

IsReply(m) == m.kind = "reply"

(* Replies among the first k messages of w; there is never more than one.  *)
RepliesIn(w, k) == IF \E i \in 1..k : IsReply(w[i]) THEN 1 ELSE 0

(* m is the message of the n-th event of t.                                *)
IsEvent(t, m, n) ==
  /\ n \in 1..Len(t)
  /\ m = [kind |-> "event", method |-> t[n].method, params |-> t[n].params]

ControlPart ==
  /\ chrome \in {"up", "gone"}
  /\ reader \in {"reading", "stopped"}
  /\ pc \in {"start", "enable", "navigate", "wait", "parse", "cookies",
             "screenshot"} \cup Ended
  /\ domain \in 1..Len(Domains)
  /\ timer \in {"unset", "armed", "fired", "stopped"}
  /\ jar \in [Cookies -> {"nobody", "http", "script"}]

(* A reply is on the socket only while its request is outstanding.         *)
CallPart ==
  /\ call = [at |-> call.at, method |-> call.method, result |-> call.result]
  /\ call.at \in {"idle", "sent", "answered", "received"}
  /\ call.at # "answered" => \A i \in 1..Len(wire) : ~ IsReply(wire[i])
  /\ \A i, j \in 1..Len(wire) : IsReply(wire[i]) /\ IsReply(wire[j]) => i = j

(* Whatever makes Chrome emit events comes after the registration.         *)
ReadyPart ==
  \/ pc \notin {"start", "failed"}
  \/ call.at # "idle"
  \/ enabled # {}
  \/ trace # <<>>
  => AllMethods \subseteq callbacks

TracePart ==
  /\ trace \in Seq(Emitted)
  /\ Len(trace) <= MaxEvents
  /\ \A n \in 1..Len(trace) : trace[n].params.n = n

(* The events in the queue and on the socket, in order and without gaps    *)
QueuePart ==
  /\ wire \in Seq(Message) /\ events \in Seq(Message)
  /\ Len(events) <= EventCap
  /\ handled \in 0..Len(trace)
  /\ \A i \in 1..Len(events) : IsEvent(trace, events[i], handled + i)
  /\ \A i \in 1..Len(wire) : ~ IsReply(wire[i]) =>
       IsEvent(trace, wire[i], handled + Len(events) + i - RepliesIn(wire, i))
  /\ chrome = "up" =>
       handled + Len(events) + Len(wire) - RepliesIn(wire, Len(wire)) = Len(trace)

(* r is what the callback records of the n-th event of t.                  *)
Records(t, r, n) ==
  /\ r.params = n
  /\ r.isRequest <=> IsRequest(t[n].method)

(* What has been handled is in the collector.                              *)
CollectedPart ==
  \A n \in 1..handled : Tracked(trace[n]) =>
    \E r \in delivered : r.reqID \in ReqIDs /\ Records(trace, r, n)

(* No signal is ahead of the callback that started its goroutine.          *)
SignalPart ==
  /\ sleepers \subseteq 1..handled
  /\ pageWait \in Seq(0..handled) /\ Len(pageWait) <= 1
  /\ woke \in 0..handled

SnapshotPart ==
  SnapshotTaken => \A n \in 1..woke : Tracked(trace[n]) =>
    \E id \in ReqIDs : \E r \in RC!ElementsOf(snapshot[id]) : Records(trace, r, n)

(***************************************************************************)
(* LoadWakeSeesEarlierTraffic relates the end of the wait to what Chrome   *)
(* emitted long before.  The parts between the two follow an event from    *)
(* the socket through the queue to the collector, and a signal from the    *)
(* callback that started its goroutine to the wait it ends.                *)
(***************************************************************************)
ScanInv ==
  /\ ControlPart /\ CallPart /\ ReadyPart /\ TracePart /\ QueuePart
  /\ CollectedPart /\ SignalPart /\ SnapshotPart
  /\ EarlyCookiesAttributed

Inv == ScanInv /\ RP!CollectorInv

----------------------------------------------------------------------------
(* The collector                                                           *)

LEMMA CollectorAssumed ==
  /\ NoID \notin ReqIDs /\ Times \subseteq Nat
  /\ RP!CollectorAssumption
BY ScanAssumption DEF RP!CollectorAssumption

LEMMA SameNext == [RC!Next]_(RC!collectorVars) <=> [RP!Next]_(RP!collectorVars)
BY DEF RC!Next, RC!collectorVars, RC!Get, RC!AddEvent, RC!NewRecord, RC!AddRecord,
       RC!StableSort, RC!Rank, RC!Before, RC!Cardinality,
       RP!Next, RP!collectorVars, RP!Get, RP!AddEvent, RP!NewRecord, RP!AddRecord,
       RP!StableSort, RP!Rank, RP!Before, RP!Cardinality

(* Everything that was delivered is among the records of its request id.   *)
LEMMA DeliveredIsRecorded ==
  ASSUME RP!CollectorInv, NEW r \in delivered, r.reqID \in ReqIDs
  PROVE  r \in RC!ElementsOf(records[r.reqID])
<1>1. r.stamp <= RP!Cardinality(delivered)
  BY DEF RP!CollectorInv, RP!StampsIdentify
<1>2. r \in RP!ElementsOf(records[r.reqID])
  BY <1>1 DEF RP!CollectorInv, RP!ExactlyThose
<1> QED
  BY <1>2 DEF RP!ElementsOf, RC!ElementsOf

----------------------------------------------------------------------------
(* Steps of the scan                                                      *)

LEMMA RejectURLStep ==
  ASSUME Inv, RejectURL
  PROVE  ScanInv'
<1> USE DEF Inv, ScanInv, RejectURL, GoTo, debuggerVars, browserVars,
        collectorVars
<1>1. ControlPart'
  BY DEF ControlPart, Ended
<1>2. CallPart'
  BY DEF CallPart, Idle
<1>3. ReadyPart'
  BY DEF ReadyPart
<1>4. TracePart'
  BY DEF TracePart
<1>5. QueuePart'
  BY DEF QueuePart
<1>6. CollectedPart'
  BY DEF CollectedPart
<1>7. SignalPart'
  BY DEF SignalPart
<1>8. SnapshotPart'
  BY DEF SnapshotPart, SnapshotTaken, Ended
<1>9. EarlyCookiesAttributed'
  BY DEF EarlyCookiesAttributed, Ended
<1> QED
  BY <1>1, <1>2, <1>3, <1>4, <1>5, <1>6, <1>7, <1>8, <1>9

LEMMA RegisterStep ==
  ASSUME Inv, Register
  PROVE  ScanInv'
<1> USE DEF Inv, ScanInv, Register, CallbackEvent, browserVars,
        collectorVars
<1>1. ControlPart'
  BY DEF ControlPart, Ended
<1>2. CallPart'
  BY DEF CallPart, Idle
<1>3. ReadyPart'
  BY DEF ReadyPart, AllMethods
<1>4. TracePart'
  BY DEF TracePart
<1>5. QueuePart'
  BY DEF QueuePart
<1>6. CollectedPart'
  BY DEF CollectedPart
<1>7. SignalPart'
  BY DEF SignalPart
<1>8. SnapshotPart'
  BY DEF SnapshotPart, SnapshotTaken, Ended
<1>9. EarlyCookiesAttributed'
  BY DEF EarlyCookiesAttributed, Ended
<1> QED
  BY <1>1, <1>2, <1>3, <1>4, <1>5, <1>6, <1>7, <1>8, <1>9

LEMMA EnableDomainStep ==
  ASSUME Inv, EnableDomain
  PROVE  ScanInv'
<1> USE DEF Inv, ScanInv, EnableDomain, SendRequest, taskVars, browserVars,
        collectorVars
<1>1. ControlPart'
  BY DEF ControlPart, Ended
<1>2. CallPart'
  BY DEF CallPart, Idle
<1>3. ReadyPart'
  BY DEF ReadyPart
<1>4. TracePart'
  BY DEF TracePart
<1>5. QueuePart'
  BY DEF QueuePart
<1>6. CollectedPart'
  BY DEF CollectedPart
<1>7. SignalPart'
  BY DEF SignalPart
<1>8. SnapshotPart'
  BY DEF SnapshotPart, SnapshotTaken, Ended
<1>9. EarlyCookiesAttributed'
  BY DEF EarlyCookiesAttributed, Ended
<1> QED
  BY <1>1, <1>2, <1>3, <1>4, <1>5, <1>6, <1>7, <1>8, <1>9

LEMMA NavigateStep ==
  ASSUME Inv, Navigate
  PROVE  ScanInv'
<1> USE DEF Inv, ScanInv, Navigate, SendRequest, taskVars, browserVars,
        collectorVars
<1>1. ControlPart'
  BY DEF ControlPart, Ended
<1>2. CallPart'
  BY DEF CallPart, Idle
<1>3. ReadyPart'
  BY DEF ReadyPart
<1>4. TracePart'
  BY DEF TracePart
<1>5. QueuePart'
  BY DEF QueuePart
<1>6. CollectedPart'
  BY DEF CollectedPart
<1>7. SignalPart'
  BY DEF SignalPart
<1>8. SnapshotPart'
  BY DEF SnapshotPart, SnapshotTaken, Ended
<1>9. EarlyCookiesAttributed'
  BY DEF EarlyCookiesAttributed, Ended
<1> QED
  BY <1>1, <1>2, <1>3, <1>4, <1>5, <1>6, <1>7, <1>8, <1>9

LEMMA GetAllCookiesStep ==
  ASSUME Inv, GetAllCookies
  PROVE  ScanInv'
<1> USE DEF Inv, ScanInv, GetAllCookies, SendRequest, taskVars, browserVars,
        collectorVars
<1>1. ControlPart'
  BY DEF ControlPart, Ended
<1>2. CallPart'
  BY DEF CallPart, Idle
<1>3. ReadyPart'
  BY DEF ReadyPart
<1>4. TracePart'
  BY DEF TracePart
<1>5. QueuePart'
  BY DEF QueuePart
<1>6. CollectedPart'
  BY DEF CollectedPart
<1>7. SignalPart'
  BY DEF SignalPart
<1>8. SnapshotPart'
  BY DEF SnapshotPart, SnapshotTaken, Ended
<1>9. EarlyCookiesAttributed'
  BY DEF EarlyCookiesAttributed, Ended
<1> QED
  BY <1>1, <1>2, <1>3, <1>4, <1>5, <1>6, <1>7, <1>8, <1>9

LEMMA CaptureScreenshotStep ==
  ASSUME Inv, CaptureScreenshot
  PROVE  ScanInv'
<1> USE DEF Inv, ScanInv, CaptureScreenshot, SendRequest, taskVars,
        browserVars, collectorVars
<1>1. ControlPart'
  BY DEF ControlPart, Ended
<1>2. CallPart'
  BY DEF CallPart, Idle
<1>3. ReadyPart'
  BY DEF ReadyPart
<1>4. TracePart'
  BY DEF TracePart
<1>5. QueuePart'
  BY DEF QueuePart
<1>6. CollectedPart'
  BY DEF CollectedPart
<1>7. SignalPart'
  BY DEF SignalPart
<1>8. SnapshotPart'
  BY DEF SnapshotPart, SnapshotTaken, Ended
<1>9. EarlyCookiesAttributed'
  BY DEF EarlyCookiesAttributed, Ended
<1> QED
  BY <1>1, <1>2, <1>3, <1>4, <1>5, <1>6, <1>7, <1>8, <1>9

LEMMA DomainEnabledStep ==
  ASSUME Inv, DomainEnabled
  PROVE  ScanInv'
<1> USE DEF Inv, ScanInv, DomainEnabled, ReceiveReply, browserVars,
        collectorVars
<1>1. ControlPart'
  BY ScanAssumption DEF ControlPart, Ended
<1>2. CallPart'
  BY DEF CallPart, Idle
<1>3. ReadyPart'
  BY DEF ReadyPart
<1>4. TracePart'
  BY DEF TracePart
<1>5. QueuePart'
  BY DEF QueuePart
<1>6. CollectedPart'
  BY DEF CollectedPart
<1>7. SignalPart'
  BY DEF SignalPart
<1>8. SnapshotPart'
  BY DEF SnapshotPart, SnapshotTaken, Ended
<1>9. EarlyCookiesAttributed'
  BY DEF EarlyCookiesAttributed, Ended
<1> QED
  BY <1>1, <1>2, <1>3, <1>4, <1>5, <1>6, <1>7, <1>8, <1>9

LEMMA NavigatedStep ==
  ASSUME Inv, Navigated
  PROVE  ScanInv'
<1> USE DEF Inv, ScanInv, Navigated, ReceiveReply, GoTo, Return,
        browserVars, collectorVars
<1>1. ControlPart'
  BY DEF ControlPart, Ended
<1>2. CallPart'
  BY DEF CallPart, Idle
<1>3. ReadyPart'
  BY DEF ReadyPart
<1>4. TracePart'
  BY DEF TracePart
<1>5. QueuePart'
  BY DEF QueuePart
<1>6. CollectedPart'
  BY DEF CollectedPart
<1>7. SignalPart'
  BY DEF SignalPart
<1>8. SnapshotPart'
  BY DEF SnapshotPart, SnapshotTaken, Ended
<1>9. EarlyCookiesAttributed'
  BY DEF EarlyCookiesAttributed, Ended
<1> QED
  BY <1>1, <1>2, <1>3, <1>4, <1>5, <1>6, <1>7, <1>8, <1>9

LEMMA EndWaitStep ==
  ASSUME Inv, EndWait
  PROVE  ScanInv'
<1> USE DEF Inv, ScanInv, EndWait, debuggerVars, browserVars, collectorVars
<1>1. ControlPart'
  BY DEF ControlPart, Ended
<1>2. CallPart'
  BY DEF CallPart, Idle
<1>3. ReadyPart'
  BY DEF ReadyPart
<1>4. TracePart'
  BY DEF TracePart
<1>5. QueuePart'
  BY DEF QueuePart
<1>6. CollectedPart'
  BY DEF CollectedPart
<1>7. SignalPart'
  <2>1. Head(pageWait) \in 0..handled /\ Tail(pageWait) \in Seq(0..handled)
        /\ Len(Tail(pageWait)) = Len(pageWait) - 1
    BY HeadTailProperties DEF SignalPart
  <2> QED
    BY <2>1 DEF SignalPart
<1>8. SnapshotPart'
  BY DEF SnapshotPart, SnapshotTaken, Ended
<1>9. EarlyCookiesAttributed'
  BY DEF EarlyCookiesAttributed, Ended
<1> QED
  BY <1>1, <1>2, <1>3, <1>4, <1>5, <1>6, <1>7, <1>8, <1>9

LEMMA TakeSnapshotStep ==
  ASSUME Inv, TakeSnapshot
  PROVE  ScanInv'
<1> USE DEF Inv, ScanInv, TakeSnapshot, GoTo, debuggerVars, browserVars
<1>1. ControlPart'
  BY DEF ControlPart
<1>2. CallPart'
  BY DEF CallPart, Idle
<1>3. ReadyPart'
  BY DEF ReadyPart
<1>4. TracePart'
  BY DEF TracePart
<1>5. QueuePart'
  BY DEF QueuePart
<1>6. CollectedPart'
  BY DEF RC!Get, CollectedPart
<1>7. SignalPart'
  BY DEF SignalPart
<1>8. SnapshotPart'
  <2> SUFFICES ASSUME NEW n \in 1..woke, Tracked(trace[n])
               PROVE  \E id \in ReqIDs : \E r \in RC!ElementsOf(records[id]) : Records(trace, r, n)
    BY DEF RC!Get, SnapshotPart
  <2>1. n \in 1..handled
    BY DEF SignalPart, QueuePart
  <2>2. PICK r \in delivered : r.reqID \in ReqIDs /\ Records(trace, r, n)
    BY <2>1 DEF CollectedPart
  <2>3. r \in RC!ElementsOf(records[r.reqID])
    BY <2>2, DeliveredIsRecorded
  <2> QED
    BY <2>2, <2>3
<1>9. EarlyCookiesAttributed'
  BY DEF EarlyCookiesAttributed, Ended
<1> QED
  BY <1>1, <1>2, <1>3, <1>4, <1>5, <1>6, <1>7, <1>8, <1>9

LEMMA CookiesReceivedStep ==
  ASSUME Inv, CookiesReceived
  PROVE  ScanInv'
<1> USE DEF Inv, ScanInv, CookiesReceived, ReceiveReply, Return,
        browserVars, collectorVars
<1>1. ControlPart'
  BY DEF ControlPart, Ended
<1>2. CallPart'
  BY DEF CallPart, Idle
<1>3. ReadyPart'
  BY DEF ReadyPart
<1>4. TracePart'
  BY DEF TracePart
<1>5. QueuePart'
  BY DEF QueuePart
<1>6. CollectedPart'
  BY DEF CollectedPart
<1>7. SignalPart'
  BY DEF SignalPart
<1>8. SnapshotPart'
  BY DEF SnapshotPart, SnapshotTaken, Ended
<1>9. EarlyCookiesAttributed'
  <2> SUFFICES ASSUME pc' \in {"screenshot", "done"}, woke > 0, NEW n \in 1..woke - 1,
                      trace[n].method = "Network.responseReceived",
                      trace[n].params.cookie # NoCookie
               PROVE  trace[n].params.cookie \in report'.http \ report'.script
    BY DEF EarlyCookiesAttributed
  <2>1. n \in 1..woke /\ n \in 1..Len(trace)
    BY DEF SignalPart, QueuePart, TracePart
  <2>2. trace[n] \in Emitted
    BY <2>1, ElementOfSeq DEF TracePart
  <2>3. Tracked(trace[n])
    BY <2>2 DEF Emitted, Tracked, NetworkMethods, LoadMethods
  <2>4. PICK id \in ReqIDs : \E r \in RC!ElementsOf(snapshot[id]) : Records(trace, r, n)
    BY <2>1, <2>3 DEF SnapshotPart, SnapshotTaken
  <2>5. PICK r \in RC!ElementsOf(snapshot[id]) : Records(trace, r, n)
    BY <2>4
  <2>6. trace[n].params.cookie \in SnapshotCookies
    BY <2>5 DEF Records, IsRequest, SnapshotCookies
  <2>7. report' = [http |-> SnapshotCookies,
                   script |-> call.result.cookies \ SnapshotCookies]
    OBVIOUS
  <2> QED
    BY <2>6, <2>7
<1> QED
  BY <1>1, <1>2, <1>3, <1>4, <1>5, <1>6, <1>7, <1>8, <1>9

LEMMA ScreenshotTakenStep ==
  ASSUME Inv, ScreenshotTaken
  PROVE  ScanInv'
<1> USE DEF Inv, ScanInv, ScreenshotTaken, ReceiveReply, Return,
        browserVars, collectorVars
<1>1. ControlPart'
  BY DEF ControlPart, Ended
<1>2. CallPart'
  BY DEF CallPart, Idle
<1>3. ReadyPart'
  BY DEF ReadyPart
<1>4. TracePart'
  BY DEF TracePart
<1>5. QueuePart'
  BY DEF QueuePart
<1>6. CollectedPart'
  BY DEF CollectedPart
<1>7. SignalPart'
  BY DEF SignalPart
<1>8. SnapshotPart'
  BY DEF SnapshotPart, SnapshotTaken, Ended
<1>9. EarlyCookiesAttributed'
  BY DEF EarlyCookiesAttributed, Ended
<1> QED
  BY <1>1, <1>2, <1>3, <1>4, <1>5, <1>6, <1>7, <1>8, <1>9

----------------------------------------------------------------------------
(* Steps of the goroutines that signal                                    *)

LEMMA TimerFiresStep ==
  ASSUME Inv, TimerFires
  PROVE  ScanInv'
<1> USE DEF Inv, ScanInv, TimerFires, Signal, debuggerVars, browserVars,
        collectorVars
<1>1. ControlPart'
  BY DEF ControlPart, Ended
<1>2. CallPart'
  BY DEF CallPart, Idle
<1>3. ReadyPart'
  BY DEF ReadyPart
<1>4. TracePart'
  BY DEF TracePart
<1>5. QueuePart'
  BY DEF QueuePart
<1>6. CollectedPart'
  BY DEF CollectedPart
<1>7. SignalPart'
  <2>1. 0 \in 0..handled
    BY DEF SignalPart, QueuePart
  <2>2. <<0>> \in Seq(0..handled) /\ Len(<<0>>) <= 1
    BY <2>1
  <2>3. pageWait' = pageWait \/ pageWait' = <<0>>
    OBVIOUS
  <2>4. pageWait' \in Seq(0..handled) /\ Len(pageWait') <= 1
    <3>1. CASE pageWait' = pageWait
      BY <3>1 DEF SignalPart
    <3>2. CASE pageWait' = <<0>>
      BY <2>2, <3>2, Zenon
    <3> QED
      BY <2>3, <3>1, <3>2
  <2>5. sleepers' \subseteq 1..handled /\ woke \in 0..handled
    BY DEF SignalPart
  <2>6. handled' = handled /\ woke' = woke
    OBVIOUS
  <2> QED
    BY <2>4, <2>5, <2>6 DEF SignalPart
<1>8. SnapshotPart'
  BY DEF SnapshotPart, SnapshotTaken, Ended
<1>9. EarlyCookiesAttributed'
  BY DEF EarlyCookiesAttributed, Ended
<1> QED
  BY <1>1, <1>2, <1>3, <1>4, <1>5, <1>6, <1>7, <1>8, <1>9

LEMMA SleepEndsStep ==
  ASSUME Inv, NEW k, SleepEnds(k)
  PROVE  ScanInv'
<1> USE DEF Inv, ScanInv, SleepEnds, Signal, debuggerVars, browserVars,
        collectorVars
<1>1. ControlPart'
  BY DEF ControlPart, Ended
<1>2. CallPart'
  BY DEF CallPart, Idle
<1>3. ReadyPart'
  BY DEF ReadyPart
<1>4. TracePart'
  BY DEF TracePart
<1>5. QueuePart'
  BY DEF QueuePart
<1>6. CollectedPart'
  BY DEF CollectedPart
<1>7. SignalPart'
  <2>1. k \in 0..handled
    BY DEF SignalPart, QueuePart
  <2>2. <<k>> \in Seq(0..handled) /\ Len(<<k>>) <= 1
    BY <2>1
  <2>3. pageWait' = pageWait \/ pageWait' = <<k>>
    OBVIOUS
  <2>4. pageWait' \in Seq(0..handled) /\ Len(pageWait') <= 1
    <3>1. CASE pageWait' = pageWait
      BY <3>1 DEF SignalPart
    <3>2. CASE pageWait' = <<k>>
      BY <2>2, <3>2, Zenon
    <3> QED
      BY <2>3, <3>1, <3>2
  <2>5. sleepers' \subseteq 1..handled /\ woke \in 0..handled
    BY DEF SignalPart
  <2>6. handled' = handled /\ woke' = woke
    OBVIOUS
  <2> QED
    BY <2>4, <2>5, <2>6 DEF SignalPart
<1>8. SnapshotPart'
  BY DEF SnapshotPart, SnapshotTaken, Ended
<1>9. EarlyCookiesAttributed'
  BY DEF EarlyCookiesAttributed, Ended
<1> QED
  BY <1>1, <1>2, <1>3, <1>4, <1>5, <1>6, <1>7, <1>8, <1>9
----------------------------------------------------------------------------
(* The messages on the socket                                             *)

LEMMA RepliesAppend ==
  ASSUME NEW w \in Seq(Message), NEW m \in Message
  PROVE  /\ \A i \in 0..Len(w) : RepliesIn(Append(w, m), i) = RepliesIn(w, i)
         /\ RepliesIn(Append(w, m), Len(w) + 1) =
              IF IsReply(m) THEN 1 ELSE RepliesIn(w, Len(w))
<1> DEFINE v == Append(w, m)
<1>1. /\ Len(w) \in Nat /\ Len(v) = Len(w) + 1
      /\ \A i \in 1..Len(w) : v[i] = w[i]
      /\ v[Len(w) + 1] = m
  BY AppendProperties, LenProperties
<1> HIDE DEF v
<1>2. \A i \in 0..Len(w) : RepliesIn(v, i) = RepliesIn(w, i)
  BY <1>1 DEF RepliesIn
<1>3. RepliesIn(v, Len(w) + 1) = IF IsReply(m) THEN 1 ELSE RepliesIn(w, Len(w))
  BY <1>1 DEF RepliesIn
<1> QED
  BY <1>2, <1>3 DEF v

LEMMA RepliesTail ==
  ASSUME NEW w \in Seq(Message), w # <<>>,
         \A i, j \in 1..Len(w) : IsReply(w[i]) /\ IsReply(w[j]) => i = j
  PROVE  \A i \in 0..Len(w) - 1 :
           RepliesIn(Tail(w), i) = IF IsReply(Head(w)) THEN 0 ELSE RepliesIn(w, i + 1)
<1> DEFINE v == Tail(w)
<1>1. /\ Len(w) \in Nat /\ Len(v) = Len(w) - 1 /\ Head(w) = w[1]
      /\ \A i \in 1..Len(w) - 1 : v[i] = w[i + 1]
  BY HeadTailProperties, LenProperties
<1> HIDE DEF v
<1>2. Len(w) > 0
  BY EmptySeq, <1>1
<1> SUFFICES ASSUME NEW i \in 0..Len(w) - 1
             PROVE  RepliesIn(v, i) = IF IsReply(w[1]) THEN 0 ELSE RepliesIn(w, i + 1)
  BY <1>1 DEF v
<1>3. ASSUME NEW j \in 1..i, IsReply(v[j]) PROVE j + 1 \in 1..i + 1 /\ IsReply(w[j + 1])
  BY <1>1, <1>3
<1>4. ASSUME NEW j \in 1..i + 1, IsReply(w[j]), j # 1
      PROVE  j - 1 \in 1..i /\ IsReply(v[j - 1])
  BY <1>1, <1>4
<1>5. CASE IsReply(w[1])
  <2>1. ~ \E j \in 1..i : IsReply(v[j])
    BY <1>1, <1>2, <1>3, <1>5
  <2> QED
    BY <1>5, <2>1 DEF RepliesIn
<1>6. CASE ~ IsReply(w[1])
  <2>1. (\E j \in 1..i : IsReply(v[j])) <=> \E j \in 1..i + 1 : IsReply(w[j])
    BY <1>3, <1>4, <1>6
  <2> QED
    BY <1>6, <2>1 DEF RepliesIn
<1> QED
  BY <1>5, <1>6

LEMMA RepliesPrefix ==
  ASSUME NEW w \in Seq(Message), NEW k \in 0..Len(w)
  PROVE  /\ SubSeq(w, 1, k) \in Seq(Message) /\ Len(SubSeq(w, 1, k)) = k
         /\ \A i \in 1..k : SubSeq(w, 1, k)[i] = w[i]
         /\ \A i \in 0..k : RepliesIn(SubSeq(w, 1, k), i) = RepliesIn(w, i)
<1> DEFINE v == SubSeq(w, 1, k)
<1>1. Len(w) \in Nat /\ \A i \in 1..k : w[i] \in Message
  BY ElementOfSeq, LenProperties
<1>2. v \in Seq(Message) /\ Len(v) = k /\ \A i \in 1..k : v[i] = w[i]
  BY <1>1, SubSeqProperties
<1> HIDE DEF v
<1>3. \A i \in 0..k : RepliesIn(v, i) = RepliesIn(w, i)
  BY <1>1, <1>2 DEF RepliesIn
<1> QED
  BY <1>2, <1>3 DEF v

(* A reply changes neither the events on the socket nor their numbers.     *)
LEMMA ReplyKeepsQueue ==
  ASSUME CallPart, QueuePart, NEW method, NEW result \in Results,
         Reply(method, result), UNCHANGED <<trace, handled>>
  PROVE  CallPart' /\ QueuePart'
<1> DEFINE m == [kind |-> "reply", result |-> result]
<1>1. m \in Message /\ IsReply(m)
  BY DEF Message, IsReply
<1>2. wire' = Append(wire, m) /\ wire \in Seq(Message)
  BY DEF Reply, QueuePart
<1> HIDE DEF m
<1>3. /\ Len(wire) \in Nat /\ Len(wire') = Len(wire) + 1 /\ wire' \in Seq(Message)
      /\ \A i \in 1..Len(wire) : wire'[i] = wire[i]
      /\ wire'[Len(wire) + 1] = m
  BY <1>1, <1>2, AppendProperties, LenProperties
<1>4. /\ \A i \in 0..Len(wire) : RepliesIn(wire', i) = RepliesIn(wire, i)
      /\ RepliesIn(wire', Len(wire) + 1) = 1
  BY <1>1, <1>2, RepliesAppend
<1>5. \A i \in 1..Len(wire) : ~ IsReply(wire[i])
  BY DEF CallPart, Reply
<1>6. RepliesIn(wire, Len(wire)) = 0
  BY <1>5 DEF RepliesIn
<1>7. CallPart'
  BY <1>1, <1>3, <1>5 DEF CallPart, Reply
<1>8. ASSUME NEW i \in 1..Len(wire'), ~ IsReply(wire'[i])
      PROVE  IsEvent(trace, wire'[i], handled + Len(events) + i - RepliesIn(wire', i))
  <2>1. i \in 1..Len(wire)
    BY <1>1, <1>3, <1>8
  <2>2. wire'[i] = wire[i] /\ RepliesIn(wire', i) = RepliesIn(wire, i)
    BY <1>3, <1>4, <2>1
  <2> QED
    BY <1>8, <2>1, <2>2 DEF QueuePart
<1>9. chrome = "up" =>
        handled + Len(events) + Len(wire') - RepliesIn(wire', Len(wire')) = Len(trace)
  <2>1. Len(events) \in Nat /\ handled \in Nat
    BY LenProperties DEF QueuePart
  <2> QED
    BY <1>3, <1>4, <1>6, <2>1 DEF QueuePart
<1>10. UNCHANGED <<events, chrome, trace, handled>>
  BY DEF Reply
<1> QED
  BY <1>3, <1>7, <1>8, <1>9, <1>10 DEF QueuePart, IsEvent

----------------------------------------------------------------------------
(* Steps of the reader and of the dispatcher                              *)

LEMMA ReadReplyStep ==
  ASSUME Inv, ReadReply, UNCHANGED <<taskVars, browserVars, collectorVars, handled>>
  PROVE  ScanInv'
<1> USE DEF Inv, ScanInv, ReadReply, taskVars, browserVars, collectorVars
<1>1. wire \in Seq(Message) /\ wire # <<>>
  BY DEF QueuePart
<1>2. /\ Len(wire) \in Nat /\ Len(wire) > 0 /\ Head(wire) = wire[1]
      /\ wire' \in Seq(Message) /\ Len(wire') = Len(wire) - 1
      /\ \A i \in 1..Len(wire') : wire'[i] = wire[i + 1]
  BY <1>1, HeadTailProperties, EmptySeq
<1>3. \A i \in 0..Len(wire') :
        RepliesIn(wire', i) = IF IsReply(Head(wire)) THEN 0 ELSE RepliesIn(wire, i + 1)
  BY <1>1, <1>2, RepliesTail DEF CallPart
<1>4. IsReply(Head(wire))
  BY DEF IsReply
<1>5. ControlPart' /\ TracePart'
  BY DEF ControlPart, TracePart
<1>6. CallPart'
  <2>1. ASSUME NEW i \in 1..Len(wire') PROVE ~ IsReply(wire'[i])
    <3>1. i + 1 \in 1..Len(wire) /\ 1 \in 1..Len(wire) /\ i + 1 # 1
      BY <1>2
    <3> QED
      BY <1>2, <1>4, <3>1 DEF CallPart
  <2>2. call' = [at |-> "received", method |-> call.method, result |-> Head(wire).result]
    BY DEF CallPart
  <2> QED
    BY <2>1, <2>2 DEF CallPart
<1>7. ReadyPart'
  <2>1. call.at # "idle"
    BY <1>2, <1>4 DEF CallPart
  <2> QED
    BY <2>1 DEF ReadyPart
<1>8. QueuePart'
  <2>1. Len(events) \in Nat /\ handled \in Nat /\ Len(trace) \in Nat
    BY LenProperties DEF QueuePart, TracePart
  <2>2. \A k \in 1..Len(wire) : RepliesIn(wire, k) = 1
    BY <1>2, <1>4 DEF RepliesIn
  <2>3. ASSUME NEW i \in 1..Len(wire'), ~ IsReply(wire'[i])
        PROVE  IsEvent(trace, wire'[i], handled + Len(events) + i - RepliesIn(wire', i))
    <3>1. i + 1 \in 1..Len(wire) /\ ~ IsReply(wire[i + 1])
      BY <1>2, <2>3
    <3>2. IsEvent(trace, wire[i + 1], handled + Len(events) + (i + 1) - RepliesIn(wire, i + 1))
      BY <3>1 DEF QueuePart
    <3>3. handled + Len(events) + (i + 1) - RepliesIn(wire, i + 1)
            = handled + Len(events) + i - RepliesIn(wire', i)
      BY <1>2, <1>3, <1>4, <2>1, <2>2, <3>1
    <3> QED
      BY <1>2, <3>2, <3>3
  <2>4. chrome = "up" =>
          handled + Len(events) + Len(wire') - RepliesIn(wire', Len(wire')) = Len(trace)
    <3>1. RepliesIn(wire', Len(wire')) = 0 /\ RepliesIn(wire, Len(wire)) = 1
      BY <1>2, <1>3, <1>4, <2>2
    <3> QED
      BY <1>2, <2>1, <3>1 DEF QueuePart
  <2> QED
    BY <1>2, <2>3, <2>4 DEF QueuePart, IsEvent
<1>9. CollectedPart' /\ SignalPart'
  BY DEF CollectedPart, SignalPart, Records
<1>10. SnapshotPart' /\ EarlyCookiesAttributed'
  BY DEF SnapshotPart, SnapshotTaken, Records, EarlyCookiesAttributed
<1> QED
  BY <1>5, <1>6, <1>7, <1>8, <1>9, <1>10

LEMMA ReadEventStep ==
  ASSUME Inv, ReadEvent, UNCHANGED <<taskVars, browserVars, collectorVars, handled>>
  PROVE  ScanInv'
<1> USE DEF Inv, ScanInv, ReadEvent, taskVars, browserVars, collectorVars
<1>1. wire \in Seq(Message) /\ wire # <<>>
  BY DEF QueuePart
<1>2. /\ Len(wire) \in Nat /\ Len(wire) > 0 /\ Head(wire) = wire[1]
      /\ wire' \in Seq(Message) /\ Len(wire') = Len(wire) - 1
      /\ \A i \in 1..Len(wire') : wire'[i] = wire[i + 1]
  BY <1>1, HeadTailProperties, EmptySeq
<1>3. \A i \in 0..Len(wire') :
        RepliesIn(wire', i) = IF IsReply(Head(wire)) THEN 0 ELSE RepliesIn(wire, i + 1)
  BY <1>1, <1>2, RepliesTail DEF CallPart
<1>4. ~ IsReply(Head(wire))
  BY DEF IsReply
<1>5. ControlPart' /\ TracePart'
  BY DEF ControlPart, TracePart
<1>6. CallPart'
  <2>1. \A i \in 1..Len(wire') : i + 1 \in 1..Len(wire) /\ wire'[i] = wire[i + 1]
    BY <1>2
  <2> QED
    BY <1>2, <2>1 DEF CallPart
<1>7. ReadyPart'
  BY DEF ReadyPart
<1>8. QueuePart'
  <2> DEFINE e == Head(wire)
  <2>1. Len(events) \in Nat /\ handled \in Nat /\ Len(trace) \in Nat
    BY LenProperties DEF QueuePart, TracePart
  <2>2. RepliesIn(wire, 1) = 0
    BY <1>2, <1>4 DEF RepliesIn
  <2>3. IsEvent(trace, e, handled + Len(events) + 1 - RepliesIn(wire, 1))
    BY <1>2, <1>4 DEF QueuePart
  <2>4. IsEvent(trace, e, handled + Len(events) + 1)
    BY <2>1, <2>2, <2>3
  <2>5. e \in Message
    BY <1>1, HeadTailProperties
  <2>6. e.method \in callbacks
    <3>1. trace # <<>>
      BY <2>4, EmptySeq DEF IsEvent, TracePart
    <3>2. e.method \in AllMethods
      BY <1>4, <2>5 DEF Message, IsReply
    <3> QED
      BY <3>1, <3>2 DEF ReadyPart
  <2>7. Len(events) < EventCap /\ events' = Append(events, e)
    BY <2>6
  <2> HIDE DEF e
  <2>8. /\ events \in Seq(Message) /\ events' \in Seq(Message)
        /\ Len(events') = Len(events) + 1
        /\ \A i \in 1..Len(events) : events'[i] = events[i]
        /\ events'[Len(events) + 1] = e
    BY <2>5, <2>7, AppendProperties DEF QueuePart
  <2>9. Len(events') <= EventCap
    BY <2>1, <2>7, <2>8, DebuggerAssumption
  <2>10. ASSUME NEW i \in 1..Len(events') PROVE IsEvent(trace, events'[i], handled + i)
    <3>1. CASE i \in 1..Len(events)
      BY <2>8, <3>1 DEF QueuePart
    <3>2. CASE i = Len(events) + 1
      <4>1. handled + i = handled + Len(events) + 1
        BY <2>1, <3>2
      <4> QED
        BY <2>4, <2>8, <3>2, <4>1
    <3> QED
      BY <2>1, <2>8, <3>1, <3>2
  <2>11. ASSUME NEW i \in 1..Len(wire'), ~ IsReply(wire'[i])
         PROVE  IsEvent(trace, wire'[i], handled + Len(events') + i - RepliesIn(wire', i))
    <3>1. i + 1 \in 1..Len(wire) /\ ~ IsReply(wire[i + 1])
      BY <1>2, <2>11
    <3>2. IsEvent(trace, wire[i + 1], handled + Len(events) + (i + 1) - RepliesIn(wire, i + 1))
      BY <3>1 DEF QueuePart
    <3> DEFINE k == RepliesIn(wire, i + 1)
    <3>3. RepliesIn(wire', i) = k /\ k \in Int
      <4>1. i \in 0..Len(wire')
        BY <1>2
      <4>2. RepliesIn(wire', i) = k
        BY <1>3, <1>4, <4>1
      <4>3. k \in Int
        BY DEF RepliesIn
      <4> QED
        BY <4>2, <4>3
    <3> HIDE DEF k
    <3>4. handled + Len(events) + (i + 1) - k = handled + Len(events') + i - k
      BY <1>2, <2>1, <2>8, <3>3
    <3> QED
      BY <1>2, <3>2, <3>3, <3>4 DEF k
  <2>12. chrome = "up" =>
           handled + Len(events') + Len(wire') - RepliesIn(wire', Len(wire')) = Len(trace)
    <3>1. RepliesIn(wire', Len(wire')) = RepliesIn(wire, Len(wire))
      <4>1. Len(wire') \in 0..Len(wire') /\ Len(wire') + 1 = Len(wire)
        BY <1>2
      <4> QED
        BY <1>3, <1>4, <4>1
    <3>2. RepliesIn(wire, Len(wire)) \in {0, 1}
      BY DEF RepliesIn
    <3> QED
      BY <1>2, <2>1, <2>8, <3>1, <3>2 DEF QueuePart
  <2> QED
    BY <1>2, <2>8, <2>9, <2>10, <2>11, <2>12 DEF QueuePart, IsEvent
<1>9. CollectedPart' /\ SignalPart'
  BY DEF CollectedPart, SignalPart, Records
<1>10. SnapshotPart' /\ EarlyCookiesAttributed'
  BY DEF SnapshotPart, SnapshotTaken, Records, EarlyCookiesAttributed
<1> QED
  BY <1>5, <1>6, <1>7, <1>8, <1>9, <1>10

LEMMA ReadFailureStep ==
  ASSUME Inv, ReadFailure, UNCHANGED <<taskVars, browserVars, collectorVars, handled>>
  PROVE  ScanInv'
<1> USE DEF Inv, ScanInv, ReadFailure, taskVars, browserVars, collectorVars
<1>1. ControlPart'
  BY DEF ControlPart, Ended
<1>2. CallPart'
  BY DEF CallPart, Idle
<1>3. ReadyPart'
  BY DEF ReadyPart
<1>4. TracePart'
  BY DEF TracePart
<1>5. QueuePart'
  BY DEF QueuePart
<1>6. CollectedPart'
  BY DEF CollectedPart
<1>7. SignalPart'
  BY DEF SignalPart
<1>8. SnapshotPart'
  BY DEF SnapshotPart, SnapshotTaken, Ended
<1>9. EarlyCookiesAttributed'
  BY DEF EarlyCookiesAttributed, Ended
<1> QED
  BY <1>1, <1>2, <1>3, <1>4, <1>5, <1>6, <1>7, <1>8, <1>9

LEMMA ProcessEventStep ==
  ASSUME Inv, ProcessEvent
  PROVE  ScanInv'
<1> USE DEF Inv, ScanInv, browserVars
<1> DEFINE e == Head(events)
           n == handled + 1
<1>1. /\ events # <<>> /\ e \in {events[i] : i \in 1..Len(events)}
      /\ events' = Tail(events) /\ handled' = handled + 1
      /\ UNCHANGED <<chrome, wire, reader, callbacks, call, enabled, jar, trace>>
      /\ IF e.method \in NetworkMethods THEN NetworkCallback(e) ELSE LoadCallback(e)
  BY DEF ProcessEvent, NextEvent
<1>2. /\ Len(events) \in Nat /\ Len(events) > 0 /\ e = events[1]
      /\ events' \in Seq(Message) /\ Len(events') = Len(events) - 1
      /\ \A i \in 1..Len(events') : events'[i] = events[i + 1]
  BY <1>1, HeadTailProperties, LenProperties, EmptySeq DEF QueuePart
<1>3. Len(trace) \in Nat /\ handled \in Nat /\ MaxEvents \in Nat /\ EventCap \in Nat
  BY LenProperties, ScanAssumption, DebuggerAssumption DEF TracePart, QueuePart
<1>4. IsEvent(trace, e, n)
  BY <1>2, <1>3 DEF QueuePart
<1>5. n \in 1..Len(trace) /\ e.method = trace[n].method /\ e.params = trace[n].params
  BY <1>4 DEF IsEvent
<1>6. trace[n] \in Emitted /\ trace[n].params.n = n
  BY <1>5, ElementOfSeq DEF TracePart
<1>7. UNCHANGED <<pc, domain, timer, pageWait, woke, report, snapshot>>
  BY <1>1 DEF NetworkCallback, LoadCallback, taskVars, collectorVars, RC!AddEvent
<1>8. ControlPart' /\ CallPart' /\ ReadyPart' /\ TracePart'
  BY <1>1, <1>7 DEF ControlPart, CallPart, ReadyPart, TracePart, Ended
<1>9. QueuePart'
  <2>1. ASSUME NEW i \in 1..Len(events') PROVE IsEvent(trace, events'[i], n + i)
    <3>1. i + 1 \in 1..Len(events) /\ n + i = handled + (i + 1)
      BY <1>2, <1>3
    <3> QED
      BY <1>2, <3>1 DEF QueuePart
  <2>2. handled' + Len(events') = handled + Len(events)
    BY <1>1, <1>2, <1>3
  <2>3. handled' \in 0..Len(trace) /\ Len(events') <= EventCap
    BY <1>1, <1>2, <1>3, <1>5 DEF QueuePart
  <2> QED
    BY <1>1, <1>2, <2>1, <2>2, <2>3 DEF QueuePart, IsEvent
<1>10. CollectedPart'
  <2> SUFFICES ASSUME NEW k \in 1..n, Tracked(trace[k])
               PROVE  \E r \in delivered' : r.reqID \in ReqIDs /\ Records(trace, r, k)
    BY <1>1 DEF CollectedPart, Records
  <2>1. delivered \subseteq delivered'
    BY <1>1 DEF NetworkCallback, LoadCallback, collectorVars, RC!AddEvent
  <2>2. CASE k \in 1..handled
    BY <2>1, <2>2 DEF CollectedPart
  <2>3. CASE k = n
    <3> DEFINE r == RC!NewRecord(e.method = "Network.requestWillBeSent",
                                 e.params.id, e.params.time, e.params.n)
    <3>1. Tracked(e) /\ e.method \in NetworkMethods
      BY <1>5, <2>3 DEF Tracked
    <3>2. r \in delivered'
      BY <1>1, <3>1 DEF NetworkCallback, RC!AddEvent
    <3>3. e.params.id \in ReqIDs
      BY <1>5, <1>6, <3>1 DEF Emitted, NetworkParams, NetworkMethods, LoadMethods
    <3>4. r.reqID \in ReqIDs /\ Records(trace, r, k)
      BY <1>5, <1>6, <2>3, <3>3 DEF Records, IsRequest, RC!NewRecord
    <3> QED
      BY <3>2, <3>4
  <2> QED
    BY <1>3, <2>2, <2>3
<1>11. SignalPart'
  <2>1. sleepers' \subseteq sleepers \cup {n}
    BY <1>1, <1>5, <1>6 DEF NetworkCallback, LoadCallback, taskVars
  <2>2. 0..handled \subseteq 0..handled' /\ 1..handled \subseteq 1..handled'
        /\ n \in 1..handled'
    BY <1>1, <1>3
  <2>3. pageWait' \in Seq(0..handled')
    BY <1>7, <2>2, SeqMonotonic DEF SignalPart
  <2> QED
    BY <1>7, <2>1, <2>2, <2>3 DEF SignalPart
<1>12. SnapshotPart' /\ EarlyCookiesAttributed'
  BY <1>1, <1>7 DEF SnapshotPart, SnapshotTaken, Records, EarlyCookiesAttributed
<1> QED
  BY <1>8, <1>9, <1>10, <1>11, <1>12

----------------------------------------------------------------------------
(* Steps of Chrome                                                        *)

LEMMA EmitStep ==
  ASSUME Inv, NEW method, NEW params, [method |-> method, params |-> params] \in Emitted,
         params.n = Len(trace) + 1, AllMethods \subseteq callbacks,
         EmitEvent(method, params), jar' \in [Cookies -> {"nobody", "http", "script"}]
  PROVE  ScanInv'
<1> USE DEF Inv, ScanInv
<1> DEFINE e == [method |-> method, params |-> params]
           m == [kind |-> "event", method |-> method, params |-> params]
           n == Len(trace) + 1
<1>1. /\ chrome = "up" /\ Len(trace) < MaxEvents
      /\ wire' = Append(wire, m) /\ trace' = Append(trace, e)
      /\ UNCHANGED <<chrome, reader, events, callbacks, call, enabled, pc, domain,
                     timer, sleepers, pageWait, woke, report, records, snapshot,
                     delivered, handled>>
  BY DEF EmitEvent, Emit, taskVars, collectorVars
<1>2. m \in Message /\ ~ IsReply(m)
  BY DEF Emitted, Message, IsReply, AllMethods, NetworkMethods, LoadMethods
<1>3. e \in Emitted /\ e.params.n = n
  OBVIOUS
<1>4. /\ Len(trace) \in Nat /\ trace' \in Seq(Emitted) /\ Len(trace') = n
      /\ \A k \in 1..Len(trace) : trace'[k] = trace[k]
      /\ trace'[n] = e
  BY <1>1, <1>3, AppendProperties, LenProperties DEF TracePart
<1>5. /\ Len(wire) \in Nat /\ wire' \in Seq(Message) /\ Len(wire') = Len(wire) + 1
      /\ \A i \in 1..Len(wire) : wire'[i] = wire[i]
      /\ wire'[Len(wire) + 1] = m
  BY <1>1, <1>2, AppendProperties, LenProperties DEF QueuePart
<1>6. /\ \A i \in 0..Len(wire) : RepliesIn(wire', i) = RepliesIn(wire, i)
      /\ RepliesIn(wire', Len(wire) + 1) = RepliesIn(wire, Len(wire))
  BY <1>1, <1>2, RepliesAppend DEF QueuePart
<1>7. m = [kind |-> "event", method |-> e.method, params |-> e.params]
  OBVIOUS
<1> HIDE DEF e, m
<1>8. ASSUME NEW x, NEW k, IsEvent(trace, x, k) PROVE IsEvent(trace', x, k)
  BY <1>4, <1>8 DEF IsEvent
<1>9. ControlPart' /\ ReadyPart'
  BY <1>1 DEF ControlPart, ReadyPart, Ended
<1>10. CallPart'
  <2>1. \A i \in 1..Len(wire') : IsReply(wire'[i]) => i \in 1..Len(wire) /\ IsReply(wire[i])
    BY <1>2, <1>5
  <2> QED
    BY <1>1, <2>1 DEF CallPart
<1>11. TracePart'
  <2>1. \A k \in 1..Len(trace') : trace'[k].params.n = k
    <3> SUFFICES ASSUME NEW k \in 1..n PROVE trace'[k].params.n = k
      BY <1>4
    <3>1. CASE k \in 1..Len(trace)
      BY <1>4, <3>1 DEF TracePart
    <3>2. CASE k = n
      BY <1>3, <1>4, <3>2
    <3> QED
      BY <1>4, <3>1, <3>2
  <2> QED
    BY <1>1, <1>4, <2>1, ScanAssumption DEF TracePart
<1>12. QueuePart'
  <2>1. Len(events) \in Nat /\ handled \in Nat
    BY LenProperties DEF QueuePart
  <2> DEFINE d == RepliesIn(wire, Len(wire))
  <2>2. d \in Int
    BY DEF RepliesIn
  <2>3. handled + Len(events) + Len(wire) - d = Len(trace)
    BY <1>1 DEF QueuePart
  <2> HIDE DEF d
  <2>4. handled + Len(events) + Len(wire') - d = n
    <3>1. Len(wire') = Len(wire) + 1 /\ Len(wire) \in Int /\ Len(trace) \in Int
      BY <1>4, <1>5
    <3> HIDE DEF n
    <3>2. n = Len(trace) + 1
      BY DEF n
    <3> QED
      BY <2>1, <2>2, <2>3, <3>1, <3>2
  <2>5. IsEvent(trace', m, n)
    BY <1>4, <1>7 DEF IsEvent
  <2>6. ASSUME NEW i \in 1..Len(wire'), ~ IsReply(wire'[i])
        PROVE  IsEvent(trace', wire'[i], handled + Len(events) + i - RepliesIn(wire', i))
    <3>1. CASE i \in 1..Len(wire)
      <4>1. wire'[i] = wire[i] /\ RepliesIn(wire', i) = RepliesIn(wire, i)
        BY <1>5, <1>6, <3>1
      <4>2. IsEvent(trace, wire[i], handled + Len(events) + i - RepliesIn(wire, i))
        BY <2>6, <3>1, <4>1 DEF QueuePart
      <4> QED
        BY <1>8, <4>1, <4>2
    <3>2. CASE i = Len(wire')
      <4>1. RepliesIn(wire', i) = d
        BY <1>5, <1>6, <3>2 DEF d
      <4> QED
        BY <1>5, <2>4, <2>5, <3>2, <4>1
    <3> QED
      BY <1>5, <3>1, <3>2
  <2>7. \A i \in 1..Len(events) : IsEvent(trace', events[i], handled + i)
    BY <1>8 DEF QueuePart
  <2>8. handled' + Len(events') + Len(wire') - RepliesIn(wire', Len(wire')) = Len(trace')
    BY <1>1, <1>4, <1>5, <1>6, <2>4 DEF d
  <2>9. handled' \in 0..Len(trace')
    BY <1>1, <1>4 DEF QueuePart
  <2> QED
    BY <1>1, <1>5, <2>6, <2>7, <2>8, <2>9 DEF QueuePart
<1>13. \A k \in 1..handled : k \in 1..Len(trace) /\ trace'[k] = trace[k]
  BY <1>4 DEF QueuePart
<1>14. CollectedPart'
  BY <1>1, <1>13 DEF CollectedPart, Records
<1>15. SignalPart'
  BY <1>1 DEF SignalPart
<1>16. \A k \in 1..woke : trace'[k] = trace[k]
  <2>1. \A k \in 1..woke : k \in 1..handled
    BY DEF SignalPart, QueuePart
  <2> QED
    BY <1>13, <2>1
<1>17. SnapshotPart'
  <2> SUFFICES ASSUME SnapshotTaken, NEW k \in 1..woke, Tracked(trace'[k])
               PROVE  \E id \in ReqIDs : \E r \in RC!ElementsOf(snapshot[id]) :
                        Records(trace', r, k)
    BY <1>1 DEF SnapshotPart, SnapshotTaken
  <2>1. Tracked(trace[k])
    BY <1>16
  <2>2. PICK id \in ReqIDs : \E r \in RC!ElementsOf(snapshot[id]) : Records(trace, r, k)
    BY <2>1 DEF SnapshotPart
  <2> QED
    BY <1>16, <2>2 DEF Records
<1>18. EarlyCookiesAttributed'
  <2>1. \A k \in 1..woke - 1 : k \in 1..woke
    BY DEF SignalPart, QueuePart
  <2> QED
    BY <1>1, <1>16, <2>1 DEF EarlyCookiesAttributed
<1> QED
  BY <1>9, <1>10, <1>11, <1>12, <1>14, <1>15, <1>17, <1>18

LEMMA NetworkEventStep ==
  ASSUME Inv, NEW method \in NetworkMethods, NEW id \in ReqIDs, NEW time \in Times,
         NEW data \in BOOLEAN, NEW cookie \in Cookies \cup {NoCookie},
         NetworkEvent(method, id, time, data, cookie)
  PROVE  ScanInv'
<1> DEFINE p == [n |-> Len(trace) + 1, id |-> id, time |-> time, data |-> data,
                 cookie |-> cookie]
<1>1. Len(trace) \in Nat
  BY LenProperties DEF Inv, ScanInv, TracePart
<1>2. [method |-> method, params |-> p] \in Emitted /\ p.n = Len(trace) + 1
  BY <1>1 DEF Emitted, NetworkParams, NetworkEvent
<1>3. AllMethods \subseteq callbacks
  BY DEF Inv, ScanInv, ReadyPart, NetworkEvent
<1>4. EmitEvent(method, p) /\ jar' \in [Cookies -> {"nobody", "http", "script"}]
  BY DEF NetworkEvent, Inv, ScanInv, ControlPart
<1> HIDE DEF p
<1> QED
  BY <1>2, <1>3, <1>4, EmitStep

LEMMA LoadEventStep ==
  ASSUME Inv, NEW method \in LoadMethods, LoadEvent(method)
  PROVE  ScanInv'
<1> DEFINE p == [n |-> Len(trace) + 1]
<1>1. Len(trace) \in Nat
  BY LenProperties DEF Inv, ScanInv, TracePart
<1>2. [method |-> method, params |-> p] \in Emitted /\ p.n = Len(trace) + 1
  BY <1>1 DEF Emitted, LoadParams
<1>3. AllMethods \subseteq callbacks
  BY DEF Inv, ScanInv, ReadyPart, LoadEvent
<1>4. EmitEvent(method, p) /\ jar' \in [Cookies -> {"nobody", "http", "script"}]
  BY DEF LoadEvent, Inv, ScanInv, ControlPart
<1> HIDE DEF p
<1> QED
  BY <1>2, <1>3, <1>4, EmitStep

LEMMA ScriptCookieStep ==
  ASSUME Inv, NEW c \in Cookies, ScriptCookie(c)
  PROVE  ScanInv'
<1> USE DEF Inv, ScanInv, ScriptCookie, debuggerVars, taskVars,
        collectorVars
<1>1. ControlPart'
  BY DEF ControlPart, Ended
<1>2. CallPart'
  BY DEF CallPart, Idle
<1>3. ReadyPart'
  BY DEF ReadyPart
<1>4. TracePart'
  BY DEF TracePart
<1>5. QueuePart'
  BY DEF QueuePart
<1>6. CollectedPart'
  BY DEF CollectedPart
<1>7. SignalPart'
  BY DEF SignalPart
<1>8. SnapshotPart'
  BY DEF SnapshotPart, SnapshotTaken, Ended
<1>9. EarlyCookiesAttributed'
  BY DEF EarlyCookiesAttributed, Ended
<1> QED
  BY <1>1, <1>2, <1>3, <1>4, <1>5, <1>6, <1>7, <1>8, <1>9

LEMMA ChromeGoneStep ==
  ASSUME Inv, ChromeGone, UNCHANGED <<taskVars, browserVars, collectorVars, handled>>
  PROVE  ScanInv'
<1> USE DEF Inv, ScanInv, ChromeGone, taskVars, browserVars, collectorVars
<1>1. PICK k \in 0..Len(wire) : wire' = SubSeq(wire, 1, k)
  OBVIOUS
<1>2. wire \in Seq(Message)
  BY DEF QueuePart
<1>3. /\ wire' \in Seq(Message) /\ Len(wire') = k
      /\ \A i \in 1..k : wire'[i] = wire[i] /\ RepliesIn(wire', i) = RepliesIn(wire, i)
  <2>1. \A i \in 1..k : i \in 0..k
    OBVIOUS
  <2> QED
    BY <1>1, <1>2, <2>1, RepliesPrefix
<1>4. \A i \in 1..k : i \in 1..Len(wire)
  BY <1>2, LenProperties
<1>5. ControlPart' /\ ReadyPart' /\ TracePart'
  BY DEF ControlPart, ReadyPart, TracePart, Ended
<1>6. CallPart'
  BY <1>3, <1>4 DEF CallPart
<1>7. QueuePart'
  BY <1>3, <1>4 DEF QueuePart, IsEvent
<1>8. CollectedPart' /\ SignalPart'
  BY DEF CollectedPart, SignalPart, Records
<1>9. SnapshotPart' /\ EarlyCookiesAttributed'
  BY DEF SnapshotPart, SnapshotTaken, Records, EarlyCookiesAttributed
<1> QED
  BY <1>5, <1>6, <1>7, <1>8, <1>9

LEMMA AnswerStep ==
  ASSUME Inv, Answer
  PROVE  ScanInv'
<1> USE DEF Inv, ScanInv
<1>1. PICK method, result : result \in Results /\ Reply(method, result)
  <2>1. CASE AnswerEnable
    BY <2>1 DEF AnswerEnable, Results
  <2>2. CASE AnswerCookies
    <3>1. NoResult \in Results
      BY DEF Results, NoResult
    <3>2. [ok |-> TRUE, cookies |-> {c \in Cookies : jar[c] # "nobody"}] \in Results
      BY DEF Results
    <3> QED
      BY <2>2, <3>1, <3>2 DEF AnswerCookies
  <2>3. CASE AnswerOther
    BY <2>3 DEF AnswerOther, Results
  <2> QED
    BY <2>1, <2>2, <2>3 DEF Answer
<1>2. UNCHANGED <<jar, trace, taskVars, collectorVars, handled>>
  BY DEF Answer, AnswerEnable, AnswerCookies, AnswerOther, browserVars
<1>3. CallPart' /\ QueuePart'
  BY <1>1, <1>2, ReplyKeepsQueue
<1>4. call.at = "sent" /\ UNCHANGED <<chrome, reader, events, callbacks>>
  BY <1>1 DEF Reply
<1> USE <1>2 DEF taskVars, collectorVars
<1>5. ControlPart' /\ TracePart'
  BY <1>4 DEF ControlPart, TracePart, Ended
<1>6. ReadyPart'
  BY <1>4 DEF ReadyPart
<1>7. CollectedPart' /\ SignalPart'
  BY DEF CollectedPart, SignalPart, Records
<1>8. SnapshotPart' /\ EarlyCookiesAttributed'
  BY DEF SnapshotPart, SnapshotTaken, Records, EarlyCookiesAttributed
<1> QED
  BY <1>3, <1>5, <1>6, <1>7, <1>8
----------------------------------------------------------------------------
(* The invariant                                                           *)

LEMMA ScanInit == Init => Inv
<1> SUFFICES ASSUME Init PROVE Inv
  OBVIOUS
<1>1. \A S : <<>> \in Seq(S) /\ Len(<<>>) = 0
  BY EmptySeq
<1>2. Len(Domains) \in Nat \ {0}
  BY ScanAssumption, EmptySeq
<1> USE DEF Init, DebuggerInit
<1>3. ControlPart
  BY <1>2 DEF ControlPart
<1>4. CallPart
  <2>1. Len(wire) = 0
    BY <1>1
  <2>2. Idle = [at |-> Idle.at, method |-> Idle.method, result |-> Idle.result]
    BY Zenon DEF Idle
  <2>3. Idle.at = "idle"
    BY Zenon DEF Idle
  <2>4. call = Idle
    OBVIOUS
  <2>5. \A i \in 1..Len(wire) : FALSE
    BY <2>1
  <2> QED
    BY <2>2, <2>3, <2>4, <2>5 DEF CallPart
<1>5. ReadyPart
  BY DEF ReadyPart, Idle
<1>6. TracePart
  BY <1>1, ScanAssumption DEF TracePart
<1>7. QueuePart
  <2>1. RepliesIn(wire, 0) = 0
    BY DEF RepliesIn
  <2> QED
    BY <1>1, <2>1, DebuggerAssumption DEF QueuePart
<1>8. CollectedPart
  BY DEF CollectedPart
<1>9. SignalPart
  BY <1>1 DEF SignalPart
<1>10. SnapshotPart /\ EarlyCookiesAttributed
  BY DEF SnapshotPart, SnapshotTaken, EarlyCookiesAttributed
<1>11. RP!CollectorInv
  <2>1. RP!Init
    BY DEF RC!Init, RP!Init
  <2> QED
    BY <2>1, RP!CollectorInit, CollectorAssumed
<1> QED
  BY <1>3, <1>4, <1>5, <1>6, <1>7, <1>8, <1>9, <1>10, <1>11 DEF Inv, ScanInv

LEMMA ScanStep == Inv /\ Scan => ScanInv'
BY RejectURLStep, RegisterStep, EnableDomainStep, DomainEnabledStep, NavigateStep,
   NavigatedStep, EndWaitStep, TakeSnapshotStep, GetAllCookiesStep,
   CookiesReceivedStep, CaptureScreenshotStep, ScreenshotTakenStep
   DEF Scan

LEMMA BrowserStep == Inv /\ Browser => ScanInv'
<1> SUFFICES ASSUME Inv, Browser PROVE ScanInv'
  OBVIOUS
<1>1. CASE \E method \in NetworkMethods, id \in ReqIDs, time \in Times,
             data \in BOOLEAN, cookie \in Cookies \cup {NoCookie} :
             NetworkEvent(method, id, time, data, cookie)
  BY <1>1, NetworkEventStep
<1>2. CASE \E method \in LoadMethods : LoadEvent(method)
  BY <1>2, LoadEventStep
<1>3. CASE \E c \in Cookies : ScriptCookie(c)
  BY <1>3, ScriptCookieStep
<1>4. CASE ChromeGone /\ UNCHANGED <<taskVars, browserVars, collectorVars, handled>>
  BY <1>4, ChromeGoneStep
<1> QED
  BY <1>1, <1>2, <1>3, <1>4 DEF Browser

LEMMA ReaderStep == Inv /\ Reader => ScanInv'
BY ReadReplyStep, ReadEventStep, ReadFailureStep DEF Reader

LEMMA StutterStep == Inv /\ UNCHANGED vars => ScanInv'
<1> SUFFICES ASSUME Inv, UNCHANGED vars PROVE ScanInv'
  OBVIOUS
<1> USE DEF Inv, ScanInv, vars, debuggerVars, taskVars, browserVars, collectorVars
<1>1. ControlPart' /\ CallPart' /\ ReadyPart' /\ TracePart'
  BY DEF ControlPart, CallPart, ReadyPart, TracePart
<1>2. QueuePart' /\ CollectedPart' /\ SignalPart'
  BY DEF QueuePart, CollectedPart, SignalPart
<1>3. SnapshotPart' /\ EarlyCookiesAttributed'
  BY DEF SnapshotPart, SnapshotTaken, EarlyCookiesAttributed
<1> QED
  BY <1>1, <1>2, <1>3

LEMMA ScanNext == Inv /\ [Next]_vars => ScanInv'
BY ScanStep, TimerFiresStep, SleepEndsStep, ReaderStep, ProcessEventStep, BrowserStep,
   AnswerStep, StutterStep
   DEF Next

(* Every step uses the collector as its contract says, or not at all.      *)
LEMMA CollectorStep == ScanInv /\ [Next]_vars => [RC!Next]_(RC!collectorVars)
<1> SUFFICES ASSUME ScanInv, [Next]_vars PROVE [RC!Next]_(RC!collectorVars)
  OBVIOUS
<1>1. CASE TakeSnapshot
  BY <1>1 DEF TakeSnapshot, RC!Next
<1>2. CASE ProcessEvent
  <2>1. PICK ev \in {events[i] : i \in 1..Len(events)} :
          IF ev.method \in NetworkMethods THEN NetworkCallback(ev) ELSE LoadCallback(ev)
    BY <1>2 DEF ProcessEvent
  <2>2. CASE UNCHANGED collectorVars
    BY <2>2 DEF collectorVars, RC!collectorVars
  <2>3. CASE /\ ev.method \in NetworkMethods
             /\ RC!AddEvent(RC!NewRecord(ev.method = "Network.requestWillBeSent",
                              ev.params.id, ev.params.time, ev.params.n))
    <3>1. PICK i \in 1..Len(events) : ev = events[i]
      OBVIOUS
    <3> DEFINE n == handled + i
    <3>2. IsEvent(trace, ev, n)
      BY <3>1 DEF ScanInv, QueuePart
    <3>3. n \in 1..Len(trace) /\ ev.method = trace[n].method /\ ev.params = trace[n].params
      BY <3>2 DEF IsEvent
    <3>4. trace[n] \in Emitted /\ trace[n].params.n = n
      BY <3>3, ElementOfSeq DEF ScanInv, TracePart
    <3>5. ev.params.id \in ReqIDs /\ ev.params.time \in Times
      BY <2>3, <3>3, <3>4 DEF Emitted, NetworkParams, NetworkMethods, LoadMethods
    <3>6. n \in 1..MaxEvents
      BY <3>3, ScanAssumption, LenProperties DEF ScanInv, TracePart
    <3>7. ev.params.n \in 1..MaxEvents
      BY <3>3, <3>4, <3>6
    <3>8. RC!Next
      BY <2>3, <3>5, <3>7 DEF RC!Next
    <3> QED
      BY <3>8
  <2> QED
    BY <2>1, <2>2, <2>3 DEF NetworkCallback, LoadCallback
<1>3. CASE ~ TakeSnapshot /\ ~ ProcessEvent
  <2>1. UNCHANGED collectorVars
    <3> USE <1>3 DEF Next, vars
    <3>1. CASE Scan
      BY <3>1 DEF Scan, RejectURL, Register, EnableDomain, DomainEnabled, Navigate,
           Navigated, EndWait, GetAllCookies, CookiesReceived, CaptureScreenshot,
           ScreenshotTaken
    <3>2. CASE TimerFires \/ (\E n \in sleepers : SleepEnds(n)) \/ Reader
      BY <3>2 DEF TimerFires, SleepEnds, Reader
    <3>3. CASE Browser
      BY <3>3 DEF Browser, NetworkEvent, LoadEvent, EmitEvent, ScriptCookie
    <3>4. CASE Answer
      BY <3>4 DEF Answer, AnswerEnable, AnswerCookies, AnswerOther
    <3>5. CASE UNCHANGED vars
      BY <3>5
    <3> QED
      BY <3>1, <3>2, <3>3, <3>4, <3>5
  <2> QED
    BY <2>1 DEF collectorVars, RC!collectorVars
<1> QED
  BY <1>1, <1>2, <1>3

LEMMA InvNext == Inv /\ [Next]_vars => Inv'
<1> SUFFICES ASSUME Inv, [Next]_vars PROVE Inv'
  OBVIOUS
<1>1. ScanInv'
  BY ScanNext
<1>2. [RP!Next]_(RP!collectorVars)
  BY CollectorStep, SameNext DEF Inv
<1>3. RP!CollectorInv'
  BY <1>2, RP!CollectorNext, CollectorAssumed DEF Inv
<1> QED
  BY <1>1, <1>3 DEF Inv

THEOREM ScanInvariant == Spec => []Inv
BY ScanInit, InvNext, PTL DEF Spec

----------------------------------------------------------------------------
(* What the invariant gives                                                *)

(* The scan's state keeps its type.                                        *)
THEOREM ScanTypeOK == Spec => []TypeOK
<1>1. ASSUME Inv PROVE TypeOK
  <2> USE <1>1 DEF Inv, ScanInv
  <2>1. Len(trace) \in Nat
    BY LenProperties DEF TracePart
  <2>2. \A i \in 1..Len(wire) : wire[i].kind \in {"event", "reply"}
    BY ElementOfSeq DEF QueuePart, Message
  <2>3. \A i \in 1..Len(events) : events[i].kind = "event"
    <3> SUFFICES ASSUME NEW i \in 1..Len(events) PROVE events[i].kind = "event"
      OBVIOUS
    <3>1. IsEvent(trace, events[i], handled + i)
      BY DEF QueuePart
    <3> QED
      BY <3>1 DEF IsEvent
  <2>4. DebuggerTypeOK
    BY <2>2, <2>3 DEF DebuggerTypeOK, ControlPart, CallPart, QueuePart
  <2>5. sleepers \subseteq 1..Len(trace) /\ woke \in 0..Len(trace)
    BY <2>1 DEF SignalPart, QueuePart
  <2> QED
    BY <2>4, <2>5 DEF TypeOK, ControlPart, SignalPart, QueuePart
<1> QED
  BY <1>1, ScanInvariant, PTL

(* On a socket with at most one reply, counting events is counting         *)
(* messages and leaving out the reply.                                     *)
LEMMA EventsCounted ==
  ASSUME Inv, NEW k \in 0..Len(wire)
  PROVE  EventsUpTo(k) = k - RepliesIn(wire, k)
<1> DEFINE E == {i \in 1..k : wire[i].kind = "event"}
<1>1. k \in Nat /\ \A i \in 1..k : i \in 1..Len(wire)
  BY LenProperties DEF Inv, ScanInv, QueuePart
<1>2. \A i \in 1..k : wire[i] \in Message
  BY <1>1, ElementOfSeq DEF Inv, ScanInv, QueuePart
<1>3. \A i \in 1..k : i \in E <=> ~ IsReply(wire[i])
  BY <1>2 DEF Message, IsReply
<1>4. IsFiniteSet(1..k) /\ Cardinality(1..k) = k
  BY <1>1, FS_Interval
<1>5. CASE \A i \in 1..k : ~ IsReply(wire[i])
  <2>1. E = 1..k
    BY <1>3, <1>5
  <2>2. RepliesIn(wire, k) = 0
    BY <1>5 DEF RepliesIn
  <2>3. EventsUpTo(k) = k
    BY <1>4, <2>1 DEF EventsUpTo
  <2> QED
    BY <1>1, <2>2, <2>3
<1>6. CASE \E i \in 1..k : IsReply(wire[i])
  <2>1. PICK i \in 1..k : IsReply(wire[i])
    BY <1>6
  <2>2. \A j \in 1..k : IsReply(wire[j]) => j = i
    BY <1>1, <2>1 DEF Inv, ScanInv, CallPart
  <2>3. E = (1..k) \ {i}
    BY <1>3, <2>1, <2>2
  <2>4. Cardinality((1..k) \ {i}) = k - 1
    BY <1>4, <2>1, FS_RemoveElement
  <2>5. RepliesIn(wire, k) = 1
    BY <1>6 DEF RepliesIn
  <2>6. EventsUpTo(k) = k - 1
    BY <2>3, <2>4 DEF EventsUpTo
  <2> QED
    BY <2>5, <2>6
<1> QED
  BY <1>5, <1>6

(***************************************************************************)
(* From Chrome to the callbacks no event is lost or overtaken, however the *)
(* queue fills and whatever replies are in between.                        *)
(***************************************************************************)
THEOREM ScanNoEventLost == Spec => []NoEventLost
<1>1. ASSUME Inv PROVE NoEventLost
  <2> USE <1>1 DEF Inv, ScanInv
  <2>1. /\ Len(events) \in Nat /\ Len(wire) \in Nat /\ Len(trace) \in Nat
        /\ handled \in Nat
    BY LenProperties DEF QueuePart, TracePart
  <2>2. ASSUME NEW i \in 1..Len(events) PROVE events[i].params.n = handled + i
    <3>1. IsEvent(trace, events[i], handled + i)
      BY DEF QueuePart
    <3> QED
      BY <3>1 DEF IsEvent, TracePart
  <2>3. ASSUME NEW i \in 1..Len(wire), wire[i].kind = "event"
        PROVE  wire[i].params.n = handled + Len(events) + EventsUpTo(i)
    <3> DEFINE d == RepliesIn(wire, i)
    <3>1. d \in Int
      BY DEF RepliesIn
    <3>2. EventsUpTo(i) = i - d
      BY EventsCounted, <2>1
    <3>3. IsEvent(trace, wire[i], handled + Len(events) + i - d)
      BY <2>3 DEF QueuePart, IsReply
    <3> HIDE DEF d
    <3>4. wire[i].params.n = handled + Len(events) + i - d
      BY <3>3 DEF IsEvent, TracePart
    <3> QED
      BY <2>1, <3>1, <3>2, <3>4
  <2>4. chrome = "up" => handled + Len(events) + EventsUpTo(Len(wire)) = Len(trace)
    <3> DEFINE d == RepliesIn(wire, Len(wire))
    <3>1. d \in Int
      BY DEF RepliesIn
    <3>2. EventsUpTo(Len(wire)) = Len(wire) - d
      BY EventsCounted, <2>1
    <3>3. chrome = "up" => handled + Len(events) + Len(wire) - d = Len(trace)
      BY DEF QueuePart
    <3> HIDE DEF d
    <3> QED
      BY <2>1, <3>1, <3>2, <3>3
  <2> QED
    BY <2>2, <2>3, <2>4 DEF NoEventLost
<1> QED
  BY <1>1, ScanInvariant, PTL

(***************************************************************************)
(* When a load event ends the wait, every earlier request and response is  *)
(* in the snapshot, for any number of events and signals.                  *)
(***************************************************************************)
THEOREM ScanLoadWake == Spec => []LoadWakeSeesEarlierTraffic
<1>1. ASSUME Inv PROVE LoadWakeSeesEarlierTraffic
  <2> SUFFICES ASSUME SnapshotTaken, woke > 0, NEW n \in 1..woke - 1, Tracked(trace[n])
               PROVE  InSnapshot(n)
    BY DEF LoadWakeSeesEarlierTraffic
  <2>1. n \in 1..woke
    BY <1>1 DEF Inv, ScanInv, SignalPart, QueuePart
  <2> QED
    BY <1>1, <2>1 DEF Inv, ScanInv, SnapshotPart, Records, InSnapshot
<1> QED
  BY <1>1, ScanInvariant, PTL

(* A cookie of a response before that load event is listed with it.        *)
THEOREM ScanEarlyCookies == Spec => []EarlyCookiesAttributed
<1>1. Inv => EarlyCookiesAttributed
  BY DEF Inv, ScanInv
<1> QED
  BY <1>1, ScanInvariant, PTL

(* What the scan does to its collector are the collector's own steps.      *)
LEMMA ScanUsesCollector == Spec => RC!Spec
<1>1. Init => RC!Init
  BY DEF Init
<1>2. Inv /\ [Next]_vars => [RC!Next]_(RC!collectorVars)
  BY CollectorStep DEF Inv
<1> QED
  BY <1>1, <1>2, ScanInvariant, PTL DEF Spec, RC!Spec

----------------------------------------------------------------------------
(* What the scan waits for                                                 *)

Asking == {"enable", "navigate", "cookies", "screenshot"}

(***************************************************************************)
(* NothingAwaitedIsLost speaks of the wait and of one reply.  The signal   *)
(* is ahead as soon as the timer is armed, a request is only outstanding   *)
(* where the scan asks, and the reader outlives Chrome.                    *)
(***************************************************************************)
AwaitPart ==
  /\ pc \in {"enable", "navigate", "wait"} => timer = "armed" \/ pageWait # <<>>
  /\ call.at # "idle" => pc \in Asking /\ call.method = Awaited
  /\ chrome = "up" => reader = "reading"
  /\ chrome = "up" /\ call.at = "answered" => \E i \in 1..Len(wire) : IsReply(wire[i])

LEMMA AwaitScan == AwaitPart /\ Scan => AwaitPart'
<1> SUFFICES ASSUME AwaitPart, Scan PROVE AwaitPart'
  OBVIOUS
<1>1. Idle.at = "idle"
  BY Zenon DEF Idle
<1> USE <1>1 DEF AwaitPart, Asking, GoTo, Return
<1>2. CASE RejectURL
  BY <1>2 DEF RejectURL, debuggerVars
<1>3. CASE Register
  BY <1>3 DEF Register
<1>4. CASE EnableDomain
  BY <1>4 DEF EnableDomain, SendRequest, taskVars, Awaited
<1>5. CASE DomainEnabled
  BY <1>5 DEF DomainEnabled, ReceiveReply
<1>6. CASE Navigate
  BY <1>6 DEF Navigate, SendRequest, taskVars, Awaited
<1>7. CASE Navigated
  BY <1>7 DEF Navigated, ReceiveReply
<1>8. CASE EndWait
  BY <1>8 DEF EndWait, debuggerVars
<1>9. CASE TakeSnapshot
  BY <1>9 DEF TakeSnapshot, debuggerVars
<1>10. CASE GetAllCookies
  BY <1>10 DEF GetAllCookies, SendRequest, taskVars, Awaited
<1>11. CASE CookiesReceived
  BY <1>11 DEF CookiesReceived, ReceiveReply
<1>12. CASE CaptureScreenshot
  BY <1>12 DEF CaptureScreenshot, SendRequest, taskVars, Awaited
<1>13. CASE ScreenshotTaken
  BY <1>13 DEF ScreenshotTaken, ReceiveReply
<1> QED
  BY <1>2, <1>3, <1>4, <1>5, <1>6, <1>7, <1>8, <1>9, <1>10, <1>11, <1>12, <1>13 DEF Scan

LEMMA AwaitSignal ==
  AwaitPart /\ (TimerFires \/ \E n \in sleepers : SleepEnds(n)) => AwaitPart'
<1> SUFFICES ASSUME AwaitPart, TimerFires \/ \E n \in sleepers : SleepEnds(n)
             PROVE  AwaitPart'
  OBVIOUS
<1>1. PICK n : Signal(n)
  BY DEF TimerFires, SleepEnds
<1>2. pageWait' # <<>>
  BY <1>1 DEF Signal
<1>3. UNCHANGED <<pc, domain, debuggerVars>>
  BY DEF TimerFires, SleepEnds
<1> QED
  BY <1>2, <1>3 DEF AwaitPart, Awaited, debuggerVars

LEMMA AwaitReader == Inv /\ AwaitPart /\ Reader => AwaitPart'
<1> SUFFICES ASSUME Inv, AwaitPart, Reader PROVE AwaitPart'
  OBVIOUS
<1>1. UNCHANGED <<chrome, pc, domain, timer, pageWait>> /\ Awaited' = Awaited
  BY DEF Reader, ReadReply, ReadEvent, ReadFailure, taskVars, Awaited
<1>2. CASE ReadFailure
  BY <1>1, <1>2 DEF ReadFailure, AwaitPart
<1>3. CASE ReadReply \/ ReadEvent
  <2>1. wire # <<>> /\ wire' = Tail(wire) /\ reader' = reader /\ wire \in Seq(Message)
    BY <1>3 DEF ReadReply, ReadEvent, Inv, ScanInv, QueuePart
  <2>2. /\ Len(wire) \in Nat /\ Len(wire) > 0 /\ Head(wire) = wire[1]
        /\ Len(wire') = Len(wire) - 1
        /\ \A i \in 1..Len(wire') : wire'[i] = wire[i + 1]
    BY <2>1, HeadTailProperties, EmptySeq
  <2>3. CASE ReadReply
    <3>1. call.at = "answered"
      BY <2>2, <2>3 DEF ReadReply, IsReply, Inv, ScanInv, CallPart
    <3>2. call' = [at |-> "received", method |-> call.method, result |-> Head(wire).result]
      BY <2>3 DEF ReadReply, Inv, ScanInv, CallPart
    <3> QED
      BY <1>1, <2>1, <3>1, <3>2 DEF AwaitPart
  <2>4. CASE ReadEvent
    <3>1. UNCHANGED call /\ ~ IsReply(wire[1])
      BY <2>2, <2>4 DEF ReadEvent, IsReply
    <3>2. ASSUME NEW i \in 1..Len(wire), IsReply(wire[i])
          PROVE  i - 1 \in 1..Len(wire') /\ IsReply(wire'[i - 1])
      BY <2>2, <3>1, <3>2
    <3> QED
      BY <1>1, <2>1, <3>1, <3>2 DEF AwaitPart
  <2> QED
    BY <1>3, <2>3, <2>4
<1> QED
  BY <1>2, <1>3 DEF Reader

LEMMA AwaitChrome == Inv /\ AwaitPart /\ (Browser \/ Answer) => AwaitPart'
<1> SUFFICES ASSUME Inv, AwaitPart, Browser \/ Answer PROVE AwaitPart'
  OBVIOUS
<1>1. UNCHANGED <<reader, pc, domain, timer, pageWait>>
  <2>1. CASE Browser
    <3>1. CASE \E method, params : EmitEvent(method, params)
      BY <3>1 DEF EmitEvent, Emit, taskVars
    <3>2. CASE \E c \in Cookies : ScriptCookie(c)
      BY <3>2 DEF ScriptCookie, debuggerVars, taskVars
    <3>3. CASE ChromeGone /\ UNCHANGED <<taskVars, browserVars, collectorVars, handled>>
      BY <3>3 DEF ChromeGone, taskVars
    <3> QED
      BY <2>1, <3>1, <3>2, <3>3 DEF Browser, NetworkEvent, LoadEvent
  <2>2. CASE Answer
    BY <2>2 DEF Answer, AnswerEnable, AnswerCookies, AnswerOther, Reply, taskVars
  <2> QED
    BY <2>1, <2>2
<1>2. Awaited' = Awaited
  BY <1>1 DEF Awaited
<1>3. \A m : /\ Len(Append(wire, m)) = Len(wire) + 1 /\ Append(wire, m)[Len(wire) + 1] = m
             /\ \A i \in 1..Len(wire) : Append(wire, m)[i] = wire[i]
  <2> SUFFICES ASSUME NEW m
               PROVE  /\ Len(Append(wire, m)) = Len(wire) + 1
                      /\ Append(wire, m)[Len(wire) + 1] = m
                      /\ \A i \in 1..Len(wire) : Append(wire, m)[i] = wire[i]
    OBVIOUS
  <2>1. wire \in Seq(Message \cup {m})
    BY SeqMonotonic DEF Inv, ScanInv, QueuePart
  <2> QED
    BY <2>1, AppendProperties
<1>4. Len(wire) \in Nat
  BY LenProperties DEF Inv, ScanInv, QueuePart
<1>5. CASE \E method, params : EmitEvent(method, params)
  <2>1. PICK m : wire' = Append(wire, m) /\ UNCHANGED <<chrome, call>>
    BY <1>5 DEF EmitEvent, Emit
  <2>2. \A i \in 1..Len(wire) : i \in 1..Len(wire') /\ wire'[i] = wire[i]
    BY <1>3, <1>4, <2>1
  <2> QED
    BY <1>1, <1>2, <2>1, <2>2 DEF AwaitPart
<1>6. CASE \E c \in Cookies : ScriptCookie(c)
  BY <1>1, <1>2, <1>6 DEF ScriptCookie, debuggerVars, AwaitPart
<1>7. CASE ChromeGone
  BY <1>1, <1>2, <1>7 DEF ChromeGone, AwaitPart
<1>8. CASE Answer
  <2>1. PICK method, result : Reply(method, result)
    BY <1>8 DEF Answer, AnswerEnable, AnswerCookies, AnswerOther
  <2>2. call.at # "idle" /\ call'.at # "idle" /\ call'.method = call.method
    BY <2>1 DEF Reply, Inv, ScanInv, CallPart
  <2>3. chrome' = chrome
    BY <2>1 DEF Reply
  <2>4. Len(wire) + 1 \in 1..Len(wire') /\ IsReply(wire'[Len(wire) + 1])
    BY <1>3, <1>4, <2>1 DEF Reply, IsReply
  <2>5. pc \in Asking /\ call.method = Awaited
    BY <2>2 DEF AwaitPart
  <2> QED
    BY <1>1, <1>2, <2>2, <2>3, <2>4, <2>5 DEF AwaitPart
<1> QED
  BY <1>5, <1>6, <1>7, <1>8 DEF Browser, NetworkEvent, LoadEvent

LEMMA AwaitNext == Inv /\ AwaitPart /\ [Next]_vars => AwaitPart'
<1>1. AwaitPart /\ ProcessEvent => AwaitPart'
  BY DEF AwaitPart, ProcessEvent, NextEvent, NetworkCallback, LoadCallback, taskVars, Awaited
<1>2. AwaitPart /\ UNCHANGED vars => AwaitPart'
  BY DEF AwaitPart, vars, debuggerVars, taskVars, Awaited
<1> QED
  BY <1>1, <1>2, AwaitScan, AwaitSignal, AwaitReader, AwaitChrome DEF Next

(***************************************************************************)
(* Whatever the order of timer, load signals, events and replies: the scan *)
(* never waits for something that has been lost.                           *)
(***************************************************************************)
THEOREM ScanNothingAwaitedIsLost == Spec => []NothingAwaitedIsLost
<1>1. Init => AwaitPart
  <2>1. Idle.at = "idle"
    BY Zenon DEF Idle
  <2> QED
    BY <2>1 DEF Init, DebuggerInit, AwaitPart
<1>2. Inv /\ AwaitPart => NothingAwaitedIsLost
  BY DEF AwaitPart, NothingAwaitedIsLost, IsReply
<1> QED
  BY <1>1, <1>2, AwaitNext, ScanInvariant, PTL DEF Spec

----------------------------------------------------------------------------
(* The scan and its collector together                                     *)

(***************************************************************************)
(* What the collector promises on its own it keeps when the scan uses it:  *)
(* the records of every request are in the order of time, every event      *)
(* delivered is recorded once, and the snapshot is a consistent cut.       *)
(***************************************************************************)
THEOREM ScanKeepsCollectorPromises ==
  Spec => [](RP!Chronological /\ RP!EveryEventOnce /\ RP!SnapshotIsConsistentCut)
<1>1. RC!Init => RP!Init
  BY DEF RC!Init, RP!Init
<1>2. RC!Spec => RP!Spec
  BY <1>1, SameNext, PTL DEF RC!Spec, RP!Spec
<1> QED
  BY <1>2, ScanUsesCollector, RP!CollectorChronological, RP!CollectorEveryEventOnce,
     RP!CollectorSnapshotCut, CollectorAssumed, PTL

============================================================================
