------------------------ MODULE DebuggerCloseProofs ------------------------
(***************************************************************************)
(* Proofs about module DebuggerClose, for any capacity of the queue, any   *)
(* number of events and a Chrome that may go or not: without a switch to   *)
(* another tab the queue of events is closed once and nobody sends to it   *)
(* afterwards, and with one only two readers at once can break that; a     *)
(* request is never left without the goroutines its reply needs, and no    *)
(* reader is left in a place it cannot leave.                              *)
(***************************************************************************)
EXTENDS DebuggerClose, SequenceTheorems, TLAPS

(* Nobody announces the end before Close has closed the channels, and no   *)
(* socket is dialled after it.                                             *)
ClosingPart ==
  /\ closed => pc \in {"hangup", "done"}
  /\ ~ closed =>
       /\ \A s \in Sockets : reader[s] \notin {"announce", "finish"}
       /\ ~ ended /\ ~ panicked
       /\ \A i \in 1..Len(events) : events[i] # "closed"

(* From then on one reader is left at most.                                *)
OneReader == \A s, t \in Alive : s = t

(* Once it has announced the end it closes the queue and is gone.          *)
EndPart ==
  /\ ~ panicked
  /\ ended => Alive = {}
  /\ \A i \in 1..Len(events) : events[i] = "closed" =>
       /\ i = Len(events)
       /\ ended \/ \E s \in Sockets : reader[s] = "finish"

(***************************************************************************)
(* QueueClosedOnce is about the queue alone; that it is kept depends on    *)
(* how many readers there are and where they are.                          *)
(***************************************************************************)
CloseInv ==
  /\ TypeOK
  /\ ClosingPart
  /\ closed /\ ~ late => OneReader /\ EndPart

LEMMA CloseInit == Init => CloseInv
<1> SUFFICES ASSUME Init PROVE CloseInv
  OBVIOUS
<1>1. \A S : <<>> \in Seq(S) /\ Len(<<>>) = 0
  BY EmptySeq
<1>2. TypeOK
  <2>1. wire \in [Sockets -> Seq({"event", "reply"})]
    BY <1>1 DEF Init
  <2>2. events \in Seq({"event", "closed"}) /\ Len(events) <= EventCap
    BY <1>1, CloseAssumption DEF Init
  <2>3. conn \in [Sockets -> {"none", "open", "us", "Chrome"}]
        /\ reader \in [Sockets -> {"none", "top", "read", "queue", "announce",
                                  "finish", "done"}]
    BY DEF Init
  <2>4. sent \in 0..MaxEvents
    BY CloseAssumption DEF Init
  <2>5. ws \in Sockets \cup {Nil} /\ old \in Sockets \cup {Nil}
    BY DEF Init, Sockets
  <2> QED
    BY <2>1, <2>2, <2>3, <2>4, <2>5 DEF Init, TypeOK
<1>3. ClosingPart
  BY <1>1 DEF Init, ClosingPart
<1> QED
  BY <1>2, <1>3 DEF Init, CloseInv

----------------------------------------------------------------------------
(* One lemma for each step                                                 *)

LEMMA ScanOverStep ==
  ASSUME CloseInv, ScanOver, ~ panicked
  PROVE  CloseInv'
<1> USE DEF CloseInv, ScanOver, Step, At, Put, main, chrome, queue, rest
<1>1. TypeOK'
  BY CloseAssumption DEF TypeOK, Sockets, Nil
<1>2. ClosingPart'
  BY DEF ClosingPart, TypeOK
<1>3. ASSUME closed', ~ late' PROVE OneReader'
  BY <1>3 DEF OneReader, Alive, ClosingPart, TypeOK
<1>4. ASSUME closed', ~ late' PROVE EndPart'
  BY <1>4 DEF EndPart, OneReader, Alive, ClosingPart, TypeOK
<1> QED
  BY <1>1, <1>2, <1>3, <1>4

LEMMA NewTabStep ==
  ASSUME CloseInv, NewTab, ~ panicked
  PROVE  CloseInv'
<1> USE DEF CloseInv, NewTab, Step, At, Put, main, chrome, queue, rest
<1>1. TypeOK'
  BY CloseAssumption DEF TypeOK, Sockets, Nil
<1>2. ClosingPart'
  BY DEF ClosingPart, TypeOK
<1>3. ASSUME closed', ~ late' PROVE OneReader'
  BY <1>3 DEF OneReader, Alive, ClosingPart, TypeOK
<1>4. ASSUME closed', ~ late' PROVE EndPart'
  BY <1>4 DEF EndPart, OneReader, Alive, ClosingPart, TypeOK
<1> QED
  BY <1>1, <1>2, <1>3, <1>4

LEMMA CloseSocketStep ==
  ASSUME CloseInv, CloseSocket, ~ panicked
  PROVE  CloseInv'
<1> USE DEF CloseInv, CloseSocket, Step, At, Put, main, chrome, queue, rest
<1>1. TypeOK'
  <2>0. wire' \in [Sockets -> Seq({"event", "reply"})]
    <3>1. ASSUME NEW q \in Seq({"event", "reply"}), NEW n \in Nat, n <= Len(q)
          PROVE  SubSeq(q, 1, n) \in Seq({"event", "reply"})
      <4>1. \A i \in 1..n : q[i] \in {"event", "reply"}
        BY <3>1, ElementOfSeq, LenProperties
      <4> QED
        BY <4>1, SubSeqProperties
    <3>2. wire \in [Sockets -> Seq({"event", "reply"})]
      BY DEF TypeOK
    <3>3. PICK n \in 0..Len(wire[old]) : wire' = [wire EXCEPT ![old] = SubSeq(@, 1, n)]
      OBVIOUS
    <3>4. ASSUME old \in Sockets PROVE SubSeq(wire[old], 1, n) \in Seq({"event", "reply"})
      <4>1. Len(wire[old]) \in Nat
        BY <3>2, <3>4, LenProperties
      <4>2. n \in Nat /\ n <= Len(wire[old])
        BY <4>1
      <4> QED
        BY <3>1, <3>2, <3>4, <4>2
    <3> QED
      BY <3>2, <3>3, <3>4
  <2> QED
    BY <2>0, CloseAssumption DEF TypeOK, Sockets, Nil
<1>2. ClosingPart'
  BY DEF ClosingPart, TypeOK
<1>3. ASSUME closed', ~ late' PROVE OneReader'
  BY <1>3 DEF OneReader, Alive, ClosingPart, TypeOK
<1>4. ASSUME closed', ~ late' PROVE EndPart'
  BY <1>4 DEF EndPart, OneReader, Alive, ClosingPart, TypeOK
<1> QED
  BY <1>1, <1>2, <1>3, <1>4

LEMMA DialStep ==
  ASSUME CloseInv, Dial, ~ panicked
  PROVE  CloseInv'
<1> USE DEF CloseInv, Dial, Step, At, Put, main, chrome, queue, rest
<1>1. TypeOK'
  BY CloseAssumption DEF TypeOK, Sockets, Nil
<1>2. ClosingPart'
  BY DEF ClosingPart, TypeOK
<1>3. ASSUME closed', ~ late' PROVE OneReader'
  BY <1>3 DEF OneReader, Alive, ClosingPart, TypeOK
<1>4. ASSUME closed', ~ late' PROVE EndPart'
  BY <1>4 DEF EndPart, OneReader, Alive, ClosingPart, TypeOK
<1> QED
  BY <1>1, <1>2, <1>3, <1>4

LEMMA ActivateTabStep ==
  ASSUME CloseInv, ActivateTab, ~ panicked
  PROVE  CloseInv'
<1> USE DEF CloseInv, ActivateTab, Step, At, Put, main, chrome, queue, rest
<1>1. TypeOK'
  BY CloseAssumption DEF TypeOK, Sockets, Nil
<1>2. ClosingPart'
  BY DEF ClosingPart, TypeOK
<1>3. ASSUME closed', ~ late' PROVE OneReader'
  BY <1>3 DEF OneReader, Alive, ClosingPart, TypeOK
<1>4. ASSUME closed', ~ late' PROVE EndPart'
  BY <1>4 DEF EndPart, OneReader, Alive, ClosingPart, TypeOK
<1> QED
  BY <1>1, <1>2, <1>3, <1>4

LEMMA AskStep ==
  ASSUME CloseInv, Ask, ~ panicked
  PROVE  CloseInv'
<1> USE DEF CloseInv, Ask, Step, At, Put, main, chrome, queue, rest
<1>1. TypeOK'
  BY CloseAssumption DEF TypeOK, Sockets, Nil
<1>2. ClosingPart'
  BY DEF ClosingPart, TypeOK
<1>3. ASSUME closed', ~ late' PROVE OneReader'
  BY <1>3 DEF OneReader, Alive, ClosingPart, TypeOK
<1>4. ASSUME closed', ~ late' PROVE EndPart'
  BY <1>4 DEF EndPart, OneReader, Alive, ClosingPart, TypeOK
<1> QED
  BY <1>1, <1>2, <1>3, <1>4

LEMMA ReceiveStep ==
  ASSUME CloseInv, Receive, ~ panicked
  PROVE  CloseInv'
<1> USE DEF CloseInv, Receive, Step, At, Put, main, chrome, queue, rest
<1>1. TypeOK'
  BY CloseAssumption DEF TypeOK, Sockets, Nil
<1>2. ClosingPart'
  BY DEF ClosingPart, TypeOK
<1>3. ASSUME closed', ~ late' PROVE OneReader'
  BY <1>3 DEF OneReader, Alive, ClosingPart, TypeOK
<1>4. ASSUME closed', ~ late' PROVE EndPart'
  BY <1>4 DEF EndPart, OneReader, Alive, ClosingPart, TypeOK
<1> QED
  BY <1>1, <1>2, <1>3, <1>4

LEMMA AskNobodyStep ==
  ASSUME CloseInv, AskNobody, ~ panicked
  PROVE  CloseInv'
<1> USE DEF CloseInv, AskNobody, Step, At, Put, main, chrome, queue, rest
<1>1. TypeOK'
  BY CloseAssumption DEF TypeOK, Sockets, Nil
<1>2. ClosingPart'
  BY DEF ClosingPart, TypeOK
<1>3. ASSUME closed', ~ late' PROVE OneReader'
  BY <1>3 DEF OneReader, Alive, ClosingPart, TypeOK
<1>4. ASSUME closed', ~ late' PROVE EndPart'
  BY <1>4 DEF EndPart, OneReader, Alive, ClosingPart, TypeOK
<1> QED
  BY <1>1, <1>2, <1>3, <1>4

LEMMA CloseStep ==
  ASSUME CloseInv, Close, ~ panicked
  PROVE  CloseInv'
<1> USE DEF CloseInv, Close, Step, At, Put, main, chrome, queue, rest
<1>1. TypeOK'
  BY CloseAssumption DEF TypeOK, Sockets, Nil
<1>2. ClosingPart'
  BY DEF ClosingPart, TypeOK
<1>3. ASSUME closed', ~ late' PROVE OneReader'
  BY <1>3 DEF OneReader, Alive, ClosingPart, TypeOK
<1>4. ASSUME closed', ~ late' PROVE EndPart'
  BY <1>4 DEF EndPart, OneReader, Alive, ClosingPart, TypeOK
<1> QED
  BY <1>1, <1>2, <1>3, <1>4

LEMMA CloseChannelsStep ==
  ASSUME CloseInv, CloseChannels, ~ panicked
  PROVE  CloseInv'
<1> USE DEF CloseInv, CloseChannels, Step, At, Put, main, chrome, queue, rest
<1>1. TypeOK'
  BY CloseAssumption DEF TypeOK, Sockets, Nil
<1>2. ClosingPart'
  BY DEF ClosingPart, TypeOK
<1>3. ASSUME closed', ~ late' PROVE OneReader'
  <2>1. Alive' = Alive
    BY DEF Alive
  <2>2. Alive \ {old} = {}
    BY <1>3
  <2> QED
    BY <2>1, <2>2 DEF OneReader
<1>4. ASSUME closed', ~ late' PROVE EndPart'
  BY <1>4 DEF EndPart, OneReader, Alive, ClosingPart, TypeOK
<1> QED
  BY <1>1, <1>2, <1>3, <1>4

LEMMA SendMessagesStep ==
  ASSUME CloseInv, SendMessages, ~ panicked
  PROVE  CloseInv'
<1> USE DEF CloseInv, SendMessages, Step, At, Put, main, chrome, queue, rest
<1>1. TypeOK'
  BY CloseAssumption DEF TypeOK, Sockets, Nil
<1>2. ClosingPart'
  BY DEF ClosingPart, TypeOK
<1>3. ASSUME closed', ~ late' PROVE OneReader'
  BY <1>3 DEF OneReader, Alive, ClosingPart, TypeOK
<1>4. ASSUME closed', ~ late' PROVE EndPart'
  BY <1>4 DEF EndPart, OneReader, Alive, ClosingPart, TypeOK
<1> QED
  BY <1>1, <1>2, <1>3, <1>4

LEMMA ProcessEventsStep ==
  ASSUME CloseInv, ProcessEvents, ~ panicked
  PROVE  CloseInv'
<1> USE DEF CloseInv, ProcessEvents, Step, At, Put, main, chrome, queue, rest
<1>1. TypeOK'
  <2>1. events # <<>> =>
          /\ Tail(events) \in Seq({"event", "closed"})
          /\ Len(Tail(events)) = Len(events) - 1
          /\ \A i \in 1..Len(Tail(events)) : Tail(events)[i] = events[i + 1]
    BY HeadTailProperties DEF TypeOK
  <2>2. Len(events) \in Nat
    BY LenProperties DEF TypeOK
  <2>3. events' = events \/ (events # <<>> /\ events' = Tail(events))
    OBVIOUS
  <2>4. events' \in Seq({"event", "closed"}) /\ Len(events') <= EventCap
    <3>1. CASE events' = events
      BY <3>1 DEF TypeOK
    <3>2. CASE events # <<>> /\ events' = Tail(events)
      <4>1. Len(events) - 1 <= EventCap
        BY <2>2, CloseAssumption DEF TypeOK
      <4> QED
        BY <2>1, <3>2, <4>1
    <3> QED
      BY <2>3, <3>1, <3>2
  <2> QED
    BY <2>4 DEF TypeOK
<1>2. ClosingPart'
  <2>1. events # <<>> =>
          /\ Tail(events) \in Seq({"event", "closed"})
          /\ Len(Tail(events)) = Len(events) - 1
          /\ \A i \in 1..Len(Tail(events)) : Tail(events)[i] = events[i + 1]
    BY HeadTailProperties DEF TypeOK
  <2>2. Len(events) \in Nat
    BY LenProperties DEF TypeOK
  <2>3. events' = events \/ (events # <<>> /\ events' = Tail(events))
    OBVIOUS
  <2>4. ~ closed => \A i \in 1..Len(events') : events'[i] # "closed"
    BY <2>1, <2>2, <2>3 DEF ClosingPart
  <2> QED
    BY <2>4 DEF ClosingPart
<1>3. ASSUME closed', ~ late' PROVE OneReader'
  BY <1>3 DEF OneReader, Alive, ClosingPart, TypeOK
<1>4. ASSUME closed', ~ late' PROVE EndPart'
  <2>1. events # <<>> =>
          /\ Tail(events) \in Seq({"event", "closed"})
          /\ Len(Tail(events)) = Len(events) - 1
          /\ \A i \in 1..Len(Tail(events)) : Tail(events)[i] = events[i + 1]
    BY HeadTailProperties DEF TypeOK
  <2>2. Len(events) \in Nat
    BY LenProperties DEF TypeOK
  <2>3. events' = events \/ (events # <<>> /\ events' = Tail(events))
    OBVIOUS
  <2>4. EndPart
    BY <1>4
  <2>5. \A i \in 1..Len(events') : events'[i] = "closed" =>
          i = Len(events') /\ \E j \in 1..Len(events) : events[j] = "closed"
    BY <2>1, <2>2, <2>3, <2>4 DEF EndPart
  <2> QED
    BY <2>4, <2>5 DEF EndPart, Alive
<1> QED
  BY <1>1, <1>2, <1>3, <1>4

LEMMA EmitStep ==
  ASSUME CloseInv, Emit, ~ panicked
  PROVE  CloseInv'
<1> USE DEF CloseInv, Emit, Step, At, Put, main, chrome, queue, rest
<1>1. TypeOK'
  <2>0. wire' \in [Sockets -> Seq({"event", "reply"})]
    <3>1. wire \in [Sockets -> Seq({"event", "reply"})]
      BY DEF TypeOK
    <3>2. Append(wire[1], "event") \in Seq({"event", "reply"})
      BY <3>1, AppendProperties DEF Sockets
    <3> QED
      BY <3>1, <3>2
  <2> QED
    BY <2>0, CloseAssumption DEF TypeOK, Sockets, Nil
<1>2. ClosingPart'
  BY DEF ClosingPart, TypeOK
<1>3. ASSUME closed', ~ late' PROVE OneReader'
  BY <1>3 DEF OneReader, Alive, ClosingPart, TypeOK
<1>4. ASSUME closed', ~ late' PROVE EndPart'
  BY <1>4 DEF EndPart, OneReader, Alive, ClosingPart, TypeOK
<1> QED
  BY <1>1, <1>2, <1>3, <1>4

LEMMA AnswerStep ==
  ASSUME CloseInv, Answer, ~ panicked
  PROVE  CloseInv'
<1> USE DEF CloseInv, Answer, Step, At, Put, main, chrome, queue, rest
<1>1. TypeOK'
  <2>0. wire' \in [Sockets -> Seq({"event", "reply"})]
    <3>1. wire \in [Sockets -> Seq({"event", "reply"})]
      BY DEF TypeOK
    <3>2. ws \in Sockets => Append(wire[ws], "reply") \in Seq({"event", "reply"})
      BY <3>1, AppendProperties
    <3> QED
      BY <3>1, <3>2
  <2> QED
    BY <2>0, CloseAssumption DEF TypeOK, Sockets, Nil
<1>2. ClosingPart'
  BY DEF ClosingPart, TypeOK
<1>3. ASSUME closed', ~ late' PROVE OneReader'
  BY <1>3 DEF OneReader, Alive, ClosingPart, TypeOK
<1>4. ASSUME closed', ~ late' PROVE EndPart'
  BY <1>4 DEF EndPart, OneReader, Alive, ClosingPart, TypeOK
<1> QED
  BY <1>1, <1>2, <1>3, <1>4

LEMMA ChromeEndsStep ==
  ASSUME CloseInv, ChromeEnds, ~ panicked
  PROVE  CloseInv'
<1> USE DEF CloseInv, ChromeEnds, Step, At, Put, main, chrome, queue, rest
<1>1. TypeOK'
  <2>0. wire' \in [Sockets -> Seq({"event", "reply"})]
    <3>1. ASSUME NEW q \in Seq({"event", "reply"}), NEW n \in Nat, n <= Len(q)
          PROVE  SubSeq(q, 1, n) \in Seq({"event", "reply"})
      <4>1. \A i \in 1..n : q[i] \in {"event", "reply"}
        BY <3>1, ElementOfSeq, LenProperties
      <4> QED
        BY <4>1, SubSeqProperties
    <3>2. wire \in [Sockets -> Seq({"event", "reply"})]
      BY DEF TypeOK
    <3>3. CASE UNCHANGED wire
      BY <3>2, <3>3
    <3>4. CASE \E n \in 0..MaxEvents :
                 wire' = [s \in Sockets |->
                            IF n < Len(wire[s]) THEN SubSeq(wire[s], 1, n) ELSE wire[s]]
      <4>1. PICK n \in 0..MaxEvents :
              wire' = [s \in Sockets |->
                         IF n < Len(wire[s]) THEN SubSeq(wire[s], 1, n) ELSE wire[s]]
        BY <3>4
      <4>2. ASSUME NEW s \in Sockets, n < Len(wire[s])
            PROVE  SubSeq(wire[s], 1, n) \in Seq({"event", "reply"})
        <5>1. Len(wire[s]) \in Nat /\ n \in Nat
          BY <3>2, LenProperties
        <5>2. n <= Len(wire[s])
          BY <4>2, <5>1
        <5> QED
          BY <3>1, <3>2, <5>1, <5>2
      <4> QED
        BY <3>2, <4>1, <4>2
    <3> QED
      BY <3>3, <3>4
  <2> QED
    BY <2>0, CloseAssumption DEF TypeOK, Sockets, Nil
<1>2. ClosingPart'
  BY DEF ClosingPart, TypeOK
<1>3. ASSUME closed', ~ late' PROVE OneReader'
  BY <1>3 DEF OneReader, Alive, ClosingPart, TypeOK
<1>4. ASSUME closed', ~ late' PROVE EndPart'
  BY <1>4 DEF EndPart, OneReader, Alive, ClosingPart, TypeOK
<1> QED
  BY <1>1, <1>2, <1>3, <1>4

LEMMA LoopStep ==
  ASSUME CloseInv, NEW s \in Sockets, Loop(s), ~ panicked
  PROVE  CloseInv'
<1> USE DEF CloseInv, Loop, Step, At, Put, main, chrome, queue, rest
<1>1. TypeOK'
  BY CloseAssumption DEF TypeOK, Sockets, Nil
<1>2. ClosingPart'
  BY DEF ClosingPart, TypeOK
<1>3. ASSUME closed', ~ late' PROVE OneReader'
  <2>1. closed /\ ~ late
    BY <1>3
  <2>2. Alive' \subseteq Alive
    BY DEF Alive, TypeOK
  <2> QED
    BY <2>1, <2>2 DEF OneReader
<1>4. ASSUME closed', ~ late' PROVE EndPart'
  BY <1>4 DEF EndPart, OneReader, Alive, ClosingPart, TypeOK
<1> QED
  BY <1>1, <1>2, <1>3, <1>4

LEMMA ReadStep ==
  ASSUME CloseInv, NEW s \in Sockets, Read(s), ~ panicked
  PROVE  CloseInv'
<1> USE DEF CloseInv, Read, Step, At, Put, main, chrome, queue, rest
<1>1. TypeOK'
  BY CloseAssumption DEF TypeOK, Sockets, Nil
<1>2. ClosingPart'
  BY DEF ClosingPart, TypeOK
<1>3. ASSUME closed', ~ late' PROVE OneReader'
  <2>1. closed /\ ~ late
    BY <1>3
  <2>2. Alive' \subseteq Alive
    BY DEF Alive, TypeOK
  <2> QED
    BY <2>1, <2>2 DEF OneReader
<1>4. ASSUME closed', ~ late' PROVE EndPart'
  <2>1. EndPart /\ UNCHANGED <<events, ended, panicked>>
    BY <1>4
  <2>2. Alive' \subseteq Alive
    BY DEF Alive, TypeOK
  <2>3. \A t \in Sockets : reader[t] = "finish" => reader'[t] = "finish"
    BY DEF TypeOK
  <2> QED
    BY <2>1, <2>2, <2>3 DEF EndPart
<1> QED
  BY <1>1, <1>2, <1>3, <1>4

LEMMA ReadFailsStep ==
  ASSUME CloseInv, NEW s \in Sockets, ReadFails(s), ~ panicked
  PROVE  CloseInv'
<1> USE DEF CloseInv, ReadFails, Step, At, Put, main, chrome, queue, rest
<1>1. TypeOK'
  BY CloseAssumption DEF TypeOK, Sockets, Nil
<1>2. ClosingPart'
  BY DEF ClosingPart, TypeOK
<1>3. ASSUME closed', ~ late' PROVE OneReader'
  <2>1. closed /\ ~ late
    BY <1>3
  <2>2. Alive' \subseteq Alive
    BY DEF Alive, TypeOK
  <2> QED
    BY <2>1, <2>2 DEF OneReader
<1>4. ASSUME closed', ~ late' PROVE EndPart'
  BY <1>4 DEF EndPart, OneReader, Alive, ClosingPart, TypeOK
<1> QED
  BY <1>1, <1>2, <1>3, <1>4

LEMMA EnqueueStep ==
  ASSUME CloseInv, NEW s \in Sockets, Enqueue(s), ~ panicked
  PROVE  CloseInv'
<1> USE DEF CloseInv, Enqueue, Step, At, Put, main, chrome, queue, rest
<1>1. TypeOK'
  <2>1. events \in Seq({"event", "closed"}) /\ Len(events) <= EventCap
    BY DEF TypeOK
  <2>2. /\ Append(events, "event") \in Seq({"event", "closed"})
        /\ Len(Append(events, "event")) = Len(events) + 1 /\ Len(events) \in Nat
    BY <2>1, AppendProperties, LenProperties
  <2>3. /\ events' \in Seq({"event", "closed"})
        /\ Len(events') <= EventCap
    BY <2>1, <2>2, CloseAssumption
  <2>4. reader' \in [Sockets -> {"none", "top", "read", "queue", "announce",
                                "finish", "done"}]
    BY DEF TypeOK
  <2>5. ended' \in BOOLEAN /\ panicked' \in BOOLEAN
    BY DEF TypeOK
  <2> QED
    BY <2>3, <2>4, <2>5 DEF TypeOK
<1>2. ClosingPart'
  <2>1. /\ Len(events) \in Nat /\ Len(Append(events, "event")) = Len(events) + 1
        /\ \A i \in 1..Len(events) : Append(events, "event")[i] = events[i]
        /\ Append(events, "event")[Len(events) + 1] = "event"
    BY AppendProperties, LenProperties DEF TypeOK
  <2>2. closed' = closed /\ pc' = pc /\ ended' = ended
    OBVIOUS
  <2>3. ~ closed => \A i \in 1..Len(events') : events'[i] # "closed"
    BY <2>1 DEF ClosingPart
  <2>4. ~ closed => \A t \in Sockets : reader'[t] \notin {"announce", "finish"}
    BY DEF ClosingPart, TypeOK
  <2>5. ~ closed => ~ panicked'
    BY DEF ClosingPart
  <2> QED
    BY <2>2, <2>3, <2>4, <2>5 DEF ClosingPart
<1>3. ASSUME closed', ~ late' PROVE OneReader'
  BY <1>3 DEF OneReader, Alive, ClosingPart, TypeOK
<1>4. ASSUME closed', ~ late' PROVE EndPart'
  <2>1. /\ Len(events) \in Nat /\ Len(Append(events, "event")) = Len(events) + 1
        /\ \A i \in 1..Len(events) : Append(events, "event")[i] = events[i]
        /\ Append(events, "event")[Len(events) + 1] = "event"
    BY AppendProperties, LenProperties DEF TypeOK
  <2>2. OneReader /\ EndPart /\ s \in Alive
    BY <1>4 DEF Alive
  <2>3. ~ ended /\ \A i \in 1..Len(events) : events[i] # "closed"
    BY <2>2 DEF EndPart, OneReader, Alive
  <2>4. ~ panicked' /\ ~ ended'
    BY <2>3
  <2>5. \A i \in 1..Len(events') : events'[i] # "closed"
    BY <2>1, <2>3
  <2> QED
    BY <2>4, <2>5 DEF EndPart
<1> QED
  BY <1>1, <1>2, <1>3, <1>4

LEMMA AnnounceStep ==
  ASSUME CloseInv, NEW s \in Sockets, Announce(s), ~ panicked
  PROVE  CloseInv'
<1> USE DEF CloseInv, Announce, Step, At, Put, main, chrome, queue, rest
<1>1. TypeOK'
  <2>1. events \in Seq({"event", "closed"}) /\ Len(events) <= EventCap
    BY DEF TypeOK
  <2>2. /\ Append(events, "closed") \in Seq({"event", "closed"})
        /\ Len(Append(events, "closed")) = Len(events) + 1 /\ Len(events) \in Nat
    BY <2>1, AppendProperties, LenProperties
  <2>3. /\ events' \in Seq({"event", "closed"})
        /\ Len(events') <= EventCap
    BY <2>1, <2>2, CloseAssumption
  <2>4. reader' \in [Sockets -> {"none", "top", "read", "queue", "announce",
                                "finish", "done"}]
    BY DEF TypeOK
  <2>5. ended' \in BOOLEAN /\ panicked' \in BOOLEAN
    BY DEF TypeOK
  <2> QED
    BY <2>3, <2>4, <2>5 DEF TypeOK
<1>2. ClosingPart'
  BY DEF ClosingPart, TypeOK
<1>3. ASSUME closed', ~ late' PROVE OneReader'
  BY <1>3 DEF OneReader, Alive, ClosingPart, TypeOK
<1>4. ASSUME closed', ~ late' PROVE EndPart'
  <2>1. /\ Len(events) \in Nat /\ Len(Append(events, "closed")) = Len(events) + 1
        /\ \A i \in 1..Len(events) : Append(events, "closed")[i] = events[i]
    BY AppendProperties, LenProperties DEF TypeOK
  <2>2. OneReader /\ EndPart /\ s \in Alive
    BY <1>4 DEF Alive
  <2>3. ~ ended /\ \A i \in 1..Len(events) : events[i] # "closed"
    BY <2>2 DEF EndPart, OneReader, Alive
  <2>4. ~ panicked' /\ ~ ended' /\ reader'[s] = "finish"
    BY <2>3 DEF TypeOK
  <2>5. \A i \in 1..Len(events') : events'[i] = "closed" => i = Len(events')
    BY <2>1, <2>3
  <2> QED
    BY <2>4, <2>5 DEF EndPart
<1> QED
  BY <1>1, <1>2, <1>3, <1>4

LEMMA FinishStep ==
  ASSUME CloseInv, NEW s \in Sockets, Finish(s), ~ panicked
  PROVE  CloseInv'
<1> USE DEF CloseInv, Finish, Step, At, Put, main, chrome, queue, rest
<1>1. TypeOK'
  BY CloseAssumption DEF TypeOK, Sockets, Nil
<1>2. ClosingPart'
  BY DEF ClosingPart, TypeOK
<1>3. ASSUME closed', ~ late' PROVE OneReader'
  BY <1>3 DEF OneReader, Alive, ClosingPart, TypeOK
<1>4. ASSUME closed', ~ late' PROVE EndPart'
  BY <1>4 DEF EndPart, OneReader, Alive, ClosingPart, TypeOK
<1> QED
  BY <1>1, <1>2, <1>3, <1>4

----------------------------------------------------------------------------
(* The invariant, and what it gives                                        *)

LEMMA CloseNext == CloseInv /\ [Next]_vars => CloseInv'
<1> SUFFICES ASSUME CloseInv, [Next]_vars PROVE CloseInv'
  OBVIOUS
<1>1. CASE ~ panicked /\ Main
  BY <1>1, ScanOverStep, NewTabStep, CloseSocketStep, DialStep, ActivateTabStep,
     AskStep, ReceiveStep, AskNobodyStep, CloseStep, CloseChannelsStep
     DEF Main
<1>2. CASE ~ panicked /\ (SendMessages \/ ProcessEvents \/ Emit \/ Answer \/ ChromeEnds)
  BY <1>2, SendMessagesStep, ProcessEventsStep, EmitStep, AnswerStep, ChromeEndsStep
<1>3. CASE ~ panicked /\ \E s \in Sockets : Reader(s)
  BY <1>3, LoopStep, ReadStep, ReadFailsStep, EnqueueStep, AnnounceStep, FinishStep
     DEF Reader
<1>4. CASE UNCHANGED vars
  <2> USE <1>4 DEF CloseInv, vars, main, chrome, queue, rest
  <2>1. TypeOK' /\ ClosingPart'
    BY DEF TypeOK, ClosingPart
  <2>2. closed' /\ ~ late' => OneReader' /\ EndPart'
    BY DEF OneReader, EndPart, Alive
  <2> QED
    BY <2>1, <2>2
<1> QED
  BY <1>1, <1>2, <1>3, <1>4 DEF Next

THEOREM CloseInvariant == Spec => []CloseInv
BY CloseInit, CloseNext, PTL DEF Spec

(***************************************************************************)
(* A second reader comes with the second socket only, and a socket in use  *)
(* or about to be closed has been read from.                               *)
(***************************************************************************)
SwitchInv ==
  /\ ws = 2 => reader[2] # "none"
  /\ pc = "channels" => old # Nil /\ (old = 2 => reader[2] # "none")
  /\ reader[2] = "none" => ~ late

LEMMA ReaderSwitch ==
  ASSUME CloseInv, SwitchInv, NEW s \in Sockets, Reader(s)
  PROVE  SwitchInv'
<1> USE DEF At, main, queue, CloseInv, TypeOK
<1>1. UNCHANGED <<pc, ws, old, late>>
  BY DEF Reader, Loop, Read, ReadFails, Enqueue, Announce, Finish
<1>2. reader'[2] = "none" <=> reader[2] = "none"
  <2> USE DEF Sockets
  <2>1. CASE Loop(s) \/ Read(s) \/ ReadFails(s)
    BY <2>1 DEF Loop, Read, ReadFails
  <2>2. CASE Enqueue(s) \/ Announce(s) \/ Finish(s)
    BY <2>2 DEF Enqueue, Announce, Finish, Put
  <2> QED
    BY <2>1, <2>2 DEF Reader
<1> QED
  BY <1>1, <1>2 DEF SwitchInv

LEMMA SwitchNext == CloseInv /\ SwitchInv /\ [Next]_vars => SwitchInv'
<1> SUFFICES ASSUME CloseInv, SwitchInv, [Next]_vars PROVE SwitchInv'
  OBVIOUS
<1> USE DEF main, chrome, queue, rest, Step, CloseInv, SwitchInv
<1>1. CASE ScanOver \/ ActivateTab \/ AskNobody \/ Ask \/ Receive \/ CloseSocket
  BY <1>1 DEF ScanOver, ActivateTab, AskNobody, Ask, Receive, CloseSocket
<1>2. CASE NewTab \/ Close
  BY <1>2 DEF NewTab, Close, TypeOK, Sockets, Nil
<1>3. CASE Dial
  BY <1>3 DEF Dial, TypeOK, Sockets
<1>4. CASE CloseChannels
  <2>1. UNCHANGED <<ws, old, reader>> /\ pc' # "channels"
    BY <1>4 DEF CloseChannels
  <2>2. ASSUME reader[2] = "none" PROVE ~ late'
    <3>1. old = 1
      BY <1>4, <2>2 DEF CloseChannels, TypeOK, Sockets
    <3>2. Alive \subseteq {1}
      BY <2>2 DEF Alive, Sockets
    <3> QED
      BY <1>4, <3>1, <3>2 DEF CloseChannels
  <2> QED
    BY <2>1, <2>2
<1>5. CASE SendMessages \/ ProcessEvents \/ Emit \/ Answer \/ ChromeEnds
  BY <1>5 DEF SendMessages, ProcessEvents, Emit, Answer, ChromeEnds
<1>6. CASE UNCHANGED vars
  BY <1>6 DEF vars
<1> QED
  BY <1>1, <1>2, <1>3, <1>4, <1>5, <1>6, ReaderSwitch DEF Next, Main

THEOREM SwitchInvariant == Spec => []SwitchInv
<1>1. Init => SwitchInv
  BY DEF Init, SwitchInv
<1> QED
  BY <1>1, SwitchNext, CloseInvariant, PTL DEF Spec

(* The state of the connection keeps its type.                             *)
THEOREM CloseTypeOK == Spec => []TypeOK
<1>1. CloseInv => TypeOK
  BY DEF CloseInv
<1> QED
  BY <1>1, CloseInvariant, PTL

(***************************************************************************)
(* A scan that dials no second socket, because it prints nothing or        *)
(* because the tab to print fails, closes its queue once, after the last   *)
(* event, and nobody sends to it any more.  In one that does, a panic      *)
(* takes two readers that are there when Close closes the channels.        *)
(***************************************************************************)
THEOREM CloseQueueOnce == Spec => []QueueClosedOnce
<1>1. CloseInv => (~ late => ~ panicked /\ ClosedComesLast)
  BY DEF CloseInv, ClosingPart, EndPart, ClosedComesLast
<1>2. CloseInv /\ SwitchInv => QueueClosedOnce
  BY <1>1 DEF CloseInv, TypeOK, SwitchInv, QueueClosedOnce
<1> QED
  BY <1>2, CloseInvariant, SwitchInvariant, PTL

----------------------------------------------------------------------------
(* Requests and replies                                                    *)

(* The socket in use, and its reader.  A socket that was given up is still *)
(* open only until it is closed, in the same call.                         *)
SocketPart ==
  /\ pc \in {"dropping", "dial", "channels", "hangup", "done"} => ws = Nil
  /\ pc \in {"printing", "closing"} => ws # Nil
  /\ \A s \in Sockets : conn[s] = "open" =>
       s = ws \/ (pc \in {"dropping", "channels", "hangup"} /\ s = old)
  /\ ws # Nil => conn[ws] \in {"open", "Chrome"}
  /\ ws # Nil => Listening(ws) \/ (conn[ws] = "Chrome" /\ wire[ws] = <<>>)

(* The goroutines behind a request and behind the queue                    *)
GoroutinePart ==
  /\ closed \/ sender
  /\ ended \/ dispatcher

(* There is one reply at most, on the socket in use.                       *)
ReplyPart ==
  /\ call # "none" <=> pc \in {"printing", "closing"}
  /\ \A s \in Sockets : \A i \in 1..Len(wire[s]) :
       wire[s][i] = "reply" =>
         /\ call = "answered" /\ ws = s
         /\ \A j \in 1..Len(wire[s]) : wire[s][j] = "reply" => i = j
  /\ call = "answered" /\ conn[ws] = "open" =>
       \E i \in 1..Len(wire[ws]) : wire[ws][i] = "reply"

DeliveryInv == SocketPart /\ GoroutinePart /\ ReplyPart

Words == {"event", "reply"}

(* What is left of a socket that was cut off                               *)
LEMMA CutOff ==
  ASSUME NEW q \in Seq(Words), NEW n \in 0..Len(q)
  PROVE  /\ Len(SubSeq(q, 1, n)) = n /\ n \in Nat /\ n <= Len(q)
         /\ \A i \in 1..n : SubSeq(q, 1, n)[i] = q[i]
<1>1. Len(q) \in Nat
  BY LenProperties
<1>2. n \in Nat /\ n <= Len(q)
  BY <1>1
<1> QED
  BY <1>1, <1>2, SubSeqProperties

LEMMA MainDelivery ==
  ASSUME CloseInv, DeliveryInv, Main
  PROVE  DeliveryInv'
<1> USE DEF Step, main, chrome, queue, rest, DeliveryInv, CloseInv
<1>1. CASE ScanOver \/ ActivateTab \/ AskNobody
  <2> USE DEF ScanOver, ActivateTab, AskNobody
  <2>1. /\ UNCHANGED <<ws, old, call, conn, wire, closed, sender, ended, dispatcher, reader>>
        /\ pc \notin {"printing", "closing", "dropping", "channels", "hangup"}
        /\ pc' \in {"cleanup", "newtab", "print", "close"}
    BY <1>1
  <2> QED
    BY <2>1 DEF SocketPart, GoroutinePart, ReplyPart, Listening
<1>2. CASE NewTab \/ Close
  <2>1. /\ UNCHANGED <<call, conn, wire, closed, sender, ended, dispatcher, reader>>
        /\ pc \in {"newtab", "close"}
        /\ \/ pc' \in {"dropping", "channels"} /\ ws' = Nil /\ old' = ws
           \/ pc' = "cleanup" /\ ws' = ws /\ old' = old
           \/ pc' = "done" /\ ws = Nil /\ ws' = Nil
    BY <1>2 DEF NewTab, Close
  <2>2. SocketPart'
    BY <2>1 DEF SocketPart, Listening
  <2>3. GoroutinePart' /\ ReplyPart'
    BY <2>1 DEF GoroutinePart, ReplyPart
  <2> QED
    BY <2>2, <2>3
<1>3. CASE CloseSocket
  <2>1. /\ UNCHANGED <<ws, old, call, closed, sender, ended, dispatcher, reader>>
        /\ pc \in {"dropping", "hangup"} /\ pc' \in {"dial", "done"}
        /\ conn' = [conn EXCEPT ![old] = IF @ = "open" THEN "us" ELSE @]
    BY <1>3 DEF CloseSocket
  <2>2. ws = Nil /\ call = "none"
    BY <2>1 DEF SocketPart, ReplyPart
  <2>3. PICK n \in 0..Len(wire[old]) : wire' = [wire EXCEPT ![old] = SubSeq(@, 1, n)]
    BY <1>3 DEF CloseSocket
  <2>4. SocketPart'
    BY <2>1, <2>2 DEF SocketPart, TypeOK
  <2>5. ASSUME NEW s \in Sockets, NEW i \in 1..Len(wire'[s]) PROVE wire'[s][i] # "reply"
    <3>1. \A j \in 1..Len(wire[s]) : wire[s][j] # "reply"
      BY <2>2 DEF ReplyPart
    <3>2. CASE s = old
      <4>1. wire[s] \in Seq(Words) /\ n \in 0..Len(wire[s]) /\ wire'[s] = SubSeq(wire[s], 1, n)
        BY <2>3, <3>2 DEF TypeOK, Words
      <4>2. i \in 1..n /\ n \in Nat /\ n <= Len(wire[s]) /\ wire'[s][i] = wire[s][i]
        BY <4>1, CutOff
      <4>3. Len(wire[s]) \in Nat
        BY <4>1, LenProperties
      <4>4. i \in 1..Len(wire[s])
        BY <4>2, <4>3
      <4> QED
        BY <3>1, <4>2, <4>4
    <3>3. CASE s # old
      BY <2>3, <3>1, <3>3 DEF TypeOK
    <3> QED
      BY <3>2, <3>3
  <2>6. GoroutinePart' /\ ReplyPart'
    BY <2>1, <2>2, <2>5 DEF GoroutinePart, ReplyPart
  <2> QED
    BY <2>4, <2>6
<1>4. CASE Dial
  <2>1. /\ UNCHANGED <<old, call, wire, closed, sender, ended, dispatcher>>
        /\ pc = "dial" /\ ws = Nil /\ call = "none"
    BY <1>4 DEF Dial, SocketPart, ReplyPart
  <2>2. \A s \in Sockets : conn[s] # "open"
    BY <2>1 DEF SocketPart, Sockets, Nil
  <2>3. \/ /\ pc' = "activate" /\ ws' = 2
           /\ conn' = [conn EXCEPT ![2] = "open"]
           /\ reader' = [reader EXCEPT ![2] = "top"]
        \/ pc' = "cleanup" /\ UNCHANGED <<ws, conn, reader>>
    BY <1>4 DEF Dial
  <2>4. SocketPart'
    BY <2>1, <2>2, <2>3 DEF SocketPart, TypeOK, Listening, Sockets, Nil
  <2>5. GoroutinePart' /\ ReplyPart'
    BY <2>1, <2>3 DEF GoroutinePart, ReplyPart
  <2> QED
    BY <2>4, <2>5
<1>5. CASE Ask
  <2>1. /\ UNCHANGED <<ws, old, conn, wire, closed, sender, ended, dispatcher, reader>>
        /\ ws # Nil /\ pc \in {"print", "cleanup"} /\ pc' \in {"printing", "closing"}
        /\ call = "none" /\ call' = "asked"
    BY <1>5 DEF Ask, ReplyPart
  <2>2. SocketPart'
    BY <2>1 DEF SocketPart, Listening
  <2>3. GoroutinePart' /\ ReplyPart'
    BY <2>1 DEF GoroutinePart, ReplyPart
  <2> QED
    BY <2>2, <2>3
<1>6. CASE Receive
  <2>1. /\ UNCHANGED <<ws, old, conn, wire, closed, sender, ended, dispatcher, reader>>
        /\ pc \in {"printing", "closing"} /\ pc' \in {"cleanup", "close"}
        /\ call = "received" /\ call' = "none"
    BY <1>6 DEF Receive
  <2>2. SocketPart'
    BY <2>1 DEF SocketPart, Listening
  <2>3. GoroutinePart' /\ ReplyPart'
    BY <2>1 DEF GoroutinePart, ReplyPart
  <2> QED
    BY <2>2, <2>3
<1>7. CASE CloseChannels
  <2>1. /\ UNCHANGED <<ws, old, call, conn, wire, sender, ended, dispatcher, reader>>
        /\ pc = "channels" /\ pc' = "hangup" /\ closed'
    BY <1>7 DEF CloseChannels
  <2>2. SocketPart'
    BY <2>1 DEF SocketPart, Listening
  <2>3. GoroutinePart' /\ ReplyPart'
    BY <2>1 DEF GoroutinePart, ReplyPart
  <2> QED
    BY <2>2, <2>3
<1> QED
  BY <1>1, <1>2, <1>3, <1>4, <1>5, <1>6, <1>7 DEF Main

LEMMA ReaderDelivery ==
  ASSUME CloseInv, DeliveryInv, NEW s \in Sockets, Reader(s)
  PROVE  DeliveryInv'
<1> USE DEF At, main, chrome, queue, DeliveryInv, CloseInv
<1>1. /\ UNCHANGED <<pc, ws, old, conn, closed, sender, dispatcher>>
      /\ ended' \/ ended' = ended
      /\ reader' = [reader EXCEPT ![s] = reader'[s]]
  BY DEF Reader, Loop, Read, ReadFails, Enqueue, Announce, Finish, Put, TypeOK
<1>2. GoroutinePart'
  BY <1>1 DEF GoroutinePart
<1>3. ws = s => ~ closed
  BY DEF ClosingPart, SocketPart, Sockets, Nil
<1>4. CASE Read(s)
  <2>1. /\ wire[s] \in Seq(Words) /\ wire[s] # <<>>
        /\ wire' = [wire EXCEPT ![s] = Tail(wire[s])]
    BY <1>4 DEF Read, TypeOK, Words
  <2>2. /\ Len(wire'[s]) = Len(wire[s]) - 1 /\ Len(wire[s]) \in Nat \ {0}
        /\ \A i \in 1..Len(wire'[s]) : wire'[s][i] = wire[s][i + 1]
        /\ \A r \in Sockets \ {s} : wire'[r] = wire[r]
        /\ Head(wire[s]) = wire[s][1]
    BY <2>1, HeadTailProperties, LenProperties DEF TypeOK
  <2>3. \/ wire[s][1] = "reply" /\ call' = "received" /\ reader'[s] = "top"
        \/ wire[s][1] = "event" /\ call' = call /\ reader'[s] = "queue"
    BY <1>4, <2>2 DEF Read, TypeOK
  <2>4. SocketPart'
    BY <1>1, <2>2, <2>3 DEF SocketPart, Listening, TypeOK
  <2>5. \A i \in 1..Len(wire'[s]) : i + 1 \in 1..Len(wire[s]) /\ 1 \in 1..Len(wire[s])
    BY <2>2
  <2>6. CASE wire[s][1] = "reply"
    <3>1. call = "answered" /\ ws = s /\ call' = "received"
      BY <2>2, <2>3, <2>6 DEF ReplyPart
    <3>2. \A r \in Sockets : \A i \in 1..Len(wire'[r]) : wire'[r][i] # "reply"
      <4>1. \A i \in 1..Len(wire'[s]) : wire'[s][i] # "reply"
        BY <2>2, <2>5, <2>6 DEF ReplyPart
      <4>2. \A r \in Sockets \ {s} : \A i \in 1..Len(wire[r]) : wire[r][i] # "reply"
        BY <3>1 DEF ReplyPart
      <4> QED
        BY <2>2, <4>1, <4>2
    <3> QED
      BY <1>1, <1>2, <2>4, <3>1, <3>2 DEF ReplyPart
  <2>7. CASE wire[s][1] = "event"
    <3>1. call' = call
      BY <2>3, <2>7
    <3>2. ASSUME NEW r \in Sockets, NEW i \in 1..Len(wire'[r]), wire'[r][i] = "reply"
          PROVE  /\ call = "answered" /\ ws = r
                 /\ \A j \in 1..Len(wire'[r]) : wire'[r][j] = "reply" => i = j
      <4>1. CASE r = s
        <5>1. i + 1 \in 1..Len(wire[s]) /\ wire[s][i + 1] = "reply"
          BY <2>2, <2>5, <3>2, <4>1
        <5>2. call = "answered" /\ ws = r
          BY <4>1, <5>1 DEF ReplyPart
        <5>3. ASSUME NEW j \in 1..Len(wire'[r]), wire'[r][j] = "reply" PROVE i = j
          <6>1. j + 1 \in 1..Len(wire[s]) /\ wire[s][j + 1] = "reply"
            BY <2>2, <2>5, <4>1, <5>3
          <6>2. i + 1 = j + 1
            BY <5>1, <6>1 DEF ReplyPart
          <6> QED
            BY <6>2
        <5> QED
          BY <5>2, <5>3
      <4>2. CASE r # s
        BY <2>2, <3>2, <4>2 DEF ReplyPart
      <4> QED
        BY <4>1, <4>2
    <3>3. ASSUME call = "answered", conn[ws] = "open"
          PROVE  \E i \in 1..Len(wire'[ws]) : wire'[ws][i] = "reply"
      <4>1. PICK i \in 1..Len(wire[ws]) : wire[ws][i] = "reply"
        BY <3>3 DEF ReplyPart
      <4>2. CASE ws = s
        <5>1. i # 1 /\ i \in 1..Len(wire[s])
          BY <2>7, <4>1, <4>2
        <5>2. i - 1 \in 1..Len(wire'[s]) /\ (i - 1) + 1 = i
          BY <2>2, <5>1
        <5>3. wire'[s][i - 1] = "reply"
          BY <2>2, <4>1, <4>2, <5>2
        <5> QED
          BY <4>2, <5>2, <5>3
      <4>3. CASE ws # s
        <5>1. ws \in Sockets
          BY <3>3 DEF SocketPart, ReplyPart, TypeOK
        <5> QED
          BY <2>2, <4>1, <4>3, <5>1
      <4> QED
        BY <4>2, <4>3
    <3> QED
      BY <1>1, <1>2, <2>4, <3>1, <3>2, <3>3 DEF ReplyPart
  <2> QED
    BY <2>3, <2>6, <2>7
<1>5. CASE ~ Read(s)
  <2>1. UNCHANGED <<call, wire>>
    BY <1>5 DEF Reader, Loop, ReadFails, Enqueue, Announce, Finish
  <2>2. ASSUME ws = s, Listening(s)
        PROVE  Listening(s)' \/ (conn[s] = "Chrome" /\ wire[s] = <<>>)
    <3>1. ~ closed /\ ~ ended /\ conn[s] \in {"open", "Chrome"}
      BY <1>3, <2>2 DEF ClosingPart, SocketPart, Sockets, Nil
    <3> QED
      BY <1>5, <2>2, <3>1 DEF Reader, Loop, ReadFails, Enqueue, Announce, Finish, Put, Listening, TypeOK
  <2>3. SocketPart'
    BY <1>1, <2>1, <2>2 DEF SocketPart, Listening, TypeOK
  <2>4. ReplyPart'
    BY <1>1, <2>1 DEF ReplyPart
  <2> QED
    BY <1>2, <2>3, <2>4
<1> QED
  BY <1>4, <1>5

LEMMA BrowserDelivery ==
  ASSUME CloseInv, DeliveryInv,
         SendMessages \/ ProcessEvents \/ Emit \/ Answer \/ ChromeEnds
  PROVE  DeliveryInv'
<1> USE DEF main, chrome, queue, DeliveryInv, CloseInv
<1>1. CASE SendMessages
  <2>1. /\ UNCHANGED <<pc, ws, old, conn, wire, closed, ended, dispatcher, reader>>
        /\ \/ call = "asked" /\ call' = "sent" /\ sender' = sender
           \/ closed /\ call' = call
    BY <1>1 DEF SendMessages
  <2> QED
    BY <2>1 DEF SocketPart, GoroutinePart, ReplyPart, Listening
<1>2. CASE ProcessEvents
  <2>1. /\ UNCHANGED <<pc, ws, old, call, conn, wire, closed, sender, ended, reader>>
        /\ dispatcher' = dispatcher \/ ended
    BY <1>2 DEF ProcessEvents
  <2> QED
    BY <2>1 DEF SocketPart, GoroutinePart, ReplyPart, Listening
<1>3. CASE Emit \/ Answer
  <2>1. PICK s \in Sockets, word \in Words :
          /\ conn[s] = "open" /\ wire' = [wire EXCEPT ![s] = Append(wire[s], word)]
          /\ \/ word = "event" /\ call' = call
             \/ word = "reply" /\ s = ws /\ call = "sent" /\ call' = "answered"
    <3>1. CASE Emit
      BY <3>1 DEF Emit, Sockets, Words
    <3>2. CASE Answer
      <4>1. ws \in Sockets
        BY <3>2 DEF Answer, SocketPart, ReplyPart, TypeOK
      <4> QED
        BY <3>2, <4>1 DEF Answer, Words
    <3> QED
      BY <1>3, <3>1, <3>2
  <2>2. UNCHANGED <<pc, ws, old, conn, closed, sender, ended, dispatcher, reader>>
    BY <1>3 DEF Emit, Answer
  <2>3. /\ Len(wire'[s]) = Len(wire[s]) + 1 /\ Len(wire[s]) \in Nat
        /\ \A i \in 1..Len(wire[s]) : wire'[s][i] = wire[s][i]
        /\ wire'[s][Len(wire[s]) + 1] = word
        /\ \A r \in Sockets \ {s} : wire'[r] = wire[r]
    <3>1. wire[s] \in Seq(Words)
      BY DEF TypeOK, Words
    <3>2. wire'[s] = Append(wire[s], word)
      BY <2>1 DEF TypeOK
    <3>3. \A r \in Sockets \ {s} : wire'[r] = wire[r]
      BY <2>1 DEF TypeOK
    <3> QED
      BY <3>1, <3>2, <3>3, AppendProperties, LenProperties
  <2>4. SocketPart'
    BY <2>1, <2>2, <2>3 DEF SocketPart, Listening
  <2>5. GoroutinePart'
    BY <2>2 DEF GoroutinePart
  <2>6. \A i \in 1..Len(wire'[s]) : i \in 1..Len(wire[s]) \/ i = Len(wire[s]) + 1
    BY <2>3
  <2>7. \A i \in 1..Len(wire[s]) : i \in 1..Len(wire'[s])
    BY <2>3
  <2>8. CASE word = "event"
    <3>1. \A r \in Sockets : \A i \in 1..Len(wire'[r]) :
            wire'[r][i] = "reply" => i \in 1..Len(wire[r]) /\ wire[r][i] = "reply"
      BY <2>3, <2>6, <2>8
    <3>2. \A r \in Sockets : \A i \in 1..Len(wire[r]) :
            i \in 1..Len(wire'[r]) /\ wire'[r][i] = wire[r][i]
      BY <2>3, <2>7
    <3>3. call' = call
      BY <2>1, <2>8
    <3>4. call = "answered" => ws \in Sockets
      BY DEF SocketPart, ReplyPart, TypeOK
    <3>5. ReplyPart'
      BY <2>2, <3>1, <3>2, <3>3, <3>4 DEF ReplyPart
    <3> QED
      BY <2>4, <2>5, <3>5
  <2>9. CASE word = "reply"
    <3>1. s = ws /\ call = "sent" /\ call' = "answered"
      BY <2>1, <2>9
    <3>2. \A r \in Sockets : \A i \in 1..Len(wire[r]) : wire[r][i] # "reply"
      BY <3>1 DEF ReplyPart
    <3>3. \A r \in Sockets : \A i \in 1..Len(wire'[r]) :
            wire'[r][i] = "reply" => r = s /\ i = Len(wire[s]) + 1
      BY <2>3, <2>6, <3>2
    <3>4. Len(wire[s]) + 1 \in 1..Len(wire'[s]) /\ wire'[s][Len(wire[s]) + 1] = "reply"
      BY <2>3, <2>9
    <3>5. ReplyPart'
      BY <2>2, <3>1, <3>3, <3>4 DEF ReplyPart
    <3> QED
      BY <2>4, <2>5, <3>5
  <2> QED
    BY <2>8, <2>9 DEF Words
<1>4. CASE ChromeEnds
  <2>1. /\ UNCHANGED <<pc, ws, old, call, closed, sender, ended, dispatcher, reader>>
        /\ ChromeUp
        /\ conn' = [s \in Sockets |-> IF conn[s] = "open" THEN "Chrome" ELSE conn[s]]
    BY <1>4 DEF ChromeEnds
  <2>2. \A s \in Sockets : conn[s] # "Chrome" /\ conn'[s] # "open"
    BY <2>1 DEF ChromeUp
  <2>3. SocketPart'
    BY <2>1, <2>2 DEF SocketPart, Listening, TypeOK
  <2>4. ASSUME NEW s \in Sockets, NEW i \in 1..Len(wire'[s])
        PROVE  i \in 1..Len(wire[s]) /\ wire'[s][i] = wire[s][i]
    <3>1. wire[s] \in Seq(Words) /\ Len(wire[s]) \in Nat
      BY LenProperties DEF TypeOK, Words
    <3>2. CASE wire' = wire
      BY <3>2
    <3>3. CASE \E n \in 0..MaxEvents :
                 wire' = [r \in Sockets |->
                            IF n < Len(wire[r]) THEN SubSeq(wire[r], 1, n) ELSE wire[r]]
      <4>1. PICK n \in 0..MaxEvents :
              wire'[s] = IF n < Len(wire[s]) THEN SubSeq(wire[s], 1, n) ELSE wire[s]
        BY <3>3
      <4>2. CASE n < Len(wire[s])
        <5>1. n \in 0..Len(wire[s]) /\ n \in Nat /\ n <= Len(wire[s])
          BY <3>1, <4>2, CloseAssumption
        <5>2. Len(wire'[s]) = n /\ \A j \in 1..n : wire'[s][j] = wire[s][j]
          BY <3>1, <4>1, <4>2, <5>1, CutOff
        <5> QED
          BY <3>1, <5>1, <5>2
      <4>3. CASE ~ (n < Len(wire[s]))
        BY <4>1, <4>3
      <4> QED
        BY <4>2, <4>3
    <3> QED
      BY <1>4, <3>2, <3>3 DEF ChromeEnds
  <2>5. ReplyPart'
    <3>1. ASSUME NEW s \in Sockets, NEW i \in 1..Len(wire'[s]), wire'[s][i] = "reply"
          PROVE  /\ call = "answered" /\ ws = s
                 /\ \A j \in 1..Len(wire'[s]) : wire'[s][j] = "reply" => i = j
      <4>1. i \in 1..Len(wire[s]) /\ wire[s][i] = "reply"
        BY <2>4, <3>1
      <4>2. \A j \in 1..Len(wire'[s]) : j \in 1..Len(wire[s]) /\ wire'[s][j] = wire[s][j]
        BY <2>4
      <4> QED
        BY <4>1, <4>2 DEF ReplyPart
    <3>2. call = "answered" => ws \in Sockets
      BY DEF SocketPart, ReplyPart, TypeOK
    <3> QED
      BY <2>1, <2>2, <3>1, <3>2 DEF ReplyPart
  <2>6. GoroutinePart'
    BY <2>1 DEF GoroutinePart
  <2> QED
    BY <2>3, <2>5, <2>6
<1> QED
  BY <1>1, <1>2, <1>3, <1>4

LEMMA DeliveryInit == Init => DeliveryInv
<1> SUFFICES ASSUME Init PROVE DeliveryInv
  OBVIOUS
<1>1. \A s \in Sockets : Len(wire[s]) = 0
  BY EmptySeq DEF Init
<1> QED
  BY <1>1 DEF Init, DeliveryInv, SocketPart, GoroutinePart, ReplyPart, Sockets,
     Nil, Listening

LEMMA DeliveryNext == CloseInv /\ DeliveryInv /\ [Next]_vars => DeliveryInv'
<1> SUFFICES ASSUME CloseInv, DeliveryInv, [Next]_vars PROVE DeliveryInv'
  OBVIOUS
<1>1. CASE UNCHANGED vars
  BY <1>1 DEF vars, main, rest, chrome, queue, DeliveryInv, SocketPart,
     GoroutinePart, ReplyPart, Listening
<1> QED
  BY <1>1, MainDelivery, ReaderDelivery, BrowserDelivery DEF Next

THEOREM DeliveryInvariant == Spec => []DeliveryInv
BY DeliveryInit, DeliveryNext, CloseInvariant, PTL DEF Spec

(***************************************************************************)
(* Switching tabs loses no request and no reply, for any events before,    *)
(* between and after them and a queue of any capacity.                     *)
(***************************************************************************)
THEOREM CloseReplyReachesCaller == Spec => []ReplyReachesCaller
<1>1. ASSUME CloseInv, DeliveryInv PROVE ReplyReachesCaller
  <2> USE <1>1 DEF CloseInv, DeliveryInv
  <2>1. call \in {"asked", "sent", "answered"} =>
          ws # Nil /\ sender /\ (conn[ws] = "open" => Listening(ws))
    BY DEF ClosingPart, SocketPart, GoroutinePart, ReplyPart
  <2>2. ASSUME NEW s \in Sockets, NEW i \in 1..Len(wire[s]), wire[s][i] = "reply"
        PROVE  call = "answered" /\ ws = s /\ Listening(s)
    <3>1. call = "answered" /\ ws = s /\ ws # Nil
      BY <2>1, <2>2 DEF ReplyPart
    <3>2. wire[s] # <<>>
      BY <2>2
    <3> QED
      BY <3>1, <3>2 DEF SocketPart
  <2> QED
    BY <2>1, <2>2 DEF ReplyReachesCaller, ReplyPart
<1> QED
  BY <1>1, CloseInvariant, DeliveryInvariant, PTL

(***************************************************************************)
(* At the end of Cleanup no socket is left open for a reader to wait on,   *)
(* and the queue they may wait for is still emptied.                       *)
(***************************************************************************)
THEOREM CloseReadersCanEnd == Spec => []ReadersCanEnd
<1>1. DeliveryInv => ReadersCanEnd
  BY DEF DeliveryInv, SocketPart, GoroutinePart, ReadersCanEnd, Alive, Sockets, Nil
<1> QED
  BY <1>1, DeliveryInvariant, PTL

============================================================================
