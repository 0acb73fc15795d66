---------------------------- MODULE DebuggerClose ----------------------------
(***************************************************************************)
(* The end of one scan as godet sees it (vendor/github.com/raff/godet/     *)
(* godet.go): OutputPDF switches the debugger to the tab of the page to    *)
(* print (NewTab, ActivateTab, PrintToPDF), then Cleanup asks the browser  *)
(* to close and closes the debugger.  Meanwhile there are a sender, a      *)
(* dispatcher and, for each socket, a reader.  Module Debugger is about    *)
(* the requests and events of the scan before; here an event is only       *)
(* something that takes a place in the queue.                              *)
(*                                                                         *)
(* Socket 1 leads to the scanned page, socket 2 to the tab to print.       *)
(***************************************************************************)
EXTENDS Integers, Sequences

CONSTANTS
  PrintsPDF,      (* whether this scan may print                            *)
  ChromeMayDie,
  EventCap,       (* capacity of remote.events                              *)
  MaxEvents       (* bound: events Chrome sends                             *)

ASSUME CloseAssumption ==
  /\ PrintsPDF \in BOOLEAN /\ ChromeMayDie \in BOOLEAN
  /\ EventCap \in Nat \ {0} /\ MaxEvents \in Nat

Sockets == {1, 2}
Nil == 0

VARIABLES
  pc,         (* the goroutine of the scan                                  *)
  ws,         (* remote.ws: a socket or Nil                                 *)
  old,        (* the socket that connectWs or Close is about to close       *)
  call,       (* its request: "none", "asked", "sent", "answered" or        *)
              (* "received"                                                 *)
  conn,       (* a socket: "none", "open", or closed by "us" or "Chrome"    *)
  wire,       (* what Chrome wrote to it and nobody has read                *)
  sent,       (* events Chrome has sent                                     *)
  closed,     (* whether remote.closed and remote.requests are closed       *)
  reader,     (* readMessages of a socket                                   *)
  sender,     (* whether sendMessages runs                                  *)
  events,     (* remote.events                                              *)
  ended,      (* whether it is closed                                       *)
  dispatcher, (* whether processEvents runs                                 *)
  panicked,   (* a send on the closed channel, or closing it again          *)
  late        (* whether a replaced socket still had its reader when Close  *)
              (* closed the channels (kept for the properties)              *)

main == <<pc, ws, old>>
chrome == <<conn, wire, sent>>
queue == <<events, ended, panicked>>
rest == <<call, chrome, closed, reader, sender, queue, dispatcher, late>>
vars == <<main, rest>>

Init ==
  /\ pc = "scan" /\ ws = 1 /\ old = Nil
  /\ call = "none"
  /\ conn = [s \in Sockets |-> IF s = 1 THEN "open" ELSE "none"]
  /\ wire = [s \in Sockets |-> <<>>] /\ sent = 0
  /\ closed = FALSE
  /\ reader = [s \in Sockets |-> IF s = 1 THEN "top" ELSE "none"]
  /\ sender = TRUE
  /\ events = <<>> /\ ended = FALSE /\ panicked = FALSE
  /\ dispatcher = TRUE
  /\ late = FALSE

Alive == {s \in Sockets : reader[s] \notin {"none", "done"}}
ChromeUp == \A s \in Sockets : conn[s] # "Chrome"

Step(from, to) == pc = from /\ pc' = to

----------------------------------------------------------------------------
(* The goroutine of the scan                                               *)

ScanOver ==
  /\ Step("scan", "cleanup") \/ (PrintsPDF /\ Step("scan", "newtab"))
  /\ UNCHANGED <<ws, old, rest>>

(* NewTab: an HTTP request, then connectWs forgets the socket it had.      *)
NewTab ==
  /\ \/ /\ ChromeUp /\ Step("newtab", "dropping")
        /\ ws' = Nil /\ old' = ws
     \/ Step("newtab", "cleanup") /\ UNCHANGED <<ws, old>>
  /\ UNCHANGED rest

(* ws.Close(): what was buffered may or may not be read yet.               *)
CloseSocket ==
  /\ Step("dropping", "dial") \/ Step("hangup", "done")
  /\ conn' = [conn EXCEPT ![old] = IF @ = "open" THEN "us" ELSE @]
  /\ \E n \in 0..Len(wire[old]) : wire' = [wire EXCEPT ![old] = SubSeq(@, 1, n)]
  /\ UNCHANGED <<ws, old, call, sent, closed, reader, sender, queue,
                 dispatcher, late>>

(* Seeded fault: nobody reads the new socket.                              *)
DialUnread ==
  /\ \/ /\ ChromeUp /\ Step("dial", "activate")
        /\ ws' = 2
        /\ conn' = [conn EXCEPT ![2] = "open"]
     \/ Step("dial", "cleanup") /\ UNCHANGED <<ws, conn>>
  /\ UNCHANGED <<old, call, wire, sent, closed, reader, sender, queue,
                 dispatcher, late>>

(* The end of connectWs.  If the dial fails remote.ws stays nil.           *)
Dial ==
  /\ \/ /\ ChromeUp /\ Step("dial", "activate")
        /\ ws' = 2
        /\ conn' = [conn EXCEPT ![2] = "open"]
        /\ reader' = [reader EXCEPT ![2] = "top"]
     \/ Step("dial", "cleanup") /\ UNCHANGED <<ws, conn, reader>>
  /\ UNCHANGED <<old, call, wire, sent, closed, sender, queue, dispatcher, late>>

(* An HTTP request; connectWs finds the tab's socket in place.             *)
ActivateTab ==
  /\ (ChromeUp /\ Step("activate", "print")) \/ Step("activate", "cleanup")
  /\ UNCHANGED <<ws, old, rest>>

(* sendRawReplyRequest for PrintToPDF and CloseBrowser                     *)
Ask ==
  /\ ws # Nil
  /\ Step("print", "printing") \/ Step("cleanup", "closing")
  /\ call' = "asked"
  /\ UNCHANGED <<ws, old, chrome, closed, reader, sender, queue, dispatcher, late>>

Receive ==
  /\ call = "received" /\ call' = "none"
  /\ Step("printing", "cleanup") \/ Step("closing", "close")
  /\ UNCHANGED <<ws, old, chrome, closed, reader, sender, queue, dispatcher, late>>

(* ErrorClose                                                              *)
AskNobody ==
  /\ ws = Nil
  /\ Step("cleanup", "close")
  /\ UNCHANGED <<ws, old, rest>>

(* Seeded fault: Close returns before it has closed anything.              *)
CloseEarly ==
  /\ Step("close", "done")
  /\ old' = ws /\ ws' = Nil
  /\ UNCHANGED rest

(* Close takes the socket; without one it does nothing.                    *)
Close ==
  /\ \/ ws # Nil /\ Step("close", "channels")
     \/ ws = Nil /\ Step("close", "done")
  /\ old' = ws /\ ws' = Nil
  /\ UNCHANGED rest

CloseChannels ==
  /\ Step("channels", "hangup")
  /\ closed' = TRUE
  /\ late' = (Alive \ {old} # {})
  /\ UNCHANGED <<ws, old, call, chrome, reader, sender, queue, dispatcher>>

Main ==
  \/ ScanOver \/ NewTab \/ CloseSocket \/ Dial \/ ActivateTab \/ Ask
  \/ Receive \/ AskNobody \/ Close \/ CloseChannels

----------------------------------------------------------------------------
(* readMessages                                                            *)

At(s, p) == reader' = [reader EXCEPT ![s] = p]

(* Seeded fault: the reader does not ask whether its socket was replaced.  *)
LoopUnchecked(s) ==
  /\ reader[s] = "top"
  /\ IF closed THEN At(s, "announce") ELSE At(s, "read")
  /\ UNCHANGED <<main, call, chrome, closed, sender, queue, dispatcher, late>>

(* The head of the loop: remote.closed, then whether the socket is current *)
Loop(s) ==
  /\ reader[s] = "top"
  /\ \/ closed /\ At(s, "announce")
     \/ ~ closed /\ ws # s /\ At(s, "done")
     \/ ~ closed /\ ws = s /\ At(s, "read")
  /\ UNCHANGED <<main, call, chrome, closed, sender, queue, dispatcher, late>>

Read(s) ==
  /\ reader[s] = "read" /\ wire[s] # <<>>
  /\ wire' = [wire EXCEPT ![s] = Tail(@)]
  /\ \/ Head(wire[s]) = "reply" /\ call' = "received" /\ At(s, "top")
     \/ Head(wire[s]) = "event" /\ At(s, "queue") /\ UNCHANGED call
  /\ UNCHANGED <<main, conn, sent, closed, sender, queue, dispatcher, late>>

(* Seeded fault: a reader whose socket was replaced closes the queue.      *)
ReadFailsAnnouncing(s) ==
  /\ reader[s] = "read" /\ wire[s] = <<>> /\ conn[s] # "open"
  /\ IF ws # s THEN At(s, "announce") ELSE At(s, "done")
  /\ UNCHANGED <<main, call, chrome, closed, sender, queue, dispatcher, late>>

(* A socket that was replaced: once more round the loop.  Otherwise the    *)
(* error is permanent.                                                     *)
ReadFails(s) ==
  /\ reader[s] = "read" /\ wire[s] = <<>> /\ conn[s] # "open"
  /\ IF ws # s THEN At(s, "top") ELSE At(s, "done")
  /\ UNCHANGED <<main, call, chrome, closed, sender, queue, dispatcher, late>>

(* Sending to remote.events                                                *)
Put(s, event, then) ==
  \/ /\ ~ ended /\ Len(events) < EventCap
     /\ events' = Append(events, event) /\ At(s, then)
     /\ UNCHANGED <<ended, panicked>>
  \/ /\ ended /\ panicked' = TRUE
     /\ UNCHANGED <<events, ended, reader>>

(* The select on remote.events and remote.closed                           *)
Enqueue(s) ==
  /\ reader[s] = "queue"
  /\ \/ Put(s, "event", "top")
     \/ closed /\ At(s, "announce") /\ UNCHANGED queue
  /\ UNCHANGED <<main, call, chrome, closed, sender, dispatcher, late>>

Announce(s) ==
  /\ reader[s] = "announce"
  /\ Put(s, "closed", "finish")
  /\ UNCHANGED <<main, call, chrome, closed, sender, dispatcher, late>>

(* close(remote.events)                                                    *)
Finish(s) ==
  /\ reader[s] = "finish" /\ At(s, "done")
  /\ ended' = TRUE /\ panicked' = ended
  /\ UNCHANGED <<main, call, chrome, closed, sender, events, dispatcher, late>>

Reader(s) ==
  \/ Loop(s) \/ Read(s) \/ ReadFails(s) \/ Enqueue(s) \/ Announce(s) \/ Finish(s)

----------------------------------------------------------------------------
(* sendMessages, processEvents and Chrome                                  *)

SendMessages ==
  /\ sender
  /\ \/ call = "asked" /\ call' = "sent" /\ UNCHANGED sender
     \/ closed /\ sender' = FALSE /\ UNCHANGED call
  /\ UNCHANGED <<main, chrome, closed, reader, queue, dispatcher, late>>

ProcessEvents ==
  /\ dispatcher
  /\ \/ events # <<>> /\ events' = Tail(events) /\ UNCHANGED dispatcher
     \/ events = <<>> /\ ended /\ dispatcher' = FALSE /\ UNCHANGED events
  /\ UNCHANGED <<main, call, chrome, closed, reader, sender, ended, panicked, late>>

Emit ==
  /\ conn[1] = "open" /\ sent < MaxEvents
  /\ wire' = [wire EXCEPT ![1] = Append(@, "event")]
  /\ sent' = sent + 1
  /\ UNCHANGED <<main, call, conn, closed, reader, sender, queue, dispatcher, late>>

Answer ==
  /\ call = "sent" /\ conn[ws] = "open"
  /\ call' = "answered"
  /\ wire' = [wire EXCEPT ![ws] = Append(@, "reply")]
  /\ UNCHANGED <<main, conn, sent, closed, reader, sender, queue, dispatcher, late>>

(* Chrome ends because it was asked to, or by itself, and then what it     *)
(* wrote may be cut off.                                                   *)
ChromeEnds ==
  /\ ChromeUp
  /\ \/ /\ \/ pc = "closing" /\ call \in {"answered", "received"}
           \/ pc = "close" /\ ws # Nil
        /\ UNCHANGED wire
     \/ ChromeMayDie /\ \E n \in 0..MaxEvents :
          wire' = [s \in Sockets |->
                     IF n < Len(wire[s]) THEN SubSeq(wire[s], 1, n) ELSE wire[s]]
  /\ conn' = [s \in Sockets |-> IF conn[s] = "open" THEN "Chrome" ELSE conn[s]]
  /\ UNCHANGED <<main, call, sent, closed, reader, sender, queue, dispatcher, late>>

Next ==
  /\ ~ panicked
  /\ \/ Main \/ SendMessages \/ ProcessEvents \/ Emit \/ Answer \/ ChromeEnds
     \/ \E s \in Sockets : Reader(s)

(* Goroutines run, and a Chrome that is up answers.                        *)
Spec ==
  /\ Init /\ [][Next]_vars
  /\ WF_vars(~ panicked /\ Main) /\ WF_vars(~ panicked /\ SendMessages)
  /\ WF_vars(~ panicked /\ ProcessEvents) /\ WF_vars(~ panicked /\ Answer)
  /\ \A s \in Sockets : WF_vars(~ panicked /\ Reader(s))

----------------------------------------------------------------------------

(* The type of the state.                                                  *)
TypeOK ==
  /\ ws \in Sockets \cup {Nil} /\ old \in Sockets \cup {Nil}
  /\ call \in {"none", "asked", "sent", "answered", "received"}
  /\ conn \in [Sockets -> {"none", "open", "us", "Chrome"}]
  /\ wire \in [Sockets -> Seq({"event", "reply"})] /\ sent \in 0..MaxEvents
  /\ reader \in [Sockets -> {"none", "top", "read", "queue", "announce",
                             "finish", "done"}]
  /\ events \in Seq({"event", "closed"}) /\ Len(events) <= EventCap
  /\ closed \in BOOLEAN /\ sender \in BOOLEAN /\ dispatcher \in BOOLEAN
  /\ ended \in BOOLEAN /\ panicked \in BOOLEAN /\ late \in BOOLEAN

ClosedComesLast == \A i \in 1..Len(events) : events[i] = "closed" => i = Len(events)

(***************************************************************************)
(* Unless the debugger has been switched to another tab, nobody sends to   *)
(* the queue after it was closed or closes it again, and EventClosed is    *)
(* the last event, whatever fails.  After a switch the code does not give  *)
(* this: the reader of the replaced socket may still be there when Close   *)
(* closes the channels, and then both readers close the queue.  Nothing    *)
(* else makes the program panic.                                           *)
(***************************************************************************)
QueueClosedOnce ==
  /\ reader[2] = "none" => ~ panicked /\ ClosedComesLast
  /\ panicked => late

(* readMessages of a socket is in its loop.                                *)
Listening(s) == reader[s] \in {"top", "read", "queue"}

(***************************************************************************)
(* The switch between the tabs loses no request and no reply: a request    *)
(* has a socket, a sender and a reader as long as Chrome is there, and a   *)
(* reply is on the socket where its caller's reader is, and nowhere else.  *)
(***************************************************************************)
ReplyReachesCaller ==
  /\ call \in {"asked", "sent", "answered"} =>
       /\ ws # Nil /\ sender
       /\ conn[ws] = "open" => Listening(ws)
       /\ conn[ws] = "open" /\ call = "answered" =>
            \E i \in 1..Len(wire[ws]) : wire[ws][i] = "reply"
  /\ \A s \in Sockets : \A i \in 1..Len(wire[s]) :
       wire[s][i] = "reply" => call = "answered" /\ ws = s /\ Listening(s)

(***************************************************************************)
(* Once Cleanup is over, nothing keeps a reader: no socket is open that it *)
(* could read for ever, and processEvents still makes room in the queue    *)
(* until the queue is closed.                                              *)
(***************************************************************************)
ReadersCanEnd ==
  pc = "done" => \A s \in Alive : conn[s] # "open" /\ (ended \/ dispatcher)

NoAnswerComes ==
  /\ ws # Nil /\ conn[ws] = "Chrome"
  /\ call \in {"asked", "sent", "answered"}
  /\ \A i \in 1..Len(wire[ws]) : wire[ws][i] # "reply"

(***************************************************************************)
(* Printing and Cleanup come to their end, unless Chrome goes away without *)
(* an answer, or the program panics because the two readers of a switch    *)
(* both close the queue (see QueueClosedOnce): the switch between the tabs *)
(* loses no reply.                                                         *)
(***************************************************************************)
CleanupEnds == <>(pc = "done" \/ panicked \/ NoAnswerComes)

(***************************************************************************)
(* Once Cleanup is over every reader ends, also that of a socket which was *)
(* replaced, whether the new tab could be dialled or not; or the program   *)
(* panics, as it may after a switch (see QueueClosedOnce).  Nothing is     *)
(* said of processEvents: if the last socket could not be dialled, nobody  *)
(* closes the queue and it waits there for ever.                           *)
(***************************************************************************)
ReadersEnd == (pc = "done") ~> (Alive = {} \/ panicked)

============================================================================
