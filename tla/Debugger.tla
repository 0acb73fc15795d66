------------------------------ MODULE Debugger ------------------------------
(***************************************************************************)
(* The connection of one scan to its Chrome: godet.RemoteDebugger          *)
(* (vendor/github.com/raff/godet/godet.go) and the browser at the other    *)
(* end.  Chrome writes replies and events to one websocket; readMessages   *)
(* takes them off in that order, hands a reply to the caller that waits    *)
(* for it and queues an event for which a callback is registered;          *)
(* processEvents runs the callbacks one after the other.                   *)
(*                                                                         *)
(* A scan has one goroutine that sends requests, so there is at most one   *)
(* request outstanding.  The browser is not fair and may go away, while    *)
(* the library sets no deadline on anything it waits for.                  *)
(*                                                                         *)
(* This module gives the state and the steps; module PageScan extends it   *)
(* with the goroutine that scans a page and with what Chrome sends.        *)
(***************************************************************************)
EXTENDS Integers, Sequences

CONSTANTS
  EventCap,      (* capacity of remote.events (256 in godet.go:239)         *)
  ChromeMayDie   (* whether the browser may go away during the scan         *)

ASSUME DebuggerAssumption == EventCap \in Nat \ {0} /\ ChromeMayDie \in BOOLEAN

VARIABLES
  chrome,     (* "up" or "gone"                                             *)
  wire,       (* what Chrome wrote to the socket and nobody has read        *)
  reader,     (* the readMessages goroutine: "reading" or "stopped"         *)
  events,     (* remote.events                                              *)
  callbacks,  (* the methods with an entry in remote.callbacks              *)
  call        (* the outstanding request, or Idle                           *)

debuggerVars == <<chrome, wire, reader, events, callbacks, call>>

NoResult == [ok |-> FALSE]
Idle == [at |-> "idle", method |-> "", result |-> NoResult]

DebuggerInit ==
  /\ chrome = "up"
  /\ wire = <<>>
  /\ reader = "reading"
  /\ events = <<>>
  /\ callbacks = {}
  /\ call = Idle

----------------------------------------------------------------------------
(* The goroutine of the scan                                               *)

CallbackEvent(methods) == callbacks' = callbacks \cup methods

(***************************************************************************)
(* sendRawReplyRequest up to the receive from responseChan.  sendMessages  *)
(* writes the command to the socket; a write to a Chrome that is gone is   *)
(* logged and forgotten, which is the same as never being answered.        *)
(***************************************************************************)
SendRequest(method) ==
  /\ call = Idle
  /\ call' = [at |-> "sent", method |-> method, result |-> NoResult]
  /\ UNCHANGED <<chrome, wire, reader, events, callbacks>>

(* The receive from responseChan                                           *)
ReceiveReply(method) ==
  /\ call.at = "received"
  /\ call.method = method
  /\ call' = Idle
  /\ UNCHANGED <<chrome, wire, reader, events, callbacks>>

----------------------------------------------------------------------------
(* Chrome                                                                  *)

Reply(method, result) ==
  /\ chrome = "up"
  /\ call.at = "sent"
  /\ call.method = method
  /\ call' = [call EXCEPT !.at = "answered"]
  /\ wire' = Append(wire, [kind |-> "reply", result |-> result])
  /\ UNCHANGED <<chrome, reader, events, callbacks>>

Emit(method, params) ==
  /\ chrome = "up"
  /\ wire' = Append(wire, [kind |-> "event", method |-> method, params |-> params])
  /\ UNCHANGED <<chrome, reader, events, callbacks, call>>

(* The process ends; the kernel may still deliver some of what it wrote.   *)
ChromeGone ==
  /\ ChromeMayDie
  /\ chrome = "up"
  /\ chrome' = "gone"
  /\ \E k \in 0..Len(wire) : wire' = SubSeq(wire, 1, k)
  /\ UNCHANGED <<reader, events, callbacks, call>>

----------------------------------------------------------------------------
(* readMessages and processEvents                                          *)

(* ch <- message.Result: the channel has room for the one reply.           *)
ReadReply ==
  /\ reader = "reading"
  /\ wire # <<>> /\ Head(wire).kind = "reply"
  /\ call' = [call EXCEPT !.at = "received", !.result = Head(wire).result]
  /\ wire' = Tail(wire)
  /\ UNCHANGED <<chrome, reader, events, callbacks>>

(* Seeded fault: an event that finds the queue full is dropped.            *)
ReadEventDropping ==
  /\ reader = "reading"
  /\ wire # <<>> /\ Head(wire).kind = "event"
  /\ events' = IF Head(wire).method \in callbacks /\ Len(events) < EventCap
               THEN Append(events, Head(wire))
               ELSE events
  /\ wire' = Tail(wire)
  /\ UNCHANGED <<chrome, reader, callbacks, call>>

(* An event nobody registered for is dropped; when the queue is full the   *)
(* reader waits, and everything behind the event waits with it.            *)
ReadEvent ==
  /\ reader = "reading"
  /\ wire # <<>> /\ Head(wire).kind = "event"
  /\ \/ /\ Head(wire).method \in callbacks
        /\ Len(events) < EventCap
        /\ events' = Append(events, Head(wire))
     \/ /\ Head(wire).method \notin callbacks
        /\ UNCHANGED events
  /\ wire' = Tail(wire)
  /\ UNCHANGED <<chrome, reader, callbacks, call>>

(***************************************************************************)
(* A permanent read error ends readMessages.  It wakes no caller, does not *)
(* close remote.events and leaves remote.ws in place, so that later        *)
(* requests are still sent and waited for.                                 *)
(***************************************************************************)
ReadFailure ==
  /\ reader = "reading"
  /\ chrome = "gone" /\ wire = <<>>
  /\ reader' = "stopped"
  /\ UNCHANGED <<chrome, wire, events, callbacks, call>>

(* Seeded fault: several goroutines take events from the queue.            *)
NextEventUnordered(ev) ==
  \E i \in 1..Len(events) :
    /\ ev = events[i]
    /\ events' = SubSeq(events, 1, i - 1) \o SubSeq(events, i + 1, Len(events))
    /\ UNCHANGED <<chrome, wire, reader, callbacks, call>>

(* processEvents takes the next event; its callback runs in the same step. *)
NextEvent(ev) ==
  /\ events # <<>>
  /\ ev = Head(events)
  /\ events' = Tail(events)
  /\ UNCHANGED <<chrome, wire, reader, callbacks, call>>

----------------------------------------------------------------------------

DebuggerTypeOK ==
  /\ chrome \in {"up", "gone"}
  /\ reader \in {"reading", "stopped"}
  /\ Len(events) <= EventCap
  /\ \A i \in 1..Len(wire) : wire[i].kind \in {"event", "reply"}
  /\ \A i \in 1..Len(events) : events[i].kind = "event"
  /\ call.at \in {"idle", "sent", "answered", "received"}

============================================================================
