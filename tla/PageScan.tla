------------------------------ MODULE PageScan ------------------------------
(***************************************************************************)
(* Task.Parse (parser/handler.go:146-320) with the part of parseResponse   *)
(* that talks to the browser: the scan's goroutine registers callbacks,    *)
(* arms the timeout, enables DevTools domains, navigates, waits for one    *)
(* signal, takes a snapshot of the collected records, asks Chrome for its  *)
(* cookies and takes a screenshot.  Meanwhile Chrome sends events, godet's *)
(* goroutines deliver them, and every load event starts a goroutine that   *)
(* sleeps for WaitAfterPageLoad before it signals.                         *)
(*                                                                         *)
(* Time is left out: the timeout and the sleeps end at any moment.  Events *)
(* carry their number in the order in which Chrome emits them; "trace" is  *)
(* that order, kept for the properties.                                    *)
(* What the content of an event adds, such as the response of a redirect   *)
(* that comes with the next request, is left to module ReportBuilder.      *)
(***************************************************************************)
EXTENDS Debugger, FiniteSets

CONSTANTS
  ReqIDs,     (* request ids                                                *)
  NoID,       (* the empty request id, which Chrome does not use            *)
  Times,      (* DevTools timestamps                                        *)
  Cookies,    (* cookie names                                               *)
  NoCookie,   (* a response without a Set-Cookie header                     *)
  Domains,    (* the domains Parse enables, in order                        *)
  MaxEvents   (* bound: events Chrome emits                                 *)

ASSUME ScanAssumption ==
  /\ NoID \notin ReqIDs /\ Times \subseteq Nat
  /\ NoCookie \notin Cookies
  /\ Domains \in Seq(STRING) \ {<<>>}
  /\ MaxEvents \in Nat

VARIABLES
  pc,         (* where the scan's goroutine is                              *)
  domain,     (* the domain it enables next                                 *)
  timer,      (* time.AfterFunc: "unset", "armed", "fired" or "stopped"     *)
  sleepers,   (* goroutines started by load events, by the event's number   *)
  pageWait,   (* the channel, capacity 1; an element names its sender: 0    *)
              (* for the timer, otherwise the number of the load event      *)
  woke,       (* the element that ended the wait                            *)
  enabled,    (* Chrome: the domains that are enabled                       *)
  jar,        (* Chrome: who set each cookie: "nobody", "http" or "script"  *)
  report,     (* cookie names listed: from responses, and from Chrome only  *)
  records, snapshot, delivered,    (* the scan's recordCollector            *)
  trace,      (* history: the events Chrome has emitted                     *)
  handled     (* history: the number of events whose callback has run       *)

RC == INSTANCE RecordCollector WITH Params <- 1..MaxEvents

taskVars == <<pc, domain, timer, sleepers, pageWait, woke, report>>
browserVars == <<enabled, jar, trace>>
collectorVars == <<records, snapshot, delivered>>
vars == <<debuggerVars, taskVars, browserVars, collectorVars, handled>>

NetworkMethods == {"Network.requestWillBeSent", "Network.responseReceived"}
LoadMethods == {"Page.frameStoppedLoading", "Page.loadEventFired"}
Ended == {"done", "failed"}

Init ==
  /\ DebuggerInit
  /\ pc = "start" /\ domain = 1
  /\ timer = "unset"
  /\ sleepers = {} /\ pageWait = <<>> /\ woke = 0
  /\ report = [http |-> {}, script |-> {}]
  /\ enabled = {} /\ jar = [c \in Cookies |-> "nobody"]
  /\ RC!Init
  /\ trace = <<>> /\ handled = 0

----------------------------------------------------------------------------
(* The scan's goroutine                                                    *)

GoTo(p) ==
  /\ pc' = p
  /\ UNCHANGED <<domain, timer, sleepers, pageWait, woke, report>>

(* Parse returns: the deferred tm.Stop() stops a timer that has not fired. *)
Return(p) ==
  /\ pc' = p
  /\ timer' = IF timer = "armed" THEN "stopped" ELSE timer
  /\ UNCHANGED <<domain, sleepers, pageWait, woke>>

(* url.Parse refuses the site.                                             *)
RejectURL ==
  /\ pc = "start"
  /\ GoTo("failed")
  /\ UNCHANGED <<debuggerVars, browserVars, collectorVars, handled>>

(* The callbacks and the timer are in place before a domain is enabled.    *)
Register ==
  /\ pc = "start"
  /\ pc' = "enable"
  /\ CallbackEvent(NetworkMethods \cup LoadMethods)
  /\ timer' = "armed"
  /\ UNCHANGED <<chrome, wire, reader, events, call, domain, sleepers,
                 pageWait, woke, report, browserVars, collectorVars, handled>>

EnableDomain ==
  /\ pc = "enable"
  /\ SendRequest(Domains[domain])
  /\ UNCHANGED <<taskVars, browserVars, collectorVars, handled>>

(* The result of enabling a domain is not looked at.                       *)
DomainEnabled ==
  /\ pc = "enable"
  /\ ReceiveReply(Domains[domain])
  /\ IF domain < Len(Domains)
     THEN domain' = domain + 1 /\ pc' = pc
     ELSE pc' = "navigate" /\ UNCHANGED domain
  /\ UNCHANGED <<timer, sleepers, pageWait, woke, report, browserVars,
                 collectorVars, handled>>

Navigate ==
  /\ pc = "navigate"
  /\ SendRequest("Page.navigate")
  /\ UNCHANGED <<taskVars, browserVars, collectorVars, handled>>

(* A reply with an errorText ends the scan.                                *)
Navigated ==
  /\ pc = "navigate"
  /\ ReceiveReply("Page.navigate")
  /\ IF call.result.ok
     THEN GoTo("wait")
     ELSE Return("failed") /\ UNCHANGED report
  /\ UNCHANGED <<browserVars, collectorVars, handled>>

(* <-pageWait                                                              *)
EndWait ==
  /\ pc = "wait"
  /\ pageWait # <<>>
  /\ woke' = Head(pageWait)
  /\ pageWait' = Tail(pageWait)
  /\ pc' = "parse"
  /\ UNCHANGED <<domain, timer, sleepers, report, debuggerVars, browserVars,
                 collectorVars, handled>>

(* parseResponse: rc.get()                                                 *)
TakeSnapshot ==
  /\ pc = "parse"
  /\ RC!Get
  /\ GoTo("cookies")
  /\ UNCHANGED <<debuggerVars, browserVars, handled>>

GetAllCookies ==
  /\ pc = "cookies"
  /\ SendRequest("Network.getCookies")
  /\ UNCHANGED <<taskVars, browserVars, collectorVars, handled>>

(* The cookies that responses of the snapshot set                          *)
SnapshotCookies ==
  {trace[r.params].params.cookie :
     r \in {q \in UNION {RC!ElementsOf(snapshot[id]) : id \in ReqIDs} :
              ~ q.isRequest}} \ {NoCookie}

(* Seeded fault: cookies known from responses are listed a second time.    *)
CookiesReceivedTwice ==
  /\ pc = "cookies"
  /\ ReceiveReply("Network.getCookies")
  /\ IF call.result.ok
     THEN /\ report' = [http |-> SnapshotCookies, script |-> call.result.cookies]
          /\ pc' = "screenshot"
          /\ UNCHANGED <<domain, timer, sleepers, pageWait, woke>>
     ELSE Return("failed") /\ UNCHANGED report
  /\ UNCHANGED <<browserVars, collectorVars, handled>>

(* The rest of parseResponse; an error reply ends the scan.                *)
CookiesReceived ==
  /\ pc = "cookies"
  /\ ReceiveReply("Network.getCookies")
  /\ IF call.result.ok
     THEN /\ report' = [http |-> SnapshotCookies,
                        script |-> call.result.cookies \ SnapshotCookies]
          /\ pc' = "screenshot"
          /\ UNCHANGED <<domain, timer, sleepers, pageWait, woke>>
     ELSE Return("failed") /\ UNCHANGED report
  /\ UNCHANGED <<browserVars, collectorVars, handled>>

CaptureScreenshot ==
  /\ pc = "screenshot"
  /\ SendRequest("Page.captureScreenshot")
  /\ UNCHANGED <<taskVars, browserVars, collectorVars, handled>>

(* A screenshot that fails leaves the report without an image.             *)
ScreenshotTaken ==
  /\ pc = "screenshot"
  /\ ReceiveReply("Page.captureScreenshot")
  /\ Return("done") /\ UNCHANGED report
  /\ UNCHANGED <<browserVars, collectorVars, handled>>

Scan ==
  \/ RejectURL \/ Register
  \/ EnableDomain \/ DomainEnabled
  \/ Navigate \/ Navigated
  \/ EndWait \/ TakeSnapshot
  \/ GetAllCookies \/ CookiesReceived
  \/ CaptureScreenshot \/ ScreenshotTaken

----------------------------------------------------------------------------
(* The goroutines that signal                                              *)

(* Seeded fault: the channel has no buffer, so that a signal nobody is     *)
(* waiting for is lost.                                                    *)
SignalUnbuffered(sender) ==
  pageWait' = IF pc = "wait" /\ pageWait = <<>> THEN <<sender>> ELSE pageWait

(* Seeded fault: the channel takes every signal.                           *)
SignalQueueing(sender) == pageWait' = Append(pageWait, sender)

(* select { case pageWait <- struct{}{}: default: }                        *)
Signal(sender) ==
  pageWait' = IF pageWait = <<>> THEN <<sender>> ELSE pageWait

TimerFires ==
  /\ timer = "armed"
  /\ timer' = "fired"
  /\ Signal(0)
  /\ UNCHANGED <<pc, domain, sleepers, woke, report, debuggerVars,
                 browserVars, collectorVars, handled>>

SleepEnds(n) ==
  /\ n \in sleepers
  /\ sleepers' = sleepers \ {n}
  /\ Signal(n)
  /\ UNCHANGED <<pc, domain, timer, woke, report, debuggerVars, browserVars,
                 collectorVars, handled>>

----------------------------------------------------------------------------
(* The callbacks, run by processEvents                                     *)

(* A data: URL is ignored.                                                 *)
Tracked(ev) == ev.method \in NetworkMethods /\ ~ ev.params.data

NetworkCallback(ev) ==
  /\ IF Tracked(ev)
     THEN RC!AddEvent(RC!NewRecord(ev.method = "Network.requestWillBeSent",
                        ev.params.id, ev.params.time, ev.params.n))
     ELSE UNCHANGED collectorVars
  /\ UNCHANGED taskVars

LoadCallback(ev) ==
  /\ sleepers' = sleepers \cup {ev.params.n}
  /\ UNCHANGED <<pc, domain, timer, pageWait, woke, report, collectorVars>>

ProcessEvent ==
  /\ \E ev \in {events[i] : i \in 1..Len(events)} :
       /\ NextEvent(ev)
       /\ IF ev.method \in NetworkMethods
          THEN NetworkCallback(ev)
          ELSE LoadCallback(ev)
  /\ handled' = handled + 1
  /\ UNCHANGED browserVars

----------------------------------------------------------------------------
(* What Chrome does                                                        *)

EmitEvent(method, params) ==
  /\ Len(trace) < MaxEvents
  /\ Emit(method, params)
  /\ trace' = Append(trace, [method |-> method, params |-> params])
  /\ UNCHANGED <<enabled, taskVars, collectorVars, handled>>

(* A request, or a response, which may set a cookie.                       *)
NetworkEvent(method, id, time, data, cookie) ==
  /\ "Network.enable" \in enabled
  /\ EmitEvent(method, [n |-> Len(trace) + 1, id |-> id, time |-> time,
                        data |-> data, cookie |-> cookie])
  /\ cookie # NoCookie =>
       method = "Network.responseReceived" /\ ~ data /\ jar[cookie] = "nobody"
  /\ jar' = [c \in Cookies |-> IF c = cookie THEN "http" ELSE jar[c]]

(* Any frame stops loading, or the page's load event fires.                *)
LoadEvent(method) ==
  /\ "Page.enable" \in enabled
  /\ EmitEvent(method, [n |-> Len(trace) + 1])
  /\ UNCHANGED jar

(* A script of the page sets a cookie.                                     *)
ScriptCookie(c) ==
  /\ chrome = "up"
  /\ pc \notin {"start", "enable"}
  /\ jar[c] = "nobody"
  /\ jar' = [jar EXCEPT ![c] = "script"]
  /\ UNCHANGED <<debuggerVars, taskVars, enabled, trace, collectorVars, handled>>

AnswerEnable ==
  /\ \E ok \in BOOLEAN :
       /\ Reply(Domains[domain], [ok |-> ok])
       /\ enabled' = IF ok THEN enabled \cup {Domains[domain]} ELSE enabled
  /\ UNCHANGED <<jar, trace, taskVars, collectorVars, handled>>

AnswerCookies ==
  /\ \/ Reply("Network.getCookies", NoResult)
     \/ Reply("Network.getCookies",
          [ok |-> TRUE, cookies |-> {c \in Cookies : jar[c] # "nobody"}])
  /\ UNCHANGED <<taskVars, browserVars, collectorVars, handled>>

AnswerOther ==
  /\ \E method \in {"Page.navigate", "Page.captureScreenshot"}, ok \in BOOLEAN :
       Reply(method, [ok |-> ok])
  /\ UNCHANGED <<taskVars, browserVars, collectorVars, handled>>

Answer == AnswerEnable \/ AnswerCookies \/ AnswerOther

Browser ==
  \/ \E method \in NetworkMethods, id \in ReqIDs, time \in Times,
        data \in BOOLEAN, cookie \in Cookies \cup {NoCookie} :
       NetworkEvent(method, id, time, data, cookie)
  \/ \E method \in LoadMethods : LoadEvent(method)
  \/ \E c \in Cookies : ScriptCookie(c)
  \/ ChromeGone /\ UNCHANGED <<taskVars, browserVars, collectorVars, handled>>

Reader ==
  /\ ReadReply \/ ReadEvent \/ ReadFailure
  /\ UNCHANGED <<taskVars, browserVars, collectorVars, handled>>

Next ==
  \/ Scan
  \/ TimerFires \/ (\E n \in sleepers : SleepEnds(n))
  \/ Reader \/ ProcessEvent
  \/ Browser \/ Answer

(***************************************************************************)
(* Every goroutine runs and every timer and sleep ends.  A Chrome that is  *)
(* up answers; nothing else it does is fair.                               *)
(***************************************************************************)
Fairness ==
  /\ WF_vars(Scan)
  /\ WF_vars(TimerFires)
  /\ WF_vars(\E n \in sleepers : SleepEnds(n))
  /\ WF_vars(Reader)
  /\ WF_vars(ProcessEvent)
  /\ WF_vars(Answer)

Spec == Init /\ [][Next]_vars /\ Fairness

----------------------------------------------------------------------------

(* The type of the state.                                                  *)
TypeOK ==
  /\ DebuggerTypeOK
  /\ pc \in {"start", "enable", "navigate", "wait", "parse", "cookies",
             "screenshot"} \cup Ended
  /\ domain \in 1..Len(Domains)
  /\ timer \in {"unset", "armed", "fired", "stopped"}
  /\ sleepers \subseteq 1..Len(trace)
  /\ Len(pageWait) <= 1
  /\ woke \in 0..Len(trace)
  /\ jar \in [Cookies -> {"nobody", "http", "script"}]
  /\ handled \in 0..Len(trace)

(* The number of events among the first k messages on the socket           *)
EventsUpTo(k) == Cardinality({i \in 1..k : wire[i].kind = "event"})

(***************************************************************************)
(* Between Chrome and the callbacks no event is lost or overtaken: the     *)
(* events in the queue, and then those on the socket, are the ones that    *)
(* follow the last one handled, and while Chrome is up they are all that   *)
(* it emitted since.  This needs the callbacks to be registered before a   *)
(* domain is enabled, for readMessages drops what nobody registered for.   *)
(***************************************************************************)
NoEventLost ==
  /\ \A i \in 1..Len(events) : events[i].params.n = handled + i
  /\ \A i \in 1..Len(wire) : wire[i].kind = "event" =>
       wire[i].params.n = handled + Len(events) + EventsUpTo(i)
  /\ chrome = "up" => handled + Len(events) + EventsUpTo(Len(wire)) = Len(trace)

InSnapshot(n) ==
  \E id \in ReqIDs : \E r \in RC!ElementsOf(snapshot[id]) : r.params = n

SnapshotTaken == pc \in {"cookies", "screenshot", "done"}

(***************************************************************************)
(* When a load event ends the wait, every request and response that Chrome *)
(* emitted before that event is in the snapshot the report is made from,   *)
(* although the signal reaches the scan through another goroutine than the *)
(* records do.                                                             *)
(***************************************************************************)
LoadWakeSeesEarlierTraffic ==
  SnapshotTaken /\ woke > 0 =>
    \A n \in 1..woke - 1 : Tracked(trace[n]) => InSnapshot(n)

(***************************************************************************)
(* A cookie set by a response that came before the load event which ended  *)
(* the wait is reported with that response.                                *)
(***************************************************************************)
EarlyCookiesAttributed ==
  pc \in {"screenshot", "done"} /\ woke > 0 =>
    \A n \in 1..woke - 1 :
      /\ trace[n].method = "Network.responseReceived"
      /\ trace[n].params.cookie # NoCookie
      => trace[n].params.cookie \in report.http \ report.script

(* The request whose reply the scan waits for                              *)
Awaited ==
  CASE pc = "enable" -> Domains[domain]
    [] pc = "navigate" -> "Page.navigate"
    [] pc = "cookies" -> "Network.getCookies"
    [] pc = "screenshot" -> "Page.captureScreenshot"
    [] OTHER -> "none"

(***************************************************************************)
(* What the scan waits for is on its way.  A signal that came too early is *)
(* in the channel, and otherwise the timer is still to come; the           *)
(* outstanding request is the one the scan waits for; and a reply Chrome   *)
(* has written is on the socket, with a reader that has not stopped.       *)
(***************************************************************************)
NothingAwaitedIsLost ==
  /\ pc = "wait" => pageWait # <<>> \/ timer = "armed"
  /\ call.at # "idle" => call.method = Awaited
  /\ chrome = "up" /\ call.at = "answered" =>
       reader = "reading" /\ \E i \in 1..Len(wire) : wire[i].kind = "reply"

(***************************************************************************)
(* Unless Chrome goes away, every scan ends, even if no page ever loads    *)
(* and whenever the timeout or a load signal comes: before the scan waits  *)
(* for it, while it waits, or not before the other has come.               *)
(***************************************************************************)
ScanEnds == <>(pc \in Ended \/ chrome # "up")

(***************************************************************************)
(* "timeout for a single cookie scan" (main.go:41): once the timeout has   *)
(* fired, the scan ends.                                                   *)
(***************************************************************************)
TimeoutBoundsScan == (timer = "fired") ~> (pc \in Ended)

(***************************************************************************)
(* "cookie plant by scripts" (parser/parser.go:252): the cookies listed    *)
(* because only Chrome reported them were set by scripts.                  *)
(***************************************************************************)
ScriptListIsScripts ==
  pc \in {"screenshot", "done"} => \A c \in report.script : jar[c] = "script"

============================================================================
