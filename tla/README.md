# A TLA+ model of CookieScanner

CookieScanner starts a headless Chrome, lets it load a page through the DevTools
protocol, records the requests and responses the page causes, and reports the cookies
that were set and used. It runs as a command (`cli`) or as a server with an HTTP API,
which also mails reports asynchronously. The program has about 2000 lines of its own;
this directory models the part of them that holds state, together with the two vendored
libraries on whose exact behaviour that part depends (the DevTools client `godet` and
the weighted semaphore of `golang.org/x/sync`).

Read with the tools as usual: `tlc -config X.cfg M.tla` for a run, `tlapm M.tla` for a
module of proofs.

## 1. Inventory

| Component | Source | State | Operations | Talks to |
|---|---|---|---|---|
| Record collector | `parser/types.go` | a map from request id to records, a mutex | `addRequest`, `addResponse`, `get` | called by godet's event goroutine and by the scan |
| Page scan | `parser/handler.go` `Parse` | `pageWait` (capacity 1), the timer, the sleeping goroutines, `reportData` | `Parse` and its four callbacks | debugger connection, collector, report builder |
| Debugger connection | vendored `godet` | sockets, outstanding requests, callbacks, an event queue of 256 | requests, `CallbackEvent`, `readMessages`, `sendMessages`, `processEvents`, tabs, `Close` | Chrome |
| Report builder | `parser/parser.go` | local maps and slices | `parseResponse`, `estimatedDuration` | collector, debugger (`GetAllCookies`), classifier |
| Task lifecycle | `parser/handler.go` `Start`, `Cleanup` | the process, the connection, the user data directory | `Start`, `Cleanup` | the operating system, debugger |
| Inflight semaphore | vendored `semaphore.Weighted` | `cur`, the list of waiters | `Acquire`, `Release` | server |
| Report server | `cmd/server/main.go` | flags, `inflightSem`, the cached version | `/api/v1/analyze`, asynchronous e-mail jobs, `/` | task, semaphore, mail server |
| Report output | `parser/output.go`, `pdf.go`, `email.go` | temporary files | JSON, HTML, PDF, e-mail body | debugger (printing) |
| Command line client | `cmd/cli/main.go` | flags | one scan, its outputs | task |
| Version command | `cmd/version/main.go` | none | one version request | task |
| Entry point | `main.go`, `cmd/options.go` | flags, the classifier | the choice of a command or the server | all |
| Port choice | `utils/util.go` | none | `GetRandomPort` | the operating system |
| Classifier | `parser/classification.go` | a database handle | `GetCookieDetail` | an SQL database |

**Where it is hard.** A scan is at least five goroutines: the scan itself, godet's
sender, reader and event dispatcher, the timer, and one sleeper for each load event. The
load signal and the records of the traffic before it reach the scan along different
paths. Printing a PDF replaces the socket, and its reader, under the running connection.
Chrome answers when it likes, or dies. Go's maps are visited in any order. The server
runs many scans at a time, its clients leave while they queue, every step of a scan may
fail, and the clean-up relies on the order of deferred calls. The hazards, each with its
line and the properties that cover it, are listed in `PROJECT.json`; those that no
property covers say why.

**What makes each component correct.**
* Collector: nothing lost or doubled, chronological per request id, `get` a consistent cut.
* Page scan: what came before the load event is in the report; the scan ends; no signal blocks.
* Debugger connection: events arrive once and in order; a reply reaches its caller; at the
  end no reader stays, and the event queue is closed once and never written to again
  (which the code gives only as long as no second tab was opened, see section 3).
* Report builder: attribution to the first response that set a cookie, along redirects;
  use counts; one total; unclassified cookies last; the expiry shown is the lifetime that
  the first response to set the cookie gave it.
* Semaphore: no slot lost, doubled or idle; first come, first served.
* Server: one answer per request, at most `--max` scans, clean-up before the slot is given
  back, and every request whose Chrome stays ends. All visitors of the version page are
  told the same.
* Commands: an exit status that tells whether there is a result, and nothing left behind.

## 2. Modules

| Module | Models | Extends / instantiates |
|---|---|---|
| `RecordCollector` | the collector with atomic methods; the contract the scan relies on | |
| `CollectorLock` | the same methods between `Lock` and `Unlock`, step by step | extends and refines `RecordCollector` |
| `Debugger` | one godet connection during a scan and the browser's end of it | |
| `PageScan` | `Task.Parse`, its callbacks, timer and sleepers, and what Chrome may do | extends `Debugger`, instantiates `RecordCollector` |
| `DebuggerClose` | the end of a connection: the switch to the tab to print, and `Cleanup` | |
| `ReportBuilder` | `parseResponse`, loop by loop | extends `CookieExpiry` |
| `CookieExpiry` | the expiry column: `Duration` arithmetic and rounding | |
| `InflightLimit` | abstract: a first-come first-served limit | |
| `Semaphore` | `Weighted.Acquire` and `Release` | refines `InflightLimit` |
| `TaskLifecycle` | `Start` and `Cleanup`: process, connection, directory | |
| `ScanServer` | the analyze handler and asynchronous jobs | instantiates `Semaphore` and `TaskLifecycle` |
| `VersionPage` | the server's page `/` with its `sync.Once` | extends `TaskLifecycle` |
| `CommandLine` | the commands `cli` and `version` | extends `TaskLifecycle` |
| `EntryPoint` | the program: flags, then a command or the server | instantiates `CommandLine` and `VersionPage` |
| `MC*` | constants for TLC | the module of the same name |
| `*Proofs` | theorems (section 5) | the module of the same name, `TLAPS` |

### How state and actions correspond to the code

*RecordCollector.* `records` is `rc.records`; a request id without records is the empty
sequence. `AddEvent` is `addRequest` or `addResponse` with the whole of `addRecord`: the
early return for an empty id, the append and the stable sort. `Get` is `get`. A record
carries a stamp, the number of the event, standing for the identity of its parameter map.
`delivered` is a history of all events.

*CollectorLock.* Each of `addRecord` and `get` is cut at the points where the other
goroutine could see a difference: taking the lock, the append, the sort with the unlock;
and, for `get`, one step for each key of the map. The refinement mapping hides a record
that is appended but not sorted yet.

*Debugger.* `wire` is the socket from Chrome: replies and events in one stream.
`SendRequest`/`ReceiveReply` are the two ends of `sendRawReplyRequest`; `ReadReply`,
`ReadEvent` and `ReadFailure` are the branches of `readMessages`; `NextEvent` is a turn of
`processEvents`. A scan sends its requests from one goroutine, so one request is
outstanding at most. A failed write is logged by the library and otherwise the same as a
request that is never answered. `ReadFailure` wakes nobody, as in the code.

*PageScan.* `pc` walks through `Parse`: register the callbacks and arm the timer, enable
the domains one by one, navigate, wait, take the snapshot, ask for the cookies, take the
screenshot. `Signal` is the `select` with the empty `default`. Each callback runs in the
step in which its event leaves the queue, for one goroutine does both. `jar` is what
Chrome holds and who put it there; `trace` numbers Chrome's events. Chrome's own actions
are external: it emits events of an enabled domain, answers, and may die, losing the
tail of what it wrote.

*DebuggerClose.* Socket 1 leads to the page that was scanned, socket 2 to the tab to
print. `ws` is `remote.ws`; `NewTab`, `CloseSocket` and `Dial` are the steps of `connectWs`
between which readers run, `Close` and `CloseChannels` those of `Close`. `reader[s]` is the
place of a socket's `readMessages` in its loop: the test of `remote.closed` and of the
socket at the top, the blocking read, the `select` on the queue, and at the end
`EventClosed` and `close(remote.events)`. An event here only takes a place in the queue,
for what it says was `PageScan`'s matter. `panicked` is set where Go would panic, and
nothing happens after it. `late` is a history variable: whether the replaced socket still
had a reader when the channels were closed.

*ReportBuilder.* One step per iteration of each loop over a map (the next key is any key),
per record of a request id (`key` is the id, `left` its remaining records), per output
(`counted` of them are counted) and per cookie of Chrome's list. `RequestRecord` and
`ResponseRecord` are the two branches at `parser.go:91-165`. `count` is set where the code
sets it, after the rows of the responses' cookies (`parser.go:239`). An output's `from` is a
history field, the record that completed it; no action reads it. A row has its expiry:
the lifetime of its output's cookie (`ListHTTPCookie`) or of the one in Chrome's list
(`BrowserRow`). URLs, names and domains
are values; `parseHeaders` is reduced to the cookies it returns, each with its domain,
Max-Age and `Expires`, of which `CookieExpiry` says what becomes. The properties speak of the
*carriers*, the records that carry a response: a response, or a redirected request after a
request.

*CookieExpiry.* `Multiply` wraps around and `Sub` saturates as `time.Duration` and
`time.Time.Sub` do in a word that holds `DurationLimit`; `EstimatedDuration` is the switch
of the function of that name, with the result as a unit and a number of tenths. A Max-Age
that is zero or negative is -1, as in `net/http`, and 0 stands for none; the code goes by
`Expires` for both. `ReadSetCookies` is the date as `net/http` reads it, `Reparsed` what
`parseHeaders` makes of it.

*Semaphore.* A step is what happens between `mu.Lock` and `mu.Unlock`; the `select` in
`Acquire` is outside, so a context may end between the grant and its notice
(`SelectDone`, then `Cancel`). `ready` holds the requests whose channel is closed. A
request that is over may be used again as a new one.

*TaskLifecycle, ScanServer.* `at[r]` is the place of the goroutine of request `r` in
`analyzeFunc` or, for `kind[r] = "async"`, in `asyncEmailReport`; the two have the same
steps except where the text says so: the asynchronous job answers before it begins, waits
with a context that never ends, and goes on when `FormatEmail` fails. `ParseURL` fails before
Chrome is asked; `Parse` and, after the tab was opened over HTTP (`OpenPage`), `PrintPage` send
requests on the socket, so that each of them returns, with a result or an error, only while
Chrome runs: a request to a Chrome that is gone keeps its goroutine in "scan" or "printing"
for ever, and its slot with it. The deferred calls
are the steps `RemoveFiles`, `CloseBrowser`, `Reap` and `Release`, in this order. A failed
`Start` goes to `Release` directly, because the handler has not deferred `Cleanup` yet.
`orphans` counts the Chromes left running that way. `kind` becomes `"over"` at the end of
a request; the code has no such variable. `LoseConnection` is the dial to the PDF's tab
that fails: `remote.ws` is nil then, `CloseBrowser` fails at once and `Close` does nothing.

*VersionPage.* `once` is the state of `versionOnce`, `pc` the place inside its function,
whose error `err` becomes `versionErr` in the deferred assignment. `Visit` is a request
that arrives, `Respond` what it is told after `Do` has returned; `served` is the history
of the kinds of answers.

*CommandLine.* `Parse`, `OpenPage` and `PrintPage` are as in `ScanServer`. `asked` are the outputs the flags ask for, `wants` the ones the handler
goes by: JSON if there are none. The handler's branches return, so that `OutputHTML` and
`MakePage` need the earlier flags unset. `err` is the error the action returns to kingpin,
and `ignored` a history of the outputs whose failure the code drops: the shadowed error
of the JSON report, and a failed write of the HTML report.

*EntryPoint.* `ParseFlags` is kingpin's parse with the flags' actions, of which opening
the classifier's database may fail. After it the steps are those of the command or of the
server, one program sharing `pc`, `err` and the task.

## 3. Runs

| Run | Question | Bounds |
|---|---|---|
| `collector` | Does the mutex make the methods atomic, and is the content right for every order of events? | 2 ids, 3 timestamps, 3 events, at the grain of the lock: ties, reversals, a response before its request, an id-less event |
| `page_scan` | Is everything before the load event in the report, whatever is interleaved? | 3 events, a queue of 2 (so that it fills), Chrome may die |
| `page_scan_ends` | Is what the scan waits for ever lost, does does every scan end with a Chrome that stays? | 2 events, a queue of 1, Chrome may die |
| `page_scan_timeout` | *violation:* does the timeout bound the scan? | 1 event, Chrome may die |
| `page_scan_scripts` | *violation:* are cookies listed as scripts' really theirs? | 2 events |
| `report` | Attribution, counts and order of the report, and the expiry each row shows | 2 ids with every shape of record list, a request that names a cookie twice, 2 cookies, 3 replies of Chrome or an error; lifetimes around units and around the limits of a scaled-down `Duration`, a Max-Age that is zero or negative, dates in each form |
| `semaphore` | Is a slot ever lost, idle, or given out of turn? | 4 requests, 2 slots |
| `server` | One answer, `--max`, clean-up, a line that moves, and an end for every request that does not wait for a dead Chrome? | 2 requests, 1 slot, all report types, Chromes may die, one Chrome left over |
| `server_max` | *violation:* are there at most `--max` Chromes? | 2 requests, 1 slot, JSON only |
| `debugger_close` | Does a reply survive the switch of tabs, do the readers end, what does closing the queue twice take, does `Cleanup` end? | a queue of 2, 4 events, one tab to print, Chrome may die |
| `program` | Exit status, clean-up and end of a command; what the version page's visitors are told | every set of outputs, any step failing, 3 visitors who come again, Chrome may die |
| `program_errors` | *violation:* does a failed report make the command fail? | JSON only |

Why the bounds are enough: the collector's order is a matter of pairs of events on one id
and of a cut across two; a scan's race is between one load event, one earlier event and
the full queue; a slot can be misplaced with one holder, one waiter that leaves and one
that stays, and `semaphore` has one more of each; the server's paths are per request, and
requests meet only in the semaphore; a connection has two sockets in its life, and four
events fill its queue with one more in the reader's hands and one still unread. All
invariants and step properties of these runs are proved as well, for every value of the
constants (section 5), so that the runs need not be large.
The type invariants of the report builder, the server, the closing connection and the program
are proved only: their content is in the inductive invariants, and no run repeats it.
`MaxEvents` (collector, scan, close), `EventCap` (scan, close) and `OrphanCap` (server) are
the named bounds; requests and visitors come again without a bound.

`CHECK_DEADLOCK FALSE` is used where the system stops: a scan, a command or a closed
connection is over or hangs with its Chrome, a report is finished, and a server all of
whose scans hang has no step left.

### Violations: where code and text disagree

* **The timeout does not bound a scan.** The flag is documented as "timeout for a single
  cookie scan" (`main.go:41`), but the timer only ends the wait for the page. TLC's
  behaviour: Chrome goes away after the domains were enabled, the timer fires, and
  `Navigate` waits for ever. On the server the slot is lost with it.
* **Not all of the "cookie plant by scripts" are.** TLC's behaviour: the wait ends, the
  records are copied, a response sets a cookie, and Chrome lists it when asked
  (`parser.go:252`).
* **More Chromes than `--max`.** It is documented as "max inflight scan instance"
  (`cmd/server/main.go:134`). TLC's behaviour: `Start` gives up connecting, its Chrome
  stays, and the next request starts another one.
* **A JSON report that fails is a success.** "generate json report failed"
  (`cmd/cli/main.go:86`) is put into the `err` of the `if` statement's own block. TLC's
  behaviour: the scan works, `OutputJSON` fails, the command cleans up and exits with
  success, having printed nothing.

### Other observations, on which no run is spent

* When `Cleanup` asks the browser to close, Chrome closes the socket before `Close` is
  called. The reader then leaves its loop by the permanent error (`godet.go:462`), and
  neither `EventClosed` nor the end of the queue comes: `processEvents` stays for ever, one
  goroutine per scan. `ReadersEnd` is about the readers only.
* The reader of a replaced socket may still be about to look at `remote.closed` when
  `Close` runs. It and the current reader then both announce the end and both close the
  queue (`godet.go:507`), which panics, and the server with it. The window is the whole time
  of printing, so it takes a goroutine that is not run for as long, but it does happen in the
  model. `QueueClosedOnce` says that nothing else leads there: a scan that never dialled a
  second socket closes its queue once, as the last thing put into it, and a panic takes a
  replaced socket whose reader was still there when the channels were closed (`late`).
* `--json`, `--html` and `--pdf` given together shadow each other in this order: each branch
  of the handler returns (`cmd/cli/main.go:89`, `106`). `SuccessMeansOutput` therefore says that
  something was made, and not everything that was asked for.
* A `Max-Age` of more than 292 years overflows (`parser.go:216`) and the cookie may be
  shown as a session cookie; `ExpiryOfFirstSetter` claims nothing of such a value.
* A `Max-Age` that is zero or negative ends a cookie at once, but `parser.go:215` treats it like
  none and shows the time left until `Expires`; `ExpiryOfFirstSetter` says so.
* The column "Used Requests" (`pdf.go:131`) counts the occurrences of a name in headers
  (`parser.go:180`): a request that names a cookie in the headers reported with it and again
  in those reported with its response counts twice. `UsesCounted` says that every such
  request is counted, and that the number is that of the requests if each names the cookie
  once; a record list of the run has a request that names one twice.

Each property of a passing run can be broken by a plausible change of the code; the
changes are the definitions marked *seeded fault* and are listed under `mutants` in
`PROJECT.json`.

## 4. Fairness

Everywhere: goroutines and runtime timers are run by Go when they can take a step (weak
fairness of each goroutine's steps), and a Chrome that is up answers its requests. Nothing
else that Chrome does is fair: it need not emit an event, and it need not die. Clients,
visitors and users need not come, stay or leave, so `Visit`, the steps of `Client` and the
choice of a command are not fair either, and neither is a client that gives up.

A request to a Chrome that is gone is never answered, in the code as in the models. The
liveness properties say so instead of assuming it away, each as narrowly as it holds:
`ScanEnds` excuses a Chrome that is gone during the scan; `EveryRequestEnds` and
`CommandEnds` excuse a request that waits for a Chrome that is gone in `Parse`, while
printing, or when `Cleanup` asks it to close (`Unanswered`), and no other failure;
`EveryVisitAnswered` excuses only the last of the three, for the version is asked over HTTP,
which fails when Chrome is gone. `CleanupEnds` excuses a socket that Chrome has closed with a
request outstanding and no reply left on it (`NoAnswerComes`), and both it and `ReadersEnd` a
program that the double close of the queue has stopped (`panicked`).
`NobodyWaitsForever` needs that scans end, which `EveryRequestEnds`
shows of the server as far as Chromes answer.

## 5. Proofs

Each theorem is about every value of the constants that its module's assumption allows;
none of the proofs assumes anything else. Each invariant is proved from an inductive one:
it holds initially, is kept by every step, with one lemma or step for each action, and
implies the property.

| Module | Proved | From |
|---|---|---|
| `RecordCollectorProofs` | `TypeOK`, `Chronological`, `EveryEventOnce`, `SnapshotIsConsistentCut` | `CollectorAssumption` |
| `CollectorLockProofs` | `LockTypeOK`, `ImplementsCollector`, and `SnapshotIsConsistentCut` through it | `CollectorAssumption`, `LockAssumption` |
| `PageScanProofs` | `TypeOK`, `NoEventLost`, `LoadWakeSeesEarlierTraffic`, `EarlyCookiesAttributed`, `NothingAwaitedIsLost`, and the collector's properties in a scan | `ScanAssumption`, `DebuggerAssumption` |
| `DebuggerCloseProofs` | `TypeOK`, `QueueClosedOnce`, `ReplyReachesCaller`, `ReadersCanEnd` | `CloseAssumption` |
| `ReportBuilderProofs` | `TypeOK`, `FirstSetterListed`, `UsesCounted`, `CountIsRows`, `UnclassifiedLast`, `ExpiryOfFirstSetter` | `BuilderAssumption`, `ExpiryAssumption` |
| `SemaphoreProofs` | `TypeOK`, `SlotsAccounted`, `NoIdleSlot`, `LineIsExact`, `ImplementsLimit` | `SemaphoreAssumption` |
| `ScanServerProofs` | `TypeOK`, `OneAnswer`, `ScansWithinMax`, `NothingLeftBehind`, `LineWaitsForOwners`, and the abstract limit | `ServerAssumption` |
| `EntryPointProofs` | `TypeOK`, `SuccessMeansOutput`, `NothingLeftBehind`, `OneVerdict`, `AnsweredAfterCleanup` | `EntryAssumption` |

*Collector.* The lemmas first establish that the positions `Rank` assigns form a
permutation (`RankMonotone`, `RankRange`, `RankOnto`), so that `StableSort` permutes
(`StableSortPermutes`), and then what appending and sorting does to a chronological
sequence (`AddSorted`). The inductive invariant `CollectorInv` adds to the four
properties that stamps identify the delivered records and are exactly `1..n`
(`StampsIdentify`); without it, neither the freshness of the next record nor the order
among ties would survive a step.

*Lock.* The invariant says that whoever is inside a method holds the mutex, that the
unsorted record is the last of its id, and that what `get` has copied so far is current
(`CopyCurrent`), which holds because no one else can have the lock. Then each step of the
methods is a step of the collector (the one that unlocks) or a stutter, so the collector's
theorems carry over.

*Scan.* The invariant follows an event from the socket to the queue and to the collector,
and the signal from the callback through the sleeper and `pageWait` to the scan: socket and
queue together are the next events in the order of `trace` (`Queue`), what was handled is in
the collector (`Collected`), a signal for the `n`-th event is anywhere only if `n` has been
handled (`Signal`), and the snapshot taken after a wake holds what was collected at the wake
(`Snapshot`). It needs that there is one reply on the socket at most and that it is
the reply to the outstanding request (`Call`), and that the callbacks are registered
before any domain is on (`Ready`). The collector's `CollectorInv` is part of it, for the
scan's steps on the collector are the collector's own; the collector's theorems then hold
of every scan (`ScanKeepsCollectorPromises`).

`NothingAwaitedIsLost` has an invariant of its own on top of it, `AwaitPart`: from the moment
the timer is armed until the wait is over, the timer is to come or a signal is in `pageWait`;
a request is outstanding only where the scan asks, and is the one it asks for; and while
Chrome is up the reader reads, with the reply, once written, among what it is to read.

*Close.* `QueueClosedOnce` has two halves. That a panic takes a replaced socket with a reader
at `Close` is kept because before `Close` nobody announces the end (`ClosingPart`), and because
after it, without such a reader, one reader is left at most, which is gone as soon as it has
closed the queue (`EndPart`). That a scan without a second socket never panics, and that
nothing follows its `EventClosed`, is `SwitchInv`: as long as the second socket has no
reader, the first has not been replaced, so that none was late. The two properties about
requests and readers rest on `DeliveryInv`: a socket that was given up is open only until
it is closed, in the same call, and the socket in use has a reader in its loop or was
closed by Chrome and is drained (`SocketPart`); sender and dispatcher run until the channels
or the queue are closed (`GoroutinePart`); and there is one reply at most, on the socket in
use (`ReplyPart`).

*Report.* What a finished report should say is a function of the records and of Chrome's
list alone; the invariant `BuilderInv` says how much of it each loop has done. After the
records of a request id, the outputs are those of the carriers read, each once, without the
carriers that neither use nor set a cookie (`OutputsPart`); in the midst of them, what is
kept of the last record is what that record says (`ReadPart`). After `counted` outputs, the
uses of a cookie are the places of its name in the headers of those outputs (`CountPart`,
the cardinality of a set, so that no fold appears), and `seqMap` has an earliest output that
sets it (`FirstPart`). The rows are those of the cookies found whose turn has come and of
the names of Chrome's list looked at, each under its category, one only for a cookie that
was found (`RowsPart`), and each says what it was made from, the expiry included
(`RowsCorrect`); rows and cookies to do add up to the total (`TotalPart`); the
categories in the result and those to do are the ones with a row (`OrderPart`). The
properties follow when nothing is left to do. The record lists are any sequences of
records, the ids any set, and the order of each loop over a map is the step's choice.

*Expiry.* Rounding to tenths is within half a tenth, the unit chosen is the largest that
fits, neither the product nor the difference leaves the machine's range under the
condition stated, and the saturated difference is the longest `Duration`. So what a cookie's
row shows agrees with the lifetime it was given (`ShowsLifetime`), and `SetterRow` finds the
first response that set the cookie behind the row. With `DurationLimit` as 2^63 and the six
lengths of the code this is the code's own case.

*Semaphore.* The four properties need each other: `NoIdleSlot` bounds how many waiters a
release lets in, `LineIsExact` makes the granted ones distinct from the holders, and
`SlotsAccounted` turns that into the count. The set of requests need not be finite; that
the holders are follows from the invariant.

*Server.* The invariant is about one request at a time: what it holds of the semaphore
(`SlotPart`), what it has been answered (`AnswerPart`), its files (`FilePart`) and its task
(`LifePart`), all as a function of its place in the handler. `ScansWithinMax` is the only
property about several requests, and follows from `SlotPart` and the semaphore's
`SlotsAccounted`, whose proof applies because the server's steps on the semaphore are the
semaphore's own. By the same way the server implements the abstract first-come first-served limit
(`ServerImplementsLimit`). `LineWaitsForOwners` joins the two: `NoIdleSlot` says that the slots are
all taken when somebody waits, `SlotPart` that whoever has one is in its handler.

*Program.* `EntryInv` is the invariant of the command or that of the page, according to
what the process is, and the untouched initial state before that. `CommandInv` adds that
after the body there is an error, an output, or a dropped error; `PageInv` that, once Chrome
was asked or could not be, exactly one of `versionInfo` and the error is set.

Only model-checked is all liveness, which is out of the prover's reach under fairness:
`ScanEnds`, `ReadersEnd`, `CleanupEnds`, `NobodyWaitsForever`, `EveryRequestEnds`, `CommandEnds` and
`EveryVisitAnswered`. What goes wrong when such a property fails is seldom a missing turn of
the scheduler and mostly something lost: a signal, a reply, a reader, a slot. That half is
safety, and it is proved: `NothingAwaitedIsLost` of the scan, `ReplyReachesCaller` and
`ReadersCanEnd` of the closing connection, `NoIdleSlot` of the semaphore and
`LineWaitsForOwners` of the server.

## 6. Not modelled

* **Time.** The timer and the sleeps may end at any moment; the HTTP read and write
  timeouts (the latter twice the scan timeout, `cmd/server/main.go:506`) are left out.
* **Ports.** Each task has its own; `GetRandomPort` closes a port before Chrome opens it,
  and who else may take it is the operating system's matter.
* **The user data directory while Chrome shuts down.** `Cleanup` removes it first; the
  directory then is `"left"`, and no property says it is gone: `NothingLeftBehind` says that
  it has been removed once.
* **A restart of the server.** Scheduled jobs exist in memory only and the repository
  promises nothing for them.
* **What a mail holds when `FormatEmail` failed.** The job goes on, as in the code.
* **The classifier's database.** Its answer is the constant `CategoryOf`, opening it may
  fail in `ParseFlags`; the rest is one SELECT.
* **Templates, the syntax of headers, flags and URLs.** Formatting and parsing without
  state; `parser/email.go` and most of `parser/pdf.go` are the texts of templates.

## 7. Plan

1. *(done)* Collector, scan, report, semaphore and server, and the proofs of the collector
   and the semaphore.
2. *(done)* The end of a connection, the version page, the commands and the entry point, the
   expiry column.
3. *(done)* Proofs of the lock's refinement, of the scan, of the closing connection, of the
   server and of the program.
4. *(done)* The report builder's loops one iteration to a step, with no fold in the model, and
   the proofs of all its properties.
5. *(done)* The safety half of the liveness properties, and the compositions: the collector's
   and the semaphore's theorems in the scan and in the server.
6. *(done)* Requests that wait for a Chrome that is gone, in every place of a scan; the expiry
   in the rows of the report; the closing of the queue with and without a second socket.
