----------------------------- MODULE ScanServer -----------------------------
(***************************************************************************)
(* The report server (cmd/server/main.go): the handler of                  *)
(* /api/v1/analyze and the asynchronous e-mail jobs it schedules, on top   *)
(* of the semaphore that limits the scans (module Semaphore) and of the    *)
(* task each scan runs (module TaskLifecycle).  Every request has its own  *)
(* goroutine; its deferred calls run in reverse order when it returns, the *)
(* temporary PDF first, then Cleanup, and the slot last.                   *)
(*                                                                         *)
(* What Parse asks of Chrome is one step here; module PageScan looks       *)
(* inside.  A request to a Chrome that is gone has no answer: Parse,       *)
(* PrintToPDF and CloseBrowser then neither succeed nor fail, and the      *)
(* handler stays where it is.                                              *)
(***************************************************************************)
EXTENDS Integers, Sequences, FiniteSets

CONSTANTS
  Requests,       (* names for requests; one is used again when it is over  *)
  Limited,        (* whether --max is positive                              *)
  Size,           (* --max                                                  *)
  Disabled,       (* the report types disabled by flags                     *)
  MailConfigured, (* whether --mail-server, -port and -from are set         *)
  ChromeMayDie,
  OrphanCap       (* bound: abandoned Chromes are counted up to it          *)

Types == {"json", "html", "pdf", "email"}

ASSUME ServerAssumption ==
  /\ Limited \in BOOLEAN /\ Size \in Nat \ {0}
  /\ Disabled \subseteq Types /\ MailConfigured \in BOOLEAN
  /\ OrphanCap \in Nat

VARIABLES
  cur, waiters, ready, ended, acq,    (* inflightSem                        *)
  chrome, remote, userDir,            (* the task of each request           *)
  at,         (* where the goroutine of a request is                        *)
  kind,       (* the report type, "async" for a scheduled e-mail, "none"    *)
              (* before the first request and "over" after one              *)
  files,      (* temporary files that exist: "html" and "pdf"               *)
  answers,    (* responses written to the current request                   *)
  orphans     (* running Chromes that no task owns any more                 *)

semVars == <<cur, waiters, ready, ended, acq>>
lifeVars == <<chrome, remote, userDir>>
vars == <<semVars, lifeVars, at, kind, files, answers, orphans>>

Sem == INSTANCE Semaphore
Life == INSTANCE TaskLifecycle WITH Tasks <- Requests

(* handler: if everything is disabled, JSON is not.                        *)
Enabled == IF Disabled = Types THEN {"json"} ELSE Types \ Disabled

Init ==
  /\ Sem!Init
  /\ Life!LifeInit
  /\ at = [r \in Requests |-> "idle"]
  /\ kind = [r \in Requests |-> "none"]
  /\ files = [r \in Requests |-> {}]
  /\ answers = [r \in Requests |-> 0]
  /\ orphans = 0

GoTo(r, p) == at' = [at EXCEPT ![r] = p]

(* sendResponse or rw.Write; a job that was scheduled writes to the log.   *)
Answer(r) ==
  answers' = [answers EXCEPT ![r] = IF kind[r] = "async" THEN @ ELSE @ + 1]

----------------------------------------------------------------------------
(* Parsing the request                                                     *)

Accepted(type, siteGiven, mailToGiven) ==
  /\ siteGiven
  /\ type \in Enabled
  /\ type = "email" => MailConfigured /\ mailToGiven

Reject(r, type, siteGiven, mailToGiven) ==
  /\ at[r] = "idle"
  /\ ~ Accepted(type, siteGiven, mailToGiven)
  /\ kind' = [kind EXCEPT ![r] = "over"]
  /\ answers' = [answers EXCEPT ![r] = 1]
  /\ UNCHANGED <<semVars, lifeVars, at, files, orphans>>

Accept(r, type) ==
  /\ at[r] = "idle"
  /\ Accepted(type, TRUE, TRUE)
  /\ kind' = [kind EXCEPT ![r] = type]
  /\ answers' = [answers EXCEPT ![r] = 0]
  /\ GoTo(r, "acquire")
  /\ UNCHANGED <<semVars, lifeVars, files, orphans>>

(* The asynchronous e-mail report: answered before it begins.              *)
Schedule(r) ==
  /\ at[r] = "idle"
  /\ Accepted("email", TRUE, TRUE)
  /\ kind' = [kind EXCEPT ![r] = "async"]
  /\ answers' = [answers EXCEPT ![r] = 1]
  /\ GoTo(r, "scheduled")
  /\ UNCHANGED <<semVars, lifeVars, files, orphans>>

DelayEnds(r) ==
  /\ at[r] = "scheduled"
  /\ GoTo(r, "acquire")
  /\ UNCHANGED <<semVars, lifeVars, kind, files, answers, orphans>>

----------------------------------------------------------------------------
(* The slot                                                                *)

EnterLine(r) ==
  /\ Limited /\ at[r] = "acquire"
  /\ Sem!Acquire(r)
  /\ UNCHANGED <<lifeVars, at, kind, files, answers, orphans>>

WaitInLine(r) ==
  /\ Sem!SelectReady(r) \/ Sem!SelectDone(r) \/ Sem!Cancel(r)
  /\ UNCHANGED <<lifeVars, at, kind, files, answers, orphans>>

(* A scheduled job waits with context.Background().                        *)
ClientLeaves(r) ==
  /\ kind[r] # "async"
  /\ Sem!ContextEnds(r)
  /\ UNCHANGED <<lifeVars, at, kind, files, answers, orphans>>

Over(r) ==
  /\ GoTo(r, "idle")
  /\ kind' = [kind EXCEPT ![r] = "over"]

(* "service is busy"                                                       *)
Busy(r) ==
  /\ Sem!Refused(r)
  /\ Answer(r)
  /\ Over(r)
  /\ UNCHANGED <<lifeVars, files, orphans>>

----------------------------------------------------------------------------
(* The task                                                                *)

(* Seeded fault: the error of Acquire is not looked at.                    *)
HasSlotOrNot(r) ==
  at[r] = "acquire" /\ (Limited => acq[r] \in {"held", "refused"})

HasSlot(r) == at[r] = "acquire" /\ (Limited => acq[r] = "held")

(* Seeded fault: an early return without the release.                      *)
GetPortKeepingSlot(r) ==
  /\ HasSlot(r)
  /\ \/ GoTo(r, "start") /\ UNCHANGED answers
     \/ GoTo(r, "idle") /\ Answer(r)
  /\ UNCHANGED <<semVars, lifeVars, kind, files, orphans>>

GetPort(r) ==
  /\ HasSlot(r)
  /\ \/ GoTo(r, "start") /\ UNCHANGED answers
     \/ GoTo(r, "release") /\ Answer(r)
  /\ UNCHANGED <<semVars, lifeVars, kind, files, orphans>>

(* t.Start; when it fails the handler returns without t.Cleanup.           *)
StartChrome(r) ==
  /\ at[r] = "start"
  /\ \/ Life!Spawn(r) /\ GoTo(r, "connect") /\ UNCHANGED answers
     \/ Life!NoProcess(r) /\ GoTo(r, "release") /\ Answer(r)
  /\ UNCHANGED <<semVars, kind, files, orphans>>

ConnectChrome(r) ==
  /\ at[r] = "connect"
  /\ \/ Life!Connect(r) /\ GoTo(r, "parse") /\ UNCHANGED answers
     \/ Life!GiveUpConnecting(r) /\ GoTo(r, "release") /\ Answer(r)
  /\ UNCHANGED <<semVars, kind, files, orphans>>

(* t.Parse: a site that is not a URL is refused without Chrome.            *)
ParseURL(r) ==
  /\ at[r] = "parse"
  /\ \/ GoTo(r, "scan") /\ UNCHANGED answers
     \/ GoTo(r, "unwind") /\ Answer(r)
  /\ UNCHANGED <<semVars, lifeVars, kind, files, orphans>>

(* Its requests to Chrome, which must be there to answer the last one, be  *)
(* it with an error.                                                       *)
Parse(r) ==
  /\ at[r] = "scan" /\ chrome[r] = "running"
  /\ \/ GoTo(r, "output") /\ UNCHANGED answers
     \/ GoTo(r, "unwind") /\ Answer(r)
  /\ UNCHANGED <<semVars, lifeVars, kind, files, orphans>>

ChromeDies(r) ==
  /\ Life!ChromeDies(r)
  /\ UNCHANGED <<semVars, at, kind, files, answers, orphans>>

----------------------------------------------------------------------------
(* The report                                                              *)

(* JSON or HTML: the report or an error is written.                        *)
Render(r) ==
  /\ at[r] = "output" /\ kind[r] \in {"json", "html"}
  /\ Answer(r)
  /\ GoTo(r, "unwind")
  /\ UNCHANGED <<semVars, lifeVars, kind, files, orphans>>

(* ioutil.TempFile for the PDF to attach                                   *)
MakeAttachment(r) ==
  /\ at[r] = "output" /\ kind[r] \in {"email", "async"}
  /\ \/ /\ files' = [files EXCEPT ![r] = @ \cup {"pdf"}]
        /\ GoTo(r, "page") /\ UNCHANGED answers
     \/ GoTo(r, "unwind") /\ Answer(r) /\ UNCHANGED files
  /\ UNCHANGED <<semVars, lifeVars, kind, orphans>>

(* OutputPDF up to outputAsPDF: the page to print, in a temporary file.    *)
MakePage(r) ==
  /\ at[r] = "page" \/ (at[r] = "output" /\ kind[r] = "pdf")
  /\ \/ /\ files' = [files EXCEPT ![r] = @ \cup {"html"}]
        /\ GoTo(r, "print") /\ UNCHANGED answers
     \/ GoTo(r, "unwind") /\ Answer(r) /\ UNCHANGED files
  /\ UNCHANGED <<semVars, lifeVars, kind, orphans>>

RemovePage(r) == files' = [files EXCEPT ![r] = @ \ {"html"}]

(* outputAsPDF: NewTab and ActivateTab ask over HTTP, and fail if Chrome   *)
(* is gone.  Then OutputPDF's deferred os.Remove runs, and the debugger    *)
(* may have lost its connection.                                           *)
OpenPage(r) ==
  /\ at[r] = "print"
  /\ \/ /\ chrome[r] = "running"
        /\ GoTo(r, "printing") /\ UNCHANGED <<files, lifeVars, answers>>
     \/ /\ GoTo(r, "unwind") /\ RemovePage(r) /\ Answer(r)
        /\ Life!LoseConnection(r) \/ UNCHANGED lifeVars
  /\ UNCHANGED <<semVars, kind, orphans>>

(* Seeded fault: the page is removed only after it was printed.            *)
PrintPageKeepingFile(r) ==
  /\ at[r] = "printing" /\ chrome[r] = "running"
  /\ \/ /\ kind[r] # "pdf"
        /\ GoTo(r, "mail") /\ RemovePage(r) /\ UNCHANGED answers
     \/ GoTo(r, "unwind") /\ Answer(r) /\ UNCHANGED files
  /\ UNCHANGED <<semVars, lifeVars, kind, orphans>>

(* PrintToPDF waits for Chrome's answer; with it, an error or not, the     *)
(* page is removed, and a file to attach is written.                       *)
PrintPage(r) ==
  /\ at[r] = "printing" /\ chrome[r] = "running"
  /\ RemovePage(r)
  /\ \/ kind[r] # "pdf" /\ GoTo(r, "mail") /\ UNCHANGED answers
     \/ GoTo(r, "unwind") /\ Answer(r)
  /\ UNCHANGED <<semVars, lifeVars, kind, orphans>>

(* Seeded fault: after the error of FormatEmail the handler goes on, as    *)
(* asyncEmailReport does.                                                  *)
FormatEmailGoingOn(r) ==
  /\ at[r] = "mail"
  /\ \/ GoTo(r, "send") /\ UNCHANGED answers
     \/ GoTo(r, "send") /\ Answer(r)
  /\ UNCHANGED <<semVars, lifeVars, kind, files, orphans>>

(* FormatEmail: its error ends the handler, but not a scheduled job.       *)
FormatEmail(r) ==
  /\ at[r] = "mail"
  /\ \/ GoTo(r, "send") /\ UNCHANGED answers
     \/ kind[r] # "async" /\ GoTo(r, "unwind") /\ Answer(r)
  /\ UNCHANGED <<semVars, lifeVars, kind, files, orphans>>

(* DialAndSend; the client is told how it went.                            *)
SendEmail(r) ==
  /\ at[r] = "send"
  /\ Answer(r)
  /\ GoTo(r, "unwind")
  /\ UNCHANGED <<semVars, lifeVars, kind, files, orphans>>

----------------------------------------------------------------------------
(* The deferred calls                                                      *)

(* os.Remove(tempPDF), and the first step of Cleanup                       *)
RemoveFiles(r) ==
  /\ at[r] = "unwind"
  /\ files' = [files EXCEPT ![r] = @ \ {"pdf"}]
  /\ Life!RemoveUserDir(r)
  /\ GoTo(r, "close")
  /\ UNCHANGED <<semVars, kind, answers, orphans>>

CloseBrowser(r) ==
  /\ at[r] = "close"
  /\ Life!CloseBrowser(r)
  /\ GoTo(r, "reap")
  /\ UNCHANGED <<semVars, kind, files, answers, orphans>>

Reap(r) ==
  /\ at[r] = "reap"
  /\ Life!Reap(r)
  /\ GoTo(r, "release")
  /\ UNCHANGED <<semVars, kind, files, answers, orphans>>

(* inflightSem.Release.  The task is forgotten; a Chrome it still has runs *)
(* on.                                                                     *)
Release(r) ==
  /\ at[r] = "release"
  /\ IF Limited THEN Sem!Release(r) ELSE UNCHANGED semVars
  /\ orphans' = IF chrome[r] = "running" /\ orphans < OrphanCap
                THEN orphans + 1 ELSE orphans
  /\ Life!NewTask(r)
  /\ Over(r)
  /\ UNCHANGED <<files, answers>>

Handle(r) ==
  \/ DelayEnds(r)
  \/ EnterLine(r) \/ WaitInLine(r) \/ Busy(r)
  \/ GetPort(r) \/ StartChrome(r) \/ ConnectChrome(r) \/ ParseURL(r) \/ Parse(r)
  \/ Render(r) \/ MakeAttachment(r) \/ MakePage(r) \/ OpenPage(r) \/ PrintPage(r)
  \/ FormatEmail(r) \/ SendEmail(r)
  \/ RemoveFiles(r) \/ CloseBrowser(r) \/ Reap(r) \/ Release(r)

Client(r) ==
  \/ \E type \in Types \cup {"other"}, siteGiven, mailToGiven \in BOOLEAN :
       Reject(r, type, siteGiven, mailToGiven)
  \/ \E type \in Types : Accept(r, type)
  \/ Schedule(r) \/ ClientLeaves(r)

Next == \E r \in Requests : Client(r) \/ Handle(r) \/ ChromeDies(r)

(***************************************************************************)
(* Every goroutine runs, every delay ends and a Chrome that is up answers. *)
(* Clients need not come, stay or leave.                                   *)
(***************************************************************************)
Spec == Init /\ [][Next]_vars /\ \A r \in Requests : WF_vars(Handle(r))

----------------------------------------------------------------------------

Owning == {"start", "connect", "parse", "scan", "output", "page", "print",
           "printing", "mail", "send", "unwind", "close", "reap", "release"}

(* The type of the server's state.                                         *)
TypeOK ==
  /\ Life!LifeTypeOK
  /\ at \in [Requests -> {"idle", "scheduled", "acquire"} \cup Owning]
  /\ kind \in [Requests -> Types \cup {"async", "none", "over"}]
  /\ files \in [Requests -> SUBSET {"html", "pdf"}]
  /\ answers \in [Requests -> 0..1]
  /\ orphans \in 0..OrphanCap

(***************************************************************************)
(* A request whose handler has returned has been answered exactly once, on *)
(* every one of its paths; while it waits for its slot or its scan runs it *)
(* has not been, and a scheduled job never answers again.                  *)
(***************************************************************************)
OneAnswer ==
  \A r \in Requests :
    /\ at[r] = "idle" => kind[r] = "none" \/ answers[r] = 1
    /\ at[r] \in {"unwind", "close", "reap", "release"} => answers[r] = 1
    /\ at[r] \in {"acquire", "start", "connect", "parse", "scan", "output",
                  "page", "print", "printing", "mail", "send"}
       /\ kind[r] # "async" => answers[r] = 0

(***************************************************************************)
(* With --max set, at most that many requests and jobs together are        *)
(* between the first thing they allocate and the end of their clean-up,    *)
(* and whatever a task owns belongs to a request that has a slot.          *)
(***************************************************************************)
ScansWithinMax ==
  Limited =>
    /\ Cardinality({r \in Requests : at[r] \in Owning}) <= Size
    /\ \A r \in Requests :
         chrome[r] # "none" \/ userDir[r] = "made" \/ files[r] # {} => acq[r] = "held"

(***************************************************************************)
(* When a request gives its slot back, its temporary files are gone; if    *)
(* its Start succeeded, its Chrome has been waited for, no connection is   *)
(* open, and its user data directory has been removed once.  (What Chrome  *)
(* wrote to it after that, userDir = "left", stays.)                       *)
(***************************************************************************)
NothingLeftBehind ==
  \A r \in Requests :
    at[r] = "release" =>
      /\ files[r] = {}
      /\ remote[r] # "none" =>
           chrome[r] = "none" /\ userDir[r] # "made" /\ remote[r] # "open"

(* The requests that have a slot, or have been granted one                 *)
SlotOwners ==
  {r \in Requests :
     at[r] \in Owning \/ (at[r] = "acquire" /\ (acq[r] = "held" \/ r \in ready))}

(***************************************************************************)
(* Whoever waits in line waits for --max other requests that are in their  *)
(* handlers: no slot is kept by a request that is over, and none is free.  *)
(***************************************************************************)
LineWaitsForOwners ==
  \A i \in 1..Len(waiters) :
    waiters[i] \notin SlotOwners /\ Cardinality(SlotOwners) = Size

(* A request that waits for an answer its Chrome will not give             *)
Unanswered(r) ==
  /\ chrome[r] = "exited"
  /\ at[r] \in {"scan", "printing"} \/ (at[r] = "close" /\ remote[r] = "open")

(***************************************************************************)
(* Every request that is accepted and every job that is scheduled comes to *)
(* its end, however many compete for the slots, unless some request waits  *)
(* for the answer of a Chrome that is gone, in Parse, while printing, or   *)
(* when Cleanup asks it to close.  A Chrome that goes at any other time    *)
(* makes a step fail, and the request ends.                                *)
(***************************************************************************)
EveryRequestEnds ==
  \A r \in Requests :
    at[r] \in {"scheduled", "acquire"} ~>
      at[r] = "idle" \/ \E q \in Requests : Unanswered(q)

(***************************************************************************)
(* "max inflight scan instance" (cmd/server/main.go:134): the Chromes that *)
(* scans have started and that still run are no more than --max.           *)
(***************************************************************************)
ChromesWithinMax ==
  Limited =>
    orphans + Cardinality({r \in Requests : chrome[r] = "running"}) <= Size

============================================================================
