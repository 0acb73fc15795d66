----------------------------- MODULE CommandLine -----------------------------
(***************************************************************************)
(* One run of the program as a command: "cli", which scans a site and      *)
(* writes a report (cmd/cli/main.go), or "version" (cmd/version/main.go).  *)
(* An action returns an error or nothing to kingpin, which makes it the    *)
(* exit status; the deferred Cleanup runs before that.  The task is as in  *)
(* module TaskLifecycle, with the user's port instead of a random one.  A  *)
(* request to a Chrome that is gone has no answer: Parse, PrintToPDF and   *)
(* CloseBrowser then neither succeed nor fail.                             *)
(***************************************************************************)
EXTENDS FiniteSets, TaskLifecycle

CONSTANTS
  Requests,       (* the sets of outputs asked for by flags                 *)
  RenderMayFail,  (* whether making or writing a report may fail            *)
  Task            (* its one task: Tasks is {Task}                          *)

Outputs == {"json", "html", "pdf"}

VARIABLES
  pc,
  command,        (* "cli" or "version"                                     *)
  asked,          (* the outputs the user asked for                         *)
  wants,          (* and those the handler goes by                          *)
  page,           (* whether the temporary page to print exists             *)
  made,           (* what was printed or saved in full                      *)
  err,            (* whether the action's result is an error                *)
  ignored         (* outputs whose failure the code drops (kept for the     *)
                  (* properties)                                            *)

request == <<command, asked, wants>>
vars == <<pc, request, page, made, err, ignored, lifeVars>>

Init ==
  /\ pc = "idle" /\ command = "cli" /\ asked = {} /\ wants = {}
  /\ page = FALSE /\ made = {} /\ err = FALSE /\ ignored = {}
  /\ LifeInit

Step(from, to) == pc = from /\ pc' = to
Fine(from, to) == Step(from, to) /\ UNCHANGED err
Fail(from, to) == Step(from, to) /\ err' = TRUE

----------------------------------------------------------------------------
(* Flags, and Start                                                        *)

Cli(outputs) ==
  /\ Fine("idle", "start")
  /\ command' = "cli"
  /\ asked' = outputs
  /\ wants' = IF outputs = {} THEN {"json"} ELSE outputs
  /\ UNCHANGED <<page, made, ignored, lifeVars>>

(* "version" needs a random port.                                          *)
Version ==
  /\ Fine("idle", "start") \/ Fail("idle", "exit")
  /\ command' = "version"
  /\ UNCHANGED <<asked, wants, page, made, ignored, lifeVars>>

Start ==
  /\ \/ Fine("start", "connect") /\ Spawn(Task)
     \/ Fail("start", "exit") /\ NoProcess(Task)
  /\ UNCHANGED <<request, page, made, ignored>>

(* An action that gives up here has not deferred Cleanup yet.              *)
ConnectChrome ==
  /\ \/ Fine("connect", command) /\ Connect(Task)
     \/ Fail("connect", "exit") /\ GiveUpConnecting(Task)
  /\ UNCHANGED <<request, page, made, ignored>>

ChromeLeaves ==
  /\ pc # "exit"
  /\ ChromeDies(Task)
  /\ UNCHANGED <<pc, request, page, made, err, ignored>>

----------------------------------------------------------------------------
(* The body of each command                                                *)

(* Parse: a site that is not a URL is refused without Chrome.              *)
ParseURL ==
  /\ Fine("cli", "scan") \/ Fail("cli", "clean")
  /\ UNCHANGED <<request, page, made, ignored, lifeVars>>

(* Its requests to Chrome, which must be there to answer the last one, be  *)
(* it with an error.                                                       *)
Parse ==
  /\ chrome[Task] = "running"
  /\ Fine("scan", "output") \/ Fail("scan", "clean")
  /\ UNCHANGED <<request, page, made, ignored, lifeVars>>

(* Version is an HTTP request, which fails if Chrome is gone.              *)
AskVersion ==
  /\ \/ chrome[Task] = "running" /\ Fine("version", "clean")
        /\ made' = {"version"}
     \/ Fail("version", "clean") /\ UNCHANGED made
  /\ UNCHANGED <<request, page, ignored, lifeVars>>

(* The error of OutputJSON is put into an err of its own block.            *)
OutputJSON ==
  /\ "json" \in wants
  /\ Fine("output", "clean")
  /\ \/ made' = made \cup {"json"} /\ UNCHANGED ignored
     \/ RenderMayFail /\ ignored' = ignored \cup {"json"} /\ UNCHANGED made
  /\ UNCHANGED <<request, page, lifeVars>>

(* Rendering and opening the file report their errors, writing does not.   *)
OutputHTML ==
  /\ "json" \notin wants /\ "html" \in wants
  /\ \/ Fine("output", "clean") /\ made' = made \cup {"html"} /\ UNCHANGED ignored
     \/ RenderMayFail /\ Fine("output", "clean")
        /\ ignored' = ignored \cup {"html"} /\ UNCHANGED made
     \/ RenderMayFail /\ Fail("output", "clean") /\ UNCHANGED <<made, ignored>>
  /\ UNCHANGED <<request, page, lifeVars>>

(* OutputPDFToFile: the page to print goes to a temporary file.            *)
MakePage ==
  /\ wants = {"pdf"}
  /\ \/ Fine("output", "print") /\ page' = TRUE
     \/ RenderMayFail /\ Fail("output", "clean") /\ UNCHANGED page
  /\ UNCHANGED <<request, made, ignored, lifeVars>>

(* outputAsPDF: NewTab and ActivateTab ask over HTTP, and fail if Chrome   *)
(* is gone.  Then the deferred removal of the page runs.                   *)
OpenPage ==
  /\ \/ /\ chrome[Task] = "running" /\ Fine("print", "printing")
        /\ UNCHANGED <<page, lifeVars>>
     \/ /\ Fail("print", "clean") /\ page' = FALSE
        /\ LoseConnection(Task) \/ UNCHANGED lifeVars
  /\ UNCHANGED <<request, made, ignored>>

(* Seeded fault: its own err hides the result, as in the JSON branch.      *)
PrintPageShadowing ==
  /\ chrome[Task] = "running"
  /\ page' = FALSE
  /\ Fine("printing", "clean")
  /\ made' = made \cup {"pdf"} \/ UNCHANGED made
  /\ UNCHANGED <<request, ignored, lifeVars>>

(* PrintToPDF waits for Chrome's answer; then the page is removed and      *)
(* ioutil.WriteFile may still fail.                                        *)
PrintPage ==
  /\ chrome[Task] = "running"
  /\ page' = FALSE
  /\ \/ Fine("printing", "clean") /\ made' = made \cup {"pdf"}
     \/ Fail("printing", "clean") /\ UNCHANGED made
  /\ UNCHANGED <<request, ignored, lifeVars>>

(* Seeded fault: Chrome is waited for before it is asked to close.         *)
CleanupReapingFirst ==
  /\ \/ Fine("clean", "reap") /\ RemoveUserDir(Task)
     \/ Fine("reap", "close") /\ Reap(Task)
     \/ Fine("close", "exit") /\ CloseBrowser(Task)
  /\ UNCHANGED <<request, page, made, ignored>>

(* Seeded fault: an error exits at once, past the deferred call.           *)
CleanupUnlessFailed ==
  /\ \/ ~ err /\ Fine("clean", "close") /\ RemoveUserDir(Task)
     \/ err /\ Fine("clean", "exit") /\ UNCHANGED lifeVars
     \/ Fine("close", "reap") /\ CloseBrowser(Task)
     \/ Fine("reap", "exit") /\ Reap(Task)
  /\ UNCHANGED <<request, page, made, ignored>>

Cleanup ==
  /\ \/ Fine("clean", "close") /\ RemoveUserDir(Task)
     \/ Fine("close", "reap") /\ CloseBrowser(Task)
     \/ Fine("reap", "exit") /\ Reap(Task)
  /\ UNCHANGED <<request, page, made, ignored>>

Program ==
  \/ Start \/ ConnectChrome \/ ParseURL \/ Parse \/ AskVersion \/ OutputJSON
  \/ OutputHTML \/ MakePage \/ OpenPage \/ PrintPage \/ Cleanup

Next ==
  \/ Version \/ \E outputs \in Requests : Cli(outputs)
  \/ Program \/ ChromeLeaves

Spec == Init /\ [][Next]_vars /\ WF_vars(Program)

----------------------------------------------------------------------------

(* The type of the state; the temporary page exists while it is printed.   *)
TypeOK ==
  /\ pc \in {"idle", "start", "connect", "cli", "scan", "version", "output",
             "print", "printing", "clean", "close", "reap", "exit"}
  /\ command \in {"cli", "version"}
  /\ asked \subseteq Outputs /\ wants \subseteq Outputs
  /\ made \subseteq Outputs \cup {"version"} /\ ignored \subseteq {"json", "html"}
  /\ page \in BOOLEAN /\ err \in BOOLEAN
  /\ page <=> pc \in {"print", "printing"}
  /\ LifeTypeOK

(***************************************************************************)
(* A run that exits without an error has produced something: the version,  *)
(* or a report, unless the code dropped the error of that report.          *)
(***************************************************************************)
SuccessMeansOutput ==
  pc = "exit" /\ ~ err => made # {} \/ ignored # {}

(***************************************************************************)
(* However the run ends, no temporary page stays; if Start succeeded, its  *)
(* Chrome has been reaped, its connection is not open, and its directory   *)
(* has been removed once.  (What Chrome wrote to the directory after that, *)
(* userDir = "left", stays.)                                               *)
(***************************************************************************)
NothingLeftBehind ==
  pc = "exit" =>
    /\ ~ page
    /\ remote[Task] # "none" =>
         /\ chrome[Task] = "none" /\ remote[Task] # "open"
         /\ userDir[Task] # "made"

(* The command waits for an answer its Chrome will not give.               *)
Unanswered ==
  /\ chrome[Task] = "exited"
  /\ pc \in {"scan", "printing"} \/ (pc = "close" /\ remote[Task] = "open")

(***************************************************************************)
(* "generate json report failed" (cmd/cli/main.go:86): the error of the    *)
(* JSON report is the command's.                                           *)
(***************************************************************************)
FailedReportIsError ==
  pc = "exit" /\ ~ err => made # {}

============================================================================
