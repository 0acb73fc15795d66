----------------------------- MODULE EntryPoint -----------------------------
(***************************************************************************)
(* The program (main.go): kingpin reads the flags and opens the            *)
(* classifier's database, and then the process is either a command (module *)
(* CommandLine) or the server, of which only the version page runs a task  *)
(* without a slot (module VersionPage; for the rest see ScanServer).       *)
(***************************************************************************)
CONSTANTS Requests, RenderMayFail, Visitors, ChromeMayDie

VARIABLES
  program,        (* "none" before the flags are read, then "command",      *)
                  (* "server" or "refused"                                  *)
  pc, err,
  command, asked, wants, page, made, ignored,               (* a command    *)
  once, versionInfo, versionErr, waiting, served,           (* the server   *)
  chrome, remote, userDir

commandVars == <<command, asked, wants, page, made, ignored>>
serverVars == <<once, versionInfo, versionErr, waiting, served>>
vars == <<program, pc, err, commandVars, serverVars, chrome, remote, userDir>>

Task == "task"
Tasks == {Task}

Command == INSTANCE CommandLine
Page == INSTANCE VersionPage

ASSUME EntryAssumption ==
  /\ Requests \subseteq SUBSET Command!Outputs
  /\ RenderMayFail \in BOOLEAN /\ ChromeMayDie \in BOOLEAN

Init == program = "none" /\ Command!Init /\ Page!Init

(* An error of a flag's PreAction, such as that of NewClassifier, ends the *)
(* program.                                                                *)
ParseFlags ==
  /\ program = "none"
  /\ program' \in {"command", "server", "refused"}
  /\ UNCHANGED <<pc, err, commandVars, serverVars, chrome, remote, userDir>>

AsCommand(A) == program = "command" /\ A /\ UNCHANGED <<program, serverVars>>
AsServer(A) == program = "server" /\ A /\ UNCHANGED <<program, commandVars>>

Next == ParseFlags \/ AsCommand(Command!Next) \/ AsServer(Page!Next)

(* The goroutines run; nobody has to visit the page.                       *)
Spec ==
  /\ Init /\ [][Next]_vars
  /\ WF_vars(AsCommand(Command!Program)) /\ WF_vars(AsServer(Page!Function))
  /\ \A v \in Visitors : WF_vars(AsServer(Page!Respond(v)))

----------------------------------------------------------------------------

(* The type of the state, as the command or as the server.                 *)
TypeOK ==
  /\ program \in {"none", "command", "server", "refused"}
  /\ program = "command" => Command!TypeOK
  /\ program = "server" => Page!TypeOK

(* CommandLine's, of the whole program.                                    *)
SuccessMeansOutput == Command!SuccessMeansOutput
NothingLeftBehind == Command!NothingLeftBehind
FailedReportIsError == Command!FailedReportIsError

(* VersionPage's, of the whole program.                                    *)
OneVerdict == Page!OneVerdict
AnsweredAfterCleanup == Page!AnsweredAfterCleanup
EveryVisitAnswered == Page!EveryVisitAnswered

(***************************************************************************)
(* A command ends, unless it waits for the answer of a Chrome that is      *)
(* gone, in Parse, while printing, or when Cleanup asks it to close.       *)
(***************************************************************************)
CommandEnds ==
  program = "command" /\ pc = "start" ~> pc = "exit" \/ Command!Unanswered

============================================================================
