----------------------------- MODULE VersionPage -----------------------------
(***************************************************************************)
(* The server's page "/" (cmd/server/main.go, getVersionFunc): the first   *)
(* visitor starts a Chrome, asks it for its version and cleans up, all     *)
(* inside a sync.Once, while the others wait; every visitor is then served *)
(* from what that one try has left in versionInfo and versionErr.  The     *)
(* Chrome is a task as in module TaskLifecycle; it needs no slot.          *)
(***************************************************************************)
EXTENDS Naturals, FiniteSets, TaskLifecycle

CONSTANTS
  Visitors,       (* names for visitors; each comes again and again         *)
  Task            (* its one task: Tasks is {Task}                          *)

VARIABLES
  once,           (* versionOnce: "new", "running" or "done"                *)
  pc,             (* where the function in the Once is                      *)
  err,            (* its local error                                        *)
  versionInfo, versionErr,    (* whether they are set                       *)
  waiting,        (* the visitors whose request is not answered yet         *)
  served          (* every kind of answer given so far                      *)

vars == <<once, pc, err, versionInfo, versionErr, waiting, served, lifeVars>>

Init ==
  /\ once = "new" /\ pc = "idle" /\ err = FALSE
  /\ versionInfo = FALSE /\ versionErr = FALSE
  /\ waiting = {} /\ served = {}
  /\ LifeInit

Visit(v) ==
  /\ v \notin waiting
  /\ waiting' = waiting \cup {v}
  /\ UNCHANGED <<once, pc, err, versionInfo, versionErr, served, lifeVars>>

----------------------------------------------------------------------------
(* versionOnce.Do: one visitor runs the function                           *)

Step(from, to) == pc = from /\ pc' = to

(* From here the function only has its deferred calls left.                *)
Fail(from, to) == Step(from, to) /\ err' = TRUE

Inside == UNCHANGED <<once, versionErr, waiting, served>>

Do ==
  /\ once = "new" /\ waiting # {}
  /\ once' = "running"
  /\ Step("idle", "port")
  /\ UNCHANGED <<err, versionInfo, versionErr, waiting, served, lifeVars>>

GetPort ==
  /\ (Step("port", "start") /\ UNCHANGED err) \/ Fail("port", "return")
  /\ Inside /\ UNCHANGED <<versionInfo, lifeVars>>

(* Seeded fault: the error of Start is declared anew, as in "if err :=".   *)
StartShadowing ==
  /\ \/ Step("start", "connect") /\ UNCHANGED err /\ Spawn(Task)
     \/ Step("start", "return") /\ UNCHANGED err /\ NoProcess(Task)
  /\ Inside /\ UNCHANGED versionInfo

(* Start; when it fails there is no Cleanup.                               *)
Start ==
  /\ \/ Step("start", "connect") /\ UNCHANGED err /\ Spawn(Task)
     \/ Fail("start", "return") /\ NoProcess(Task)
  /\ Inside /\ UNCHANGED versionInfo

ConnectChrome ==
  /\ \/ Step("connect", "ask") /\ UNCHANGED err /\ Connect(Task)
     \/ Fail("connect", "return") /\ GiveUpConnecting(Task)
  /\ Inside /\ UNCHANGED versionInfo

(* Seeded fault: the others are let in before Cleanup.                     *)
AskEarly ==
  /\ \/ chrome[Task] = "running" /\ Step("ask", "clean")
        /\ versionInfo' = TRUE /\ UNCHANGED err
     \/ Fail("ask", "clean") /\ UNCHANGED versionInfo
  /\ once' = "done" /\ versionErr' = err'
  /\ UNCHANGED <<waiting, served, lifeVars>>

(* Version, over HTTP; a Chrome that is gone refuses the connection.       *)
Ask ==
  /\ \/ chrome[Task] = "running" /\ Step("ask", "clean")
        /\ versionInfo' = TRUE /\ UNCHANGED err
     \/ Fail("ask", "clean") /\ UNCHANGED versionInfo
  /\ Inside /\ UNCHANGED lifeVars

Cleanup ==
  /\ \/ Step("clean", "close") /\ RemoveUserDir(Task)
     \/ Step("close", "reap") /\ CloseBrowser(Task)
     \/ Step("reap", "return") /\ Reap(Task)
  /\ Inside /\ UNCHANGED <<err, versionInfo>>

(* Seeded fault: a failed try is forgotten, so that the next visitor has   *)
(* another one.                                                            *)
ReturnRetrying ==
  /\ Step("return", "idle")
  /\ versionErr' = err /\ err' = FALSE
  /\ once' = IF err THEN "new" ELSE "done"
  /\ \E v \in waiting : waiting' = waiting \ {v}
  /\ served' = served \cup {IF err THEN "error" ELSE "info"}
  /\ NewTask(Task) /\ UNCHANGED versionInfo

(* The deferred assignment of versionErr comes last.                       *)
Return ==
  /\ Step("return", "idle")
  /\ versionErr' = err
  /\ once' = "done"
  /\ UNCHANGED <<err, versionInfo, waiting, served, lifeVars>>

(* What a visitor is told                                                  *)
Respond(v) ==
  /\ once = "done" /\ v \in waiting
  /\ waiting' = waiting \ {v}
  /\ \/ versionInfo /\ served' = served \cup {"info"}
     \/ ~ versionInfo /\ versionErr /\ served' = served \cup {"error"}
     \/ ~ versionInfo /\ ~ versionErr /\ served' = served \cup {"unknown"}
  /\ UNCHANGED <<once, pc, err, versionInfo, versionErr, lifeVars>>

ChromeLeaves ==
  /\ ChromeDies(Task)
  /\ Inside /\ UNCHANGED <<pc, err, versionInfo>>

Function == Do \/ GetPort \/ Start \/ ConnectChrome \/ Ask \/ Cleanup \/ Return

Next ==
  \/ Function \/ ChromeLeaves
  \/ \E v \in Visitors : Visit(v) \/ Respond(v)

(* Goroutines run; visitors need not come.                                 *)
Spec ==
  /\ Init /\ [][Next]_vars
  /\ WF_vars(Function)
  /\ \A v \in Visitors : WF_vars(Respond(v))

----------------------------------------------------------------------------

(* The type of the state; the function is in its body while the Once runs  *)
(* it and at no other time.                                                *)
TypeOK ==
  /\ once \in {"new", "running", "done"}
  /\ once = "running" <=> pc # "idle"
  /\ pc \in {"idle", "port", "start", "connect", "ask", "clean", "close",
             "reap", "return"}
  /\ {err, versionInfo, versionErr} \subseteq BOOLEAN
  /\ waiting \subseteq Visitors
  /\ served \subseteq {"info", "error", "unknown"}
  /\ LifeTypeOK

(***************************************************************************)
(* All visitors are told the same, whenever they come: the version, or why *)
(* there is none, and never that it "could not get server version".        *)
(***************************************************************************)
OneVerdict ==
  /\ Cardinality(served) <= 1 /\ "unknown" \notin served
  /\ once = "done" => versionInfo # versionErr

(***************************************************************************)
(* When the first visitor is answered the Chrome has been reaped and its   *)
(* connection is not open, unless Start failed.                            *)
(***************************************************************************)
AnsweredAfterCleanup ==
  served # {} /\ remote[Task] # "none" =>
    chrome[Task] = "none" /\ remote[Task] # "open"

(***************************************************************************)
(* Every visitor is answered, the one whose request runs the function and  *)
(* those who wait for it, unless the Chrome is gone when Cleanup asks it   *)
(* to close.                                                               *)
(***************************************************************************)
EveryVisitAnswered ==
  \A v \in Visitors :
    v \in waiting ~>
      v \notin waiting \/ (pc = "close" /\ chrome[Task] = "exited")

============================================================================
