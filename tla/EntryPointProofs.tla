-------------------------- MODULE EntryPointProofs --------------------------
(***************************************************************************)
(* Proofs about module EntryPoint, for any visitors and any sets of        *)
(* outputs: what the exit status of a command and the answers of the       *)
(* version page promise, and that each cleans up after itself.             *)
(***************************************************************************)
EXTENDS EntryPoint, FiniteSetTheorems, TLAPS

Untouched ==
  chrome[Task] = "none" /\ remote[Task] = "none" /\ userDir[Task] = "none"

(* The task through Start, its use and Cleanup; "after" are the places at  *)
(* which Cleanup is over, or was not called.                               *)
LifePart(before, after) ==
  /\ pc \in before => Untouched
  /\ pc = "connect" => remote[Task] = "none"
  /\ pc \in {"close", "reap"} => userDir[Task] # "made"
  /\ pc = "reap" => remote[Task] # "open"
  /\ pc \in after =>
       \/ remote[Task] = "none"
       \/ /\ chrome[Task] = "none" /\ remote[Task] # "open"
          /\ userDir[Task] # "made"

(* Where the body of a command is over, it has failed or made something.   *)
CommandInv ==
  /\ Command!TypeOK
  /\ LifePart({"idle", "start"}, {"exit"})
  /\ pc \in {"clean", "close", "reap", "exit"} =>
       err \/ made # {} \/ ignored # {}

(* What the one try has found out, and what the visitors have been told    *)
PageInv ==
  /\ Page!TypeOK
  /\ LifePart({"port", "start"}, {"return"})
  /\ once = "new" => Untouched
  /\ once = "done" =>
       remote[Task] = "none" \/ (chrome[Task] = "none" /\ remote[Task] # "open")
  /\ once = "new" \/ pc \in {"port", "start", "connect", "ask"} =>
       ~ err /\ ~ versionInfo
  /\ pc \in {"clean", "close", "reap", "return"} => versionInfo # err
  /\ once = "done" => versionInfo # versionErr
  /\ once # "done" => served = {}
  /\ served \subseteq {IF versionInfo THEN "info" ELSE "error"}

(***************************************************************************)
(* The inductive invariant.  The properties look at the last state of a    *)
(* command and at the answers of the page; what leads to them is in the    *)
(* parts above.                                                            *)
(***************************************************************************)
EntryInv ==
  /\ program \in {"none", "command", "server", "refused"}
  /\ program \in {"none", "refused"} => Command!Init /\ Page!Init
  /\ program = "command" => CommandInv /\ served = {} /\ once = "new"
  /\ program = "server" => PageInv

LEMMA TaskIsOne == Tasks = {Task} /\ Task \in Tasks
  BY DEF Tasks

LEMMA CommandStart == Command!Init => CommandInv
  BY TaskIsOne DEF Command!Init, Command!LifeInit, CommandInv, Command!TypeOK,
     Command!LifeTypeOK, Command!Outputs, LifePart, Untouched

LEMMA PageStart == Page!Init => PageInv
  BY TaskIsOne DEF Page!Init, Page!LifeInit, PageInv, Page!TypeOK,
     Page!LifeTypeOK, LifePart, Untouched

----------------------------------------------------------------------------
(* The steps of a command                                                  *)

LEMMA CommandNext ==
  ASSUME CommandInv, Command!Next
  PROVE  CommandInv'
<1> USE TaskIsOne DEF Command!Fine, Command!Fail, Command!Step,
        Command!lifeVars, Command!request
<1>1. Command!LifeTypeOK
  BY DEF CommandInv, Command!TypeOK
<1> DEFINE typeOK == Command!TypeOK
           lifePart == LifePart({"idle", "start"}, {"exit"})
           outcome == pc \in {"clean", "close", "reap", "exit"} =>
                        err \/ made # {} \/ ignored # {}
<1>2. CASE Command!Version
  <2> USE <1>2 DEF Command!Version
  <2>1. typeOK'
    BY DEF CommandInv, Command!TypeOK, Command!LifeTypeOK
  <2>2. lifePart' /\ outcome'
    BY DEF CommandInv, LifePart, Untouched
  <2> QED
    BY <2>1, <2>2 DEF CommandInv
<1>3. ASSUME NEW outputs \in Requests, Command!Cli(outputs)
      PROVE  CommandInv'
  <2> USE <1>3 DEF Command!Cli
  <2>1. outputs \subseteq Command!Outputs
    BY EntryAssumption
  <2>2. typeOK'
    BY <2>1 DEF CommandInv, Command!TypeOK, Command!LifeTypeOK, Command!Outputs
  <2>3. lifePart' /\ outcome'
    BY DEF CommandInv, LifePart, Untouched
  <2> QED
    BY <2>2, <2>3 DEF CommandInv
<1>4. CASE Command!Start
  <2> USE <1>4 DEF Command!Start, Command!Spawn, Command!NoProcess,
                   Command!MakeUserDir
  <2>1. typeOK'
    <3>1. Command!LifeTypeOK'
      BY <1>1 DEF Command!LifeTypeOK
    <3> QED
      BY <3>1 DEF CommandInv, Command!TypeOK
  <2>2. lifePart' /\ outcome'
    BY <1>1 DEF CommandInv, LifePart, Untouched, Command!LifeTypeOK
  <2> QED
    BY <2>1, <2>2 DEF CommandInv
<1>5. CASE Command!ConnectChrome
  <2> USE <1>5 DEF Command!ConnectChrome, Command!Connect,
                   Command!GiveUpConnecting
  <2>1. typeOK'
    BY DEF CommandInv, Command!TypeOK, Command!LifeTypeOK
  <2>2. lifePart' /\ outcome'
    BY <1>1 DEF CommandInv, Command!TypeOK, LifePart, Untouched, Command!LifeTypeOK
  <2> QED
    BY <2>1, <2>2 DEF CommandInv
<1>6. CASE Command!ChromeLeaves
  <2> USE <1>6 DEF Command!ChromeLeaves, Command!ChromeDies
  <2>1. typeOK'
    BY DEF CommandInv, Command!TypeOK, Command!LifeTypeOK
  <2>2. lifePart' /\ outcome'
    BY <1>1 DEF CommandInv, LifePart, Untouched, Command!LifeTypeOK
  <2> QED
    BY <2>1, <2>2 DEF CommandInv
<1>7. CASE Command!ParseURL \/ Command!Parse \/ Command!AskVersion
           \/ Command!OutputJSON \/ Command!OutputHTML \/ Command!MakePage
  <2> USE <1>7 DEF Command!ParseURL, Command!Parse, Command!AskVersion,
                   Command!OutputJSON, Command!OutputHTML, Command!MakePage
  <2>1. typeOK'
    <3> USE DEF CommandInv, Command!TypeOK, Command!LifeTypeOK, Command!Outputs
    <3>1. CASE Command!ParseURL \/ Command!Parse \/ Command!AskVersion
      <4>1. /\ page' = FALSE /\ pc' \in {"scan", "output", "clean"}
            /\ err' \in BOOLEAN
        BY <3>1
      <4> QED
        BY <3>1, <4>1
    <3>2. CASE Command!OutputJSON
      BY <3>2
    <3>3. CASE Command!OutputHTML
      BY <3>3
    <3>4. CASE Command!MakePage
      <4>1. \/ page' = TRUE /\ pc' = "print" /\ err' = err
            \/ page' = page /\ pc' = "clean" /\ err' = TRUE
        BY <3>4
      <4>2. page = FALSE
        BY <3>4
      <4>3. page' \in BOOLEAN /\ err' \in BOOLEAN /\ (page' <=> pc' = "print")
        BY <4>1, <4>2
      <4> QED
        BY <3>4, <4>1, <4>3
    <3> QED
      BY <3>1, <3>2, <3>3, <3>4
  <2>2. UNCHANGED Command!lifeVars /\ pc' \notin {"idle", "start", "connect"}
        /\ pc' \notin {"close", "reap", "exit"}
    OBVIOUS
  <2>3. lifePart'
    BY <2>2 DEF LifePart, Untouched
  <2>4. outcome'
    BY DEF CommandInv
  <2> QED
    BY <2>1, <2>3, <2>4 DEF CommandInv
<1>8. CASE Command!OpenPage
  <2> USE <1>8 DEF Command!OpenPage, Command!LoseConnection
  <2>1. typeOK'
    BY DEF CommandInv, Command!TypeOK, Command!LifeTypeOK, Command!Outputs
  <2>2. lifePart'
    BY DEF CommandInv, LifePart, Untouched
  <2>3. outcome'
    BY DEF CommandInv
  <2> QED
    BY <2>1, <2>2, <2>3 DEF CommandInv
<1>9. CASE Command!PrintPage
  <2> USE <1>9 DEF Command!PrintPage
  <2>1. typeOK'
    BY DEF CommandInv, Command!TypeOK, Command!LifeTypeOK, Command!Outputs
  <2>2. lifePart'
    BY DEF CommandInv, LifePart, Untouched
  <2>3. outcome'
    BY DEF CommandInv
  <2> QED
    BY <2>1, <2>2, <2>3 DEF CommandInv
<1>10. CASE Command!Cleanup
  <2> USE <1>10 DEF Command!Cleanup, Command!RemoveUserDir,
                   Command!CloseBrowser, Command!Reap
  <2>1. typeOK'
    BY DEF CommandInv, Command!TypeOK, Command!LifeTypeOK
  <2>2. lifePart'
    BY <1>1 DEF CommandInv, LifePart, Untouched, Command!LifeTypeOK
  <2>3. outcome'
    BY DEF CommandInv
  <2> QED
    BY <2>1, <2>2, <2>3 DEF CommandInv
<1> QED
  BY <1>2, <1>3, <1>4, <1>5, <1>6, <1>7, <1>8, <1>9, <1>10
     DEF Command!Next, Command!Program

----------------------------------------------------------------------------
(* The steps of the version page                                           *)

LEMMA PageNext ==
  ASSUME PageInv, Page!Next
  PROVE  PageInv'
<1> USE TaskIsOne DEF Page!Fail, Page!Step, Page!Inside, Page!lifeVars
<1>1. Page!LifeTypeOK
  BY DEF PageInv, Page!TypeOK
<1> DEFINE typeOK == Page!TypeOK
           lifePart ==
             /\ LifePart({"port", "start"}, {"return"})
             /\ once = "new" => Untouched
             /\ once = "done" =>
                  \/ remote[Task] = "none"
                  \/ chrome[Task] = "none" /\ remote[Task] # "open"
           verdict ==
             /\ once = "new" \/ pc \in {"port", "start", "connect", "ask"} =>
                  ~ err /\ ~ versionInfo
             /\ pc \in {"clean", "close", "reap", "return"} => versionInfo # err
             /\ once = "done" => versionInfo # versionErr
           told ==
             /\ once # "done" => served = {}
             /\ served \subseteq {IF versionInfo THEN "info" ELSE "error"}
<1>2. typeOK' /\ lifePart' /\ verdict' /\ told' => PageInv'
  BY DEF PageInv
<1> USE DEF LifePart, Untouched, Page!TypeOK, Page!LifeTypeOK, PageInv
<1>3. ASSUME NEW v \in Visitors, Page!Visit(v)
      PROVE  PageInv'
  BY <1>2, <1>3 DEF Page!Visit
<1>4. ASSUME NEW v \in Visitors, Page!Respond(v)
      PROVE  PageInv'
  BY <1>2, <1>4 DEF Page!Respond
<1>5. CASE Page!Do \/ Page!GetPort
  <2>1. CASE Page!Do
    BY <1>2, <2>1 DEF Page!Do
  <2>2. CASE Page!GetPort
    BY <1>2, <2>2 DEF Page!GetPort
  <2> QED
    BY <1>5, <2>1, <2>2
<1>6. CASE Page!Start
  BY <1>2, <1>6 DEF Page!Start, Page!Spawn, Page!NoProcess, Page!MakeUserDir
<1>7. CASE Page!ConnectChrome
  BY <1>2, <1>7 DEF Page!ConnectChrome, Page!Connect, Page!GiveUpConnecting
<1>8. CASE Page!Ask
  <2>1. typeOK'
    BY <1>8 DEF Page!Ask
  <2>2. lifePart'
    BY <1>8 DEF Page!Ask
  <2>3. verdict' /\ told'
    BY <1>8 DEF Page!Ask
  <2> QED
    BY <1>2, <2>1, <2>2, <2>3
<1>9. CASE Page!Cleanup
  BY <1>2, <1>9 DEF Page!Cleanup, Page!RemoveUserDir, Page!CloseBrowser,
     Page!Reap
<1>10. CASE Page!Return
  BY <1>2, <1>10 DEF Page!Return
<1>11. CASE Page!ChromeLeaves
  BY <1>2, <1>11 DEF Page!ChromeLeaves, Page!ChromeDies
<1> QED
  BY <1>3, <1>4, <1>5, <1>6, <1>7, <1>8, <1>9, <1>10, <1>11
     DEF Page!Next, Page!Function

----------------------------------------------------------------------------
(* The program                                                             *)

LEMMA EntryInit == Init => EntryInv
  BY DEF Init, EntryInv

LEMMA EntryNext ==
  ASSUME EntryInv, [Next]_vars
  PROVE  EntryInv'
<1>1. CASE ParseFlags
  <2>1. Command!Init /\ Page!Init
    BY <1>1 DEF ParseFlags, EntryInv
  <2>2. CommandInv /\ PageInv
    BY <2>1, CommandStart, PageStart
  <2>3. (Command!Init /\ Page!Init)' /\ CommandInv' /\ PageInv'
    BY <1>1, <2>1, <2>2 DEF ParseFlags, commandVars, serverVars,
       Command!Init, Command!LifeInit, Page!Init, Page!LifeInit, CommandInv,
       PageInv, Command!TypeOK, Command!LifeTypeOK, Page!TypeOK,
       Page!LifeTypeOK, LifePart, Untouched
  <2> QED
    BY <1>1, <2>3 DEF ParseFlags, EntryInv, Page!Init
<1>2. CASE AsCommand(Command!Next)
  <2>1. CommandInv'
    BY <1>2, CommandNext DEF AsCommand, EntryInv
  <2> QED
    BY <1>2, <2>1 DEF AsCommand, EntryInv, serverVars
<1>3. CASE AsServer(Page!Next)
  <2>1. PageInv'
    BY <1>3, PageNext DEF AsServer, EntryInv
  <2> QED
    BY <1>3, <2>1 DEF AsServer, EntryInv
<1>4. CASE UNCHANGED vars
  BY <1>4 DEF vars, commandVars, serverVars, EntryInv, Command!Init,
     Command!LifeInit, Page!Init, Page!LifeInit, CommandInv, PageInv,
     Command!TypeOK, Command!LifeTypeOK, Page!TypeOK, Page!LifeTypeOK,
     LifePart, Untouched
<1> QED
  BY <1>1, <1>2, <1>3, <1>4 DEF Next

THEOREM EntryInvariant == Spec => []EntryInv
<1>1. EntryInv /\ [Next]_vars => EntryInv'
  BY EntryNext
<1> QED
  BY EntryInit, <1>1, PTL DEF Spec

(* The program's state keeps its type, as a command and as the server.     *)
THEOREM EntryTypeOK == Spec => []TypeOK
<1>1. EntryInv => TypeOK
  BY DEF EntryInv, CommandInv, PageInv, TypeOK
<1> QED
  BY <1>1, EntryInvariant, PTL

(***************************************************************************)
(* A command that exits with success has produced something, unless the    *)
(* code dropped the error of its report.                                   *)
(***************************************************************************)
THEOREM EntrySuccessMeansOutput == Spec => []SuccessMeansOutput
<1>1. EntryInv => SuccessMeansOutput
  BY DEF EntryInv, CommandInv, PageInv, Page!TypeOK, Command!Init,
     SuccessMeansOutput, Command!SuccessMeansOutput
<1> QED
  BY <1>1, EntryInvariant, PTL

(***************************************************************************)
(* A command leaves no temporary page when it exits, on any path.  If its  *)
(* Start succeeded, its Chrome has been waited for, its connection is not  *)
(* open, and its user data directory has been removed once; what Chrome    *)
(* wrote to the directory after that stays.                                *)
(***************************************************************************)
THEOREM EntryNothingLeftBehind == Spec => []NothingLeftBehind
<1>1. EntryInv => NothingLeftBehind
  BY DEF EntryInv, CommandInv, PageInv, Page!TypeOK, Command!TypeOK, LifePart,
     Command!Init, NothingLeftBehind, Command!NothingLeftBehind
<1> QED
  BY <1>1, EntryInvariant, PTL

(* All visitors of the version page are told the same.                     *)
THEOREM EntryOneVerdict == Spec => []OneVerdict
<1>1. ASSUME NEW S, NEW e, S \subseteq {e}
      PROVE  Page!Cardinality(S) <= 1
  <2>1. Page!Cardinality(S) = Cardinality(S)
    BY DEF Page!Cardinality, Cardinality, Page!IsFiniteSet, IsFiniteSet
  <2>2. IsFiniteSet({e}) /\ Cardinality({e}) = 1
    BY FS_Singleton
  <2>3. IsFiniteSet(S) /\ Cardinality(S) <= 1
    BY <1>1, <2>2, FS_Subset
  <2> QED
    BY <2>1, <2>3
<1>2. ASSUME NEW S, S = {}
      PROVE  Page!Cardinality(S) <= 1
  BY <1>1, <1>2
<1>3. EntryInv => OneVerdict
  <2> SUFFICES ASSUME EntryInv PROVE Page!OneVerdict
    BY DEF OneVerdict
  <2>1. CASE program = "server"
    <3>1. /\ served \subseteq {IF versionInfo THEN "info" ELSE "error"}
          /\ once = "done" => versionInfo # versionErr
      BY <2>1 DEF EntryInv, PageInv
    <3>2. Page!Cardinality(served) <= 1 /\ "unknown" \notin served
      BY <1>1, <3>1
    <3> QED
      BY <3>1, <3>2 DEF Page!OneVerdict
  <2>2. CASE program # "server"
    <3>1. served = {} /\ once = "new"
      BY <2>2 DEF EntryInv, Page!Init
    <3> QED
      BY <1>2, <3>1 DEF Page!OneVerdict
  <2> QED
    BY <2>1, <2>2
<1> QED
  BY <1>3, EntryInvariant, PTL

(* No visitor is answered before the page's Chrome has been dealt with.    *)
THEOREM EntryAnsweredAfterCleanup == Spec => []AnsweredAfterCleanup
<1>1. EntryInv => AnsweredAfterCleanup
  BY DEF EntryInv, PageInv, Page!Init, AnsweredAfterCleanup,
     Page!AnsweredAfterCleanup
<1> QED
  BY <1>1, EntryInvariant, PTL

============================================================================
