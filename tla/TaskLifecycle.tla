---------------------------- MODULE TaskLifecycle ----------------------------
(***************************************************************************)
(* What a parser.Task owns outside the program: the Chrome process, the    *)
(* debugger connection and the user data directory (parser/handler.go,     *)
(* Start 37-126 and Cleanup 128-140).  Start is two steps, the process and *)
(* the connection to it; Cleanup is three.                                 *)
(*                                                                         *)
(* Every task has a debugger port of its own.  (utils.GetRandomPort closes *)
(* the port it found before Chrome opens it, so the system could hand it   *)
(* out twice; that is left out.)                                           *)
(***************************************************************************)
CONSTANTS
  Tasks,
  ChromeMayDie   (* whether a Chrome may end before it is told to           *)

VARIABLES
  chrome,     (* the process: "none" (not started or waited for),           *)
              (* "running" or "exited"                                      *)
  remote,     (* t.remote: "none", "open", "closed", or "lost" when it has  *)
              (* no socket any more                                         *)
  userDir     (* the temporary user data directory: "none", "made", or      *)
              (* "left" when Cleanup has removed it under a running Chrome, *)
              (* which wrote to it again                                    *)

lifeVars == <<chrome, remote, userDir>>

LifeInit ==
  /\ chrome = [t \in Tasks |-> "none"]
  /\ remote = [t \in Tasks |-> "none"]
  /\ userDir = [t \in Tasks |-> "none"]

NewTask(t) ==
  /\ chrome' = [chrome EXCEPT ![t] = "none"]
  /\ remote' = [remote EXCEPT ![t] = "none"]
  /\ userDir' = [userDir EXCEPT ![t] = "none"]

(* A directory is made for the Chrome that Start looked up itself, unless  *)
(* making it fails.                                                        *)
MakeUserDir(t) ==
  \E dir \in {"none", "made"} : userDir' = [userDir EXCEPT ![t] = dir]

(* No Chrome was found, or it cannot be executed.                          *)
NoProcess(t) ==
  /\ MakeUserDir(t)
  /\ UNCHANGED <<chrome, remote>>

Spawn(t) ==
  /\ MakeUserDir(t)
  /\ chrome' = [chrome EXCEPT ![t] = "running"]
  /\ UNCHANGED remote

Connect(t) ==
  /\ chrome[t] = "running"
  /\ remote' = [remote EXCEPT ![t] = "open"]
  /\ UNCHANGED <<chrome, userDir>>

(* The tenth attempt fails: Start returns an error, the process stays.     *)
GiveUpConnecting(t) ==
  /\ remote[t] = "none"
  /\ UNCHANGED lifeVars

ChromeDies(t) ==
  /\ ChromeMayDie
  /\ chrome[t] = "running"
  /\ chrome' = [chrome EXCEPT ![t] = "exited"]
  /\ UNCHANGED <<remote, userDir>>

(* Switching to the page to print, connectWs closes the old socket before  *)
(* it dials the new one, which fails.                                      *)
LoseConnection(t) ==
  /\ remote[t] = "open"
  /\ remote' = [remote EXCEPT ![t] = "lost"]
  /\ UNCHANGED <<chrome, userDir>>

----------------------------------------------------------------------------
(* Cleanup                                                                 *)

(* The directory goes before the Chrome that uses it.                      *)
RemoveUserDir(t) ==
  /\ \/ userDir' = [userDir EXCEPT ![t] = "none"]
     \/ /\ userDir[t] = "made" /\ chrome[t] = "running"
        /\ userDir' = [userDir EXCEPT ![t] = "left"]
  /\ UNCHANGED <<chrome, remote>>

(* Browser.close is answered by a running Chrome only, and CloseBrowser    *)
(* waits for the answer; then the connection is closed.  Without a socket  *)
(* CloseBrowser fails at once and Close does nothing.                      *)
CloseBrowser(t) ==
  \/ /\ remote[t] = "open"
     /\ chrome[t] = "running"
     /\ \E after \in {"running", "exited"} :
          chrome' = [chrome EXCEPT ![t] = after]
     /\ remote' = [remote EXCEPT ![t] = "closed"]
     /\ UNCHANGED userDir
  \/ /\ remote[t] = "lost"
     /\ UNCHANGED lifeVars

(* SIGTERM and Wait                                                        *)
Reap(t) ==
  /\ chrome' = [chrome EXCEPT ![t] = "none"]
  /\ UNCHANGED <<remote, userDir>>

----------------------------------------------------------------------------

LifeTypeOK ==
  /\ chrome \in [Tasks -> {"none", "running", "exited"}]
  /\ remote \in [Tasks -> {"none", "open", "closed", "lost"}]
  /\ userDir \in [Tasks -> {"none", "made", "left"}]

============================================================================
