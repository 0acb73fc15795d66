-------------------------- MODULE ScanServerProofs --------------------------
(***************************************************************************)
(* Proofs about module ScanServer, for any requests, any --max or none,    *)
(* and any set of disabled report types: requests are answered once, scans *)
(* stay within --max, nothing is left behind when a slot is given back,    *)
(* and nobody waits for a slot that no handler owns.  What is proved of    *)
(* the semaphore in module SemaphoreProofs holds in the server, because    *)
(* its steps are the only ones that change the semaphore's variables.      *)
(***************************************************************************)
EXTENDS ScanServer, FiniteSetTheorems, TLAPS

SP == INSTANCE SemaphoreProofs

----------------------------------------------------------------------------
(* The inductive invariant, one request at a time                          *)

(* A request that is at the semaphore is in its handler, and one that owns *)
(* something has its slot.                                                 *)
SlotPart(r) ==
  /\ acq[r] # "outside" =>
       Limited /\ (at[r] = "acquire" \/ (at[r] \in Owning /\ acq[r] = "held"))
  /\ Limited /\ at[r] \in Owning => acq[r] = "held"

(* What has been answered follows from where the handler is.               *)
AnswerPart(r) ==
  /\ at[r] = "idle" <=> kind[r] \in {"none", "over"}
  /\ at[r] = "scheduled" => kind[r] = "async"
  /\ kind[r] \in {"async", "over"} => answers[r] = 1
  /\ kind[r] \in Types =>
       answers[r] = IF at[r] \in {"unwind", "close", "reap", "release"}
                    THEN 1 ELSE 0

(* A temporary file exists only between its creation and the deferred call *)
(* that removes it.                                                        *)
FilePart(r) ==
  /\ "html" \in files[r] => at[r] \in {"print", "printing"}
  /\ "pdf" \in files[r] =>
       at[r] \in {"page", "print", "printing", "mail", "send", "unwind"}

(* The task of a request through Start, the scan and Cleanup               *)
LifePart(r) ==
  /\ at[r] \notin Owning \/ at[r] = "start" =>
       chrome[r] = "none" /\ remote[r] = "none" /\ userDir[r] = "none"
  /\ at[r] = "connect" => remote[r] = "none"
  /\ at[r] \in {"close", "reap"} => userDir[r] # "made"
  /\ at[r] = "reap" => remote[r] # "open"
  /\ at[r] = "release" =>
       \/ remote[r] = "none"
       \/ chrome[r] = "none" /\ userDir[r] # "made" /\ remote[r] # "open"

RequestInv(r) == SlotPart(r) /\ AnswerPart(r) /\ FilePart(r) /\ LifePart(r)

(***************************************************************************)
(* OneAnswer says nothing of kind, and NothingLeftBehind only looks at the *)
(* last step: that they are kept depends on what was answered, made and    *)
(* started on every path to it.                                            *)
(***************************************************************************)
ServerInv == TypeOK /\ \A r \in Requests : RequestInv(r)

AcqTyped ==
  acq \in [Requests -> {"outside", "waiting", "canceled", "held", "refused"}]

ofRequest(r) ==
  <<acq[r], at[r], kind[r], files[r], answers[r], chrome[r], remote[r], userDir[r]>>

(* The invariant of a request depends on nothing but its own state.        *)
LEMMA OwnState ==
  ASSUME NEW r \in Requests, RequestInv(r), UNCHANGED ofRequest(r)
  PROVE  RequestInv(r)'
<1> USE DEF ofRequest
<1>1. SlotPart(r)'
  BY DEF RequestInv, SlotPart
<1>2. AnswerPart(r)'
  BY DEF RequestInv, AnswerPart
<1>3. FilePart(r)'
  BY DEF RequestInv, FilePart
<1>4. LifePart(r)'
  BY DEF RequestInv, LifePart
<1> QED
  BY <1>1, <1>2, <1>3, <1>4 DEF RequestInv

(* A step of one request has to be looked at for that request only.        *)
LEMMA StepOfOne ==
  ASSUME ServerInv, NEW r \in Requests, TypeOK',
         \A q \in Requests \ {r} : UNCHANGED ofRequest(q),
         SlotPart(r)', AnswerPart(r)', FilePart(r)', LifePart(r)'
  PROVE  ServerInv'
<1>1. RequestInv(r)'
  BY DEF RequestInv
<1>2. ASSUME NEW q \in Requests \ {r} PROVE RequestInv(q)'
  BY <1>2, OwnState DEF ServerInv
<1> QED
  BY <1>1, <1>2 DEF ServerInv

LEMMA ServerInit == Init => ServerInv
<1> SUFFICES ASSUME Init PROVE ServerInv
  OBVIOUS
<1> USE ServerAssumption DEF Init, Sem!Init, Life!LifeInit
<1>1. TypeOK
  BY DEF TypeOK, Life!LifeTypeOK
<1>2. ASSUME NEW r \in Requests PROVE RequestInv(r)
  BY DEF RequestInv, SlotPart, AnswerPart, FilePart, LifePart, Types, Owning
<1> QED
  BY <1>1, <1>2 DEF ServerInv

----------------------------------------------------------------------------
(* One lemma for each action                                               *)

LEMMA RejectStep ==
  ASSUME ServerInv, AcqTyped, NEW r \in Requests, NEW type, NEW siteGiven,
         NEW mailToGiven, Reject(r, type, siteGiven, mailToGiven)
  PROVE  ServerInv'
<1> USE DEF Reject, semVars, lifeVars
<1>1. TypeOK'
  BY ServerAssumption DEF ServerInv, TypeOK, Life!LifeTypeOK, Owning,
     Types
<1>2. \A q \in Requests \ {r} : UNCHANGED ofRequest(q)
  BY DEF AcqTyped, ServerInv, TypeOK, Life!LifeTypeOK, ofRequest
<1>3. SlotPart(r)'
  BY DEF AcqTyped, ServerInv, TypeOK, RequestInv, SlotPart, Owning
<1>4. AnswerPart(r)'
  BY DEF ServerInv, TypeOK, RequestInv, AnswerPart, SlotPart, Owning,
     Types
<1>5. FilePart(r)'
  BY DEF ServerInv, TypeOK, RequestInv, FilePart
<1>6. LifePart(r)'
  BY DEF ServerInv, TypeOK, Life!LifeTypeOK, RequestInv, LifePart, Owning
<1> QED
  BY <1>1, <1>2, <1>3, <1>4, <1>5, <1>6, StepOfOne

LEMMA AcceptStep ==
  ASSUME ServerInv, AcqTyped, NEW r \in Requests, NEW type, Accept(r, type)
  PROVE  ServerInv'
<1> USE DEF Accept, GoTo, Accepted, Enabled, semVars, lifeVars
<1>1. TypeOK'
  BY ServerAssumption DEF ServerInv, TypeOK, Life!LifeTypeOK, Owning,
     Types
<1>2. \A q \in Requests \ {r} : UNCHANGED ofRequest(q)
  BY DEF AcqTyped, ServerInv, TypeOK, Life!LifeTypeOK, ofRequest
<1>3. SlotPart(r)'
  BY DEF AcqTyped, ServerInv, TypeOK, RequestInv, SlotPart, Owning
<1>4. AnswerPart(r)'
  BY DEF ServerInv, TypeOK, RequestInv, AnswerPart, SlotPart, Owning,
     Types
<1>5. FilePart(r)'
  BY DEF ServerInv, TypeOK, RequestInv, FilePart
<1>6. LifePart(r)'
  BY DEF ServerInv, TypeOK, Life!LifeTypeOK, RequestInv, LifePart, Owning
<1> QED
  BY <1>1, <1>2, <1>3, <1>4, <1>5, <1>6, StepOfOne

LEMMA ScheduleStep ==
  ASSUME ServerInv, AcqTyped, NEW r \in Requests, Schedule(r)
  PROVE  ServerInv'
<1> USE DEF Schedule, GoTo, semVars, lifeVars
<1>1. TypeOK'
  BY ServerAssumption DEF ServerInv, TypeOK, Life!LifeTypeOK, Owning,
     Types
<1>2. \A q \in Requests \ {r} : UNCHANGED ofRequest(q)
  BY DEF AcqTyped, ServerInv, TypeOK, Life!LifeTypeOK, ofRequest
<1>3. SlotPart(r)'
  BY DEF AcqTyped, ServerInv, TypeOK, RequestInv, SlotPart, Owning
<1>4. AnswerPart(r)'
  BY DEF ServerInv, TypeOK, RequestInv, AnswerPart, SlotPart, Owning,
     Types
<1>5. FilePart(r)'
  BY DEF ServerInv, TypeOK, RequestInv, FilePart
<1>6. LifePart(r)'
  BY DEF ServerInv, TypeOK, Life!LifeTypeOK, RequestInv, LifePart, Owning
<1> QED
  BY <1>1, <1>2, <1>3, <1>4, <1>5, <1>6, StepOfOne

LEMMA DelayEndsStep ==
  ASSUME ServerInv, AcqTyped, NEW r \in Requests, DelayEnds(r)
  PROVE  ServerInv'
<1> USE DEF DelayEnds, GoTo, semVars, lifeVars
<1>1. TypeOK'
  BY ServerAssumption DEF ServerInv, TypeOK, Life!LifeTypeOK, Owning,
     Types
<1>2. \A q \in Requests \ {r} : UNCHANGED ofRequest(q)
  BY DEF AcqTyped, ServerInv, TypeOK, Life!LifeTypeOK, ofRequest
<1>3. SlotPart(r)'
  BY DEF AcqTyped, ServerInv, TypeOK, RequestInv, SlotPart, Owning
<1>4. AnswerPart(r)'
  BY DEF ServerInv, TypeOK, RequestInv, AnswerPart, SlotPart, Owning,
     Types
<1>5. FilePart(r)'
  BY DEF ServerInv, TypeOK, RequestInv, FilePart
<1>6. LifePart(r)'
  BY DEF ServerInv, TypeOK, Life!LifeTypeOK, RequestInv, LifePart, Owning
<1> QED
  BY <1>1, <1>2, <1>3, <1>4, <1>5, <1>6, StepOfOne

LEMMA EnterLineStep ==
  ASSUME ServerInv, AcqTyped, NEW r \in Requests, EnterLine(r)
  PROVE  ServerInv'
<1> USE DEF EnterLine, Sem!Acquire, semVars, lifeVars
<1>1. TypeOK'
  BY ServerAssumption DEF ServerInv, TypeOK, Life!LifeTypeOK, Owning,
     Types
<1>2. \A q \in Requests \ {r} : UNCHANGED ofRequest(q)
  BY DEF AcqTyped, ServerInv, TypeOK, Life!LifeTypeOK, ofRequest
<1>3. SlotPart(r)'
  BY DEF AcqTyped, ServerInv, TypeOK, RequestInv, SlotPart, Owning
<1>4. AnswerPart(r)'
  BY DEF ServerInv, TypeOK, RequestInv, AnswerPart, SlotPart, Owning,
     Types
<1>5. FilePart(r)'
  BY DEF ServerInv, TypeOK, RequestInv, FilePart
<1>6. LifePart(r)'
  BY DEF ServerInv, TypeOK, Life!LifeTypeOK, RequestInv, LifePart, Owning
<1> QED
  BY <1>1, <1>2, <1>3, <1>4, <1>5, <1>6, StepOfOne

LEMMA WaitInLineStep ==
  ASSUME ServerInv, AcqTyped, NEW r \in Requests, WaitInLine(r)
  PROVE  ServerInv'
<1> USE DEF WaitInLine, Sem!SelectReady, Sem!SelectDone, Sem!Cancel,
            semVars, lifeVars
<1>1. TypeOK'
  BY ServerAssumption DEF ServerInv, TypeOK, Life!LifeTypeOK, Owning,
     Types
<1>2. \A q \in Requests \ {r} : UNCHANGED ofRequest(q)
  BY DEF AcqTyped, ServerInv, TypeOK, Life!LifeTypeOK, ofRequest
<1>3. SlotPart(r)'
  BY DEF AcqTyped, ServerInv, TypeOK, RequestInv, SlotPart, Owning
<1>4. AnswerPart(r)'
  BY DEF ServerInv, TypeOK, RequestInv, AnswerPart, SlotPart, Owning,
     Types
<1>5. FilePart(r)'
  BY DEF ServerInv, TypeOK, RequestInv, FilePart
<1>6. LifePart(r)'
  BY DEF ServerInv, TypeOK, Life!LifeTypeOK, RequestInv, LifePart, Owning
<1> QED
  BY <1>1, <1>2, <1>3, <1>4, <1>5, <1>6, StepOfOne

LEMMA ClientLeavesStep ==
  ASSUME ServerInv, AcqTyped, NEW r \in Requests, ClientLeaves(r)
  PROVE  ServerInv'
<1> USE DEF ClientLeaves, Sem!ContextEnds, semVars, lifeVars
<1>1. TypeOK'
  BY ServerAssumption DEF ServerInv, TypeOK, Life!LifeTypeOK, Owning,
     Types
<1>2. \A q \in Requests \ {r} : UNCHANGED ofRequest(q)
  BY DEF AcqTyped, ServerInv, TypeOK, Life!LifeTypeOK, ofRequest
<1>3. SlotPart(r)'
  BY DEF AcqTyped, ServerInv, TypeOK, RequestInv, SlotPart, Owning
<1>4. AnswerPart(r)'
  BY DEF ServerInv, TypeOK, RequestInv, AnswerPart, SlotPart, Owning,
     Types
<1>5. FilePart(r)'
  BY DEF ServerInv, TypeOK, RequestInv, FilePart
<1>6. LifePart(r)'
  BY DEF ServerInv, TypeOK, Life!LifeTypeOK, RequestInv, LifePart, Owning
<1> QED
  BY <1>1, <1>2, <1>3, <1>4, <1>5, <1>6, StepOfOne

LEMMA BusyStep ==
  ASSUME ServerInv, AcqTyped, NEW r \in Requests, Busy(r)
  PROVE  ServerInv'
<1> USE DEF Busy, Sem!Refused, Answer, Over, GoTo, semVars, lifeVars
<1>1. at[r] = "acquire"
  BY DEF ServerInv, RequestInv, SlotPart, Owning
<1>2. (answers \in [Requests -> 0..1])'
  BY <1>1 DEF ServerInv, TypeOK, RequestInv, AnswerPart, Owning, Types
<1>3. TypeOK'
  BY <1>2, ServerAssumption DEF ServerInv, TypeOK, Life!LifeTypeOK, Owning,
     Types
<1>4. \A q \in Requests \ {r} : UNCHANGED ofRequest(q)
  BY DEF AcqTyped, ServerInv, TypeOK, Life!LifeTypeOK, ofRequest
<1>5. SlotPart(r)'
  BY <1>1 DEF AcqTyped, ServerInv, TypeOK, RequestInv, SlotPart, Owning
<1>6. AnswerPart(r)'
  BY <1>1 DEF ServerInv, TypeOK, RequestInv, AnswerPart, SlotPart, Owning,
     Types
<1>7. FilePart(r)'
  BY <1>1 DEF ServerInv, TypeOK, RequestInv, FilePart
<1>8. LifePart(r)'
  BY <1>1 DEF ServerInv, TypeOK, Life!LifeTypeOK, RequestInv, LifePart, Owning
<1> QED
  BY <1>3, <1>4, <1>5, <1>6, <1>7, <1>8, StepOfOne

LEMMA GetPortStep ==
  ASSUME ServerInv, AcqTyped, NEW r \in Requests, GetPort(r)
  PROVE  ServerInv'
<1> USE DEF GetPort, HasSlot, GoTo, Answer, semVars, lifeVars
<1>1. (answers \in [Requests -> 0..1])'
  BY DEF ServerInv, TypeOK, RequestInv, AnswerPart, Owning, Types
<1>2. TypeOK'
  BY <1>1, ServerAssumption DEF ServerInv, TypeOK, Life!LifeTypeOK, Owning,
     Types
<1>3. \A q \in Requests \ {r} : UNCHANGED ofRequest(q)
  BY DEF AcqTyped, ServerInv, TypeOK, Life!LifeTypeOK, ofRequest
<1>4. SlotPart(r)'
  BY DEF AcqTyped, ServerInv, TypeOK, RequestInv, SlotPart, Owning
<1>5. AnswerPart(r)'
  BY DEF ServerInv, TypeOK, RequestInv, AnswerPart, SlotPart, Owning,
     Types
<1>6. FilePart(r)'
  BY DEF ServerInv, TypeOK, RequestInv, FilePart
<1>7. LifePart(r)'
  BY DEF ServerInv, TypeOK, Life!LifeTypeOK, RequestInv, LifePart, Owning
<1> QED
  BY <1>2, <1>3, <1>4, <1>5, <1>6, <1>7, StepOfOne

LEMMA StartChromeStep ==
  ASSUME ServerInv, AcqTyped, NEW r \in Requests, StartChrome(r)
  PROVE  ServerInv'
<1> USE DEF StartChrome, Life!Spawn, Life!NoProcess, Life!MakeUserDir,
            GoTo, Answer, semVars, lifeVars
<1>1. (answers \in [Requests -> 0..1])'
  BY DEF ServerInv, TypeOK, RequestInv, AnswerPart, Owning, Types
<1>2. TypeOK'
  BY <1>1, ServerAssumption DEF ServerInv, TypeOK, Life!LifeTypeOK, Owning,
     Types
<1>3. \A q \in Requests \ {r} : UNCHANGED ofRequest(q)
  BY DEF AcqTyped, ServerInv, TypeOK, Life!LifeTypeOK, ofRequest
<1>4. SlotPart(r)'
  BY DEF AcqTyped, ServerInv, TypeOK, RequestInv, SlotPart, Owning
<1>5. AnswerPart(r)'
  BY DEF ServerInv, TypeOK, RequestInv, AnswerPart, SlotPart, Owning,
     Types
<1>6. FilePart(r)'
  BY DEF ServerInv, TypeOK, RequestInv, FilePart
<1>7. LifePart(r)'
  BY DEF ServerInv, TypeOK, Life!LifeTypeOK, RequestInv, LifePart, Owning
<1> QED
  BY <1>2, <1>3, <1>4, <1>5, <1>6, <1>7, StepOfOne

LEMMA ConnectChromeStep ==
  ASSUME ServerInv, AcqTyped, NEW r \in Requests, ConnectChrome(r)
  PROVE  ServerInv'
<1> USE DEF ConnectChrome, Life!Connect, Life!GiveUpConnecting,
            Life!lifeVars, GoTo, Answer, semVars, lifeVars
<1>1. (answers \in [Requests -> 0..1])'
  BY DEF ServerInv, TypeOK, RequestInv, AnswerPart, Owning, Types
<1>2. TypeOK'
  BY <1>1, ServerAssumption DEF ServerInv, TypeOK, Life!LifeTypeOK, Owning,
     Types
<1>3. \A q \in Requests \ {r} : UNCHANGED ofRequest(q)
  BY DEF AcqTyped, ServerInv, TypeOK, Life!LifeTypeOK, ofRequest
<1>4. SlotPart(r)'
  BY DEF AcqTyped, ServerInv, TypeOK, RequestInv, SlotPart, Owning
<1>5. AnswerPart(r)'
  BY DEF ServerInv, TypeOK, RequestInv, AnswerPart, SlotPart, Owning,
     Types
<1>6. FilePart(r)'
  BY DEF ServerInv, TypeOK, RequestInv, FilePart
<1>7. LifePart(r)'
  BY DEF ServerInv, TypeOK, Life!LifeTypeOK, RequestInv, LifePart, Owning
<1> QED
  BY <1>2, <1>3, <1>4, <1>5, <1>6, <1>7, StepOfOne

LEMMA ParseURLStep ==
  ASSUME ServerInv, AcqTyped, NEW r \in Requests, ParseURL(r)
  PROVE  ServerInv'
<1> USE DEF ParseURL, GoTo, Answer, semVars, lifeVars
<1>1. (answers \in [Requests -> 0..1])'
  BY DEF ServerInv, TypeOK, RequestInv, AnswerPart, Owning, Types
<1>2. TypeOK'
  BY <1>1, ServerAssumption DEF ServerInv, TypeOK, Life!LifeTypeOK, Owning,
     Types
<1>3. \A q \in Requests \ {r} : UNCHANGED ofRequest(q)
  BY DEF AcqTyped, ServerInv, TypeOK, Life!LifeTypeOK, ofRequest
<1>4. SlotPart(r)'
  BY DEF AcqTyped, ServerInv, TypeOK, RequestInv, SlotPart, Owning
<1>5. AnswerPart(r)'
  BY DEF ServerInv, TypeOK, RequestInv, AnswerPart, SlotPart, Owning,
     Types
<1>6. FilePart(r)'
  BY DEF ServerInv, TypeOK, RequestInv, FilePart
<1>7. LifePart(r)'
  BY DEF ServerInv, TypeOK, Life!LifeTypeOK, RequestInv, LifePart, Owning
<1> QED
  BY <1>2, <1>3, <1>4, <1>5, <1>6, <1>7, StepOfOne

LEMMA ParseStep ==
  ASSUME ServerInv, AcqTyped, NEW r \in Requests, Parse(r)
  PROVE  ServerInv'
<1> USE DEF Parse, GoTo, Answer, semVars, lifeVars
<1>1. (answers \in [Requests -> 0..1])'
  BY DEF ServerInv, TypeOK, RequestInv, AnswerPart, Owning, Types
<1>2. TypeOK'
  BY <1>1, ServerAssumption DEF ServerInv, TypeOK, Life!LifeTypeOK, Owning,
     Types
<1>3. \A q \in Requests \ {r} : UNCHANGED ofRequest(q)
  BY DEF AcqTyped, ServerInv, TypeOK, Life!LifeTypeOK, ofRequest
<1>4. SlotPart(r)'
  BY DEF AcqTyped, ServerInv, TypeOK, RequestInv, SlotPart, Owning
<1>5. AnswerPart(r)'
  BY DEF ServerInv, TypeOK, RequestInv, AnswerPart, SlotPart, Owning,
     Types
<1>6. FilePart(r)'
  BY DEF ServerInv, TypeOK, RequestInv, FilePart
<1>7. LifePart(r)'
  BY DEF ServerInv, TypeOK, Life!LifeTypeOK, RequestInv, LifePart, Owning
<1> QED
  BY <1>2, <1>3, <1>4, <1>5, <1>6, <1>7, StepOfOne

LEMMA ChromeDiesStep ==
  ASSUME ServerInv, AcqTyped, NEW r \in Requests, ChromeDies(r)
  PROVE  ServerInv'
<1> USE DEF ChromeDies, Life!ChromeDies, semVars, lifeVars
<1>1. TypeOK'
  BY ServerAssumption DEF ServerInv, TypeOK, Life!LifeTypeOK, Owning,
     Types
<1>2. \A q \in Requests \ {r} : UNCHANGED ofRequest(q)
  BY DEF AcqTyped, ServerInv, TypeOK, Life!LifeTypeOK, ofRequest
<1>3. SlotPart(r)'
  BY DEF AcqTyped, ServerInv, TypeOK, RequestInv, SlotPart, Owning
<1>4. AnswerPart(r)'
  BY DEF ServerInv, TypeOK, RequestInv, AnswerPart, SlotPart, Owning,
     Types
<1>5. FilePart(r)'
  BY DEF ServerInv, TypeOK, RequestInv, FilePart
<1>6. LifePart(r)'
  BY DEF ServerInv, TypeOK, Life!LifeTypeOK, RequestInv, LifePart, Owning
<1> QED
  BY <1>1, <1>2, <1>3, <1>4, <1>5, <1>6, StepOfOne

LEMMA RenderStep ==
  ASSUME ServerInv, AcqTyped, NEW r \in Requests, Render(r)
  PROVE  ServerInv'
<1> USE DEF Render, GoTo, Answer, semVars, lifeVars
<1>1. (answers \in [Requests -> 0..1])'
  BY DEF ServerInv, TypeOK, RequestInv, AnswerPart, Owning, Types
<1>2. TypeOK'
  BY <1>1, ServerAssumption DEF ServerInv, TypeOK, Life!LifeTypeOK, Owning,
     Types
<1>3. \A q \in Requests \ {r} : UNCHANGED ofRequest(q)
  BY DEF AcqTyped, ServerInv, TypeOK, Life!LifeTypeOK, ofRequest
<1>4. SlotPart(r)'
  BY DEF AcqTyped, ServerInv, TypeOK, RequestInv, SlotPart, Owning
<1>5. AnswerPart(r)'
  BY DEF ServerInv, TypeOK, RequestInv, AnswerPart, SlotPart, Owning,
     Types
<1>6. FilePart(r)'
  BY DEF ServerInv, TypeOK, RequestInv, FilePart
<1>7. LifePart(r)'
  BY DEF ServerInv, TypeOK, Life!LifeTypeOK, RequestInv, LifePart, Owning
<1> QED
  BY <1>2, <1>3, <1>4, <1>5, <1>6, <1>7, StepOfOne

LEMMA MakeAttachmentStep ==
  ASSUME ServerInv, AcqTyped, NEW r \in Requests, MakeAttachment(r)
  PROVE  ServerInv'
<1> USE DEF MakeAttachment, GoTo, Answer, semVars, lifeVars
<1>1. (answers \in [Requests -> 0..1])'
  BY DEF ServerInv, TypeOK, RequestInv, AnswerPart, Owning, Types
<1>2. TypeOK'
  BY <1>1, ServerAssumption DEF ServerInv, TypeOK, Life!LifeTypeOK, Owning,
     Types
<1>3. \A q \in Requests \ {r} : UNCHANGED ofRequest(q)
  BY DEF AcqTyped, ServerInv, TypeOK, Life!LifeTypeOK, ofRequest
<1>4. SlotPart(r)'
  BY DEF AcqTyped, ServerInv, TypeOK, RequestInv, SlotPart, Owning
<1>5. AnswerPart(r)'
  BY DEF ServerInv, TypeOK, RequestInv, AnswerPart, SlotPart, Owning,
     Types
<1>6. FilePart(r)'
  BY DEF ServerInv, TypeOK, RequestInv, FilePart
<1>7. LifePart(r)'
  BY DEF ServerInv, TypeOK, Life!LifeTypeOK, RequestInv, LifePart, Owning
<1> QED
  BY <1>2, <1>3, <1>4, <1>5, <1>6, <1>7, StepOfOne

LEMMA MakePageStep ==
  ASSUME ServerInv, AcqTyped, NEW r \in Requests, MakePage(r)
  PROVE  ServerInv'
<1> USE DEF MakePage, GoTo, Answer, semVars, lifeVars
<1>1. (answers \in [Requests -> 0..1])'
  BY DEF ServerInv, TypeOK, RequestInv, AnswerPart, Owning, Types
<1>2. TypeOK'
  BY <1>1, ServerAssumption DEF ServerInv, TypeOK, Life!LifeTypeOK, Owning,
     Types
<1>3. \A q \in Requests \ {r} : UNCHANGED ofRequest(q)
  BY DEF AcqTyped, ServerInv, TypeOK, Life!LifeTypeOK, ofRequest
<1>4. SlotPart(r)'
  BY DEF AcqTyped, ServerInv, TypeOK, RequestInv, SlotPart, Owning
<1>5. AnswerPart(r)'
  BY DEF ServerInv, TypeOK, RequestInv, AnswerPart, SlotPart, Owning,
     Types
<1>6. FilePart(r)'
  BY DEF ServerInv, TypeOK, RequestInv, FilePart
<1>7. LifePart(r)'
  BY DEF ServerInv, TypeOK, Life!LifeTypeOK, RequestInv, LifePart, Owning
<1> QED
  BY <1>2, <1>3, <1>4, <1>5, <1>6, <1>7, StepOfOne

LEMMA OpenPageStep ==
  ASSUME ServerInv, AcqTyped, NEW r \in Requests, OpenPage(r)
  PROVE  ServerInv'
<1> USE DEF OpenPage, RemovePage, Life!LoseConnection, GoTo, Answer,
            semVars, lifeVars
<1>1. (answers \in [Requests -> 0..1])'
  BY DEF ServerInv, TypeOK, RequestInv, AnswerPart, Owning, Types
<1>2. TypeOK'
  <2>1. Life!LifeTypeOK'
    BY DEF ServerInv, TypeOK, Life!LifeTypeOK
  <2> QED
    BY <1>1, <2>1, ServerAssumption DEF ServerInv, TypeOK, Owning, Types
<1>3. \A q \in Requests \ {r} : UNCHANGED ofRequest(q)
  BY DEF AcqTyped, ServerInv, TypeOK, Life!LifeTypeOK, ofRequest
<1>4. SlotPart(r)'
  BY DEF AcqTyped, ServerInv, TypeOK, RequestInv, SlotPart, Owning
<1>5. AnswerPart(r)'
  BY DEF ServerInv, TypeOK, RequestInv, AnswerPart, SlotPart, Owning,
     Types
<1>6. FilePart(r)'
  BY DEF ServerInv, TypeOK, RequestInv, FilePart
<1>7. LifePart(r)'
  BY DEF ServerInv, TypeOK, Life!LifeTypeOK, RequestInv, LifePart, Owning
<1> QED
  BY <1>2, <1>3, <1>4, <1>5, <1>6, <1>7, StepOfOne

LEMMA PrintPageStep ==
  ASSUME ServerInv, AcqTyped, NEW r \in Requests, PrintPage(r)
  PROVE  ServerInv'
<1> USE DEF PrintPage, RemovePage, GoTo, Answer, semVars, lifeVars
<1>1. (answers \in [Requests -> 0..1])'
  BY DEF ServerInv, TypeOK, RequestInv, AnswerPart, Owning, Types
<1>2. TypeOK'
  <2>1. Life!LifeTypeOK'
    BY DEF ServerInv, TypeOK, Life!LifeTypeOK
  <2> QED
    BY <1>1, <2>1, ServerAssumption DEF ServerInv, TypeOK, Owning, Types
<1>3. \A q \in Requests \ {r} : UNCHANGED ofRequest(q)
  BY DEF AcqTyped, ServerInv, TypeOK, Life!LifeTypeOK, ofRequest
<1>4. SlotPart(r)'
  BY DEF AcqTyped, ServerInv, TypeOK, RequestInv, SlotPart, Owning
<1>5. AnswerPart(r)'
  BY DEF ServerInv, TypeOK, RequestInv, AnswerPart, SlotPart, Owning,
     Types
<1>6. FilePart(r)'
  BY DEF ServerInv, TypeOK, RequestInv, FilePart
<1>7. LifePart(r)'
  BY DEF ServerInv, TypeOK, Life!LifeTypeOK, RequestInv, LifePart, Owning
<1> QED
  BY <1>2, <1>3, <1>4, <1>5, <1>6, <1>7, StepOfOne

LEMMA FormatEmailStep ==
  ASSUME ServerInv, AcqTyped, NEW r \in Requests, FormatEmail(r)
  PROVE  ServerInv'
<1> USE DEF FormatEmail, GoTo, Answer, semVars, lifeVars
<1>1. (answers \in [Requests -> 0..1])'
  BY DEF ServerInv, TypeOK, RequestInv, AnswerPart, Owning, Types
<1>2. TypeOK'
  BY <1>1, ServerAssumption DEF ServerInv, TypeOK, Life!LifeTypeOK, Owning,
     Types
<1>3. \A q \in Requests \ {r} : UNCHANGED ofRequest(q)
  BY DEF AcqTyped, ServerInv, TypeOK, Life!LifeTypeOK, ofRequest
<1>4. SlotPart(r)'
  BY DEF AcqTyped, ServerInv, TypeOK, RequestInv, SlotPart, Owning
<1>5. AnswerPart(r)'
  BY DEF ServerInv, TypeOK, RequestInv, AnswerPart, SlotPart, Owning,
     Types
<1>6. FilePart(r)'
  BY DEF ServerInv, TypeOK, RequestInv, FilePart
<1>7. LifePart(r)'
  BY DEF ServerInv, TypeOK, Life!LifeTypeOK, RequestInv, LifePart, Owning
<1> QED
  BY <1>2, <1>3, <1>4, <1>5, <1>6, <1>7, StepOfOne

LEMMA SendEmailStep ==
  ASSUME ServerInv, AcqTyped, NEW r \in Requests, SendEmail(r)
  PROVE  ServerInv'
<1> USE DEF SendEmail, GoTo, Answer, semVars, lifeVars
<1>1. (answers \in [Requests -> 0..1])'
  BY DEF ServerInv, TypeOK, RequestInv, AnswerPart, Owning, Types
<1>2. TypeOK'
  BY <1>1, ServerAssumption DEF ServerInv, TypeOK, Life!LifeTypeOK, Owning,
     Types
<1>3. \A q \in Requests \ {r} : UNCHANGED ofRequest(q)
  BY DEF AcqTyped, ServerInv, TypeOK, Life!LifeTypeOK, ofRequest
<1>4. SlotPart(r)'
  BY DEF AcqTyped, ServerInv, TypeOK, RequestInv, SlotPart, Owning
<1>5. AnswerPart(r)'
  BY DEF ServerInv, TypeOK, RequestInv, AnswerPart, SlotPart, Owning,
     Types
<1>6. FilePart(r)'
  BY DEF ServerInv, TypeOK, RequestInv, FilePart
<1>7. LifePart(r)'
  BY DEF ServerInv, TypeOK, Life!LifeTypeOK, RequestInv, LifePart, Owning
<1> QED
  BY <1>2, <1>3, <1>4, <1>5, <1>6, <1>7, StepOfOne

LEMMA RemoveFilesStep ==
  ASSUME ServerInv, AcqTyped, NEW r \in Requests, RemoveFiles(r)
  PROVE  ServerInv'
<1> USE DEF RemoveFiles, Life!RemoveUserDir, GoTo, semVars, lifeVars
<1>1. TypeOK'
  BY ServerAssumption DEF ServerInv, TypeOK, Life!LifeTypeOK, Owning,
     Types
<1>2. \A q \in Requests \ {r} : UNCHANGED ofRequest(q)
  BY DEF AcqTyped, ServerInv, TypeOK, Life!LifeTypeOK, ofRequest
<1>3. SlotPart(r)'
  BY DEF AcqTyped, ServerInv, TypeOK, RequestInv, SlotPart, Owning
<1>4. AnswerPart(r)'
  BY DEF ServerInv, TypeOK, RequestInv, AnswerPart, SlotPart, Owning,
     Types
<1>5. FilePart(r)'
  BY DEF ServerInv, TypeOK, RequestInv, FilePart
<1>6. LifePart(r)'
  BY DEF ServerInv, TypeOK, Life!LifeTypeOK, RequestInv, LifePart, Owning
<1> QED
  BY <1>1, <1>2, <1>3, <1>4, <1>5, <1>6, StepOfOne

LEMMA CloseBrowserStep ==
  ASSUME ServerInv, AcqTyped, NEW r \in Requests, CloseBrowser(r)
  PROVE  ServerInv'
<1> USE DEF CloseBrowser, Life!CloseBrowser, Life!lifeVars, GoTo, semVars,
            lifeVars
<1>1. TypeOK'
  BY ServerAssumption DEF ServerInv, TypeOK, Life!LifeTypeOK, Owning,
     Types
<1>2. \A q \in Requests \ {r} : UNCHANGED ofRequest(q)
  BY DEF AcqTyped, ServerInv, TypeOK, Life!LifeTypeOK, ofRequest
<1>3. SlotPart(r)'
  BY DEF AcqTyped, ServerInv, TypeOK, RequestInv, SlotPart, Owning
<1>4. AnswerPart(r)'
  BY DEF ServerInv, TypeOK, RequestInv, AnswerPart, SlotPart, Owning,
     Types
<1>5. FilePart(r)'
  BY DEF ServerInv, TypeOK, RequestInv, FilePart
<1>6. LifePart(r)'
  BY DEF ServerInv, TypeOK, Life!LifeTypeOK, RequestInv, LifePart, Owning
<1> QED
  BY <1>1, <1>2, <1>3, <1>4, <1>5, <1>6, StepOfOne

LEMMA ReapStep ==
  ASSUME ServerInv, AcqTyped, NEW r \in Requests, Reap(r)
  PROVE  ServerInv'
<1> USE DEF Reap, Life!Reap, GoTo, semVars, lifeVars
<1>1. TypeOK'
  BY ServerAssumption DEF ServerInv, TypeOK, Life!LifeTypeOK, Owning,
     Types
<1>2. \A q \in Requests \ {r} : UNCHANGED ofRequest(q)
  BY DEF AcqTyped, ServerInv, TypeOK, Life!LifeTypeOK, ofRequest
<1>3. SlotPart(r)'
  BY DEF AcqTyped, ServerInv, TypeOK, RequestInv, SlotPart, Owning
<1>4. AnswerPart(r)'
  BY DEF ServerInv, TypeOK, RequestInv, AnswerPart, SlotPart, Owning,
     Types
<1>5. FilePart(r)'
  BY DEF ServerInv, TypeOK, RequestInv, FilePart
<1>6. LifePart(r)'
  BY DEF ServerInv, TypeOK, Life!LifeTypeOK, RequestInv, LifePart, Owning
<1> QED
  BY <1>1, <1>2, <1>3, <1>4, <1>5, <1>6, StepOfOne

LEMMA ReleaseStep ==
  ASSUME ServerInv, AcqTyped, NEW r \in Requests, Release(r)
  PROVE  ServerInv'
<1> USE DEF Release, Sem!Release, Life!NewTask, Over, GoTo, semVars,
            lifeVars
<1>1. TypeOK'
  BY ServerAssumption DEF ServerInv, TypeOK, Life!LifeTypeOK, Owning,
     Types
<1>2. \A q \in Requests \ {r} : UNCHANGED ofRequest(q)
  BY DEF AcqTyped, ServerInv, TypeOK, Life!LifeTypeOK, ofRequest
<1>3. SlotPart(r)'
  BY DEF AcqTyped, ServerInv, TypeOK, RequestInv, SlotPart, Owning
<1>4. AnswerPart(r)'
  BY DEF ServerInv, TypeOK, RequestInv, AnswerPart, SlotPart, Owning,
     Types
<1>5. FilePart(r)'
  BY DEF ServerInv, TypeOK, RequestInv, FilePart
<1>6. LifePart(r)'
  BY DEF ServerInv, TypeOK, Life!LifeTypeOK, RequestInv, LifePart, Owning
<1> QED
  BY <1>1, <1>2, <1>3, <1>4, <1>5, <1>6, StepOfOne

LEMMA ServerNext ==
  ASSUME ServerInv, AcqTyped, [Next]_vars
  PROVE  ServerInv'
<1>1. ASSUME NEW r \in Requests, Client(r)
      PROVE  ServerInv'
  BY <1>1, RejectStep, AcceptStep, ScheduleStep, ClientLeavesStep DEF Client
<1>2. ASSUME NEW r \in Requests, Handle(r)
      PROVE  ServerInv'
  BY <1>2, DelayEndsStep, EnterLineStep, WaitInLineStep, BusyStep,
     GetPortStep, StartChromeStep, ConnectChromeStep, ParseURLStep, ParseStep,
     RenderStep, MakeAttachmentStep, MakePageStep, OpenPageStep, PrintPageStep,
     FormatEmailStep, SendEmailStep, RemoveFilesStep, CloseBrowserStep,
     ReapStep, ReleaseStep
     DEF Handle
<1>3. ASSUME NEW r \in Requests, ChromeDies(r)
      PROVE  ServerInv'
  BY <1>3, ChromeDiesStep
<1>4. CASE UNCHANGED vars
  <2>1. TypeOK'
    BY <1>4 DEF vars, semVars, lifeVars, ServerInv, TypeOK, Life!LifeTypeOK
  <2>2. ASSUME NEW r \in Requests PROVE RequestInv(r)'
    <3>1. UNCHANGED ofRequest(r)
      BY <1>4 DEF vars, semVars, lifeVars, ofRequest
    <3> QED
      BY <3>1, OwnState DEF ServerInv
  <2> QED
    BY <2>1, <2>2 DEF ServerInv
<1> QED
  BY <1>1, <1>2, <1>3, <1>4 DEF Next

----------------------------------------------------------------------------
(* The semaphore in the server                                             *)

(* The step of the semaphore that a step of the server is                  *)
LEMMA SemaphoreStep ==
  ASSUME [Next]_vars
  PROVE  [Sem!Next]_(Sem!semVars)
<1> USE DEF Sem!semVars, semVars
<1>1. ASSUME NEW r \in Requests, Client(r)
      PROVE  [Sem!Next]_(Sem!semVars)
  BY <1>1 DEF Client, Reject, Accept, Schedule, ClientLeaves, Sem!Next
<1>2. ASSUME NEW r \in Requests, Handle(r)
      PROVE  [Sem!Next]_(Sem!semVars)
  <2>1. CASE EnterLine(r) \/ WaitInLine(r) \/ Busy(r) \/ Release(r)
    BY <2>1 DEF EnterLine, WaitInLine, Busy, Release, Sem!Next
  <2>2. CASE ~ (EnterLine(r) \/ WaitInLine(r) \/ Busy(r) \/ Release(r))
    BY <1>2, <2>2 DEF Handle, DelayEnds, GetPort, StartChrome, ConnectChrome,
       ParseURL, Parse, Render, MakeAttachment, MakePage, OpenPage, PrintPage,
       FormatEmail, SendEmail, RemoveFiles, CloseBrowser, Reap
  <2> QED
    BY <2>1, <2>2
<1>3. ASSUME NEW r \in Requests, ChromeDies(r)
      PROVE  [Sem!Next]_(Sem!semVars)
  BY <1>3 DEF ChromeDies
<1>4. CASE UNCHANGED vars
  BY <1>4 DEF vars
<1> QED
  BY <1>1, <1>2, <1>3, <1>4 DEF Next

(* What the handlers do to the semaphore's variables are its own steps.    *)
LEMMA ServerUsesSemaphore == Spec => Sem!SafeSpec
<1>1. Init => Sem!Init
  BY DEF Init
<1>2. [Next]_vars => [Sem!Next]_(Sem!semVars)
  BY SemaphoreStep
<1> QED
  BY <1>1, <1>2, PTL DEF Spec, Sem!SafeSpec

(* The semaphore is the one that module SemaphoreProofs is about.          *)
LEMMA SameSemaphore == Sem!SafeSpec => SP!SafeSpec
  BY DEF Sem!SafeSpec, Sem!Init, Sem!Next, Sem!semVars, Sem!Acquire,
     Sem!SelectReady, Sem!SelectDone, Sem!Cancel, Sem!RemoveAt, Sem!Granted,
     Sem!Release, Sem!Refused, Sem!ContextEnds,
     SP!SafeSpec, SP!Init, SP!Next, SP!semVars, SP!Acquire,
     SP!SelectReady, SP!SelectDone, SP!Cancel, SP!RemoveAt, SP!Granted,
     SP!Release, SP!Refused, SP!ContextEnds

LEMMA SemaphoreInvariant == Spec => []SP!SemInv
  BY ServerUsesSemaphore, SameSemaphore, SP!SemInvariant, ServerAssumption, PTL

----------------------------------------------------------------------------

THEOREM ServerInvariant == Spec => [](ServerInv /\ SP!SemInv)
<1>1. SP!SemInv => AcqTyped
  BY DEF SP!SemInv, SP!TypeOK, AcqTyped
<1>2. ServerInv /\ AcqTyped /\ [Next]_vars => ServerInv'
  BY ServerNext
<1> QED
  BY ServerInit, <1>1, <1>2, SemaphoreInvariant, PTL DEF Spec

(* The server's state keeps its type.                                      *)
THEOREM ServerTypeOK == Spec => []TypeOK
<1>1. ServerInv => TypeOK
  BY DEF ServerInv
<1> QED
  BY <1>1, ServerInvariant, PTL

(***************************************************************************)
(* Whatever its type and whatever fails, a request is answered once before *)
(* its handler returns and not before its scan is over.                    *)
(***************************************************************************)
THEOREM ServerOneAnswer == Spec => []OneAnswer
<1>1. ServerInv => OneAnswer
  BY DEF ServerInv, TypeOK, RequestInv, AnswerPart, OneAnswer, Types
<1> QED
  BY <1>1, ServerInvariant, PTL

(***************************************************************************)
(* No more than --max requests own anything: each has its slot, and the    *)
(* semaphore has no more slots than that.                                  *)
(***************************************************************************)
THEOREM ServerScansWithinMax == Spec => []ScansWithinMax
<1>1. ASSUME ServerInv, SP!SemInv, Limited
      PROVE  Cardinality({r \in Requests : at[r] \in Owning}) <= Size
  <2> DEFINE owners == {r \in Requests : at[r] \in Owning}
             taken == SP!Held \cup ready
  <2>1. IsFiniteSet(taken) /\ cur = Cardinality(taken) /\ cur <= Size
    BY <1>1 DEF SP!SemInv, SP!SlotsAccounted, SP!Occupied,
       SP!IsFiniteSet, IsFiniteSet, SP!Cardinality, Cardinality
  <2>2. owners \subseteq taken
    BY <1>1 DEF ServerInv, RequestInv, SlotPart, SP!Held
  <2>3. Cardinality(owners) <= Cardinality(taken)
    BY <2>1, <2>2, FS_Subset
  <2>4. IsFiniteSet(owners) /\ Cardinality(owners) \in Nat /\ Cardinality(taken) \in Nat
    BY <2>1, <2>2, FS_Subset, FS_CardinalityType
  <2> QED
    BY <2>1, <2>3, <2>4, ServerAssumption
<1>2. ASSUME ServerInv, Limited, NEW r \in Requests,
             chrome[r] # "none" \/ userDir[r] = "made" \/ files[r] # {}
      PROVE  acq[r] = "held"
  <2>1. at[r] \in Owning
    BY <1>2 DEF ServerInv, TypeOK, RequestInv, FilePart, LifePart, Owning
  <2> QED
    BY <1>2, <2>1 DEF ServerInv, RequestInv, SlotPart
<1>3. ServerInv /\ SP!SemInv => ScansWithinMax
  BY <1>1, <1>2 DEF ScansWithinMax
<1> QED
  BY <1>3, ServerInvariant, PTL

(***************************************************************************)
(* A slot is given back only when the request's temporary files are gone   *)
(* and, if its Start succeeded, its Chrome has been waited for, its user   *)
(* data directory has been removed once (Chrome may have written to it     *)
(* again after that) and its connection is not open.                       *)
(***************************************************************************)
THEOREM ServerNothingLeftBehind == Spec => []NothingLeftBehind
<1>1. ServerInv => NothingLeftBehind
  BY DEF ServerInv, TypeOK, RequestInv, FilePart, LifePart, NothingLeftBehind
<1> QED
  BY <1>1, ServerInvariant, PTL

(***************************************************************************)
(* A request in line waits for --max others that own their slots: the      *)
(* handlers never stop owning one they have, and the semaphore has none    *)
(* left.                                                                   *)
(***************************************************************************)
THEOREM ServerLineWaitsForOwners == Spec => []LineWaitsForOwners
<1>1. ASSUME ServerInv, SP!SemInv, NEW i \in 1..Len(waiters)
      PROVE  waiters[i] \notin SlotOwners /\ Cardinality(SlotOwners) = Size
  <2> DEFINE w == waiters[i]
             taken == SP!Held \cup ready
  <2>1. w \in Requests /\ acq[w] \in {"waiting", "canceled"} /\ w \notin ready
    BY <1>1 DEF SP!SemInv, SP!LineIsExact, SP!Waiting
  <2>2. Limited /\ at[w] = "acquire" /\ "acquire" \notin Owning
    BY <1>1, <2>1 DEF ServerInv, RequestInv, SlotPart, Owning
  <2>3. SlotOwners = taken
    <3>1. ready \subseteq {r \in Requests : acq[r] \in {"waiting", "canceled"}}
      BY <1>1 DEF SP!SemInv, SP!SlotsAccounted
    <3>2. ASSUME NEW r \in Requests
          PROVE  r \in SlotOwners <=> acq[r] = "held" \/ r \in ready
      BY <1>1, <2>2, <3>1 DEF ServerInv, RequestInv, SlotPart, SlotOwners
    <3> QED
      BY <3>1, <3>2 DEF SlotOwners, SP!Held
  <2>4. IsFiniteSet(taken) /\ cur = Cardinality(taken) /\ cur <= Size
    BY <1>1 DEF SP!SemInv, SP!SlotsAccounted, SP!Occupied,
       SP!IsFiniteSet, IsFiniteSet, SP!Cardinality, Cardinality
  <2>5. waiters # <<>>
    OBVIOUS
  <2>6. cur = Size
    <3>1. Cardinality(taken) \in Nat
      BY <2>4, FS_CardinalityType
    <3> QED
      BY <1>1, <2>4, <2>5, <3>1, ServerAssumption DEF SP!SemInv, SP!NoIdleSlot
  <2>7. w \notin SlotOwners
    BY <2>1, <2>2 DEF SlotOwners
  <2> QED
    BY <2>3, <2>4, <2>6, <2>7
<1>2. ServerInv /\ SP!SemInv => LineWaitsForOwners
  BY <1>1 DEF LineWaitsForOwners
<1> QED
  BY <1>2, ServerInvariant, PTL

(***************************************************************************)
(* So the server gives its slots to the requests in the order in which     *)
(* they came: it implements the limit of module InflightLimit.             *)
(***************************************************************************)
THEOREM ServerImplementsLimit == Spec => SP!ImplementsLimit
BY ServerUsesSemaphore, SameSemaphore, SP!SemImplementsLimit, ServerAssumption, PTL

============================================================================
