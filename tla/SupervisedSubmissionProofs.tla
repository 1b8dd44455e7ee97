--------------------- MODULE SupervisedSubmissionProofs ---------------------
(***************************************************************************)
(* An application is recorded as submitted only if the employer received   *)
(* it, and once its browser session was recorded as stopped no automated   *)
(* click lands: for any number of requests, captures, clicks and faults.   *)
(***************************************************************************)
EXTENDS SupervisedSubmission, TLAPS

(* What the copies a request holds claim of the employer. *)
HoldsTrue(q) == q.run.state = "SUBMISSION_CONFIRMED" \/ q.saw = "confirmation" => received

ConfirmedSound == ConfirmedIsTrue /\ \A r \in Request : HoldsTrue(req[r])

(* The launch of the browser that a request, or the worker, has still to do. *)
LaunchAwaited == (\E r \in Request : At(r, {"launch"})) \/ \E i \in 1..Len(pipe) : pipe[i] = "launch"

(* A session's browser is launched once: nothing brings it back. *)
LaunchedOnce ==
    /\ \A r, s \in Request : At(r, {"launch"}) /\ At(s, {"launch"}) => r = s
    /\ \A i, j \in 1..Len(pipe) : pipe[i] = "launch" /\ pipe[j] = "launch" => i = j
    /\ \A r \in Request, i \in 1..Len(pipe) : ~(At(r, {"launch"}) /\ pipe[i] = "launch")
    /\ serving => ~LaunchAwaited

Over == ended \/ \E r \in Request : At(r, {"closed"})

OverIsOver == Over => ~serving /\ ~LaunchAwaited

Unbegun == session = "NONE" => ~serving /\ ~LaunchAwaited /\ ~Over

ObserversSound == \A r \in Request : req[r].op = "observe session" => req[r].was \in Live

SessionSound == LaunchedOnce /\ OverIsOver /\ Unbegun /\ ObserversSound

-----------------------------------------------------------------------------
(* Types. *)

LEMMA PagesAre ==
    /\ Idle \in Requests /\ NoRun \in Runs
    /\ \A p \in Page : Captured(p) \in Runs /\ Fingerprint(p) \in Fingerprints
    /\ \A p \in Page, v \in BOOLEAN : Submitted(p, v) \in Runs
BY DEF Idle, Requests, Operation, Step, SessionState, NoRun, Runs, RunState, Fingerprints, Fingerprint,
       Page, Captured, Submitted, Classify

LEMMA InitTyped == Init => TypeOK
<1> SUFFICES ASSUME Init PROVE TypeOK
  OBVIOUS
<1>1. pipe \in Seq({"launch", "relaunch", "click", "closing"})
  BY DEF Init
<1>2. evidence \in [latest : Nat, confirms : BOOLEAN]
  BY DEF Init
<1>3. req \in [Request -> Requests]
  BY PagesAre DEF Init
<1>4. run \in Runs
  BY PagesAre DEF Init
<1>5. faults \in 0..MaxFaults
  BY SubmissionAssumption DEF Init
<1> QED BY <1>1, <1>2, <1>3, <1>4, <1>5 DEF Init, TypeOK, SessionState

(* Requests go on with records of their type. *)
LEMMA FieldsTyped ==
    ASSUME NEW q \in Requests, NEW at \in Step, NEW w \in Runs, NEW p \in Page
    PROVE  /\ [q EXCEPT !.at = at, !.run = w, !.saw = p] \in Requests
           /\ [q EXCEPT !.run = w, !.saw = p, !.at = at] \in Requests
           /\ [q EXCEPT !.saw = p, !.at = at] \in Requests
           /\ [q EXCEPT !.at = at, !.saw = p] \in Requests
           /\ [q EXCEPT !.at = at, !.clicked = TRUE] \in Requests
           /\ [q EXCEPT !.clicked = TRUE, !.run = w, !.at = at] \in Requests
<1> USE DEF Requests
<1>1. [q EXCEPT !.at = at, !.run = w, !.saw = p] \in Requests
  OBVIOUS
<1>2. [q EXCEPT !.run = w, !.saw = p, !.at = at] \in Requests
  OBVIOUS
<1>3. [q EXCEPT !.saw = p, !.at = at] \in Requests
  OBVIOUS
<1>4. [q EXCEPT !.at = at, !.saw = p] \in Requests
  OBVIOUS
<1>5. [q EXCEPT !.at = at, !.clicked = TRUE] \in Requests
  OBVIOUS
<1>6. [q EXCEPT !.clicked = TRUE, !.run = w, !.at = at] \in Requests
  OBVIOUS
<1> QED BY <1>1, <1>2, <1>3, <1>4, <1>5, <1>6

LEMMA RecordsTyped ==
    ASSUME TypeOK, NEW r \in Request, NEW q \in Requests, req' = [req EXCEPT ![r] = q]
    PROVE  req' \in [Request -> Requests]
BY DEF TypeOK

LEMMA GoesTyped ==
    ASSUME TypeOK, NEW r \in Request, NEW at \in Step, Goes(r, at)
    PROVE  req' \in [Request -> Requests]
BY DEF TypeOK, Goes, Requests

LEMMA EndsTyped ==
    ASSUME TypeOK, NEW r \in Request, Ends(r)
    PROVE  req' \in [Request -> Requests]
BY PagesAre DEF TypeOK, Ends

LEMMA BeginsTyped ==
    ASSUME TypeOK, NEW r \in Request, NEW op \in Operation, NEW at \in Step, NEW snapshot \in Runs,
           Begins(r, op, at, snapshot)
    PROVE  req' \in [Request -> Requests]
BY PagesAre DEF TypeOK, Begins, Requests, Idle

LEMMA FaultTyped ==
    ASSUME TypeOK, Fault \/ NoFault \/ UNCHANGED faults
    PROVE  faults' \in 0..MaxFaults
BY SubmissionAssumption DEF TypeOK, Fault, NoFault

LEMMA ObservedTyped ==
    ASSUME TypeOK, NEW r \in Request, NEW p \in Page, Observed(r, p)
    PROVE  req' \in [Request -> Requests]
<1>1. PICK at \in Step : at = IF p = "foreign" THEN "escaped" ELSE "activate"
  BY DEF Step
<1>2. PICK saw \in Page : saw = IF p = "foreign" THEN Idle.saw ELSE p
  BY DEF Idle, Page
<1>3. req[r] \in Requests
  BY DEF TypeOK
<1>4. req' = [req EXCEPT ![r] = [req[r] EXCEPT !.at = at, !.saw = saw]]
  BY <1>1, <1>2 DEF TypeOK, Observed
<1> QED BY <1>3, <1>4, FieldsTyped, RecordsTyped, PagesAre

LEMMA AnsweredTyped ==
    ASSUME TypeOK, NEW r \in Request, NEW p \in Page, NEW v \in BOOLEAN, Answered(r, p, v)
    PROVE  req' \in [Request -> Requests]
<1>1. PICK w \in Runs : w = Submitted(p, v)
  BY PagesAre
<1>2. PICK at \in Step : at = IF p = "foreign" THEN "strayed" ELSE "log"
  BY DEF Step
<1>3. req[r] \in Requests
  BY DEF TypeOK
<1>4. req' = [req EXCEPT ![r] = [req[r] EXCEPT !.clicked = TRUE, !.run = w, !.at = at]]
  BY <1>1, <1>2 DEF TypeOK, Answered
<1> QED BY <1>3, <1>4, FieldsTyped, RecordsTyped

LEMMA ProceedsTyped ==
    ASSUME TypeOK, NEW r \in Request, Proceeds(r)
    PROVE  req' \in [Request -> Requests]
<1>1. req[r] \in Requests /\ req[r].saw \in Page
  BY DEF TypeOK, Requests
<1>2. PICK w \in Runs : w = Captured(req[r].saw)
  BY <1>1, PagesAre
<1>3. Idle.saw = "form" /\ Idle.saw \in Page
  BY DEF Idle, Page
<1>4. CASE req[r].op = "start"
  <2>1. req' = [req EXCEPT ![r].at = "hand", ![r].run = w, ![r].saw = "form"]
    BY <1>2, <1>3, <1>4 DEF Proceeds
  <2>2. req' = [req EXCEPT ![r] = [req[r] EXCEPT !.at = "hand", !.run = w, !.saw = "form"]]
    BY <2>1 DEF TypeOK
  <2>3. "hand" \in Step /\ "form" \in Page
    BY DEF Step, Page
  <2> QED BY <1>1, <2>2, <2>3, FieldsTyped, RecordsTyped
<1>5. CASE req[r].op = "capture"
  <2>1. PICK at \in Step : at = IF req[r].saw = "confirmation" THEN "close" ELSE "hand"
    BY DEF Step
  <2>2. req' = [req EXCEPT ![r].run = w, ![r].saw = "form", ![r].at = at]
    BY <1>2, <1>3, <1>5, <2>1 DEF Proceeds
  <2>3. req' = [req EXCEPT ![r] = [req[r] EXCEPT !.run = w, !.saw = "form", !.at = at]]
    BY <2>2 DEF TypeOK
  <2> QED BY <1>1, <1>3, <2>3, FieldsTyped, RecordsTyped
<1>6. CASE req[r].op = "submit"
  <2>1. PICK at \in Step : at = IF Fingerprint(req[r].saw) = req[r].run.fingerprint
                                THEN "arm" ELSE "abandon"
    BY DEF Step
  <2>2. req' = [req EXCEPT ![r].saw = "form", ![r].at = at]
    BY <1>3, <1>6, <2>1 DEF Proceeds
  <2>3. req' = [req EXCEPT ![r] = [req[r] EXCEPT !.saw = "form", !.at = at]]
    BY <2>2 DEF TypeOK
  <2> QED BY <1>1, <1>3, <2>3, FieldsTyped, RecordsTyped
<1>7. CASE req[r].op \notin {"start", "capture", "submit"}
  <2>1. Ends(r)
    BY <1>7 DEF Proceeds
  <2> QED BY <2>1, EndsTyped
<1> QED BY <1>4, <1>5, <1>6, <1>7

LEMMA BeginTyped == ASSUME TypeOK, NEW r \in Request, Begin(r) PROVE TypeOK'
<1>1. req' \in [Request -> Requests]
  <2>1. run \in Runs /\ NoRun \in Runs /\ [run EXCEPT !.state = "STOPPED"] \in Runs
    BY PagesAre DEF TypeOK, Runs, RunState
  <2>2. CASE BeginObserve(r)
    BY <2>2, PagesAre DEF TypeOK, BeginObserve, Requests, Idle, Operation, Step
  <2> QED
    BY <2>1, <2>2, BeginsTyped DEF Begin, BeginStart, BeginCapture, BeginSubmit, BeginStop,
       BeginTakeover, BeginResume, BeginRestart, BeginSessionStop, Operation, Step
<1>2. /\ UNCHANGED <<run, evidence, browser, received, ghosts, faults>>
      /\ session' \in {session, "STARTING"}
  BY DEF Begin, BeginStart, BeginCapture, BeginSubmit, BeginStop, BeginTakeover, BeginResume,
     BeginRestart, BeginObserve, BeginSessionStop, rows
<1> QED BY <1>1, <1>2 DEF TypeOK, browser, ghosts, SessionState

LEMMA LookTyped ==
    ASSUME TypeOK, NEW p \in Page, Shows(p)
    PROVE  received' \in BOOLEAN
BY DEF TypeOK, Shows

LEMMA LiveTyped ==
    ASSUME TypeOK, NEW r \in Request,
           Launch(r) \/ OpenSession(r) \/ Observe(r) \/ Relaunch(r) \/ Escape(r)
             \/ Activate(r) \/ CheckpointFails(r)
    PROVE  TypeOK'
<1> USE DEF rows, browser, ghosts
<1>1. CASE Launch(r)
  <2>1. req' \in [Request -> Requests]
    BY <1>1, EndsTyped DEF Launch, TypeOK, Requests, Step
  <2>2. received' \in BOOLEAN /\ session' \in {session, "FAILED"}
    BY <1>1, LookTyped DEF Launch, Shows
  <2> QED BY <1>1, <2>1, <2>2 DEF Launch, TypeOK, SessionState
<1>2. CASE OpenSession(r)
  <2>1. req' \in [Request -> Requests]
    BY <1>2, EndsTyped, GoesTyped DEF OpenSession, Step
  <2> QED BY <1>2, <2>1 DEF OpenSession, TypeOK
<1>3. CASE Observe(r)
  <2>1. req' \in [Request -> Requests] /\ received' \in BOOLEAN
    BY <1>3, EndsTyped, ObservedTyped, LookTyped DEF Observe, Shows, TypeOK
  <2> QED BY <1>3, <2>1 DEF Observe, TypeOK
<1>4. CASE Relaunch(r)
  <2>1. req' \in [Request -> Requests] /\ received' \in BOOLEAN
    BY <1>4, EndsTyped, ObservedTyped, LookTyped DEF Relaunch, Shows, TypeOK
  <2>2. serving' \in BOOLEAN /\ faults' \in 0..MaxFaults
    BY <1>4, FaultTyped DEF Relaunch, TypeOK
  <2> QED BY <1>4, <2>1, <2>2 DEF Relaunch, TypeOK
<1>5. CASE Escape(r)
  <2>1. req' \in [Request -> Requests]
    BY <1>5, EndsTyped, GoesTyped DEF Escape, Step
  <2> QED BY <1>5, <2>1 DEF Escape, TypeOK, SessionState
<1>6. CASE Activate(r)
  <2>1. req' \in [Request -> Requests]
    BY <1>6, ProceedsTyped DEF Activate
  <2>2. session' \in SessionState
    BY <1>6 DEF Activate, TypeOK, Requests, SessionState
  <2> QED BY <1>6, <2>1, <2>2 DEF Activate, TypeOK
<1>7. CASE CheckpointFails(r)
  <2>1. req' \in [Request -> Requests]
    BY <1>7, EndsTyped DEF CheckpointFails
  <2>2. session' \in SessionState /\ faults' \in 0..MaxFaults
    BY <1>7, FaultTyped DEF CheckpointFails, SessionState
  <2> QED BY <1>7, <2>1, <2>2 DEF CheckpointFails, TypeOK
<1> QED BY <1>1, <1>2, <1>3, <1>4, <1>5, <1>6, <1>7

LEMMA ClickTyped ==
    ASSUME TypeOK, NEW r \in Request,
           Arm(r) \/ Click(r) \/ ClickRefused(r) \/ Log(r) \/ Timeout(r)
    PROVE  TypeOK'
<1> USE DEF rows, browser, ghosts
<1>1. CASE Arm(r) \/ ClickRefused(r)
  <2>1. req' \in [Request -> Requests]
    BY <1>1, GoesTyped DEF Arm, ClickRefused, Step
  <2> QED BY <1>1, <2>1 DEF Arm, ClickRefused, TypeOK
<1>2. CASE Click(r)
  <2>1. PICK p \in Page :
          /\ Shows(p)
          /\ clicks' \in {clicks, clicks + 1}
          /\ \E verified \in BOOLEAN : Answered(r, p, verified)
    BY <1>2 DEF Click
  <2>2. req' \in [Request -> Requests] /\ received' \in BOOLEAN /\ clicks' \in Nat
    BY <2>1, AnsweredTyped, LookTyped DEF TypeOK
  <2> QED BY <1>2, <2>2 DEF Click, TypeOK
<1>3. CASE Log(r)
  <2>1. PICK at \in Step : Goes(r, at)
    BY <1>3 DEF Log, Step
  <2>2. req' \in [Request -> Requests]
    BY <2>1, GoesTyped
  <2>3. faults' \in 0..MaxFaults
    BY <1>3, FaultTyped DEF Log
  <2> QED BY <1>3, <2>2, <2>3 DEF Log, TypeOK
<1>4. CASE Timeout(r)
  <2>1. req' \in [Request -> Requests]
    <3>1. CASE Ends(r)
      BY <3>1, EndsTyped
    <3>2. CASE req' = [req EXCEPT ![r].at = "abandon", ![r].clicked = TRUE]
      <4>1. req' = [req EXCEPT ![r] = [req[r] EXCEPT !.at = "abandon", !.clicked = TRUE]]
        BY <3>2 DEF TypeOK
      <4>2. req[r] \in Requests /\ "abandon" \in Step
        BY DEF TypeOK, Step
      <4>3. [req[r] EXCEPT !.at = "abandon", !.clicked = TRUE] \in Requests
        <5> DEFINE at == "abandon"
        <5>1. at \in Step
          BY <4>2
        <5> HIDE DEF at
        <5>2. [req[r] EXCEPT !.at = at, !.clicked = TRUE] \in Requests
          BY <4>2, <5>1, PagesAre DEF Requests
        <5> QED BY <5>2 DEF at
      <4> QED BY <4>1, <4>3, RecordsTyped
    <3> QED BY <1>4, <3>1, <3>2 DEF Timeout
  <2>2. session' \in SessionState /\ faults' \in 0..MaxFaults
    BY <1>4, FaultTyped DEF Timeout, TypeOK, SessionState
  <2>3. pipe' \in Seq({"launch", "relaunch", "click", "closing"})
    BY <1>4 DEF Timeout, TypeOK, At
  <2> QED BY <1>4, <2>1, <2>2, <2>3 DEF Timeout, TypeOK
<1> QED BY <1>1, <1>2, <1>3, <1>4

LEMMA EndTyped ==
    ASSUME TypeOK, NEW r \in Request,
           Hand(r) \/ HandOver(r) \/ Close(r) \/ CloseBrowser(r) \/ Closed(r)
             \/ Save(r) \/ NextSequence(r) \/ AddEvidence(r)
    PROVE  TypeOK'
<1> USE DEF rows, browser, ghosts
<1>1. CASE Hand(r) \/ HandOver(r) \/ Close(r) \/ CloseBrowser(r)
  <2>1. Ends(r) \/ \E at \in Step : Goes(r, at)
    BY <1>1 DEF Hand, HandOver, Close, CloseBrowser, Step
  <2>2. req' \in [Request -> Requests]
    BY <2>1, EndsTyped, GoesTyped
  <2>3. session' \in SessionState /\ serving' \in BOOLEAN
    BY <1>1 DEF Hand, HandOver, Close, CloseBrowser, TypeOK, SessionState
  <2> QED BY <1>1, <2>2, <2>3 DEF Hand, HandOver, Close, CloseBrowser, TypeOK
<1>2. CASE Closed(r)
  <2>1. req' \in [Request -> Requests]
    BY <1>2, EndsTyped, GoesTyped DEF Closed, Step
  <2>2. faults' \in 0..MaxFaults
    BY <1>2, FaultTyped DEF Closed
  <2> QED BY <1>2, <2>1, <2>2 DEF Closed, TypeOK, SessionState
<1>3. CASE Save(r)
  <2>1. req' \in [Request -> Requests] /\ run' \in Runs
    BY <1>3, GoesTyped DEF Save, Step, TypeOK, Requests
  <2> QED BY <1>3, <2>1 DEF Save, TypeOK
<1>4. CASE NextSequence(r)
  <2>1. evidence.latest + 1 \in Nat
    BY DEF TypeOK
  <2>2. req' = [req EXCEPT ![r] = [req[r] EXCEPT !.at = "append", !.seq = evidence.latest + 1]]
    BY <1>4 DEF NextSequence, TypeOK
  <2>3. [req[r] EXCEPT !.at = "append", !.seq = evidence.latest + 1] \in Requests
    <3> DEFINE at == "append"
               n == evidence.latest + 1
    <3>1. req[r] \in Requests /\ at \in Step /\ n \in Nat
      BY <2>1 DEF TypeOK, Step
    <3> HIDE DEF at, n
    <3>2. [req[r] EXCEPT !.at = at, !.seq = n] \in Requests
      BY <3>1 DEF Requests
    <3> QED BY <3>2 DEF at, n
  <2>4. req' \in [Request -> Requests]
    BY <2>2, <2>3, RecordsTyped
  <2> QED BY <1>4, <2>4 DEF NextSequence, TypeOK
<1>5. CASE AddEvidence(r)
  <2>1. req' \in [Request -> Requests]
    BY <1>5, EndsTyped DEF AddEvidence
  <2>2. req[r].seq \in Nat
    BY DEF TypeOK, Requests
  <2>3. PICK c \in BOOLEAN : c = (evidence.confirms \/ req[r].run.state = "SUBMISSION_CONFIRMED")
    OBVIOUS
  <2>4. evidence' \in {evidence, [latest |-> req[r].seq, confirms |-> c]}
    BY <1>5, <2>3, Zenon DEF AddEvidence
  <2>5. evidence' \in [latest : Nat, confirms : BOOLEAN]
    BY <2>2, <2>4 DEF TypeOK
  <2> QED BY <1>5, <2>1, <2>5 DEF AddEvidence, TypeOK
<1> QED BY <1>1, <1>2, <1>3, <1>4, <1>5

LEMMA WorldTyped == ASSUME TypeOK, LateCommand \/ WorkerDies \/ BackendDies PROVE TypeOK'
<1> USE DEF rows, browser, ghosts
<1>1. CASE LateCommand
  <2>1. pipe' \in Seq({"launch", "relaunch", "click", "closing"})
    BY <1>1 DEF LateCommand, TypeOK
  <2>2. serving' \in BOOLEAN /\ clicks' \in Nat
    <3>1. CASE Head(pipe) = "click" /\ serving
      <4>1. clicks' \in {clicks, clicks + 1} /\ serving' = serving
        BY <1>1, <3>1, Zenon DEF LateCommand
      <4> QED BY <4>1 DEF TypeOK
    <3>2. CASE Head(pipe) = "click" /\ ~serving
      BY <1>1, <3>2 DEF LateCommand, TypeOK
    <3>3. CASE Head(pipe) = "launch"
      BY <1>1, <3>3 DEF LateCommand, TypeOK
    <3>4. CASE Head(pipe) = "closing"
      BY <1>1, <3>4 DEF LateCommand, TypeOK
    <3>5. CASE Head(pipe) \notin {"click", "launch", "closing"}
      BY <1>1, <3>5 DEF LateCommand, TypeOK
    <3> QED BY <3>1, <3>2, <3>3, <3>4, <3>5
  <2> QED BY <1>1, <2>1, <2>2 DEF LateCommand, TypeOK
<1>2. CASE WorkerDies \/ BackendDies
  <2>1. pipe' \in Seq({"launch", "relaunch", "click", "closing"})
    <3>1. <<>> \in Seq({"launch", "relaunch", "click", "closing"})
      OBVIOUS
    <3>2. pipe' = <<>>
      BY <1>2 DEF WorkerDies, BackendDies
    <3> QED BY <3>1, <3>2
  <2>2. req' \in [Request -> Requests]
    BY <1>2, PagesAre DEF WorkerDies, BackendDies, TypeOK
  <2>3. faults' \in 0..MaxFaults
    BY <1>2, FaultTyped DEF WorkerDies, BackendDies
  <2> QED BY <1>2, <2>1, <2>2, <2>3 DEF WorkerDies, BackendDies, TypeOK
<1> QED BY <1>1, <1>2

LEMMA TypePreserved == TypeOK /\ [Next]_vars => TypeOK'
<1> SUFFICES ASSUME TypeOK, [Next]_vars PROVE TypeOK'
  OBVIOUS
<1>1. CASE UNCHANGED vars
  BY <1>1 DEF TypeOK, vars, rows, browser, ghosts
<1> QED BY <1>1, BeginTyped, LiveTyped, ClickTyped, EndTyped, WorldTyped DEF Next, RequestStep

(* Types hold throughout: pages, rows, the pipe and the requests' copies. *)
THEOREM SubmissionTypeCorrect == Spec => []TypeOK
BY InitTyped, TypePreserved, PTL DEF Spec

-----------------------------------------------------------------------------
(* What is recorded as confirmed. *)

LEMMA ConfirmedInitially == Init => ConfirmedSound
BY DEF Init, ConfirmedSound, ConfirmedIsTrue, HoldsTrue, NoRun, Idle

(* What every action does to the copies: it leaves them, drops them, or makes
   one of a page that was seen or of the run's row. *)
LEMMA ConfirmedStands ==
    ASSUME ConfirmedSound, received => received',
           run'.state = "SUBMISSION_CONFIRMED" \/ evidence'.confirms => received',
           \A s \in Request : req'[s] = req[s] \/ HoldsTrue(req[s])'
    PROVE  ConfirmedSound'
BY DEF ConfirmedSound, ConfirmedIsTrue, HoldsTrue

(* One request's record changes, and is true to what is received. *)
LEMMA OneRequestMoves ==
    ASSUME TypeOK, ConfirmedSound, NEW r \in Request, NEW q, req' = [req EXCEPT ![r] = q],
           received => received', HoldsTrue(q)', UNCHANGED <<run, evidence>>
    PROVE  ConfirmedSound'
<1>1. \A s \in Request : req'[s] = req[s] \/ HoldsTrue(req[s])'
  BY DEF TypeOK, HoldsTrue
<1> QED BY <1>1, ConfirmedStands DEF ConfirmedSound, ConfirmedIsTrue

LEMMA GoesOn ==
    ASSUME TypeOK, ConfirmedSound, NEW r \in Request, NEW at, Goes(r, at) \/ Ends(r),
           received => received', UNCHANGED <<run, evidence>>
    PROVE  ConfirmedSound'
<1>1. CASE Goes(r, at)
  <2>1. PICK q : q = [req[r] EXCEPT !.at = at]
    OBVIOUS
  <2>2. req' = [req EXCEPT ![r] = q]
    BY <1>1, <2>1 DEF Goes, TypeOK
  <2>3. q.run = req[r].run /\ q.saw = req[r].saw
    BY <2>1 DEF TypeOK, Requests
  <2>4. HoldsTrue(q)'
    BY <2>3 DEF ConfirmedSound, HoldsTrue
  <2> QED BY <2>2, <2>4, OneRequestMoves
<1>2. CASE Ends(r)
  BY <1>2, OneRequestMoves DEF Ends, HoldsTrue, Idle, NoRun
<1> QED BY <1>1, <1>2

LEMMA BeginConfirmed ==
    ASSUME TypeOK, ConfirmedSound, NEW r \in Request, Begin(r)
    PROVE  ConfirmedSound'
<1>1. UNCHANGED <<run, evidence, received>>
  BY DEF Begin, BeginStart, BeginCapture, BeginSubmit, BeginStop, BeginTakeover, BeginResume,
     BeginRestart, BeginObserve, BeginSessionStop, rows
<1>2. PICK q : /\ req' = [req EXCEPT ![r] = q]
               /\ q.saw = "form"
               /\ q.run \in {NoRun, run, [run EXCEPT !.state = "STOPPED"]}
  <2>1. ASSUME NEW op, NEW at, NEW snapshot, Begins(r, op, at, snapshot)
        PROVE  \E q : req' = [req EXCEPT ![r] = q] /\ q.saw = "form" /\ q.run = snapshot
    <3> DEFINE q == [Idle EXCEPT !.op = op, !.at = at, !.run = snapshot]
    <3>1. req' = [req EXCEPT ![r] = q] /\ q.saw = "form" /\ q.run = snapshot
      BY <2>1 DEF Begins, Idle
    <3> QED BY <3>1
  <2>2. ASSUME BeginObserve(r)
        PROVE  \E q : req' = [req EXCEPT ![r] = q] /\ q.saw = "form" /\ q.run = NoRun
    <3> DEFINE q == [Idle EXCEPT !.op = "observe session", !.at = "observe", !.was = session]
    <3>1. req' = [req EXCEPT ![r] = q] /\ q.saw = "form" /\ q.run = NoRun
      BY <2>2 DEF BeginObserve, Idle
    <3> QED BY <3>1
  <2>3. \/ BeginObserve(r)
        \/ \E op, at : \E snapshot \in {NoRun, run, [run EXCEPT !.state = "STOPPED"]} :
              Begins(r, op, at, snapshot)
    BY DEF Begin, BeginStart, BeginCapture, BeginSubmit, BeginStop, BeginTakeover, BeginResume,
       BeginRestart, BeginSessionStop
  <2> QED BY <2>1, <2>2, <2>3
<1>3. q.run.state = "SUBMISSION_CONFIRMED" => received
  BY <1>2 DEF ConfirmedSound, ConfirmedIsTrue, NoRun, TypeOK, Runs
<1>4. HoldsTrue(q)'
  BY <1>1, <1>2, <1>3 DEF HoldsTrue
<1> QED BY <1>1, <1>2, <1>4, OneRequestMoves

LEMMA LookConfirmed ==
    ASSUME TypeOK, ConfirmedSound, NEW r \in Request,
           Launch(r) \/ Observe(r) \/ Relaunch(r)
    PROVE  ConfirmedSound'
<1>1. UNCHANGED <<run, evidence>> /\ (received => received')
  BY DEF Launch, Observe, Relaunch, Shows, rows
<1>2. ASSUME NEW p \in Page, Shows(p), NEW q \in {"activate", "escaped"},
             NEW w \in Page, w \in {p, "form"}, req' = [req EXCEPT ![r].at = q, ![r].saw = w]
      PROVE  ConfirmedSound'
  <2>1. PICK v : v = [req[r] EXCEPT !.at = q, !.saw = w]
    OBVIOUS
  <2>2. req' = [req EXCEPT ![r] = v]
    BY <1>2, <2>1 DEF TypeOK
  <2>3. v.saw = w /\ v.run = req[r].run
    BY <2>1 DEF TypeOK, Requests
  <2>4. HoldsTrue(v)'
    BY <1>1, <1>2, <2>3 DEF HoldsTrue, ConfirmedSound, Shows
  <2> QED BY <1>1, <2>2, <2>4, OneRequestMoves
<1>3. CASE Ends(r)
  BY <1>1, <1>3, GoesOn
<1>4. ASSUME NEW p \in Page, Shows(p), Observed(r, p) PROVE ConfirmedSound'
  <2>1. \E q \in {"activate", "escaped"}, w \in Page :
           w \in {p, "form"} /\ req' = [req EXCEPT ![r].at = q, ![r].saw = w]
    <3>1. CASE p = "foreign"
      BY <1>4, <3>1 DEF Observed, Idle, Page
    <3>2. CASE p # "foreign"
      BY <1>4, <3>2 DEF Observed
    <3> QED BY <3>1, <3>2
  <2> QED BY <1>2, <1>4, <2>1
<1>5. Ends(r) \/ \E p \in Page : Shows(p) /\ (Observed(r, p) \/
           req' = [req EXCEPT ![r].at = "activate", ![r].saw = p])
  BY DEF Launch, Observe, Relaunch
<1> QED BY <1>2, <1>3, <1>4, <1>5

LEMMA ActivateConfirmed ==
    ASSUME TypeOK, ConfirmedSound, NEW r \in Request, Activate(r)
    PROVE  ConfirmedSound'
<1>1. UNCHANGED <<run, evidence, received>> /\ Proceeds(r)
  BY DEF Activate
<1>2. req[r] \in Requests /\ req[r].saw \in Page /\ HoldsTrue(req[r])
  BY DEF ConfirmedSound, TypeOK, Requests
<1>3. Captured(req[r].saw).state = "SUBMISSION_CONFIRMED" => received
  BY <1>2 DEF Captured, Classify, HoldsTrue
<1>4. PICK q : /\ req' = [req EXCEPT ![r] = q]
               /\ q.saw = "form"
               /\ q.run \in {NoRun, req[r].run, Captured(req[r].saw)}
  <2>1. ASSUME Ends(r)
        PROVE  \E q : req' = [req EXCEPT ![r] = q] /\ q.saw = "form" /\ q.run = NoRun
    <3>1. req' = [req EXCEPT ![r] = Idle] /\ Idle.saw = "form" /\ Idle.run = NoRun
      BY <2>1 DEF Ends, Idle
    <3> QED BY <3>1
  <2>2. ASSUME NEW w, w = Captured(req[r].saw), NEW at,
               \/ req' = [req EXCEPT ![r].at = at, ![r].run = w, ![r].saw = "form"]
               \/ req' = [req EXCEPT ![r].run = w, ![r].saw = "form", ![r].at = at]
        PROVE  \E q : req' = [req EXCEPT ![r] = q] /\ q.saw = "form" /\ q.run = w
    <3> DEFINE q == [req[r] EXCEPT !.at = at, !.run = w, !.saw = "form"]
    <3>1. req' = [req EXCEPT ![r] = q]
      BY <1>2, <2>2 DEF TypeOK, Requests
    <3>2. q.saw = "form" /\ q.run = w
      BY <1>2 DEF Requests
    <3> QED BY <3>1, <3>2
  <2>3. ASSUME NEW at, req' = [req EXCEPT ![r].saw = "form", ![r].at = at]
        PROVE  \E q : req' = [req EXCEPT ![r] = q] /\ q.saw = "form" /\ q.run = req[r].run
    <3> DEFINE q == [req[r] EXCEPT !.saw = "form", !.at = at]
    <3>1. req' = [req EXCEPT ![r] = q]
      BY <2>3 DEF TypeOK
    <3>2. q.saw = "form" /\ q.run = req[r].run
      BY <1>2 DEF Requests
    <3> QED BY <3>1, <3>2
  <2>4. Idle.saw = "form"
    BY DEF Idle
  <2>5. CASE req[r].op \in {"start", "capture"}
    <3>1. PICK w : w = Captured(req[r].saw)
      OBVIOUS
    <3>2. \E at : \/ req' = [req EXCEPT ![r].at = at, ![r].run = w, ![r].saw = "form"]
                  \/ req' = [req EXCEPT ![r].run = w, ![r].saw = "form", ![r].at = at]
      BY <1>1, <2>4, <2>5, <3>1 DEF Proceeds
    <3>3. \E q : req' = [req EXCEPT ![r] = q] /\ q.saw = "form" /\ q.run = w
      BY <2>2, <3>1, <3>2
    <3> QED BY <3>1, <3>3
  <2>6. CASE req[r].op = "submit"
    <3>1. \E at : req' = [req EXCEPT ![r].saw = "form", ![r].at = at]
      BY <1>1, <2>4, <2>6 DEF Proceeds
    <3> QED BY <2>3, <3>1
  <2>7. CASE req[r].op \notin {"start", "capture", "submit"}
    BY <1>1, <2>1, <2>7 DEF Proceeds
  <2> QED BY <2>5, <2>6, <2>7
<1>5. HoldsTrue(q)'
  BY <1>1, <1>2, <1>3, <1>4 DEF HoldsTrue, NoRun
<1> QED BY <1>1, <1>4, <1>5, OneRequestMoves

LEMMA OnlyConfirmationCounts ==
    \A p \in Page, v \in BOOLEAN :
        Submitted(p, v).state = "SUBMISSION_CONFIRMED" => p = "confirmation"
<1> SUFFICES ASSUME NEW p \in Page, NEW v \in BOOLEAN, p # "confirmation"
             PROVE  Submitted(p, v).state # "SUBMISSION_CONFIRMED"
  OBVIOUS
<1>1. Classify(p) # "SUBMISSION_CONFIRMED"
  BY DEF Classify, Page
<1>2. Submitted(p, v) = [state |-> "SUBMISSION_UNCERTAIN", fingerprint |-> Fingerprint(p)]
  BY <1>1, Zenon DEF Submitted
<1> QED BY <1>2

LEMMA ClickConfirmed ==
    ASSUME TypeOK, ConfirmedSound, NEW r \in Request, Click(r)
    PROVE  ConfirmedSound'
<1>1. UNCHANGED <<run, evidence>>
  BY DEF Click, rows
<1>2. PICK p \in Page : Shows(p) /\ \E v \in BOOLEAN : Answered(r, p, v)
  BY Zenon DEF Click
<1>3. Shows(p)
  BY <1>2, Zenon
<1>4. (received => received') /\ (p = "confirmation" => received')
  <2>1. received => received'
    BY <1>3, Zenon DEF Shows
  <2>2. p = "confirmation" => received'
    BY <1>3, Zenon DEF Shows
  <2> QED BY <2>1, <2>2
<1>5. PICK v \in BOOLEAN : Answered(r, p, v)
  BY <1>2, Zenon
<1>6. PICK w \in Runs : w = Submitted(p, v)
  BY PagesAre
<1>7. w.state = "SUBMISSION_CONFIRMED" => p = "confirmation"
  BY <1>6, OnlyConfirmationCounts
<1>8. w = Submitted(p, v) /\ (w.state = "SUBMISSION_CONFIRMED" => received')
  BY <1>4, <1>6, <1>7
<1>9. PICK at : req' = [req EXCEPT ![r].clicked = TRUE, ![r].run = w, ![r].at = at]
  BY <1>5, <1>8 DEF Answered
<1>10. PICK q : q = [req[r] EXCEPT !.clicked = TRUE, !.run = w, !.at = at]
  OBVIOUS
<1>11. req' = [req EXCEPT ![r] = q]
  BY <1>9, <1>10 DEF TypeOK
<1>12. q.run = w /\ q.saw = req[r].saw
  BY <1>10 DEF TypeOK, Requests
<1>13. HoldsTrue(q)'
  BY <1>4, <1>8, <1>12 DEF HoldsTrue, ConfirmedSound
<1> QED BY <1>1, <1>4, <1>11, <1>13, OneRequestMoves

LEMMA StepConfirmed ==
    ASSUME TypeOK, ConfirmedSound, NEW r \in Request, RequestStep(r)
    PROVE  ConfirmedSound'
<1> USE DEF rows, browser, ghosts
<1>1. CASE \/ OpenSession(r) \/ Escape(r) \/ CheckpointFails(r) \/ Arm(r) \/ ClickRefused(r)
           \/ Log(r) \/ Hand(r) \/ HandOver(r) \/ Close(r) \/ CloseBrowser(r) \/ Closed(r)
  <2>1. Ends(r) \/ \E at : Goes(r, at)
    BY <1>1 DEF OpenSession, Escape, CheckpointFails, Arm, ClickRefused, Log, Hand, HandOver,
       Close, CloseBrowser, Closed
  <2>2. UNCHANGED <<run, evidence, received>>
    BY <1>1 DEF OpenSession, Escape, CheckpointFails, Arm, ClickRefused, Log, Hand, HandOver,
       Close, CloseBrowser, Closed
  <2> QED BY <2>1, <2>2, GoesOn
<1>2. CASE Timeout(r)
  <2>1. UNCHANGED <<run, evidence, received>>
    BY <1>2 DEF Timeout
  <2>2. CASE Ends(r)
    BY <2>1, <2>2, GoesOn
  <2>3. CASE req' = [req EXCEPT ![r].at = "abandon", ![r].clicked = TRUE]
    <3>1. PICK q : q = [req[r] EXCEPT !.at = "abandon", !.clicked = TRUE]
      OBVIOUS
    <3>2. req' = [req EXCEPT ![r] = q]
      BY <2>3, <3>1 DEF TypeOK
    <3>3. q.run = req[r].run /\ q.saw = req[r].saw
      BY <3>1 DEF TypeOK, Requests
    <3>4. HoldsTrue(q)'
      BY <2>1, <3>3 DEF HoldsTrue, ConfirmedSound
    <3> QED BY <2>1, <3>2, <3>4, OneRequestMoves
  <2> QED BY <1>2, <2>2, <2>3 DEF Timeout
<1>3. CASE Save(r)
  <2>1. run' = req[r].run /\ UNCHANGED <<evidence, received>> /\ Goes(r, "number")
    BY <1>3 DEF Save
  <2>2. \A s \in Request : req'[s].run = req[s].run /\ req'[s].saw = req[s].saw
    BY <2>1 DEF Goes, TypeOK, Requests
  <2> QED BY <2>1, <2>2, ConfirmedStands DEF ConfirmedSound, ConfirmedIsTrue, HoldsTrue
<1>4. CASE NextSequence(r)
  <2>1. UNCHANGED <<run, evidence, received>>
    BY <1>4 DEF NextSequence
  <2>2. \A s \in Request : req'[s].run = req[s].run /\ req'[s].saw = req[s].saw
    BY <1>4 DEF NextSequence, TypeOK, Requests
  <2> QED BY <2>1, <2>2, ConfirmedStands DEF ConfirmedSound, ConfirmedIsTrue, HoldsTrue
<1>5. CASE AddEvidence(r)
  <2>1. UNCHANGED <<run, received>> /\ Ends(r)
    BY <1>5 DEF AddEvidence
  <2>2. evidence'.confirms => evidence.confirms \/ req[r].run.state = "SUBMISSION_CONFIRMED"
    <3>1. CASE evidence' = evidence
      BY <3>1
    <3>2. CASE evidence' # evidence
      <4>1. evidence' = [latest |-> req[r].seq,
                         confirms |-> \/ evidence.confirms
                                      \/ req[r].run.state = "SUBMISSION_CONFIRMED"]
        BY <1>5, <3>2 DEF AddEvidence
      <4> QED BY <4>1
    <3> QED BY <3>1, <3>2
  <2>3. \A s \in Request : req'[s] = req[s] \/ req'[s] = Idle
    BY <2>1 DEF Ends, TypeOK
  <2>4. \A s \in Request : req'[s] = req[s] \/ HoldsTrue(req[s])'
    BY <2>3 DEF HoldsTrue, Idle, NoRun
  <2> QED BY <2>1, <2>2, <2>4, ConfirmedStands DEF ConfirmedSound, ConfirmedIsTrue, HoldsTrue
<1> QED
  BY <1>1, <1>2, <1>3, <1>4, <1>5, LookConfirmed, ActivateConfirmed, ClickConfirmed
  DEF RequestStep

LEMMA ConfirmedPreserved == TypeOK /\ ConfirmedSound /\ [Next]_vars => ConfirmedSound'
<1> SUFFICES ASSUME TypeOK, ConfirmedSound, [Next]_vars PROVE ConfirmedSound'
  OBVIOUS
<1> USE DEF rows, browser, ghosts
<1>1. CASE LateCommand \/ WorkerDies \/ UNCHANGED vars
  <2>1. UNCHANGED <<run, evidence, received, req>>
    BY <1>1 DEF LateCommand, WorkerDies, vars
  <2> QED BY <2>1, ConfirmedStands DEF ConfirmedSound, ConfirmedIsTrue
<1>2. CASE BackendDies
  <2>1. UNCHANGED <<run, evidence, received>> /\ \A s \in Request : req'[s] = Idle
    BY <1>2 DEF BackendDies
  <2>2. \A s \in Request : HoldsTrue(req[s])'
    BY <2>1 DEF HoldsTrue, Idle, NoRun
  <2> QED BY <2>1, <2>2, ConfirmedStands DEF ConfirmedSound, ConfirmedIsTrue
<1> QED BY <1>1, <1>2, BeginConfirmed, StepConfirmed DEF Next

(* Whatever is lost, repeated or interleaved, the run or its evidence says
   SUBMISSION_CONFIRMED only if the employer has received the application: a
   copy a request writes back was made of a page that showed it (_classify,
   verify_confirmation, submit). *)
THEOREM ConfirmedStandsTrue == Spec => []ConfirmedIsTrue
<1>1. ConfirmedSound => ConfirmedIsTrue
  BY DEF ConfirmedSound
<1> QED
  BY <1>1, ConfirmedInitially, ConfirmedPreserved, SubmissionTypeCorrect, PTL DEF Spec

-----------------------------------------------------------------------------
(* What a stopped session's browser may still do. *)

LEMMA SessionInitially == Init => SessionSound
<1> SUFFICES ASSUME Init PROVE SessionSound
  OBVIOUS
<1>1. \A r \in Request : ~At(r, {"launch"}) /\ ~At(r, {"closed"}) /\ req[r].op = "none"
  BY DEF Init, At, Idle
<1>2. 1..Len(pipe) = {} /\ ~serving /\ ~ended
  BY DEF Init
<1>3. ~LaunchAwaited /\ ~Over
  BY <1>1, <1>2 DEF LaunchAwaited, Over
<1>4. LaunchedOnce
  BY <1>1, <1>2 DEF LaunchedOnce
<1>5. OverIsOver /\ Unbegun
  BY <1>2, <1>3 DEF OverIsOver, Unbegun
<1>6. ObserversSound
  BY <1>1 DEF ObserversSound
<1> QED BY <1>4, <1>5, <1>6 DEF SessionSound

(* A step that launches nothing and closes nothing. *)
LEMMA CalmStep ==
    ASSUME SessionSound,
           \A s \in Request : At(s, {"launch"})' => At(s, {"launch"}),
           \A i \in 1..Len(pipe') : pipe'[i] = "launch" => i \in 1..Len(pipe) /\ pipe[i] = "launch",
           session' = "NONE" => session = "NONE",
           serving' => serving,
           Over' => Over,
           ObserversSound'
    PROVE  SessionSound'
<1>1. LaunchAwaited' => LaunchAwaited
  BY DEF LaunchAwaited
<1>2. LaunchedOnce'
  BY <1>1 DEF SessionSound, LaunchedOnce
<1>3. OverIsOver' /\ Unbegun'
  BY <1>1 DEF SessionSound, OverIsOver, Unbegun
<1> QED BY <1>2, <1>3 DEF SessionSound

(* Requests that go on keep what they are and what they read of the session. *)
Keeps(r) == req'[r].op = req[r].op /\ req'[r].was = req[r].was

LEMMA ObserversKept ==
    ASSUME ObserversSound, \A s \in Request : Keeps(s) \/ req'[s] = Idle
    PROVE  ObserversSound'
<1>1. Idle.op # "observe session"
  BY DEF Idle
<1> QED BY <1>1 DEF ObserversSound, Keeps

(* A calm step of one request. *)
LEMMA CalmRequest ==
    ASSUME SessionSound, NEW r \in Request,
           \A s \in Request \ {r} : req'[s] = req[s],
           (Keeps(r) /\ req'[r].at \notin {"launch", "closed"}) \/ req'[r] = Idle,
           pipe' = pipe, ended' = ended, serving' => serving,
           session' = "NONE" => session = "NONE"
    PROVE  SessionSound'
<1>1. \A s \in Request : Keeps(s) \/ req'[s] = Idle
  BY DEF Keeps
<1>2. ObserversSound'
  BY <1>1, ObserversKept DEF SessionSound
<1>3. Idle.at = "idle"
  BY DEF Idle
<1>4. \A s \in Request : At(s, {"launch"})' => At(s, {"launch"})
  BY <1>3 DEF At
<1>5. Over' => Over
  BY <1>3 DEF Over, At
<1> QED BY <1>2, <1>4, <1>5, CalmStep

LEMMA Moves ==
    ASSUME TypeOK, NEW r \in Request, NEW at, Goes(r, at)
    PROVE  /\ \A s \in Request \ {r} : req'[s] = req[s]
           /\ Keeps(r) /\ req'[r].at = at
BY DEF TypeOK, Requests, Goes, Keeps

LEMMA Stops ==
    ASSUME TypeOK, NEW r \in Request, Ends(r)
    PROVE  /\ \A s \in Request \ {r} : req'[s] = req[s]
           /\ req'[r] = Idle
BY DEF TypeOK, Ends

LEMMA BeginsWith ==
    ASSUME TypeOK, NEW r \in Request, NEW op, NEW at, NEW snapshot, Begins(r, op, at, snapshot)
    PROVE  req'[r].op = op /\ req'[r].at = at
<1>1. req' = [req EXCEPT ![r] = [Idle EXCEPT !.op = op, !.at = at, !.run = snapshot]]
  BY DEF Begins
<1>2. [Idle EXCEPT !.op = op, !.at = at, !.run = snapshot].at = at
  BY DEF Idle
<1>3. [Idle EXCEPT !.op = op, !.at = at, !.run = snapshot].op = op
  BY DEF Idle
<1> QED BY <1>1, <1>2, <1>3 DEF TypeOK

LEMMA BeginsSound ==
    ASSUME TypeOK, SessionSound, NEW r \in Request, Begin(r)
    PROVE  SessionSound'
<1>1. \A s \in Request \ {r} : req'[s] = req[s]
  BY DEF Begin, BeginStart, BeginCapture, BeginSubmit, BeginStop, BeginTakeover, BeginResume,
     BeginRestart, BeginObserve, BeginSessionStop, Begins, TypeOK
<1>2. UNCHANGED <<serving, pipe, ended>>
  BY DEF Begin, BeginStart, BeginCapture, BeginSubmit, BeginStop, BeginTakeover, BeginResume,
     BeginRestart, BeginObserve, BeginSessionStop, browser, ghosts
<1>3. CASE BeginStart(r)
  <2>1. session = "NONE" /\ session' = "STARTING" /\ req'[r].at = "launch" /\ req'[r].op = "start"
    BY <1>3 DEF BeginStart, Begins, TypeOK, Idle
  <2>2. ~serving /\ ~LaunchAwaited /\ ~Over
    BY <2>1 DEF SessionSound, Unbegun
  <2>3. \A s \in Request : At(s, {"launch"})' => s = r
    BY <1>1, <2>2 DEF LaunchAwaited, At
  <2>4. LaunchedOnce'
    BY <1>2, <2>2, <2>3 DEF LaunchedOnce, LaunchAwaited
  <2>5. ~Over'
    BY <1>1, <1>2, <2>1, <2>2 DEF Over, At
  <2>6. ObserversSound'
    BY <1>1, <2>1 DEF SessionSound, ObserversSound
  <2> QED BY <2>1, <2>4, <2>5, <2>6 DEF SessionSound, OverIsOver, Unbegun
<1>4. CASE ~BeginStart(r)
  <2>1. session' = session
    BY <1>4 DEF Begin, BeginCapture, BeginSubmit, BeginStop, BeginTakeover, BeginResume,
       BeginRestart, BeginObserve, BeginSessionStop, rows
  <2>2. /\ req'[r].at \notin {"launch", "closed"}
        /\ req'[r].op = "observe session" => req'[r].was \in Live
    <3>1. CASE BeginObserve(r)
      BY <3>1 DEF BeginObserve, TypeOK, Idle
    <3>2. CASE ~BeginObserve(r)
      <4>1. PICK w : \E op \in Operation \ {"observe session"}, at \in Step \ {"launch", "closed"} :
               Begins(r, op, at, w)
        BY <1>4, <3>2 DEF Begin, BeginCapture, BeginSubmit, BeginStop, BeginTakeover,
           BeginResume, BeginRestart, BeginSessionStop, Operation, Step
      <4>2. PICK op \in Operation \ {"observe session"}, at \in Step \ {"launch", "closed"} :
               Begins(r, op, at, w)
        BY <4>1
      <4> QED BY <4>2, BeginsWith
    <3> QED BY <3>1, <3>2
  <2>3. req'[r].op = "observe session" => req'[r].was \in Live
    BY <2>2
  <2>4. ObserversSound'
    BY <1>1, <2>3 DEF SessionSound, ObserversSound
  <2>5. Over' => Over
    BY <1>1, <1>2, <2>2 DEF Over, At
  <2>6. \A s \in Request : At(s, {"launch"})' => At(s, {"launch"})
    BY <1>1, <2>2 DEF At
  <2> QED BY <1>2, <2>1, <2>4, <2>5, <2>6, CalmStep
<1> QED BY <1>3, <1>4

(* The launch is done, or given up by the request that waited for it. *)
LEMMA LaunchSound ==
    ASSUME TypeOK, SessionSound, NEW r \in Request, Launch(r)
    PROVE  SessionSound'
<1>1. pipe = <<>> /\ pipe' = <<>> /\ ended' = ended /\ At(r, {"launch"})
  BY DEF Launch, ghosts
<1>2. 1..Len(pipe') = {} /\ 1..Len(pipe) = {}
  BY <1>1
<1>3. session # "NONE" /\ ~Over
  BY <1>1 DEF SessionSound, Unbegun, OverIsOver, LaunchAwaited
<1>4. PICK p \in Page : IF p = "foreign"
                        THEN session' = "FAILED" /\ Ends(r)
                        ELSE /\ req' = [req EXCEPT ![r].at = "activate", ![r].saw = p]
                             /\ UNCHANGED session
  BY Zenon DEF Launch
<1>5. /\ \A s \in Request \ {r} : req'[s] = req[s]
      /\ req'[r] = Idle \/ (Keeps(r) /\ req'[r].at = "activate")
      /\ session' # "NONE"
  <2>1. CASE p = "foreign"
    BY <1>4, <2>1, Stops
  <2>2. CASE p # "foreign"
    BY <1>3, <1>4, <2>2 DEF Keeps, TypeOK, Requests
  <2> QED BY <2>1, <2>2
<1>6. req'[r].at \notin {"launch", "closed"}
  BY <1>5 DEF Idle
<1>7. \A s \in Request : ~At(s, {"launch"})'
  BY <1>1, <1>5, <1>6 DEF SessionSound, LaunchedOnce, At
<1>8. LaunchedOnce' /\ ~LaunchAwaited'
  BY <1>2, <1>7 DEF LaunchedOnce, LaunchAwaited
<1>9. ~Over'
  BY <1>1, <1>3, <1>5, <1>6 DEF Over, At
<1>10. ObserversSound'
  <2>1. \A s \in Request : Keeps(s) \/ req'[s] = Idle
    BY <1>5 DEF Keeps
  <2> QED BY <2>1, ObserversKept DEF SessionSound
<1> QED BY <1>5, <1>8, <1>9, <1>10 DEF SessionSound, OverIsOver, Unbegun

LEMMA TimeoutSound ==
    ASSUME TypeOK, SessionSound, NEW r \in Request, Timeout(r)
    PROVE  SessionSound'
<1>1. /\ UNCHANGED <<serving, ended>> /\ (session' = "NONE" => session = "NONE")
      /\ req[r].at \in {"launch", "observe", "relaunch", "click", "closing"}
  BY DEF Timeout, ghosts, At
<1>2. /\ \A s \in Request \ {r} : req'[s] = req[s]
      /\ req'[r] = Idle \/ (Keeps(r) /\ req'[r].at = "abandon")
  <2>1. CASE Ends(r)
    BY <2>1, Stops
  <2>2. CASE req' = [req EXCEPT ![r].at = "abandon", ![r].clicked = TRUE]
    BY <2>2 DEF Keeps, TypeOK, Requests
  <2> QED BY <2>1, <2>2 DEF Timeout
<1>3. req'[r].at \notin {"launch", "closed"}
  BY <1>2 DEF Idle
<1>4. ObserversSound'
  <2>1. \A s \in Request : Keeps(s) \/ req'[s] = Idle
    BY <1>2 DEF Keeps
  <2> QED BY <2>1, ObserversKept DEF SessionSound
<1>5. Over' => Over
  BY <1>1, <1>2, <1>3 DEF Over, At
<1>6. \A s \in Request : At(s, {"launch"})' => At(s, {"launch"}) /\ s # r
  BY <1>2, <1>3 DEF At
<1>7. CASE req[r].at = "launch"
  <2>1. pipe' = Append(pipe, "launch") /\ At(r, {"launch"})
    BY <1>7 DEF Timeout, At
  <2>2. \A s \in Request : ~At(s, {"launch"})'
    BY <1>6, <2>1 DEF SessionSound, LaunchedOnce
  <2>3. \A i \in 1..Len(pipe) : pipe[i] # "launch"
    BY <2>1 DEF SessionSound, LaunchedOnce
  <2>4. Len(pipe) \in Nat /\ Len(pipe') = Len(pipe) + 1 /\ \A i \in 1..Len(pipe) : pipe'[i] = pipe[i]
    BY <2>1 DEF TypeOK
  <2>5. \A i \in 1..Len(pipe') : pipe'[i] = "launch" => i = Len(pipe')
    BY <2>3, <2>4
  <2>6. LaunchAwaited
    BY <2>1 DEF LaunchAwaited
  <2>7. LaunchedOnce'
    BY <1>1, <2>2, <2>5, <2>6 DEF SessionSound, LaunchedOnce
  <2>8. OverIsOver' /\ Unbegun'
    BY <1>1, <1>5, <2>6 DEF SessionSound, OverIsOver, Unbegun
  <2> QED BY <1>4, <2>7, <2>8 DEF SessionSound
<1>8. CASE req[r].at # "launch"
  <2>1. pipe' = pipe \/ (pipe' = Append(pipe, req[r].at) /\ req[r].at # "launch")
    BY <1>8 DEF Timeout, At
  <2>2. \A i \in 1..Len(pipe') : pipe'[i] = "launch" => i \in 1..Len(pipe) /\ pipe[i] = "launch"
    <3>1. CASE pipe' = pipe
      BY <3>1
    <3>2. CASE pipe' = Append(pipe, req[r].at)
      <4>1. /\ Len(pipe) \in Nat /\ Len(pipe') = Len(pipe) + 1 /\ pipe'[Len(pipe) + 1] = req[r].at
            /\ \A i \in 1..Len(pipe) : pipe'[i] = pipe[i]
        BY <1>1, <3>2 DEF TypeOK
      <4> QED BY <1>8, <4>1
    <3> QED BY <2>1, <3>1, <3>2
  <2> QED BY <1>1, <1>4, <1>5, <1>6, <2>2, CalmStep
<1> QED BY <1>7, <1>8

LEMMA ClosingSound ==
    ASSUME TypeOK, SessionSound, NEW r \in Request, CloseBrowser(r) \/ Closed(r)
    PROVE  SessionSound'
<1>1. CASE CloseBrowser(r)
  <2>1. /\ UNCHANGED <<session, ended>> /\ ~serving' /\ pipe = <<>> /\ pipe' = <<>>
        /\ At(r, {"closing"})
    BY <1>1 DEF CloseBrowser, rows, ghosts
  <2>2. CASE ~serving
    <3>1. Ends(r)
      BY <1>1, <2>2 DEF CloseBrowser
    <3> QED BY <2>1, <3>1, Stops, CalmRequest
  <2>3. CASE serving
    <3>1. Goes(r, "closed")
      BY <1>1, <2>3 DEF CloseBrowser
    <3>2. /\ \A s \in Request \ {r} : req'[s] = req[s]
          /\ Keeps(r) /\ req'[r].at = "closed"
      BY <3>1, Moves
    <3>3. ~LaunchAwaited /\ session # "NONE"
      BY <2>3 DEF SessionSound, LaunchedOnce, Unbegun
    <3>4. \A s \in Request : ~At(s, {"launch"})'
      BY <3>2, <3>3 DEF LaunchAwaited, At
    <3>5. 1..Len(pipe') = {}
      BY <2>1
    <3>6. ~LaunchAwaited' /\ LaunchedOnce'
      BY <3>4, <3>5 DEF LaunchAwaited, LaunchedOnce
    <3>7. \A s \in Request : Keeps(s) \/ req'[s] = Idle
      BY <3>2 DEF Keeps
    <3>8. ObserversSound'
      BY <3>7, ObserversKept DEF SessionSound
    <3> QED BY <2>1, <3>3, <3>6, <3>8 DEF SessionSound, OverIsOver, Unbegun
  <2> QED BY <2>2, <2>3
<1>2. CASE Closed(r)
  <2>1. UNCHANGED <<serving, pipe>> /\ session' = "STOPPED" /\ Over
    BY <1>2 DEF Closed, browser, Over
  <2>2. Ends(r) \/ Goes(r, "save")
    BY <1>2 DEF Closed
  <2>3. /\ \A s \in Request \ {r} : req'[s] = req[s]
        /\ req'[r] = Idle \/ (Keeps(r) /\ req'[r].at = "save")
    BY <2>2, Stops, Moves
  <2>4. \A s \in Request : Keeps(s) \/ req'[s] = Idle
    BY <2>3 DEF Keeps
  <2>5. ObserversSound'
    BY <2>4, ObserversKept DEF SessionSound
  <2>6. \A s \in Request : At(s, {"launch"})' => At(s, {"launch"})
    BY <2>3 DEF At, Idle
  <2> QED BY <2>1, <2>5, <2>6, CalmStep
<1> QED BY <1>1, <1>2

LEMMA ActivateSound ==
    ASSUME TypeOK, SessionSound, NEW r \in Request, Activate(r)
    PROVE  SessionSound'
<1>1. UNCHANGED <<serving, pipe, ended>> /\ Proceeds(r)
  BY DEF Activate, browser, ghosts
<1>2. session' # "NONE"
  BY DEF Activate, SessionSound, ObserversSound, Live
<1>3. Idle.saw = "form"
  BY DEF Idle
<1>4. PICK w : w = Captured(req[r].saw)
  OBVIOUS
<1>5. \/ Ends(r)
      \/ \E at \in {"hand", "close", "arm", "abandon"} :
           \/ req' = [req EXCEPT ![r].at = at, ![r].run = w, ![r].saw = "form"]
           \/ req' = [req EXCEPT ![r].run = w, ![r].saw = "form", ![r].at = at]
           \/ req' = [req EXCEPT ![r].saw = "form", ![r].at = at]
  BY <1>1, <1>3, <1>4 DEF Proceeds
<1>6. /\ \A s \in Request \ {r} : req'[s] = req[s]
      /\ req'[r] = Idle \/ (Keeps(r) /\ req'[r].at \in {"hand", "close", "arm", "abandon"})
  <2>1. CASE Ends(r)
    BY <2>1, Stops
  <2>2. ASSUME NEW at \in {"hand", "close", "arm", "abandon"},
               \/ req' = [req EXCEPT ![r].at = at, ![r].run = w, ![r].saw = "form"]
               \/ req' = [req EXCEPT ![r].run = w, ![r].saw = "form", ![r].at = at]
               \/ req' = [req EXCEPT ![r].saw = "form", ![r].at = at]
        PROVE  /\ \A s \in Request \ {r} : req'[s] = req[s]
               /\ Keeps(r) /\ req'[r].at = at
    BY <2>2 DEF Keeps, TypeOK, Requests
  <2> QED BY <1>5, <2>1, <2>2
<1> QED BY <1>1, <1>2, <1>6, CalmRequest

LEMMA StepSound ==
    ASSUME TypeOK, SessionSound, NEW r \in Request, RequestStep(r)
    PROVE  SessionSound'
<1> USE DEF rows, browser, ghosts
<1>1. CASE \/ OpenSession(r) \/ Escape(r) \/ CheckpointFails(r) \/ Arm(r) \/ ClickRefused(r)
           \/ Log(r) \/ Hand(r) \/ HandOver(r) \/ Close(r) \/ Save(r) \/ AddEvidence(r)
  <2>1. Ends(r) \/ \E at \in Step \ {"launch", "closed"} : Goes(r, at)
    BY <1>1 DEF OpenSession, Escape, CheckpointFails, Arm, ClickRefused, Log, Hand, HandOver,
       Close, Save, AddEvidence, Step
  <2>2. UNCHANGED <<serving, pipe, ended>>
    BY <1>1 DEF OpenSession, Escape, CheckpointFails, Arm, ClickRefused, Log, Hand, HandOver,
       Close, Save, AddEvidence
  <2>3. session' = "NONE" => session = "NONE"
    BY <1>1 DEF OpenSession, Escape, CheckpointFails, Arm, ClickRefused, Log, Hand, HandOver,
       Close, Save, AddEvidence
  <2> QED BY <2>1, <2>2, <2>3, Stops, Moves, CalmRequest
<1>2. CASE NextSequence(r)
  <2>1. /\ \A s \in Request \ {r} : req'[s] = req[s]
        /\ Keeps(r) /\ req'[r].at = "append"
    BY <1>2 DEF NextSequence, Keeps, TypeOK, Requests
  <2>2. UNCHANGED <<serving, pipe, ended, session>>
    BY <1>2 DEF NextSequence
  <2> QED BY <2>1, <2>2, CalmRequest
<1>3. CASE Observe(r) \/ Relaunch(r)
  <2>1. Ends(r) \/ \E p \in Page : Observed(r, p)
    BY <1>3 DEF Observe, Relaunch
  <2>2. /\ \A s \in Request \ {r} : req'[s] = req[s]
        /\ req'[r] = Idle \/ (Keeps(r) /\ req'[r].at \in {"escaped", "activate"})
    <3>1. CASE Ends(r)
      BY <3>1, Stops
    <3>2. ASSUME NEW p \in Page, Observed(r, p)
          PROVE  /\ \A s \in Request \ {r} : req'[s] = req[s]
                 /\ Keeps(r) /\ req'[r].at \in {"escaped", "activate"}
      <4>1. \E saw : \E at \in {"escaped", "activate"} :
               req' = [req EXCEPT ![r].at = at, ![r].saw = saw]
        <5>1. CASE p = "foreign"
          BY <3>2, <5>1 DEF Observed
        <5>2. CASE p # "foreign"
          BY <3>2, <5>2 DEF Observed
        <5> QED BY <5>1, <5>2
      <4>2. PICK saw : \E at \in {"escaped", "activate"} :
               req' = [req EXCEPT ![r].at = at, ![r].saw = saw]
        BY <4>1
      <4>3. PICK at \in {"escaped", "activate"} :
               req' = [req EXCEPT ![r].at = at, ![r].saw = saw]
        BY <4>2
      <4> QED BY <4>3 DEF Keeps, TypeOK, Requests
    <3> QED BY <2>1, <3>1, <3>2
  <2>3. UNCHANGED <<session, pipe, ended>> /\ (serving' => serving)
    BY <1>3 DEF Observe, Relaunch
  <2> QED BY <2>2, <2>3, CalmRequest
<1>4. CASE Click(r)
  <2>1. PICK p \in Page : \E v \in BOOLEAN : Answered(r, p, v)
    BY <1>4, Zenon DEF Click
  <2>2. PICK v \in BOOLEAN : Answered(r, p, v)
    BY <2>1
  <2>3. PICK w \in Runs : w = Submitted(p, v)
    BY PagesAre
  <2>4. PICK at \in {"strayed", "log"} :
           req' = [req EXCEPT ![r].clicked = TRUE, ![r].run = w, ![r].at = at]
    BY <2>2, <2>3 DEF Answered
  <2>5. /\ \A s \in Request \ {r} : req'[s] = req[s]
        /\ Keeps(r) /\ req'[r].at \in {"strayed", "log"}
    BY <2>4 DEF Keeps, TypeOK, Requests
  <2>6. UNCHANGED <<session, pipe, serving, ended>>
    BY <1>4, Zenon DEF Click
  <2> QED BY <2>5, <2>6, CalmRequest
<1> QED
  BY <1>1, <1>2, <1>3, <1>4, LaunchSound, TimeoutSound, ClosingSound, ActivateSound
  DEF RequestStep

LEMMA LateSound ==
    ASSUME TypeOK, SessionSound, LateCommand
    PROVE  SessionSound'
<1>1. UNCHANGED <<session, ended, req>> /\ pipe # <<>> /\ pipe' = Tail(pipe)
  BY DEF LateCommand, rows
<1>2. /\ Len(pipe) \in Nat /\ Len(pipe) # 0 /\ Len(pipe') = Len(pipe) - 1
      /\ Head(pipe) = pipe[1]
      /\ \A i \in 1..Len(pipe') : pipe'[i] = pipe[i + 1]
  BY <1>1 DEF TypeOK
<1>3. \A i \in 1..Len(pipe') : i + 1 \in 1..Len(pipe)
  BY <1>2
<1>4. LaunchAwaited' => LaunchAwaited
  BY <1>1, <1>2, <1>3 DEF LaunchAwaited, At
<1>5. Over' = Over
  BY <1>1 DEF Over, At
<1>6. ObserversSound'
  BY <1>1 DEF SessionSound, ObserversSound
<1>7. CASE pipe[1] = "launch"
  <2>1. LaunchAwaited
    BY <1>2, <1>7 DEF LaunchAwaited
  <2>2. \A s \in Request : ~At(s, {"launch"})'
    BY <1>1, <1>2, <1>7 DEF SessionSound, LaunchedOnce, At
  <2>3. \A i \in 1..Len(pipe') : pipe'[i] # "launch"
    BY <1>2, <1>3, <1>7 DEF SessionSound, LaunchedOnce
  <2>4. ~LaunchAwaited' /\ LaunchedOnce'
    BY <2>2, <2>3 DEF LaunchAwaited, LaunchedOnce
  <2>5. session # "NONE" /\ ~Over
    BY <2>1 DEF SessionSound, Unbegun, OverIsOver
  <2> QED BY <1>1, <1>5, <1>6, <2>4, <2>5 DEF SessionSound, OverIsOver, Unbegun
<1>8. CASE pipe[1] # "launch"
  <2>1. serving' => serving
    BY <1>2, <1>8 DEF LateCommand
  <2>2. \A i, j \in 1..Len(pipe') : pipe'[i] = "launch" /\ pipe'[j] = "launch" => i = j
    <3>1. SUFFICES ASSUME NEW i \in 1..Len(pipe'), NEW j \in 1..Len(pipe'),
                          pipe'[i] = "launch", pipe'[j] = "launch"
                   PROVE  i = j
      OBVIOUS
    <3>2. pipe[i + 1] = "launch" /\ pipe[j + 1] = "launch"
      BY <1>2, <3>1
    <3>3. i + 1 = j + 1
      BY <1>3, <3>2 DEF SessionSound, LaunchedOnce
    <3> QED BY <1>2, <3>3
  <2>3. LaunchedOnce'
    BY <1>1, <1>2, <1>3, <1>4, <2>1, <2>2 DEF SessionSound, LaunchedOnce, At
  <2> QED BY <1>1, <1>4, <1>5, <1>6, <2>1, <2>3 DEF SessionSound, OverIsOver, Unbegun
<1> QED BY <1>7, <1>8

LEMMA SessionPreserved == TypeOK /\ SessionSound /\ [Next]_vars => SessionSound'
<1> SUFFICES ASSUME TypeOK, SessionSound, [Next]_vars PROVE SessionSound'
  OBVIOUS
<1>1. CASE WorkerDies \/ BackendDies \/ UNCHANGED vars
  <2>1. /\ UNCHANGED <<session, ended>> /\ (serving' => serving)
        /\ pipe' \in {pipe, <<>>}
        /\ req' = req \/ req' = [r \in Request |-> Idle]
    BY <1>1 DEF WorkerDies, BackendDies, vars, rows, browser, ghosts
  <2>2. \A s \in Request : req'[s] = req[s] \/ req'[s] = Idle
    BY <2>1
  <2>3. \A s \in Request : Keeps(s) \/ req'[s] = Idle
    BY <2>2 DEF Keeps
  <2>4. ObserversSound'
    BY <2>3, ObserversKept DEF SessionSound
  <2>5. Over' => Over
    BY <2>1, <2>2 DEF Over, At, Idle
  <2>6. \A s \in Request : At(s, {"launch"})' => At(s, {"launch"})
    BY <2>2 DEF At, Idle
  <2>7. \A i \in 1..Len(pipe') : pipe'[i] = "launch" => i \in 1..Len(pipe) /\ pipe[i] = "launch"
    BY <2>1
  <2> QED BY <2>1, <2>4, <2>5, <2>6, <2>7, CalmStep
<1> QED BY <1>1, BeginsSound, StepSound, LateSound DEF Next

LEMMA StoppedIsQuiet == SessionSound /\ [Next]_vars => (ended => clicks' = clicks)
<1> SUFFICES ASSUME SessionSound, [Next]_vars, ended PROVE clicks' = clicks
  OBVIOUS
<1> USE DEF rows, browser, ghosts
<1>1. ~serving
  BY DEF SessionSound, OverIsOver, Over
<1>2. ASSUME NEW r \in Request, Begin(r) PROVE clicks' = clicks
  BY <1>2 DEF Begin, BeginStart, BeginCapture, BeginSubmit, BeginStop, BeginTakeover,
     BeginResume, BeginRestart, BeginObserve, BeginSessionStop
<1>3. ASSUME NEW r \in Request, RequestStep(r) PROVE clicks' = clicks
  <2>1. ~Click(r)
    BY <1>1 DEF Click
  <2> QED BY <1>3, <2>1 DEF RequestStep, Launch, OpenSession, Observe, Relaunch, Escape, Activate,
     CheckpointFails, Arm, ClickRefused, Log, Timeout, Hand, HandOver, Close, CloseBrowser,
     Closed, Save, NextSequence, AddEvidence
<1>4. CASE LateCommand
  BY <1>1, <1>4 DEF LateCommand
<1>5. CASE WorkerDies \/ BackendDies \/ UNCHANGED vars
  BY <1>5 DEF WorkerDies, BackendDies, vars
<1> QED BY <1>2, <1>3, <1>4, <1>5 DEF Next

(* Once the session was recorded STOPPED no automated click lands, though a
   slower request may write its row back to USER_TAKEOVER or ACTIVE: its
   browser was launched once and closed, and a command that waited for the
   worker, or is still in the pipe, finds no browser (stop, _require). *)
THEOREM ClickEndsWithSession == Spec => StoppedNeverClicks
<1>1. TypeOK /\ SessionSound /\ [Next]_vars => [ended => clicks' = clicks]_vars
  BY StoppedIsQuiet
<1> QED
  BY <1>1, SessionInitially, SessionPreserved, SubmissionTypeCorrect, PTL
  DEF Spec, StoppedNeverClicks

=============================================================================
