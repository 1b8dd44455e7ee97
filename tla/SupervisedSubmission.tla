------------------------ MODULE SupervisedSubmission ------------------------
(***************************************************************************)
(* A supervised application run: the row of the run, the row of its        *)
(* browser session, the browser in its worker process, and the requests    *)
(* that drive them.  Each request runs in a thread of its own; it reads    *)
(* and writes the rows one commit at a time and talks to the worker over a *)
(* pipe that carries one call at a time.  Automation may act only while    *)
(* the session is ACTIVE; between requests the user has the browser.       *)
(***************************************************************************)
EXTENDS Naturals, Sequences

CONSTANTS
    Request,        \* request threads
    MaxEvidence,    \* bound: captures and submissions begun
    MaxClicks,      \* bound: automated clicks on the submit control
    MaxFaults       \* bound: failed writes, lost answers, deaths of a process

ASSUME SubmissionAssumption ==
    MaxEvidence \in Nat /\ MaxClicks \in Nat /\ MaxFaults \in Nat

VARIABLES
    run,        \* supervised_portal_runs: state and page fingerprint
    session,    \* browser_sessions: state
    evidence,   \* its step evidence: the latest number, and if one confirms
    serving,    \* the worker process has the session's browser
    pipe,       \* commands whose caller gave up, still to be executed
    received,   \* the employer has received the application
    clicks,     \* ghost: automated clicks that landed on the submit control
    ended,      \* ghost: the session was once recorded STOPPED
    req,        \* the request threads
    faults

rows == <<run, session, evidence>>
browser == <<serving, pipe>>
ghosts == <<clicks, ended>>
vars == <<rows, browser, received, ghosts, req, faults>>

\* "review" has the submit control; "confirmation" shows an identifier and
\* "unclear" does not; "form" is any page left to the user, a login included;
\* "foreign" is outside the approved origins.
Page == {"form", "review", "confirmation", "unclear", "foreign"}

\* The fingerprint covers the structure of a page, not its text.
Fingerprint(p) == IF p \in {"confirmation", "unclear"} THEN "result" ELSE p
Fingerprints == {Fingerprint(p) : p \in Page}

RunState == {"NONE", "AWAITING_USER", "READY_TO_SUBMIT", "SUBMISSION_CONFIRMED",
             "SUBMISSION_UNCERTAIN", "STOPPED"}
Open == RunState \ {"NONE", "SUBMISSION_CONFIRMED", "STOPPED"}
SessionState == {"NONE", "STARTING", "ACTIVE", "USER_TAKEOVER", "STOPPED", "FAILED"}
Live == {"ACTIVE", "USER_TAKEOVER"}
InUse == Live \cup {"STARTING"}

Runs == [state : RunState, fingerprint : Fingerprints]
NoRun == [state |-> "NONE", fingerprint |-> "form"]

Operation == {"none", "start", "capture", "submit", "stop", "observe session",
              "takeover session", "resume session", "restart session", "stop session"}
Step == {"idle", "launch", "open", "observe", "relaunch", "escaped", "activate",
         "arm", "click", "strayed", "log", "hand", "handed", "abandon", "released",
         "close", "closing", "closed", "save", "number", "append"}
Requests == [op : Operation, at : Step, run : Runs, saw : Page,
             was : SessionState, clicked : BOOLEAN, seq : Nat]
Idle == [op |-> "none", at |-> "idle", run |-> NoRun, saw |-> "form",
         was |-> "NONE", clicked |-> FALSE, seq |-> 0]

Init ==
    /\ run = NoRun /\ session = "NONE" /\ evidence = [latest |-> 0, confirms |-> FALSE]
    /\ serving = FALSE /\ pipe = <<>>
    /\ received = FALSE /\ clicks = 0 /\ ended = FALSE
    /\ req = [r \in Request |-> Idle]
    /\ faults = 0

Fault == faults < MaxFaults /\ faults' = faults + 1
NoFault == faults' = faults

At(r, steps) == req[r].at \in steps
Ends(r) == req' = [req EXCEPT ![r] = Idle]
Goes(r, step) == req' = [req EXCEPT ![r].at = step]
Begins(r, op, step, snapshot) ==
    /\ req[r] = Idle
    /\ req' = [req EXCEPT ![r] = [Idle EXCEPT !.op = op, !.at = step,
                                              !.run = snapshot]]

\* Mutant: a confirmation page counts without an identifier.
ClassifyByPageType(p) ==
    IF p = "unclear" THEN "SUBMISSION_CONFIRMED"
    ELSE IF p = "confirmation" THEN "SUBMISSION_CONFIRMED"
    ELSE IF p = "review" THEN "READY_TO_SUBMIT" ELSE "AWAITING_USER"

\* _classify
Classify(p) ==
    CASE p = "review" -> "READY_TO_SUBMIT"
      [] p = "confirmation" -> "SUBMISSION_CONFIRMED"
      [] p = "unclear" -> "SUBMISSION_UNCERTAIN"
      [] OTHER -> "AWAITING_USER"

Captured(p) == [state |-> Classify(p), fingerprint |-> Fingerprint(p)]
Submitted(p, verified) ==
    [state |-> IF verified /\ Classify(p) = "SUBMISSION_CONFIRMED"
               THEN "SUBMISSION_CONFIRMED" ELSE "SUBMISSION_UNCERTAIN",
     fingerprint |-> Fingerprint(p)]

\* The browser is visible and the user free to move in it and to submit by
\* hand, so a look at it shows any page, but a confirmation only of an
\* application that the employer received.
Shows(p) ==
    /\ p \in Page
    /\ received' \in {received, TRUE}
    /\ p = "confirmation" => received'

-----------------------------------------------------------------------------
(* Requests on the run and on its session *)

BeginStart(r) ==
    /\ session = "NONE" /\ Begins(r, "start", "launch", NoRun)
    /\ session' = "STARTING"
    /\ UNCHANGED <<run, evidence, browser, received, ghosts, faults>>

BeginCapture(r) ==
    /\ run.state \in Open /\ evidence.latest < MaxEvidence
    /\ Begins(r, "capture", "open", run)
    /\ UNCHANGED <<rows, browser, received, ghosts, faults>>

\* The owner's approval carries the fingerprint of the run as reviewed.
BeginSubmit(r) ==
    /\ run.state = "READY_TO_SUBMIT"
    /\ evidence.latest < MaxEvidence /\ clicks < MaxClicks
    /\ Begins(r, "submit", "open", run)
    /\ UNCHANGED <<rows, browser, received, ghosts, faults>>

BeginStop(r) ==
    /\ run.state \in Open
    /\ Begins(r, "stop", "close", [run EXCEPT !.state = "STOPPED"])
    /\ UNCHANGED <<rows, browser, received, ghosts, faults>>

BeginTakeover(r) ==
    /\ session = "ACTIVE" /\ Begins(r, "takeover session", "released", NoRun)
    /\ UNCHANGED <<rows, browser, received, ghosts, faults>>

BeginResume(r) ==
    /\ session = "USER_TAKEOVER" /\ Begins(r, "resume session", "observe", NoRun)
    /\ UNCHANGED <<rows, browser, received, ghosts, faults>>

BeginRestart(r) ==
    /\ session \in Live /\ Begins(r, "restart session", "relaunch", NoRun)
    /\ UNCHANGED <<rows, browser, received, ghosts, faults>>

\* observe keeps the state it read and writes it back.
BeginObserve(r) ==
    /\ session \in Live /\ req[r] = Idle
    /\ req' = [req EXCEPT ![r] = [Idle EXCEPT !.op = "observe session",
                                              !.at = "observe", !.was = session]]
    /\ UNCHANGED <<rows, browser, received, ghosts, faults>>

BeginSessionStop(r) ==
    /\ session \in Live /\ Begins(r, "stop session", "closing", NoRun)
    /\ UNCHANGED <<rows, browser, received, ghosts, faults>>

Begin(r) ==
    \/ BeginStart(r) \/ BeginCapture(r) \/ BeginSubmit(r) \/ BeginStop(r)
    \/ BeginTakeover(r) \/ BeginResume(r) \/ BeginRestart(r) \/ BeginObserve(r)
    \/ BeginSessionStop(r)

-----------------------------------------------------------------------------
(* create_session, resume, observe, restart *)

Launch(r) ==
    /\ At(r, {"launch"}) /\ pipe = <<>>
    /\ serving' = TRUE
    /\ \E p \in Page :
         /\ Shows(p)
         /\ IF p = "foreign"
            THEN session' = "FAILED" /\ Ends(r)
            ELSE /\ req' = [req EXCEPT ![r].at = "activate", ![r].saw = p]
                 /\ UNCHANGED session
    /\ UNCHANGED <<run, evidence, pipe, ghosts, faults>>

\* resume reads the session: only the user's turn can be ended.
OpenSession(r) ==
    /\ At(r, {"open"})
    /\ IF session = "USER_TAKEOVER" THEN Goes(r, "observe") ELSE Ends(r)
    /\ UNCHANGED <<rows, browser, received, ghosts, faults>>

Observed(r, p) ==
    req' = [req EXCEPT ![r].at = IF p = "foreign" THEN "escaped" ELSE "activate",
                       ![r].saw = IF p = "foreign" THEN Idle.saw ELSE p]

Observe(r) ==
    /\ At(r, {"observe"}) /\ pipe = <<>>
    /\ IF serving THEN \E p \in Page : Shows(p) /\ Observed(r, p)
       ELSE Ends(r) /\ UNCHANGED received
    /\ UNCHANGED <<rows, browser, ghosts, faults>>

\* Mutant: a session the worker does not have is launched again.
RelaunchMissing(r) ==
    /\ At(r, {"relaunch"}) /\ pipe = <<>>
    /\ serving' = TRUE
    /\ \E p \in Page : Shows(p) /\ Observed(r, p)
    /\ UNCHANGED <<rows, pipe, ghosts, faults>>

\* The worker closes the browser and opens it again at the same address.
Relaunch(r) ==
    /\ At(r, {"relaunch"}) /\ pipe = <<>>
    /\ IF serving
       THEN \/ /\ \E p \in Page : Shows(p) /\ Observed(r, p)
               /\ UNCHANGED <<serving, faults>>
            \/ Fault /\ serving' = FALSE /\ Ends(r) /\ UNCHANGED received
       ELSE Ends(r) /\ UNCHANGED <<serving, received, faults>>
    /\ UNCHANGED <<rows, pipe, ghosts>>

\* _validate_live_observation gives the browser back whatever the row says.
Escape(r) ==
    /\ At(r, {"escaped", "strayed"})
    /\ session' = "USER_TAKEOVER"
    /\ IF At(r, {"strayed"}) THEN Goes(r, "abandon") ELSE Ends(r)
    /\ UNCHANGED <<run, evidence, browser, received, ghosts, faults>>

\* save_observation, and what the request does with the page it saw.
Proceeds(r) ==
    LET q == req[r] IN
    CASE q.op = "start" ->
           req' = [req EXCEPT ![r].at = "hand", ![r].run = Captured(q.saw),
                              ![r].saw = Idle.saw]
      [] q.op = "capture" ->
           req' = [req EXCEPT ![r].run = Captured(q.saw), ![r].saw = Idle.saw,
                     ![r].at = IF q.saw = "confirmation" THEN "close" ELSE "hand"]
      [] q.op = "submit" ->
           req' = [req EXCEPT ![r].saw = Idle.saw,
                     ![r].at = IF Fingerprint(q.saw) = q.run.fingerprint
                               THEN "arm" ELSE "abandon"]
      [] OTHER -> Ends(r)

Activate(r) ==
    /\ At(r, {"activate"})
    /\ session' = IF req[r].op = "observe session" THEN req[r].was ELSE "ACTIVE"
    /\ Proceeds(r)
    /\ UNCHANGED <<run, evidence, browser, received, ghosts, faults>>

\* The checkpoint that follows cannot be written: create_session records a
\* failure, resume and restart raise with the session already ACTIVE.
CheckpointFails(r) ==
    /\ At(r, {"activate"}) /\ req[r].op # "observe session" /\ Fault
    /\ session' = IF req[r].op = "start" THEN "FAILED" ELSE "ACTIVE"
    /\ Ends(r)
    /\ UNCHANGED <<run, evidence, browser, received, ghosts>>

-----------------------------------------------------------------------------
(* The click *)

\* Exactly one submit control, and execute_action finds the session ACTIVE.
Arm(r) ==
    /\ At(r, {"arm"})
    /\ \/ session = "ACTIVE" /\ Goes(r, "click")
       \/ Goes(r, "abandon")
    /\ UNCHANGED <<rows, browser, received, ghosts, faults>>

Answered(r, p, verified) ==
    req' = [req EXCEPT ![r].clicked = TRUE, ![r].run = Submitted(p, verified),
                       ![r].at = IF p = "foreign" THEN "strayed" ELSE "log"]

\* The click lands on the submit control, and the portal shows its answer p,
\* or the control is gone from the page p that is open.  A click that landed
\* may still be answered as unverified when a later part of the command fails.
Click(r) ==
    /\ At(r, {"click"}) /\ pipe = <<>> /\ serving
    /\ \E p \in Page :
         /\ Shows(p)
         /\ \/ /\ clicks' = clicks + 1
               /\ \E verified \in BOOLEAN : Answered(r, p, verified)
            \/ Answered(r, p, FALSE) /\ UNCHANGED clicks
    /\ UNCHANGED <<rows, serving, pipe, ended, faults>>

ClickRefused(r) ==
    /\ At(r, {"click"}) /\ pipe = <<>> /\ ~serving
    /\ Goes(r, "abandon")
    /\ UNCHANGED <<rows, browser, received, ghosts, faults>>

\* add_action and the checkpoint; then the outcome decides who gets the browser.
Log(r) ==
    /\ At(r, {"log"})
    /\ \/ /\ Goes(r, IF req[r].run.state = "SUBMISSION_CONFIRMED" THEN "close" ELSE "hand")
          /\ NoFault
       \/ Fault /\ Goes(r, "abandon")
    /\ UNCHANGED <<rows, browser, received, ghosts>>

\* Mutant: the command of an abandoned observation stays in the pipe as well.
TimeoutKeepsAll(r) ==
    /\ Fault /\ At(r, {"launch", "observe", "relaunch", "click", "closing"})
    /\ pipe' = Append(pipe, req[r].at)
    /\ session' = IF At(r, {"launch"}) THEN "FAILED" ELSE session
    /\ Ends(r)
    /\ UNCHANGED <<run, evidence, serving, received, ghosts>>

\* The caller gives up waiting; the worker has the command all the same.
Timeout(r) ==
    /\ Fault /\ At(r, {"launch", "observe", "relaunch", "click", "closing"})
    /\ pipe' = IF At(r, {"observe"}) THEN pipe ELSE Append(pipe, req[r].at)
    /\ session' = IF At(r, {"launch"}) THEN "FAILED" ELSE session
    /\ IF At(r, {"click"})
       THEN req' = [req EXCEPT ![r].at = "abandon", ![r].clicked = TRUE]
       ELSE Ends(r)
    /\ UNCHANGED <<run, evidence, serving, received, ghosts>>

-----------------------------------------------------------------------------
(* takeover, stop, and the record of the run *)

\* takeover reads the session, then writes it; after a failure the request ends.
Hand(r) ==
    /\ At(r, {"hand", "abandon"})
    /\ IF session # "ACTIVE" THEN Ends(r)
       ELSE Goes(r, IF At(r, {"hand"}) THEN "handed" ELSE "released")
    /\ UNCHANGED <<rows, browser, received, ghosts, faults>>

HandOver(r) ==
    /\ At(r, {"handed", "released"})
    /\ session' = "USER_TAKEOVER"
    /\ IF At(r, {"handed"}) THEN Goes(r, "save") ELSE Ends(r)
    /\ UNCHANGED <<run, evidence, browser, received, ghosts, faults>>

Close(r) ==
    /\ At(r, {"close"})
    /\ IF session \in Live THEN Goes(r, "closing") ELSE Ends(r)
    /\ UNCHANGED <<rows, browser, received, ghosts, faults>>

CloseBrowser(r) ==
    /\ At(r, {"closing"}) /\ pipe = <<>>
    /\ serving' = FALSE
    /\ IF serving THEN Goes(r, "closed") ELSE Ends(r)
    /\ UNCHANGED <<rows, pipe, received, ghosts, faults>>

Closed(r) ==
    /\ At(r, {"closed"})
    /\ session' = "STOPPED" /\ ended' = TRUE
    /\ \/ /\ NoFault
          /\ IF req[r].op = "stop session" THEN Ends(r) ELSE Goes(r, "save")
       \/ Fault /\ Ends(r)
    /\ UNCHANGED <<run, evidence, browser, received, clicks>>

\* save writes every column of the copy this request made.
Save(r) ==
    /\ At(r, {"save"})
    /\ run' = req[r].run
    /\ Goes(r, "number")
    /\ UNCHANGED <<session, evidence, browser, received, ghosts, faults>>

NextSequence(r) ==
    /\ At(r, {"number"})
    /\ req' = [req EXCEPT ![r].at = "append", ![r].seq = evidence.latest + 1]
    /\ UNCHANGED <<rows, browser, received, ghosts, faults>>

\* The sequence number of a run is unique: the second of two equal ones fails.
AddEvidence(r) ==
    /\ At(r, {"append"})
    /\ evidence' = IF req[r].seq = evidence.latest + 1
                   THEN [latest |-> req[r].seq,
                         confirms |-> \/ evidence.confirms
                                      \/ req[r].run.state = "SUBMISSION_CONFIRMED"]
                   ELSE evidence
    /\ Ends(r)
    /\ UNCHANGED <<run, session, browser, received, ghosts, faults>>

-----------------------------------------------------------------------------
(* The worker process and the backend *)

LateCommand ==
    /\ pipe # <<>> /\ pipe' = Tail(pipe)
    /\ CASE Head(pipe) = "click" /\ serving ->
              clicks' \in {clicks, clicks + 1} /\ UNCHANGED serving
         [] Head(pipe) = "launch" -> serving' = TRUE /\ UNCHANGED clicks
         [] Head(pipe) = "closing" -> serving' = FALSE /\ UNCHANGED clicks
         [] OTHER -> UNCHANGED <<serving, clicks>>
    /\ UNCHANGED <<rows, received, ended, req, faults>>

WorkerDies ==
    /\ Fault /\ serving
    /\ serving' = FALSE /\ pipe' = <<>>
    /\ UNCHANGED <<rows, received, ghosts, req>>

\* The worker ends with the backend; the rows stay.
BackendDies ==
    /\ Fault
    /\ serving' = FALSE /\ pipe' = <<>>
    /\ req' = [r \in Request |-> Idle]
    /\ UNCHANGED <<rows, received, ghosts>>

RequestStep(r) ==
    \/ Launch(r) \/ OpenSession(r) \/ Observe(r) \/ Relaunch(r) \/ Escape(r)
    \/ Activate(r) \/ CheckpointFails(r)
    \/ Arm(r) \/ Click(r) \/ ClickRefused(r) \/ Log(r) \/ Timeout(r)
    \/ Hand(r) \/ HandOver(r) \/ Close(r) \/ CloseBrowser(r) \/ Closed(r)
    \/ Save(r) \/ NextSequence(r) \/ AddEvidence(r)

Next ==
    \/ \E r \in Request : Begin(r) \/ RequestStep(r)
    \/ LateCommand \/ WorkerDies \/ BackendDies

Spec == Init /\ [][Next]_vars

\* Requests run to their end, the worker executes what it was sent, and the
\* owner who finds a session in the way asks to restart it and to stop it.
PersistentOwner ==
    /\ Spec
    /\ WF_vars(LateCommand)
    /\ \A r \in Request :
         /\ WF_vars(RequestStep(r))
         /\ SF_vars(BeginRestart(r)) /\ SF_vars(BeginStop(r))
         /\ SF_vars(BeginSessionStop(r))
-----------------------------------------------------------------------------
\* Every variable has its type: the run, the rows, the pipe and each request.
TypeOK ==
    /\ run \in Runs /\ session \in SessionState
    /\ evidence \in [latest : Nat, confirms : BOOLEAN]
    /\ serving \in BOOLEAN
    /\ pipe \in Seq({"launch", "relaunch", "click", "closing"})
    /\ received \in BOOLEAN /\ clicks \in Nat /\ ended \in BOOLEAN
    /\ req \in [Request -> Requests]
    /\ faults \in 0..MaxFaults

(* Whatever was lost, repeated or interleaved, the application is recorded  *)
(* as submitted, in the run or in its evidence, only if the employer        *)
(* received it (_classify, verify_confirmation, submit).                    *)
ConfirmedIsTrue ==
    run.state = "SUBMISSION_CONFIRMED" \/ evidence.confirms => received

(* Once the browser session was recorded as stopped, no automated click     *)
(* lands any more, although a slower request may write the row back to      *)
(* USER_TAKEOVER or ACTIVE and a run may be left READY_TO_SUBMIT: the       *)
(* worker refuses a session it closed (stop, _require).                     *)
StoppedNeverClicks == [][ended => clicks' = clicks]_vars

(* The policy of supervised execution: when the submit control was clicked  *)
(* and no verified confirmation came of it, the run is recorded             *)
(* SUBMISSION_UNCERTAIN.                                                    *)
AmbiguityIsRecorded ==
    [][\A r \in Request :
         req[r].clicked /\ req'[r] = Idle
           => run'.state \in {"SUBMISSION_CONFIRMED", "SUBMISSION_UNCERTAIN"}]_vars

(* The recovery promise: a session whose worker is gone is restored with    *)
(* its profile, or at least ended, so that the profile can be used again.   *)
LostSessionIsRecovered ==
    (session \in Live /\ ~serving) ~> (session \notin InUse \/ serving)
=============================================================================
