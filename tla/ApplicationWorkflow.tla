------------------------ MODULE ApplicationWorkflow ------------------------
(***************************************************************************)
(* The state of one application and the log of its events.  A transition   *)
(* is three steps: the row is read and the move validated against it, the  *)
(* event is given the next number, and event and state are committed       *)
(* together.  The number is unique, so a request that finds it taken fails *)
(* and the last two are one step here; the state read before them is not   *)
(* read again.  What a request has still to do is the queue "todo" of its  *)
(* record in work; any step of it may fail instead.                        *)
(***************************************************************************)
EXTENDS ApiRequests, Sequences

CONSTANTS
    PublicTargets,   \* states callers of the public endpoint ask for
    NoEvent

VARIABLES
    source,          \* source of the application's job, "none" before it exists
    state,           \* the application's state
    last             \* the latest event of its log

workflowVars == <<source, state, last>>

Simulated == "workbench-mock"

Interruptions == {
    "LOGIN_REQUIRED", "MFA_REQUIRED", "CAPTCHA_REQUIRED", "UNKNOWN_QUESTION",
    "SENSITIVE_FIELD", "ASSESSMENT_REQUIRED", "SITE_CHANGED", "SESSION_EXPIRED",
    "POLICY_REVIEW", "USER_TAKEOVER", "SUBMISSION_UNCERTAIN", "FAILED_RETRYABLE",
    "FAILED_TERMINAL"}

PrimaryFlow == <<
    "DISCOVERED", "DEDUPLICATED", "SCORED", "ELIGIBILITY_CHECKED", "DOCUMENTS_SELECTED",
    "APPLICATION_OPENED", "FORM_MAPPED", "ANSWERS_VALIDATED", "READY_TO_SUBMIT",
    "SUBMISSION_ATTEMPTED", "SUBMISSION_CONFIRMED", "TRACKING_ACTIVE", "CLOSED">>

AssessmentFlow == <<
    "ANSWERS_VALIDATED", "ASSESSMENT_PENDING", "ASSESSMENT_IN_PROGRESS",
    "ASSESSMENT_COMPLETED", "READY_TO_SUBMIT">>

Members(flow) == {flow[i] : i \in 1..Len(flow)}
Edges(flow) == {<<flow[i], flow[i + 1]>> : i \in 1..(Len(flow) - 1)}

WorkflowStates == Interruptions \cup Members(PrimaryFlow) \cup Members(AssessmentFlow)

\* Every state may be interrupted; an interrupted application may go on
\* anywhere in the primary flow, but not in the assessment's.
AllowedTransitions == [s \in WorkflowStates |->
    CASE s = "CLOSED" -> {}
      [] s = "FAILED_TERMINAL" -> {"CLOSED"}
      [] OTHER ->
           Interruptions
           \cup {t \in WorkflowStates : <<s, t>> \in Edges(PrimaryFlow) \cup Edges(AssessmentFlow)}
           \cup (IF s \in Interruptions THEN Members(PrimaryFlow) ELSE {})]

Validated(from, to, passed) ==
    /\ to \in AllowedTransitions[from]
    /\ to = "SUBMISSION_CONFIRMED" => passed

WorkflowInit(job, first) == source = job /\ state = first /\ last = NoEvent

-----------------------------------------------------------------------------
\* Requests and what they have still to do.

Todo(r, do) == work[r] # Idle /\ Head(work[r].todo).do = do
Task(r) == Head(work[r].todo)
Continue(r, record, rest) ==
    IF rest = <<>> THEN Finish(r) ELSE Goes(r, [record EXCEPT !.todo = rest])
Done(r) == Continue(r, work[r], Tail(work[r].todo))

\* "from" is the state the caller's snapshot showed, "any" when the caller
\* reads it just before.
Move(to, passed) == [do |-> "move", from |-> "any", to |-> to, passed |-> passed]

CreateApplication(r) ==
    /\ Todo(r, "create") /\ source = "none"
    /\ source' = Task(r).source /\ state' = "DISCOVERED"
    /\ UNCHANGED last
    /\ Done(r)

AdmitTransition(r) ==
    /\ Todo(r, "move")
    /\ Task(r).from \in {"any", state}
    /\ Validated(state, Task(r).to, Task(r).passed)
    /\ Goes(r, [work[r] EXCEPT !.todo =
                   <<[Task(r) EXCEPT !.do = "commit", !.from = state]>> \o Tail(@)])
    /\ UNCHANGED workflowVars

CommitTransition(r) ==
    /\ Todo(r, "commit")
    /\ state' = Task(r).to
    /\ last' = [from |-> Task(r).from, to |-> Task(r).to]
    /\ UNCHANGED source
    /\ Done(r)

-----------------------------------------------------------------------------
\* The workbench drives simulated applications.

StartSimulation(r) ==
    /\ source = "none"
    /\ Begin(r, [op |-> "start", todo |-> <<
           [do |-> "create", source |-> Simulated],
           [Move("DEDUPLICATED", FALSE) EXCEPT !.from = "DISCOVERED"]>>])
    /\ UNCHANGED workflowVars

Advances == {e \in Edges(PrimaryFlow) : e[1] \in
    {"DISCOVERED", "DEDUPLICATED", "SCORED", "ELIGIBILITY_CHECKED", "DOCUMENTS_SELECTED",
     "APPLICATION_OPENED", "FORM_MAPPED", "ANSWERS_VALIDATED"}}

\* Where the controls of the workbench lead; a resumed application goes back
\* to where its latest event came from.
ControlTargets ==
    IF source # Simulated \/ state = "CLOSED" THEN {}
    ELSE IF state = "FAILED_TERMINAL" THEN {"CLOSED"}
    ELSE {"FAILED_TERMINAL"}
         \cup {e[2] : e \in {a \in Advances : a[1] = state}}
         \cup (IF state = "FAILED_RETRYABLE" THEN {"DEDUPLICATED"} ELSE {"FAILED_RETRYABLE"})
         \cup (IF state # "USER_TAKEOVER" THEN {"USER_TAKEOVER"}
               ELSE IF last = NoEvent THEN {"DISCOVERED"} ELSE {last.from})

Control(r) ==
    /\ \E to \in ControlTargets :
          Begin(r, [op |-> "control",
                    todo |-> <<[Move(to, FALSE) EXCEPT !.from = state]>>])
    /\ UNCHANGED workflowVars

\* Mutant: the source of the job is not looked at.
PermitsPublicForAny(from) == source # "none" /\ state = from

PermitsPublicTransition(from) == source = Simulated /\ state = from

\* The public endpoint appends an event; the application keeps its state.
PublicTransition(r) ==
    /\ PermitsPublicTransition(state)
    /\ \E to \in PublicTargets, passed \in BOOLEAN :
          /\ Validated(state, to, passed)
          /\ Begin(r, [op |-> "public", todo |-> <<
                 [do |-> "append", from |-> state, to |-> to]>>])
    /\ UNCHANGED workflowVars

AppendEvent(r) ==
    /\ Todo(r, "append")
    /\ last' = [from |-> Task(r).from, to |-> Task(r).to]
    /\ UNCHANGED <<source, state>>
    /\ Done(r)

Transit(r) == AdmitTransition(r) \/ CommitTransition(r)
Simulate(r) == StartSimulation(r) \/ Control(r) \/ PublicTransition(r) \/ AppendEvent(r)

\* The log of a real application ends in the state the application is in,
\* whatever requests race for it: nobody appends to it beside the row, and
\* two requests never commit under one number.
RealHistoryIsTrue ==
    source # Simulated /\ last # NoEvent => last.to = state
=============================================================================
