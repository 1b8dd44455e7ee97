-------------------------- MODULE FieldAutomation --------------------------
(***************************************************************************)
(* ApplicationFieldBindingService and ApplicationFieldExecutionService: a  *)
(* reviewed answer is bound to a control of the captured page, and later   *)
(* entered into it by the browser.  The user works in the same browser:    *)
(* the page and its controls change at any time, answers are revised, and  *)
(* two requests may drive one session.                                     *)
(***************************************************************************)
EXTENDS CandidateKnowledge

CONSTANTS
    Pages,         \* page fingerprints
    Foreign,       \* those of pages outside the approved origins
    Controls,      \* control keys
    Shapes,        \* what a control may look like
    FirstPage, FirstShape,   \* the page of the first capture, and its controls
    NoControl

ASSUME FieldsAssumption ==
    Foreign \subseteq Pages /\ FirstPage \in Pages \ Foreign /\ FirstShape \in Shapes

VARIABLES
    live,        \* the page in the browser: its fingerprint, and its controls
    run,         \* the supervised run: its state, and the page it captured
    session,     \* browser_sessions: state
    bindings,    \* application_field_bindings
    executions,  \* application_field_executions
    filled       \* ghost: what automation entered last, if anything, and by which binding

fieldVars == <<live, run, session, bindings, executions, filled>>

\* ObservedPortalField: what a review of the binding covers of a control.
Field(shape) == [kind |-> shape.kind, legal |-> shape.legal, options |-> shape.options,
                 limit |-> shape.limit, range |-> shape.range]

\* The answer as preview reads it.
AnswerOf(d) == [status |-> drafts[d].status, kind |-> KindOf[d], rules |-> RulesOf[d],
                value |-> drafts[d].value, revision |-> drafts[d].revision]

\* review_fingerprint: the answer's identity, revision, status and source,
\* the observed field, and what preview concludes - but not the value.
ReviewPrint(d, page, field) ==
    [draft |-> d, revision |-> drafts[d].revision, status |-> drafts[d].status,
     source |-> drafts[d].source, page |-> page, field |-> field,
     compatible |-> Compatible(AnswerOf(d), field)]

FieldsInit ==
    /\ live = [page |-> FirstPage, shape |-> [c \in Controls |-> FirstShape]]
    /\ run = [state |-> "AWAITING_USER", page |-> live.page, observed |-> live.shape]
    /\ session = "USER_TAKEOVER"
    /\ bindings = {} /\ executions = {}
    /\ filled = [c \in Controls |-> {}]

----------------------------------------------------------------------------
(* The user and the page.                                                  *)

PageMoves ==
    /\ \/ \E p \in Pages \ Foreign, s \in [Controls -> Shapes \cup {NoControl}] :
             live' = [page |-> p, shape |-> s]
       \/ \E p \in Foreign : live' = [page |-> p, shape |-> [c \in Controls |-> NoControl]]
    /\ UNCHANGED <<knowledgeVars, run, session, bindings, executions, filled>>

\* A capture, as SupervisedSubmission models it: the page becomes the run's,
\* and the run awaits the user or goes on to its submission.
CapturePage ==
    /\ session = "USER_TAKEOVER" /\ live.page \notin Foreign
    /\ \E s \in {"AWAITING_USER", "READY_TO_SUBMIT"} :
          run' = [state |-> s, page |-> live.page, observed |-> live.shape]
    /\ UNCHANGED <<knowledgeVars, live, session, bindings, executions, filled>>

\* The user's own takeover request.
TakeOver ==
    /\ session = "ACTIVE" /\ session' = "USER_TAKEOVER"
    /\ UNCHANGED <<knowledgeVars, live, run, bindings, executions, filled>>

----------------------------------------------------------------------------
(* Binding: the preview the user approved, made again and found the same,  *)
(* then the row.                                                           *)

BeginBinding(r, d, c, permission) ==
    /\ drafts[d] # NoAnswer /\ run.observed[c] # NoControl
    /\ LET field == Field(run.observed[c]) IN
       /\ Compatible(AnswerOf(d), field) /\ Approvable(field, permission)
       /\ Begin(r, [op |-> "bind",
                    binding |-> [draft |-> d, revision |-> drafts[d].revision,
                                 page |-> run.page, control |-> c, kind |-> field.kind,
                                 permission |-> permission,
                                 print |-> ReviewPrint(d, run.page, field)]])
    /\ UNCHANGED <<claimVars, answerVars, fieldVars>>

\* The unique (application, page, control) admits one binding.
AddBinding(r) ==
    /\ Doing(r, "bind")
    /\ ~\E b \in bindings : b.page = work[r].binding.page /\ b.control = work[r].binding.control
    /\ bindings' = bindings \cup {work[r].binding}
    /\ Finish(r)
    /\ UNCHANGED <<claimVars, answerVars, live, run, session, executions, filled>>

----------------------------------------------------------------------------
(* Execution.                                                              *)

\* Mutant of BeginExecution: the binding's permission is not looked at.
BeginUnasked(r, b) ==
    /\ run.state = "AWAITING_USER" /\ b.page = run.page
    /\ drafts[b.draft].revision = b.revision
    /\ session = "USER_TAKEOVER"
    /\ Begin(r, [op |-> "observe", binding |-> b, value |-> drafts[b.draft].value])
    /\ UNCHANGED <<claimVars, answerVars, fieldVars>>

\* What execute reads before it touches the browser.
BeginExecution(r, b) ==
    /\ b.permission = "AUTOFILL_ALLOWED"
    /\ run.state = "AWAITING_USER" /\ b.page = run.page
    /\ drafts[b.draft].revision = b.revision
    /\ session = "USER_TAKEOVER"
    /\ Begin(r, [op |-> "observe", binding |-> b, value |-> drafts[b.draft].value])
    /\ UNCHANGED <<claimVars, answerVars, fieldVars>>

\* The execution goes on with the binding and the value it read.
Onward(r, op) == Goes(r, [op |-> op, binding |-> work[r].binding, value |-> work[r].value])

\* The reviewed answer and the observed control are still what was bound.
StillAsBound(b) ==
    LET shape == live.shape[b.control] IN
    /\ live.page = b.page /\ shape # NoControl
    /\ Operable(shape, b.kind)
    /\ ReviewPrint(b.draft, b.page, Field(shape)) = b.print
    /\ b.print.compatible

\* resume: it found the session in takeover, asks the browser for the page
\* and stores ACTIVE.  What it saw decides whether the field is entered.
ObserveLive(r) ==
    /\ Doing(r, "observe")
    /\ IF live.page \in Foreign
       THEN session' = "USER_TAKEOVER" /\ Finish(r)
       ELSE /\ session' = "ACTIVE"
            /\ Onward(r, IF /\ StillAsBound(work[r].binding)
                            /\ Enterable(live.shape[work[r].binding.control], work[r].value)
                         THEN "arm" ELSE "release")
    /\ UNCHANGED <<claimVars, answerVars, live, run, bindings, executions, filled>>

\* execute_action reads the session's state ...
Arm(r) ==
    /\ Doing(r, "arm")
    /\ Onward(r, IF session = "ACTIVE" THEN "enter" ELSE "release")
    /\ UNCHANGED <<claimVars, answerVars, fieldVars>>

\* ... and the worker acts on the control its locator finds by then, or on none.
Enter(r) ==
    /\ Doing(r, "enter")
    /\ LET c == work[r].binding.control IN
       \/ /\ live.shape[c] # NoControl /\ live.shape[c].visible
          /\ filled' = [filled EXCEPT ![c] = {[binding |-> work[r].binding, value |-> work[r].value]}]
          /\ \E v \in BOOLEAN : Goes(r, [op |-> "record", binding |-> work[r].binding,
                                         value |-> work[r].value, verified |-> v])
       \/ /\ filled' = filled
          /\ \/ Goes(r, [op |-> "record", binding |-> work[r].binding,
                         value |-> work[r].value, verified |-> FALSE])
             \/ Onward(r, "release")
    /\ UNCHANGED <<claimVars, answerVars, live, run, session, bindings, executions>>

\* The execution's row - unless the answer shows a page outside the origins,
\* or the commit fails: then the field is filled and no row says so.
RecordExecution(r) ==
    /\ Doing(r, "record")
    /\ IF live.page \in Foreign THEN session' = "USER_TAKEOVER" ELSE session' = session
    /\ \/ /\ live.page \notin Foreign
          /\ executions' = executions \cup {[binding |-> work[r].binding, value |-> work[r].value,
                                             verified |-> work[r].verified]}
       \/ executions' = executions
    /\ Onward(r, "release")
    /\ UNCHANGED <<claimVars, answerVars, live, run, bindings, filled>>

\* The takeover in the finally clause; it is an error when another request
\* has handed the session over already.
Release(r) ==
    /\ Doing(r, "release")
    /\ session' = "USER_TAKEOVER"
    /\ Finish(r)
    /\ UNCHANGED <<claimVars, answerVars, live, run, bindings, executions, filled>>

----------------------------------------------------------------------------
(* The coverage review.                                                    *)

Verified(b) == \E e \in executions : e.binding = b /\ e.verified

\* The bindings of the captured page for a control, and the class review
\* gives a required, visible control of a snapshot that carries `observed`.
Here(c) == {b \in bindings : /\ b.control = c /\ b.page = run.page
                              /\ b.kind = run.observed[c].kind}

\* Mutant of CoverageOf: the bound revision is not compared with the answer's.
CoverageOfBindings(c) ==
    Coverage(run.observed[c], Here(c), \E b \in bindings : b.control = c,
             [b \in Here(c) |-> TRUE], [b \in Here(c) |-> Verified(b)])

CoverageOf(c) ==
    Coverage(run.observed[c], Here(c), \E b \in bindings : b.control = c,
             [b \in Here(c) |-> drafts[b.draft].revision = b.revision],
             [b \in Here(c) |-> Verified(b)])

----------------------------------------------------------------------------
FieldOps == {"bind", "observe", "arm", "enter", "record", "release"}

FillFields(r) ==
    \/ \E d \in Drafts, c \in Controls, p \in {"AUTOFILL_ALLOWED", "REVIEW_REQUIRED"} :
          BeginBinding(r, d, c, p)
    \/ AddBinding(r)
    \/ \E b \in bindings : BeginExecution(r, b)
    \/ ObserveLive(r) \/ Arm(r) \/ Enter(r) \/ RecordExecution(r) \/ Release(r)

----------------------------------------------------------------------------
(* Properties.                                                             *)

\* Whatever happened to the answer, the page and the session in between:
\* what automation entered into a control is a value the user had reviewed
\* for the answer bound to that control, at the bound revision, under a
\* binding that permits it on a control no human must handle; and a verified
\* execution tells of a field that was entered so.
FilledAsReviewed ==
    /\ \A c \in Controls : \A entry \in filled[c] :
          LET b == entry.binding IN
          /\ b \in bindings /\ b.control = c /\ b.permission = "AUTOFILL_ALLOWED"
          /\ b.kind \in Executable /\ ~b.print.field.legal
          /\ \E saved \in reviewed :
                /\ saved.draft = b.draft /\ saved.value = entry.value
                /\ saved.revision = IF b.print.status = "PROMOTED"
                                    THEN b.revision - 1 ELSE b.revision
    /\ \A e \in executions : e.verified => filled[e.binding.control] # {}

\* The coverage review tells the truth about the answers as they are now:
\* what it calls verified was entered with the answer's present value, and
\* what it calls ready has a permitted binding of the present revision.
CoverageTellsTheTruth ==
    \A c \in Controls :
       run.observed[c] # NoControl /\ run.observed[c].visible =>
          /\ CoverageOf(c) = "ALREADY_VERIFIED" =>
                \E e \in executions :
                   /\ e.verified /\ e.binding.control = c /\ e.binding.page = run.page
                   /\ e.value = drafts[e.binding.draft].value
          /\ CoverageOf(c) = "READY_TO_EXECUTE" =>
                \E b \in bindings :
                   /\ b.control = c /\ b.permission = "AUTOFILL_ALLOWED"
                   /\ drafts[b.draft].revision = b.revision
                   /\ ~run.observed[c].legal /\ run.observed[c].kind \in Executable
=============================================================================
