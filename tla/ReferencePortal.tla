--------------------------- MODULE ReferencePortal ---------------------------
(***************************************************************************)
(* The reference portal: one request prepares an application up to the     *)
(* review page and saves the run, another one submits it after the user's  *)
(* approval.  Each request is a row of steps - transitions, actions in the *)
(* browser that must be verified, rows to save - and may fail at any one.  *)
(***************************************************************************)
EXTENDS ApplicationWorkflow

CONSTANT MaxClicks     \* bound: clicks on the portal's submit control

VARIABLES
    page,        \* the page the application's browser session shows
    captcha,     \* a CAPTCHA covers it
    portalRun,   \* state of the saved run, "none" before it is saved
    staged,      \* a decrypted resume is staged for upload
    retained,    \* the submitted resume is recorded as evidence
    clicks,      \* submissions the portal has received
    receipt      \* history: the portal has shown a confirmation code

portalVars == <<page, captcha, portalRun, staged, retained, clicks, receipt>>

\* "thanks" has the address of the confirmation page and no code.
AfterSubmit == {"confirmation", "thanks", "review"}
Pages == {"none", "job", "identity", "experience", "assessment", "stopped"} \cup AfterSubmit

PortalInit(shown) ==
    /\ page = shown /\ captcha = FALSE /\ portalRun = "none"
    /\ staged = FALSE /\ retained = FALSE /\ clicks = 0 /\ receipt = FALSE

Visit(from, to) == [do |-> "visit", from |-> from, to |-> to]
Do(what) == [do |-> what]

Preparation == <<
    [do |-> "create", source |-> "reference-ats"],
    Move("DEDUPLICATED", FALSE), Move("SCORED", FALSE),
    Move("ELIGIBILITY_CHECKED", TRUE), Move("DOCUMENTS_SELECTED", TRUE),
    Visit("none", "job"), Visit("job", "identity"),
    Move("APPLICATION_OPENED", TRUE), Move("FORM_MAPPED", TRUE),
    Do("stage"), Do("unstage"), Visit("identity", "experience"), Visit("experience", "review"),
    Move("ANSWERS_VALIDATED", TRUE), Move("READY_TO_SUBMIT", TRUE),
    Do("save run")>>

Submission == <<
    Do("look"), Do("click"), Move("SUBMISSION_ATTEMPTED", TRUE), Do("evidence"),
    Move("SUBMISSION_CONFIRMED", TRUE), Move("TRACKING_ACTIVE", TRUE),
    Do("retain"), Do("stop browser"), Do("save tracked run")>>

Prepare(r) ==
    /\ source = "none"
    /\ Begin(r, [op |-> "prepare", todo |-> Preparation])
    /\ UNCHANGED <<workflowVars, portalVars>>

\* An action in the browser that reaches the page it was meant to.
VisitPage(r) ==
    /\ Todo(r, "visit") /\ page = Task(r).from /\ ~captcha
    /\ page' = Task(r).to
    /\ UNCHANGED <<workflowVars, captcha, portalRun, staged, retained, clicks, receipt>>
    /\ Done(r)

StageResume(r) ==
    /\ \/ Todo(r, "stage") /\ staged' = TRUE /\ page = "identity"
       \/ Todo(r, "unstage") /\ staged' = FALSE /\ page' = page
    /\ UNCHANGED <<workflowVars, page, captcha, portalRun, retained, clicks, receipt>>
    /\ Done(r)

SaveRun(r) ==
    /\ \/ Todo(r, "save run") /\ portalRun' = "READY_TO_SUBMIT"
       \/ Todo(r, "save tracked run") /\ portalRun' = "TRACKING_ACTIVE"
    /\ UNCHANGED <<workflowVars, page, captcha, staged, retained, clicks, receipt>>
    /\ Done(r)

\* The user approves the run with the fingerprint of the review page.
Confirm(r) ==
    /\ portalRun = "READY_TO_SUBMIT"
    /\ Begin(r, [op |-> "confirm", todo |-> Submission, result |-> "none"])
    /\ UNCHANGED <<workflowVars, portalVars>>

LookAtReview(r) ==
    /\ Todo(r, "look") /\ page = "review" /\ ~captcha
    /\ UNCHANGED <<workflowVars, portalVars>>
    /\ Done(r)

\* The click lands.  It is verified when the address of the confirmation
\* page shows; the request fails when it does not in time.
ClickSubmit(r) ==
    /\ Todo(r, "click") /\ page = "review" /\ ~captcha
    /\ clicks < MaxClicks /\ clicks' = clicks + 1
    /\ page' \in AfterSubmit
    /\ receipt' = (receipt \/ page' = "confirmation")
    /\ \/ page' # "review" /\ Goes(r, [work[r] EXCEPT !.result = page', !.todo = Tail(@)])
       \/ Finish(r)
    /\ UNCHANGED <<workflowVars, captcha, portalRun, staged, retained>>

\* Mutant: the address of the confirmation page is evidence enough.
ConfirmedByAddress(seen) == seen \in {"confirmation", "thanks"}

ConfirmationEvidence(seen) == seen = "confirmation"

ReadEvidence(r) ==
    /\ Todo(r, "evidence")
    /\ IF ConfirmationEvidence(work[r].result)
       THEN Done(r)
       ELSE Continue(r, work[r], <<Move("SUBMISSION_UNCERTAIN", FALSE)>>)
    /\ UNCHANGED <<workflowVars, portalVars>>

RetainDocument(r) ==
    /\ Todo(r, "retain")
    /\ retained' = TRUE
    /\ UNCHANGED <<workflowVars, page, captcha, portalRun, staged, clicks, receipt>>
    /\ Done(r)

StopBrowser(r) ==
    /\ Todo(r, "stop browser")
    /\ page' = "stopped" /\ staged' = FALSE
    /\ UNCHANGED <<workflowVars, captcha, portalRun, retained, clicks, receipt>>
    /\ Done(r)

\* A request that fails clears what it has staged.
PortalFails(r) ==
    /\ Abandon(r, {"prepare", "confirm"})
    /\ staged' = (staged /\ ~Todo(r, "unstage"))
    /\ UNCHANGED <<workflowVars, page, captcha, portalRun, retained, clicks, receipt>>

\* The site puts a CAPTCHA before the page; the user solves it.
CaptchaAppears ==
    /\ page \in {"job", "identity", "experience", "assessment", "review"} /\ ~captcha
    /\ captcha' = TRUE
    /\ UNCHANGED <<work, workflowVars, page, portalRun, staged, retained, clicks, receipt>>

CaptchaSolved ==
    /\ captcha /\ captcha' = FALSE
    /\ UNCHANGED <<work, workflowVars, page, portalRun, staged, retained, clicks, receipt>>

ServePortal(r) ==
    \/ Prepare(r) \/ VisitPage(r) \/ StageResume(r) \/ SaveRun(r)
    \/ Confirm(r) \/ LookAtReview(r) \/ ClickSubmit(r) \/ ReadEvidence(r)
    \/ RetainDocument(r) \/ StopBrowser(r) \/ PortalFails(r)

\* An application counts as submitted only after the portal has shown a
\* confirmation code, and a run is saved as tracked only when the resume it
\* submitted is kept as evidence - whatever request failed, was repeated, or
\* moved the application meanwhile (a CAPTCHA's resume, the workbench).
TrackedIsTrue ==
    /\ state \in {"SUBMISSION_CONFIRMED", "TRACKING_ACTIVE"} => receipt
    /\ portalRun = "TRACKING_ACTIVE" => receipt /\ retained
=============================================================================
