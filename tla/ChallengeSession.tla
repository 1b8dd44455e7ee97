-------------------------- MODULE ChallengeSession --------------------------
(***************************************************************************)
(* The durable session of a challenge: a CAPTCHA on the application's page *)
(* that the user clears, or an assessment whose questions are answered one *)
(* request at a time and which is completed after a review.  A request     *)
(* reads the whole snapshot, acts in the browser, and writes the whole     *)
(* snapshot back.  The CAPTCHA is the reference portal's; the assessment   *)
(* is a page of its own ("sheet").                                         *)
(***************************************************************************)
EXTENDS ReferencePortal

CONSTANTS
    Questions,
    Layouts,           \* structures the assessment's page may have
    RequiredOn,        \* RequiredOn[layout]: the questions it requires; others
                       \* do not hold a review up and are left out
    FirstLayout,
    NoChallenge

ASSUME ChallengeAssumption ==
    /\ FirstLayout \in Layouts
    /\ RequiredOn \in [Layouts -> SUBSET Questions]

VARIABLES
    challenge,     \* the snapshot of the session, as it was last saved
    sheet,         \* kind and layout of the page, and whether it has been submitted
    entered,       \* history: questions whose answer was verified on the page
    solved,        \* history: the user has solved a CAPTCHA
    overdue        \* the time the session allows is up

challengeVars == <<challenge, sheet, entered, solved, overdue>>
applicationVars == <<workflowVars, portalVars>>

Statuses == {"INTERVENTION_REQUIRED", "IN_PROGRESS", "REVIEW_REQUIRED", "COMPLETED",
             "EXPIRED", "FAILED"}

\* "asked" is the layout the questions were read from, "seen" the one the
\* latest answer was verified on, "review" the one the review rests on, and
\* "verified" the questions that have a verified answer.
Kinds == {"CAPTCHA", "ASSESSMENT", "QUESTIONNAIRE"}
Snapshot == [kind : Kinds, resume : WorkflowStates, status : Statuses,
             asked : Layouts, seen : Layouts, verified : SUBSET Questions,
             review : Layouts \cup {"none"}]

ChallengeInit(kind) ==
    /\ challenge = NoChallenge
    /\ sheet = [kind |-> kind, layout |-> FirstLayout, submitted |-> FALSE]
    /\ entered = {} /\ solved = FALSE /\ overdue = FALSE

-----------------------------------------------------------------------------
\* Detection notes the workflow's state, then looks at the page.

BeginDetection(r) ==
    /\ challenge = NoChallenge /\ source # "none" /\ page # "none"
    /\ Begin(r, [op |-> "detect", resume |-> state, todo |-> <<Do("detect")>>])
    /\ UNCHANGED <<applicationVars, challengeVars>>

Detected == IF captcha THEN "CAPTCHA" ELSE sheet.kind

Interrupts(kind, resume) ==
    CASE kind = "CAPTCHA" -> <<Move("CAPTCHA_REQUIRED", FALSE)>>
      [] kind = "ASSESSMENT" /\ resume = "ANSWERS_VALIDATED" ->
           <<Move("ASSESSMENT_PENDING", FALSE), Move("ASSESSMENT_IN_PROGRESS", FALSE)>>
      [] OTHER -> <<>>

Detect(r) ==
    /\ Todo(r, "detect")
    /\ Detected \in Kinds /\ (captcha \/ ~sheet.submitted)
    /\ challenge' =
         [kind |-> Detected, resume |-> work[r].resume,
          status |-> IF captcha THEN "INTERVENTION_REQUIRED" ELSE "IN_PROGRESS",
          asked |-> sheet.layout, seen |-> sheet.layout, verified |-> {}, review |-> "none"]
    /\ Continue(r, work[r], Interrupts(Detected, work[r].resume))
    /\ UNCHANGED <<applicationVars, sheet, entered, solved, overdue>>

-----------------------------------------------------------------------------
\* Requests on a session that exists: each has read the snapshot "read" and
\* saves what it makes of it.

BeginOn(r, operation, todo) ==
    /\ Begin(r, [op |-> operation, read |-> challenge, todo |-> todo])
    /\ UNCHANGED <<applicationVars, challengeVars>>

Unless(late, todo) == IF late THEN <<Do("expire")>> ELSE todo

SaveSnapshot(r) ==
    /\ Todo(r, "save snapshot")
    /\ challenge' = work[r].read
    /\ UNCHANGED <<applicationVars, sheet, entered, solved, overdue>>
    /\ Done(r)

Expire(r) ==
    /\ Todo(r, "expire")
    /\ challenge' = [work[r].read EXCEPT !.status = "EXPIRED"]
    /\ Finish(r)
    /\ UNCHANGED <<applicationVars, sheet, entered, solved, overdue>>

BeginAnswer(r) ==
    /\ challenge # NoChallenge /\ challenge.status \in {"IN_PROGRESS", "REVIEW_REQUIRED"}
    /\ BeginOn(r, "answer", Unless(overdue, <<Do("enter"), Do("save snapshot")>>))

\* The answer is verified in the page; what the page is laid out like by
\* then is noted for the review and not compared with the questions asked.
Answered(snap, q, layout) ==
    LET verified == snap.verified \cup {q}
        ready == RequiredOn[snap.asked] \subseteq verified
    IN  [snap EXCEPT !.verified = verified, !.seen = layout,
                     !.status = IF ready THEN "REVIEW_REQUIRED" ELSE "IN_PROGRESS",
                     !.review = IF ready THEN layout ELSE "none"]

EnterAnswer(r) ==
    /\ Todo(r, "enter") /\ ~sheet.submitted /\ ~captcha
    /\ \E q \in RequiredOn[work[r].read.asked] \cap RequiredOn[sheet.layout] :
          /\ entered' = entered \cup {q}
          /\ Goes(r, [work[r] EXCEPT !.read = Answered(@, q, sheet.layout), !.todo = Tail(@)])
    /\ UNCHANGED <<applicationVars, challenge, sheet, solved, overdue>>

\* The user approves the review with its fingerprint.  The time is checked
\* before the status is.
BeginCompletion(r) ==
    /\ challenge # NoChallenge /\ (overdue \/ challenge.status = "REVIEW_REQUIRED")
    /\ BeginOn(r, "complete", Unless(overdue,
           <<Do("look at review"), Do("submit")>>
           \o (IF challenge.kind = "ASSESSMENT" THEN <<Move("ASSESSMENT_COMPLETED", TRUE)>>
               ELSE <<>>)
           \o <<Do("save snapshot")>>))

LookAtSheet(r) ==
    /\ Todo(r, "look at review")
    /\ ~sheet.submitted /\ ~captcha /\ sheet.layout = work[r].read.review
    /\ UNCHANGED <<applicationVars, challengeVars>>
    /\ Done(r)

\* Mutant: a click is taken for the completion.
CompletionByClick(accepted) == accepted \in BOOLEAN

CompletionShown(accepted) == accepted

\* The submission is the page's to accept; the request fails when its click
\* is not followed by the completion page.
SubmitSheet(r) ==
    /\ Todo(r, "submit") /\ ~sheet.submitted /\ ~captcha
    /\ \E accepted \in BOOLEAN :
          /\ sheet' = [sheet EXCEPT !.submitted = accepted]
          /\ IF CompletionShown(accepted)
             THEN Goes(r, [work[r] EXCEPT !.read.status = "COMPLETED", !.todo = Tail(@)])
             ELSE Finish(r)
    /\ UNCHANGED <<applicationVars, challenge, entered, solved, overdue>>

BeginRefresh(r) ==
    /\ challenge # NoChallenge
    /\ BeginOn(r, "refresh", <<Do("observe"), Do("save snapshot")>>)

\* A changed page takes the verification from every answer; the questions are
\* read again either way.
Refreshed(snap) ==
    LET changed == sheet.layout # snap.seen
        reopened == changed /\ snap.status = "REVIEW_REQUIRED"
    IN  IF snap.kind = "CAPTCHA" THEN snap
        ELSE [snap EXCEPT !.asked = sheet.layout,
                          !.verified = IF changed THEN {} ELSE @,
                          !.status = IF reopened THEN "IN_PROGRESS" ELSE @,
                          !.review = IF reopened THEN "none" ELSE @]

Refresh(r) ==
    /\ Todo(r, "observe")
    /\ Detected \in Kinds /\ (captcha \/ ~sheet.submitted)
    /\ LET snap == work[r].read
           next == IF snap.kind # Detected THEN [snap EXCEPT !.status = "FAILED"]
                   ELSE IF overdue THEN [Refreshed(snap) EXCEPT !.status = "EXPIRED"]
                   ELSE Refreshed(snap)
       IN  Goes(r, [work[r] EXCEPT !.read = next, !.todo = Tail(@)])
    /\ UNCHANGED <<applicationVars, challengeVars>>

BeginIntervention(r) ==
    /\ challenge # NoChallenge /\ challenge.status = "INTERVENTION_REQUIRED"
    /\ BeginOn(r, "intervene", <<Do("check"), Move(challenge.resume, TRUE), Do("save snapshot")>>)

CheckCleared(r) ==
    /\ Todo(r, "check") /\ ~captcha
    /\ Goes(r, [work[r] EXCEPT !.read.status = "COMPLETED", !.todo = Tail(@)])
    /\ UNCHANGED <<applicationVars, challengeVars>>

-----------------------------------------------------------------------------
\* The page and the clock.

\* Bound: the layout changes once, as when an answer brings up another question.
LayoutChanges ==
    /\ ~sheet.submitted /\ sheet.layout = FirstLayout
    /\ \E l \in Layouts \ {sheet.layout} : sheet' = [sheet EXCEPT !.layout = l]
    /\ UNCHANGED <<work, applicationVars, challenge, entered, solved, overdue>>

\* Bound: the time is up in a session no CAPTCHA came up in.
TimeIsUp ==
    /\ challenge # NoChallenge /\ ~overdue /\ ~captcha /\ ~solved
    /\ overdue' = TRUE
    /\ UNCHANGED <<work, applicationVars, challenge, sheet, entered, solved>>

\* Bound: one CAPTCHA is put up and solved, none once the time is up, and none
\* before a questionnaire.
CaptchaShows ==
    CaptchaAppears /\ ~solved /\ ~overdue /\ sheet.kind # "QUESTIONNAIRE" /\ UNCHANGED challengeVars
Solve == CaptchaSolved /\ solved' = TRUE /\ UNCHANGED <<challenge, sheet, entered, overdue>>

ServeChallenge(r) ==
    \/ BeginDetection(r) \/ Detect(r) \/ SaveSnapshot(r) \/ Expire(r)
    \/ BeginAnswer(r) \/ EnterAnswer(r)
    \/ BeginCompletion(r) \/ LookAtSheet(r) \/ SubmitSheet(r)
    \/ BeginRefresh(r) \/ Refresh(r)
    \/ BeginIntervention(r) \/ CheckCleared(r)
    \/ /\ Abandon(r, {"detect", "answer", "complete", "refresh", "intervene"})
       /\ UNCHANGED <<applicationVars, challengeVars>>

\* A challenge counts as completed - in its own session and in the workflow -
\* only after the user has solved the CAPTCHA, or the completion page was seen
\* and every question that was asked had an answer verified on the page,
\* whatever snapshots were written over each other.  (A question the page
\* came up with later may be missing: asking anew is left to a refresh.)
CompletedIsTrue ==
    /\ challenge # NoChallenge /\ challenge.status = "COMPLETED" =>
          IF challenge.kind = "CAPTCHA" THEN solved
          ELSE sheet.submitted /\ \E l \in Layouts : RequiredOn[l] \subseteq entered
    /\ state = "ASSESSMENT_COMPLETED" => sheet.submitted
=============================================================================
