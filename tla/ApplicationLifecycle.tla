------------------------ MODULE ApplicationLifecycle ------------------------
(***************************************************************************)
(* One application from its first state to tracking: the workbench's       *)
(* simulated one, the reference portal's with a CAPTCHA in its way, or one *)
(* held up by an assessment; the mail that arrives about it; and the mail  *)
(* and the appointments the owner reviews and sends.  The requests that    *)
(* work on the same rows interleave; the program may stop between any two  *)
(* steps.                                                                  *)
(***************************************************************************)
EXTENDS ChallengeSession, ReviewedDispatch

CONSTANTS
    Desks,
    SheetKinds,
    Providers      \* "gmail", "outlook": each has a sync state of its own

\* A sheet with no CAPTCHA over it is none.
ASSUME SheetAssumption == SheetKinds \subseteq Kinds \ {"CAPTCHA"}

VARIABLE desk      \* "workbench", "portal", "assessment", "mail" or "dialog"

vars == <<work, workflowVars, portalVars, challengeVars, inboxVars, dispatchVars, desk>>

At(d) == desk = d /\ desk' = desk

TypeOK ==
    /\ desk \in Desks
    /\ state \in WorkflowStates
    /\ source \in {"none", Simulated, "reference-ats"}
    /\ page \in Pages /\ portalRun \in {"none", "READY_TO_SUBMIT", "TRACKING_ACTIVE"}
    /\ challenge \in Snapshot \cup {NoChallenge}
    /\ entered \subseteq Questions

Init ==
    /\ desk \in Desks
    /\ RequestsInit
    /\ IF desk = "mail" THEN \E p \in Providers : InboxInit(p) ELSE InboxInit("none")
    /\ DispatchInit
    /\ IF desk = "assessment"
       THEN /\ WorkflowInit("reference-ats", "ANSWERS_VALIDATED") /\ PortalInit("assessment")
            /\ \E kind \in SheetKinds : ChallengeInit(kind)
       ELSE /\ WorkflowInit("none", "DISCOVERED") /\ PortalInit("none")
            /\ ChallengeInit("NONE")

Simulating ==
    /\ At("workbench")
    /\ \E r \in Requests :
          \/ CreateApplication(r) \/ Transit(r) \/ Simulate(r)
          \/ Abandon(r, {"start", "control", "public"}) /\ UNCHANGED workflowVars
    /\ UNCHANGED <<portalVars, challengeVars, inboxVars, dispatchVars>>

\* The workbench's controls and the public endpoint are there for every
\* application; that they leave these alone is theirs to ensure.
Applying ==
    /\ At("portal")
    /\ \/ /\ \E r \in Requests :
                \/ /\ \/ CreateApplication(r) \/ Transit(r)
                      \/ Control(r) \/ PublicTransition(r) \/ AppendEvent(r)
                   /\ UNCHANGED portalVars
                \/ ServePortal(r)
          /\ UNCHANGED challengeVars
       \/ \E r \in Requests : ServeChallenge(r)
       \/ CaptchaShows \/ Solve
    /\ UNCHANGED <<inboxVars, dispatchVars>>

Assessing ==
    /\ At("assessment")
    /\ \/ \E r \in Requests :
             \/ Transit(r) /\ UNCHANGED <<portalVars, challengeVars>>
             \/ ServeChallenge(r)
       \/ CaptchaShows \/ Solve \/ LayoutChanges \/ TimeIsUp
    /\ UNCHANGED <<inboxVars, dispatchVars>>

ReadingMail ==
    /\ At("mail")
    /\ (\E r \in Requests : SyncInbox(r)) \/ InboxMoves
    /\ UNCHANGED <<workflowVars, portalVars, challengeVars, dispatchVars>>

Reviewing ==
    /\ At("dialog")
    /\ \/ /\ \/ \E r \in Requests : Review(r)
             \/ \E d \in Drafts : ServeCall(d) \/ LoseCall(d)
             \/ Reopen
          /\ UNCHANGED inboxVars
       \/ Reconnect /\ UNCHANGED dispatchVars
    /\ UNCHANGED <<workflowVars, portalVars, challengeVars>>

Stopping ==
    /\ desk # "dialog" /\ desk' = desk /\ Crash
    /\ UNCHANGED <<workflowVars, portalVars, challengeVars, inboxVars, dispatchVars>>

Next == Simulating \/ Applying \/ Assessing \/ ReadingMail \/ Reviewing \/ Stopping

Spec == Init /\ [][Next]_vars
=============================================================================
