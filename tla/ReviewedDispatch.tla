-------------------------- MODULE ReviewedDispatch --------------------------
(***************************************************************************)
(* The native review of a mail draft or a calendar plan before it is sent. *)
(* A handler of the desktop reads the stored draft, looks for an earlier   *)
(* attempt, shows the owner what would be sent, and on approval checks     *)
(* again and dispatches.  Handlers interleave at every await; the account  *)
(* may be connected anew meanwhile, a call's answer may be lost, and the   *)
(* desktop may be closed and opened again.  What the backend does with a   *)
(* call is one step here; OutboundMutations has its steps.                 *)
(***************************************************************************)
EXTENDS InboxSync

CONSTANTS
    Drafts,        \* mail drafts and calendar plans
    Plans          \* the calendar plans among them

ASSUME DispatchAssumption == Plans \subseteq Drafts

VARIABLES
    bound,         \* the connection each draft was prepared for, 0 before
    offered,       \* drafts the owner can find and review
    attempts,      \* the desktop's note on each draft
    calls,         \* dispatched calls the backend has not served
    approved,      \* history: what the owner has approved
    claims         \* the backend's claims: the draft and the connection used

dispatchVars == <<bound, offered, attempts, calls, approved, claims>>
preparedVars == <<bound, offered>>
servedVars == <<calls, claims>>

DispatchInit ==
    /\ bound = [d \in Drafts |-> 0] /\ offered = {}
    /\ attempts = [d \in Drafts |-> "none"]
    /\ calls = {} /\ approved = {} /\ claims = {}

Reached(r, op, at) == Doing(r, op) /\ work[r].at = at
Proceed(r, at) == Goes(r, [work[r] EXCEPT !.at = at])
Attempted(d) == \E c \in claims : c.draft = d

\* What the dialog shows: the draft, and the account it is bound to.
Detail(d) == [draft |-> d, account |-> AccountOf[bound[d]]]

-----------------------------------------------------------------------------
\* Preparation.  For a plan the connection is noted before and compared after.

BeginPreparation(r) ==
    /\ \E d \in Drafts :
          /\ bound[d] = 0 /\ \A s \in Requests : ~(Doing(s, "prepare") /\ work[s].draft = d)
          /\ Begin(r, [op |-> "prepare", draft |-> d, seen |-> connection,
                       at |-> "create"])
    /\ UNCHANGED dispatchVars

CreateDraft(r) ==
    /\ Reached(r, "prepare", "create") /\ work[r].draft \notin Plans
    /\ bound' = [bound EXCEPT ![work[r].draft] = connection]
    /\ offered' = offered \cup {work[r].draft}
    /\ Finish(r)
    /\ UNCHANGED <<attempts, approved, servedVars>>

CreatePlan(r) ==
    /\ Reached(r, "prepare", "create") /\ work[r].draft \in Plans
    /\ bound' = [bound EXCEPT ![work[r].draft] = connection]
    /\ Proceed(r, "compare")
    /\ UNCHANGED <<offered, attempts, approved, servedVars>>

OfferPlan(r) ==
    /\ Reached(r, "prepare", "compare") /\ work[r].seen = connection
    /\ offered' = offered \cup {work[r].draft}
    /\ Finish(r)
    /\ UNCHANGED <<bound, attempts, approved, servedVars>>

-----------------------------------------------------------------------------
\* Review.

BeginReview(r) ==
    /\ \E d \in offered :
          /\ attempts[d] = "none"
          /\ attempts' = [attempts EXCEPT ![d] = "reviewing"]
          /\ Begin(r, [op |-> "review", draft |-> d, seen |-> 0,
                       at |-> IF d \in Plans THEN "capability" ELSE "audits"])
    /\ UNCHANGED <<preparedVars, approved, servedVars>>

SeeCapability(r) ==
    /\ Reached(r, "review", "capability")
    /\ AccountOf[connection] = Detail(work[r].draft).account
    /\ Goes(r, [work[r] EXCEPT !.seen = connection, !.at = "audits"])
    /\ UNCHANGED dispatchVars

\* An attempt on record ends the review, before the dialog and, for a plan,
\* once more after it.
LookForAttempt(r, at, next) ==
    /\ Reached(r, "review", at)
    /\ IF Attempted(work[r].draft)
       THEN Finish(r) /\ attempts' = [attempts EXCEPT ![work[r].draft] = "dispatched"]
       ELSE Proceed(r, next) /\ UNCHANGED attempts
    /\ UNCHANGED <<preparedVars, approved, servedVars>>

Approve(r) ==
    /\ Reached(r, "review", "dialog")
    /\ approved' = approved \cup {Detail(work[r].draft)}
    /\ Proceed(r, IF work[r].draft \in Plans THEN "capability again" ELSE "dispatch")
    /\ UNCHANGED <<preparedVars, attempts, servedVars>>

SeeCapabilityAgain(r) ==
    /\ Reached(r, "review", "capability again") /\ work[r].seen = connection
    /\ Proceed(r, "audits again")
    /\ UNCHANGED dispatchVars

Dispatch(r) ==
    /\ Reached(r, "review", "dispatch")
    /\ attempts' = [attempts EXCEPT ![work[r].draft] = "dispatched"]
    /\ calls' = calls \cup {work[r].draft}
    /\ Proceed(r, "answer")
    /\ UNCHANGED <<preparedVars, approved, claims>>

\* Mutant: a handler that ends forgets its draft.
ForgottenAfter(note) == "none"

NoteAfter(note) == IF note = "reviewing" THEN "none" ELSE note

\* The handler ends: the owner cancels, a read or a check fails, or the call
\* is answered or given up.
Leave(r) ==
    /\ Doing(r, "review") \/ Doing(r, "prepare")
    /\ Finish(r)
    /\ attempts' = IF work[r].op = "prepare" THEN attempts
                   ELSE [attempts EXCEPT ![work[r].draft] = NoteAfter(@)]
    /\ UNCHANGED <<preparedVars, approved, servedVars>>

-----------------------------------------------------------------------------
\* The backend serves a call, however late, or is gone before it does.
ServeCall(d) ==
    /\ d \in calls /\ calls' = calls \ {d}
    /\ claims' = IF bound[d] = connection /\ ~Attempted(d)
                 THEN claims \cup {[draft |-> d, as |-> connection]} ELSE claims
    /\ UNCHANGED <<work, preparedVars, attempts, approved>>

LoseCall(d) ==
    /\ d \in calls /\ calls' = calls \ {d}
    /\ UNCHANGED <<work, preparedVars, attempts, approved, claims>>

\* The desktop is opened anew, with a backend of its own.
Reopen ==
    /\ work' = [r \in Requests |-> Idle]
    /\ attempts' = [d \in Drafts |-> "none"] /\ calls' = {}
    /\ UNCHANGED <<preparedVars, approved, claims>>

Review(r) ==
    \/ BeginPreparation(r) \/ CreateDraft(r) \/ CreatePlan(r) \/ OfferPlan(r)
    \/ BeginReview(r) \/ SeeCapability(r) \/ LookForAttempt(r, "audits", "dialog")
    \/ Approve(r) \/ SeeCapabilityAgain(r) \/ LookForAttempt(r, "audits again", "dispatch")
    \/ Dispatch(r) \/ Leave(r)

\* What is carried out was approved as it is, for the account that was shown;
\* and the owner is never asked about a draft that was already attempted,
\* whatever handlers overlap, answers are lost or restarts come in between.
ActsAsReviewed ==
    /\ \A c \in claims : [draft |-> c.draft, account |-> AccountOf[c.as]] \in approved
    /\ \A r \in Requests : Reached(r, "review", "dialog") => ~Attempted(work[r].draft)
=============================================================================
