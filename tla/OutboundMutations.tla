-------------------------- MODULE OutboundMutations --------------------------
(***************************************************************************)
(* Sending a reviewed mail draft and executing a reviewed calendar plan.   *)
(*                                                                         *)
(* A confirmation names a draft and carries an idempotency key.  The       *)
(* service looks the key up, checks that the draft is bound to the         *)
(* connection it reads, commits an audit and a claim of the draft          *)
(* together, and only then asks for a token and calls the provider, once.  *)
(* Confirmations race, repeat keys, lose answers and die with the process  *)
(* while logins, refreshes and revocations change the connection under     *)
(* them.                                                                   *)
(***************************************************************************)
EXTENDS OAuthConnection

CONSTANTS
    Draft,          \* mail drafts and calendar plans
    ProviderFor,    \* the provider each is addressed to
    Calendar,       \* those that are calendar plans
    Key,            \* idempotency keys
    Request,        \* confirmations, each handled once
    MaxCrashes      \* bound: deaths of the backend process

ASSUME MutationAssumption ==
    /\ ProviderFor \in [Draft -> Provider]
    /\ Calendar \subseteq Draft
    /\ Client = Request
    /\ MaxCrashes \in Nat
    /\ Nothing \notin Draft /\ Nothing \notin Key

VARIABLES
    made,       \* drafts that exist
    binding,    \* the connection each draft was reviewed with
    audit,      \* communication_mutation_audits, by idempotency key
    claim,      \* mail_send_claims and calendar_mutation_claims
    request,    \* what each confirmation is about to do
    wire,       \* the provider call of each confirmation
    crashes

drafts == <<made, binding>>
ledger == <<audit, claim>>
vars == <<connection, drafts, ledger, request, wire, crashes>>

Final == {"ACCEPTED", "FAILED", "UNCERTAIN"}
Audit == [status : {"none", "PLANNED"} \cup Final, of : Draft \cup {Nothing}]
NoAudit == [status |-> "none", of |-> Nothing]
RequestState ==
    [at : {"new", "found", "check", "claim", "prepare", "token", "wait",
           "record", "done"},
     draft : Draft \cup {Nothing}, key : Key \cup {Nothing},
     sees : Login \cup {Nothing}, outcome : {"none"} \cup Final]
Wire == [state : {"none", "flying", "applied", "gone"}, as : Login \cup {Nothing}]

Init ==
    /\ ConnectionInit
    /\ made = {} /\ binding = [d \in Draft |-> Nothing]
    /\ audit = [k \in Key |-> NoAudit]
    /\ claim = [d \in Draft |-> Nothing]
    /\ request = [q \in Request |-> [at |-> "new", draft |-> Nothing,
                    key |-> Nothing, sees |-> Nothing, outcome |-> "none"]]
    /\ wire = [q \in Request |-> [state |-> "none", as |-> Nothing]]
    /\ crashes = 0

To(q, at) == request' = [request EXCEPT ![q].at = at]
Concluded(q, outcome) ==
    request' = [request EXCEPT ![q].at = "record", ![q].outcome = outcome]

-----------------------------------------------------------------------------
(* create_draft, plan_calendar_mutation *)

\* A plan needs a connection; a mail preview may be made offline.
CreateDraft(d) ==
    /\ d \notin made
    /\ d \in Calendar => credential[ProviderFor[d]] # Nothing
    /\ made' = made \cup {d}
    /\ binding' = [binding EXCEPT ![d] = credential[ProviderFor[d]]]
    /\ UNCHANGED <<connection, ledger, request, wire, crashes>>

-----------------------------------------------------------------------------
(* send_draft, execute_calendar_mutation *)

\* The service is built around the connection it reads now.
Receive(q, d, k) ==
    /\ request[q].at = "new"
    /\ request' = [request EXCEPT ![q] =
         [at |-> "found", draft |-> d, key |-> k,
          sees |-> credential[ProviderFor[d]], outcome |-> "none"]]
    /\ UNCHANGED <<connection, drafts, ledger, wire, crashes>>

\* An attempt recorded under the key, or for the plan, is replayed or refused.
FindReplay(q) ==
    /\ request[q].at = "found"
    /\ LET d == request[q].draft
           k == request[q].key
       IN  To(q, IF \/ audit[k].status # "none"
                    \/ d \in Calendar /\ claim[d] # Nothing
                 THEN "done" ELSE "check")
    /\ UNCHANGED <<connection, drafts, ledger, wire, crashes>>

\* Mutant of Reviewed: the connection is not compared with the draft's.
ReviewedAnyConnection(q) ==
    LET d == request[q].draft IN d \in made /\ binding[d] # Nothing

\* The draft is bound, and to the connection this service was built with.
Reviewed(q) ==
    LET d == request[q].draft
    IN  d \in made /\ binding[d] # Nothing /\ binding[d] = request[q].sees

CheckReview(q) ==
    /\ request[q].at = "check"
    /\ To(q, IF Reviewed(q) THEN "claim" ELSE "done")
    /\ UNCHANGED <<connection, drafts, ledger, wire, crashes>>

\* Mutant of Unclaimed: only the idempotency key is unique.
UnclaimedKey(q) == audit[request[q].key].status = "none"

\* One audit per key and one claim per draft: unique constraints.
Unclaimed(q) ==
    /\ claim[request[q].draft] = Nothing
    /\ audit[request[q].key].status = "none"

ClaimAttempt(q) ==
    /\ request[q].at = "claim" /\ Unclaimed(q)
    /\ audit' = [audit EXCEPT ![request[q].key] =
                   [status |-> "PLANNED", of |-> request[q].draft]]
    /\ claim' = [claim EXCEPT ![request[q].draft] = request[q].key]
    /\ To(q, "prepare")
    /\ UNCHANGED <<connection, drafts, wire, crashes>>

\* Mutant of ClaimLost: whoever loses the race goes on to the provider.
ClaimLostProceeds(q) ==
    /\ request[q].at = "claim" /\ ~Unclaimed(q)
    /\ To(q, "prepare")
    /\ UNCHANGED <<connection, drafts, ledger, wire, crashes>>

\* The winner's attempt is returned, or refused as a different one.
ClaimLost(q) ==
    /\ request[q].at = "claim" /\ ~Unclaimed(q)
    /\ To(q, "done")
    /\ UNCHANGED <<connection, drafts, ledger, wire, crashes>>

\* Changed attachments or an invalid payload; an unexpected error is UNCERTAIN.
PrepareFails(q) ==
    /\ request[q].at = "prepare" /\ Refusal
    /\ \E outcome \in {"FAILED", "UNCERTAIN"} : Concluded(q, outcome)
    /\ UNCHANGED <<stored, remotely, callback, revoker, access, drafts, ledger,
                   wire, crashes>>

\* The token of the connection the service was built with.
Authorize(q) ==
    /\ request[q].at = "prepare"
    /\ RequestToken(q, request[q].sees)
    /\ To(q, "token")
    /\ UNCHANGED <<drafts, ledger, wire, crashes>>

RefreshToken(q) ==
    /\ request[q].at = "token" /\ RefreshStep(q)
    /\ UNCHANGED <<drafts, ledger, request, wire, crashes>>

AuthorizationFails(q) ==
    /\ request[q].at = "token" /\ access[q].at = "denied"
    /\ Concluded(q, "FAILED")
    /\ UNCHANGED <<connection, drafts, ledger, wire, crashes>>

Post(q) ==
    /\ request[q].at = "token" /\ access[q].at = "token"
    /\ wire' = [wire EXCEPT ![q] = [state |-> "flying", as |-> access[q].of]]
    /\ To(q, "wait")
    /\ UNCHANGED <<connection, drafts, ledger, crashes>>

-----------------------------------------------------------------------------
(* The provider, and what the adapter makes of its answer *)

ProviderApplies(q) ==
    /\ wire[q].state = "flying"
    /\ wire' = [wire EXCEPT ![q].state = "applied"]
    /\ UNCHANGED <<connection, drafts, ledger, request, crashes>>

ProviderLoses(q) ==
    /\ wire[q].state = "flying"
    /\ wire' = [wire EXCEPT ![q].state = "gone"]
    /\ UNCHANGED <<connection, drafts, ledger, request, crashes>>

Accepted(q) ==
    /\ request[q].at = "wait" /\ wire[q].state = "applied"
    /\ Concluded(q, "ACCEPTED")
    /\ UNCHANGED <<connection, drafts, ledger, wire, crashes>>

\* A complete 4xx answer: the provider did not and will not apply it.
Rejected(q) ==
    /\ request[q].at = "wait" /\ wire[q].state = "flying"
    /\ wire' = [wire EXCEPT ![q].state = "gone"]
    /\ Concluded(q, "FAILED")
    /\ UNCHANGED <<connection, drafts, ledger, crashes>>

\* A timeout, a broken connection, or an answer that proves nothing.
Unanswered(q) ==
    /\ request[q].at = "wait"
    /\ \/ wire[q].state = "gone" /\ UNCHANGED refusals
       \/ Refusal
    /\ Concluded(q, "UNCERTAIN")
    /\ UNCHANGED <<stored, remotely, callback, revoker, access, drafts, ledger,
                   wire, crashes>>

\* add_audit updates the key's row; finish_calendar_mutation only a PLANNED one.
Record(q) ==
    /\ request[q].at = "record"
    /\ LET d == request[q].draft
           k == request[q].key
       IN  /\ audit[k].of = d
           /\ d \in Calendar => audit[k].status = "PLANNED" /\ claim[d] = k
           /\ audit' = [audit EXCEPT ![k].status = request[q].outcome]
    /\ To(q, "done")
    /\ UNCHANGED <<connection, drafts, claim, wire, crashes>>

\* The outcome cannot be written: the attempt stays PLANNED.
RecordFails(q) ==
    /\ request[q].at = "record" /\ Refusal
    /\ To(q, "done")
    /\ UNCHANGED <<stored, remotely, callback, revoker, access, drafts, ledger,
                   wire, crashes>>

\* The backend dies; calls on the wire do not.
Crash ==
    /\ crashes < MaxCrashes /\ crashes' = crashes + 1
    /\ request' = [q \in Request |->
         IF request[q].at = "new" THEN request[q] ELSE [request[q] EXCEPT !.at = "done"]]
    /\ callback' = [c \in Callback |-> Idle]
    /\ revoker' = [v \in Revoker |-> Idle]
    /\ access' = [c \in Client |-> Idle]
    /\ UNCHANGED <<stored, remotely, refusals, drafts, ledger, wire>>

-----------------------------------------------------------------------------
RequestStep(q) ==
    \/ \E d \in Draft, k \in Key : Receive(q, d, k)
    \/ FindReplay(q) \/ CheckReview(q)
    \/ ClaimAttempt(q) \/ ClaimLost(q)
    \/ PrepareFails(q) \/ Authorize(q) \/ RefreshToken(q) \/ AuthorizationFails(q)
    \/ Post(q) \/ Accepted(q) \/ Rejected(q) \/ Unanswered(q)
    \/ Record(q) \/ RecordFails(q)

Next ==
    \/ \E d \in Draft : CreateDraft(d)
    \/ \E q \in Request : RequestStep(q) \/ ProviderApplies(q) \/ ProviderLoses(q)
    \/ ConnectionStep /\ UNCHANGED <<drafts, ledger, request, wire, crashes>>
    \/ Crash

Spec == Init /\ [][Next]_vars

-----------------------------------------------------------------------------
(* Properties *)

(* Every variable has its type, those of the connections under it included. *)
TypeOK ==
    /\ ConnectionTypeOK
    /\ made \subseteq Draft /\ binding \in [Draft -> Login \cup {Nothing}]
    /\ audit \in [Key -> Audit] /\ claim \in [Draft -> Key \cup {Nothing}]
    /\ request \in [Request -> RequestState] /\ wire \in [Request -> Wire]
    /\ crashes \in 0..MaxCrashes

OnTheWire(d) ==
    {q \in Request : request[q].draft = d /\ wire[q].state \in {"flying", "applied"}}

(* No two provider calls ever carry the same draft, whatever the keys, retries,
   races and crashes. *)
OneCallPerDraft ==
    \A d \in Draft : \A q, r \in OnTheWire(d) : q = r

(* A call carries the token of the very connection its draft was reviewed with,
   even if logins and refreshes replaced the connection meanwhile. *)
SentAsReviewed ==
    \A d \in Draft : \A q \in OnTheWire(d) : wire[q].as = binding[d]

(* The recorded outcome is true: an accepted draft was applied, and a failed one
   was not and never will be. *)
OutcomeIsTrue ==
    \A k \in Key : LET d == audit[k].of IN
        /\ audit[k].status = "ACCEPTED" =>
             \E q \in OnTheWire(d) : wire[q].state = "applied"
        /\ audit[k].status = "FAILED" => OnTheWire(d) = {}

(* A claim leads to the audit of its own draft: an idempotency key reused for
   another draft, of mail or of the calendar, never stands for both. *)
ClaimIsAudited ==
    \A d \in Draft : claim[d] # Nothing => audit[claim[d]].of = d

Attempts == INSTANCE OneAttempt WITH
    outcome <- [d \in Draft |-> IF claim[d] = Nothing THEN "open"
                                ELSE audit[claim[d]].status],
    effects <- [d \in Draft |->
        {q \in Request : request[q].draft = d /\ wire[q].state = "applied"}]

(* Confirmations implement the abstract specification: one attempt per draft,
   applied at most once, with a true and final outcome. *)
ImplementsOneAttempt == Attempts!Spec

(* Why at most one call carries a draft: whoever has passed the claim owns it,
   with the audit of its key, until the outcome is recorded. *)
Owns(q) == request[q].at \in {"prepare", "token", "wait", "record"}
Engaged(q) == Owns(q) \/ wire[q].state # "none"

RequestConsistent(q) ==
    /\ request[q].at # "new" => request[q].draft \in Draft /\ request[q].key \in Key
    /\ request[q].at = "claim" \/ Owns(q) =>
         request[q].draft \in made /\ binding[request[q].draft] = request[q].sees
    /\ request[q].at \in {"new", "found", "check", "claim", "prepare", "token"} =>
         wire[q].state = "none"
    /\ request[q].at = "token" => access[q].of = request[q].sees
    /\ request[q].at = "record" =>
         /\ request[q].outcome \in Final
         /\ request[q].outcome = "ACCEPTED" => wire[q].state = "applied"
         /\ request[q].outcome = "FAILED" => wire[q].state \in {"none", "gone"}

LedgerConsistent ==
    /\ ClaimIsAudited
    /\ \A k \in Key :
         audit[k].status # "none" => audit[k].of \in Draft /\ claim[audit[k].of] = k
    /\ \A d \in Draft : claim[d] # Nothing => audit[claim[d]].status # "none"

OwnerConsistent(q) ==
    /\ Engaged(q) =>
         /\ claim[request[q].draft] = request[q].key
         /\ request[q].draft \in Draft /\ request[q].key \in Key
    /\ Owns(q) => audit[request[q].key].status = "PLANNED"
    /\ wire[q].state # "none" =>
         request[q].draft \in made /\ wire[q].as = binding[request[q].draft]

OneOwner ==
    \A q, r \in Request :
        Engaged(q) /\ Engaged(r) /\ request[q].draft = request[r].draft => q = r

MutationsInductive ==
    /\ TypeOK /\ ConnectionInductive
    /\ \A q \in Request : RequestConsistent(q) /\ OwnerConsistent(q)
    /\ LedgerConsistent /\ OneOwner /\ OutcomeIsTrue
=============================================================================
