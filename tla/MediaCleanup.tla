----------------------------- MODULE MediaCleanup -----------------------------
(***************************************************************************)
(* Durable ownership of media uploaded to the AI provider.                 *)
(*                                                                         *)
(* An invocation commits an intent before it transfers an image, registers *)
(* the provider's name for it, uses it in one interaction, and deletes it. *)
(* Every row carries an owner and a lease.  Recovery passes (the periodic  *)
(* worker and the retry endpoint) claim rows whose lease ran out and       *)
(* delete what they name.  No transaction spans a provider call, so leases *)
(* expire, owners change and processes die between any two steps.          *)
(***************************************************************************)
EXTENDS Naturals, FiniteSets

CONSTANTS
    Record,         \* cleanup rows, one per image
    Invocation,     \* completions that carry images; each has one token
    Pass,           \* recovery passes that may run at the same time
    Account,        \* credential fingerprints
    AccountOf,      \* the credential each invocation uses
    Configured,     \* credentials recovery can still authenticate with
    Stuck,          \* records whose deletion the provider always refuses
    BatchSize,      \* RECOVERY_BATCH_SIZE
    MaxFailures,    \* bound: lost answers, suspensions, database and key errors
    MaxCrashes,     \* bound: deaths of the backend process
    Nobody

Actor == Invocation \cup Pass

ASSUME MediaAssumption ==
    /\ AccountOf \in [Invocation -> Account]
    /\ Configured \subseteq Account /\ Stuck \subseteq Record
    /\ Invocation \cap Pass = {}
    /\ BatchSize \in Nat \ {0} /\ MaxFailures \in Nat /\ MaxCrashes \in Nat
    /\ Nobody \notin Actor /\ Nobody \notin Record

VARIABLES
    row,        \* ai_media_cleanup
    older,      \* <<r, s>>: r was updated before s
    reviewed,   \* rows in review, unchanged since the owner listed them
    remote,     \* records whose media the provider stores
    inflight,   \* transfers whose bytes may still reach the provider
    pc, target, \* what each actor is about to do, and to which record
    held,       \* the journal's records of each invocation
    named,      \* records whose name the invocation observed
    outcome,    \* what the invocation will report
    listing,    \* candidates of each pass, as it read them
    attempted,  \* deletions of each pass
    failures, crashes

table == <<row, older, reviewed>>
provider == <<remote, inflight>>
journal == <<held, named, outcome>>
passes == <<listing, attempted>>
faults == <<failures, crashes>>
vars == <<table, provider, pc, target, journal, passes, faults>>

Active == {"UPLOADING", "IN_USE"}
State == Active \cup {"none", "DELETE_PENDING", "MANUAL_REVIEW", "DELETED"}
Reason == {"none", "NOT_UPLOADED", "UNKNOWN_UPLOAD", "DELETION_REQUIRED",
           "UNREADABLE_RESOURCE", "DELETE_FAILED", "DELETION_CONFIRMED",
           "MANUALLY_REVIEWED"}
Row == [state : State, account : Account \cup {Nobody},
        by : Invocation \cup {Nobody},  \* ghost: the invocation that created it
        owner : Actor \cup {Nobody}, known : BOOLEAN,
        lease : {"none", "live", "expired"}, due : BOOLEAN, reason : Reason]
Pc == {"idle", "open", "intent", "transfer", "named", "posted", "cleanup",
       "reclaim", "deleting", "confirm", "retry", "scan", "done"}

NoRow == [state |-> "none", account |-> Nobody, by |-> Nobody, owner |-> Nobody,
          known |-> FALSE, lease |-> "none", due |-> FALSE, reason |-> "none"]
NoListing == [todo |-> {}, known |-> {}, older |-> {}]

-----------------------------------------------------------------------------
(* Helpers *)

\* The rows S were updated now, in the order they had among themselves.
Touched(S) == {e \in older : e[1] \notin S \/ e[2] \in S}
                \cup ((Record \ S) \X S)

Write(S, new) ==
    /\ row' = new
    /\ older' = Touched(S)
    /\ reviewed' = reviewed \ S
Put(r, new) == Write({r}, [row EXCEPT ![r] = new])

\* Mutant of Owned: the token is not compared.
OwnedByAnyone(r, a, states) ==
    row[r].state \in states /\ row[r].lease = "live"

\* _owned: same token, expected state, unexpired lease.
Owned(r, a, states) ==
    row[r].owner = a /\ row[r].state \in states /\ row[r].lease = "live"

\* _eligible: an expired owner, or a due deletion nobody holds.
Eligible(r) ==
    /\ row[r].lease # "live"
    /\ \/ row[r].state \in Active
       \/ row[r].state = "DELETE_PENDING" /\ row[r].due

Unresolved(account) ==
    {r \in Record : row[r].account = account /\ row[r].state # "DELETED"}

\* Mutant of Admitted: rows waiting for the owner's review do not count.
AdmittedBesideReview(i) ==
    \A r \in Unresolved(AccountOf[i]) :
        Owned(r, i, Active) \/ row[r].state = "MANUAL_REVIEW"

\* create: nothing of this credential is unresolved but the caller's own
\* active rows.
Admitted(i) == \A r \in Unresolved(AccountOf[i]) : Owned(r, i, Active)

Renewable(i) ==
    \A r \in held[i] : Owned(r, i, Active \cup {"DELETE_PENDING"})
Renewed(i) ==
    [r \in Record |-> IF r \in held[i] THEN [row[r] EXCEPT !.lease = "live"]
                                       ELSE row[r]]
Renew(i) == Renewable(i) /\ Write(held[i], Renewed(i))

\* A repository call fails: its precondition does not hold, or the database
\* or key access does not answer.
Fault == failures < MaxFailures /\ failures' = failures + 1 /\ UNCHANGED crashes
Refused(admitted) == (~admitted /\ UNCHANGED faults) \/ Fault

Goto(a, at) == pc' = [pc EXCEPT ![a] = at]
Fails(i) == outcome' = [outcome EXCEPT ![i] = "failed"] /\ UNCHANGED <<held, named>>

-----------------------------------------------------------------------------
Init ==
    /\ row = [r \in Record |-> NoRow]
    /\ older = {} /\ reviewed = {}
    /\ remote = {} /\ inflight = {}
    /\ pc = [a \in Actor |-> "idle"]
    /\ target = [a \in Actor |-> Nobody]
    /\ held = [i \in Invocation |-> {}]
    /\ named = [i \in Invocation |-> {}]
    /\ outcome = [i \in Invocation |-> "running"]
    /\ listing = [w \in Pass |-> NoListing]
    /\ attempted = [w \in Pass |-> 0]
    /\ failures = 0 /\ crashes = 0

-----------------------------------------------------------------------------
(* GeminiProvider.complete with its DurableMediaJournal *)

Complete(i) ==
    /\ pc[i] = "idle"
    /\ Goto(i, "open")
    /\ UNCHANGED <<table, provider, target, journal, passes, faults>>

\* The intent is committed before any byte of the image is sent.
BeginUpload(i, r) ==
    /\ pc[i] = "open" /\ row[r] = NoRow
    /\ Renewable(i) /\ Admitted(i)
    /\ Write(held[i] \cup {r},
             [Renewed(i) EXCEPT ![r] =
                [NoRow EXCEPT !.state = "UPLOADING", !.account = AccountOf[i],
                              !.by = i, !.owner = i, !.lease = "live"]])
    /\ held' = [held EXCEPT ![i] = @ \cup {r}]
    /\ target' = [target EXCEPT ![i] = r]
    /\ Goto(i, "intent")
    /\ UNCHANGED <<provider, named, outcome, passes, faults>>

\* Renewing or committing the intent fails: nothing of it was sent.
BeginRefused(i) ==
    /\ pc[i] = "open"
    /\ Refused(Renewable(i) /\ Admitted(i))
    /\ Fails(i) /\ Goto(i, "cleanup")
    /\ UNCHANGED <<table, provider, target, passes>>

\* Every lease is renewed, and the image's bytes are sent.
StartTransfer(i) ==
    /\ pc[i] = "intent"
    /\ Renew(i)
    /\ inflight' = inflight \cup {target[i]}
    /\ Goto(i, "transfer")
    /\ UNCHANGED <<remote, target, journal, passes, faults>>

\* The upload did not start: its intent is closed, if it is still ours.
AbandonBeforeUpload(i) ==
    /\ pc[i] = "intent"
    /\ LET r == target[i] IN
         \/ /\ Owned(r, i, {"UPLOADING"}) /\ ~row[r].known
            /\ Put(r, [row[r] EXCEPT !.state = "DELETED", !.reason = "NOT_UPLOADED",
                                     !.lease = "none", !.due = FALSE])
            /\ held' = [held EXCEPT ![i] = @ \ {r}]
            /\ UNCHANGED faults
         \/ Refused(Owned(r, i, {"UPLOADING"})) /\ UNCHANGED <<table, held>>
    /\ outcome' = [outcome EXCEPT ![i] = "failed"]
    /\ Goto(i, "cleanup")
    /\ UNCHANGED <<provider, target, named, passes>>

\* The answer names the stored file; otherwise its fate is unknown.
ReceiveName(i) ==
    /\ pc[i] = "transfer" /\ target[i] \in remote
    /\ named' = [named EXCEPT ![i] = @ \cup {target[i]}]
    /\ Goto(i, "named")
    /\ UNCHANGED <<table, provider, target, held, outcome, passes, faults>>

LoseTransfer(i) ==
    /\ pc[i] = "transfer"
    /\ Refused(target[i] \in remote \cup inflight)
    /\ Fails(i) /\ Goto(i, "cleanup")
    /\ UNCHANGED <<table, provider, target, passes>>

RegisterResource(i) ==
    /\ pc[i] = "named"
    /\ Owned(target[i], i, {"UPLOADING"})
    /\ Put(target[i], [row[target[i]] EXCEPT !.state = "IN_USE", !.known = TRUE,
                                             !.lease = "live"])
    /\ Goto(i, "open")
    /\ UNCHANGED <<provider, target, journal, passes, faults>>

RegisterRefused(i) ==
    /\ pc[i] = "named"
    /\ Refused(Owned(target[i], i, {"UPLOADING"}))
    /\ Fails(i) /\ Goto(i, "cleanup")
    /\ UNCHANGED <<table, provider, target, passes>>

\* The interaction that reads the media is sent ...
Post(i) ==
    /\ pc[i] = "open" /\ held[i] # {}
    /\ Renew(i)
    /\ Goto(i, "posted")
    /\ UNCHANGED <<provider, target, journal, passes, faults>>

\* ... and its answer is taken only if every lease still holds.
Accept(i) ==
    /\ pc[i] = "posted"
    /\ Renew(i)
    /\ outcome' = [outcome EXCEPT ![i] = "answered"]
    /\ Goto(i, "cleanup")
    /\ UNCHANGED <<provider, target, held, named, passes, faults>>

\* A refused renewal, an unusable answer or an exhausted budget.
AbortWork(i) ==
    /\ pc[i] \in {"open", "posted"} /\ held[i] # {}
    /\ Refused(Renewable(i))
    /\ Fails(i) /\ Goto(i, "cleanup")
    /\ UNCHANGED <<table, provider, target, passes>>

-----------------------------------------------------------------------------
(* DurableMediaJournal.cleanup *)

Drop(i, r) == held' = [held EXCEPT ![i] = @ \ {r}]

\* A name observed locally is deleted even when the row is no longer ours;
\* an error of that deletion is ignored.
DeleteLocally(i, r) ==
    IF r \in named[i] THEN remote' \in {remote, remote \ {r}}
                      ELSE UNCHANGED remote

Relinquish(i, r) ==
    /\ pc[i] = "cleanup" /\ r \in held[i]
    /\ Owned(r, i, Active)
    /\ target' = [target EXCEPT ![i] = r]
    /\ IF row[r].known
       THEN /\ Put(r, [row[r] EXCEPT !.state = "DELETE_PENDING", !.lease = "none",
                            !.reason = "DELETION_REQUIRED", !.due = TRUE])
            /\ Goto(i, "reclaim")
            /\ UNCHANGED <<remote, held, outcome>>
       ELSE /\ Put(r, [row[r] EXCEPT !.state = "MANUAL_REVIEW", !.lease = "none",
                            !.reason = "UNKNOWN_UPLOAD", !.due = FALSE])
            /\ DeleteLocally(i, r)
            /\ Drop(i, r)
            /\ outcome' = [outcome EXCEPT ![i] = "failed"]
            /\ UNCHANGED pc
    /\ UNCHANGED <<inflight, named, passes, faults>>

RelinquishRefused(i, r) ==
    /\ pc[i] = "cleanup" /\ r \in held[i]
    /\ Refused(Owned(r, i, Active))
    /\ DeleteLocally(i, r)
    /\ Drop(i, r)
    /\ outcome' = [outcome EXCEPT ![i] = "failed"]
    /\ UNCHANGED <<table, inflight, pc, target, named, passes>>

\* claim_recovery: an upload nobody can name goes to the owner's review.
Claim(r, a) ==
    /\ Eligible(r)
    /\ Put(r, IF row[r].known
              THEN [row[r] EXCEPT !.state = "DELETE_PENDING", !.owner = a,
                       !.lease = "live", !.due = TRUE, !.reason = "DELETION_REQUIRED"]
              ELSE [row[r] EXCEPT !.state = "MANUAL_REVIEW", !.owner = a,
                       !.lease = "none", !.due = TRUE, !.reason = "UNKNOWN_UPLOAD"])

\* ... and so does a name that can no longer be decrypted.
ClaimUnreadable(r, a) ==
    /\ Eligible(r) /\ row[r].known
    /\ Put(r, [row[r] EXCEPT !.state = "MANUAL_REVIEW", !.owner = a,
                    !.lease = "none", !.due = TRUE, !.reason = "UNREADABLE_RESOURCE"])

Reclaim(i) ==
    /\ pc[i] = "reclaim"
    /\ Claim(target[i], i) /\ Goto(i, "deleting")
    /\ UNCHANGED <<provider, target, journal, passes, faults>>

\* Mutant of ReclaimLost: another pass took the row; the deletion is its own.
ReclaimLostQuietly(i) ==
    /\ pc[i] = "reclaim" /\ ~Eligible(target[i])
    /\ Drop(i, target[i]) /\ Goto(i, "cleanup")
    /\ UNCHANGED <<table, provider, target, named, outcome, passes, faults>>

\* Another pass took the row, or its name cannot be read.
ReclaimLost(i) ==
    /\ pc[i] = "reclaim"
    /\ \/ ~Eligible(target[i]) /\ UNCHANGED <<table, remote, faults>>
       \/ ClaimUnreadable(target[i], i) /\ Fault /\ UNCHANGED remote
       \/ Fault /\ DeleteLocally(i, target[i]) /\ UNCHANGED table
    /\ Drop(i, target[i])
    /\ outcome' = [outcome EXCEPT ![i] = "failed"]
    /\ Goto(i, "cleanup")
    /\ UNCHANGED <<inflight, target, named, passes>>

\* Everything is deleted, or something is not: only the former is a success.
Finish(i) ==
    /\ pc[i] = "cleanup" /\ held[i] = {}
    /\ outcome' = [outcome EXCEPT ![i] = IF @ = "answered" THEN "succeeded" ELSE "failed"]
    /\ named' = [named EXCEPT ![i] = {}]
    /\ target' = [target EXCEPT ![i] = Nobody]
    /\ Goto(i, "done")
    /\ UNCHANGED <<table, provider, held, passes, faults>>

-----------------------------------------------------------------------------
(* Deleting a claimed resource: the journal and the recovery passes *)

\* The actor leaves its record: the journal drops it, a pass goes on.
Done(a, clean) ==
    \/ /\ a \in Invocation
       /\ held' = [held EXCEPT ![a] = @ \ {target[a]}]
       /\ outcome' = [outcome EXCEPT ![a] = IF clean THEN @ ELSE "failed"]
       /\ Goto(a, "cleanup")
    \/ /\ a \in Pass
       /\ Goto(a, "scan")
       /\ UNCHANGED <<held, outcome>>

\* 200, 204 and 404 confirm the deletion.
DeleteRemote(a) ==
    /\ pc[a] = "deleting" /\ target[a] \notin Stuck
    /\ remote' = remote \ {target[a]}
    /\ Goto(a, "confirm")
    /\ UNCHANGED <<table, inflight, target, journal, passes, faults>>

\* Mutant of DeleteUnconfirmed: any answer counts as a deletion.
DeleteAssumed(a) ==
    /\ pc[a] = "deleting"
    /\ \/ target[a] \in Stuck /\ UNCHANGED <<remote, faults>>
       \/ target[a] \notin Stuck /\ Fault
          /\ remote' \in {remote, remote \ {target[a]}}
    /\ Goto(a, "confirm")
    /\ UNCHANGED <<table, inflight, target, journal, passes>>

\* A refusal, or an answer that is lost after the provider acted on it.
DeleteUnconfirmed(a) ==
    /\ pc[a] = "deleting"
    /\ \/ target[a] \in Stuck /\ UNCHANGED <<remote, faults>>
       \/ target[a] \notin Stuck /\ Fault
          /\ remote' \in {remote, remote \ {target[a]}}
    /\ Goto(a, "retry")
    /\ UNCHANGED <<table, inflight, target, journal, passes>>

MarkDeleted(a) ==
    /\ pc[a] = "confirm"
    /\ Owned(target[a], a, {"DELETE_PENDING"}) /\ row[target[a]].known
    /\ Put(target[a], [row[target[a]] EXCEPT !.state = "DELETED", !.known = FALSE,
              !.reason = "DELETION_CONFIRMED", !.lease = "none", !.due = FALSE])
    /\ Done(a, TRUE)
    /\ UNCHANGED <<provider, target, named, passes, faults>>

MarkDeletedRefused(a) ==
    /\ pc[a] = "confirm"
    /\ Refused(Owned(target[a], a, {"DELETE_PENDING"}))
    /\ Goto(a, "retry")
    /\ UNCHANGED <<table, provider, target, journal, passes>>

MarkRetry(a) ==
    /\ pc[a] = "retry"
    /\ Owned(target[a], a, {"DELETE_PENDING"})
    /\ Put(target[a], [row[target[a]] EXCEPT !.reason = "DELETE_FAILED",
              !.lease = "none", !.due = FALSE])
    /\ Done(a, FALSE)
    /\ UNCHANGED <<provider, target, named, passes, faults>>

\* The claim stays in the table and runs out with its lease.
MarkRetryRefused(a) ==
    /\ pc[a] = "retry"
    /\ Refused(Owned(target[a], a, {"DELETE_PENDING"}))
    /\ Done(a, FALSE)
    /\ UNCHANGED <<table, provider, target, named, passes>>

-----------------------------------------------------------------------------
(* MediaCleanupService.recover *)

\* Due records of the configured credentials, and every unknown upload.
Candidates ==
    {r \in Record : Eligible(r) /\ (~row[r].known \/ row[r].account \in Configured)}

Scan(w) ==
    /\ pc[w] = "idle" /\ Candidates # {}
    /\ listing' = [listing EXCEPT ![w] =
         [todo |-> Candidates, known |-> {r \in Candidates : row[r].known},
          older |-> older]]
    /\ Goto(w, "scan")
    /\ UNCHANGED <<table, provider, target, journal, attempted, faults>>

\* Mutant of NextOf: candidates are visited in no particular order.
AnyOf(w, r) == r \in listing[w].todo

\* Least recently updated first, as the pass read them.
NextOf(w, r) ==
    /\ r \in listing[w].todo
    /\ \A s \in listing[w].todo \ {r} : <<s, r>> \notin listing[w].older

Visit(w, r) ==
    /\ pc[w] = "scan" /\ attempted[w] < BatchSize /\ NextOf(w, r)
    /\ listing' = [listing EXCEPT ![w].todo = @ \ {r}]

\* Nothing is deleted for a candidate that was read as unknown.
ClassifyUnknown(w, r) ==
    /\ Visit(w, r) /\ r \notin listing[w].known
    /\ (Claim(r, w) \/ (~Eligible(r) /\ UNCHANGED table))
    /\ UNCHANGED <<provider, pc, target, journal, attempted, faults>>

ClaimKnown(w, r) ==
    /\ Visit(w, r) /\ r \in listing[w].known
    /\ row[r].known /\ Claim(r, w)
    /\ target' = [target EXCEPT ![w] = r]
    /\ attempted' = [attempted EXCEPT ![w] = @ + 1]
    /\ Goto(w, "deleting")
    /\ UNCHANGED <<provider, journal, faults>>

\* It was claimed by someone else, or cannot be read any more.
SkipCandidate(w, r) ==
    /\ Visit(w, r)
    /\ \/ r \in listing[w].known /\ ~Eligible(r) /\ UNCHANGED <<table, faults>>
       \/ ClaimUnreadable(r, w) /\ Fault
       \/ Fault /\ UNCHANGED table
    /\ UNCHANGED <<provider, pc, target, journal, attempted>>

EndPass(w) ==
    /\ pc[w] = "scan" /\ (listing[w].todo = {} \/ attempted[w] >= BatchSize)
    /\ listing' = [listing EXCEPT ![w] = NoListing]
    /\ attempted' = [attempted EXCEPT ![w] = 0]
    /\ target' = [target EXCEPT ![w] = Nobody]
    /\ Goto(w, "idle")
    /\ UNCHANGED <<table, provider, journal, faults>>

-----------------------------------------------------------------------------
(* The owner, the provider, the clock and the process *)

ListPublic ==
    /\ reviewed' = {r \in Record : row[r].state = "MANUAL_REVIEW"}
    /\ UNCHANGED <<row, older, provider, pc, target, journal, passes, faults>>

\* The owner verified the provider and acknowledges an unchanged row.
ResolveManual(r) ==
    /\ r \in reviewed
    /\ row[r].state = "MANUAL_REVIEW" /\ ~row[r].known
    /\ Put(r, [row[r] EXCEPT !.state = "DELETED", !.reason = "MANUALLY_REVIEWED",
                             !.lease = "none", !.due = FALSE])
    /\ UNCHANGED <<provider, pc, target, journal, passes, faults>>

\* The bytes arrive, even after the client gave up, or never do.
ProviderStores(r) ==
    /\ r \in inflight
    /\ inflight' = inflight \ {r}
    /\ remote' \in {remote, remote \cup {r}}
    /\ UNCHANGED <<table, pc, target, journal, passes, faults>>

AtWork(r) ==
    \/ \E i \in Invocation : r \in held[i]
    \/ \E w \in Pass : target[w] = r

Expire(r) ==
    /\ row[r].lease = "live"
    /\ row' = [row EXCEPT ![r].lease = "expired"]
    /\ UNCHANGED <<older, reviewed, provider, pc, target, journal, passes>>

\* The lease of an owner that is gone runs out ...
LeaseExpires(r) == Expire(r) /\ ~AtWork(r) /\ UNCHANGED faults

\* ... and so does that of one that was suspended past it.
LeaseOutlived(r) == Expire(r) /\ AtWork(r) /\ Fault

BecomesDue(r) ==
    /\ row[r].state = "DELETE_PENDING" /\ ~row[r].due
    /\ row' = [row EXCEPT ![r].due = TRUE]
    /\ UNCHANGED <<older, reviewed, provider, pc, target, journal, passes, faults>>

\* The backend dies; what is in flight stays in flight.
Crash ==
    /\ crashes < MaxCrashes /\ crashes' = crashes + 1
    /\ \E a \in Actor : pc[a] \notin {"idle", "done"}
    /\ pc' = [a \in Actor |-> IF pc[a] = "idle" \/ a \in Pass THEN "idle" ELSE "done"]
    /\ outcome' = [i \in Invocation |->
                     IF pc[i] \in {"idle", "done"} THEN outcome[i] ELSE "failed"]
    /\ listing' = [w \in Pass |-> NoListing]
    /\ attempted' = [w \in Pass |-> 0]
    /\ held' = [i \in Invocation |-> {}] /\ named' = [i \in Invocation |-> {}]
    /\ target' = [a \in Actor |-> Nobody]
    /\ UNCHANGED <<table, provider, failures>>

-----------------------------------------------------------------------------
InvocationStep(i) ==
    \/ Complete(i)
    \/ \E r \in Record : BeginUpload(i, r) \/ Relinquish(i, r)
                         \/ RelinquishRefused(i, r)
    \/ BeginRefused(i) \/ StartTransfer(i) \/ AbandonBeforeUpload(i)
    \/ ReceiveName(i) \/ LoseTransfer(i)
    \/ RegisterResource(i) \/ RegisterRefused(i)
    \/ Post(i) \/ Accept(i) \/ AbortWork(i)
    \/ Reclaim(i) \/ ReclaimLost(i) \/ Finish(i)

PassStep(w) ==
    \/ Scan(w) \/ EndPass(w)
    \/ \E r \in Record : ClassifyUnknown(w, r) \/ ClaimKnown(w, r)
                         \/ SkipCandidate(w, r)

DeletionStep(a) ==
    \/ DeleteRemote(a) \/ DeleteUnconfirmed(a)
    \/ MarkDeleted(a) \/ MarkDeletedRefused(a)
    \/ MarkRetry(a) \/ MarkRetryRefused(a)

Environment ==
    \/ ListPublic
    \/ \E r \in Record : \/ ResolveManual(r) \/ ProviderStores(r)
                          \/ LeaseExpires(r) \/ LeaseOutlived(r)
                          \/ BecomesDue(r)
    \/ Crash

Next ==
    \/ \E i \in Invocation : InvocationStep(i)
    \/ \E w \in Pass : PassStep(w)
    \/ \E a \in Actor : DeletionStep(a)
    \/ Environment

Spec == Init /\ [][Next]_vars

Fairness ==
    /\ \A i \in Invocation : WF_vars(InvocationStep(i))
    /\ \A w \in Pass : WF_vars(PassStep(w))
    /\ \A a \in Actor : WF_vars(DeletionStep(a))
    /\ \A r \in Record : WF_vars(LeaseExpires(r)) /\ WF_vars(BecomesDue(r))
                         /\ WF_vars(ProviderStores(r))

FairSpec == Spec /\ Fairness

-----------------------------------------------------------------------------
(* Properties *)

(* Every variable has its type; in particular a pass never attempts more
   deletions than its batch. *)
TypeOK ==
    /\ row \in [Record -> Row]
    /\ older \subseteq Record \X Record /\ reviewed \subseteq Record
    /\ remote \subseteq Record /\ inflight \subseteq Record
    /\ pc \in [Actor -> Pc] /\ target \in [Actor -> Record \cup {Nobody}]
    /\ held \in [Invocation -> SUBSET Record]
    /\ named \in [Invocation -> SUBSET Record]
    /\ outcome \in [Invocation -> {"running", "answered", "failed", "succeeded"}]
    /\ listing \in [Pass -> [todo : SUBSET Record, known : SUBSET Record,
                              older : SUBSET (Record \X Record)]]
    /\ attempted \in [Pass -> 0..BatchSize]
    /\ failures \in 0..MaxFailures /\ crashes \in 0..MaxCrashes

(* Everything the provider stores or may still receive is accounted for by a
   row that is open, or that the owner closed: no crash, lost answer or race
   between passes leaves media nobody knows of. *)
StoredMeansTracked ==
    \A r \in remote \cup inflight :
        \/ row[r].state \in Active \cup {"DELETE_PENDING", "MANUAL_REVIEW"}
        \/ row[r].reason = "MANUALLY_REVIEWED"

(* One credential never carries the unresolved media of two invocations. *)
OneUploaderPerCredential ==
    \A r, s \in Record :
        /\ row[r].account = row[s].account /\ row[r].account # Nobody
        /\ row[r].state # "DELETED" /\ row[s].state # "DELETED"
        => row[r].by = row[s].by

(* An invocation that reports success has deleted every image it sent. *)
SuccessMeansDeleted ==
    \A i \in Invocation : outcome[i] = "succeeded" =>
        \A r \in Record : row[r].by = i =>
            row[r].state = "DELETED" /\ r \notin remote

(* An answer is taken only if all media it was computed from was still stored
   and nobody else had taken it for deletion. *)
TakesAnswerWithMedia ==
    \A i \in Invocation :
        outcome[i] # "answered" /\ outcome'[i] = "answered" =>
            held[i] \subseteq remote
AnswerUsesStoredMedia == [][TakesAnswerWithMedia]_vars

(* Media with a known name and a configured credential is eventually deleted
   or handed to the owner, whatever other record the provider refuses. *)
NamedMediaIsResolved ==
    \A r \in Record \ Stuck :
        (row[r].known /\ row[r].account \in Configured)
            ~> row[r].state \in {"DELETED", "MANUAL_REVIEW"}
=============================================================================
