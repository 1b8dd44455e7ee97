------------------------ MODULE RestoreHistoryProofs ------------------------
(***************************************************************************)
(* Proofs about RestoreHistory.  Every transaction of the runtime leaves   *)
(* `latest` equal to the history it leaves in the database, so what can go *)
(* wrong goes wrong in Restore: the first theorems follow what HistoryAdmits *)
(* promises of a candidate through every later write, backup and restore.  *)
(* The last one goes the other way: what the writers keep of the rows they *)
(* link is enough for HistoryAdmits to accept the workspace as it stands.  *)
(***************************************************************************)
EXTENDS RestoreHistory, FiniteSetTheorems, TLAPS

(***************************************************************************)
(* Tables and their rows.                                                  *)
(***************************************************************************)
LEMMA RootsAreTables == Roots \subseteq Tables
  BY DEF Tables

LEMMA OtherTables ==
    /\ "application_answers" \in Tables /\ "application_field_bindings" \in Tables
    /\ "applications" \in Tables /\ "candidate_profiles" \in Tables
    /\ "candidate_claims" \in Tables /\ "document_versions" \in Tables
    /\ "documents" \in Tables /\ "job_readiness_reviews" \in Tables
    /\ "outbound_drafts" \in Tables /\ "workflow_checkpoints" \in Tables
    /\ "communication_follow_ups" \in Tables
<1>1. /\ <<"application_answers", "application_id", "applications">> \in References
      /\ <<"application_field_bindings", "application_id", "applications">> \in References
      /\ <<"candidate_claims", "profile_id", "candidate_profiles">> \in References
      /\ <<"document_versions", "document_id", "documents">> \in References
      /\ <<"job_readiness_reviews", "application_id", "applications">> \in References
      /\ <<"mail_send_claims", "id", "outbound_drafts">> \in References
  BY DEF References, AnswerReferences, CandidateReferences, DocumentReferences, MailReferences
<1>2. \A r \in References : r[1] \in Tables /\ r[3] \in Tables
  BY DEF Tables
<1>3. "workflow_checkpoints" \in Tables /\ "communication_follow_ups" \in Tables
  BY DEF Tables
<1>4. QED
  BY <1>1, <1>2, <1>3

LEMMA RecordedTables ==
    /\ Recorded \subseteq Tables /\ ExactSets \subseteq Tables
    /\ "communication_mutation_audits" \in Tables /\ "mail_send_claims" \in Tables
    /\ "calendar_mutation_claims" \in Tables /\ "calendar_mutation_plans" \in Tables
    /\ "application_field_executions" \in Tables /\ "submitted_document_evidence" \in Tables
    /\ "model_invocations" \in Tables /\ "ai_media_cleanup" \in Tables
    /\ "oauth_credentials" \in Tables /\ "oauth_authorization_sessions" \in Tables
    /\ "communication_configurations" \in Tables /\ "browser_sessions" \in Tables
    /\ "supervised_portal_runs" \in Tables /\ "challenge_sessions" \in Tables
    /\ "provider_calendar_events" \in Tables
  BY RootsAreTables DEF Roots, Recorded, ExactSets

(***************************************************************************)
(* A transaction that leaves typed rows leaves a typed database, and the   *)
(* history it leaves is the latest one.                                    *)
(***************************************************************************)
LEMMA Committing ==
    ASSUME TypeOK, NEW new, Commit(new),
           \A t \in Tables : t \in DOMAIN new => new[t] \subseteq Row[t],
           "job_readiness_reviews" \in DOMAIN new => IsFiniteSet(new["job_readiness_reviews"])
    PROVE  /\ Typed(db') /\ writes' \in Nat /\ latest' = History(db')
           /\ db' = Rewritten(db, new)
           /\ UNCHANGED <<desk, revision, backups>>
<1>1. /\ db' = Rewritten(db, new) /\ latest' = History(db') /\ writes' = writes + 1
      /\ UNCHANGED <<desk, revision, backups>>
  BY DEF Commit
<1>2. writes' \in Nat
  BY <1>1 DEF TypeOK
<1>3. Typed(db')
  BY <1>1, OtherTables DEF TypeOK, Typed, Rewritten
<1>4. QED
  BY <1>1, <1>2, <1>3

(***************************************************************************)
(* What every transaction of the runtime does: it keeps the attempts it    *)
(* finds, and calls a provider only for a resource without an attempt, on  *)
(* an attempt it records.                                                  *)
(***************************************************************************)
Audits(d) == d["communication_mutation_audits"]
Attempt(a, c) == a.id = c.audit /\ a.kind = c.kind /\ a.resource_id = c.resource
AuditsKept ==
    \A a \in Audits(db) : \E k \in Audits(db') :
        k.id = a.id /\ k.kind = a.kind /\ k.resource_id = a.resource_id
CallRow == [kind : {"SEND_MESSAGE"} \cup CalendarKinds, resource : Ids, audit : Ids]
NewCall(c) ==
    /\ c \in CallRow /\ calls' = calls \cup {c}
    /\ \E a \in Audits(db') : Attempt(a, c)
    /\ \A a \in Audits(db) : ~(a.kind = c.kind /\ a.resource_id = c.resource)
RuntimeStep ==
    /\ Typed(db') /\ files' \in Files /\ writes' \in Nat
    /\ latest' = History(db')
    /\ UNCHANGED <<desk, backups>> /\ revision' \in {"modern", "legacy"}
    /\ AuditsKept
    /\ calls' = calls \/ \E c \in CallRow : NewCall(c)

LEMMA Writing ==
    ASSUME TypeOK, NEW new, Write(new), "communication_mutation_audits" \notin DOMAIN new,
           \A t \in Tables : t \in DOMAIN new => new[t] \subseteq Row[t],
           "job_readiness_reviews" \in DOMAIN new => IsFiniteSet(new["job_readiness_reviews"])
    PROVE  RuntimeStep
<1>1. Commit(new) /\ UNCHANGED <<files, calls>>
  BY DEF Write, NoCall
<1>2. /\ Typed(db') /\ writes' \in Nat /\ latest' = History(db')
      /\ db' = Rewritten(db, new)
      /\ UNCHANGED <<desk, revision, backups>>
  BY <1>1, Committing
<1>3. Audits(db') = Audits(db)
  BY <1>2, RecordedTables DEF Audits, Rewritten
<1>4. QED
  BY <1>1, <1>2, <1>3 DEF RuntimeStep, AuditsKept, TypeOK

LEMMA Inserting ==
    ASSUME TypeOK, NEW t \in Tables, t # "communication_mutation_audits",
           NEW x \in Row[t], Write(Insert(t, x))
    PROVE  RuntimeStep
<1>1. "communication_mutation_audits" \notin DOMAIN Insert(t, x)
  BY DEF Insert
<1>2. \A u \in Tables : u \in DOMAIN Insert(t, x) => Insert(t, x)[u] \subseteq Row[u]
  BY DEF Insert, TypeOK, Typed
<1>3. "job_readiness_reviews" \in DOMAIN Insert(t, x)
          => IsFiniteSet(Insert(t, x)["job_readiness_reviews"])
  BY FS_AddElement DEF Insert, TypeOK, Typed
<1>4. QED
  BY <1>1, <1>2, <1>3, Writing

LEMMA Replacing ==
    ASSUME TypeOK, NEW t \in Tables, t # "communication_mutation_audits",
           t # "job_readiness_reviews",
           NEW old, NEW x \in Row[t], Write(Replace(t, old, x))
    PROVE  RuntimeStep
<1>1. "communication_mutation_audits" \notin DOMAIN Replace(t, old, x)
  BY DEF Replace
<1>2. \A u \in Tables : u \in DOMAIN Replace(t, old, x) => Replace(t, old, x)[u] \subseteq Row[u]
  BY DEF Replace, TypeOK, Typed
<1>3. "job_readiness_reviews" \notin DOMAIN Replace(t, old, x)
  BY DEF Replace
<1>4. QED
  BY <1>1, <1>2, <1>3, Writing

(***************************************************************************)
(* Mail and calendar.                                                      *)
(***************************************************************************)
LEMMA RowsOf ==
    ASSUME TypeOK, NEW t \in Tables, NEW x \in db[t]
    PROVE  x \in Row[t]
  BY DEF TypeOK, Typed

LEMMA FreshIds == \A t : Fresh(t) \subseteq Ids
  BY DEF Fresh

LEMMA CreateDraftStep ==
    ASSUME TypeOK, NEW i \in Ids, NEW w \in Workflows, NEW versions \in SUBSET Profiles,
           CreateDraft(i, w, versions)
    PROVE  RuntimeStep
<1> DEFINE x == [id |-> i, workflow_id |-> w, document_version_ids |-> versions]
<1>1. Write(Insert("outbound_drafts", x))
  BY DEF CreateDraft
<1>2. x \in Row["outbound_drafts"]
  BY DEF Row
<1>3. QED
  BY <1>1, <1>2, OtherTables, Inserting

LEMMA PlanCalendarStep ==
    ASSUME TypeOK, NEW i \in Ids, NEW w \in Workflows, PlanCalendar(i, w)
    PROVE  RuntimeStep
<1> DEFINE x == [id |-> i, workflow_id |-> w, kind |-> "CREATE_CALENDAR_EVENT"]
<1>1. Write(Insert("calendar_mutation_plans", x))
  BY DEF PlanCalendar
<1>2. x \in Row["calendar_mutation_plans"]
  BY DEF Row, CalendarKinds
<1>3. QED
  BY <1>1, <1>2, RecordedTables, Inserting

LEMMA ScheduleFollowUpStep ==
    ASSUME TypeOK, NEW i \in Ids, NEW w \in Workflows, ScheduleFollowUp(i, w)
    PROVE  RuntimeStep
<1> DEFINE x == [id |-> i, workflow_id |-> w, dedupe_key |-> w]
<1>1. Write(Insert("communication_follow_ups", x))
  BY DEF ScheduleFollowUp
<1>2. x \in Row["communication_follow_ups"]
  BY DEF Row
<1>3. QED
  BY <1>1, <1>2, OtherTables, Inserting

\* The reservation of an attempt and its claim are one transaction.
LEMMA Reserving ==
    ASSUME TypeOK, NEW i \in Ids, NEW r \in Ids, NEW k \in {"SEND_MESSAGE"} \cup CalendarKinds,
           NEW claims \in {"mail_send_claims", "calendar_mutation_claims"},
           NEW new, DOMAIN new = {"communication_mutation_audits", claims},
           new["communication_mutation_audits"] = Attempted(i, r, k),
           new[claims] = Claimed(i, r, claims),
           Commit(new), Call(i, r, k),
           \A a \in Audits(db) : ~(a.kind = k /\ a.resource_id = r)
    PROVE  RuntimeStep
<1> DEFINE c == [kind |-> k, resource |-> r, audit |-> i]
           a == [id |-> i, kind |-> k, resource_id |-> r, status |-> "PLANNED", at |-> Now]
<1>1. a \in Row["communication_mutation_audits"]
  BY DEF Row, Now, TypeOK
<1>2. [id |-> r, audit_id |-> i] \in Row[claims]
  <2>1. Row["mail_send_claims"] = Claim /\ Row["calendar_mutation_claims"] = Claim
    BY DEF Row
  <2>2. QED
    BY <2>1 DEF Claim
<1>3. \A t \in Tables : t \in DOMAIN new => new[t] \subseteq Row[t]
  BY <1>1, <1>2, RecordedTables DEF Attempted, Claimed, TypeOK, Typed
<1>4. /\ Typed(db') /\ writes' \in Nat /\ latest' = History(db')
      /\ db' = Rewritten(db, new)
      /\ UNCHANGED <<desk, revision, backups>>
  BY <1>3, Committing
<1>5. Audits(db') = Audits(db) \cup {a}
  BY <1>4, RecordedTables DEF Audits, Rewritten, Attempted
<1>6. c \in CallRow /\ calls' = calls \cup {c} /\ UNCHANGED files
  BY DEF CallRow, Call
<1>7. NewCall(c)
  <2>1. Attempt(a, c) /\ a \in Audits(db')
    BY <1>5 DEF Attempt
  <2>2. \A o \in Audits(db) : ~(o.kind = c.kind /\ o.resource_id = c.resource)
    OBVIOUS
  <2>3. QED
    BY <1>6, <2>1, <2>2 DEF NewCall
<1>8. QED
  BY <1>4, <1>5, <1>6, <1>7 DEF RuntimeStep, AuditsKept, TypeOK

LEMMA ClaimMailStep ==
    ASSUME TypeOK, NEW i \in Ids, NEW d \in db["outbound_drafts"], ClaimMail(i, d)
    PROVE  RuntimeStep
<1>1. d.id \in Ids
  BY RowsOf, OtherTables DEF Row
<1>2. \A a \in Audits(db) : ~(a.kind = "SEND_MESSAGE" /\ a.resource_id = d.id)
  BY DEF ClaimMail, MailAttempted, MailAttempts, Audits
<1>3. /\ Commit([communication_mutation_audits |-> Attempted(i, d.id, "SEND_MESSAGE"),
                 mail_send_claims |-> Claimed(i, d.id, "mail_send_claims")])
      /\ Call(i, d.id, "SEND_MESSAGE")
  BY DEF ClaimMail
<1>4. QED
  BY <1>1, <1>2, <1>3, Reserving

LEMMA ClaimCalendarStep ==
    ASSUME TypeOK, NEW i \in Ids, NEW p \in db["calendar_mutation_plans"], ClaimCalendar(i, p)
    PROVE  RuntimeStep
<1>1. p.id \in Ids /\ p.kind \in CalendarKinds
  BY RowsOf, RecordedTables DEF Row
<1>2. \A a \in Audits(db) : ~(a.kind = p.kind /\ a.resource_id = p.id)
  BY <1>1 DEF ClaimCalendar, CalendarAttempted, Attempts, Audits
<1>3. /\ Commit([communication_mutation_audits |-> Attempted(i, p.id, p.kind),
                 calendar_mutation_claims |-> Claimed(i, p.id, "calendar_mutation_claims")])
      /\ Call(i, p.id, p.kind)
  BY DEF ClaimCalendar
<1>4. QED
  BY <1>1, <1>2, <1>3, Reserving

LEMMA FinishAttemptStep ==
    ASSUME TypeOK, NEW a \in db["communication_mutation_audits"],
           NEW status \in {"CONFIRMED", "UNCERTAIN"}, FinishAttempt(a, status)
    PROVE  RuntimeStep
<1> DEFINE x == [a EXCEPT !.status = status, !.at = Now]
           new == Replace("communication_mutation_audits", a, x)
<1>1. Commit(new) /\ UNCHANGED <<files, calls>>
  BY DEF FinishAttempt, Write, NoCall
<1>2. a \in Row["communication_mutation_audits"]
  BY RowsOf, RecordedTables
<1>3. /\ x \in Row["communication_mutation_audits"]
      /\ x.id = a.id /\ x.kind = a.kind /\ x.resource_id = a.resource_id
  <2> DEFINE K == {"SEND_MESSAGE"} \cup CalendarKinds
             S == [id : Ids, kind : K, resource_id : Ids,
                   status : {"PLANNED", "CONFIRMED", "UNCERTAIN"}, at : Nat]
  <2>1. Row["communication_mutation_audits"] = S
    BY DEF Row
  <2>2. Now \in Nat
    BY DEF Now, TypeOK
  <2> HIDE DEF K
  <2>3. a \in S
    BY <1>2, <2>1
  <2>4. x \in S /\ x.id = a.id /\ x.kind = a.kind /\ x.resource_id = a.resource_id
    BY <2>2, <2>3
  <2>5. QED
    BY <2>1, <2>4
<1>4. \A t \in Tables : t \in DOMAIN new => new[t] \subseteq Row[t]
  BY <1>3, RecordedTables DEF Replace, TypeOK, Typed
<1> "job_readiness_reviews" \notin DOMAIN new
  BY DEF Replace
<1>5. /\ Typed(db') /\ writes' \in Nat /\ latest' = History(db')
      /\ db' = Rewritten(db, new)
      /\ UNCHANGED <<desk, revision, backups>>
  BY <1>1, <1>4, Committing
<1>6. Audits(db') = (Audits(db) \ {a}) \cup {x}
  BY <1>5, RecordedTables DEF Audits, Rewritten, Replace
<1>7. QED
  BY <1>1, <1>3, <1>5, <1>6 DEF RuntimeStep, AuditsKept, TypeOK

(***************************************************************************)
(* Browser sessions, portal runs, challenges and field executions.         *)
(***************************************************************************)
LEMMA OpenBrowserStep ==
    ASSUME TypeOK, NEW i \in Ids, NEW w \in Workflows, OpenBrowser(i, w)
    PROVE  RuntimeStep
<1>1. Write(Insert("browser_sessions", Session(i, w)))
  BY DEF OpenBrowser
<1>2. Session(i, w) \in Row["browser_sessions"]
  BY DEF Row, Session
<1>3. QED
  BY <1>1, <1>2, RecordedTables, Inserting

LEMMA MoveBrowserStep ==
    ASSUME TypeOK, NEW b \in db["browser_sessions"],
           NEW state \in {"USER_TAKEOVER", "STOPPED"}, MoveBrowser(b, state)
    PROVE  RuntimeStep
<1> DEFINE x == [b EXCEPT !.state = state]
           S == [id : Ids, workflow_id : Workflows, state : {"ACTIVE", "USER_TAKEOVER", "STOPPED"}]
<1>1. Row["browser_sessions"] = S
  BY DEF Row
<1>2. b \in S
  BY <1>1, RowsOf, RecordedTables
<1>3. x \in S
  BY <1>2
<1>4. Write(Replace("browser_sessions", b, x))
  BY DEF MoveBrowser
<1>5. QED
  BY <1>1, <1>3, <1>4, RecordedTables, Replacing

LEMMA StartRunStep ==
    ASSUME TypeOK, NEW i \in Ids, NEW j \in Ids, NEW w \in Workflows,
           NEW state \in {"AWAITING_USER", "INTERVENTION_REQUIRED"}, StartRun(i, j, w, state)
    PROVE  RuntimeStep
<1> DEFINE s == [Session(j, w) EXCEPT !.state = "USER_TAKEOVER"]
           r == [id |-> i, workflow_id |-> w, browser_session_id |-> j, state |-> state]
           new == [browser_sessions |-> db["browser_sessions"] \cup {s},
                   supervised_portal_runs |-> db["supervised_portal_runs"] \cup {r}]
<1>1. Write(new)
  BY DEF StartRun
<1>2. s = [id |-> j, workflow_id |-> w, state |-> "USER_TAKEOVER"]
  BY DEF Session
<1>3. s \in Row["browser_sessions"] /\ r \in Row["supervised_portal_runs"]
  BY <1>2 DEF Row
<1>4. \A t \in Tables : t \in DOMAIN new => new[t] \subseteq Row[t]
  BY <1>3, RecordedTables DEF TypeOK, Typed
<1>5. QED
  BY <1>1, <1>4, Writing

LEMMA DetectChallengeStep ==
    ASSUME TypeOK, NEW i \in Ids, NEW w \in Workflows, NEW b \in db["browser_sessions"],
           DetectChallenge(i, w, b)
    PROVE  RuntimeStep
<1> DEFINE x == [id |-> i, workflow_id |-> w, browser_session_id |-> b.id,
                 status |-> "IN_PROGRESS"]
<1>1. Write(Insert("challenge_sessions", x))
  BY DEF DetectChallenge
<1>2. b.id \in Ids
  BY RowsOf, RecordedTables DEF Row
<1>3. x \in Row["challenge_sessions"]
  BY <1>2 DEF Row
<1>4. QED
  BY <1>1, <1>3, RecordedTables, Inserting

LEMMA ReviseAnswerStep ==
    ASSUME TypeOK, NEW a \in db["application_answers"], ReviseAnswer(a)
    PROVE  RuntimeStep
<1> DEFINE x == [a EXCEPT !.revision = @ + 1]
           S == [id : Profiles, application_id : Profiles, profile_id : Profiles,
                 revision : Nat, evidence_claim_ids : SUBSET Profiles]
<1>1. Row["application_answers"] = S
  BY DEF Row
<1>2. a \in S
  BY <1>1, RowsOf, OtherTables
<1>3. x \in S
  BY <1>2
<1>4. Write(Replace("application_answers", a, x))
  BY DEF ReviseAnswer
<1>5. QED
  BY <1>1, <1>3, <1>4, OtherTables, Replacing

LEMMA BindFieldStep ==
    ASSUME TypeOK, NEW i \in Ids, NEW a \in db["application_answers"], BindField(i, a)
    PROVE  RuntimeStep
<1> DEFINE x == [id |-> i, application_id |-> a.application_id,
                 application_answer_id |-> a.id, answer_revision |-> a.revision]
<1>1. Write(Insert("application_field_bindings", x))
  BY DEF BindField
<1>2. a.id \in Profiles /\ a.application_id \in Profiles /\ a.revision \in Nat
  BY RowsOf, OtherTables DEF Row
<1>3. x \in Row["application_field_bindings"]
  BY <1>2 DEF Row
<1>4. QED
  BY <1>1, <1>3, OtherTables, Inserting

LEMMA ExecuteFieldStep ==
    ASSUME TypeOK, NEW i \in Ids, NEW f \in db["application_field_bindings"],
           NEW r \in db["supervised_portal_runs"], ExecuteField(i, f, r)
    PROVE  RuntimeStep
<1> DEFINE x == [id |-> i, binding_id |-> f.id, application_id |-> f.application_id,
                 application_answer_id |-> f.application_answer_id,
                 answer_revision |-> f.answer_revision,
                 supervised_run_id |-> r.id, browser_session_id |-> r.browser_session_id]
<1>1. Write(Insert("application_field_executions", x))
  BY DEF ExecuteField
<1>2. /\ f.id \in Ids /\ f.application_id \in Profiles /\ f.application_answer_id \in Profiles
      /\ f.answer_revision \in Nat
  BY RowsOf, OtherTables DEF Row
<1>3. r.id \in Ids /\ r.browser_session_id \in Ids
  BY RowsOf, RecordedTables DEF Row
<1>4. x \in Row["application_field_executions"]
  BY <1>2, <1>3 DEF Row
<1>5. QED
  BY <1>1, <1>4, RecordedTables, Inserting

(***************************************************************************)
(* Authority: each of these rewrites one table.                            *)
(***************************************************************************)
LEMMA Rewriting ==
    ASSUME TypeOK, NEW t \in Tables, t # "communication_mutation_audits",
           t # "job_readiness_reviews", NEW rows \in SUBSET Row[t], NEW new, DOMAIN new = {t}, new[t] = rows, Write(new)
    PROVE  RuntimeStep
  BY Writing

LEMMA StartOAuthStep ==
    ASSUME TypeOK, NEW i \in Ids, StartOAuth(i)
    PROVE  RuntimeStep
<1> DEFINE x == [id |-> i, consumed |-> FALSE]
           new == [oauth_authorization_sessions |-> {x}]
<1>1. Write(new)
  BY DEF StartOAuth
<1>2. x \in Row["oauth_authorization_sessions"]
  BY DEF Row
<1>3. QED
  BY <1>1, <1>2, RecordedTables, Rewriting

LEMMA ConsumeOAuthStep ==
    ASSUME TypeOK, NEW s \in db["oauth_authorization_sessions"], ConsumeOAuth(s)
    PROVE  RuntimeStep
<1> DEFINE x == [s EXCEPT !.consumed = TRUE]
           S == [id : Ids, consumed : BOOLEAN]
           new == [oauth_authorization_sessions |->
                      (db["oauth_authorization_sessions"] \ {s}) \cup {x}]
<1>1. Row["oauth_authorization_sessions"] = S
  BY DEF Row
<1>2. db["oauth_authorization_sessions"] \subseteq S
  BY <1>1, RowsOf, RecordedTables
<1>3. x \in S
  BY <1>2
<1>4. Write(new)
  BY DEF ConsumeOAuth
<1>5. QED
  BY <1>1, <1>2, <1>3, <1>4, RecordedTables, Rewriting

LEMMA Editions ==
    ASSUME TypeOK
    PROVE  \A i \in Ids : [id |-> i, edition |-> Now] \in Edition
  BY DEF Edition, Now, TypeOK

LEMMA SaveTokensStep ==
    ASSUME TypeOK, NEW i \in Ids, SaveTokens(i)
    PROVE  RuntimeStep
<1> DEFINE new == [oauth_credentials |-> {[id |-> i, edition |-> Now]}]
<1>1. Write(new)
  BY DEF SaveTokens
<1>2. Row["oauth_credentials"] = Edition
  BY DEF Row
<1>3. QED
  BY <1>1, <1>2, Editions, RecordedTables, Rewriting

LEMMA DeleteTokensStep ==
    ASSUME TypeOK, DeleteTokens
    PROVE  RuntimeStep
<1>1. Write([oauth_credentials |-> {}])
  BY DEF DeleteTokens
<1>2. QED
  BY <1>1, RecordedTables, Rewriting

LEMMA SaveConfigurationStep ==
    ASSUME TypeOK, SaveConfiguration
    PROVE  RuntimeStep
<1> DEFINE x == [id |-> "active", edition |-> Now]
           new == [communication_configurations |-> {x}]
<1>1. Write(new)
  BY DEF SaveConfiguration
<1>2. x \in Row["communication_configurations"]
  BY DEF Row, Now, TypeOK
<1>3. QED
  BY <1>1, <1>2, RecordedTables, Rewriting

LEMMA DeleteConfigurationStep ==
    ASSUME TypeOK, DeleteConfiguration
    PROVE  RuntimeStep
<1>1. Write([communication_configurations |-> {}])
  BY DEF DeleteConfiguration
<1>2. QED
  BY <1>1, RecordedTables, Rewriting

LEMMA SyncCalendarStep ==
    ASSUME TypeOK, NEW events \in SUBSET Ids, SyncCalendar(events)
    PROVE  RuntimeStep
<1> DEFINE new == [provider_calendar_events |-> {[id |-> e, edition |-> Now] : e \in events}]
<1>1. Write(new)
  BY DEF SyncCalendar
<1>2. Row["provider_calendar_events"] = Edition
  BY DEF Row
<1>3. QED
  BY <1>1, <1>2, Editions, RecordedTables, Rewriting

(***************************************************************************)
(* Records and reviews.                                                    *)
(***************************************************************************)
LEMMA SaveCheckpointStep ==
    ASSUME TypeOK, NEW i \in Ids, NEW w \in Workflows, SaveCheckpoint(i, w)
    PROVE  RuntimeStep
<1> DEFINE x == [id |-> i, workflow_id |-> w]
<1>1. Write(Insert("workflow_checkpoints", x))
  BY DEF SaveCheckpoint
<1>2. x \in Row["workflow_checkpoints"]
  BY DEF Row
<1>3. QED
  BY <1>1, <1>2, OtherTables, Inserting

LEMMA IngestVersionStep ==
    ASSUME TypeOK, NEW i \in Ids, NEW d \in db["documents"], IngestVersion(i, d)
    PROVE  RuntimeStep
<1> DEFINE x == [id |-> i, document_id |-> d.id]
           new == Insert("document_versions", x)
<1>1. /\ Commit(new) /\ calls' = calls
      /\ files' = [files EXCEPT ![i] = "good"]
  BY DEF IngestVersion, NoCall
<1>2. d.id \in Profiles
  BY RowsOf, OtherTables DEF Row
<1>3. x \in Row["document_versions"]
  BY <1>2 DEF Row, Keys
<1>4. \A t \in Tables : t \in DOMAIN new => new[t] \subseteq Row[t]
  BY <1>3 DEF Insert, TypeOK, Typed
<1> "job_readiness_reviews" \notin DOMAIN new
  BY DEF Insert
<1>5. /\ Typed(db') /\ writes' \in Nat /\ latest' = History(db')
      /\ db' = Rewritten(db, new)
      /\ UNCHANGED <<desk, revision, backups>>
  BY <1>1, <1>4, Committing
<1>6. Audits(db') = Audits(db)
  BY <1>5, RecordedTables DEF Audits, Rewritten, Insert
<1>7. files' \in Files
  BY <1>1 DEF TypeOK, Files
<1>8. QED
  BY <1>1, <1>5, <1>6, <1>7 DEF RuntimeStep, AuditsKept, TypeOK

LEMMA SubmitEvidenceStep ==
    ASSUME TypeOK, NEW i \in Ids, NEW a \in db["applications"], NEW v \in db["document_versions"],
           SubmitEvidence(i, a, v)
    PROVE  RuntimeStep
<1> DEFINE x == [id |-> i, application_id |-> a.id, document_version_id |-> v.id]
<1>1. Write(Insert("submitted_document_evidence", x))
  BY DEF SubmitEvidence
<1>2. a.id \in Profiles /\ v.id \in Keys
  BY RowsOf, OtherTables DEF Row
<1>3. x \in Row["submitted_document_evidence"]
  BY <1>2 DEF Row
<1>4. QED
  BY <1>1, <1>3, RecordedTables, Inserting

LEMMA InvokeStep ==
    ASSUME TypeOK, NEW i \in Ids, NEW p \in Workflows, Invoke(i, p)
    PROVE  RuntimeStep
<1> DEFINE x == [id |-> i, profile_id |-> p]
<1>1. Write(Insert("model_invocations", x))
  BY DEF Invoke
<1>2. x \in Row["model_invocations"]
  BY DEF Row
<1>3. QED
  BY <1>1, <1>2, RecordedTables, Inserting

LEMMA OweMediaStep ==
    ASSUME TypeOK, NEW i \in Ids, OweMedia(i)
    PROVE  RuntimeStep
<1> DEFINE x == [id |-> i, state |-> "ACTIVE"]
<1>1. Write(Insert("ai_media_cleanup", x))
  BY DEF OweMedia
<1>2. x \in Row["ai_media_cleanup"]
  BY DEF Row
<1>3. QED
  BY <1>1, <1>2, RecordedTables, Inserting

LEMMA ConfirmDeletedStep ==
    ASSUME TypeOK, NEW o \in db["ai_media_cleanup"], ConfirmDeleted(o)
    PROVE  RuntimeStep
<1> DEFINE x == [o EXCEPT !.state = "DELETED"]
           S == [id : Ids, state : {"ACTIVE", "DELETED"}]
<1>1. Row["ai_media_cleanup"] = S
  BY DEF Row
<1>2. o \in S
  BY <1>1, RowsOf, RecordedTables
<1>3. x \in S
  BY <1>2
<1>4. Write(Replace("ai_media_cleanup", o, x))
  BY DEF ConfirmDeleted
<1>5. QED
  BY <1>1, <1>3, <1>4, RecordedTables, Replacing

LEMMA WriteReviewStep ==
    ASSUME TypeOK, NEW i \in Ids, NEW r \in Row["job_readiness_reviews"], WriteReview(i, r)
    PROVE  RuntimeStep
<1>1. Write(Insert("job_readiness_reviews", r))
  BY DEF WriteReview
<1>2. QED
  BY <1>1, OtherTables, Inserting

\* A review of any kind counts the finitely many before it.
LEMMA Reviewing ==
    ASSUME TypeOK, NEW i \in Ids, NEW a \in db["applications"],
           NEW kind \in {"REQUIREMENTS", "QUALIFICATION", "SELECTION"}
    PROVE  /\ Cardinality(Recalled(a, kind)) + 1 \in Nat
           /\ Review(i, a, kind) \in Row["job_readiness_reviews"]
<1>1. IsFiniteSet(Recalled(a, kind))
  <2>1. Recalled(a, kind) \subseteq db["job_readiness_reviews"]
    BY DEF Recalled
  <2>2. QED
    BY <2>1, FS_Subset DEF TypeOK, Typed
<1>2. Cardinality(Recalled(a, kind)) + 1 \in Nat
  BY <1>1, FS_CardinalityType
<1>3. a.id \in Profiles
  BY RowsOf, OtherTables DEF Row
<1>4. QED
  BY <1>2, <1>3 DEF Review, Row

LEMMA RecordRequirementsStep ==
    ASSUME TypeOK, NEW i \in Ids, NEW a \in db["applications"], RecordRequirements(i, a)
    PROVE  RuntimeStep
  BY Reviewing, WriteReviewStep DEF RecordRequirements

LEMMA RecordQualificationStep ==
    ASSUME TypeOK, NEW i \in Ids, NEW a \in db["applications"],
           NEW cited \in SUBSET Profiles, NEW cleared \in BOOLEAN,
           RecordQualification(i, a, cited, cleared)
    PROVE  RuntimeStep
<1>1. PICK q \in LastReview(a, "REQUIREMENTS") :
          WriteReview(i, [Review(i, a, "QUALIFICATION") EXCEPT
                             !.requirements = q.id, !.cited = cited, !.cleared = cleared])
  BY DEF RecordQualification
<1>2. q.id \in Ids
  BY RowsOf, OtherTables DEF LastReview, Recalled, Row
<1> DEFINE S == [id : Ids, application_id : Profiles,
                 kind : {"REQUIREMENTS", "QUALIFICATION", "SELECTION"}, edition : Nat,
                 requirements : Ids \cup {Null}, qualification : Ids \cup {Null},
                 cited : SUBSET Profiles, cleared : BOOLEAN, version : Keys \cup {Null}]
           r == Review(i, a, "QUALIFICATION")
           x == [r EXCEPT !.requirements = q.id, !.cited = cited, !.cleared = cleared]
<1>3. Row["job_readiness_reviews"] = S
  BY DEF Row
<1>4. r \in S
  BY <1>3, Reviewing
<1>5. x \in S
  <2> HIDE DEF r
  <2>1. QED
    BY <1>2, <1>4
<1>6. QED
  BY <1>1, <1>3, <1>5, WriteReviewStep

LEMMA RecordSelectionStep ==
    ASSUME TypeOK, NEW i \in Ids, NEW a \in db["applications"],
           NEW v \in db["document_versions"], RecordSelection(i, a, v)
    PROVE  RuntimeStep
<1>1. PICK q \in LastReview(a, "QUALIFICATION") :
          WriteReview(i, [Review(i, a, "SELECTION") EXCEPT
                             !.requirements = q.requirements, !.qualification = q.id,
                             !.version = v.id])
  BY DEF RecordSelection
<1>2. q.id \in Ids /\ q.requirements \in Ids \cup {Null} /\ v.id \in Keys
  BY RowsOf, OtherTables DEF LastReview, Recalled, Row
<1> DEFINE S == [id : Ids, application_id : Profiles,
                 kind : {"REQUIREMENTS", "QUALIFICATION", "SELECTION"}, edition : Nat,
                 requirements : Ids \cup {Null}, qualification : Ids \cup {Null},
                 cited : SUBSET Profiles, cleared : BOOLEAN, version : Keys \cup {Null}]
           r == Review(i, a, "SELECTION")
           x == [r EXCEPT !.requirements = q.requirements, !.qualification = q.id, !.version = v.id]
<1>3. Row["job_readiness_reviews"] = S
  BY DEF Row
<1>4. r \in S
  BY <1>3, Reviewing
<1>5. x \in S
  <2> HIDE DEF r
  <2>1. QED
    BY <1>2, <1>4
<1>6. QED
  BY <1>1, <1>3, <1>5, WriteReviewStep

(***************************************************************************)
(* Every step that is not a restore, a backup or an edit of a file is one  *)
(* transaction; so is the upgrade of the schema.                           *)
(***************************************************************************)
LEMMA OutboundSteps == ASSUME TypeOK, Outbound PROVE RuntimeStep
<1> Profiles \cup {Stranger, Null} = Workflows /\ Profiles \cup {Stranger} \subseteq Workflows
  BY DEF Workflows
<1>1. CASE \E i \in Ids, w \in Workflows :
              \/ \E versions \in SUBSET Profiles : CreateDraft(i, w, versions)
              \/ PlanCalendar(i, w)
  BY <1>1, CreateDraftStep, PlanCalendarStep
<1>2. CASE \E i \in Ids, d \in db["outbound_drafts"] : ClaimMail(i, d)
  BY <1>2, ClaimMailStep
<1>3. CASE \E i \in Ids, p \in db["calendar_mutation_plans"] : ClaimCalendar(i, p)
  BY <1>3, ClaimCalendarStep
<1>4. CASE \E a \in db["communication_mutation_audits"], status \in {"CONFIRMED", "UNCERTAIN"} :
              FinishAttempt(a, status)
  BY <1>4, FinishAttemptStep
<1>5. CASE \E i \in Ids, w \in Profiles \cup {Stranger} : ScheduleFollowUp(i, w)
  BY <1>5, ScheduleFollowUpStep
<1>6. QED
  BY <1>1, <1>2, <1>3, <1>4, <1>5 DEF Outbound

LEMMA BrowserSteps == ASSUME TypeOK, Browser PROVE RuntimeStep
<1> Profiles \cup {Stranger} \subseteq Workflows
  BY DEF Workflows
<1>1. CASE \E i \in Ids, w \in Profiles \cup {Stranger} :
              \/ OpenBrowser(i, w)
              \/ \E j \in Ids, state \in {"AWAITING_USER", "INTERVENTION_REQUIRED"} :
                    StartRun(i, j, w, state)
              \/ \E b \in db["browser_sessions"] : DetectChallenge(i, w, b)
  BY <1>1, OpenBrowserStep, StartRunStep, DetectChallengeStep
<1>2. CASE \E b \in db["browser_sessions"], state \in {"USER_TAKEOVER", "STOPPED"} :
              MoveBrowser(b, state)
  BY <1>2, MoveBrowserStep
<1>3. CASE \E x \in db["application_answers"] :
              ReviseAnswer(x) \/ \E i \in Ids : BindField(i, x)
  BY <1>3, ReviseAnswerStep, BindFieldStep
<1>4. CASE \E i \in Ids, f \in db["application_field_bindings"],
              r \in db["supervised_portal_runs"] : ExecuteField(i, f, r)
  BY <1>4, ExecuteFieldStep
<1>5. QED
  BY <1>1, <1>2, <1>3, <1>4 DEF Browser

LEMMA AuthoritySteps == ASSUME TypeOK, Authority PROVE RuntimeStep
<1>1. CASE \E i \in Ids : StartOAuth(i) \/ SaveTokens(i)
  BY <1>1, StartOAuthStep, SaveTokensStep
<1>2. CASE \E s \in db["oauth_authorization_sessions"] : ConsumeOAuth(s)
  BY <1>2, ConsumeOAuthStep
<1>3. CASE DeleteTokens \/ SaveConfiguration \/ DeleteConfiguration
  BY <1>3, DeleteTokensStep, SaveConfigurationStep, DeleteConfigurationStep
<1>4. CASE \E events \in SUBSET Ids : SyncCalendar(events)
  BY <1>4, SyncCalendarStep
<1>5. QED
  BY <1>1, <1>2, <1>3, <1>4 DEF Authority

LEMMA RecordsSteps == ASSUME TypeOK, Records PROVE RuntimeStep
<1> Profiles \cup {Stranger, Null} = Workflows /\ Profiles \cup {Stranger} \subseteq Workflows
  BY DEF Workflows
<1>1. CASE \E m \in db["ai_media_cleanup"] : ConfirmDeleted(m)
  BY <1>1, ConfirmDeletedStep
<1>2. CASE \E i \in Ids :
              \/ \E w \in Profiles \cup {Stranger} : SaveCheckpoint(i, w)
              \/ \E d \in db["documents"] : IngestVersion(i, d)
              \/ \E a \in db["applications"], v \in db["document_versions"] :
                    SubmitEvidence(i, a, v)
              \/ \E p \in Workflows : Invoke(i, p)
              \/ OweMedia(i)
  BY <1>2, SaveCheckpointStep, IngestVersionStep, SubmitEvidenceStep, InvokeStep, OweMediaStep
<1>3. QED
  BY <1>1, <1>2 DEF Records

LEMMA ReadinessSteps == ASSUME TypeOK, Readiness PROVE RuntimeStep
  BY RecordRequirementsStep, RecordQualificationStep, RecordSelectionStep DEF Readiness

LEMMA UpgradeStep == ASSUME TypeOK, Upgrade PROVE RuntimeStep
<1> DEFINE new == [calendar_mutation_claims |-> OldestClaims]
<1>1. /\ db' = Rewritten(db, new) /\ latest' = History(db') /\ revision' = "modern"
      /\ UNCHANGED <<desk, files, backups, calls, writes>>
  BY DEF Upgrade
<1>2. OldestClaims \subseteq Row["calendar_mutation_claims"]
  <2>1. \A a \in db["communication_mutation_audits"] : a.id \in Ids /\ a.resource_id \in Ids
    BY RowsOf, RecordedTables DEF Row
  <2>2. Row["calendar_mutation_claims"] = Claim
    BY DEF Row
  <2>3. QED
    BY <2>1, <2>2 DEF OldestClaims, Claim
<1>3. Typed(db')
  BY <1>1, <1>2, OtherTables DEF TypeOK, Typed, Rewritten
<1>4. Audits(db') = Audits(db)
  BY <1>1, RecordedTables DEF Audits, Rewritten
<1>5. QED
  BY <1>1, <1>3, <1>4 DEF RuntimeStep, AuditsKept, TypeOK

(***************************************************************************)
(* What the admission of a candidate promises.                             *)
(***************************************************************************)

\* A restore that takes the database from the backup keeps every recorded row
\* and leaves authority exactly as it is, whether or not there is history.
LEMMA AdmittedKeepsHistory ==
    ASSUME NEW b, NEW chosen, Admitted(b, chosen)
    PROVE  LET candidate == CandidateOf(b, chosen).db IN
           /\ \A t \in Roots : db[t] \subseteq candidate[t]
           /\ \A t \in ExactSets : db[t] = candidate[t]
           /\ Resolved(db) /\ Resolved(candidate)
<1> DEFINE candidate == CandidateOf(b, chosen).db
<1>1. HistoryAdmits(Here, CandidateOf(b, chosen), files, StagedFiles(b, chosen))
  BY DEF Admitted
<1>2. Here.db = db
  BY DEF Here
<1>3. Resolved(db) /\ Resolved(candidate)
  BY <1>1, <1>2 DEF HistoryAdmits
<1>4. CASE HasHistory(db) \/ HasHistory(candidate)
  <2>1. RowsKept(db, candidate)
    BY <1>1, <1>2, <1>4 DEF HistoryAdmits
  <2>2. QED
    BY <1>3, <2>1, RootsAreTables DEF RowsKept
<1>5. CASE ~HasHistory(db) /\ ~HasHistory(candidate)
  <2>1. \A t \in Roots : db[t] = {} /\ candidate[t] = {}
    BY <1>5 DEF HasHistory
  <2>2. QED
    BY <1>3, <2>1 DEF Roots
<1>6. QED
  BY <1>4, <1>5

LEMMA RestoreStep ==
    ASSUME NEW b, NEW chosen, Restore(b, chosen)
    PROVE  /\ \A t \in Roots : db[t] \subseteq db'[t]
           /\ \A t \in ExactSets : db[t] = db'[t]
           /\ Resolved(db) /\ Resolved(db')
           /\ Audits(db) \subseteq Audits(db')
           /\ UNCHANGED <<desk, backups, latest, calls, writes>>
<1>1. Admitted(b, chosen) /\ db' = CandidateOf(b, chosen).db
  BY DEF Restore
<1>2. /\ \A t \in Roots : db[t] \subseteq db'[t]
      /\ \A t \in ExactSets : db[t] = db'[t]
      /\ Resolved(db) /\ Resolved(db')
  BY <1>1, AdmittedKeepsHistory DEF Resolved
<1>3. Audits(db) \subseteq Audits(db')
  BY <1>2 DEF Audits, Roots, Recorded
<1>4. QED
  BY <1>2, <1>3 DEF Restore, ghosts

(***************************************************************************)
(* Type correctness.                                                       *)
(***************************************************************************)
LEMMA PreparedTyped == Typed(Prepared)
<1> DEFINE new ==
    [candidate_profiles |-> {[id |-> p] : p \in Profiles},
     applications |-> {[id |-> p, workflow_id |-> p, profile_id |-> p] : p \in Profiles},
     documents |-> {[id |-> p, profile_id |-> p] : p \in Profiles},
     document_versions |-> {[id |-> p, document_id |-> p] : p \in Profiles},
     candidate_claims |-> {[id |-> p, profile_id |-> p] : p \in Profiles},
     application_answers |->
         {[id |-> p, application_id |-> p, profile_id |-> p, revision |-> 1,
           evidence_claim_ids |-> {p}] : p \in Profiles}]
<1>1. Prepared = [t \in Tables |-> IF t \in DOMAIN new THEN new[t] ELSE {}]
  BY DEF Prepared, Rewritten, NoRows
<1>2. \A t \in DOMAIN new : new[t] \subseteq Row[t]
  <2>1. /\ new["candidate_profiles"] \subseteq Row["candidate_profiles"]
        /\ new["applications"] \subseteq Row["applications"]
        /\ new["documents"] \subseteq Row["documents"]
    BY DEF Row
  <2>2. /\ new["document_versions"] \subseteq Row["document_versions"]
        /\ new["candidate_claims"] \subseteq Row["candidate_claims"]
    BY DEF Row, Keys
  <2>3. new["application_answers"] \subseteq Row["application_answers"]
    BY DEF Row
  <2>4. DOMAIN new = {"candidate_profiles", "applications", "documents", "document_versions",
                      "candidate_claims", "application_answers"}
    OBVIOUS
  <2> HIDE DEF new
  <2>5. QED
    BY <2>1, <2>2, <2>3, <2>4
<1>3. IsFiniteSet(Prepared["job_readiness_reviews"])
  BY <1>1, OtherTables, FS_EmptySet
<1> HIDE DEF new
<1>4. QED
  BY <1>1, <1>2, <1>3 DEF Typed

LEMMA LegacyTyped ==
    ASSUME NEW plan \in Ids, NEW attempts \in SUBSET Row["communication_mutation_audits"]
    PROVE  Typed(LegacyRows(plan, attempts))
<1> DEFINE x == [id |-> plan, workflow_id |-> Null, kind |-> "CREATE_CALENDAR_EVENT"]
           new == [calendar_mutation_plans |-> {x}, communication_mutation_audits |-> attempts]
<1>1. LegacyRows(plan, attempts) =
          [t \in Tables |-> IF t \in DOMAIN new THEN new[t] ELSE Prepared[t]]
  BY DEF LegacyRows, Rewritten
<1>2. x \in Row["calendar_mutation_plans"]
  BY DEF Row, Workflows, CalendarKinds
<1>3. \A t \in DOMAIN new : new[t] \subseteq Row[t]
  BY <1>2
<1>4. "job_readiness_reviews" \notin DOMAIN new
  OBVIOUS
<1> HIDE DEF new
<1>5. QED
  BY <1>1, <1>3, <1>4, PreparedTyped, OtherTables DEF Typed

LEMMA LegacyAttempts ==
    ASSUME NEW plan \in Ids, NEW i \in Ids, NEW at \in Nat
    PROVE  LegacyAttempt(i, plan, at) \in Row["communication_mutation_audits"]
  BY DEF LegacyAttempt, Row, CalendarKinds

\* The initial workspaces: nothing recorded, or a plan of the legacy schema
\* with no attempt, one, or two of which the older one called the provider.
LEMMA Beginnings ==
    ASSUME Init
    PROVE  /\ Typed(db)
           /\ \/ calls = {}
              \/ \E a \in Audits(db), c \in CallRow : calls = {c} /\ Attempt(a, c)
<1>1. CASE db = Prepared /\ calls = {}
  BY <1>1, PreparedTyped
<1>2. CASE \E plan, i, j \in Ids :
              /\ i # j
              /\ \E attempts \in {{}, {LegacyAttempt(i, plan, 0)},
                                  {LegacyAttempt(i, plan, 0), LegacyAttempt(j, plan, 1)}} :
                    /\ db = LegacyRows(plan, attempts)
                    /\ calls = {[kind |-> a.kind, resource |-> plan, audit |-> a.id] :
                                 a \in Oldest(attempts)}
  <2>1. PICK plan \in Ids, i \in Ids, j \in Ids :
            \E attempts \in {{}, {LegacyAttempt(i, plan, 0)},
                             {LegacyAttempt(i, plan, 0), LegacyAttempt(j, plan, 1)}} :
                /\ db = LegacyRows(plan, attempts)
                /\ calls = {[kind |-> a.kind, resource |-> plan, audit |-> a.id] :
                             a \in Oldest(attempts)}
    BY <1>2
  <2> DEFINE A == LegacyAttempt(i, plan, 0)
             B == LegacyAttempt(j, plan, 1)
             c == [kind |-> "CREATE_CALENDAR_EVENT", resource |-> plan, audit |-> i]
  <2>2. PICK attempts \in {{}, {A}, {A, B}} :
            /\ db = LegacyRows(plan, attempts)
            /\ calls = {[kind |-> a.kind, resource |-> plan, audit |-> a.id] :
                         a \in Oldest(attempts)}
    BY <2>1
  <2>3. A \in Row["communication_mutation_audits"] /\ B \in Row["communication_mutation_audits"]
    BY LegacyAttempts
  <2>4. Typed(db)
    BY <2>2, <2>3, LegacyTyped
  <2>5. Audits(db) = attempts
    BY <2>2, RecordedTables DEF Audits, LegacyRows, Rewritten
  <2>6. A.at = 0 /\ B.at = 1 /\ A.kind = "CREATE_CALENDAR_EVENT" /\ A.id = i
        /\ A.resource_id = plan
    BY DEF LegacyAttempt
  <2> HIDE DEF A, B
  <2>7. Oldest(attempts) = {} \/ (Oldest(attempts) = {A} /\ A \in attempts)
    BY <2>2, <2>6 DEF Oldest
  <2>8. c \in CallRow
    BY DEF CallRow, CalendarKinds
  <2>9. calls = {} \/ (calls = {c} /\ Attempt(A, c) /\ A \in Audits(db))
    BY <2>2, <2>5, <2>6, <2>7 DEF Attempt
  <2>10. QED
    BY <2>4, <2>8, <2>9
<1>3. QED
  BY <1>1, <1>2 DEF Init

LEMMA InitTyped == Init => TypeOK
<1> SUFFICES ASSUME Init PROVE TypeOK
  OBVIOUS
<1>1. desk \in Desks /\ revision \in {"modern", "legacy"} /\ writes \in Nat
  BY DEF Init
<1>2. files \in Files /\ backups = {}
  BY DEF Init, Files, Keys
<1>3. DOMAIN latest = Roots
  BY DEF Init, History
<1>4. Typed(db) /\ calls \subseteq CallRow
  BY Beginnings
<1>5. QED
  BY <1>1, <1>2, <1>3, <1>4 DEF TypeOK, CallRow

LEMMA StepCases ==
    ASSUME TypeOK, [Next]_vars
    PROVE  \/ RuntimeStep
           \/ \E b \in backups, chosen \in Categories : Restore(b, chosen)
           \/ Backup
           \/ \E v \in Keys, state \in {"good", "damaged", "none"} : EditFile(v, state)
           \/ UNCHANGED vars
  BY OutboundSteps, BrowserSteps, AuthoritySteps, RecordsSteps, ReadinessSteps, UpgradeStep
  DEF Next, Keys

\* What each of the other steps leaves alone.
LEMMA BackupFrame == Backup => UNCHANGED <<desk, revision, db, files, latest, calls, writes>>
  BY DEF Backup, workspace, ghosts
LEMMA EditFrame ==
    ASSUME NEW v, NEW state, EditFile(v, state)
    PROVE  UNCHANGED <<desk, revision, db, backups, latest, calls, writes>>
  BY DEF EditFile, ghosts
LEMMA StutterFrame ==
    UNCHANGED vars => UNCHANGED <<desk, revision, db, files, backups, latest, calls, writes>>
  BY DEF vars, workspace, ghosts

LEMMA TypePreserved == TypeOK /\ [Next]_vars => TypeOK'
<1> SUFFICES ASSUME TypeOK, [Next]_vars PROVE TypeOK'
  OBVIOUS
<1>1. CASE RuntimeStep
  <2>1. DOMAIN latest' = Roots
    BY <1>1 DEF RuntimeStep, History
  <2>2. calls' \subseteq CallRow
    BY <1>1 DEF RuntimeStep, NewCall, TypeOK, CallRow
  <2>3. QED
    BY <1>1, <2>1, <2>2 DEF RuntimeStep, TypeOK, CallRow
<1>2. CASE \E b \in backups, chosen \in Categories : Restore(b, chosen)
  <2>1. PICK b \in backups, chosen \in Categories : Restore(b, chosen)
    BY <1>2
  <2>2. UNCHANGED <<desk, backups, latest, calls, writes>>
    BY <2>1, RestoreStep
  <2>3. b.revision \in {"modern", "legacy"} /\ Typed(b.db) /\ b.files \in Files
    BY DEF TypeOK
  <2>4. /\ Here.revision = revision /\ Here.db = db
    BY DEF Here
  <2>5. revision' \in {"modern", "legacy"} /\ Typed(db')
    BY <2>1, <2>3, <2>4 DEF Restore, CandidateOf, TypeOK
  <2>6. files' = [v \in DOMAIN files |-> IF StagedFiles(b, chosen)[v] # "none"
                                         THEN b.files[v] ELSE files[v]]
    BY <2>1 DEF Restore
  <2>7. files' \in Files
    BY <2>3, <2>6 DEF TypeOK, Files
  <2>8. QED
    BY <2>2, <2>5, <2>7 DEF TypeOK
<1>3. CASE Backup
  <2>1. UNCHANGED <<desk, revision, db, files, latest, calls, writes>>
    BY <1>3, BackupFrame
  <2>2. /\ Here.revision = revision /\ Here.db = db /\ Here.files = files
        /\ backups' = backups \cup {Here}
    BY <1>3 DEF Backup, Here
  <2>3. QED
    BY <2>1, <2>2 DEF TypeOK
<1>4. CASE \E v \in Keys, state \in {"good", "damaged", "none"} : EditFile(v, state)
  <2>1. PICK v \in Keys, state \in {"good", "damaged", "none"} : EditFile(v, state)
    BY <1>4
  <2>2. files' = [files EXCEPT ![v] = state]
    BY <2>1 DEF EditFile
  <2>3. files' \in Files
    BY <2>2 DEF TypeOK, Files
  <2>4. QED
    BY <2>1, <2>3, EditFrame DEF TypeOK
<1>5. CASE UNCHANGED vars
  BY <1>5, StutterFrame DEF TypeOK
<1>6. QED
  BY <1>1, <1>2, <1>3, <1>4, <1>5, StepCases

\* Every workspace, every backup and every row the runtime writes is well
\* typed, whatever was restored in between (all of RestoreHistory's actions).
THEOREM HistoryTypeCorrect == Spec => []TypeOK
<1>1. TypeOK /\ [Next]_vars => TypeOK'
  BY TypePreserved
<1>2. QED
  BY InitTyped, <1>1, PTL DEF Spec

(***************************************************************************)
(* Recorded history stands.                                                *)
(***************************************************************************)
LEMMA HistoryBegins == Init => RecordedHistoryStands
<1> SUFFICES ASSUME Init PROVE RecordedHistoryStands
  OBVIOUS
<1>1. \A t \in Roots : latest[t] = db[t]
  BY DEF Init, History
<1>2. QED
  BY <1>1 DEF RecordedHistoryStands, Roots, Recorded

LEMMA HistoryPreservedByStep ==
    TypeOK /\ RecordedHistoryStands /\ [Next]_vars => RecordedHistoryStands'
<1> SUFFICES ASSUME TypeOK, RecordedHistoryStands, [Next]_vars PROVE RecordedHistoryStands'
  OBVIOUS
<1>1. CASE RuntimeStep
  <2>1. \A t \in Roots : latest'[t] = db'[t]
    BY <1>1 DEF RuntimeStep, History
  <2>2. QED
    BY <2>1 DEF RecordedHistoryStands, Roots, Recorded
<1>2. CASE \E b \in backups, chosen \in Categories : Restore(b, chosen)
  <2>1. /\ \A t \in Roots : db[t] \subseteq db'[t]
        /\ \A t \in ExactSets : db[t] = db'[t]
        /\ Resolved(db') /\ latest' = latest
    BY <1>2, RestoreStep
  <2>2. \A t \in Roots : latest'[t] \subseteq db'[t]
    BY <2>1 DEF RecordedHistoryStands
  <2>3. \A t \in ExactSets : latest'[t] = db'[t]
    BY <2>1 DEF RecordedHistoryStands
  <2>4. {m \in db'["ai_media_cleanup"] : m.state # "DELETED"} = {}
    BY <2>1 DEF Resolved
  <2>5. QED
    BY <2>2, <2>3, <2>4 DEF RecordedHistoryStands
<1>3. CASE Backup
  BY <1>3, BackupFrame DEF RecordedHistoryStands
<1>4. CASE \E v \in Keys, state \in {"good", "damaged", "none"} : EditFile(v, state)
  BY <1>4, EditFrame DEF RecordedHistoryStands
<1>5. CASE UNCHANGED vars
  BY <1>5, StutterFrame DEF RecordedHistoryStands
<1>6. QED
  BY <1>1, <1>2, <1>3, <1>4, <1>5, StepCases

\* However many backups, restores and writes: the recorded history is the
\* one the runtime last left (services/restore_history.py,
\* _require_preserved_snapshots).
THEOREM HistoryStands == Spec => []RecordedHistoryStands
<1>1. TypeOK /\ [Next]_vars => TypeOK'
  BY TypePreserved
<1>2. TypeOK /\ RecordedHistoryStands /\ [Next]_vars => RecordedHistoryStands'
  BY HistoryPreservedByStep
<1>3. QED
  BY InitTyped, HistoryBegins, <1>1, <1>2, PTL DEF Spec

(***************************************************************************)
(* Nothing is sent twice: every call keeps the attempt that made it.       *)
(***************************************************************************)
CallsRecorded == \A c \in calls : \E a \in Audits(db) : Attempt(a, c)

SentOnce == CallsRecorded /\ NothingIsSentTwice

LEMMA SentOnceBegins == Init => SentOnce
  BY Beginnings DEF SentOnce, CallsRecorded, NothingIsSentTwice

LEMMA SentOncePreserved == TypeOK /\ SentOnce /\ [Next]_vars => SentOnce'
<1> SUFFICES ASSUME TypeOK, SentOnce, [Next]_vars PROVE SentOnce'
  OBVIOUS
<1>1. CASE RuntimeStep
  <2>1. \A c \in calls : \E a \in Audits(db') : Attempt(a, c)
    BY <1>1 DEF RuntimeStep, AuditsKept, SentOnce, CallsRecorded, Attempt
  <2>2. CASE calls' = calls
    BY <2>1, <2>2 DEF SentOnce, CallsRecorded, NothingIsSentTwice
  <2>3. CASE \E c \in CallRow : NewCall(c)
    <3>1. PICK c \in CallRow : NewCall(c)
      BY <2>3
    <3>2. \A d \in calls : ~(d.kind = c.kind /\ d.resource = c.resource)
      BY <3>1 DEF SentOnce, CallsRecorded, NewCall, Attempt
    <3>3. QED
      BY <2>1, <3>1, <3>2 DEF SentOnce, CallsRecorded, NothingIsSentTwice, NewCall
  <2>4. QED
    BY <1>1, <2>2, <2>3 DEF RuntimeStep
<1>2. CASE \E b \in backups, chosen \in Categories : Restore(b, chosen)
  BY <1>2, RestoreStep DEF SentOnce, CallsRecorded, NothingIsSentTwice
<1>3. CASE Backup
  BY <1>3, BackupFrame DEF SentOnce, CallsRecorded, NothingIsSentTwice, Audits
<1>4. CASE \E v \in Keys, state \in {"good", "damaged", "none"} : EditFile(v, state)
  BY <1>4, EditFrame DEF SentOnce, CallsRecorded, NothingIsSentTwice, Audits
<1>5. CASE UNCHANGED vars
  BY <1>5, StutterFrame DEF SentOnce, CallsRecorded, NothingIsSentTwice, Audits
<1>6. QED
  BY <1>1, <1>2, <1>3, <1>4, <1>5, StepCases

\* No draft is sent and no plan carried out a second time, for any number of
\* resources, attempts, backups and restores (claim_mail_send,
\* claim_calendar_mutation, migration 0028, _require_preserved_snapshots).
THEOREM NeverSentTwice == Spec => []NothingIsSentTwice
<1>1. TypeOK /\ [Next]_vars => TypeOK'
  BY TypePreserved
<1>2. TypeOK /\ SentOnce /\ [Next]_vars => SentOnce'
  BY SentOncePreserved
<1>3. SentOnce => NothingIsSentTwice
  BY DEF SentOnce
<1>4. QED
  BY InitTyped, SentOnceBegins, <1>1, <1>2, <1>3, PTL DEF Spec

(***************************************************************************)
(* The promise RestoreRecovery relies on, and the bytes of the documents.  *)
(***************************************************************************)
LEMMA RestorePreserves ==
    ASSUME NEW b, NEW chosen, Restore(b, chosen)
    PROVE  HistoryPreserved(Summary(db), Summary(db'))
<1>1. /\ \A t \in Roots : db[t] \subseteq db'[t]
      /\ \A t \in ExactSets : db[t] = db'[t]
      /\ Resolved(db) /\ Resolved(db')
  BY RestoreStep
<1>2. Summary(db).claims \subseteq Summary(db').claims
  BY <1>1 DEF Summary, Roots, Recorded
<1>3. Summary(db).authority = Summary(db').authority
  BY <1>1 DEF Summary
<1>4. ~Summary(db).cleanup /\ ~Summary(db').cleanup
  BY <1>1 DEF Summary
<1>5. QED
  BY <1>2, <1>3, <1>4 DEF HistoryPreserved

\* The row-by-row inspection implements the promise that RestoreRecovery's
\* admission makes of a pair of databases (_require_preserved_snapshots).
THEOREM RestoreKeepsThePromise == Spec => RestoreKeepsHistory
<1>1. [Next]_vars => [\A b \in backups, chosen \in Categories :
          Restore(b, chosen) => HistoryPreserved(Summary(db), Summary(db'))]_vars
  BY RestorePreserves
<1>2. QED
  BY <1>1, PTL DEF Spec, RestoreKeepsHistory

LEMMA RestoreKeepsBytes ==
    ASSUME TypeOK, NEW b \in backups, NEW chosen \in Categories, Restore(b, chosen),
           HasHistory(db), NEW v \in db'["document_versions"]
    PROVE  files'[v.id] = "good"
<1> DEFINE staged == StagedFiles(b, chosen)
           candidate == CandidateOf(b, chosen).db
<1>1. /\ HistoryAdmits(Here, CandidateOf(b, chosen), files, staged)
      /\ db' = candidate
      /\ files' = [k \in DOMAIN files |-> IF staged[k] # "none" THEN b.files[k] ELSE files[k]]
  BY DEF Restore, Admitted
<1>2. Here.db = db
  BY DEF Here
<1>3. Copies(db, v, files, staged) = {"good"}
  BY <1>1, <1>2 DEF HistoryAdmits, DocumentsKept
<1>4. v.id \in Keys /\ DOMAIN files = Keys
  <2>1. Typed(candidate)
    BY <1>2 DEF CandidateOf, TypeOK
  <2>2. v \in Row["document_versions"]
    BY <1>1, <2>1, OtherTables DEF Typed
  <2>3. QED
    BY <2>2 DEF Row, TypeOK, Files
<1>5. CASE staged[v.id] = "none"
  <2>1. files[v.id] \in Copies(db, v, files, staged)
    BY <1>5 DEF Copies
  <2>2. QED
    BY <1>1, <1>3, <1>4, <1>5, <2>1
<1>6. CASE staged[v.id] # "none"
  <2>1. staged[v.id] \in Copies(db, v, files, staged)
    BY <1>6 DEF Copies
  <2>2. staged[v.id] = b.files[v.id]
    BY <1>4, <1>6 DEF StagedFiles, NoFiles, Keys
  <2>3. QED
    BY <1>1, <1>3, <1>4, <1>6, <2>1, <2>2
<1>7. QED
  BY <1>5, <1>6

\* A restore into protected history leaves every version with the bytes it
\* was recorded with (_documents).
THEOREM VersionsKept == Spec => VersionsKeepTheirBytes
<1>1. TypeOK /\ [Next]_vars => [\A b \in backups, chosen \in Categories :
          Restore(b, chosen) /\ HasHistory(db) =>
              \A v \in db'["document_versions"] : files'[v.id] = "good"]_vars
  BY RestoreKeepsBytes
<1>2. QED
  BY HistoryTypeCorrect, <1>1, PTL DEF Spec, VersionsKeepTheirBytes

(***************************************************************************)
(* The current database is always admitted into itself.  What the writers  *)
(* keep of each table, row by row, is the invariant; that it is enough for *)
(* the inspection is shown first, and then that every writer keeps it.     *)
(***************************************************************************)

\* Which version belongs to which candidate.
Belongs(d, i, p) == \E v \in Named(d, "document_versions", i) : v.document_id = p

\* One row per key.
Keyed(d) == \A t \in Tables : \A x, y \in d[t] : x.id = y.id => x = y

\* The candidates' own rows, which no transaction here adds to or removes.
GroundRows(d) ==
    /\ \A t \in {"candidate_profiles", "applications", "documents", "candidate_claims"} :
          \A p \in Profiles : Named(d, t, p) # {}
    /\ \A a \in d["applications"] : a.workflow_id = a.id /\ a.profile_id = a.id
    /\ \A x \in d["documents"] \cup d["candidate_claims"] : x.profile_id = x.id
    /\ \A p \in Profiles : Belongs(d, p, p)

AnswerRows(d) ==
    /\ \A p \in Profiles : Named(d, "application_answers", p) # {}
    /\ \A x \in d["application_answers"] :
          x.application_id = x.id /\ x.profile_id = x.id /\ x.evidence_claim_ids = {x.id}

DraftRows(d) == \A x \in d["outbound_drafts"] : \A v \in x.document_version_ids : v = x.workflow_id

FollowUpRows(d) ==
    \A x, y \in d["communication_follow_ups"] : x.dedupe_key = y.dedupe_key => x = y

\* A run and a challenge are of the workflow of their browser.
SessionRows(d) ==
    /\ \A x \in d["supervised_portal_runs"] \cup d["challenge_sessions"] :
          \E b \in Named(d, "browser_sessions", x.browser_session_id) :
              b.workflow_id = x.workflow_id
    /\ \A x, y \in d["supervised_portal_runs"] :
          x.browser_session_id = y.browser_session_id => x = y

\* A binding is of an answer of its application, no newer than the answer; an
\* execution is of such a binding, in a run of the application's workflow.
BindingRows(d) ==
    \A f \in d["application_field_bindings"] :
        /\ f.application_answer_id = f.application_id
        /\ \E y \in Named(d, "application_answers", f.application_id) :
              f.answer_revision <= y.revision
ExecutionRows(d) ==
    \A x \in d["application_field_executions"] :
        /\ \E f \in Named(d, "application_field_bindings", x.binding_id) :
              /\ f.application_id = x.application_id
              /\ f.application_answer_id = x.application_answer_id
              /\ f.answer_revision = x.answer_revision
        /\ \E r \in Named(d, "supervised_portal_runs", x.supervised_run_id) :
              /\ r.browser_session_id = x.browser_session_id
              /\ r.workflow_id = x.application_id

EvidenceRows(d) ==
    \A s \in d["submitted_document_evidence"] : Belongs(d, s.document_version_id, s.application_id)

ReviewRows(d) ==
    \A r \in d["job_readiness_reviews"] :
        /\ r.kind # "REQUIREMENTS" => Reviews(d, r.requirements, "REQUIREMENTS", r.application_id) # {}
        /\ \A c \in r.cited : c = r.application_id
        /\ r.kind = "SELECTION" =>
              /\ \E q \in Reviews(d, r.qualification, "QUALIFICATION", r.application_id) :
                    q.cleared /\ q.requirements = r.requirements
              /\ Belongs(d, r.version, r.application_id)

AttemptRows(d) == AttemptsHaveSource(d) /\ MailClaimsLinked(d) /\ CalendarClaimsLinked(d)

\* In the modern schema every attempt is claimed, and one that waits for its
\* answer is the only one of its plan: finishing it makes no other the oldest.
ClaimedRows(d) ==
    /\ AttemptsClaimed(d)
    /\ \A a, b \in d["communication_mutation_audits"] :
          /\ a.kind \in CalendarKinds /\ b.kind \in CalendarKinds
          /\ a.resource_id = b.resource_id /\ a.status = "PLANNED"
          => a = b

\* In the legacy schema nothing is claimed, but the upgrade finds one attempt
\* of each plan to claim it.
UnclaimedRows(d) ==
    /\ d["calendar_mutation_claims"] = {}
    /\ \A a \in d["communication_mutation_audits"] :
          /\ a.status # "PLANNED"
          /\ \E o \in Attempts(d, a.resource_id) : Oldest(Attempts(d, a.resource_id)) = {o}

Rows(d) ==
    /\ Keyed(d) /\ GroundRows(d) /\ AnswerRows(d) /\ DraftRows(d) /\ FollowUpRows(d)
    /\ SessionRows(d) /\ BindingRows(d) /\ ExecutionRows(d) /\ EvidenceRows(d)
    /\ ReviewRows(d) /\ AttemptRows(d)

\* What the tables of a workspace or a backup keep to, by its revision.
Kept(s) ==
    /\ Rows(s.db)
    /\ s.revision = "modern" => ClaimedRows(s.db)
    /\ s.revision = "legacy" => UnclaimedRows(s.db)

HistoryKept == Kept(Here) /\ \A b \in backups : Kept(b)

(* Which tables have a column, and what the other columns of them say.     *)
LEMMA AllTables ==
    \A t \in Tables :
        t \in Recorded \cup ExactSets
                \cup {"application_answers", "application_field_bindings", "applications",
                      "candidate_profiles", "candidate_claims", "document_versions", "documents",
                      "job_readiness_reviews", "outbound_drafts", "workflow_checkpoints",
                      "communication_follow_ups"}
<1> DEFINE T == Recorded \cup ExactSets
                \cup {"application_answers", "application_field_bindings", "applications",
                      "candidate_profiles", "candidate_claims", "document_versions", "documents",
                      "job_readiness_reviews", "outbound_drafts", "workflow_checkpoints",
                      "communication_follow_ups"}
<1>1. \A r \in AnswerReferences : r[1] \in T /\ r[3] \in T
  BY DEF AnswerReferences, Recorded, ExactSets
<1>2. \A r \in CandidateReferences \cup DocumentReferences : r[1] \in T /\ r[3] \in T
  BY DEF CandidateReferences, DocumentReferences, Recorded, ExactSets
<1>3. \A r \in MailReferences \cup PortalReferences : r[1] \in T /\ r[3] \in T
  BY DEF MailReferences, PortalReferences, Recorded, ExactSets
<1>4. \A r \in References : r[1] \in T /\ r[3] \in T
  BY <1>1, <1>2, <1>3 DEF References
<1>5. {"workflow_checkpoints", "communication_follow_ups"} \subseteq T /\ Roots \subseteq T
  BY DEF Roots
<1> HIDE DEF T
<1>6. \A t \in Tables : t \in T
  BY <1>4, <1>5 DEF Tables
<1> QED BY <1>6 DEF T


LEMMA Fields ==
    /\ \A x \in Row["communication_mutation_audits"] :
          DOMAIN x = {"id", "kind", "resource_id", "status", "at"}
    /\ \A x \in Row["mail_send_claims"] : DOMAIN x = {"id", "audit_id"}
    /\ \A x \in Row["calendar_mutation_claims"] : DOMAIN x = {"id", "audit_id"}
    /\ \A x \in Row["calendar_mutation_plans"] : DOMAIN x = {"id", "workflow_id", "kind"}
    /\ \A x \in Row["application_field_executions"] :
          DOMAIN x = {"id", "binding_id", "application_id", "application_answer_id",
                      "answer_revision", "supervised_run_id", "browser_session_id"}
    /\ \A x \in Row["submitted_document_evidence"] :
          DOMAIN x = {"id", "application_id", "document_version_id"}
    /\ \A x \in Row["model_invocations"] : DOMAIN x = {"id", "profile_id"}
    /\ \A x \in Row["ai_media_cleanup"] : DOMAIN x = {"id", "state"}
    /\ \A x \in Row["oauth_credentials"] : DOMAIN x = {"id", "edition"}
    /\ \A x \in Row["oauth_authorization_sessions"] : DOMAIN x = {"id", "consumed"}
    /\ \A x \in Row["communication_configurations"] : DOMAIN x = {"id", "edition"}
    /\ \A x \in Row["browser_sessions"] : DOMAIN x = {"id", "workflow_id", "state"}
    /\ \A x \in Row["supervised_portal_runs"] :
          DOMAIN x = {"id", "workflow_id", "browser_session_id", "state"}
    /\ \A x \in Row["challenge_sessions"] :
          DOMAIN x = {"id", "workflow_id", "browser_session_id", "status"}
    /\ \A x \in Row["provider_calendar_events"] : DOMAIN x = {"id", "edition"}
    /\ \A x \in Row["application_answers"] :
          DOMAIN x = {"id", "application_id", "profile_id", "revision", "evidence_claim_ids"}
    /\ \A x \in Row["application_field_bindings"] :
          DOMAIN x = {"id", "application_id", "application_answer_id", "answer_revision"}
    /\ \A x \in Row["applications"] : DOMAIN x = {"id", "workflow_id", "profile_id"}
    /\ \A x \in Row["candidate_profiles"] : DOMAIN x = {"id"}
    /\ \A x \in Row["candidate_claims"] : DOMAIN x = {"id", "profile_id"}
    /\ \A x \in Row["document_versions"] : DOMAIN x = {"id", "document_id"}
    /\ \A x \in Row["documents"] : DOMAIN x = {"id", "profile_id"}
    /\ \A x \in Row["job_readiness_reviews"] :
          DOMAIN x = {"id", "application_id", "kind", "edition", "requirements",
                      "qualification", "cited", "cleared", "version"}
    /\ \A x \in Row["outbound_drafts"] :
          DOMAIN x = {"id", "workflow_id", "document_version_ids"}
    /\ \A x \in Row["workflow_checkpoints"] : DOMAIN x = {"id", "workflow_id"}
    /\ \A x \in Row["communication_follow_ups"] :
          DOMAIN x = {"id", "workflow_id", "dedupe_key"}
  BY DEF Row, Claim, Edition

\* The tables whose rows name nothing that the inspection compares.
Unlinked == {"communication_mutation_audits", "mail_send_claims", "calendar_mutation_claims",
             "ai_media_cleanup", "oauth_credentials", "oauth_authorization_sessions",
             "communication_configurations", "provider_calendar_events", "candidate_profiles",
             "document_versions"}

LEMMA OwnedUnlinked ==
    ASSUME NEW d, Typed(d), NEW t \in Tables \cap Unlinked, NEW x \in d[t]
    PROVE  RowOwned(d, x) /\ AnswerOwned(d, x) /\ BrowserOwned(d, x)
<1>1. x \in Row[t]
  BY DEF Typed
<1>2. DOMAIN x \cap {"workflow_id", "profile_id", "application_id", "application_answer_id",
                     "browser_session_id", "document_version_id", "document_version_ids",
                     "evidence_claim_ids"} = {}
  BY <1>1, Fields DEF Unlinked
<1> QED BY <1>2 DEF RowOwned, AnswerOwned, BrowserOwned, ApplicationOf, Has

\* A row that names its workflow and nothing else; one that names its candidate.
LEMMA OwnedByName ==
    ASSUME NEW d, Typed(d), GroundRows(d),
           NEW t \in {"calendar_mutation_plans", "browser_sessions", "workflow_checkpoints",
                      "communication_follow_ups", "model_invocations", "documents",
                      "candidate_claims", "applications"},
           t \in Tables, NEW x \in d[t]
    PROVE  RowOwned(d, x) /\ AnswerOwned(d, x) /\ BrowserOwned(d, x)
<1>1. x \in Row[t]
  BY DEF Typed
<1>2. CASE t \in {"model_invocations", "documents", "candidate_claims"}
  <2>1. DOMAIN x = {"id", "profile_id"}
    BY <1>1, <1>2, Fields
  <2> QED BY <2>1 DEF RowOwned, AnswerOwned, BrowserOwned, ApplicationOf, Has
<1>3. CASE t \in {"calendar_mutation_plans", "browser_sessions", "workflow_checkpoints",
                  "communication_follow_ups"}
  <2>1. /\ "workflow_id" \in DOMAIN x
        /\ DOMAIN x \cap {"profile_id", "application_id", "application_answer_id",
                          "browser_session_id", "document_version_id",
                          "document_version_ids", "evidence_claim_ids"} = {}
    BY <1>1, <1>3, Fields
  <2> QED BY <2>1 DEF RowOwned, AnswerOwned, BrowserOwned, ApplicationOf, Has
<1>4. CASE t = "applications"
  <2>1. DOMAIN x = {"id", "workflow_id", "profile_id"}
    BY <1>1, <1>4, Fields
  <2>2. \A a \in ApplicationOf(d, x) : a.workflow_id = x.workflow_id /\ a \in d["applications"]
    BY <2>1 DEF ApplicationOf
  <2>3. \A a \in ApplicationOf(d, x) : a.profile_id = x.profile_id
    BY <2>2, <1>4 DEF GroundRows
  <2> QED BY <2>1, <2>2, <2>3 DEF RowOwned, AnswerOwned, BrowserOwned, Has
<1> QED BY <1>2, <1>3, <1>4

LEMMA VersionOwned ==
    ASSUME NEW d, Typed(d), Keyed(d), GroundRows(d), NEW i, NEW p, Belongs(d, i, p)
    PROVE  VersionOwner(d, i) = {p}
<1>1. PICK v \in d["document_versions"] : v.id = i /\ v.document_id = p
  BY DEF Belongs, Named
<1>2. p \in Profiles
  BY <1>1, OtherTables DEF Typed, Row
<1>3. Named(d, "document_versions", i) = {v}
  BY <1>1, OtherTables DEF Named, Keyed
<1>4. VersionOwner(d, i) = {y.profile_id : y \in Named(d, "documents", p)}
  BY <1>1, <1>3 DEF VersionOwner
<1>5. Named(d, "documents", p) # {} /\ \A y \in Named(d, "documents", p) : y.profile_id = p
  BY <1>2 DEF GroundRows, Named
<1> QED BY <1>4, <1>5

\* Every application is its candidate's, and its workflow has the same name.
LEMMA Owner ==
    ASSUME NEW d, Typed(d), GroundRows(d), NEW x
    PROVE  /\ "application_id" \in DOMAIN x /\ x.application_id \in Profiles =>
                 /\ {a.profile_id : a \in ApplicationOf(d, x)} = {x.application_id}
                 /\ \A a \in ApplicationOf(d, x) :
                       a.id = x.application_id /\ a.profile_id = x.application_id
                         /\ a.workflow_id = x.application_id
           /\ "application_id" \notin DOMAIN x =>
                 \A a \in ApplicationOf(d, x) :
                    "workflow_id" \in DOMAIN x /\ a.profile_id = x.workflow_id
                      /\ a.workflow_id = x.workflow_id
<1>1. ASSUME "application_id" \in DOMAIN x, x.application_id \in Profiles
      PROVE  /\ {a.profile_id : a \in ApplicationOf(d, x)} = {x.application_id}
             /\ \A a \in ApplicationOf(d, x) :
                   a.id = x.application_id /\ a.profile_id = x.application_id
                     /\ a.workflow_id = x.application_id
  <2>1. ApplicationOf(d, x) = Named(d, "applications", x.application_id)
    BY <1>1 DEF ApplicationOf, Named
  <2>2. Named(d, "applications", x.application_id) # {}
    BY <1>1 DEF GroundRows
  <2>3. \A a \in Named(d, "applications", x.application_id) :
           a.id = x.application_id /\ a.profile_id = a.id /\ a.workflow_id = a.id
    BY DEF Named, GroundRows
  <2> QED BY <2>1, <2>2, <2>3
<1>2. ASSUME "application_id" \notin DOMAIN x, NEW a \in ApplicationOf(d, x)
      PROVE  "workflow_id" \in DOMAIN x /\ a.profile_id = x.workflow_id
                      /\ a.workflow_id = x.workflow_id
  BY <1>2 DEF ApplicationOf, GroundRows
<1> QED BY <1>1, <1>2

LEMMA OwnedAnswer ==
    ASSUME NEW d, Typed(d), Rows(d), NEW x \in d["application_answers"]
    PROVE  RowOwned(d, x) /\ AnswerOwned(d, x) /\ BrowserOwned(d, x)
<1>1. x \in Row["application_answers"]
  BY OtherTables DEF Typed
<1>2. /\ DOMAIN x = {"id", "application_id", "profile_id", "revision", "evidence_claim_ids"}
      /\ x.id \in Profiles
  BY <1>1, Fields DEF Row
<1>3. x.application_id = x.id /\ x.profile_id = x.id /\ x.evidence_claim_ids = {x.id}
  BY DEF Rows, AnswerRows
<1>4. \A a \in ApplicationOf(d, x) : a.profile_id = x.id
  BY <1>2, <1>3, Owner DEF Rows
<1>5. \E k \in Named(d, "candidate_claims", x.id) : k.profile_id = x.id
  BY <1>2 DEF Rows, GroundRows, Named
<1>6. OwnerOf(d, x) \in {{}, {x.id}}
  BY <1>3, <1>4 DEF OwnerOf, Has
<1> QED BY <1>2, <1>3, <1>4, <1>5, <1>6 DEF RowOwned, AnswerOwned, BrowserOwned, Has

LEMMA OwnedDraft ==
    ASSUME NEW d, Typed(d), Rows(d), WorkflowsKnown(d), NEW x \in d["outbound_drafts"]
    PROVE  RowOwned(d, x) /\ AnswerOwned(d, x) /\ BrowserOwned(d, x)
<1>1. x \in Row["outbound_drafts"]
  BY OtherTables DEF Typed
<1>2. /\ DOMAIN x = {"id", "workflow_id", "document_version_ids"}
      /\ x.document_version_ids \subseteq Profiles
  BY <1>1, Fields DEF Row
<1>3. OwnerOf(d, x) = {a.profile_id : a \in ApplicationOf(d, x)}
  BY <1>2 DEF OwnerOf, Has
<1>4. \A a \in ApplicationOf(d, x) : a.profile_id = x.workflow_id /\ a.workflow_id = x.workflow_id
  BY <1>2, Owner DEF Rows
<1>5. ASSUME NEW v \in x.document_version_ids
      PROVE  OwnerOf(d, x) # {} /\ VersionOwner(d, v) = OwnerOf(d, x)
  <2>1. v = x.workflow_id /\ v \in Profiles
    BY <1>2, <1>5 DEF Rows, DraftRows
  <2>2. VersionOwner(d, v) = {v}
    BY <2>1, VersionOwned DEF Rows, GroundRows
  <2>3. \E a \in Named(d, "applications", v) : a.workflow_id = v
    BY <2>1 DEF Rows, GroundRows, Named
  <2>4. ApplicationOf(d, x) # {}
    BY <1>2, <2>1, <2>3 DEF ApplicationOf, Named
  <2> QED BY <1>3, <1>4, <2>1, <2>2, <2>4
<1> QED BY <1>2, <1>4, <1>5 DEF RowOwned, AnswerOwned, BrowserOwned, Has

\* Runs and challenges: of their browser's workflow.
LEMMA OwnedSession ==
    ASSUME NEW d, Typed(d), Rows(d),
           NEW x \in d["supervised_portal_runs"] \cup d["challenge_sessions"]
    PROVE  RowOwned(d, x) /\ AnswerOwned(d, x) /\ BrowserOwned(d, x)
<1>1. x \in Row["supervised_portal_runs"] \cup Row["challenge_sessions"]
  BY RecordedTables DEF Typed
<1>2. /\ {"workflow_id", "browser_session_id"} \subseteq DOMAIN x
      /\ DOMAIN x \cap {"profile_id", "application_id", "application_answer_id",
                        "document_version_id", "document_version_ids",
                        "evidence_claim_ids"} = {}
  BY <1>1, Fields
<1>3. \A a \in ApplicationOf(d, x) : a.workflow_id = x.workflow_id
  BY <1>2, Owner DEF Rows
<1>4. \E b \in Named(d, "browser_sessions", x.browser_session_id) : b.workflow_id = x.workflow_id
  BY DEF Rows, SessionRows
<1> QED BY <1>2, <1>3, <1>4 DEF RowOwned, AnswerOwned, BrowserOwned, Has

LEMMA OwnedBinding ==
    ASSUME NEW d, Typed(d), Rows(d), NEW x \in d["application_field_bindings"]
    PROVE  RowOwned(d, x) /\ AnswerOwned(d, x) /\ BrowserOwned(d, x)
<1>1. x \in Row["application_field_bindings"]
  BY OtherTables DEF Typed
<1>2. DOMAIN x = {"id", "application_id", "application_answer_id", "answer_revision"}
  BY <1>1, Fields
<1>3. /\ x.application_answer_id = x.application_id
      /\ \E y \in Named(d, "application_answers", x.application_id) :
              x.answer_revision <= y.revision
  BY DEF Rows, BindingRows
<1>4. \E y \in Named(d, "application_answers", x.application_answer_id) :
           y.application_id = x.application_id /\ x.answer_revision <= y.revision
  BY <1>3 DEF Rows, AnswerRows, Named
<1> QED BY <1>2, <1>4 DEF RowOwned, AnswerOwned, BrowserOwned, Has

LEMMA OwnedExecution ==
    ASSUME NEW d, Typed(d), Rows(d), NEW x \in d["application_field_executions"]
    PROVE  RowOwned(d, x) /\ AnswerOwned(d, x) /\ BrowserOwned(d, x) /\ ExecutionOwned(d, x)
<1>1. x \in Row["application_field_executions"]
  BY RecordedTables DEF Typed
<1>2. /\ DOMAIN x = {"id", "binding_id", "application_id", "application_answer_id",
                      "answer_revision", "supervised_run_id", "browser_session_id"}
      /\ x.application_id \in Profiles
  BY <1>1, Fields DEF Row
<1>3. PICK f \in Named(d, "application_field_bindings", x.binding_id) :
              /\ f.application_id = x.application_id
              /\ f.application_answer_id = x.application_answer_id
              /\ f.answer_revision = x.answer_revision
  BY DEF Rows, ExecutionRows
<1>4. PICK r \in Named(d, "supervised_portal_runs", x.supervised_run_id) :
              /\ r.browser_session_id = x.browser_session_id
              /\ r.workflow_id = x.application_id
  BY DEF Rows, ExecutionRows
<1>5. AnswerOwned(d, f) /\ "application_answer_id" \in DOMAIN f
  <2>1. f \in d["application_field_bindings"]
    BY DEF Named
  <2>2. f \in Row["application_field_bindings"]
    BY <2>1, OtherTables DEF Typed
  <2> QED BY <2>1, <2>2, OwnedBinding, Fields
<1>6. AnswerOwned(d, x)
  BY <1>2, <1>3, <1>5 DEF AnswerOwned
<1>7. {a.profile_id : a \in ApplicationOf(d, x)} = {x.application_id}
      /\ \A a \in ApplicationOf(d, x) : a.workflow_id = x.application_id
  BY <1>2, Owner DEF Rows
<1>8. PICK b \in Named(d, "browser_sessions", x.browser_session_id) : b.workflow_id = r.workflow_id
  BY <1>4 DEF Rows, SessionRows, Named
<1>9. BrowserOwned(d, x)
  BY <1>4, <1>7, <1>8 DEF BrowserOwned
<1>10. \E a \in ApplicationOf(d, x) : r.workflow_id = a.workflow_id
  BY <1>4, <1>7
<1> QED BY <1>2, <1>3, <1>4, <1>6, <1>9, <1>10 DEF RowOwned, ExecutionOwned, Has

LEMMA OwnedEvidence ==
    ASSUME NEW d, Typed(d), Rows(d), NEW x \in d["submitted_document_evidence"]
    PROVE  RowOwned(d, x) /\ AnswerOwned(d, x) /\ BrowserOwned(d, x)
<1>1. x \in Row["submitted_document_evidence"]
  BY RecordedTables DEF Typed
<1>2. /\ DOMAIN x = {"id", "application_id", "document_version_id"}
      /\ x.application_id \in Profiles
  BY <1>1, Fields DEF Row
<1>3. OwnerOf(d, x) = {x.application_id}
  BY <1>2, Owner DEF Rows, OwnerOf, Has
<1>4. VersionOwner(d, x.document_version_id) = {x.application_id}
  BY VersionOwned DEF Rows, EvidenceRows
<1> QED BY <1>2, <1>3, <1>4 DEF RowOwned, AnswerOwned, BrowserOwned, Has

LEMMA OwnedReview ==
    ASSUME NEW d, Typed(d), Rows(d), NEW x \in d["job_readiness_reviews"]
    PROVE  /\ RowOwned(d, x) /\ AnswerOwned(d, x) /\ BrowserOwned(d, x)
           /\ ReviewRests(d, x)
<1>1. x \in Row["job_readiness_reviews"]
  BY OtherTables DEF Typed
<1>2. DOMAIN x = {"id", "application_id", "kind", "edition", "requirements",
                  "qualification", "cited", "cleared", "version"}
  BY <1>1, Fields
<1>3. x.application_id \in Profiles
  BY <1>1 DEF Row
<1>4. OwnerOf(d, x) = {x.application_id}
  BY <1>2, <1>3, Owner DEF Rows, OwnerOf, Has
<1>5. RowOwned(d, x) /\ AnswerOwned(d, x) /\ BrowserOwned(d, x)
  BY <1>2 DEF RowOwned, AnswerOwned, BrowserOwned, Has
<1>6. /\ x.kind # "REQUIREMENTS" =>
            Reviews(d, x.requirements, "REQUIREMENTS", x.application_id) # {}
      /\ x.kind = "SELECTION" =>
              /\ \E q \in Reviews(d, x.qualification, "QUALIFICATION", x.application_id) :
                    q.cleared /\ q.requirements = x.requirements
              /\ Belongs(d, x.version, x.application_id)
  BY DEF Rows, ReviewRows
<1>7. \A c \in x.cited : \E k \in Named(d, "candidate_claims", c) : {k.profile_id} = OwnerOf(d, x)
  <2>1. \A c \in x.cited : c = x.application_id
    BY DEF Rows, ReviewRows
  <2>2. PICK k \in Named(d, "candidate_claims", x.application_id) : TRUE
    BY <1>3 DEF Rows, GroundRows
  <2>3. k.profile_id = x.application_id
    BY <2>2 DEF Rows, GroundRows, Named
  <2> QED BY <1>4, <2>1, <2>2, <2>3
<1>8. x.kind = "SELECTION" => VersionOwner(d, x.version) = OwnerOf(d, x)
  BY <1>4, <1>6, VersionOwned DEF Rows
<1> QED BY <1>5, <1>6, <1>7, <1>8 DEF ReviewRests

LEMMA RowsAreOwned ==
    ASSUME NEW d, Typed(d), Rows(d), WorkflowsKnown(d)
    PROVE  OwnershipHolds(d) /\ ReviewsRest(d)
<1>1. ASSUME NEW t \in Tables, NEW x \in d[t]
      PROVE  RowOwned(d, x) /\ AnswerOwned(d, x) /\ BrowserOwned(d, x)
  <2>1. CASE t \in Unlinked
    BY <2>1, <1>1, OwnedUnlinked
  <2>2. CASE t \in {"calendar_mutation_plans", "browser_sessions", "workflow_checkpoints",
                    "communication_follow_ups", "model_invocations", "documents",
                    "candidate_claims", "applications"}
    BY <2>2, <1>1, OwnedByName DEF Rows
  <2>3. CASE t \in {"application_answers", "outbound_drafts", "supervised_portal_runs",
                    "challenge_sessions", "application_field_bindings",
                    "application_field_executions", "submitted_document_evidence",
                    "job_readiness_reviews"}
    BY <2>3, <1>1, OwnedAnswer, OwnedDraft, OwnedSession, OwnedBinding, OwnedExecution,
       OwnedEvidence, OwnedReview
  <2> QED BY <2>1, <2>2, <2>3, AllTables DEF Recorded, ExactSets, Unlinked
<1> QED BY <1>1, OwnedExecution, OwnedReview DEF OwnershipHolds, ReviewsRest

\* Every column that names a row.
Refers(d, t, f, u) == \A x \in d[t] : x[f] # Null => Named(d, u, x[f]) # {}

LEMMA AnswersRefer ==
    ASSUME NEW d, Typed(d), Rows(d)
    PROVE  \A r \in AnswerReferences : Refers(d, r[1], r[2], r[3])
<1>1. \A x \in d["application_answers"] : x \in Row["application_answers"]
  BY OtherTables DEF Typed
<1>2. /\ Refers(d, "application_answers", "application_id", "applications")
      /\ Refers(d, "application_answers", "profile_id", "candidate_profiles")
  <2> SUFFICES ASSUME NEW x \in d["application_answers"]
               PROVE  /\ Named(d, "applications", x.application_id) # {}
                      /\ Named(d, "candidate_profiles", x.profile_id) # {}
    BY DEF Refers
  <2>1. x.application_id \in Profiles /\ x.profile_id \in Profiles
    BY <1>1 DEF Row
  <2> QED BY <2>1 DEF Rows, GroundRows
<1>3. /\ Refers(d, "application_field_bindings", "application_id", "applications")
      /\ Refers(d, "application_field_bindings", "application_answer_id", "application_answers")
  <2> SUFFICES ASSUME NEW x \in d["application_field_bindings"]
               PROVE  /\ Named(d, "applications", x.application_id) # {}
                      /\ Named(d, "application_answers", x.application_answer_id) # {}
    BY DEF Refers
  <2>1. x \in Row["application_field_bindings"]
    BY OtherTables DEF Typed
  <2>2. x.application_id \in Profiles /\ x.application_answer_id = x.application_id
    BY <2>1 DEF Row, Rows, BindingRows
  <2> QED BY <2>2 DEF Rows, GroundRows, AnswerRows
<1>4. /\ Refers(d, "application_field_executions", "binding_id", "application_field_bindings")
      /\ Refers(d, "application_field_executions", "application_id", "applications")
      /\ Refers(d, "application_field_executions", "application_answer_id", "application_answers")
      /\ Refers(d, "application_field_executions", "supervised_run_id", "supervised_portal_runs")
      /\ Refers(d, "application_field_executions", "browser_session_id", "browser_sessions")
  <2> SUFFICES ASSUME NEW x \in d["application_field_executions"]
               PROVE  /\ Named(d, "application_field_bindings", x.binding_id) # {}
                      /\ Named(d, "applications", x.application_id) # {}
                      /\ Named(d, "application_answers", x.application_answer_id) # {}
                      /\ Named(d, "supervised_portal_runs", x.supervised_run_id) # {}
                      /\ Named(d, "browser_sessions", x.browser_session_id) # {}
    BY DEF Refers
  <2>1. x \in Row["application_field_executions"]
    BY RecordedTables DEF Typed
  <2>2. x.application_id \in Profiles /\ x.application_answer_id \in Profiles
    BY <2>1 DEF Row
  <2>3. /\ Named(d, "application_field_bindings", x.binding_id) # {}
        /\ \E r \in Named(d, "supervised_portal_runs", x.supervised_run_id) :
              r.browser_session_id = x.browser_session_id
    BY DEF Rows, ExecutionRows
  <2>4. Named(d, "browser_sessions", x.browser_session_id) # {}
    BY <2>3 DEF Rows, SessionRows, Named
  <2> QED BY <2>2, <2>3, <2>4 DEF Rows, GroundRows, AnswerRows
<1> QED BY <1>2, <1>3, <1>4 DEF AnswerReferences

LEMMA CandidatesRefer ==
    ASSUME NEW d, Typed(d), Rows(d)
    PROVE  \A r \in CandidateReferences : Refers(d, r[1], r[2], r[3])
<1>1. Refers(d, "applications", "profile_id", "candidate_profiles")
  <2>1. \A x \in d["applications"] : x.profile_id \in Profiles
    BY OtherTables DEF Typed, Row
  <2> QED BY <2>1 DEF Rows, GroundRows, Refers
<1>2. Refers(d, "candidate_claims", "profile_id", "candidate_profiles")
  <2>1. \A x \in d["candidate_claims"] : x.profile_id \in Profiles
    BY OtherTables DEF Typed, Row
  <2> QED BY <2>1 DEF Rows, GroundRows, Refers
<1>3. /\ Refers(d, "calendar_mutation_claims", "id", "calendar_mutation_plans")
      /\ Refers(d, "calendar_mutation_claims", "audit_id", "communication_mutation_audits")
  <2> SUFFICES ASSUME NEW c \in d["calendar_mutation_claims"]
               PROVE  /\ Named(d, "calendar_mutation_plans", c.id) # {}
                      /\ Named(d, "communication_mutation_audits", c.audit_id) # {}
    BY DEF Refers
  <2>1. PICK a \in d["communication_mutation_audits"] :
             a.kind \in CalendarKinds /\ a.resource_id = c.id /\ a.id = c.audit_id
    BY DEF Rows, AttemptRows, CalendarClaimsLinked, Attempts
  <2>2. Named(d, "calendar_mutation_plans", c.id) # {}
    BY <2>1 DEF Rows, AttemptRows, AttemptsHaveSource, CalendarKinds
  <2> QED BY <2>1, <2>2 DEF Named
<1> QED BY <1>1, <1>2, <1>3 DEF CandidateReferences

LEMMA DocumentsRefer ==
    ASSUME NEW d, Typed(d), Rows(d)
    PROVE  \A r \in DocumentReferences : Refers(d, r[1], r[2], r[3])
<1>1. Refers(d, "challenge_sessions", "browser_session_id", "browser_sessions")
  BY DEF Rows, SessionRows, Refers
<1>2. Refers(d, "document_versions", "document_id", "documents")
  <2>1. \A x \in d["document_versions"] : x.document_id \in Profiles
    BY OtherTables DEF Typed, Row
  <2> QED BY <2>1 DEF Rows, GroundRows, Refers
<1>3. Refers(d, "documents", "profile_id", "candidate_profiles")
  <2>1. \A x \in d["documents"] : x.profile_id \in Profiles
    BY OtherTables DEF Typed, Row
  <2> QED BY <2>1 DEF Rows, GroundRows, Refers
<1> QED BY <1>1, <1>2, <1>3 DEF DocumentReferences

LEMMA MailRefers ==
    ASSUME NEW d, Typed(d), Rows(d)
    PROVE  \A r \in MailReferences : Refers(d, r[1], r[2], r[3])
<1>1. Refers(d, "job_readiness_reviews", "application_id", "applications")
  <2>1. \A x \in d["job_readiness_reviews"] : x.application_id \in Profiles
    BY OtherTables DEF Typed, Row
  <2> QED BY <2>1 DEF Rows, GroundRows, Refers
<1>2. /\ Refers(d, "mail_send_claims", "id", "outbound_drafts")
      /\ Refers(d, "mail_send_claims", "audit_id", "communication_mutation_audits")
  <2> SUFFICES ASSUME NEW c \in d["mail_send_claims"]
               PROVE  /\ Named(d, "outbound_drafts", c.id) # {}
                      /\ Named(d, "communication_mutation_audits", c.audit_id) # {}
    BY DEF Refers
  <2>1. PICK a \in d["communication_mutation_audits"] :
             a.kind = "SEND_MESSAGE" /\ a.resource_id = c.id /\ a.id = c.audit_id
    BY DEF Rows, AttemptRows, MailClaimsLinked, Named
  <2>2. Named(d, "outbound_drafts", c.id) # {}
    BY <2>1 DEF Rows, AttemptRows, AttemptsHaveSource
  <2> QED BY <2>1, <2>2 DEF Named
<1> QED BY <1>1, <1>2 DEF MailReferences

LEMMA PortalsRefer ==
    ASSUME NEW d, Typed(d), Rows(d)
    PROVE  \A r \in PortalReferences : Refers(d, r[1], r[2], r[3])
<1>1. Refers(d, "submitted_document_evidence", "application_id", "applications")
  <2>1. \A x \in d["submitted_document_evidence"] : x.application_id \in Profiles
    BY RecordedTables DEF Typed, Row
  <2> QED BY <2>1 DEF Rows, GroundRows, Refers
<1>2. Refers(d, "submitted_document_evidence", "document_version_id", "document_versions")
  BY DEF Rows, EvidenceRows, Belongs, Refers
<1>3. Refers(d, "supervised_portal_runs", "browser_session_id", "browser_sessions")
  BY DEF Rows, SessionRows, Refers
<1> QED BY <1>1, <1>2, <1>3 DEF PortalReferences

LEMMA RowsRefer == ASSUME NEW d, Typed(d), Rows(d) PROVE ReferencesHold(d)
<1>1. \A r \in References : Refers(d, r[1], r[2], r[3])
  BY AnswersRefer, CandidatesRefer, DocumentsRefer, MailRefers, PortalsRefer DEF References
<1> QED BY <1>1 DEF ReferencesHold, Refers

\* No two rows of a table share a key or a column that is unique.
LEMMA RowsAreUnique ==
    ASSUME NEW d, Typed(d), Rows(d)
    PROVE  \A u \in Uniques : \A x, y \in d[u[1]] : x[u[2]] = y[u[2]] => x = y
<1>1. \A x, y \in d["applications"] : x.workflow_id = y.workflow_id => x = y
  BY OtherTables DEF Rows, GroundRows, Keyed
<1>2. \A x, y \in d["mail_send_claims"] : x.audit_id = y.audit_id => x = y
  BY RecordedTables DEF Rows, AttemptRows, MailClaimsLinked, Named, Keyed
<1>3. \A x, y \in d["calendar_mutation_claims"] : x.audit_id = y.audit_id => x = y
  BY RecordedTables DEF Rows, AttemptRows, CalendarClaimsLinked, Attempts, Keyed
<1>4. \A x, y \in d["supervised_portal_runs"] : x.browser_session_id = y.browser_session_id => x = y
  BY DEF Rows, SessionRows
<1>5. \A x, y \in d["communication_follow_ups"] : x.dedupe_key = y.dedupe_key => x = y
  BY DEF Rows, FollowUpRows
<1> QED BY <1>1, <1>2, <1>3, <1>4, <1>5 DEF Uniques

LEMMA RowsAreClosed ==
    ASSUME NEW d, Typed(d), Rows(d), ClaimedRows(d), ~Orphans(d)
    PROVE  Closed(d)
<1>1. WorkflowsKnown(d) /\ ProfilesKnown(d)
  BY DEF Orphans, WorkflowsKnown
<1>2. AttemptsLinked(d)
  BY DEF AttemptsLinked, Rows, AttemptRows, ClaimedRows
<1> QED BY <1>1, <1>2, RowsRefer, RowsAreOwned DEF Closed

LEMMA KeptIsAdmitted == TypeOK /\ HistoryKept => MatchingIsAdmitted
<1> SUFFICES ASSUME TypeOK, HistoryKept, revision = "modern", Resolved(db), Whole, ~Orphans(db),
                    NEW chosen \in Categories
             PROVE  HistoryAdmits(Here, Here, files, StagedFiles(Here, chosen))
  BY DEF MatchingIsAdmitted, Matching
<1>1. Here.db = db /\ Here.revision = "modern" /\ Here.files = files
  BY DEF Here
<1>2. Rows(db) /\ ClaimedRows(db) /\ Typed(db)
  BY <1>1 DEF HistoryKept, Kept, TypeOK
<1>3. Readable(Here)
  <2>1. \A t \in Tables : \A x, y \in db[t] : x.id = y.id => x = y
    BY <1>2 DEF Rows, Keyed
  <2> QED BY <1>1, <1>2, <2>1, RowsAreUnique DEF Readable
<1>4. Closed(db)
  BY <1>2, RowsAreClosed
<1>5. RowsKept(db, db)
  BY DEF RowsKept
<1>6. DocumentsKept(db, db, files, StagedFiles(Here, chosen))
  <2> DEFINE staged == StagedFiles(Here, chosen)
  <2> SUFFICES ASSUME NEW v \in db["document_versions"]
               PROVE  Copies(db, v, files, staged) = {"good"}
    BY DEF DocumentsKept
  <2>1. files[v.id] = "good"
    BY DEF Whole
  <2>2. v.id \in Ids \cup Profiles
    BY <1>2, OtherTables DEF Typed, Row, Keys
  <2>3. staged[v.id] \in {"good", "none"}
    BY <1>1, <2>1, <2>2 DEF StagedFiles, NoFiles
  <2> QED BY <2>1, <2>3 DEF Copies
<1> QED BY <1>1, <1>3, <1>4, <1>5, <1>6 DEF HistoryAdmits

(***************************************************************************)
(* What every writer keeps.  A table that a fact only looks rows up in may *)
(* grow; the ones it speaks of are the same or have their own argument.    *)
(***************************************************************************)
Alike(d, e, T) == \A u \in T : e[u] = d[u]
Grow(d, e, T) == \A u \in T : d[u] \subseteq e[u]

LEMMA Framed ==
    ASSUME NEW d, NEW e, Rows(d)
    PROVE  /\ /\ Alike(d, e, {"applications", "documents", "candidate_claims"})
              /\ Grow(d, e, {"candidate_profiles", "document_versions"})
              => GroundRows(e)
           /\ Alike(d, e, {"application_answers"}) => AnswerRows(e)
           /\ Alike(d, e, {"outbound_drafts"}) => DraftRows(e)
           /\ Alike(d, e, {"communication_follow_ups"}) => FollowUpRows(e)
           /\ /\ Alike(d, e, {"supervised_portal_runs", "challenge_sessions"})
              /\ Grow(d, e, {"browser_sessions"})
              => SessionRows(e)
           /\ /\ Alike(d, e, {"application_field_bindings"})
              /\ Grow(d, e, {"application_answers"})
              => BindingRows(e)
           /\ /\ Alike(d, e, {"application_field_executions"})
              /\ Grow(d, e, {"application_field_bindings", "supervised_portal_runs"})
              => ExecutionRows(e)
           /\ /\ Alike(d, e, {"submitted_document_evidence"})
              /\ Grow(d, e, {"document_versions"})
              => EvidenceRows(e)
           /\ /\ Alike(d, e, {"job_readiness_reviews"})
              /\ Grow(d, e, {"document_versions"})
              => ReviewRows(e)
           /\ /\ Alike(d, e, {"communication_mutation_audits", "mail_send_claims",
                              "calendar_mutation_claims"})
              /\ Grow(d, e, {"outbound_drafts", "calendar_mutation_plans"})
              => AttemptRows(e)
<1>1. /\ Alike(d, e, {"applications", "documents", "candidate_claims"})
      /\ Grow(d, e, {"candidate_profiles", "document_versions"})
      => GroundRows(e)
  BY DEF Rows, GroundRows, Named, Belongs, Alike, Grow
<1>2. /\ Alike(d, e, {"application_answers"}) => AnswerRows(e)
      /\ Alike(d, e, {"outbound_drafts"}) => DraftRows(e)
      /\ Alike(d, e, {"communication_follow_ups"}) => FollowUpRows(e)
  BY DEF Rows, AnswerRows, DraftRows, FollowUpRows, Named, Alike
<1>3. /\ Alike(d, e, {"supervised_portal_runs", "challenge_sessions"})
      /\ Grow(d, e, {"browser_sessions"})
      => SessionRows(e)
  BY DEF Rows, SessionRows, Named, Alike, Grow
<1>4. /\ Alike(d, e, {"application_field_bindings"})
      /\ Grow(d, e, {"application_answers"})
      => BindingRows(e)
  BY DEF Rows, BindingRows, Named, Alike, Grow
<1>5. /\ Alike(d, e, {"application_field_executions"})
      /\ Grow(d, e, {"application_field_bindings", "supervised_portal_runs"})
      => ExecutionRows(e)
  BY DEF Rows, ExecutionRows, Named, Alike, Grow
<1>6. /\ Alike(d, e, {"submitted_document_evidence"})
      /\ Grow(d, e, {"document_versions"})
      => EvidenceRows(e)
  BY DEF Rows, EvidenceRows, Belongs, Named, Alike, Grow
<1>7. /\ Alike(d, e, {"job_readiness_reviews"})
      /\ Grow(d, e, {"document_versions"})
      => ReviewRows(e)
  BY DEF Rows, ReviewRows, Reviews, Belongs, Named, Alike, Grow
<1>8. /\ Alike(d, e, {"communication_mutation_audits", "mail_send_claims",
                      "calendar_mutation_claims"})
      /\ Grow(d, e, {"outbound_drafts", "calendar_mutation_plans"})
      => AttemptRows(e)
  BY DEF Rows, AttemptRows, AttemptsHaveSource, MailClaimsLinked, CalendarClaimsLinked,
     Attempts, Named, Alike, Grow
<1> QED BY <1>1, <1>2, <1>3, <1>4, <1>5, <1>6, <1>7, <1>8

LEMMA FramedClaims ==
    ASSUME NEW d, NEW e, ClaimedRows(d),
           Alike(d, e, {"communication_mutation_audits", "calendar_mutation_claims"})
    PROVE  ClaimedRows(e)
  BY DEF ClaimedRows, AttemptsClaimed, Attempts, Named, Alike

\* A writer's step, and what it leaves: the rows in order, the rest as it was.
KeptRows ==
    /\ Rows(db') /\ ClaimedRows(db')
    /\ revision' = "modern" /\ backups' = backups

LEMMA Committed ==
    ASSUME NEW new, Commit(new)
    PROVE  /\ \A t \in Tables : db'[t] = IF t \in DOMAIN new THEN new[t] ELSE db[t]
           /\ revision' = revision /\ backups' = backups
  BY DEF Commit, Rewritten

LEMMA KeyedStep ==
    ASSUME Keyed(db), NEW new, Commit(new),
           \A t \in Tables \cap DOMAIN new : \A x, y \in new[t] : x.id = y.id => x = y
    PROVE  Keyed(db')
<1>1. \A t \in Tables : db'[t] = IF t \in DOMAIN new THEN new[t] ELSE db[t]
  BY Committed
<1> QED BY <1>1 DEF Keyed

\* One row more: what does not speak of its table stands.
Inserted(t, x) ==
    /\ Keyed(db') /\ db'[t] = db[t] \cup {x}
    /\ \A u \in Tables \ {t} : db'[u] = db[u]
    /\ revision' = revision /\ backups' = backups

LEMMA InsertRow ==
    ASSUME Rows(db), NEW t \in Tables, NEW x, x.id \in Fresh(t), Commit(Insert(t, x))
    PROVE  Inserted(t, x)
<1>1. /\ DOMAIN Insert(t, x) = {t} /\ Insert(t, x)[t] = db[t] \cup {x}
  BY DEF Insert
<1>2. \A y \in db[t] : y.id # x.id
  BY DEF Fresh, Named
<1>3. \A y, z \in db[t] \cup {x} : y.id = z.id => y = z
  BY <1>2 DEF Rows, Keyed
<1>4. Keyed(db')
  BY <1>1, <1>3, KeyedStep DEF Rows
<1> QED BY <1>1, <1>4, Committed DEF Inserted

\* The tables a new row is written to without its own argument for attempts.
Plain == {"outbound_drafts", "calendar_mutation_plans", "communication_follow_ups",
          "browser_sessions", "challenge_sessions", "application_field_bindings",
          "application_field_executions", "workflow_checkpoints", "document_versions",
          "submitted_document_evidence", "model_invocations", "ai_media_cleanup",
          "job_readiness_reviews"}

LEMMA PlainTables == Plain \subseteq Tables
  BY OtherTables, RecordedTables DEF Plain

LEMMA InsertKeeps ==
    ASSUME Rows(db), ClaimedRows(db), revision = "modern",
           NEW t \in Plain, NEW x, Inserted(t, x),
           t = "outbound_drafts" => DraftRows(db'),
           t = "communication_follow_ups" => FollowUpRows(db'),
           t = "challenge_sessions" => SessionRows(db'),
           t = "application_field_bindings" => BindingRows(db'),
           t = "application_field_executions" => ExecutionRows(db'),
           t = "submitted_document_evidence" => EvidenceRows(db'),
           t = "job_readiness_reviews" => ReviewRows(db')
    PROVE  KeptRows
<1>1. \A u \in Tables : u # t => db'[u] = db[u]
  BY DEF Inserted
<1>2. \A u \in Tables : db[u] \subseteq db'[u]
  BY <1>1 DEF Inserted
<1>3. /\ Alike(db, db', {"applications", "documents", "candidate_claims"})
      /\ Alike(db, db', {"application_answers"})
      /\ Alike(db, db', {"supervised_portal_runs"})
      /\ Alike(db, db', {"communication_mutation_audits", "mail_send_claims",
                         "calendar_mutation_claims"})
  BY <1>1, OtherTables, RecordedTables DEF Alike, Plain
<1>4. /\ t # "outbound_drafts" => Alike(db, db', {"outbound_drafts"})
      /\ t # "communication_follow_ups" => Alike(db, db', {"communication_follow_ups"})
      /\ t # "challenge_sessions" =>
            Alike(db, db', {"supervised_portal_runs", "challenge_sessions"})
      /\ t # "application_field_bindings" => Alike(db, db', {"application_field_bindings"})
      /\ t # "application_field_executions" => Alike(db, db', {"application_field_executions"})
      /\ t # "submitted_document_evidence" => Alike(db, db', {"submitted_document_evidence"})
      /\ t # "job_readiness_reviews" => Alike(db, db', {"job_readiness_reviews"})
  BY <1>1, <1>3, OtherTables, RecordedTables DEF Alike
<1>5. \A T : T \subseteq Tables => Grow(db, db', T)
  BY <1>2 DEF Grow
<1>6. /\ Grow(db, db', {"candidate_profiles", "document_versions"})
      /\ Grow(db, db', {"browser_sessions"}) /\ Grow(db, db', {"application_answers"})
      /\ Grow(db, db', {"application_field_bindings", "supervised_portal_runs"})
      /\ Grow(db, db', {"document_versions"})
      /\ Grow(db, db', {"outbound_drafts", "calendar_mutation_plans"})
  BY <1>5, OtherTables, RecordedTables
<1>7. GroundRows(db') /\ AnswerRows(db') /\ AttemptRows(db')
  BY <1>3, <1>6, Framed
<1>8. DraftRows(db') /\ FollowUpRows(db') /\ SessionRows(db')
  BY <1>4, <1>6, Framed
<1>9. BindingRows(db') /\ ExecutionRows(db') /\ EvidenceRows(db') /\ ReviewRows(db')
  BY <1>4, <1>6, Framed
<1>10. ClaimedRows(db')
  BY <1>3, FramedClaims DEF Alike
<1> QED BY <1>7, <1>8, <1>9, <1>10 DEF KeptRows, Rows, Inserted

\* A writer works on a modern workspace whose rows are in order.
Ready == TypeOK /\ Rows(db) /\ ClaimedRows(db) /\ revision = "modern"

LEMMA PlainInsert ==
    ASSUME Ready, NEW t \in Plain, NEW x, x.id \in Fresh(t), Write(Insert(t, x))
    PROVE  Inserted(t, x)
<1>1. Commit(Insert(t, x))
  BY DEF Write
<1> QED BY <1>1, InsertRow, PlainTables DEF Ready

LEMMA DraftKept ==
    ASSUME Ready, NEW i, NEW w, NEW versions \in SUBSET Profiles, CreateDraft(i, w, versions)
    PROVE  KeptRows
<1> DEFINE x == [id |-> i, workflow_id |-> w, document_version_ids |-> versions]
<1>1. Inserted("outbound_drafts", x)
  BY PlainInsert DEF CreateDraft, Plain
<1>2. \A v \in versions : v = w
  <2> SUFFICES ASSUME NEW v \in versions PROVE v = w
    OBVIOUS
  <2>1. PICK a \in db["applications"] : a.workflow_id = w /\ VersionOwner(db, v) = {a.profile_id}
    BY DEF CreateDraft
  <2>2. VersionOwner(db, v) = {v}
    BY VersionOwned DEF Ready, TypeOK, Rows, GroundRows
  <2>3. a.profile_id = a.workflow_id
    BY DEF Ready, Rows, GroundRows
  <2> QED BY <2>1, <2>2, <2>3
<1>3. DraftRows(db')
  BY <1>1, <1>2 DEF Inserted, Ready, Rows, DraftRows
<1> QED BY <1>1, <1>3, InsertKeeps DEF Ready, Plain

LEMMA PlanKept ==
    ASSUME Ready, NEW i, NEW w, PlanCalendar(i, w) PROVE KeptRows
<1> DEFINE x == [id |-> i, workflow_id |-> w, kind |-> "CREATE_CALENDAR_EVENT"]
<1>1. Inserted("calendar_mutation_plans", x)
  BY PlainInsert DEF PlanCalendar, Plain
<1> QED BY <1>1, InsertKeeps DEF Ready, Plain

LEMMA FollowUpKept ==
    ASSUME Ready, NEW i, NEW w, ScheduleFollowUp(i, w) PROVE KeptRows
<1> DEFINE x == [id |-> i, workflow_id |-> w, dedupe_key |-> w]
<1>1. Inserted("communication_follow_ups", x)
  BY PlainInsert DEF ScheduleFollowUp, Plain
<1>2. \A f \in db["communication_follow_ups"] : f.dedupe_key # x.dedupe_key
  BY DEF ScheduleFollowUp
<1>3. FollowUpRows(db')
  BY <1>1, <1>2 DEF Inserted, Ready, Rows, FollowUpRows
<1> QED BY <1>1, <1>3, InsertKeeps DEF Ready, Plain

LEMMA OpenKept ==
    ASSUME Ready, NEW i, NEW w, OpenBrowser(i, w) PROVE KeptRows
<1>1. Inserted("browser_sessions", Session(i, w))
  BY PlainInsert DEF OpenBrowser, Plain, Session
<1> QED BY <1>1, InsertKeeps DEF Ready, Plain

LEMMA ChallengeKept ==
    ASSUME Ready, NEW i, NEW w, NEW b \in db["browser_sessions"], DetectChallenge(i, w, b)
    PROVE  KeptRows
<1> DEFINE x == [id |-> i, workflow_id |-> w, browser_session_id |-> b.id,
                 status |-> "IN_PROGRESS"]
<1>1. Inserted("challenge_sessions", x)
  BY PlainInsert DEF DetectChallenge, Plain
<1>2. b \in Named(db, "browser_sessions", x.browser_session_id) /\ b.workflow_id = x.workflow_id
  BY DEF DetectChallenge, Named
<1>3. SessionRows(db')
  <2>1. /\ db'["challenge_sessions"] = db["challenge_sessions"] \cup {x}
        /\ db'["supervised_portal_runs"] = db["supervised_portal_runs"]
        /\ db'["browser_sessions"] = db["browser_sessions"]
    BY <1>1, RecordedTables DEF Inserted
  <2> HIDE DEF x
  <2> QED BY <1>2, <2>1 DEF Ready, Rows, SessionRows, Named
<1> QED BY <1>1, <1>3, InsertKeeps DEF Ready, Plain

LEMMA BindKept ==
    ASSUME Ready, NEW i, NEW a \in db["application_answers"], BindField(i, a)
    PROVE  KeptRows
<1> DEFINE x == [id |-> i, application_id |-> a.application_id,
                 application_answer_id |-> a.id, answer_revision |-> a.revision]
<1>1. Inserted("application_field_bindings", x)
  BY PlainInsert DEF BindField, Plain
<1>2. a.application_id = a.id /\ a.revision \in Nat
  BY OtherTables, RowsOf DEF Ready, Rows, AnswerRows, Row
<1>3. a \in Named(db, "application_answers", x.application_id) /\ x.answer_revision <= a.revision
      /\ x.application_answer_id = x.application_id
  BY <1>2 DEF Named
<1>4. BindingRows(db')
  <2>1. /\ db'["application_field_bindings"] = db["application_field_bindings"] \cup {x}
        /\ db'["application_answers"] = db["application_answers"]
    BY <1>1, OtherTables DEF Inserted
  <2> HIDE DEF x
  <2> QED BY <1>3, <2>1 DEF Ready, Rows, BindingRows, Named
<1> QED BY <1>1, <1>4, InsertKeeps DEF Ready, Plain

LEMMA ExecuteKept ==
    ASSUME Ready, NEW i, NEW f \in db["application_field_bindings"],
           NEW r \in db["supervised_portal_runs"], ExecuteField(i, f, r)
    PROVE  KeptRows
<1> DEFINE x == [id |-> i, binding_id |-> f.id, application_id |-> f.application_id,
                 application_answer_id |-> f.application_answer_id,
                 answer_revision |-> f.answer_revision,
                 supervised_run_id |-> r.id, browser_session_id |-> r.browser_session_id]
<1>1. Inserted("application_field_executions", x)
  BY PlainInsert DEF ExecuteField, Plain
<1>2. f.application_id = r.workflow_id
  BY DEF ExecuteField, Ready, Rows, GroundRows, Named
<1>3. /\ f \in Named(db, "application_field_bindings", x.binding_id)
      /\ f.application_id = x.application_id
      /\ f.application_answer_id = x.application_answer_id
      /\ f.answer_revision = x.answer_revision
      /\ r \in Named(db, "supervised_portal_runs", x.supervised_run_id)
      /\ r.browser_session_id = x.browser_session_id /\ r.workflow_id = x.application_id
  BY <1>2 DEF Named
<1>4. ExecutionRows(db')
  <2>1. /\ db'["application_field_executions"] = db["application_field_executions"] \cup {x}
        /\ db'["application_field_bindings"] = db["application_field_bindings"]
        /\ db'["supervised_portal_runs"] = db["supervised_portal_runs"]
    BY <1>1, OtherTables, RecordedTables DEF Inserted
  <2> HIDE DEF x
  <2> QED BY <1>3, <2>1 DEF Ready, Rows, ExecutionRows, Named
<1> QED BY <1>1, <1>4, InsertKeeps DEF Ready, Plain

LEMMA CheckpointKept ==
    ASSUME Ready, NEW i, NEW w, SaveCheckpoint(i, w) PROVE KeptRows
<1>1. Inserted("workflow_checkpoints", [id |-> i, workflow_id |-> w])
  BY PlainInsert DEF SaveCheckpoint, Plain
<1> QED BY <1>1, InsertKeeps DEF Ready, Plain

LEMMA VersionKept ==
    ASSUME Ready, NEW i, NEW d, IngestVersion(i, d) PROVE KeptRows
<1> DEFINE x == [id |-> i, document_id |-> d.id]
<1>1. Commit(Insert("document_versions", x)) /\ x.id \in Fresh("document_versions")
  BY DEF IngestVersion
<1>2. Inserted("document_versions", x)
  BY <1>1, InsertRow, OtherTables DEF Ready
<1> QED BY <1>2, InsertKeeps DEF Ready, Plain

LEMMA EvidenceKept ==
    ASSUME Ready, NEW i, NEW a \in db["applications"], NEW v \in db["document_versions"],
           SubmitEvidence(i, a, v)
    PROVE  KeptRows
<1> DEFINE x == [id |-> i, application_id |-> a.id, document_version_id |-> v.id]
<1>1. Inserted("submitted_document_evidence", x)
  BY PlainInsert DEF SubmitEvidence, Plain
<1>2. Belongs(db, v.id, v.document_id)
  BY DEF Belongs, Named
<1>3. VersionOwner(db, v.id) = {v.document_id}
  BY <1>2, VersionOwned DEF Ready, TypeOK, Rows
<1>4. v.document_id = a.id
  BY <1>3 DEF SubmitEvidence, Ready, Rows, GroundRows
<1>5. EvidenceRows(db')
  <2>1. /\ db'["submitted_document_evidence"] = db["submitted_document_evidence"] \cup {x}
        /\ db'["document_versions"] = db["document_versions"]
    BY <1>1, OtherTables DEF Inserted
  <2>2. Belongs(db, x.document_version_id, x.application_id)
    BY <1>2, <1>4
  <2> HIDE DEF x
  <2> QED BY <2>1, <2>2 DEF Ready, Rows, EvidenceRows, Belongs, Named
<1> QED BY <1>1, <1>5, InsertKeeps DEF Ready, Plain

LEMMA InvocationKept ==
    ASSUME Ready, NEW i, NEW p, Invoke(i, p) PROVE KeptRows
<1>1. Inserted("model_invocations", [id |-> i, profile_id |-> p])
  BY PlainInsert DEF Invoke, Plain
<1> QED BY <1>1, InsertKeeps DEF Ready, Plain

LEMMA CleanupKept ==
    ASSUME Ready, NEW i, OweMedia(i) PROVE KeptRows
<1>1. Inserted("ai_media_cleanup", [id |-> i, state |-> "ACTIVE"])
  BY PlainInsert DEF OweMedia, Plain
<1> QED BY <1>1, InsertKeeps DEF Ready, Plain

\* A review stands on rows that are there when it is written.
Rested(r) ==
    /\ r.kind # "REQUIREMENTS" => Reviews(db, r.requirements, "REQUIREMENTS", r.application_id) # {}
    /\ \A c \in r.cited : c = r.application_id
    /\ r.kind = "SELECTION" =>
          /\ \E q \in Reviews(db, r.qualification, "QUALIFICATION", r.application_id) :
                q.cleared /\ q.requirements = r.requirements
          /\ Belongs(db, r.version, r.application_id)

LEMMA ReviewKept ==
    ASSUME Ready, NEW r, r.id \in Fresh("job_readiness_reviews"),
           Write(Insert("job_readiness_reviews", r)), Rested(r)
    PROVE  KeptRows
<1>1. Inserted("job_readiness_reviews", r)
  BY PlainInsert DEF Plain
<1>2. ReviewRows(db')
  <2>1. /\ db'["job_readiness_reviews"] = db["job_readiness_reviews"] \cup {r}
        /\ db'["document_versions"] = db["document_versions"]
    BY <1>1, OtherTables DEF Inserted
  <2>2. \A i, k, a : Reviews(db, i, k, a) \subseteq Reviews(db', i, k, a)
    BY <2>1 DEF Reviews, Named
  <2>3. \A i, p : Belongs(db', i, p) <=> Belongs(db, i, p)
    BY <2>1 DEF Belongs, Named
  <2>4. \A o \in db'["job_readiness_reviews"] : Rested(o)
    BY <2>1 DEF Rested, Ready, Rows, ReviewRows
  <2> QED BY <2>2, <2>3, <2>4 DEF Rested, ReviewRows
<1> QED BY <1>1, <1>2, InsertKeeps DEF Ready, Plain

LEMMA RequirementsKept ==
    ASSUME Ready, NEW i, NEW a, RecordRequirements(i, a) PROVE KeptRows
<1>1. /\ Review(i, a, "REQUIREMENTS").kind = "REQUIREMENTS"
      /\ Review(i, a, "REQUIREMENTS").cited = {} /\ Review(i, a, "REQUIREMENTS").id = i
  BY DEF Review
<1>2. Rested(Review(i, a, "REQUIREMENTS"))
  BY <1>1 DEF Rested
<1> QED BY <1>1, <1>2, ReviewKept DEF RecordRequirements, WriteReview

LEMMA Recalls ==
    ASSUME NEW a, NEW kind, NEW q \in LastReview(a, kind)
    PROVE  q \in db["job_readiness_reviews"] /\ q.application_id = a.id /\ q.kind = kind
           /\ q \in Reviews(db, q.id, kind, a.id)
  BY DEF LastReview, Recalled, Reviews, Named

LEMMA QualificationKept ==
    ASSUME Ready, NEW i, NEW a \in db["applications"], NEW cited \in SUBSET Profiles,
           NEW cleared \in BOOLEAN, RecordQualification(i, a, cited, cleared)
    PROVE  KeptRows
<1>1. PICK q \in LastReview(a, "REQUIREMENTS") :
          WriteReview(i, [Review(i, a, "QUALIFICATION") EXCEPT
                             !.requirements = q.id, !.cited = cited, !.cleared = cleared])
  BY DEF RecordQualification
<1> DEFINE r == [Review(i, a, "QUALIFICATION") EXCEPT
                    !.requirements = q.id, !.cited = cited, !.cleared = cleared]
<1>2. /\ r.id = i /\ r.kind = "QUALIFICATION" /\ r.application_id = a.id
      /\ r.requirements = q.id /\ r.cited = cited
  BY DEF Review
<1> HIDE DEF r
<1>3. \A c \in cited : c = a.id
  BY DEF RecordQualification, Ready, Rows, GroundRows, Named
<1>4. Rested(r)
  BY <1>2, <1>3, Recalls DEF Rested
<1> QED BY <1>1, <1>2, <1>4, ReviewKept DEF r, WriteReview

LEMMA SelectionKept ==
    ASSUME Ready, NEW i, NEW a \in db["applications"], NEW v \in db["document_versions"],
           RecordSelection(i, a, v)
    PROVE  KeptRows
<1>1. PICK q \in LastReview(a, "QUALIFICATION") :
          /\ q.cleared
          /\ WriteReview(i, [Review(i, a, "SELECTION") EXCEPT
                                !.requirements = q.requirements, !.qualification = q.id,
                                !.version = v.id])
  BY DEF RecordSelection
<1> DEFINE r == [Review(i, a, "SELECTION") EXCEPT
                   !.requirements = q.requirements, !.qualification = q.id, !.version = v.id]
<1>2. /\ r.id = i /\ r.kind = "SELECTION" /\ r.application_id = a.id
      /\ r.requirements = q.requirements /\ r.qualification = q.id /\ r.version = v.id
      /\ r.cited = {}
  BY DEF Review
<1> HIDE DEF r
<1>3. Belongs(db, v.id, v.document_id)
  BY DEF Belongs, Named
<1>4. VersionOwner(db, v.id) = {v.document_id}
  BY <1>3, VersionOwned DEF Ready, TypeOK, Rows
<1>5. Belongs(db, v.id, a.id)
  BY <1>3, <1>4 DEF RecordSelection, Ready, Rows, GroundRows
<1>6. Reviews(db, q.requirements, "REQUIREMENTS", a.id) # {}
  BY Recalls DEF Ready, Rows, ReviewRows
<1>7. Rested(r)
  BY <1>1, <1>2, <1>5, <1>6, Recalls DEF Rested
<1> QED BY <1>1, <1>2, <1>7, ReviewKept DEF r, WriteReview

\* A transaction of tables that no fact speaks of but their key.
Apart == {"oauth_credentials", "oauth_authorization_sessions", "communication_configurations",
          "provider_calendar_events", "ai_media_cleanup"}

LEMMA ApartKept ==
    ASSUME Ready, NEW new, Write(new), NEW t \in Apart, DOMAIN new = {t},
           \A x, y \in new[t] : x.id = y.id => x = y
    PROVE  KeptRows
<1>1. Commit(new)
  BY DEF Write
<1>2. \A u \in Tables \ Apart : db'[u] = db[u]
  BY <1>1, Committed
<1>3. Keyed(db')
  BY <1>1, KeyedStep DEF Ready, Rows
<1>4. /\ Alike(db, db', {"applications", "documents", "candidate_claims"})
      /\ Alike(db, db', {"application_answers"})
      /\ Alike(db, db', {"outbound_drafts"}) /\ Alike(db, db', {"communication_follow_ups"})
      /\ Alike(db, db', {"application_field_bindings"})
      /\ Alike(db, db', {"job_readiness_reviews"})
      /\ Grow(db, db', {"candidate_profiles", "document_versions"})
      /\ Grow(db, db', {"application_answers"}) /\ Grow(db, db', {"document_versions"})
  BY <1>2, OtherTables DEF Alike, Grow, Apart
<1>5. /\ Alike(db, db', {"supervised_portal_runs", "challenge_sessions"})
      /\ Alike(db, db', {"application_field_executions"})
      /\ Alike(db, db', {"submitted_document_evidence"})
      /\ Alike(db, db', {"communication_mutation_audits", "mail_send_claims",
                         "calendar_mutation_claims"})
      /\ Alike(db, db', {"communication_mutation_audits", "calendar_mutation_claims"})
      /\ Grow(db, db', {"browser_sessions"})
      /\ Grow(db, db', {"application_field_bindings", "supervised_portal_runs"})
      /\ Grow(db, db', {"outbound_drafts", "calendar_mutation_plans"})
  BY <1>2, OtherTables, RecordedTables DEF Alike, Grow, Apart
<1>6. Rows(db')
  <2>1. GroundRows(db') /\ AnswerRows(db') /\ DraftRows(db') /\ FollowUpRows(db')
    BY <1>4, Framed DEF Ready
  <2>2. SessionRows(db') /\ BindingRows(db') /\ ExecutionRows(db')
    BY <1>4, <1>5, Framed DEF Ready
  <2>3. EvidenceRows(db') /\ ReviewRows(db') /\ AttemptRows(db')
    BY <1>4, <1>5, Framed DEF Ready
  <2> QED BY <1>3, <2>1, <2>2, <2>3 DEF Rows
<1>7. ClaimedRows(db')
  BY <1>5, FramedClaims DEF Ready
<1> QED BY <1>1, <1>6, <1>7, Committed DEF KeptRows, Ready

LEMMA AuthorityRowsKept == ASSUME Ready, Authority PROVE KeptRows
<1>1. CASE \E i \in Ids : StartOAuth(i)
  <2>1. PICK i \in Ids : StartOAuth(i)
    BY <1>1
  <2> DEFINE x == [id |-> i, consumed |-> FALSE]
             new == [oauth_authorization_sessions |-> {x}]
  <2>2. Write(new)
    BY <2>1 DEF StartOAuth
  <2> HIDE DEF x
  <2>3. DOMAIN new = {"oauth_authorization_sessions"} /\ new["oauth_authorization_sessions"] = {x}
    OBVIOUS
  <2> QED BY <2>2, <2>3, ApartKept DEF Apart
<1>2. CASE \E i \in Ids : SaveTokens(i)
  BY <1>2, ApartKept DEF SaveTokens, Apart
<1>3. CASE \E s \in db["oauth_authorization_sessions"] : ConsumeOAuth(s)
  <2>1. PICK s \in db["oauth_authorization_sessions"] : ConsumeOAuth(s)
    BY <1>3
  <2> DEFINE x == [s EXCEPT !.consumed = TRUE]
             rows == (db["oauth_authorization_sessions"] \ {s}) \cup {x}
             new == [oauth_authorization_sessions |-> rows]
  <2>2. Write(new)
    BY <2>1 DEF ConsumeOAuth
  <2>3. s \in [id : Ids, consumed : BOOLEAN]
    BY RecordedTables, RowsOf DEF Ready, Row
  <2>4. x.id = s.id
    BY <2>3
  <2>5. \A y, z \in rows : y.id = z.id => y = z
    BY <2>4, RecordedTables DEF Ready, Rows, Keyed
  <2>6. DOMAIN new = {"oauth_authorization_sessions"} /\ new["oauth_authorization_sessions"] = rows
    OBVIOUS
  <2> QED BY <2>2, <2>5, <2>6, ApartKept DEF Apart
<1>4. CASE DeleteTokens
  BY <1>4, ApartKept DEF DeleteTokens, Apart
<1>5. CASE SaveConfiguration
  BY <1>5, ApartKept DEF SaveConfiguration, Apart
<1>6. CASE DeleteConfiguration
  BY <1>6, ApartKept DEF DeleteConfiguration, Apart
<1>7. CASE \E events \in SUBSET Ids : SyncCalendar(events)
  <2>1. PICK events \in SUBSET Ids : SyncCalendar(events)
    BY <1>7
  <2> DEFINE rows == {[id |-> e, edition |-> Now] : e \in events}
             new == [provider_calendar_events |-> rows]
  <2>2. Write(new)
    BY <2>1 DEF SyncCalendar
  <2>3. \A y, z \in rows : y.id = z.id => y = z
    OBVIOUS
  <2>4. DOMAIN new = {"provider_calendar_events"} /\ new["provider_calendar_events"] = rows
    OBVIOUS
  <2> QED BY <2>2, <2>3, <2>4, ApartKept DEF Apart
<1> QED BY <1>1, <1>2, <1>3, <1>4, <1>5, <1>6, <1>7 DEF Authority

LEMMA ConfirmKept ==
    ASSUME Ready, NEW m \in db["ai_media_cleanup"], ConfirmDeleted(m) PROVE KeptRows
<1> DEFINE x == [m EXCEPT !.state = "DELETED"]
           new == Replace("ai_media_cleanup", m, x)
           rows == (db["ai_media_cleanup"] \ {m}) \cup {x}
<1>1. Write(new)
  BY DEF ConfirmDeleted
<1>2. m \in [id : Ids, state : {"ACTIVE", "DELETED"}]
  BY RecordedTables, RowsOf DEF Ready, Row
<1>3. x.id = m.id
  BY <1>2
<1>4. \A y, z \in rows : y.id = z.id => y = z
  BY <1>3, RecordedTables DEF Ready, Rows, Keyed
<1>5. DOMAIN new = {"ai_media_cleanup"} /\ new["ai_media_cleanup"] = rows
  BY DEF Replace
<1> QED BY <1>1, <1>4, <1>5, ApartKept DEF Apart

(***************************************************************************)
(* The writers of tables that others look rows up in.                      *)
(***************************************************************************)
LEMMA BrowserTablesKept ==
    ASSUME Ready, NEW new, Commit(new), Keyed(db'), SessionRows(db'),
           DOMAIN new \subseteq {"browser_sessions", "supervised_portal_runs"},
           db["supervised_portal_runs"] \subseteq db'["supervised_portal_runs"]
    PROVE  KeptRows
<1>1. \A u \in Tables \ {"browser_sessions", "supervised_portal_runs"} : db'[u] = db[u]
  BY Committed
<1>2. /\ Alike(db, db', {"applications", "documents", "candidate_claims"})
      /\ Alike(db, db', {"application_answers"})
      /\ Alike(db, db', {"outbound_drafts"}) /\ Alike(db, db', {"communication_follow_ups"})
      /\ Alike(db, db', {"application_field_bindings"})
      /\ Alike(db, db', {"job_readiness_reviews"})
      /\ Grow(db, db', {"candidate_profiles", "document_versions"})
      /\ Grow(db, db', {"application_answers"}) /\ Grow(db, db', {"document_versions"})
  BY <1>1, OtherTables DEF Alike, Grow
<1>3. /\ Alike(db, db', {"application_field_executions"})
      /\ Alike(db, db', {"submitted_document_evidence"})
      /\ Alike(db, db', {"communication_mutation_audits", "mail_send_claims",
                         "calendar_mutation_claims"})
      /\ Alike(db, db', {"communication_mutation_audits", "calendar_mutation_claims"})
      /\ Grow(db, db', {"application_field_bindings", "supervised_portal_runs"})
      /\ Grow(db, db', {"outbound_drafts", "calendar_mutation_plans"})
  BY <1>1, OtherTables, RecordedTables DEF Alike, Grow
<1>4. GroundRows(db') /\ AnswerRows(db') /\ DraftRows(db') /\ FollowUpRows(db')
  BY <1>2, Framed DEF Ready
<1>5. BindingRows(db') /\ ExecutionRows(db')
  BY <1>2, <1>3, Framed DEF Ready
<1>6. EvidenceRows(db') /\ ReviewRows(db') /\ AttemptRows(db')
  BY <1>2, <1>3, Framed DEF Ready
<1>7. ClaimedRows(db')
  BY <1>3, FramedClaims DEF Ready
<1> QED BY <1>4, <1>5, <1>6, <1>7, Committed DEF KeptRows, Rows, Ready

LEMMA MoveKept ==
    ASSUME Ready, NEW b \in db["browser_sessions"], NEW state, MoveBrowser(b, state)
    PROVE  KeptRows
<1> DEFINE x == [b EXCEPT !.state = state]
           new == Replace("browser_sessions", b, x)
           rows == (db["browser_sessions"] \ {b}) \cup {x}
<1>1. Commit(new)
  BY DEF MoveBrowser, Write
<1>2. b \in [id : Ids, workflow_id : Workflows, state : {"ACTIVE", "USER_TAKEOVER", "STOPPED"}]
  BY RecordedTables, RowsOf DEF Ready, Row
<1>3. x.id = b.id /\ x.workflow_id = b.workflow_id
  BY <1>2
<1>4. DOMAIN new = {"browser_sessions"} /\ new["browser_sessions"] = rows
  BY DEF Replace
<1> HIDE DEF x
<1>5. \A y, z \in rows : y.id = z.id => y = z
  BY <1>3, RecordedTables DEF Ready, Rows, Keyed
<1> HIDE DEF new
<1>6. Keyed(db')
  BY <1>1, <1>4, <1>5, KeyedStep DEF Ready, Rows
<1>7. /\ db'["browser_sessions"] = rows
      /\ db'["supervised_portal_runs"] = db["supervised_portal_runs"]
      /\ db'["challenge_sessions"] = db["challenge_sessions"]
  BY <1>1, <1>4, Committed, RecordedTables
<1>8. \A i, w : (\E o \in Named(db, "browser_sessions", i) : o.workflow_id = w)
                 => \E o \in Named(db', "browser_sessions", i) : o.workflow_id = w
  BY <1>3, <1>7 DEF Named
<1>9. SessionRows(db')
  BY <1>7, <1>8 DEF Ready, Rows, SessionRows
<1> QED BY <1>1, <1>4, <1>6, <1>7, <1>9, BrowserTablesKept

LEMMA StartKept ==
    ASSUME Ready, NEW i, NEW j, NEW w, NEW state, StartRun(i, j, w, state)
    PROVE  KeptRows
<1> DEFINE s == [Session(j, w) EXCEPT !.state = "USER_TAKEOVER"]
           r == [id |-> i, workflow_id |-> w, browser_session_id |-> j, state |-> state]
           new == [browser_sessions |-> db["browser_sessions"] \cup {s},
                   supervised_portal_runs |-> db["supervised_portal_runs"] \cup {r}]
<1>1. Commit(new)
  BY DEF StartRun, Write
<1>2. s.id = j /\ s.workflow_id = w
  BY DEF Session
<1>3. r.id = i /\ r.browser_session_id = j /\ r.workflow_id = w
  OBVIOUS
<1>4. /\ DOMAIN new = {"browser_sessions", "supervised_portal_runs"}
      /\ new["browser_sessions"] = db["browser_sessions"] \cup {s}
      /\ new["supervised_portal_runs"] = db["supervised_portal_runs"] \cup {r}
  OBVIOUS
<1>5. /\ \A b \in db["browser_sessions"] : b.id # j
      /\ \A o \in db["supervised_portal_runs"] : o.id # i
  BY DEF StartRun, Fresh, Named
<1> HIDE DEF s, r, new
<1>6. \A t \in Tables \cap DOMAIN new : \A x, y \in new[t] : x.id = y.id => x = y
  BY <1>2, <1>3, <1>4, <1>5 DEF Ready, Rows, Keyed
<1>7. Keyed(db')
  BY <1>1, <1>6, KeyedStep DEF Ready, Rows
<1>8. /\ db'["browser_sessions"] = db["browser_sessions"] \cup {s}
      /\ db'["supervised_portal_runs"] = db["supervised_portal_runs"] \cup {r}
      /\ db'["challenge_sessions"] = db["challenge_sessions"]
  BY <1>1, <1>4, Committed, RecordedTables
<1>9. \A o \in db["supervised_portal_runs"] : o.browser_session_id # j
  BY <1>5 DEF Ready, Rows, SessionRows, Named
<1>10. SessionRows(db')
  <2>1. \A x \in db'["supervised_portal_runs"] \cup db'["challenge_sessions"] :
          \E b \in Named(db', "browser_sessions", x.browser_session_id) :
              b.workflow_id = x.workflow_id
    BY <1>2, <1>3, <1>8 DEF Ready, Rows, SessionRows, Named
  <2>2. \A x, y \in db'["supervised_portal_runs"] :
          x.browser_session_id = y.browser_session_id => x = y
    BY <1>3, <1>8, <1>9 DEF Ready, Rows, SessionRows
  <2> QED BY <2>1, <2>2 DEF SessionRows
<1> QED BY <1>1, <1>4, <1>7, <1>8, <1>10, BrowserTablesKept

LEMMA ReviseKept ==
    ASSUME Ready, NEW a \in db["application_answers"], ReviseAnswer(a)
    PROVE  KeptRows
<1> DEFINE x == [a EXCEPT !.revision = @ + 1]
           new == Replace("application_answers", a, x)
           rows == (db["application_answers"] \ {a}) \cup {x}
<1>1. Commit(new)
  BY DEF ReviseAnswer, Write
<1>2. a \in [id : Profiles, application_id : Profiles, profile_id : Profiles,
             revision : Nat, evidence_claim_ids : SUBSET Profiles]
  BY OtherTables, RowsOf DEF Ready, Row
<1>3. /\ x.id = a.id /\ x.application_id = a.application_id /\ x.profile_id = a.profile_id
      /\ x.evidence_claim_ids = a.evidence_claim_ids
      /\ a.revision \in Nat /\ x.revision = a.revision + 1
  BY <1>2
<1>4. DOMAIN new = {"application_answers"} /\ new["application_answers"] = rows
  BY DEF Replace
<1> HIDE DEF x
<1>5. \A y, z \in rows : y.id = z.id => y = z
  BY <1>3, OtherTables DEF Ready, Rows, Keyed
<1> HIDE DEF new
<1>6. Keyed(db')
  BY <1>1, <1>4, <1>5, KeyedStep DEF Ready, Rows
<1>7. db'["application_answers"] = rows /\ \A u \in Tables \ {"application_answers"} : db'[u] = db[u]
  BY <1>1, <1>4, Committed, OtherTables
<1>8. AnswerRows(db')
  BY <1>3, <1>7 DEF Ready, Rows, AnswerRows, Named
<1>9. BindingRows(db')
  <2>1. db'["application_field_bindings"] = db["application_field_bindings"]
    BY <1>7, OtherTables
  <2>2. ASSUME NEW f \in db["application_field_bindings"]
        PROVE  \E y \in Named(db', "application_answers", f.application_id) :
                  f.answer_revision <= y.revision
    <3>1. PICK y \in Named(db, "application_answers", f.application_id) :
               f.answer_revision <= y.revision
      BY DEF Ready, Rows, BindingRows
    <3>2. CASE y = a
      <4>1. f.answer_revision \in Nat
        BY OtherTables, RowsOf DEF Ready, Row
      <4>2. f.answer_revision <= x.revision
        BY <1>3, <3>1, <3>2, <4>1
      <4> QED BY <1>3, <1>7, <3>1, <3>2, <4>2 DEF Named
    <3>3. CASE y # a
      BY <1>7, <3>1, <3>3 DEF Named
    <3> QED BY <3>2, <3>3
  <2> QED BY <2>1, <2>2 DEF Ready, Rows, BindingRows
<1>10. /\ Alike(db, db', {"applications", "documents", "candidate_claims"})
       /\ Alike(db, db', {"outbound_drafts"}) /\ Alike(db, db', {"communication_follow_ups"})
       /\ Alike(db, db', {"job_readiness_reviews"})
       /\ Alike(db, db', {"supervised_portal_runs", "challenge_sessions"})
       /\ Grow(db, db', {"candidate_profiles", "document_versions"})
       /\ Grow(db, db', {"browser_sessions"}) /\ Grow(db, db', {"document_versions"})
  BY <1>7, OtherTables, RecordedTables DEF Alike, Grow
<1>11. /\ Alike(db, db', {"application_field_executions"})
       /\ Alike(db, db', {"submitted_document_evidence"})
       /\ Alike(db, db', {"communication_mutation_audits", "mail_send_claims",
                         "calendar_mutation_claims"})
       /\ Alike(db, db', {"communication_mutation_audits", "calendar_mutation_claims"})
       /\ Grow(db, db', {"application_field_bindings", "supervised_portal_runs"})
       /\ Grow(db, db', {"outbound_drafts", "calendar_mutation_plans"})
  BY <1>7, OtherTables, RecordedTables DEF Alike, Grow
<1>12. GroundRows(db') /\ DraftRows(db') /\ FollowUpRows(db') /\ SessionRows(db')
  BY <1>10, Framed DEF Ready
<1>13. ExecutionRows(db') /\ EvidenceRows(db') /\ ReviewRows(db') /\ AttemptRows(db')
  BY <1>10, <1>11, Framed DEF Ready
<1>14. ClaimedRows(db')
  BY <1>11, FramedClaims DEF Ready
<1> QED BY <1>1, <1>6, <1>8, <1>9, <1>12, <1>13, <1>14, Committed DEF KeptRows, Rows, Ready

(***************************************************************************)
(* Attempts and claims: only these tables change, so the rest stands.      *)
(***************************************************************************)
AttemptTables == {"communication_mutation_audits", "mail_send_claims", "calendar_mutation_claims"}

LEMMA AttemptTablesKept ==
    ASSUME Rows(db), Keyed(db'), AttemptRows(db'),
           \A u \in Tables \ AttemptTables : db'[u] = db[u]
    PROVE  Rows(db')
<1>1. /\ Alike(db, db', {"applications", "documents", "candidate_claims"})
      /\ Alike(db, db', {"application_answers"})
      /\ Alike(db, db', {"outbound_drafts"}) /\ Alike(db, db', {"communication_follow_ups"})
      /\ Alike(db, db', {"application_field_bindings"})
      /\ Alike(db, db', {"job_readiness_reviews"})
      /\ Grow(db, db', {"candidate_profiles", "document_versions"})
      /\ Grow(db, db', {"application_answers"}) /\ Grow(db, db', {"document_versions"})
  BY OtherTables DEF Alike, Grow, AttemptTables
<1>2. /\ Alike(db, db', {"supervised_portal_runs", "challenge_sessions"})
      /\ Alike(db, db', {"application_field_executions"})
      /\ Alike(db, db', {"submitted_document_evidence"})
      /\ Grow(db, db', {"browser_sessions"})
      /\ Grow(db, db', {"application_field_bindings", "supervised_portal_runs"})
  BY OtherTables, RecordedTables DEF Alike, Grow, AttemptTables
<1>3. GroundRows(db') /\ AnswerRows(db') /\ DraftRows(db') /\ FollowUpRows(db')
  BY <1>1, Framed
<1>4. SessionRows(db') /\ BindingRows(db') /\ ExecutionRows(db')
  BY <1>1, <1>2, Framed
<1>5. EvidenceRows(db') /\ ReviewRows(db')
  BY <1>1, <1>2, Framed
<1> QED BY <1>3, <1>4, <1>5 DEF Rows

\* The reservation of an attempt that has its source and is the first for it.
LEMMA ReservedKept ==
    ASSUME Ready, NEW i \in Fresh("communication_mutation_audits"), NEW r,
           NEW claims \in {"mail_send_claims", "calendar_mutation_claims"},
           NEW k, NEW new, Commit(new), DOMAIN new = {"communication_mutation_audits", claims},
           new["communication_mutation_audits"] = Attempted(i, r, k),
           new[claims] = Claimed(i, r, claims),
           \A c \in db[claims] : c.id # r
    PROVE  LET a == [id |-> i, kind |-> k, resource_id |-> r, status |-> "PLANNED", at |-> Now]
           IN  /\ Keyed(db') /\ \A u \in Tables \ AttemptTables : db'[u] = db[u]
               /\ db'["communication_mutation_audits"] = db["communication_mutation_audits"] \cup {a}
               /\ db'[claims] = db[claims] \cup {[id |-> r, audit_id |-> i]}
               /\ \A u \in AttemptTables \ {"communication_mutation_audits", claims} : db'[u] = db[u]
               /\ a.id = i /\ a.kind = k /\ a.resource_id = r /\ a.at \in Nat
               /\ revision' = "modern" /\ backups' = backups
<1> DEFINE a == [id |-> i, kind |-> k, resource_id |-> r, status |-> "PLANNED", at |-> Now]
           c == [id |-> r, audit_id |-> i]
<1>1. /\ new["communication_mutation_audits"] = db["communication_mutation_audits"] \cup {a}
      /\ new[claims] = db[claims] \cup {c}
  BY DEF Attempted, Claimed
<1>2. a.id = i /\ a.kind = k /\ a.resource_id = r /\ a.at \in Nat
  BY DEF Now, Ready, TypeOK
<1>3. c.id = r
  OBVIOUS
<1>4. \A o \in db["communication_mutation_audits"] : o.id # i
  BY DEF Fresh, Named
<1> HIDE DEF a, c
<1>5. \A t \in Tables \cap DOMAIN new : \A x, y \in new[t] : x.id = y.id => x = y
  BY <1>1, <1>2, <1>3, <1>4, RecordedTables DEF Ready, Rows, Keyed
<1>6. Keyed(db')
  BY <1>5, KeyedStep DEF Ready, Rows
<1>7. \A t \in Tables : db'[t] = IF t \in DOMAIN new THEN new[t] ELSE db[t]
  BY Committed
<1>8. AttemptTables \subseteq Tables
  BY RecordedTables DEF AttemptTables
<1>9. /\ \A u \in Tables \ AttemptTables : db'[u] = db[u]
      /\ \A u \in AttemptTables \ {"communication_mutation_audits", claims} : db'[u] = db[u]
      /\ db'["communication_mutation_audits"] = db["communication_mutation_audits"] \cup {a}
      /\ db'[claims] = db[claims] \cup {c}
  BY <1>1, <1>7, <1>8 DEF AttemptTables
<1> QED BY <1>2, <1>6, <1>9, Committed DEF a, c, Ready

LEMMA ClaimMailKept ==
    ASSUME Ready, NEW i, NEW d \in db["outbound_drafts"], ClaimMail(i, d)
    PROVE  KeptRows
<1> DEFINE a == [id |-> i, kind |-> "SEND_MESSAGE", resource_id |-> d.id,
                 status |-> "PLANNED", at |-> Now]
           c == [id |-> d.id, audit_id |-> i]
           new == [communication_mutation_audits |-> Attempted(i, d.id, "SEND_MESSAGE"),
                   mail_send_claims |-> Claimed(i, d.id, "mail_send_claims")]
<1>1. \A o \in db["mail_send_claims"] : o.id # d.id
  BY DEF ClaimMail, MailAttempted, MailAttempts, Ready, Rows, AttemptRows, MailClaimsLinked, Named
<1>2. i \in Fresh("communication_mutation_audits") /\ Commit(new)
  BY DEF ClaimMail
<1>3. /\ DOMAIN new = {"communication_mutation_audits", "mail_send_claims"}
      /\ new["communication_mutation_audits"] = Attempted(i, d.id, "SEND_MESSAGE")
      /\ new["mail_send_claims"] = Claimed(i, d.id, "mail_send_claims")
  OBVIOUS
<1> HIDE DEF new
<1>4. /\ Keyed(db') /\ \A u \in Tables \ AttemptTables : db'[u] = db[u]
      /\ db'["communication_mutation_audits"] = db["communication_mutation_audits"] \cup {a}
      /\ db'["mail_send_claims"] = db["mail_send_claims"] \cup {c}
      /\ \A u \in AttemptTables \ {"communication_mutation_audits", "mail_send_claims"} : db'[u] = db[u]
      /\ revision' = "modern" /\ backups' = backups
  BY <1>1, <1>2, <1>3, ReservedKept
<1>5. /\ a.id = i /\ a.kind = "SEND_MESSAGE" /\ a.resource_id = d.id
      /\ c.id = d.id /\ c.audit_id = i
  OBVIOUS
<1> HIDE DEF a, c
<1>6. /\ db'["calendar_mutation_claims"] = db["calendar_mutation_claims"]
      /\ db'["outbound_drafts"] = db["outbound_drafts"]
      /\ db'["calendar_mutation_plans"] = db["calendar_mutation_plans"]
  BY <1>4, OtherTables, RecordedTables DEF AttemptTables
<1>7. "SEND_MESSAGE" \notin CalendarKinds
  BY DEF CalendarKinds
<1>8. \A r : Attempts(db', r) = Attempts(db, r)
  BY <1>4, <1>5, <1>7 DEF Attempts
<1>9. AttemptRows(db')
  <2>1. AttemptsHaveSource(db')
    BY <1>4, <1>5, <1>6 DEF Ready, Rows, AttemptRows, AttemptsHaveSource, Named
  <2>2. MailClaimsLinked(db')
    BY <1>4, <1>5 DEF Ready, Rows, AttemptRows, MailClaimsLinked, Named
  <2>3. CalendarClaimsLinked(db')
    BY <1>6, <1>8 DEF Ready, Rows, AttemptRows, CalendarClaimsLinked
  <2> QED BY <2>1, <2>2, <2>3 DEF AttemptRows
<1>10. ClaimedRows(db')
  <2>1. AttemptsClaimed(db')
    BY <1>4, <1>5, <1>6, <1>7, <1>8 DEF Ready, ClaimedRows, AttemptsClaimed, Named
  <2> QED BY <1>4, <1>5, <1>7, <2>1 DEF Ready, ClaimedRows
<1>11. Rows(db')
  BY <1>4, <1>9, AttemptTablesKept DEF Ready
<1> QED BY <1>4, <1>10, <1>11 DEF KeptRows

LEMMA ClaimCalendarKept ==
    ASSUME Ready, NEW i, NEW p \in db["calendar_mutation_plans"], ClaimCalendar(i, p)
    PROVE  KeptRows
<1> DEFINE a == [id |-> i, kind |-> p.kind, resource_id |-> p.id,
                 status |-> "PLANNED", at |-> Now]
           c == [id |-> p.id, audit_id |-> i]
           new == [communication_mutation_audits |-> Attempted(i, p.id, p.kind),
                   calendar_mutation_claims |-> Claimed(i, p.id, "calendar_mutation_claims")]
<1>1. Attempts(db, p.id) = {} /\ p.kind \in CalendarKinds
  BY RecordedTables, RowsOf DEF ClaimCalendar, CalendarAttempted, Ready, Row
<1>2. \A o \in db["calendar_mutation_claims"] : o.id # p.id
  BY <1>1 DEF Ready, Rows, AttemptRows, CalendarClaimsLinked
<1>3. i \in Fresh("communication_mutation_audits") /\ Commit(new)
  BY DEF ClaimCalendar
<1>4. /\ DOMAIN new = {"communication_mutation_audits", "calendar_mutation_claims"}
      /\ new["communication_mutation_audits"] = Attempted(i, p.id, p.kind)
      /\ new["calendar_mutation_claims"] = Claimed(i, p.id, "calendar_mutation_claims")
  OBVIOUS
<1> HIDE DEF new
<1>5. /\ Keyed(db') /\ \A u \in Tables \ AttemptTables : db'[u] = db[u]
      /\ db'["communication_mutation_audits"] = db["communication_mutation_audits"] \cup {a}
      /\ db'["calendar_mutation_claims"] = db["calendar_mutation_claims"] \cup {c}
      /\ \A u \in AttemptTables \ {"communication_mutation_audits", "calendar_mutation_claims"} :
            db'[u] = db[u]
      /\ a.at \in Nat
      /\ revision' = "modern" /\ backups' = backups
  BY <1>2, <1>3, <1>4, ReservedKept
<1>6. /\ a.id = i /\ a.kind = p.kind /\ a.resource_id = p.id
      /\ c.id = p.id /\ c.audit_id = i
  OBVIOUS
<1> HIDE DEF a, c
<1>7. /\ db'["mail_send_claims"] = db["mail_send_claims"]
      /\ db'["outbound_drafts"] = db["outbound_drafts"]
      /\ db'["calendar_mutation_plans"] = db["calendar_mutation_plans"]
  BY <1>5, OtherTables, RecordedTables DEF AttemptTables
<1>8. /\ Attempts(db', p.id) = {a}
      /\ \A r : r # p.id => Attempts(db', r) = Attempts(db, r)
  BY <1>1, <1>5, <1>6 DEF Attempts
<1>9. Oldest({a}) = {a}
  BY <1>5 DEF Oldest
<1>10. AttemptRows(db')
  <2>1. AttemptsHaveSource(db')
    <3>1. a.kind # "SEND_MESSAGE"
      BY <1>1, <1>6 DEF CalendarKinds
    <3> QED BY <1>5, <1>6, <1>7, <3>1 DEF Ready, Rows, AttemptRows, AttemptsHaveSource, Named
  <2>2. MailClaimsLinked(db')
    BY <1>5, <1>7 DEF Ready, Rows, AttemptRows, MailClaimsLinked, Named
  <2>3. CalendarClaimsLinked(db')
    BY <1>2, <1>5, <1>6, <1>8 DEF Ready, Rows, AttemptRows, CalendarClaimsLinked
  <2> QED BY <2>1, <2>2, <2>3 DEF AttemptRows
<1>11. ClaimedRows(db')
  <2>1. ASSUME NEW b \in db'["communication_mutation_audits"], b.kind \in CalendarKinds
        PROVE  \E o \in Named(db', "calendar_mutation_claims", b.resource_id) :
                 \E m \in Oldest(Attempts(db', b.resource_id)) : o.audit_id = m.id
    <3>1. CASE b.resource_id = p.id
      BY <1>5, <1>6, <1>8, <1>9, <3>1 DEF Named
    <3>2. CASE b.resource_id # p.id
      <4>1. b \in db["communication_mutation_audits"]
        BY <1>5, <1>6, <2>1, <3>2
      <4> QED BY <1>5, <1>8, <2>1, <3>2, <4>1 DEF Ready, ClaimedRows, AttemptsClaimed, Named
    <3> QED BY <3>1, <3>2
  <2>2. ASSUME NEW b \in db'["communication_mutation_audits"],
               NEW o \in db'["communication_mutation_audits"],
               b.kind \in CalendarKinds, o.kind \in CalendarKinds,
               b.resource_id = o.resource_id, b.status = "PLANNED"
        PROVE  b = o
    <3>1. CASE b.resource_id = p.id
      <4>1. b \in Attempts(db', p.id) /\ o \in Attempts(db', p.id)
        BY <2>2, <3>1 DEF Attempts
      <4> QED BY <1>8, <4>1
    <3>2. CASE b.resource_id # p.id
      BY <1>5, <1>6, <2>2, <3>2 DEF Ready, ClaimedRows
    <3> QED BY <3>1, <3>2
  <2> QED BY <2>1, <2>2 DEF ClaimedRows, AttemptsClaimed
<1>12. Rows(db')
  BY <1>5, <1>10, AttemptTablesKept DEF Ready
<1> QED BY <1>5, <1>11, <1>12 DEF KeptRows

LEMMA FinishKept ==
    ASSUME Ready, NEW a \in db["communication_mutation_audits"],
           NEW status \in {"CONFIRMED", "UNCERTAIN"}, FinishAttempt(a, status)
    PROVE  KeptRows
<1> DEFINE x == [a EXCEPT !.status = status, !.at = Now]
           new == Replace("communication_mutation_audits", a, x)
           rows == (db["communication_mutation_audits"] \ {a}) \cup {x}
<1>1. Commit(new) /\ a.status = "PLANNED"
  BY DEF FinishAttempt, Write
<1>2. /\ x.id = a.id /\ x.kind = a.kind /\ x.resource_id = a.resource_id
      /\ x.status = status /\ x.at = Now
  <2> DEFINE K == {"SEND_MESSAGE"} \cup CalendarKinds
             S == [id : Ids, kind : K, resource_id : Ids,
                   status : {"PLANNED", "CONFIRMED", "UNCERTAIN"}, at : Nat]
  <2>1. Row["communication_mutation_audits"] = S
    BY DEF Row
  <2>2. a \in S
    BY <2>1, RowsOf, RecordedTables DEF Ready
  <2> HIDE DEF K
  <2> QED BY <2>2
<1>3. Now \in Nat
  BY DEF Now, Ready, TypeOK
<1>4. DOMAIN new = {"communication_mutation_audits"} /\ new["communication_mutation_audits"] = rows
  BY DEF Replace
<1> HIDE DEF x
<1>5. \A y, z \in rows : y.id = z.id => y = z
  BY <1>2, RecordedTables DEF Ready, Rows, Keyed
<1> HIDE DEF new
<1>6. Keyed(db')
  BY <1>1, <1>4, <1>5, KeyedStep DEF Ready, Rows
<1>7. /\ db'["communication_mutation_audits"] = rows
      /\ \A u \in Tables \ {"communication_mutation_audits"} : db'[u] = db[u]
  BY <1>1, <1>4, Committed, RecordedTables
<1>8. /\ db'["mail_send_claims"] = db["mail_send_claims"]
      /\ db'["calendar_mutation_claims"] = db["calendar_mutation_claims"]
      /\ db'["outbound_drafts"] = db["outbound_drafts"]
      /\ db'["calendar_mutation_plans"] = db["calendar_mutation_plans"]
  BY <1>7, OtherTables, RecordedTables
<1>9. \A b \in db["communication_mutation_audits"] : \E k \in db'["communication_mutation_audits"] :
         k.id = b.id /\ k.kind = b.kind /\ k.resource_id = b.resource_id
  BY <1>2, <1>7
<1>10. \A k \in db'["communication_mutation_audits"] : \E b \in db["communication_mutation_audits"] :
         k.id = b.id /\ k.kind = b.kind /\ k.resource_id = b.resource_id
  BY <1>2, <1>7
<1>11. AttemptRows(db')
  <2>1. AttemptsHaveSource(db')
    BY <1>8, <1>10 DEF Ready, Rows, AttemptRows, AttemptsHaveSource, Named
  <2>2. MailClaimsLinked(db')
    BY <1>8, <1>9 DEF Ready, Rows, AttemptRows, MailClaimsLinked, Named
  <2>3. CalendarClaimsLinked(db')
    BY <1>8, <1>9 DEF Ready, Rows, AttemptRows, CalendarClaimsLinked, Attempts
  <2> QED BY <2>1, <2>2, <2>3 DEF AttemptRows
<1>12. ASSUME NEW b \in db["communication_mutation_audits"], a.kind \in CalendarKinds,
              b.kind \in CalendarKinds, b.resource_id = a.resource_id
       PROVE  b = a
  BY <1>1, <1>12 DEF Ready, ClaimedRows
<1>13. \A r : ~(a.kind \in CalendarKinds /\ r = a.resource_id) => Attempts(db', r) = Attempts(db, r)
  BY <1>2, <1>7 DEF Attempts
<1>14. a.kind \in CalendarKinds => /\ Attempts(db', a.resource_id) = {x}
                                   /\ Attempts(db, a.resource_id) = {a}
  BY <1>2, <1>7, <1>12 DEF Attempts
<1>15. Oldest({x}) = {x}
  BY <1>2, <1>3 DEF Oldest
<1>16. ASSUME NEW k \in db'["communication_mutation_audits"], k.kind \in CalendarKinds
       PROVE  \E c \in Named(db', "calendar_mutation_claims", k.resource_id) :
                \E o \in Oldest(Attempts(db', k.resource_id)) : c.audit_id = o.id
  <2>1. PICK b \in db["communication_mutation_audits"] :
             k.kind = b.kind /\ k.resource_id = b.resource_id
    BY <1>10
  <2>2. PICK c \in Named(db, "calendar_mutation_claims", b.resource_id) :
             \E o \in Oldest(Attempts(db, b.resource_id)) : c.audit_id = o.id
    BY <1>16, <2>1 DEF Ready, ClaimedRows, AttemptsClaimed
  <2>3. c \in Named(db', "calendar_mutation_claims", k.resource_id)
    BY <1>8, <2>1, <2>2 DEF Named
  <2>4. CASE a.kind \in CalendarKinds /\ k.resource_id = a.resource_id
    <3>1. PICK o \in Oldest(Attempts(db, a.resource_id)) : c.audit_id = o.id
      BY <2>1, <2>2, <2>4
    <3>2. o = a
      BY <1>14, <2>4, <3>1 DEF Oldest
    <3> QED BY <1>2, <1>14, <1>15, <2>3, <2>4, <3>1, <3>2
  <2>5. CASE ~(a.kind \in CalendarKinds /\ k.resource_id = a.resource_id)
    BY <1>13, <2>1, <2>2, <2>3, <2>5
  <2> QED BY <2>4, <2>5
<1>17. ASSUME NEW y \in rows, NEW z \in rows, y.kind \in CalendarKinds, z.kind \in CalendarKinds,
              y.resource_id = z.resource_id, y.status = "PLANNED"
       PROVE  y = z
  <2>1. y \in db["communication_mutation_audits"] /\ y # a
    BY <1>2, <1>17
  <2>2. z # x
    BY <1>2, <1>12, <1>17, <2>1
  <2> QED BY <1>17, <2>1, <2>2 DEF Ready, ClaimedRows
<1>18. ClaimedRows(db')
  BY <1>7, <1>16, <1>17 DEF ClaimedRows, AttemptsClaimed
<1>19. Rows(db')
  BY <1>6, <1>7, <1>11, AttemptTablesKept DEF Ready, AttemptTables
<1> QED BY <1>1, <1>18, <1>19, Committed DEF KeptRows, Ready

\* The upgrade claims each plan for the one oldest attempt of it.
LEMMA UpgradeKept ==
    ASSUME TypeOK, Rows(db), UnclaimedRows(db), Upgrade
    PROVE  KeptRows
<1> DEFINE audits == db["communication_mutation_audits"]
           claim(a) == [id |-> a.resource_id, audit_id |-> a.id]
           new == [calendar_mutation_claims |-> OldestClaims]
<1>1. db' = Rewritten(db, new) /\ revision' = "modern" /\ backups' = backups
  BY DEF Upgrade
<1>2. /\ \A u \in Tables \ {"calendar_mutation_claims"} : db'[u] = db[u]
      /\ db'["calendar_mutation_claims"] = OldestClaims
  BY <1>1, RecordedTables DEF Rewritten
<1>3. /\ db'["communication_mutation_audits"] = audits
      /\ db'["mail_send_claims"] = db["mail_send_claims"]
      /\ db'["outbound_drafts"] = db["outbound_drafts"]
      /\ db'["calendar_mutation_plans"] = db["calendar_mutation_plans"]
  BY <1>2, OtherTables, RecordedTables
<1>4. \A r : Attempts(db', r) = Attempts(db, r)
  BY <1>3 DEF Attempts
<1>5. \A a \in audits : \E o \in Attempts(db, a.resource_id) : Oldest(Attempts(db, a.resource_id)) = {o}
  BY DEF UnclaimedRows
<1>6. \A c \in OldestClaims : \E a \in audits :
          /\ a.kind \in CalendarKinds /\ a \in Oldest(Attempts(db, a.resource_id))
          /\ c = claim(a)
  BY DEF OldestClaims
<1>7. \A c, e \in OldestClaims : c.id = e.id => c = e
  <2> SUFFICES ASSUME NEW c \in OldestClaims, NEW e \in OldestClaims, c.id = e.id PROVE c = e
    OBVIOUS
  <2>1. PICK a \in audits : a \in Oldest(Attempts(db, a.resource_id)) /\ c = claim(a)
    BY <1>6
  <2>2. PICK b \in audits : b \in Oldest(Attempts(db, b.resource_id)) /\ e = claim(b)
    BY <1>6
  <2>3. a.resource_id = b.resource_id
    BY <2>1, <2>2
  <2>4. a = b
    BY <1>5, <2>1, <2>2, <2>3
  <2> QED BY <2>1, <2>2, <2>4
<1>8. Keyed(db')
  BY <1>2, <1>7 DEF Rows, Keyed
<1>9. AttemptRows(db')
  <2>1. AttemptsHaveSource(db') /\ MailClaimsLinked(db')
    BY <1>3 DEF Rows, AttemptRows, AttemptsHaveSource, MailClaimsLinked, Named
  <2>2. CalendarClaimsLinked(db')
    <3> SUFFICES ASSUME NEW c \in OldestClaims
                 PROVE  \E a \in Attempts(db, c.id) : a.id = c.audit_id
      BY <1>2, <1>4 DEF CalendarClaimsLinked
    <3>1. PICK a \in audits : a.kind \in CalendarKinds /\ c = claim(a)
      BY <1>6
    <3>2. c.id = a.resource_id /\ c.audit_id = a.id
      BY <3>1
    <3> QED BY <3>1, <3>2 DEF Attempts
  <2> QED BY <2>1, <2>2 DEF AttemptRows
<1>10. AttemptsClaimed(db')
  <2> SUFFICES ASSUME NEW a \in audits, a.kind \in CalendarKinds
               PROVE  \E c \in Named(db', "calendar_mutation_claims", a.resource_id) :
                         \E o \in Oldest(Attempts(db', a.resource_id)) : c.audit_id = o.id
    BY <1>3 DEF AttemptsClaimed
  <2>1. PICK o \in Attempts(db, a.resource_id) : Oldest(Attempts(db, a.resource_id)) = {o}
    BY <1>5
  <2>2. o \in audits /\ o.kind \in CalendarKinds /\ o.resource_id = a.resource_id
    BY <2>1 DEF Attempts
  <2>3. claim(o) \in OldestClaims
    BY <2>1, <2>2 DEF OldestClaims
  <2>4. claim(o).id = a.resource_id /\ claim(o).audit_id = o.id
    BY <2>2
  <2> QED BY <1>2, <1>4, <2>1, <2>3, <2>4 DEF Named
<1>11. ClaimedRows(db')
  BY <1>3, <1>10 DEF ClaimedRows, UnclaimedRows
<1>12. Rows(db')
  BY <1>2, <1>8, <1>9, AttemptTablesKept DEF AttemptTables
<1> QED BY <1>1, <1>11, <1>12 DEF KeptRows

(***************************************************************************)
(* The first workspaces.                                                   *)
(***************************************************************************)
LEMMA PreparedRows ==
    /\ Prepared["candidate_profiles"] = {[id |-> p] : p \in Profiles}
    /\ Prepared["applications"] =
          {[id |-> p, workflow_id |-> p, profile_id |-> p] : p \in Profiles}
    /\ Prepared["documents"] = {[id |-> p, profile_id |-> p] : p \in Profiles}
    /\ Prepared["document_versions"] = {[id |-> p, document_id |-> p] : p \in Profiles}
    /\ Prepared["candidate_claims"] = {[id |-> p, profile_id |-> p] : p \in Profiles}
    /\ Prepared["application_answers"] =
          {[id |-> p, application_id |-> p, profile_id |-> p, revision |-> 1,
            evidence_claim_ids |-> {p}] : p \in Profiles}
    /\ \A t \in Tables \ {"candidate_profiles", "applications", "documents",
                          "document_versions", "candidate_claims", "application_answers"} :
          Prepared[t] = {}
  BY OtherTables DEF Prepared, Rewritten, NoRows

LEMMA PreparedKept == Rows(Prepared) /\ ClaimedRows(Prepared) /\ UnclaimedRows(Prepared)
<1>1. /\ \A t \in {"outbound_drafts", "communication_follow_ups", "supervised_portal_runs",
                   "challenge_sessions", "application_field_bindings",
                   "application_field_executions", "submitted_document_evidence",
                   "job_readiness_reviews"} : Prepared[t] = {}
      /\ \A t \in AttemptTables : Prepared[t] = {}
  BY PreparedRows, OtherTables, RecordedTables DEF AttemptTables
<1>2. Keyed(Prepared)
  <2>1. ASSUME NEW t \in {"candidate_profiles", "applications", "documents",
                          "document_versions", "candidate_claims", "application_answers"},
               NEW x \in Prepared[t], NEW y \in Prepared[t], x.id = y.id
        PROVE  x = y
    BY <2>1, PreparedRows
  <2> QED BY <2>1, PreparedRows DEF Keyed
<1>3. GroundRows(Prepared)
  <2>1. ASSUME NEW p \in Profiles
        PROVE  /\ \A t \in {"candidate_profiles", "applications", "documents", "candidate_claims"} :
                     \E x \in Prepared[t] : x.id = p
               /\ \E v \in Prepared["document_versions"] : v.id = p /\ v.document_id = p
    <3>1. /\ [id |-> p] \in Prepared["candidate_profiles"]
          /\ [id |-> p, workflow_id |-> p, profile_id |-> p] \in Prepared["applications"]
          /\ [id |-> p, profile_id |-> p] \in Prepared["documents"]
          /\ [id |-> p, profile_id |-> p] \in Prepared["candidate_claims"]
          /\ [id |-> p, document_id |-> p] \in Prepared["document_versions"]
      BY PreparedRows
    <3>2. /\ [id |-> p].id = p /\ [id |-> p, workflow_id |-> p, profile_id |-> p].id = p
          /\ [id |-> p, profile_id |-> p].id = p
          /\ [id |-> p, document_id |-> p].id = p /\ [id |-> p, document_id |-> p].document_id = p
      OBVIOUS
    <3> QED BY <3>1, <3>2, Zenon
  <2>3. /\ \A a \in Prepared["applications"] : a.workflow_id = a.id /\ a.profile_id = a.id
        /\ \A x \in Prepared["documents"] \cup Prepared["candidate_claims"] : x.profile_id = x.id
    BY PreparedRows
  <2> QED BY <2>1, <2>3 DEF GroundRows, Named, Belongs
<1>4. AnswerRows(Prepared)
  <2>1. ASSUME NEW p \in Profiles
        PROVE  \E x \in Prepared["application_answers"] : x.id = p
    <3> DEFINE x == [id |-> p, application_id |-> p, profile_id |-> p, revision |-> 1,
                     evidence_claim_ids |-> {p}]
    <3>1. x \in Prepared["application_answers"] /\ x.id = p
      BY PreparedRows
    <3> QED BY <3>1
  <2>2. \A x \in Prepared["application_answers"] :
          x.application_id = x.id /\ x.profile_id = x.id /\ x.evidence_claim_ids = {x.id}
    BY PreparedRows
  <2> QED BY <2>1, <2>2 DEF AnswerRows, Named
<1>5. /\ DraftRows(Prepared) /\ FollowUpRows(Prepared) /\ SessionRows(Prepared)
      /\ BindingRows(Prepared) /\ ExecutionRows(Prepared)
  BY <1>1 DEF DraftRows, FollowUpRows, SessionRows, BindingRows, ExecutionRows
<1>6. EvidenceRows(Prepared) /\ ReviewRows(Prepared)
  BY <1>1 DEF EvidenceRows, ReviewRows
<1>7. AttemptRows(Prepared)
  BY <1>1 DEF AttemptRows, AttemptsHaveSource, MailClaimsLinked, CalendarClaimsLinked, AttemptTables
<1>8. ClaimedRows(Prepared) /\ UnclaimedRows(Prepared)
  BY <1>1 DEF ClaimedRows, AttemptsClaimed, UnclaimedRows, AttemptTables
<1> QED BY <1>2, <1>3, <1>4, <1>5, <1>6, <1>7, <1>8 DEF Rows

\* A legacy plan with no attempt, one, or two of which one is older.
LEMMA LegacyKept ==
    ASSUME NEW plan \in Ids, NEW i \in Ids, NEW j \in Ids, i # j,
           NEW attempts \in {{}, {LegacyAttempt(i, plan, 0)},
                             {LegacyAttempt(i, plan, 0), LegacyAttempt(j, plan, 1)}}
    PROVE  Rows(LegacyRows(plan, attempts)) /\ UnclaimedRows(LegacyRows(plan, attempts))
<1> DEFINE d == LegacyRows(plan, attempts)
           p == [id |-> plan, workflow_id |-> Null, kind |-> "CREATE_CALENDAR_EVENT"]
           A == LegacyAttempt(i, plan, 0)
           B == LegacyAttempt(j, plan, 1)
<1>1. /\ d["calendar_mutation_plans"] = {p} /\ d["communication_mutation_audits"] = attempts
      /\ \A t \in Tables \ {"calendar_mutation_plans", "communication_mutation_audits"} :
            d[t] = Prepared[t]
  BY RecordedTables DEF LegacyRows, Rewritten
<1>2. /\ A.id = i /\ A.kind = "CREATE_CALENDAR_EVENT" /\ A.resource_id = plan
      /\ A.status = "UNCERTAIN" /\ A.at = 0
      /\ B.id = j /\ B.kind = "CREATE_CALENDAR_EVENT" /\ B.resource_id = plan
      /\ B.status = "UNCERTAIN" /\ B.at = 1
      /\ p.id = plan /\ p.kind = "CREATE_CALENDAR_EVENT"
  BY DEF LegacyAttempt
<1>3. attempts \in {{}, {A}, {A, B}}
  OBVIOUS
<1> HIDE DEF d, p, A, B
<1>4. d["mail_send_claims"] = {} /\ d["calendar_mutation_claims"] = {}
  BY <1>1, PreparedKept, PreparedRows, RecordedTables
<1>5. Keyed(d)
  BY <1>1, <1>2, <1>3, PreparedKept DEF Rows, Keyed
<1>6. /\ Alike(Prepared, d, {"applications", "documents", "candidate_claims"})
      /\ Alike(Prepared, d, {"application_answers"})
      /\ Alike(Prepared, d, {"outbound_drafts"})
      /\ Alike(Prepared, d, {"communication_follow_ups"})
      /\ Alike(Prepared, d, {"application_field_bindings"})
      /\ Alike(Prepared, d, {"job_readiness_reviews"})
      /\ Grow(Prepared, d, {"candidate_profiles", "document_versions"})
      /\ Grow(Prepared, d, {"application_answers"}) /\ Grow(Prepared, d, {"document_versions"})
  BY <1>1, OtherTables DEF Alike, Grow
<1>7. /\ Alike(Prepared, d, {"supervised_portal_runs", "challenge_sessions"})
      /\ Alike(Prepared, d, {"application_field_executions"})
      /\ Alike(Prepared, d, {"submitted_document_evidence"})
      /\ Grow(Prepared, d, {"browser_sessions"})
      /\ Grow(Prepared, d, {"application_field_bindings", "supervised_portal_runs"})
  BY <1>1, OtherTables, RecordedTables DEF Alike, Grow
<1>8. GroundRows(d) /\ AnswerRows(d) /\ DraftRows(d) /\ FollowUpRows(d)
  BY <1>6, PreparedKept, Framed
<1>9. SessionRows(d) /\ BindingRows(d) /\ ExecutionRows(d)
  BY <1>6, <1>7, PreparedKept, Framed
<1>10. EvidenceRows(d) /\ ReviewRows(d)
  BY <1>6, <1>7, PreparedKept, Framed
<1>11. AttemptRows(d)
  <2>1. AttemptsHaveSource(d)
    BY <1>1, <1>2, <1>3 DEF AttemptsHaveSource, Named
  <2> QED BY <1>4, <2>1 DEF AttemptRows, MailClaimsLinked, CalendarClaimsLinked
<1>12. UnclaimedRows(d)
  <2>1. Attempts(d, plan) = attempts
    BY <1>1, <1>2, <1>3 DEF Attempts, CalendarKinds
  <2>2. attempts # {} => A \in attempts /\ Oldest(attempts) = {A}
    BY <1>2, <1>3 DEF Oldest
  <2> QED BY <1>1, <1>2, <1>3, <1>4, <2>1, <2>2 DEF UnclaimedRows
<1> QED BY <1>5, <1>8, <1>9, <1>10, <1>11, <1>12 DEF Rows, d

LEMMA HistoryKeptBegins == Init => HistoryKept
<1> SUFFICES ASSUME Init PROVE Kept(Here)
  BY DEF HistoryKept, Init
<1>1. Here.db = db /\ Here.revision = revision
  BY DEF Here
<1>2. CASE db = Prepared
  BY <1>1, <1>2, PreparedKept DEF Kept
<1>3. CASE revision = "legacy" /\ \E plan, i, j \in Ids : i # j /\
              \E attempts \in {{}, {LegacyAttempt(i, plan, 0)},
                               {LegacyAttempt(i, plan, 0), LegacyAttempt(j, plan, 1)}} :
                  /\ db = LegacyRows(plan, attempts)
                  /\ calls = {[kind |-> a.kind, resource |-> plan, audit |-> a.id] :
                               a \in Oldest(attempts)}
  <2>1. PICK plan \in Ids, i \in Ids, j \in Ids : i # j /\
              \E attempts \in {{}, {LegacyAttempt(i, plan, 0)},
                               {LegacyAttempt(i, plan, 0), LegacyAttempt(j, plan, 1)}} :
                  db = LegacyRows(plan, attempts)
    BY <1>3, Zenon
  <2>2. PICK attempts \in {{}, {LegacyAttempt(i, plan, 0)},
                           {LegacyAttempt(i, plan, 0), LegacyAttempt(j, plan, 1)}} :
             db = LegacyRows(plan, attempts)
    BY <2>1
  <2>3. Rows(db) /\ UnclaimedRows(db)
    BY <2>1, <2>2, LegacyKept
  <2> QED BY <1>1, <1>3, <2>3 DEF Kept
<1> QED BY <1>2, <1>3 DEF Init

(***************************************************************************)
(* Every step keeps the rows of the workspace and of every backup.         *)
(***************************************************************************)
LEMMA WritersKeep ==
    ASSUME TypeOK, HistoryKept,
           Outbound \/ Browser \/ Authority \/ Records \/ Readiness \/ Upgrade
    PROVE  KeptRows
<1>1. Here.db = db /\ Here.revision = revision
  BY DEF Here
<1>2. Rows(db) /\ (revision = "modern" => Ready) /\ (revision = "legacy" => UnclaimedRows(db))
  BY <1>1 DEF HistoryKept, Kept, Ready
<1>3. CASE Outbound
  <2>1. revision = "modern"
    BY <1>3 DEF Outbound, CreateDraft, PlanCalendar, ClaimMail, ClaimCalendar, FinishAttempt,
       ScheduleFollowUp, At
  <2>2. Ready
    BY <1>2, <2>1
  <2> QED BY <1>3, <2>2, DraftKept, PlanKept, ClaimMailKept, ClaimCalendarKept, FinishKept,
          FollowUpKept DEF Outbound
<1>4. CASE Browser
  <2>1. revision = "modern"
    BY <1>4 DEF Browser, OpenBrowser, StartRun, DetectChallenge, MoveBrowser, ReviseAnswer,
       BindField, ExecuteField, At
  <2>2. Ready
    BY <1>2, <2>1
  <2> QED BY <1>4, <2>2, OpenKept, StartKept, ChallengeKept, MoveKept, ReviseKept, BindKept,
          ExecuteKept DEF Browser
<1>5. CASE Authority
  <2>1. revision = "modern"
    BY <1>5 DEF Authority, StartOAuth, SaveTokens, ConsumeOAuth, DeleteTokens,
       SaveConfiguration, DeleteConfiguration, SyncCalendar, At
  <2> QED BY <1>2, <1>5, <2>1, AuthorityRowsKept
<1>6. CASE Records
  <2>1. revision = "modern"
    BY <1>6 DEF Records, SaveCheckpoint, IngestVersion, SubmitEvidence, Invoke, OweMedia,
       ConfirmDeleted, At
  <2>2. Ready
    BY <1>2, <2>1
  <2> QED BY <1>6, <2>2, CheckpointKept, VersionKept, EvidenceKept, InvocationKept, CleanupKept,
          ConfirmKept DEF Records
<1>7. CASE Readiness
  <2>1. revision = "modern"
    BY <1>7 DEF Readiness, RecordRequirements, RecordQualification, RecordSelection,
       WriteReview, At
  <2>2. Ready
    BY <1>2, <2>1
  <2> QED BY <1>7, <2>2, RequirementsKept, QualificationKept, SelectionKept DEF Readiness
<1>8. CASE Upgrade
  <2>1. revision = "legacy"
    BY <1>8 DEF Upgrade
  <2> QED BY <1>2, <1>8, <2>1, UpgradeKept
<1> QED BY <1>3, <1>4, <1>5, <1>6, <1>7, <1>8

LEMMA HistoryKeptPreserved == TypeOK /\ HistoryKept /\ [Next]_vars => HistoryKept'
<1> SUFFICES ASSUME TypeOK, HistoryKept, [Next]_vars PROVE HistoryKept'
  OBVIOUS
<1>1. /\ Here.db = db /\ Here.revision = revision
      /\ Here'.db = db' /\ Here'.revision = revision'
  BY DEF Here
<1>2. ASSUME revision' = revision, db' = db, backups' = backups
      PROVE  HistoryKept'
  BY <1>1, <1>2 DEF HistoryKept, Kept
<1>3. CASE Outbound \/ Browser \/ Authority \/ Records \/ Readiness \/ Upgrade
  <2>1. KeptRows
    BY <1>3, WritersKeep
  <2> QED BY <1>1, <2>1 DEF KeptRows, HistoryKept, Kept
<1>4. CASE Backup
  <2>1. backups' = backups \cup {Here} /\ revision' = revision /\ db' = db
    BY <1>4 DEF Backup, workspace
  <2> QED BY <1>1, <2>1 DEF HistoryKept, Kept
<1>5. CASE \E b \in backups, chosen \in Categories : Restore(b, chosen)
  <2>1. PICK b \in backups, chosen \in Categories : Restore(b, chosen)
    BY <1>5
  <2>2. /\ revision' = CandidateOf(b, chosen).revision /\ db' = CandidateOf(b, chosen).db
        /\ backups' = backups
    BY <2>1 DEF Restore
  <2>3. Kept(CandidateOf(b, chosen))
    BY DEF HistoryKept, CandidateOf
  <2> QED BY <1>1, <2>2, <2>3 DEF HistoryKept, Kept
<1>6. CASE \E v \in Profiles \cup Ids, state \in {"good", "damaged", "none"} : EditFile(v, state)
  BY <1>2, <1>6, EditFrame
<1>7. CASE UNCHANGED vars
  BY <1>2, <1>7, StutterFrame
<1> QED BY <1>3, <1>4, <1>5, <1>6, <1>7 DEF Next

\* Whatever the parts of the runtime wrote, and whatever was restored or
\* upgraded in between, the inspection of a restore admits the workspace as it
\* stands into itself: no legal history of writes makes a complete and current
\* backup unusable (require_relational_closure, _require_preserved_snapshots).
THEOREM CurrentIsAdmitted == Spec => []MatchingIsAdmitted
<1>1. TypeOK /\ [Next]_vars => TypeOK'
  BY TypePreserved
<1>2. TypeOK /\ HistoryKept /\ [Next]_vars => HistoryKept'
  BY HistoryKeptPreserved
<1>3. TypeOK /\ HistoryKept => MatchingIsAdmitted
  BY KeptIsAdmitted
<1> QED BY InitTyped, HistoryKeptBegins, <1>1, <1>2, <1>3, PTL DEF Spec
=============================================================================
