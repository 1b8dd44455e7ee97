--------------------------- MODULE RestoreHistory ---------------------------
(***************************************************************************)
(* Which backups a workspace that has recorded history admits.             *)
(*                                                                         *)
(* The database is a set of rows per table, each row its identity and the  *)
(* fields that link it to other rows; the rest of a row is not told apart. *)
(* The runtime writes rows; a backup copies the database and the documents; *)
(* an offline restore inspects the current and the candidate database row  *)
(* by row and replaces the one with the other only when nothing recorded   *)
(* is lost, changed or revived.  How the files are then replaced, and what  *)
(* a crash leaves, is RestoreRecovery's.  The column `id` of a row is the   *)
(* primary key of its table, whatever the table calls it.                  *)
(***************************************************************************)
EXTENDS Naturals, FiniteSets, HistoryPolicy

CONSTANTS
    Ids,            \* identities the runtime gives to new rows
    Profiles,       \* candidates; p's application, workflow, document have id p
    Stranger,       \* a workflow or profile no row knows
    Null,           \* a column without a value
    MaxWrites,      \* bound: transactions of the runtime, by desk
    MaxBackups,     \* bound: backups taken
    Desks           \* the parts of the runtime that are at work

DeskNames == {"mail", "calendar", "browser", "authority", "records", "documents", "reviews"}

ASSUME HistoryAssumption ==
    /\ Desks \subseteq DeskNames
    /\ MaxWrites \in [DeskNames -> Nat] /\ MaxBackups \in Nat
    /\ Ids \cap Profiles = {}
    /\ Stranger \notin Profiles /\ Null \notin Profiles /\ Null # Stranger

VARIABLES
    desk,       \* the part of the runtime that writes, chosen at the start
    revision,   \* schema revision of the workspace: "modern" or "legacy"
    db,         \* table -> rows
    files,      \* document version -> "good", "damaged" or "none"
    backups,    \* verified archives: revision, database and documents
    latest,     \* ghost: the recorded history as the runtime last left it
    calls,      \* ghost: provider mutations sent, with the attempt that sent it
    writes

workspace == <<revision, db, files>>
ghosts == <<latest, calls>>
vars == <<desk, workspace, backups, ghosts, writes>>

-----------------------------------------------------------------------------
(* The compiled policy.                                                    *)

\* Provider mutations and everything else that happened outside once.
Recorded == {"communication_mutation_audits", "mail_send_claims",
             "calendar_mutation_claims", "calendar_mutation_plans",
             "application_field_executions", "submitted_document_evidence",
             "model_invocations", "ai_media_cleanup"}

\* State that a restore could revive: it has to be exactly the current one.
\* (Of the same two kinds, and left out: event and action logs, ai_cache,
\* provider_sync_states, portal_runs.)
ExactSets == {"oauth_credentials", "oauth_authorization_sessions",
              "communication_configurations", "browser_sessions",
              "supervised_portal_runs", "challenge_sessions",
              "provider_calendar_events"}

\* A row in one of these tables makes the whole database protected history.
Roots == Recorded \cup ExactSets

\* <<table, column, table it names>>; the named column is the primary key.
AnswerReferences == {
    <<"application_answers", "application_id", "applications">>,
    <<"application_answers", "profile_id", "candidate_profiles">>,
    <<"application_field_bindings", "application_id", "applications">>,
    <<"application_field_bindings", "application_answer_id", "application_answers">>,
    <<"application_field_executions", "binding_id", "application_field_bindings">>,
    <<"application_field_executions", "application_id", "applications">>,
    <<"application_field_executions", "application_answer_id", "application_answers">>,
    <<"application_field_executions", "supervised_run_id", "supervised_portal_runs">>,
    <<"application_field_executions", "browser_session_id", "browser_sessions">>}
CandidateReferences == {
    <<"applications", "profile_id", "candidate_profiles">>,
    <<"calendar_mutation_claims", "id", "calendar_mutation_plans">>,
    <<"calendar_mutation_claims", "audit_id", "communication_mutation_audits">>,
    <<"candidate_claims", "profile_id", "candidate_profiles">>}
DocumentReferences == {
    <<"challenge_sessions", "browser_session_id", "browser_sessions">>,
    <<"document_versions", "document_id", "documents">>,
    <<"documents", "profile_id", "candidate_profiles">>}
MailReferences == {
    <<"job_readiness_reviews", "application_id", "applications">>,
    <<"mail_send_claims", "id", "outbound_drafts">>,
    <<"mail_send_claims", "audit_id", "communication_mutation_audits">>}
PortalReferences == {
    <<"submitted_document_evidence", "application_id", "applications">>,
    <<"submitted_document_evidence", "document_version_id", "document_versions">>,
    <<"supervised_portal_runs", "browser_session_id", "browser_sessions">>}
References == AnswerReferences \cup CandidateReferences \cup DocumentReferences
                \cup MailReferences \cup PortalReferences

\* <<table, column>> pairs no two rows of a table may share.
Uniques == {<<"applications", "workflow_id">>, <<"mail_send_claims", "audit_id">>,
            <<"calendar_mutation_claims", "audit_id">>,
            <<"supervised_portal_runs", "browser_session_id">>,
            <<"communication_follow_ups", "dedupe_key">>}

\* The tables inspected: those above and the ones that name or need no other.
Tables == Roots \cup {r[1] : r \in References} \cup {r[3] : r \in References}
            \cup {"workflow_checkpoints", "communication_follow_ups"}

CalendarKinds == {"CREATE_CALENDAR_EVENT", "UPDATE_CALENDAR_EVENT"}

-----------------------------------------------------------------------------
(* Inspecting one snapshot.                                                *)

\* Mutant of HasHistory: the tables of authority are not looked at.
HasRecordedHistory(d) == \E t \in Recorded : d[t] # {}

HasHistory(d) == \E t \in Roots : d[t] # {}

\* _inspect_history_database: one row per key, unique columns are unique, and
\* a database of an earlier schema has no history to lose.
Readable(s) ==
    /\ \A t \in Tables : \A x, y \in s.db[t] : x.id = y.id => x = y
    /\ \A u \in Uniques : \A x, y \in s.db[u[1]] : x[u[2]] = y[u[2]] => x = y
    /\ s.revision # "modern" => ~HasHistory(s.db)

Named(d, t, i) == {x \in d[t] : x.id = i}
Has(row, field) == field \in DOMAIN row /\ row[field] # Null

\* Every reference names a row, and the identities outside SQL do too.
ReferencesHold(d) ==
    \A r \in References : \A x \in d[r[1]] : x[r[2]] # Null => Named(d, r[3], x[r[2]]) # {}
WorkflowKnown(d, w) == \E a \in d["applications"] : a.workflow_id = w
WorkflowsKnown(d) ==
    \A t \in Tables : \A x \in d[t] :
        Has(x, "workflow_id") => WorkflowKnown(d, x.workflow_id)
ProfilesKnown(d) ==
    \A x \in d["model_invocations"] :
        x.profile_id # Null => Named(d, "candidate_profiles", x.profile_id) # {}

Attempts(d, plan) ==
    {a \in d["communication_mutation_audits"] : a.kind \in CalendarKinds /\ a.resource_id = plan}

\* The oldest attempt of a plan is the one that claimed it.
Oldest(attempts) == {a \in attempts : \A o \in attempts : a.at <= o.at}

\* Every attempt has its draft or plan, and every claim its attempt.
AttemptsHaveSource(d) ==
    \A a \in d["communication_mutation_audits"] :
        IF a.kind = "SEND_MESSAGE"
        THEN Named(d, "outbound_drafts", a.resource_id) # {}
        ELSE \E p \in Named(d, "calendar_mutation_plans", a.resource_id) : p.kind = a.kind
MailClaimsLinked(d) ==
    \A c \in d["mail_send_claims"] :
        \E a \in Named(d, "communication_mutation_audits", c.audit_id) :
            a.kind = "SEND_MESSAGE" /\ a.resource_id = c.id
CalendarClaimsLinked(d) ==
    \A c \in d["calendar_mutation_claims"] :
        \E a \in Attempts(d, c.id) : a.id = c.audit_id
AttemptsClaimed(d) ==
    \A a \in d["communication_mutation_audits"] :
        a.kind \in CalendarKinds =>
            \E c \in Named(d, "calendar_mutation_claims", a.resource_id) :
                \E o \in Oldest(Attempts(d, a.resource_id)) : c.audit_id = o.id
AttemptsLinked(d) ==
    /\ AttemptsHaveSource(d) /\ MailClaimsLinked(d)
    /\ CalendarClaimsLinked(d) /\ AttemptsClaimed(d)

\* The application a row belongs to, by its id or by its workflow.
ApplicationOf(d, x) ==
    {a \in d["applications"] :
        IF "application_id" \in DOMAIN x THEN a.id = x.application_id
        ELSE "workflow_id" \in DOMAIN x /\ a.workflow_id = x.workflow_id}

\* The candidate a row belongs to: its own column, or its application's.
OwnerOf(d, x) ==
    IF Has(x, "profile_id") THEN {x.profile_id}
    ELSE {a.profile_id : a \in ApplicationOf(d, x)}
VersionOwner(d, v) ==
    {y.profile_id : y \in UNION {Named(d, "documents", x.document_id) :
                                   x \in Named(d, "document_versions", v)}}

\* _ownership_closure: rows that name the same things belong to the same one.
RowOwned(d, x) ==
    /\ \A a \in ApplicationOf(d, x) : \A f \in {"profile_id", "workflow_id"} :
          Has(x, f) => x[f] = a[f]
    /\ Has(x, "document_version_id") =>
          OwnerOf(d, x) = {} \/ VersionOwner(d, x.document_version_id) = OwnerOf(d, x)
    /\ "document_version_ids" \in DOMAIN x => \A v \in x.document_version_ids :
          OwnerOf(d, x) # {} /\ VersionOwner(d, v) = OwnerOf(d, x)
    /\ "evidence_claim_ids" \in DOMAIN x => \A c \in x.evidence_claim_ids :
          \E k \in Named(d, "candidate_claims", c) : OwnerOf(d, x) \in {{}, {k.profile_id}}
AnswerOwned(d, x) ==
    "application_answer_id" \in DOMAIN x =>
        \E a \in Named(d, "application_answers", x.application_answer_id) :
            a.application_id = x.application_id /\ x.answer_revision <= a.revision
BrowserOwned(d, x) ==
    "browser_session_id" \in DOMAIN x =>
        \E b \in Named(d, "browser_sessions", x.browser_session_id) :
            \A a \in ApplicationOf(d, x) : b.workflow_id = a.workflow_id
ExecutionOwned(d, x) ==
    /\ \E b \in Named(d, "application_field_bindings", x.binding_id) :
          /\ b.application_id = x.application_id
          /\ b.application_answer_id = x.application_answer_id
    /\ \E r \in Named(d, "supervised_portal_runs", x.supervised_run_id) :
          /\ r.browser_session_id = x.browser_session_id
          /\ \E a \in ApplicationOf(d, x) : r.workflow_id = a.workflow_id
OwnershipHolds(d) ==
    /\ \A t \in Tables : \A x \in d[t] :
          RowOwned(d, x) /\ AnswerOwned(d, x) /\ BrowserOwned(d, x)
    /\ \A x \in d["application_field_executions"] : ExecutionOwned(d, x)

\* _review_dependencies: a review rests on the review it names, which is of
\* the same application, and on claims and documents of its candidate.
Reviews(d, i, kind, app) ==
    {r \in Named(d, "job_readiness_reviews", i) : r.kind = kind /\ r.application_id = app}
ReviewRests(d, r) ==
    /\ r.kind # "REQUIREMENTS" => Reviews(d, r.requirements, "REQUIREMENTS", r.application_id) # {}
    /\ \A c \in r.cited : \E k \in Named(d, "candidate_claims", c) : {k.profile_id} = OwnerOf(d, r)
    /\ r.kind = "SELECTION" =>
          /\ \E q \in Reviews(d, r.qualification, "QUALIFICATION", r.application_id) :
                q.cleared /\ q.requirements = r.requirements
          /\ VersionOwner(d, r.version) = OwnerOf(d, r)
ReviewsRest(d) == \A r \in d["job_readiness_reviews"] : ReviewRests(d, r)

\* require_relational_closure, and the reviews that _authenticate opens.
Closed(d) ==
    /\ ReferencesHold(d) /\ WorkflowsKnown(d) /\ ProfilesKnown(d)
    /\ AttemptsLinked(d) /\ OwnershipHolds(d) /\ ReviewsRest(d)

-----------------------------------------------------------------------------
(* Admitting a candidate.                                                  *)

Resolved(d) == \A m \in d["ai_media_cleanup"] : m.state = "DELETED"

\* Mutant of RowsKept: only authority is compared.
AuthorityKept(current, candidate) == \A t \in ExactSets : current[t] = candidate[t]

\* Every current row is in the candidate, and authority is exactly the same.
RowsKept(current, candidate) ==
    /\ \A t \in Tables : current[t] \subseteq candidate[t]
    /\ \A t \in ExactSets : current[t] = candidate[t]

\* The copies of a version the restore could leave: the live one when the
\* current database knows the version or nothing is staged, and the staged one.
Copies(current, v, live, staged) ==
    {live[v.id] : x \in IF v \in current["document_versions"] \/ staged[v.id] = "none"
                        THEN {v} ELSE {}}
      \cup ({staged[v.id]} \ {"none"})

\* Mutant of DocumentsKept: a staged copy is taken on trust.
LiveDocumentsKept(current, candidate, live, staged) ==
    \A v \in candidate["document_versions"] : staged[v.id] = "none" => live[v.id] = "good"

\* _documents: each of them decrypts to the bytes the version was recorded with.
DocumentsKept(current, candidate, live, staged) ==
    \A v \in candidate["document_versions"] : Copies(current, v, live, staged) = {"good"}

\* _require_preserved_snapshots.
HistoryAdmits(current, candidate, live, staged) ==
    /\ Readable(current) /\ Readable(candidate)
    /\ Resolved(current.db) /\ Resolved(candidate.db)
    /\ HasHistory(current.db) \/ HasHistory(candidate.db) =>
          /\ Closed(current.db) /\ Closed(candidate.db)
          /\ RowsKept(current.db, candidate.db)
          /\ DocumentsKept(current.db, candidate.db, live, staged)

\* _require_preserved_mail_attempts: the older guard of mail sends.
MailAttempts(d) == {a \in d["communication_mutation_audits"] : a.kind = "SEND_MESSAGE"}
MailKept(current, candidate) ==
    /\ MailAttempts(current) \subseteq candidate["communication_mutation_audits"]
    /\ current["mail_send_claims"] \subseteq candidate["mail_send_claims"]

Here == [revision |-> revision, db |-> db, files |-> files]
NoFiles == [v \in Ids \cup Profiles |-> "none"]

Categories == SUBSET {"DATABASE", "DOCUMENTS"} \ {{}}
CandidateOf(b, chosen) == IF "DATABASE" \in chosen THEN b ELSE Here
StagedFiles(b, chosen) == IF "DOCUMENTS" \in chosen THEN b.files ELSE NoFiles
Admitted(b, chosen) ==
    /\ "DATABASE" \in chosen => Resolved(db) /\ MailKept(db, b.db)
    /\ HistoryAdmits(Here, CandidateOf(b, chosen), files, StagedFiles(b, chosen))

-----------------------------------------------------------------------------
(* The workspace before the first step.                                    *)

Rewritten(d, new) == [t \in Tables |-> IF t \in DOMAIN new THEN new[t] ELSE d[t]]
NoRows == [t \in Tables |-> {}]

\* Each candidate has an application, a document and an answer to it.
Prepared == Rewritten(NoRows,
    [candidate_profiles |-> {[id |-> p] : p \in Profiles},
     applications |-> {[id |-> p, workflow_id |-> p, profile_id |-> p] : p \in Profiles},
     documents |-> {[id |-> p, profile_id |-> p] : p \in Profiles},
     document_versions |-> {[id |-> p, document_id |-> p] : p \in Profiles},
     candidate_claims |-> {[id |-> p, profile_id |-> p] : p \in Profiles},
     application_answers |->
         {[id |-> p, application_id |-> p, profile_id |-> p, revision |-> 1,
           evidence_claim_ids |-> {p}] : p \in Profiles}])

\* A workspace of the previous schema: a plan and the attempts made for it.
LegacyRows(plan, attempts) == Rewritten(Prepared,
    [calendar_mutation_plans |->
         {[id |-> plan, workflow_id |-> Null, kind |-> "CREATE_CALENDAR_EVENT"]},
     communication_mutation_audits |-> attempts])
LegacyAttempt(i, plan, at) ==
    [id |-> i, kind |-> "CREATE_CALENDAR_EVENT", resource_id |-> plan,
     status |-> "UNCERTAIN", at |-> at]

History(d) == [t \in Roots |-> d[t]]

Init ==
    /\ desk \in Desks
    /\ \/ revision = "modern" /\ db = Prepared /\ calls = {}
       \/ revision = "legacy" /\ desk = "calendar" /\ db = Prepared /\ calls = {}
       \/ /\ revision = "legacy" /\ desk = "calendar"
          /\ \E plan, i, j \in Ids :
                /\ i # j
                /\ \E attempts \in {{}, {LegacyAttempt(i, plan, 0)},
                                    {LegacyAttempt(i, plan, 0), LegacyAttempt(j, plan, 1)}} :
                      /\ db = LegacyRows(plan, attempts)
                      /\ calls = {[kind |-> a.kind, resource |-> plan, audit |-> a.id] :
                                   a \in Oldest(attempts)}
    /\ files = [v \in Ids \cup Profiles |-> IF v \in Profiles THEN "good" ELSE "none"]
    /\ backups = {} /\ latest = History(db) /\ writes = 0

-----------------------------------------------------------------------------
(* The runtime: one action per transaction it commits.  It opens only a    *)
(* workspace of the modern schema.                                         *)

At(name) == desk = name /\ revision = "modern"

\* An identity no row of the table has, here or in a backup.
Fresh(t) == {i \in Ids : Named(db, t, i) = {} /\ \A b \in backups : Named(b.db, t, i) = {}}

Commit(new) ==
    /\ writes < MaxWrites[desk] /\ writes' = writes + 1
    /\ db' = Rewritten(db, new)
    /\ latest' = History(db')
    /\ UNCHANGED <<desk, revision, backups>>
NoCall == calls' = calls
Write(new) == Commit(new) /\ NoCall /\ UNCHANGED files

Insert(t, x) == [u \in {t} |-> db[t] \cup {x}]
Replace(t, old, x) == [u \in {t} |-> (db[t] \ {old}) \cup {x}]
Now == writes + 2

CreateDraft(i, w, versions) ==
    /\ At("mail") /\ i \in Fresh("outbound_drafts")
    /\ versions # {} =>
          \E a \in db["applications"] :
              /\ a.workflow_id = w
              /\ \A v \in versions :
                    VersionOwner(db, v) = {a.profile_id} /\ files[v] = "good"
    /\ Write(Insert("outbound_drafts",
                    [id |-> i, workflow_id |-> w, document_version_ids |-> versions]))

PlanCalendar(i, w) ==
    /\ At("calendar") /\ i \in Fresh("calendar_mutation_plans")
    /\ w # Null => WorkflowKnown(db, w)
    /\ Write(Insert("calendar_mutation_plans",
                    [id |-> i, workflow_id |-> w, kind |-> "CREATE_CALENDAR_EVENT"]))

\* The reservation of an attempt is committed before the provider is called.
Attempted(i, resource, kind) ==
    db["communication_mutation_audits"]
      \cup {[id |-> i, kind |-> kind, resource_id |-> resource, status |-> "PLANNED", at |-> Now]}
Claimed(i, resource, claims) == db[claims] \cup {[id |-> resource, audit_id |-> i]}
Call(i, resource, kind) ==
    /\ calls' = calls \cup {[kind |-> kind, resource |-> resource, audit |-> i]}
    /\ UNCHANGED files

\* find_mail_audit.
MailAttempted(d) == \E a \in MailAttempts(db) : a.resource_id = d.id

ClaimMail(i, d) ==
    /\ At("mail") /\ i \in Fresh("communication_mutation_audits")
    /\ ~MailAttempted(d)
    /\ Commit([communication_mutation_audits |-> Attempted(i, d.id, "SEND_MESSAGE"),
               mail_send_claims |-> Claimed(i, d.id, "mail_send_claims")])
    /\ Call(i, d.id, "SEND_MESSAGE")

\* find_calendar_audit and _has_unclaimed_calendar_audit: an attempt returns
\* itself when it is claimed, and is an error when it is not.
CalendarAttempted(p) ==
    \/ Attempts(db, p.id) # {}
    \/ \E c \in Named(db, "calendar_mutation_claims", p.id) :
          Named(db, "communication_mutation_audits", c.audit_id) # {}

ClaimCalendar(i, p) ==
    /\ At("calendar") /\ i \in Fresh("communication_mutation_audits")
    /\ ~CalendarAttempted(p)
    /\ Commit([communication_mutation_audits |-> Attempted(i, p.id, p.kind),
               calendar_mutation_claims |-> Claimed(i, p.id, "calendar_mutation_claims")])
    /\ Call(i, p.id, p.kind)

\* The provider's answer, or its absence, is recorded on the attempt; only
\* the attempt that claimed a plan is finished.
FinishAttempt(a, status) ==
    /\ At("mail") \/ At("calendar")
    /\ a.status = "PLANNED"
    /\ a.kind \in CalendarKinds =>
          \E c \in Named(db, "calendar_mutation_claims", a.resource_id) : c.audit_id = a.id
    /\ Write(Replace("communication_mutation_audits", a,
                     [a EXCEPT !.status = status, !.at = Now]))

ScheduleFollowUp(i, w) ==
    /\ At("mail") /\ i \in Fresh("communication_follow_ups")
    /\ \A f \in db["communication_follow_ups"] : f.dedupe_key # w
    /\ Write(Insert("communication_follow_ups",
                    [id |-> i, workflow_id |-> w, dedupe_key |-> w]))

----------------------------------------------------------------------------
(* Browser sessions, portal runs, challenges and field executions.         *)

Session(i, w) == [id |-> i, workflow_id |-> w, state |-> "ACTIVE"]

OpenBrowser(i, w) ==
    /\ At("browser") /\ i \in Fresh("browser_sessions") /\ WorkflowKnown(db, w)
    /\ Write(Insert("browser_sessions", Session(i, w)))

MoveBrowser(b, state) ==
    /\ At("browser") /\ b.state \notin {state, "STOPPED"}
    /\ Write(Replace("browser_sessions", b, [b EXCEPT !.state = state]))

\* A run opens a browser of its own and hands it to the user.
StartRun(i, j, w, state) ==
    /\ At("browser") /\ i \in Fresh("supervised_portal_runs")
    /\ j \in Fresh("browser_sessions") /\ WorkflowKnown(db, w)
    /\ Write([browser_sessions |-> db["browser_sessions"]
                 \cup {[Session(j, w) EXCEPT !.state = "USER_TAKEOVER"]},
              supervised_portal_runs |-> db["supervised_portal_runs"]
                 \cup {[id |-> i, workflow_id |-> w, browser_session_id |-> j, state |-> state]}])

DetectChallenge(i, w, b) ==
    /\ At("browser") /\ i \in Fresh("challenge_sessions") /\ WorkflowKnown(db, w)
    /\ b.workflow_id = w /\ b.state # "STOPPED"
    /\ Write(Insert("challenge_sessions",
                    [id |-> i, workflow_id |-> w, browser_session_id |-> b.id,
                     status |-> "IN_PROGRESS"]))

ReviseAnswer(x) ==
    /\ At("browser")
    /\ Write(Replace("application_answers", x, [x EXCEPT !.revision = @ + 1]))

BindField(i, x) ==
    /\ At("browser") /\ i \in Fresh("application_field_bindings")
    /\ Write(Insert("application_field_bindings",
                    [id |-> i, application_id |-> x.application_id,
                     application_answer_id |-> x.id, answer_revision |-> x.revision]))

\* The binding is still of the answer as it reads, and the run is of the
\* application's own workflow.
ExecuteField(i, f, r) ==
    /\ At("browser") /\ i \in Fresh("application_field_executions")
    /\ r.state = "AWAITING_USER"
    /\ \E a \in Named(db, "applications", f.application_id) : a.workflow_id = r.workflow_id
    /\ \E x \in Named(db, "application_answers", f.application_answer_id) :
          x.application_id = f.application_id /\ x.revision = f.answer_revision
    /\ \E b \in Named(db, "browser_sessions", r.browser_session_id) : b.state = "USER_TAKEOVER"
    /\ Write(Insert("application_field_executions",
                    [id |-> i, binding_id |-> f.id, application_id |-> f.application_id,
                     application_answer_id |-> f.application_answer_id,
                     answer_revision |-> f.answer_revision,
                     supervised_run_id |-> r.id, browser_session_id |-> r.browser_session_id]))

----------------------------------------------------------------------------
(* Provider authority.                                                     *)

\* A new authorization replaces what the provider was asked before.
StartOAuth(i) ==
    /\ At("authority") /\ i \in Fresh("oauth_authorization_sessions")
    /\ Write([oauth_authorization_sessions |-> {[id |-> i, consumed |-> FALSE]}])
ConsumeOAuth(s) ==
    /\ At("authority") /\ ~s.consumed
    /\ Write([oauth_authorization_sessions |->
                 (db["oauth_authorization_sessions"] \ {s}) \cup {[s EXCEPT !.consumed = TRUE]}])

\* One credential: a login replaces it, a refresh rewrites it.
SaveTokens(i) ==
    /\ At("authority")
    /\ i \in Fresh("oauth_credentials") \/ Named(db, "oauth_credentials", i) # {}
    /\ Write([oauth_credentials |-> {[id |-> i, edition |-> Now]}])
DeleteTokens ==
    /\ At("authority") /\ db["oauth_credentials"] # {}
    /\ Write([oauth_credentials |-> {}])

SaveConfiguration ==
    /\ At("authority")
    /\ Write([communication_configurations |-> {[id |-> "active", edition |-> Now]}])
DeleteConfiguration ==
    /\ At("authority") /\ db["communication_configurations"] # {}
    /\ Write([communication_configurations |-> {}])

\* reconcile_calendar_events: what the provider no longer lists is deleted.
SyncCalendar(events) ==
    /\ At("authority")
    /\ Write([provider_calendar_events |-> {[id |-> e, edition |-> Now] : e \in events}])

----------------------------------------------------------------------------
(* Records of what happened.                                               *)

SaveCheckpoint(i, w) ==
    /\ At("records") /\ i \in Fresh("workflow_checkpoints")
    /\ Write(Insert("workflow_checkpoints", [id |-> i, workflow_id |-> w]))

IngestVersion(i, d) ==
    /\ At("documents") /\ i \in Fresh("document_versions")
    /\ Commit(Insert("document_versions", [id |-> i, document_id |-> d.id]))
    /\ files' = [files EXCEPT ![i] = "good"] /\ NoCall

SubmitEvidence(i, a, v) ==
    /\ At("documents") /\ i \in Fresh("submitted_document_evidence")
    /\ VersionOwner(db, v.id) = {a.profile_id}
    /\ \A s \in db["submitted_document_evidence"] :
          ~(s.application_id = a.id /\ s.document_version_id = v.id)
    /\ Write(Insert("submitted_document_evidence",
                    [id |-> i, application_id |-> a.id, document_version_id |-> v.id]))

Invoke(i, p) ==
    /\ At("records") \/ At("documents") \/ At("reviews")
    /\ i \in Fresh("model_invocations")
    /\ Write(Insert("model_invocations", [id |-> i, profile_id |-> p]))

OweMedia(i) ==
    /\ At("records") /\ i \in Fresh("ai_media_cleanup")
    /\ Write(Insert("ai_media_cleanup", [id |-> i, state |-> "ACTIVE"]))
ConfirmDeleted(m) ==
    /\ At("records") /\ m.state = "ACTIVE"
    /\ Write(Replace("ai_media_cleanup", m, [m EXCEPT !.state = "DELETED"]))

----------------------------------------------------------------------------
(* Readiness reviews: each rests on the last one of the kind before it.    *)

Recalled(a, kind) ==
    {r \in db["job_readiness_reviews"] : r.application_id = a.id /\ r.kind = kind}
LastReview(a, kind) ==
    {r \in Recalled(a, kind) : \A o \in Recalled(a, kind) : o.edition <= r.edition}
Review(i, a, kind) ==
    [id |-> i, application_id |-> a.id, kind |-> kind,
     edition |-> Cardinality(Recalled(a, kind)) + 1, requirements |-> Null,
     qualification |-> Null, cited |-> {}, cleared |-> FALSE, version |-> Null]
WriteReview(i, review) ==
    /\ At("reviews") /\ i \in Fresh("job_readiness_reviews")
    /\ Write(Insert("job_readiness_reviews", review))

RecordRequirements(i, a) == WriteReview(i, Review(i, a, "REQUIREMENTS"))

RecordQualification(i, a, cited, cleared) ==
    /\ \A c \in cited : \E k \in Named(db, "candidate_claims", c) : k.profile_id = a.profile_id
    /\ \E q \in LastReview(a, "REQUIREMENTS") :
          WriteReview(i, [Review(i, a, "QUALIFICATION") EXCEPT
                             !.requirements = q.id, !.cited = cited, !.cleared = cleared])

RecordSelection(i, a, v) ==
    /\ VersionOwner(db, v.id) = {a.profile_id} /\ files[v.id] = "good"
    /\ \E q \in LastReview(a, "QUALIFICATION") :
          /\ q.cleared /\ \E r \in LastReview(a, "REQUIREMENTS") : q.requirements = r.id
          /\ WriteReview(i, [Review(i, a, "SELECTION") EXCEPT
                                !.requirements = q.requirements, !.qualification = q.id,
                                !.version = v.id])

-----------------------------------------------------------------------------
(* Backups, restores, upgrades, and what happens to the files.             *)

Backup ==
    /\ Cardinality(backups) < MaxBackups
    /\ backups' = backups \cup {Here}
    /\ UNCHANGED <<desk, workspace, ghosts, writes>>

\* Staged documents replace their live copies; nothing else is deleted.
Restore(b, chosen) ==
    /\ Admitted(b, chosen)
    /\ revision' = CandidateOf(b, chosen).revision
    /\ db' = CandidateOf(b, chosen).db
    /\ files' = [v \in DOMAIN files |-> IF StagedFiles(b, chosen)[v] # "none"
                                        THEN b.files[v] ELSE files[v]]
    /\ UNCHANGED <<desk, backups, ghosts, writes>>

\* Mutant of OldestClaims: the newest attempt of a plan claims it.
NewestClaims == {[id |-> a.resource_id, audit_id |-> a.id] :
    a \in {x \in db["communication_mutation_audits"] :
             x.kind \in CalendarKinds
             /\ \A y \in Attempts(db, x.resource_id) : y.at <= x.at}}

OldestClaims == {[id |-> a.resource_id, audit_id |-> a.id] :
    a \in {x \in db["communication_mutation_audits"] :
             x.kind \in CalendarKinds /\ x \in Oldest(Attempts(db, x.resource_id))}}

\* Migration 0028, run before the runtime opens the workspace.
Upgrade ==
    /\ revision = "legacy" /\ AttemptsHaveSource(db)
    /\ revision' = "modern"
    /\ db' = Rewritten(db, [calendar_mutation_claims |-> OldestClaims])
    /\ latest' = History(db')
    /\ UNCHANGED <<desk, files, backups, calls, writes>>

Whole == \A v \in db["document_versions"] : files[v.id] = "good"

\* Software outside the application damages a stored document, removes it, or
\* puts the recorded bytes back; one copy at a time is not whole.
EditFile(v, state) ==
    /\ desk = "documents" /\ Named(db, "document_versions", v) # {}
    /\ files[v] # state
    /\ Whole \/ state = "good"
    /\ files' = [files EXCEPT ![v] = state]
    /\ UNCHANGED <<desk, revision, db, backups, ghosts, writes>>

Outbound ==
    \/ \E i \in Ids, w \in Profiles \cup {Stranger, Null} :
          \/ \E versions \in SUBSET Profiles : CreateDraft(i, w, versions)
          \/ PlanCalendar(i, w)
    \/ \E i \in Ids, d \in db["outbound_drafts"] : ClaimMail(i, d)
    \/ \E i \in Ids, p \in db["calendar_mutation_plans"] : ClaimCalendar(i, p)
    \/ \E a \in db["communication_mutation_audits"], status \in {"CONFIRMED", "UNCERTAIN"} :
          FinishAttempt(a, status)
    \/ \E i \in Ids, w \in Profiles \cup {Stranger} : ScheduleFollowUp(i, w)
Browser ==
    \/ \E i \in Ids, w \in Profiles \cup {Stranger} :
          \/ OpenBrowser(i, w)
          \/ \E j \in Ids, state \in {"AWAITING_USER", "INTERVENTION_REQUIRED"} :
                StartRun(i, j, w, state)
          \/ \E b \in db["browser_sessions"] : DetectChallenge(i, w, b)
    \/ \E b \in db["browser_sessions"], state \in {"USER_TAKEOVER", "STOPPED"} :
          MoveBrowser(b, state)
    \/ \E x \in db["application_answers"] :
          ReviseAnswer(x) \/ \E i \in Ids : BindField(i, x)
    \/ \E i \in Ids, f \in db["application_field_bindings"],
          r \in db["supervised_portal_runs"] : ExecuteField(i, f, r)
Authority ==
    \/ \E i \in Ids : StartOAuth(i) \/ SaveTokens(i)
    \/ \E s \in db["oauth_authorization_sessions"] : ConsumeOAuth(s)
    \/ DeleteTokens \/ SaveConfiguration \/ DeleteConfiguration
    \/ \E events \in SUBSET Ids : SyncCalendar(events)
Records ==
    \/ \E i \in Ids :
          \/ \E w \in Profiles \cup {Stranger} : SaveCheckpoint(i, w)
          \/ \E d \in db["documents"] : IngestVersion(i, d)
          \/ \E a \in db["applications"], v \in db["document_versions"] : SubmitEvidence(i, a, v)
          \/ \E p \in Profiles \cup {Stranger, Null} : Invoke(i, p)
          \/ OweMedia(i)
    \/ \E m \in db["ai_media_cleanup"] : ConfirmDeleted(m)
Readiness ==
    \E i \in Ids, a \in db["applications"] :
        \/ RecordRequirements(i, a)
        \/ \E cited \in SUBSET Profiles, cleared \in BOOLEAN :
              RecordQualification(i, a, cited, cleared)
        \/ \E v \in db["document_versions"] : RecordSelection(i, a, v)

Next ==
    \/ Outbound \/ Browser \/ Authority \/ Records \/ Readiness
    \/ Backup \/ Upgrade
    \/ \E b \in backups, chosen \in Categories : Restore(b, chosen)
    \/ \E v \in Profiles \cup Ids, state \in {"good", "damaged", "none"} : EditFile(v, state)

Spec == Init /\ [][Next]_vars

-----------------------------------------------------------------------------
(* Types.                                                                  *)

Workflows == Profiles \cup {Stranger, Null}
Keys == Ids \cup Profiles
Claim == [id : Ids, audit_id : Ids]
Edition == [id : Ids, edition : Nat]

\* The rows of every table, by the keys they hold.
Row == [
    communication_mutation_audits |->
        [id : Ids, kind : {"SEND_MESSAGE"} \cup CalendarKinds, resource_id : Ids,
         status : {"PLANNED", "CONFIRMED", "UNCERTAIN"}, at : Nat],
    mail_send_claims |-> Claim,
    calendar_mutation_claims |-> Claim,
    calendar_mutation_plans |-> [id : Ids, workflow_id : Workflows, kind : CalendarKinds],
    application_field_executions |->
        [id : Ids, binding_id : Ids, application_id : Profiles,
         application_answer_id : Profiles, answer_revision : Nat,
         supervised_run_id : Ids, browser_session_id : Ids],
    submitted_document_evidence |->
        [id : Ids, application_id : Profiles, document_version_id : Keys],
    model_invocations |-> [id : Ids, profile_id : Workflows],
    ai_media_cleanup |-> [id : Ids, state : {"ACTIVE", "DELETED"}],
    oauth_credentials |-> Edition,
    oauth_authorization_sessions |-> [id : Ids, consumed : BOOLEAN],
    communication_configurations |-> [id : {"active"}, edition : Nat],
    browser_sessions |->
        [id : Ids, workflow_id : Workflows, state : {"ACTIVE", "USER_TAKEOVER", "STOPPED"}],
    supervised_portal_runs |->
        [id : Ids, workflow_id : Workflows, browser_session_id : Ids,
         state : {"AWAITING_USER", "INTERVENTION_REQUIRED"}],
    challenge_sessions |->
        [id : Ids, workflow_id : Workflows, browser_session_id : Ids, status : {"IN_PROGRESS"}],
    provider_calendar_events |-> Edition,
    application_answers |->
        [id : Profiles, application_id : Profiles, profile_id : Profiles, revision : Nat,
         evidence_claim_ids : SUBSET Profiles],
    application_field_bindings |->
        [id : Ids, application_id : Profiles, application_answer_id : Profiles,
         answer_revision : Nat],
    applications |-> [id : Profiles, workflow_id : Profiles, profile_id : Profiles],
    candidate_profiles |-> [id : Profiles],
    candidate_claims |-> [id : Profiles, profile_id : Profiles],
    document_versions |-> [id : Keys, document_id : Profiles],
    documents |-> [id : Profiles, profile_id : Profiles],
    job_readiness_reviews |->
        [id : Ids, application_id : Profiles, kind : {"REQUIREMENTS", "QUALIFICATION", "SELECTION"},
         edition : Nat, requirements : Ids \cup {Null}, qualification : Ids \cup {Null},
         cited : SUBSET Profiles, cleared : BOOLEAN, version : Keys \cup {Null}],
    outbound_drafts |->
        [id : Ids, workflow_id : Workflows, document_version_ids : SUBSET Profiles],
    workflow_checkpoints |-> [id : Ids, workflow_id : Workflows],
    communication_follow_ups |-> [id : Ids, workflow_id : Workflows, dedupe_key : Workflows]]

Typed(d) ==
    /\ DOMAIN d = Tables /\ \A t \in Tables : d[t] \subseteq Row[t]
    /\ IsFiniteSet(d["job_readiness_reviews"])
Files == [Keys -> {"good", "damaged", "none"}]

\* The values every state of the workspace and its backups takes.
TypeOK ==
    /\ desk \in Desks /\ revision \in {"modern", "legacy"} /\ writes \in Nat
    /\ Typed(db) /\ files \in Files
    /\ \A b \in backups :
          b.revision \in {"modern", "legacy"} /\ Typed(b.db) /\ b.files \in Files
    /\ DOMAIN latest = Roots
    /\ calls \subseteq [kind : {"SEND_MESSAGE"} \cup CalendarKinds, resource : Ids, audit : Ids]

-----------------------------------------------------------------------------
(* Properties.                                                             *)

\* Whatever is restored, and in whatever order with the runtime's writes, the
\* recorded history stays as the runtime last left it: no row of it is lost or
\* changed, authority, sessions and configuration are exactly the last ones,
\* and no provider cleanup comes back (services/restore_history.py,
\* _require_preserved_snapshots).
RecordedHistoryStands ==
    /\ \A t \in Roots : latest[t] \subseteq db[t]
    /\ \A t \in ExactSets : latest[t] = db[t]
    /\ {m \in db["ai_media_cleanup"] : m.state # "DELETED"} \subseteq latest["ai_media_cleanup"]

\* No draft is sent twice and no plan carried out twice, across every restore
\* of an older backup and the upgrade of a workspace whose schema did not
\* claim calendar attempts yet (storage/communication_repository.py,
\* migration 0028).
NothingIsSentTwice ==
    \A c, d \in calls : c.kind = d.kind /\ c.resource = d.resource => c = d

\* What RestoreRecovery knows of a database.
Summary(d) ==
    [claims |-> d["communication_mutation_audits"] \cup d["mail_send_claims"]
                  \cup d["calendar_mutation_claims"],
     authority |-> [t \in ExactSets |-> d[t]],
     cleanup |-> ~Resolved(d)]

\* The row-by-row inspection keeps the promise RestoreRecovery is built on:
\* every restore of a database keeps its recorded attempts and its authority,
\* and neither forgets nor revives a cleanup (services/restore_history.py,
\* _require_preserved_snapshots).
RestoreKeepsHistory ==
    [][\A b \in backups, chosen \in Categories :
          Restore(b, chosen) => HistoryPreserved(Summary(db), Summary(db'))]_vars

\* Rows a writer may leave that name a workflow or profile nobody knows
\* (services/ai.py, _record; services/core.py, save_checkpoint).
Orphans(d) ==
    \/ \E t \in Tables : \E x \in d[t] : Has(x, "workflow_id") /\ ~WorkflowKnown(d, x.workflow_id)
    \/ ~ProfilesKnown(d)

Matching(chosen) == HistoryAdmits(Here, Here, files, StagedFiles(Here, chosen))

\* What the runtime writes, the restore can read: whatever the parts of the
\* runtime recorded and in whatever order, a complete backup of the workspace
\* as it stands is admitted into it, as long as no cleanup is owed, every
\* document is whole and no row names an unknown workflow or profile
\* (storage/restore_history_repository.py, require_relational_closure).
MatchingIsAdmitted ==
    revision = "modern" /\ Resolved(db) /\ Whole /\ ~Orphans(db) =>
        \A chosen \in Categories : Matching(chosen)

\* A restore into a workspace with recorded history leaves every document
\* version with the bytes it was recorded with, whether the copy was live,
\* staged or both (services/restore_history.py, _documents).
VersionsKeepTheirBytes ==
    [][\A b \in backups, chosen \in Categories :
          Restore(b, chosen) /\ HasHistory(db) =>
              \A v \in db'["document_versions"] : files'[v.id] = "good"]_vars

=============================================================================
