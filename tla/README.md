# Job Apply Pro: verification project

TLA+ specifications of Job Apply Pro, with the TLC configurations that check
them and TLAPS proofs about them. Paths such as `services/ai.py` are below
`src/backend/src/job_apply_pro/`; `main/x.ts` is below `src/apps/desktop/src/`.

- [The system](#the-system)
- [Modules](#modules)
- [How the models correspond to the code](#how-the-models-correspond-to-the-code)
- [Runs](#runs)
- [Fairness](#fairness)
- [Proofs](#proofs)
- [Findings](#findings)
- [What is not modelled](#what-is-not-modelled)
- [Plan](#plan)
- [Running it](#running-it)

## The system

A Windows desktop application (Electron) owns a local FastAPI backend with an
encrypted SQLite workspace. The backend talks to job portals through a separate
Playwright worker process, to mail and calendar providers over OAuth, and to AI
providers. The owner reviews everything that leaves the machine.

| Component | State it keeps | Operations | Talks to | What is hard |
|---|---|---|---|---|
| Desktop supervisor (`main/backend-supervisor.ts`, `update-manager.ts`, `index.ts`) | owned children, generation, operation slots, session guard, status | start, stop, shutdown, prepareUpdate, applyOfflineRestore | spawns migration, server, restore; polls the API | overlapping calls, stale continuations, children that ignore a kill, a desktop crash that leaves orphans |
| Workspace lease and guard (`restore_admission.py`, `storage/restore_gate_repository.py`) | OS lock, `active.guard`, operation directories | acquire as runtime or restore, activate, finish, discard | every backend process | check against lock order, crash between files |
| Offline restore and recovery (`services/restore_recovery.py`, `restore_rollback.py`) | before and after images, intent, decision, receipt | prepare, apply, rollback, finalize | lease, backups, history | crash at any write, retries, edits by other software |
| Restore history (`services/restore_history.py`, `storage/restore_history_*.py`) | none | compare a candidate database with the current one | restore | an old backup that forgets what was done since |
| Backups (`services/backup.py`) | archives, manifests, restore plans | create, verify, stage, schedules | restore | documents and database read at different times |
| Outbound mutations (`services/communications.py`, `storage/communication_repository.py`) | drafts, plans, audits, claims, idempotency keys | create and send a draft, plan and execute a calendar change | OAuth, providers | lost answers, retries, two confirmations, a crash between claim and outcome |
| Mail import (`services/communications.py`, `integrations/provider_clients.py`) | records, a cursor per provider | synchronize, list, fetch, save | OAuth, providers | mail that arrives while it is read, expired cursors, a changed account, two syncs |
| Review dialogs (`main/mail-draft-ipc.ts`, `main/calendar-event-ipc.ts`) | a note per draft, in memory | prepare, review, dispatch | outbound mutations, the owner | calls given up and served later, overlapping handlers, a desktop opened anew |
| Provider connections (`integrations/oauth.py`, `storage/oauth_repository.py`) | login sessions, credentials | start, complete, revoke, token with refresh | providers, loopback browser | duplicated callbacks, refresh against login and revocation |
| AI media journal and cleanup (`storage/media_cleanup_repository.py`, `services/media_cleanup.py`, `ai/providers.py`) | a row per uploaded file with a lease | intend, register, renew, delete, reclaim, review | AI provider | an upload that lands after its client gave up, expired leases, process death |
| Supervised portal runs (`services/supervised_portals.py`) | run, page fingerprint, evidence | start, capture, submit, stop | browser runtime | a click whose answer is lost, concurrent requests on one run |
| Browser runtime and worker (`services/browser_runtime.py`, `browser/`) | session rows, the worker's session table, a command pipe | create, observe, act, takeover, resume, restart, stop | worker process, portal | timeouts that leave commands in the pipe, a dead worker |
| Job readiness (`services/job_readiness.py`) | reviews with fingerprints, a snapshot's status | preview and approve requirements, qualification, resume | knowledge, documents, workflow | approvals of what has changed since |
| Knowledge and answers (`services/knowledge.py`, `storage/knowledge_repository.py`) | claims, retrieval chunks, library with revisions, drafts | import, review, draft, promote, generate | AI gateway | two commits for one review, evidence withdrawn after it was used |
| Documents (the same) | encrypted files, rows, selections, evidence | import, generate, select, capture | knowledge, file system | a file before its rows, two selections |
| Field bindings, execution, coverage (`services/field_*.py`) | bindings, executions | preview, approve, execute, review | knowledge, browser | the page or the answer changes in between; a fill without its record |
| Workflow and workbench (`domain/workflow.py`, `services/workbench.py`, `services/workflows.py`) | state, event log | create, transition, simulate, pause, resume, cancel | all runs | a state read before another request commits; events that no row follows |
| Reference portal (`services/portals.py`) | run, staged file, evidence | start, confirm | workflow, browser | several commits after one click |
| Challenge sessions (`services/challenges.py`) | one snapshot with timers | detect, answer, complete, intervene, refresh | browser, workflow | whole-snapshot writes, expiry, a layout that changes |
| AI gateway (`services/ai.py`) | cache, cost ledger | invoke, rerank | AI providers, media journal | budget checked after the call, fallback |
| Notifications (`main/notification-manager.ts`) | delivered identifiers | refresh, enable | OS | shown before persisted |
| The rest | | | | see [What is not modelled](#what-is-not-modelled) |

What makes each correct, in a sentence: a restore happens as a whole or not at
all and never loses history; one process at a time works in the workspace and
none while a restore is open; a reviewed draft leaves at most once, from the
account it was reviewed for, with a true recorded outcome; a revoked or replaced
connection never returns; uploaded media is never forgotten and is removed;
no review is overwritten by one that had not seen it; automation enters into a page
only what was reviewed for that field; a readiness approval stands only while its
evidence does; no mail is skipped for good; an application is recorded as submitted
only if it was, and nothing is submitted after a stop; every lifecycle call of the desktop returns and leaves nothing
running that it does not own.

## Modules

| Module | Models | Rests on |
|---|---|---|
| `AtomicRestore` | what a restore promises: an all-or-nothing replacement of a bundle of files | |
| `HistoryPolicy` | what a restore promises about recorded history, of a pair of databases | |
| `RestoreRecovery` | restore, recovery, guard, evidence, backups and plans | extends `HistoryPolicy`, implements `AtomicRestore` |
| `RestoreRecoveryProofs` | theorems about it | `RestoreRecovery`, TLAPS |
| `RestoreHistory` | the row-by-row inspection that keeps that promise, the writers of the rows, backups, restores and the schema upgrade | extends `HistoryPolicy` |
| `RestoreHistoryProofs` | theorems about it | `RestoreHistory`, TLAPS |
| `BackendSupervisor` | the desktop's lifecycle of its child processes, the lease, orphans | |
| `BackendSupervisorProofs` | theorems about it | `BackendSupervisor`, TLAPS |
| `OAuthConnection` | connections of a provider | |
| `OneAttempt` | what a confirmation promises: one attempt, applied at most once, true and final outcome | |
| `OutboundMutations` | drafts, claims, audits, the provider call | extends `OAuthConnection`, implements `OneAttempt` |
| `OutboundMutationsProofs` | theorems about the connections alone, and about both | `OutboundMutations`, TLAPS |
| `MediaCleanup` | upload journal, leases, recovery passes | |
| `MediaCleanupProofs` | theorems about it | `MediaCleanup`, TLAPS |
| `SupervisedSubmission` | a supervised run on a browser session, the pipe to the worker | |
| `SupervisedSubmissionProofs` | theorems about it | `SupervisedSubmission`, TLAPS |
| `ApiRequests` | concurrent requests of the loopback API, their failure and the end of the program | |
| `FieldRules` | what an answer may be, what field it may be bound to, what may be entered, how a required field is judged | |
| `CandidateKnowledge` | claims, chunks, library, drafts | `FieldRules`, `ApiRequests` |
| `ApplicationDocuments` | import, generation, selection, evidence | extends `CandidateKnowledge` |
| `JobReadiness` | the three readiness reviews | extends `ApplicationDocuments` |
| `FieldAutomation` | bindings, executions, coverage | extends `CandidateKnowledge` |
| `ApplicationPreparation` | the four above in one system | extends both |
| `ApplicationPreparationProofs` | theorems about the four, in the composed system | `ApplicationPreparation`, TLAPS |
| `ApplicationWorkflow` | states, transitions, the event log, the simulated workflow | `ApiRequests` |
| `ReferencePortal` | preparation and submission on the reference portal | extends `ApplicationWorkflow` |
| `ChallengeSession` | CAPTCHAs and assessments | extends `ReferencePortal` |
| `InboxSync` | the import of a mailbox | `ApiRequests` |
| `ReviewedDispatch` | the native review dialogs | extends `InboxSync` (the connection in force) |
| `ApplicationLifecycle` | the five above in one system | extends `ChallengeSession`, `ReviewedDispatch` |
| `ApplicationLifecycleProofs` | theorems about the five, in the composed system | `ApplicationLifecycle`, TLAPS |
| `MC...` | model values and symmetry sets for TLC, no behaviour | |

Every property of a module is stated at its end. A definition announced as a mutant
is a plausible bug of the code that the definition after it models: with it in place,
the property named for it in `PROJECT.json` fails. Every state machine states its
type invariant. Those of `RestoreRecovery`, `RestoreHistory`, `BackendSupervisor`,
`SupervisedSubmission`, `OAuthConnection`, `OutboundMutations` and `MediaCleanup` are
proved (the last as a part of `MediaInv`), the others hold in their runs; the configurations leave all of them out, because a
property that only types a variable says little. Some properties are stated and
proved but left out of the configurations because a property that is checked implies
them or because the proof says more: `ReceiptTellsTheTruth`, `RollbackIsFinal` and
`EvidenceIsWriteOnce` of `RestoreRecovery`, `OutcomeIsTrue` and `ClaimIsAudited` of
`OutboundMutations`, and `RestoreKeepsHistory` of `RestoreHistory`.

## How the models correspond to the code

**RestoreRecovery.** `live` is the workspace: a database image and documents.
A database image is a record of what a restore must not lose: claims (provider
attempts), authority (credential and session rows), owed cleanups and plan
statuses; document bytes are model values. A session takes the lease and steps
through `allocate`, `savedb`, `capture`, `activate`, `install`, `decide`, `undo`
and `finish`, each one durable write of `restore_rollback.py`. `Crash` keeps files
and loses the session, `FailStep` and `LeavePending` are I/O errors before and
in a publication, `EditDocument`, `DisturbTarget` and `RepairTarget` are other
software and the owner. Version 1 (plaintext) operations are left out.

Whether a history admits a candidate is `HistoryPreserved` of `HistoryPolicy` here;
`RestoreHistory` has the rows.

**RestoreHistory.** A database is a set of rows per table, a row its primary key and
the columns that name other rows; what else a row holds is folded into an `edition`
where it can change. `References`, `Uniques`, `Recorded` and `ExactSets` are the
compiled policy (`storage/restore_history_policy.py`) restricted to the tables whose
rows the modelled writers produce: the event and action logs, `ai_cache`,
`provider_sync_states` and `portal_runs`, which are compared as the tables next to
them are, and column types, payload formats and decryption are left out. Each writer
is one action per transaction it commits (`Write`), and `latest` is a history of the
recorded rows it left. Each behaviour has one desk, the part of the runtime at work, as
below. `Restore(b, chosen)` is the admission and its effect in one step, since what
happens between the two is `RestoreRecovery`'s; the archive is one that was verified.
`Upgrade` is migration 0028, `EditFile` other software that damages, removes or puts
back the file of a version. That one damaged live document blocks every restore once
there is history is intended, and tested by the repository
(`tests/test_restore_history_portal_documents.py`).

**BackendSupervisor.** A generation number is compared for equality only, so
every routine and child carries whether it is of the latest one. The slots
`starting`, `stopping`, `restoring` are the program counters of `startup`,
`stopping`, `restore`. Each `await` ends in an action of its own, so that any
call, exit or timeout may come before the continuation. A termination that fails
tells all who wait in one step, as the shared promise does. `Child` names are
used again. A child may end at any time or never; a desktop crash leaves it
running as an orphan. A recovery-only session is one action here, since
`RestoreRecovery` models it.

**OAuthConnection, OutboundMutations.** A handler is a thread: each of its reads,
provider calls and commits is an action. `ACCEPTED` stands for the accepted
outcome of mail and for `CONFIRMED` of the calendar. A request's call is on the
`wire` apart from its caller, so an answer can be lost or the caller die while
the call still lands. Revocation is explored in the OAuth run only. Audits
written before claims existed are left out.

**MediaCleanup.** A row has the table's states; `remote` is what the provider
stores, `inflight` what it may still receive. Time appears as the events
`LeaseExpires` and `BecomesDue`. The lease (20 minutes) is longer than every
timeout of an invocation, so outliving one is a suspension and counts as a fault.

**SupervisedSubmission.** One run, one session, one profile; two API requests.
The page is one of a few classes, and the owner's own moves are folded into each
look at it. Only a review page has the submit control. A command whose caller
timed out stays in the pipe. Evidence is abstracted to its latest number and
whether it confirms. Policy switches and catalog data are constants of a run.

**Requests (`ApiRequests`).** A handler of the backend runs in a thread of its own;
`work[r]` is what request `r` has read and where it is. Each read, each action of
the browser, each provider call and each commit is a step, so whatever was read
before an await or a commit may be stale when it is used. `Abandon` is every error
path: a row that is gone, a failed compare-and-set, a full disk. `Crash` ends them all.

**CandidateKnowledge.** A claim is a version, a status and a permitted use; its
retrieval chunk is a second commit, so `SaveClaim` and `IndexClaim` are two actions.
Library answers carry an edition and append a revision row in one commit. A draft is
written by a compare on its revision (`storage/knowledge_repository.py:481`);
`reviewed` is a history of what users saved and had seen. Text is abstracted to a
word or a number with its length, lines and normal form: exactly what `FieldRules`
tells apart. Retrieval scores and generation are a nondeterministic choice among
what the filters allow.

**ApplicationDocuments, JobReadiness.** The file of a document and its rows are two
steps; `LoseFile` is other software. A preview reads the facts and shows a
fingerprint; an approval takes the writer's reservation, reads them again and
compares, and is one step. A fingerprint is the record of what it covers. Only the
four early workflow states occur, since nothing moves such an application further.

**FieldAutomation.** `live` is the page in the browser, which the owner changes at
any time; `run` is the page as it was captured; a control is its kind, options,
limits, visibility and whether it is satisfied. Execution is: read the binding and
the page, take the session, act, verify, record, hand back - each a step. `filled`
is a history, per control, of what automation last entered and by which binding.

**ApplicationWorkflow, ReferencePortal, ChallengeSession.** A transition is two
steps: the row is read and the move validated; then the next event number is given
and event and state are committed together, where a number that is taken fails the
request. A request that has several things to do keeps them as a queue of steps,
and any step may fail instead. The public endpoint appends an event without touching
the row. A challenge is one snapshot: a request reads it, acts in the browser, and
writes it back whole. `receipt`, `entered` and `solved` are histories of what the
portal showed and the user did.

**InboxSync.** A cursor is the number of messages that had arrived when it was
issued. Gmail is asked for its position before a full listing and for each message
after it; Outlook's listing holds the messages and ends with the position. `oldest`
is the oldest cursor the provider still takes. Messages are saved one commit at a
time, the cursor last, by a check and a commit. Reading calls fail once the
connection was replaced; saving and storing go on.

**ReviewedDispatch.** A handler of the desktop is a request: it looks for an earlier
attempt, shows the dialog, and on approval dispatches a call the backend serves at
any later time or never. `attempts` lives in memory and is lost when the desktop is
opened anew. What the backend does with a call is one step, `ServeCall`, which
`OutboundMutations` has in detail.

**Desks.** `ApplicationPreparation` and `ApplicationLifecycle` compose their parts by
desks: each initial state picks one, and a behaviour takes the steps of that desk
and the faults all share. Operations that read or write the same rows are on one
desk and interleave; those that touch no common row only multiply states and are
left to another behaviour. At the portal desk the workbench's controls and the public
endpoint act on the same application, claims change at the readiness desk, drafts at
the fields desk, and the connection is replaced both under syncs and under reviews.

## Runs

| Run | Instance | Shows |
|---|---|---|
| `restore` | 1 document, 1 plan, 1 claim, 1 change of authority, 2 operations, one crash, error and edit each, fair recovery | history and foreign bytes survive, a blocked workspace is recoverable and is reopened; implements `AtomicRestore` |
| `history` | 2 candidates, 3 identities, 1 backup, up to 3 transactions of one part of the runtime (4 of reviews, 2 of documents) | recorded rows are never lost or changed, nothing is sent twice, documents keep their bytes, and the workspace's own backup is admitted |
| `supervisor` | 2 child names | launches, quits, updates and restores never overlap what runs; calls return |
| `oauth` | 2 logins, 2 callbacks, a revoker, 2 clients, one refusal | retired connections stay retired; tokens are of the reviewed connection |
| `oauth_revocation` | the same | a violation: see findings |
| `outbound` | a mail draft and a calendar plan, 2 logins, 2 keys, 2 requests, one crash, one refusal | at most one call each, true outcomes; implements `OneAttempt` |
| `media` | 2 uploads, 2 invocations, a fair pass with batches of one, one record refused for ever, one failure, one death | nothing stored is forgotten; no false success; the other record is still deleted |
| `supervised` | 2 requests, 2 pieces of evidence, one click, one fault | a confirmation is true; nothing is clicked after a stop |
| `supervised_ambiguity` | one request, no fault | a violation: see findings |
| `supervised_recovery` | one request, one death of the worker or backend | a violation: see findings |
| `preparation` | 2 requests; 2 claims of one key, a library answer, a draft of 3 revisions; 2 documents; a posting with one line; a field of 2 shapes on 2 pages | reviews are not overwritten, the library follows its history, files and rows agree, readiness rests on locked facts, automation enters what was reviewed |
| `lifecycle` | 2 requests; one application, one CAPTCHA, 2 clicks; an assessment of 2 questions and 2 layouts; 2 messages, 2 providers, 2 connections; a draft and a plan | the log ends in the state, tracked means confirmed, completed means entered and shown, no mail is skipped, dispatch is as reviewed |

Why these bounds are enough. Every race in this code is between two actors over
one row, file or session, so there are two of each kind that can race, and one of
what they race for; two names are also needed wherever a name is compared (two
logins, two keys, two plans, an orphan and an owned child). One crash can fall at
every step, including inside a recovery, and the proofs of `RestoreRecovery` and
`OutboundMutations` cover any number. `RestoreRecovery.cfg` keeps one document, which with the database
gives a first and a last target: the order of replacement matters only between
those. `MaxFailures`, `MaxEdits`, `MaxRefusals`, `MaxFaults`, `MaxEvidence` and
`MaxClicks` bound repetition, not kinds of step. One click (`MaxClicks`) is enough for
a submission after a stop, the action `StoppedNeverClicks` forbids.
In `media` one pass is left because liveness is checked without symmetry; it still races
the cleanups of the two invocations, and the proofs cover any number of passes.
In `history` three identities make a draft or plan, its attempt and one more, the
fewest with which a claim can name the wrong one, and three transactions write them;
reviews need four, since a selection rests on a qualification, that on requirements,
and one of them may be superseded. A second candidate is the owner a row may wrongly
belong to. One backup can be taken before, between and after the writes, and restored
any number of times; the proofs cover any number of each.
In `preparation` and `lifecycle` two requests suffice because every
conflict there is decided by one row: whichever commits second meets the first. Two
claims share a canonical key and two documents propose claims, so that a review can
touch what another rests on. `MaxRevision = 3` lets a draft be revised after its review
was read and again before it is saved; two pages, one outside the approved origins,
and two shapes of the control, one with a legal effect, let each check of a binding
fail. In the mailbox, two messages and a provider limit of one (Gmail) and two
(Outlook) make a backlog over the limit and one under it; the two connections are one
account connected anew, the case in which an old cursor would be valid for the new
connection. The proofs cover any number, and different accounts. The time of an assessment
runs out and its layout changes once; a CAPTCHA shows once.
Deadlock is not checked where a model may stop: when its bounds are used up or
the desktop is closed.

## Fairness

- `RestoreRecovery`: a recovery session that has begun goes on, the owner answers
  the recovery prompt that every start of a blocked application shows, and
  repairs bytes that other software changed. Nothing is assumed of crashes.
- `MediaCleanup`: the worker thread runs a pass every 60 seconds and each thread
  goes on; leases expire and retries become due because clocks advance. No
  fairness is assumed of process deaths, answers of a refusing provider, or reviews.
- `BackendSupervisor`: timers fire and promises settle. A child need never end.
- `RestoreHistory`: none; nothing in it has to happen.
- `ApplicationPreparation`, `ApplicationLifecycle`: none. What an application waits
  for is the owner, a portal or mail, of which the code guarantees nothing.
- `SupervisedSubmission!PersistentOwner`: handlers go on and the owner retries
  restart and stop for ever; the counterexample therefore is no mere stop.

## Proofs

`RestoreRecoveryProofs` proves, for any number of documents, plans, operations,
claims, crashes, errors and edits, that `Spec` implies type correctness, the
invariants `HistoryNeverLost`, `BlockedIsRecoverable`, `ReceiptTellsTheTruth`,
`AppliedPlanHasReceipt`, the
action properties `EvidenceIsWriteOnce`, `RollbackIsFinal`, `UnknownBytesPreserved`
and the refinement `ImplementsAtomicRestore`. The assumptions are
`RestoreAssumption`: bounds are naturals and the distinguished values are distinct.

None of the invariants is inductive. `Inductive` adds what a session knows by its
program counter (`SessionConsistent`: which images, intent and decision exist at
each stage), that an operation whose directory is gone has neither decision nor
receipt (`FreshOperations`), and that only guarded targets and a closed database
hold foreign bytes (`ForeignIsGuarded`). There is one lemma per action, `NextInductive` combines them,
and the theorems follow. The action properties need the invariant for the state
before and a case per action that writes. `AppliedPlanHasReceipt` speaks of the live
database while the workspace is open, but a recovery can bring back the before-image
and a later restore any archive; `ReceiptsWitness` therefore witnesses the database
behind the guard and those of all archives as well, and rests on receipts and
after-images being final. The refinement maps a guarded target to
its before-image until an applied receipt is published: installs and undos are
stutters, `ActivatePrepared` begins, a receipt commits or abandons, `Finalize`
reopens.

`RestoreHistoryProofs` proves, for any number of identities, candidates, transactions,
backups and restores (`HistoryAssumption`: keys of new rows are not keys of the first
ones, and no row has the key `Null` or `Stranger`), that rows stay typed,
`RecordedHistoryStands`, `NothingIsSentTwice`, `VersionsKeepTheirBytes` and
`RestoreKeepsHistory`. Every transaction and the upgrade satisfy one description,
`RuntimeStep` (typed rows, `latest` is the history left behind, attempts are kept, and
a call is made only with an attempt nobody had made for its resource), and every
restore another, `RestoreStep` (recorded rows are kept, authority is equal, no cleanup is
owed on either side), which follows from `AdmittedKeepsHistory`. The invariants are
cases over these two. `NothingIsSentTwice` is not inductive: `CallsRecorded` adds that
each call keeps the attempt that made it, through every restore and upgrade.
`RestoreKeepsHistory` says that each restore makes good the promise `HistoryPreserved`,
on which every proof about `RestoreRecovery` rests; the two modules meet there.

The last theorem goes the other way: `MatchingIsAdmitted`, that no legal history of
writes leaves a workspace which its own current backup cannot restore (as long as no cleanup is
owed, every document is whole and there are no `Orphans`).
Its invariant `HistoryKept` says, of the workspace and of every backup, what the writers
keep of the rows they link (`Rows`: one row per key, a run and a challenge of their
browser's workflow, an execution of a binding and a run of its own application, a review
on rows of its application and candidate, an attempt of its draft or plan, and so on,
table by table). TLC found no violation of it under the bounds of run `history`
before it was proved. Two parts are not obvious. A waiting calendar attempt is the only one of
its plan (`ClaimedRows`): finishing an attempt moves its time, and would otherwise make
a younger one the oldest, which the inspection rejects. And a legacy workspace has one
oldest attempt for each plan (`UnclaimedRows`), so that the claims the upgrade writes are
unique and those the inspection expects. `KeptIsAdmitted` derives every check of
the inspection from `HistoryKept` (references, ownership per table, attempts, reviews,
documents). `Framed` says once what a fact survives: the tables it speaks of unchanged, those
it looks rows up in no smaller. So each writer has only its new row to argue for.

`OutboundMutationsProofs` proves first, of the connections alone, for any number of providers, logins, callbacks,
revokers and clients (`ConnectionAssumption`: a login has one provider, and
`Nothing` is none of them), `ConnectionTypeOK`, `RetiredStaysRetired` and
`TokenIsOfCurrentConnection`. That a retired connection stays retired rests on
`TokensHeldOnce`: the provider exchanges a code once, so of all deliveries of a
callback one holds its tokens, and until it stores them nobody has. The refresh
adds nothing to it because its swap compares before it sets.

It goes on to confirmations (`MutationAssumption`: each
draft has a provider, each confirmation is a client of its own). `OneOwner` and
`OwnerConsistent` carry the argument: past the claim a confirmation owns its draft,
because the claim and the audit of its key are one commit on two unique columns;
the key's audit stays `PLANNED` until the owner records an outcome; and a call
once on the wire keeps the draft engaged after its owner is done or dead. From
this follow `OneCallPerDraft`, `OutcomeIsTrue` and `ClaimIsAudited`.
`SentAsReviewed` adds that a bound draft's connection is what the service was built
with and what its token was asked for. The refinement maps a claim to the attempt,
the provider's application to the effect and the record to the conclusion; every
other step, a crash included, is a stutter.

`MediaCleanupProofs` proves `StoredMeansTracked`, `OneUploaderPerCredential`,
`SuccessMeansDeleted` and `AnswerUsesStoredMedia` for any number of images, invocations,
passes, failures and deaths (`MediaAssumption`: each invocation has one account, and
bounds are naturals). None is inductive. `MediaInv` adds what the actors know:
a row claimed for deletion is never active again, so its active owner knows that nobody
deleted its media (`HoldSound`); bytes are sent only before the provider names them, so
a row with a name, or one being deleted, has nothing left in flight (`Past`,
`DeletionSound`); an invocation that did not fail holds every row of its own that is not
settled (`OutcomeSound`). What one actor does to the rows of the others is a relation
(`Moves`, `Sends`), proved once per action; one lemma then carries the invariant.

`ApplicationPreparationProofs` proves the eight properties of the run `preparation` in the
composed system, for any number of requests, claims, answers, documents, fields,
pages and postings, and any bounds (the assumptions of the four parts:
`WordsAssumption`, `AnswersAssumption`, `RowsAssumption`, `DocumentsAssumption`,
`DocumentRowsAssumption`, `ReadinessAssumption`, `FieldsAssumption`,
`DesksAssumption`). There is an invariant per part, inductive under every step of every
part. `KnowledgeInv`: a revision history has one row per revision, each by an
author who saw the one before (`Whole`, with the cardinality of the history), and what
a request holds is at most as new as the row (`Overtaken`). `DocumentsInv`: each row has
the file its request stored, and no two requests store for one document (`OwnFiles`).
`FieldsInv`: what an execution holds between its check and the browser's action, and
whatever was entered, is a permitted, non-legal binding with the value a user saved for
the bound revision (`Armed`); that a draft keeps what it holds at a revision
(`DraftsMoveOn`) lets this stand while answers are revised. `ReadinessInv`: reviews are
only appended, each to the list its author saw; a qualification judges exactly the lines
of the requirements it names and rests each verdict on claims that were eligible
(`ReviewsSound`); and the event log holds the states up to the present one
(`Progressed`).

`SupervisedSubmissionProofs` proves `ConfirmedIsTrue` and `StoppedNeverClicks` for any
number of requests and any bounds (`SubmissionAssumption`: the bounds are naturals).
Neither is inductive. `ConfirmedSound` adds that whatever copy of a run or of a page a
request holds between its commits is true as well (`HoldsTrue`): a request confirms
only what it saw, or what the row said when it read it, and an application once
received stays so; that requests overwrite each other's rows needs nothing more.
`SessionSound` is about the browser of the session. It is launched once: the launch
is with the request that waits for it or, after a timeout, in the pipe, never in both,
and never once the browser serves (`LaunchedOnce`). A request that has closed it leaves
no launch behind (`OverIsOver`), and a session without a row has nothing begun
(`Unbegun`), to which it never returns because an observation writes back only a live
state (`ObserversSound`). So after a stop no command finds a browser, whatever the row
is overwritten with and whatever is left in the pipe.

`BackendSupervisorProofs` proves all four safety properties of the supervisor for
any number of children (`SupervisorAssumption`: `Nobody` is none of them). The
invariant has three parts. `GuardSound`: who got past the lock holds it, and only a
restore writes; so a guard is published by the one child that may be inside, and who
locks afterwards finds it. `SessionSound`: a startup and a restore take turns, none
follows a restore that failed (`InTurn`); a stop leaves nothing current
(`CancelledByStop`), which is why the comparison after each await is enough; where the
next child would be launched, the last one is all that is owned (`OwnedByOne`), and an
uncertain restore is one still observed or one that left the recovery required
(`UncertainIsKnown`). `ReadySound`: the server that "ready" speaks of is of the latest
generation and nobody asked for its end (`ServerIsLatest`), so its exit is unexpected
and takes "ready" back. Timers play no part in these proofs: a child may end at any time
or never.

`ApplicationLifecycleProofs` proves `RealHistoryIsTrue`, `TrackedIsTrue` and
`CompletedIsTrue` in `ApplicationLifecycle` for any number of requests, questions,
layouts and clicks (`ChallengeAssumption`; `SheetAssumption`: what holds an application
up is a page of a challenge's kind, and a CAPTCHA is not a page but covers one). What a
request has still to do is a queue of steps, and the argument is about queues. Five
facts matter: the application exists, it is a simulated one, the portal has shown a
code, the resume is kept, the page was submitted. Each step `Needs` some of them and
`Gives` some: to move to `SUBMISSION_CONFIRMED` needs the code, which "evidence" gives;
to save the tracked run needs the code and the resume; to append beside the row needs a
simulated application. A `Queue` is sound if each step's needs hold already or an
earlier step of it gives them. `Grown` says that no action takes a fact back, nor an
answer off the page, so the queues and records of all other requests outlive whatever
one does (`RecordStands`, `RequestSteps`), and a request that did a step keeps a sound
rest (`QueueAdvances`). That a snapshot of a challenge is read, changed and written back
whole over another's needs nothing more: what it claims was true when it was read and
is still true (`SnapSound`). Nor does a CAPTCHA's resume: the state it goes back to was
earned when it was noted (`Earned`).

The same module proves `NoMailIsSkipped` there for any number of
requests, connections, accounts, messages and limits (`InboxAssumption`). Its invariant
speaks of positions: a position `Rests` on a connection if the mailbox has reached it
and all that arrived up to it and is not deleted is stored. The stored cursor rests on
its connection, and so does the cursor each sync began with; the position a sync has
read is covered by what is stored and what it has still to save. `RestsStands` shows
that this outlives arrivals, deletions and the saves of others, so one lemma (`Steps`)
serves every action of a request. That two syncs overtake each other needs nothing
more: whichever cursor is stored last rests on what its own sync has saved.

It also proves `ActsAsReviewed` there for any number of handlers,
drafts, plans and accounts (`DispatchAssumption`). The invariant: two handlers meet
on one draft only once one of them has dispatched it (`Apart`), the note "reviewing"
is that of a handler that has not dispatched and "dispatched" outlives every handler
that has (`Sound`), a draft is bound before it can be found and never bound again, and
every call waiting for the backend is of an approved detail (`CallSound`).

Every invariant and every action property that a passing run checks is the statement of a
theorem. Only model-checked are:

- liveness (`BlockedIsEventuallyCleared`, `NamedMediaIsResolved`, `CallsReturn`), which is
  beyond the prover;
- `RevocationDeletes`, `AmbiguityIsRecorded` and `LostSessionIsRecovered`, which do not hold.

No theorem rests on a recursive definition.

## Findings

1. `services/oauth.py` keeps the local credential when the provider refuses the
   revocation or its answer is lost; the user guide says it is removed
   (`oauth_revocation`).
2. `services/supervised_portals.py:283`: a submit click whose answer raises leaves
   the run `READY_TO_SUBMIT` with its approval, although ADR 0023 records every
   ambiguity as `SUBMISSION_UNCERTAIN` (`supervised_ambiguity`).
3. `browser/worker_process.py:197`: after the worker or the backend ended, a session
   that was live can be neither observed, restarted nor stopped, and its profile
   stays in use; the failure matrix promises restoration (`supervised_recovery`).

Met while modelling and not counted as findings, because no text promises otherwise
or the effect is small:

- `services/ai.py:510` stores the `profile_id` of a model call, and `services/core.py`
  (`save_checkpoint`) the `workflow_id` of a checkpoint, as they come; the restore refuses
  every database in which such a row names an unknown one
  (`storage/restore_history_repository.py:451`). After one request of that kind not even a
  complete backup of the current state can be restored, although the user guide (line 259)
  points to it. `MatchingIsAdmitted` says that nothing else has this effect (`Orphans`).
- `services/challenges.py:161`: `answer` does not compare the page it fills with the
  one the questions were read from. After a layout change that adds a required
  question, the answers of the old layout make the session ready for review
  (`CompletedIsTrue` therefore asks for one layout's required answers).
- `services/challenges.py:258`: a CAPTCHA met in an `ASSESSMENT_...` state takes the
  application to a state from which the transition table has no way back.
- `integrations/provider_clients.py:584`: an incremental backlog over the item limit
  fails every time, and a later start can be named only for a first sync.
- `services/workflows.py:25`: a public event is appended without the row following;
  only simulated applications may get one that differs.
- `services/knowledge.py:820`: a claim and its chunk are committed apart, so a crash
  leaves the old text searchable; `:788`: two reviews at once lock two claims of one key.
- `storage/models.py:284`: a field has one binding for ever, so the repeated approval that
  `services/field_execution.py:167` asks for after a revision cannot be given.
- `api/routes/portals.py:156`: the coverage review is given a repository whose page
  snapshots carry no observed controls.
- `integrations/oauth.py:304`: `revoke` deletes whatever credential the provider has by
  then, a newer connection's included.
- `storage/restore_gate_repository.py:336`: pending siblings of failed publications count
  against the quota of an operation; `services/restore_rollback.py:802`: the live hash
  is checked before the file is replaced, in two steps.

By design, and therefore not findings: media in `MANUAL_REVIEW` whose name cannot
be decrypted blocks its credential until the owner closes it (ADR 0061).

## What is not modelled

Inside the modelled components: version 1 restore operations; the column and payload
checks of the history comparison and the tables named above; backup schedules and archive encoding; calendar
import, classification, correlation, reply contexts and follow-ups; the general
browser actions, uploads, and two sessions racing for one profile
(`browser_runtime.py:111`); re-entrant leases; update checks and downloads;
`superseded_by_id` and archived answers, which no code sets; listings, checkpoints
and snapshot fingerprints of the workbench; the public `since` of a first sync.

Not at all: the AI gateway (fallback, cache and budget are a sequence inside one
request over rows only it writes; its concurrent part, uploaded media, is
`MediaCleanup`); notifications (one refresh at a time, a repetition after a crash is
harmless); the master key (created once, before any workspace); the controller of
installed recovery (its session is `RestoreRecovery`'s, its process one action of
`BackendSupervisor`).

Left out for good: extraction and normalization of documents and media, page
classification by text, retrieval scores (data without control of their own);
encryption (assumed perfect); public job boards, static catalogs and regression corpora; licensing, diagnostics and
dashboards (read only); the renderer, the preload and the typed contracts; database
migrations other than 0028; IPC handlers that only validate and forward.

## Plan

Done, in this order:

1. `RestoreRecovery` with `AtomicRestore`, and its proofs: the workspace is what
   everything else stands on.
2. `OAuthConnection`, `OutboundMutations` with `OneAttempt`, and their proofs: what
   leaves the machine.
3. `MediaCleanup`; 4. `SupervisedSubmission` and `BackendSupervisor`.
5. `CandidateKnowledge`, `ApplicationDocuments`, `JobReadiness`, `FieldAutomation`,
   composed as `ApplicationPreparation`: what reaches a page is what was reviewed.
6. `ApplicationWorkflow`, `ReferencePortal`, `ChallengeSession`, `InboxSync`,
   `ReviewedDispatch`, composed as `ApplicationLifecycle`, with the proofs of the
   last two.
7. The proofs of `MediaCleanup`, `ApplicationPreparation` and the portal desk of
   `ApplicationLifecycle`, and `AppliedPlanHasReceipt`.
8. `RestoreHistory` with `HistoryPolicy`, and its proofs: what the admission of a restore
   rests on.
9. The proofs of `SupervisedSubmission` and `BackendSupervisor`.

Left, in this order:

10. Two browser sessions that race for one profile, and general browser actions, in
    `SupervisedSubmission`.
11. Calendar import, beside `InboxSync`: windows instead of cursors, and deletions.

## Running it

`tlc -config RestoreRecovery.cfg MCRestoreRecovery.tla`, and so on: each `.cfg` goes
with the `MC` module that `PROJECT.json` names for it. `tlapm RestoreRecoveryProofs.tla`
checks its proofs, and likewise the other proof modules. Every run ends within three minutes on two workers;
the two compositions are the longest.
