--------------------------- MODULE RestoreRecovery ---------------------------
(***************************************************************************)
(* Offline restore of a Job Apply Pro workspace and its durable recovery.  *)
(*                                                                         *)
(* One process at a time holds the workspace lease: the runtime (`serve`)  *)
(* or one restore-owning session (`restore`, `restore-rollback`,           *)
(* `restore-finalize`).  A restore retains encrypted before- and           *)
(* after-images of every target, publishes an intent, then a guard, and    *)
(* only then replaces the targets one by one, the database last.  Any      *)
(* crash or error behind the guard leaves a workspace that the runtime may *)
(* not open until a recovery session rolls every target back or finalizes  *)
(* a completed restore.                                                    *)
(***************************************************************************)
EXTENDS Naturals, FiniteSets, HistoryPolicy

CONSTANTS
    DocumentCount,  \* number of document slots of the workspace
    DocImage,       \* byte contents a document file may have
    Claim,          \* provider mutations whose attempt is recorded once
    MaxAuthority,   \* bound: how often a credential or session row changes
    Plan,           \* backup/restore-plan pairs
    Op,             \* restore operation identifiers
    Absent,         \* a file that does not exist
    Missing,        \* an image that was never retained
    NoOp, NoPlan, NoBackup,
    MaxRetained,    \* MAX_RETAINED_RECOVERY_OPERATIONS
    RecordRoom,     \* record and pending files an operation has room for
    MaxCrashes,     \* bound: process or power losses
    MaxFailures,    \* bound: I/O errors raised inside a session
    MaxEdits        \* bound: edits by software outside the application

Document == 1..DocumentCount
DB == DocumentCount + 1
Target == 1..DB

PlanStatus == {"none", "SAVED", "STAGED", "APPLIED"}
Category == {"DATABASE", "DOCUMENTS"}

\* The rows of the database a restore must not lose, revive or forget.
DbImage == [claims : SUBSET Claim, authority : 0..MaxAuthority,
            cleanup : BOOLEAN, plans : [Plan -> PlanStatus]]
DocState == DocImage \cup {Absent}
Image == DbImage \cup DocState
ImageOf(t) == IF t = DB THEN DbImage ELSE DocState
Snapshot == [db : DbImage, docs : [Document -> DocState]]

ASSUME RestoreAssumption ==
    /\ DocumentCount \in Nat
    /\ MaxAuthority \in Nat /\ MaxRetained \in Nat /\ RecordRoom \in Nat
    /\ MaxCrashes \in Nat /\ MaxFailures \in Nat /\ MaxEdits \in Nat
    /\ Missing \notin DocState /\ Missing \notin DbImage
    /\ Absent \notin DocImage
    /\ NoOp \notin Op /\ NoPlan \notin Plan /\ NoBackup \notin Snapshot

VARIABLES
    live,       \* the workspace: bytes of each target
    foreign,    \* targets holding bytes (or SQLite sidecars) nobody retained
    backups,    \* verified archives, by plan
    staged,     \* categories of each reviewed restore plan
    recorded,   \* ghost: claims ever committed by the runtime
    granted,    \* ghost: the authority state last committed by the runtime
    owed,       \* ghost: a provider cleanup is still owed
    guard,      \* control/active: the operation that blocks the runtime
    dirs,       \* operation directories that exist
    before, after,  \* retained images, per operation and target
    intent,     \* published intent: its target set, {} when there is none
    decision,   \* published rollback decision
    receipt,    \* published terminal receipt
    pend,       \* pending siblings left by failed publications
    pc,         \* what the lease holder is about to do
    cur,        \* operation of the session
    plan,       \* plan being applied
    snap,       \* database bytes admitted by the session
    todo,       \* targets the session has not processed yet
    crashes, failures, edits

truth == <<recorded, granted, owed>>
archive == <<backups, staged>>
evidence == <<dirs, before, after, intent, decision, receipt, pend>>
session == <<pc, cur, plan, snap, todo>>
faults == <<crashes, failures, edits>>
vars == <<live, foreign, archive, truth, guard, evidence, session, faults>>

-----------------------------------------------------------------------------
(* Helpers *)

Blocked == guard # NoOp
RestorePc == {"allocate", "savedb", "capture", "activate", "install",
              "decide", "undo", "finish"}
Pc == RestorePc \cup {"idle", "runtime"}
Prepared == {"savedb", "capture", "activate"}

\* The lease is released and the session's memory is gone.
EndSession ==
    /\ pc' = "idle" /\ cur' = NoOp /\ plan' = NoPlan
    /\ snap' = Missing /\ todo' = {}

Inputs(p) == IF "DOCUMENTS" \in staged[p]
             THEN {d \in Document : backups[p].docs[d] # Absent}
             ELSE {}

\* The database a plan would leave behind, before its own bookkeeping.
Candidate(p, original) ==
    IF "DATABASE" \in staged[p] THEN backups[p].db ELSE original

\* _private_database: the plan is APPLIED inside the candidate bytes.
Bookkeep(image, p) == [image EXCEPT !.plans[p] = "APPLIED"]

\* Targets are processed in the sealed order: documents first, database last.
IsNext(t) == t \in todo /\ \A u \in todo : t <= u

\* Mutant of Known: the live bytes are not hashed again.
KnownUnchecked(op, t) == live[t] \in {before[op][t], after[op][t]}

\* _state: the live bytes are one of the two retained images.
Known(op, t) == t \notin foreign /\ live[t] \in {before[op][t], after[op][t]}
AllKnown(op) == \A t \in intent[op] : Known(op, t)

\* _require_target_state: every target is on the expected side.
OnSide(op, side) ==
    \A t \in intent[op] : t \notin foreign /\ live[t] = side[op][t]

RecordCount(op) == (IF intent[op] # {} THEN 1 ELSE 0)
                 + (IF decision[op] THEN 1 ELSE 0)
                 + (IF receipt[op] # "none" THEN 1 ELSE 0)
HasRoom(op) == RecordCount(op) + pend[op] < RecordRoom
WithinQuota == Cardinality({op \in Op : dirs[op]}) < MaxRetained

-----------------------------------------------------------------------------
Init ==
    /\ live = [t \in Target |->
                 IF t = DB
                 THEN [claims |-> {}, authority |-> 0, cleanup |-> FALSE,
                       plans |-> [p \in Plan |-> "none"]]
                 ELSE Absent]
    /\ foreign = {}
    /\ backups = [p \in Plan |-> NoBackup]
    /\ staged = [p \in Plan |-> {}]
    /\ recorded = {} /\ granted = 0 /\ owed = FALSE
    /\ guard = NoOp
    /\ dirs = [op \in Op |-> FALSE]
    /\ before = [op \in Op |-> [t \in Target |-> Missing]]
    /\ after = [op \in Op |-> [t \in Target |-> Missing]]
    /\ intent = [op \in Op |-> {}]
    /\ decision = [op \in Op |-> FALSE]
    /\ receipt = [op \in Op |-> "none"]
    /\ pend = [op \in Op |-> 0]
    /\ pc = "idle" /\ cur = NoOp /\ plan = NoPlan /\ snap = Missing
    /\ todo = {}
    /\ crashes = 0 /\ failures = 0 /\ edits = 0

-----------------------------------------------------------------------------
(* The runtime: `migrate` and `serve` under a runtime lease *)

\* Nobody else holds the lease, and no guard is present.  SQLite consumes
\* its own sidecars when the runtime reopens the database.
AcquireRuntime ==
    /\ pc = "idle" /\ ~Blocked
    /\ pc' = "runtime"
    /\ foreign' = foreign \ {DB}
    /\ UNCHANGED <<live, archive, truth, guard, evidence,
                   cur, plan, snap, todo, faults>>

ReleaseRuntime ==
    /\ pc = "runtime"
    /\ pc' = "idle"
    /\ UNCHANGED <<live, foreign, archive, truth, guard, evidence,
                   cur, plan, snap, todo, faults>>

CommitRow(image) ==
    /\ live' = [live EXCEPT ![DB] = image]
    /\ UNCHANGED <<foreign, guard, evidence, session, faults>>

\* A provider mutation is claimed before it is attempted.
RecordClaim(c) ==
    /\ pc = "runtime" /\ c \notin recorded
    /\ CommitRow([live[DB] EXCEPT !.claims = @ \cup {c}])
    /\ recorded' = recorded \cup {c}
    /\ UNCHANGED <<archive, granted, owed>>

\* A credential, session or cached authority row is granted or revoked.
ChangeAuthority ==
    /\ pc = "runtime" /\ granted < MaxAuthority
    /\ CommitRow([live[DB] EXCEPT !.authority = granted + 1])
    /\ granted' = granted + 1
    /\ UNCHANGED <<archive, recorded, owed>>

\* An upload leaves a provider resource that must be deleted ...
OweCleanup ==
    /\ pc = "runtime" /\ ~owed
    /\ CommitRow([live[DB] EXCEPT !.cleanup = TRUE])
    /\ owed' = TRUE
    /\ UNCHANGED <<archive, recorded, granted>>

\* ... and its deletion is confirmed.
ConfirmCleanup ==
    /\ pc = "runtime" /\ owed
    /\ CommitRow([live[DB] EXCEPT !.cleanup = FALSE])
    /\ owed' = FALSE
    /\ UNCHANGED <<archive, recorded, granted>>

\* A document version is encrypted into a file of its own.
IngestDocument(d, image) ==
    /\ pc = "runtime" /\ live[d] = Absent
    /\ live' = [live EXCEPT ![d] = image]
    /\ UNCHANGED <<foreign, archive, truth, guard, evidence, session, faults>>

\* The archive holds the database as it was before its own manifest row.
CreateBackup(p) ==
    /\ pc = "runtime" /\ backups[p] = NoBackup
    /\ backups' = [backups EXCEPT ![p] =
                     [db |-> live[DB], docs |-> [d \in Document |-> live[d]]]]
    /\ CommitRow([live[DB] EXCEPT !.plans[p] = "SAVED"])
    /\ UNCHANGED <<staged, truth>>

StageRestore(p, categories) ==
    /\ pc = "runtime" /\ live[DB].plans[p] = "SAVED" /\ staged[p] = {}
    /\ staged' = [staged EXCEPT ![p] = categories]
    /\ CommitRow([live[DB] EXCEPT !.plans[p] = "STAGED"])
    /\ UNCHANGED <<backups, truth>>

-----------------------------------------------------------------------------
(* `restore`: admission, preparation, activation, installation *)

\* Mutant of AdmitRestore: bookkeeping is written to the live database first.
AdmitWithLiveBookkeeping(p) ==
    /\ pc = "idle" /\ ~Blocked
    /\ DB \notin foreign
    /\ live[DB].plans[p] = "STAGED"
    /\ backups[p] # NoBackup /\ staged[p] # {}
    /\ HistoryPreserved(live[DB], Candidate(p, live[DB]))
    /\ live' = [live EXCEPT ![DB] = Bookkeep(live[DB], p)]
    /\ pc' = "allocate" /\ plan' = p /\ snap' = live'[DB]
    /\ UNCHANGED <<foreign, archive, truth, guard, evidence, cur, todo, faults>>

\* Exclusive ownership, no guard, a closed database, a plan that is still the
\* reviewed one, and preserved history; the database bytes are snapshotted.
AdmitRestore(p) ==
    /\ pc = "idle" /\ ~Blocked
    /\ DB \notin foreign
    /\ live[DB].plans[p] = "STAGED"
    /\ backups[p] # NoBackup /\ staged[p] # {}
    /\ HistoryPreserved(live[DB], Candidate(p, live[DB]))
    /\ pc' = "allocate" /\ plan' = p /\ snap' = live[DB]
    /\ UNCHANGED <<live, foreign, archive, truth, guard, evidence,
                   cur, todo, faults>>

\* Identifiers are random: which of the unused ones it is makes no difference.
AllocateOperation(op) ==
    /\ pc = "allocate" /\ ~Blocked
    /\ WithinQuota
    /\ ~dirs[op] /\ op = CHOOSE unused \in Op : ~dirs[unused]
    /\ dirs' = [dirs EXCEPT ![op] = TRUE]
    /\ pc' = "savedb" /\ cur' = op
    /\ UNCHANGED <<live, foreign, archive, truth, guard, before, after, intent,
                   decision, receipt, pend, plan, snap, todo, faults>>

SaveDatabasePreimage ==
    /\ pc = "savedb"
    /\ before' = [before EXCEPT ![cur][DB] = snap]
    /\ pc' = "capture" /\ todo' = Inputs(plan)
    /\ UNCHANGED <<live, foreign, archive, truth, guard, dirs, after, intent,
                   decision, receipt, pend, cur, plan, snap, faults>>

CaptureDocument(d) ==
    /\ pc = "capture" /\ IsNext(d)
    /\ before' = [before EXCEPT ![cur][d] = live[d]]
    /\ after' = [after EXCEPT ![cur][d] = backups[plan].docs[d]]
    /\ todo' = todo \ {d}
    /\ UNCHANGED <<live, foreign, archive, truth, guard, dirs, intent,
                   decision, receipt, pend, pc, cur, plan, snap, faults>>

\* The database postimage is retained last; every image is re-read, every
\* target must still be its before-image, and the intent is published.
PreparedAfter == [after[cur] EXCEPT ![DB] = Bookkeep(Candidate(plan, snap), plan)]
StillBefore(targets) ==
    \A t \in targets : t \notin foreign /\ live[t] = before[cur][t]

PublishIntent ==
    /\ pc = "capture" /\ todo = {}
    /\ StillBefore(Inputs(plan) \cup {DB})
    /\ HasRoom(cur)
    /\ after' = [after EXCEPT ![cur] = PreparedAfter]
    /\ intent' = [intent EXCEPT ![cur] = Inputs(plan) \cup {DB}]
    /\ pc' = "activate"
    /\ UNCHANGED <<live, foreign, archive, truth, guard, dirs, before,
                   decision, receipt, pend, cur, plan, snap, todo, faults>>

\* Mutant of ActivatePrepared: the live targets are not compared once more.
ActivateUnchecked ==
    /\ pc = "activate" /\ ~Blocked
    /\ guard' = cur
    /\ pc' = "install" /\ todo' = intent[cur]
    /\ UNCHANGED <<live, foreign, archive, truth, evidence,
                   cur, plan, snap, faults>>

\* From here on only recovery or completion can open the workspace again.
ActivatePrepared ==
    /\ pc = "activate" /\ ~Blocked
    /\ StillBefore(intent[cur])
    /\ guard' = cur
    /\ pc' = "install" /\ todo' = intent[cur]
    /\ UNCHANGED <<live, foreign, archive, truth, evidence,
                   cur, plan, snap, faults>>

Install(t) ==
    /\ pc = "install" /\ IsNext(t)
    /\ Known(cur, t)
    /\ live' = [live EXCEPT ![t] = after[cur][t]]
    /\ todo' = todo \ {t}
    /\ UNCHANGED <<foreign, archive, truth, guard, evidence,
                   pc, cur, plan, snap, faults>>

WriteReceipt(outcome) ==
    /\ (outcome = "ROLLED_BACK") <=> decision[cur]
    /\ OnSide(cur, IF outcome = "APPLIED" THEN after ELSE before)
    /\ HasRoom(cur)
    /\ receipt' = [receipt EXCEPT ![cur] = outcome]
    /\ pc' = "finish"
    /\ UNCHANGED <<live, foreign, archive, truth, guard, dirs, before, after,
                   intent, decision, pend, cur, plan, snap, todo, faults>>

WriteApplied == pc = "install" /\ todo = {} /\ WriteReceipt("APPLIED")

-----------------------------------------------------------------------------
(* Recovery sessions: rollback and finalization of the guarded operation *)

\* Mutant of BeginRollback: an applied restore can still be rolled back.
BeginRollbackOfApplied ==
    /\ pc = "idle" /\ Blocked
    /\ intent[guard] # {} /\ AllKnown(guard)
    /\ pc' = "decide" /\ cur' = guard
    /\ UNCHANGED <<live, foreign, archive, truth, guard, evidence,
                   plan, snap, todo, faults>>

\* A terminal outcome is only finalized; otherwise every retained image and
\* every live target is verified before the first recovery write.
BeginRollback ==
    /\ pc = "idle" /\ Blocked
    /\ intent[guard] # {}
    /\ receipt[guard] # "APPLIED"
    /\ receipt[guard] = "none" => AllKnown(guard)
    /\ pc' = IF receipt[guard] = "none" THEN "decide" ELSE "finish"
    /\ cur' = guard
    /\ UNCHANGED <<live, foreign, archive, truth, guard, evidence,
                   plan, snap, todo, faults>>

WriteDecision ==
    /\ pc = "decide"
    /\ decision[cur] \/ HasRoom(cur)
    /\ decision' = [decision EXCEPT ![cur] = TRUE]
    /\ pc' = "undo" /\ todo' = intent[cur]
    /\ UNCHANGED <<live, foreign, archive, truth, guard, dirs, before, after,
                   intent, receipt, pend, cur, plan, snap, faults>>

\* Mutant of Undo: a target that an interrupted rollback has put back
\* already is not counted as done.
UndoWithoutSkip(t) ==
    /\ pc = "undo" /\ IsNext(t)
    /\ Known(cur, t)
    /\ live' = [live EXCEPT ![t] = before[cur][t]]
    /\ todo' = IF live[t] = before[cur][t] THEN todo ELSE todo \ {t}
    /\ UNCHANGED <<foreign, archive, truth, guard, evidence,
                   pc, cur, plan, snap, faults>>

\* Skip a target that is already BEFORE, else put its before-image back or
\* remove the file this operation introduced.
Undo(t) ==
    /\ pc = "undo" /\ IsNext(t)
    /\ Known(cur, t)
    /\ live' = [live EXCEPT ![t] = before[cur][t]]
    /\ todo' = todo \ {t}
    /\ UNCHANGED <<foreign, archive, truth, guard, evidence,
                   pc, cur, plan, snap, faults>>

WriteRolledBack == pc = "undo" /\ todo = {} /\ WriteReceipt("ROLLED_BACK")

BeginFinalize ==
    /\ pc = "idle" /\ Blocked
    /\ intent[guard] # {} /\ receipt[guard] # "none"
    /\ pc' = "finish" /\ cur' = guard
    /\ UNCHANGED <<live, foreign, archive, truth, guard, evidence,
                   plan, snap, todo, faults>>

\* The receipt's side of every target is verified again, then the guard is
\* removed.  The operation's evidence stays.
Finalize ==
    /\ pc = "finish" /\ guard = cur
    /\ receipt[cur] # "none"
    /\ (receipt[cur] = "ROLLED_BACK") <=> decision[cur]
    /\ OnSide(cur, IF receipt[cur] = "APPLIED" THEN after ELSE before)
    /\ guard' = NoOp
    /\ EndSession
    /\ UNCHANGED <<live, foreign, archive, truth, evidence, faults>>

-----------------------------------------------------------------------------
(* Refusals, errors, crashes, and software outside the application *)

\* The condition the next step of the session insists on.
StepAdmitted ==
    /\ pc = "allocate" => WithinQuota
    /\ (pc = "capture" /\ todo = {}) =>
            StillBefore(Inputs(plan) \cup {DB}) /\ HasRoom(cur)
    /\ pc = "activate" => StillBefore(intent[cur])
    /\ pc \in {"install", "undo"} =>
            /\ \A t \in todo : IsNext(t) => Known(cur, t)
            /\ todo = {} => /\ OnSide(cur, IF pc = "install" THEN after ELSE before)
                            /\ HasRoom(cur)
    /\ pc = "decide" => decision[cur] \/ HasRoom(cur)
    /\ pc = "finish" => OnSide(cur, IF receipt[cur] = "APPLIED" THEN after ELSE before)

Publishing ==
    \/ pc \in {"savedb", "capture", "decide"}
    \/ pc \in {"install", "undo"} /\ todo = {}

\* A publication that stops between its write and its rename.
LeavePending ==
    \/ pend' = pend
    \/ Publishing /\ cur # NoOp /\ pend' = [pend EXCEPT ![cur] = @ + 1]

\* discard_unactivated: the preparation is inventoried and removed.
Discard(op) ==
    /\ dirs' = [dirs EXCEPT ![op] = FALSE]
    /\ before' = [before EXCEPT ![op] = [t \in Target |-> Missing]]
    /\ after' = [after EXCEPT ![op] = [t \in Target |-> Missing]]
    /\ intent' = [intent EXCEPT ![op] = {}]
    /\ pend' = [pend EXCEPT ![op] = 0]
    /\ UNCHANGED <<decision, receipt>>

\* It removes file after file: an error leaves any part of them behind.
DiscardPartly(op) ==
    /\ \E kept \in SUBSET Target :
         /\ before' = [before EXCEPT ![op] =
                         [t \in Target |-> IF t \in kept THEN before[op][t] ELSE Missing]]
         /\ after' = [after EXCEPT ![op] =
                         [t \in Target |-> IF t \in kept THEN after[op][t] ELSE Missing]]
    /\ intent' \in {intent, [intent EXCEPT ![op] = {}]}
    /\ UNCHANGED <<dirs, decision, receipt, pend>>

\* apply() discards its own preparation unless the guard was published.
Discardable == ~Blocked /\ cur # NoOp

RefuseStep ==
    /\ pc \in RestorePc /\ ~StepAdmitted
    /\ IF Discardable THEN Discard(cur) ELSE UNCHANGED evidence
    /\ EndSession
    /\ UNCHANGED <<live, foreign, archive, truth, guard, faults>>

FailStep ==
    /\ pc \in RestorePc
    /\ failures < MaxFailures /\ failures' = failures + 1
    /\ \/ Discardable /\ (Discard(cur) \/ DiscardPartly(cur))
       \/ /\ ~Discardable
          /\ LeavePending
          /\ UNCHANGED <<dirs, before, after, intent, decision, receipt>>
    /\ EndSession
    /\ UNCHANGED <<live, foreign, archive, truth, guard, crashes, edits>>

\* The process dies: its lease and memory vanish, its files stay.  A runtime
\* that dies may leave SQLite journal sidecars behind.
Crash ==
    /\ pc # "idle"
    /\ crashes < MaxCrashes /\ crashes' = crashes + 1
    /\ foreign' \in {foreign, IF pc = "runtime" THEN foreign \cup {DB} ELSE foreign}
    /\ LeavePending
    /\ EndSession
    /\ UNCHANGED <<live, archive, truth, guard, dirs, before, after, intent,
                   decision, receipt, failures, edits>>

Guarded(t) == Blocked /\ t \in intent[guard]

\* A user or another program writes a document the guard does not cover.
EditDocument(d, image) ==
    /\ ~Guarded(d) /\ image # live[d]
    /\ edits < MaxEdits /\ edits' = edits + 1
    /\ live' = [live EXCEPT ![d] = image]
    /\ UNCHANGED <<foreign, archive, truth, guard, evidence, session,
                   crashes, failures>>

\* Bytes nobody retained appear in a guarded target, or another SQLite
\* client opens the database.
DisturbTarget(t) ==
    /\ t \notin foreign /\ pc # "runtime"
    /\ Guarded(t) \/ t = DB
    /\ edits < MaxEdits /\ edits' = edits + 1
    /\ foreign' = foreign \cup {t}
    /\ UNCHANGED <<live, archive, truth, guard, evidence, session,
                   crashes, failures>>

\* The owner puts the preserved bytes back, or that client closes.
RepairTarget(t) ==
    /\ t \in foreign
    /\ foreign' = foreign \ {t}
    /\ UNCHANGED <<live, archive, truth, guard, evidence, session, faults>>

-----------------------------------------------------------------------------
Runtime ==
    \/ AcquireRuntime \/ ReleaseRuntime
    \/ \E c \in Claim : RecordClaim(c)
    \/ ChangeAuthority \/ OweCleanup \/ ConfirmCleanup
    \/ \E d \in Document, image \in DocImage : IngestDocument(d, image)
    \/ \E p \in Plan : CreateBackup(p)
    \/ \E p \in Plan, c \in (SUBSET Category) \ {{}} : StageRestore(p, c)

SessionStep ==
    \/ \E op \in Op : AllocateOperation(op)
    \/ SaveDatabasePreimage
    \/ \E d \in Document : CaptureDocument(d)
    \/ PublishIntent \/ ActivatePrepared
    \/ \E t \in Target : Install(t)
    \/ WriteApplied
    \/ WriteDecision
    \/ \E t \in Target : Undo(t)
    \/ WriteRolledBack \/ Finalize
    \/ RefuseStep

BeginRecovery == BeginRollback \/ BeginFinalize

Environment ==
    \/ FailStep \/ Crash
    \/ \E d \in Document, image \in DocState : EditDocument(d, image)
    \/ \E t \in Target : DisturbTarget(t)
    \/ \E t \in Target : RepairTarget(t)

Next ==
    \/ Runtime
    \/ \E p \in Plan : AdmitRestore(p)
    \/ SessionStep
    \/ BeginRecovery
    \/ Environment

Spec == Init /\ [][Next]_vars

-----------------------------------------------------------------------------
(* Properties *)

(* Every variable has its type: the workspace, its evidence and the session. *)
TypeOK ==
    /\ live \in [Target -> Image]
    /\ \A t \in Target : live[t] \in ImageOf(t)
    /\ foreign \subseteq Target
    /\ backups \in [Plan -> Snapshot \cup {NoBackup}]
    /\ staged \in [Plan -> SUBSET Category]
    /\ recorded \subseteq Claim /\ granted \in 0..MaxAuthority /\ owed \in BOOLEAN
    /\ guard \in Op \cup {NoOp}
    /\ dirs \in [Op -> BOOLEAN]
    /\ before \in [Op -> [Target -> Image \cup {Missing}]]
    /\ after \in [Op -> [Target -> Image \cup {Missing}]]
    /\ \A op \in Op, t \in Target :
          {before[op][t], after[op][t]} \subseteq ImageOf(t) \cup {Missing}
    /\ intent \in [Op -> SUBSET Target]
    /\ decision \in [Op -> BOOLEAN]
    /\ receipt \in [Op -> {"none", "APPLIED", "ROLLED_BACK"}]
    /\ pend \in [Op -> Nat]
    /\ pc \in Pc /\ cur \in Op \cup {NoOp} /\ plan \in Plan \cup {NoPlan}
    /\ snap \in DbImage \cup {Missing}
    /\ todo \subseteq Target
    /\ crashes \in 0..MaxCrashes /\ failures \in 0..MaxFailures
    /\ edits \in 0..MaxEdits

(* A database image that remembers every recorded attempt, holds exactly the
   authority last granted and the cleanup still owed. *)
Truthful(image) ==
    /\ recorded \subseteq image.claims
    /\ image.authority = granted
    /\ image.cleanup = owed

(* No sequence of backups, restores, rollbacks, crashes and retries makes the
   application forget a recorded provider attempt, revive a revoked authority
   or drop an owed cleanup: not in the workspace the runtime opens, and not in
   either image a blocked workspace can still be completed to. *)
HistoryNeverLost ==
    /\ ~Blocked => Truthful(live[DB])
    /\ Blocked => Truthful(before[guard][DB]) /\ Truthful(after[guard][DB])

(* Whatever interrupted it, a blocked workspace can always be brought to one
   side: every guarded target has both images retained, its live bytes are one
   of the two, and the database is among them. *)
BlockedIsRecoverable ==
    Blocked =>
        /\ dirs[guard] /\ DB \in intent[guard]
        /\ \A t \in intent[guard] :
              /\ before[guard][t] # Missing /\ after[guard][t] # Missing
              /\ live[t] \in {before[guard][t], after[guard][t]}

(* A receipt never lies about a workspace that is still blocked: the outcome
   it names is on disk in every target, and a rollback was decided exactly
   when it says so. *)
ReceiptTellsTheTruth ==
    Blocked /\ receipt[guard] # "none" =>
        /\ (receipt[guard] = "ROLLED_BACK") <=> decision[guard]
        /\ \A t \in intent[guard] :
              live[t] = IF receipt[guard] = "APPLIED" THEN after[guard][t]
                                                      ELSE before[guard][t]

(* A plan that a reopened database calls APPLIED was applied: some operation
   that brought it there holds an applied receipt, however many restores of
   older databases lie in between. *)
AppliedPlanHasReceipt ==
    ~Blocked => \A p \in Plan :
        live[DB].plans[p] = "APPLIED" =>
            \E op \in Op : /\ receipt[op] = "APPLIED"
                           /\ after[op][DB].plans[p] = "APPLIED"

(* The runtime never shares the workspace with a blocked restore. *)
RuntimeNeverBlocked == pc = "runtime" => ~Blocked

(* Bytes nobody retained are never overwritten by a restore session, and a
   workspace holding them in a guarded target is not reopened. *)
KeepsUnknownBytes ==
    \A t \in foreign \cap foreign' :
        /\ live'[t] = live[t]
        /\ Guarded(t) => guard' = guard
UnknownBytesPreserved == [][KeepsUnknownBytes]_vars

(* The evidence of a guarded operation is write-once: no image, intent,
   decision or receipt is changed or removed while the guard stands, nor by
   the step that clears it. *)
KeepsEvidence ==
    \A op \in {guard} \ {NoOp} :
        /\ before'[op] = before[op] /\ after'[op] = after[op]
        /\ intent'[op] = intent[op] /\ dirs'[op]
        /\ decision[op] => decision'[op]
        /\ receipt[op] # "none" => receipt'[op] = receipt[op]
EvidenceIsWriteOnce == [][KeepsEvidence]_vars

(* After the rollback decision there is no way forward: no target returns to
   its after-image and the operation is never recorded as applied. *)
KeepsRollback ==
    Blocked /\ decision[guard] =>
        /\ receipt'[guard] # "APPLIED"
        /\ \A t \in intent[guard] :
              live[t] = before[guard][t] => live'[t] = before[guard][t]
RollbackIsFinal == [][KeepsRollback]_vars

(* A blocked workspace is eventually reopened: the owner answers the recovery
   prompt and puts foreign bytes back, sessions run to their end, and crashes,
   errors and outside edits are finitely many. *)
BlockedIsEventuallyCleared == Blocked ~> ~Blocked

(* What a session knows, by the point it has reached.  The preparation has
   not touched the live database since it admitted it; behind the guard the
   session works on the guarded operation and on nothing else. *)
SessionConsistent ==
    /\ cur \in Op <=> pc \in RestorePc \ {"allocate"}
    /\ pc \in {"runtime", "allocate"} \cup Prepared => ~Blocked
    /\ pc \in {"install", "decide", "undo", "finish"} => guard = cur
    /\ pc \in {"install", "decide", "undo"} => receipt[cur] = "none"
    /\ pc = "install" => ~decision[cur]
    /\ pc \in {"install", "undo"} => todo \subseteq intent[cur]
    /\ pc \in {"allocate"} \cup Prepared =>
         /\ plan \in Plan /\ backups[plan] # NoBackup
         /\ snap = live[DB]
         /\ HistoryPreserved(snap, Candidate(plan, snap))
    /\ pc \in Prepared =>
         dirs[cur] /\ ~decision[cur] /\ receipt[cur] = "none"
    /\ pc \in {"capture", "activate"} => before[cur][DB] = snap
    /\ pc = "capture" =>
         /\ todo \subseteq Inputs(plan)
         /\ \A d \in Inputs(plan) \ todo :
               before[cur][d] # Missing /\ after[cur][d] # Missing
    /\ pc = "activate" =>
         /\ DB \in intent[cur]
         /\ after[cur][DB] = Bookkeep(Candidate(plan, snap), plan)
         /\ \A t \in intent[cur] :
               before[cur][t] # Missing /\ after[cur][t] # Missing

(* An operation that was never activated has neither decision nor receipt. *)
FreshOperations ==
    \A op \in Op : ~dirs[op] => ~decision[op] /\ receipt[op] = "none"

(* Only guarded targets and a closed database hold bytes nobody retained. *)
ForeignIsGuarded ==
    /\ \A t \in foreign : t = DB \/ Guarded(t)
    /\ pc = "runtime" => DB \notin foreign

Inductive ==
    /\ TypeOK /\ SessionConsistent /\ FreshOperations
    /\ HistoryNeverLost /\ BlockedIsRecoverable
    /\ ReceiptTellsTheTruth /\ RuntimeNeverBlocked

Fairness ==
    /\ WF_vars(SessionStep)
    /\ WF_vars(BeginRecovery)
    /\ WF_vars(\E t \in Target : RepairTarget(t))

FairSpec == Spec /\ Fairness

-----------------------------------------------------------------------------
(* Refinement: what the application can see of all this *)

\* A guarded target counts as its before-image until the applied receipt is
\* published, and as its after-image from then on.
VisibleWorkspace ==
    [t \in Target |->
        IF ~Guarded(t) THEN live[t]
        ELSE IF receipt[guard] = "APPLIED" THEN after[guard][t]
        ELSE before[guard][t]]

VisiblePhase ==
    IF ~Blocked THEN "open"
    ELSE IF receipt[guard] = "none" THEN "pending" ELSE "decided"

PendingBundle ==
    IF Blocked
    THEN [t \in intent[guard] |-> after[guard][t]]
    ELSE << >>

Atomic == INSTANCE AtomicRestore
            WITH workspace <- VisibleWorkspace, phase <- VisiblePhase,
                 bundle <- PendingBundle

(* The crash-prone, file-by-file protocol implements an all-or-nothing
   replacement of the workspace. *)
ImplementsAtomicRestore == Atomic!Spec
=============================================================================
