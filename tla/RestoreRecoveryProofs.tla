----------------------- MODULE RestoreRecoveryProofs -----------------------
(***************************************************************************)
(* Safety of the restore protocol, for any number of documents, plans and  *)
(* operations, any quota and any number of crashes, errors and edits.      *)
(*                                                                         *)
(* Inductive (defined in RestoreRecovery) is shown to hold initially and   *)
(* to be preserved by every action, one lemma per action; the theorems at  *)
(* the end follow from it.                                                 *)
(***************************************************************************)
EXTENDS RestoreRecovery, TLAPS

(* The database is a target of its own, behind the documents. *)
LEMMA TargetsDisjoint ==
    /\ DB \in Target /\ DB \notin Document /\ Document \subseteq Target
    /\ DB \in Nat
BY RestoreAssumption DEF DB, Document, Target

USE RestoreAssumption, TargetsDisjoint DEF archive, truth, evidence, session, faults

(* What an admitted plan would leave in the database is a database image, also
   after its own bookkeeping. *)
LEMMA CandidateIsDatabase ==
    ASSUME TypeOK, SessionConsistent, pc \in {"allocate"} \cup Prepared
    PROVE  /\ Candidate(plan, snap) \in DbImage
           /\ Bookkeep(Candidate(plan, snap), plan) \in DbImage
<1>1. plan \in Plan /\ backups[plan] \in Snapshot /\ snap \in DbImage
  BY DEF SessionConsistent, TypeOK, ImageOf
<1>2. Candidate(plan, snap) \in DbImage
  BY <1>1 DEF Candidate, Snapshot
<1>3. \A image \in DbImage : Bookkeep(image, plan) \in DbImage
  BY <1>1 DEF Bookkeep, DbImage, PlanStatus
<1>4. QED
  BY <1>2, <1>3

(* A session that may discard its operation has not activated it. *)
LEMMA DiscardableIsPrepared ==
    ASSUME TypeOK, SessionConsistent, Discardable
    PROVE  pc \in Prepared /\ cur \in Op /\ ~decision[cur] /\ receipt[cur] = "none"
BY DEF TypeOK, SessionConsistent, Discardable, Blocked, RestorePc, Prepared

(* AcquireRuntime preserves the inductive invariant. *)
LEMMA AcquireRuntimePreserves ==
    ASSUME Inductive, AcquireRuntime
    PROVE  Inductive'
<1> USE DEF Inductive, AcquireRuntime
<1>1. TypeOK'
  BY DEF TypeOK, SessionConsistent, ImageOf, Image, Snapshot, Pc, RestorePc, Prepared
<1>2. SessionConsistent'
  BY DEF SessionConsistent, TypeOK, Blocked, RestorePc, Prepared, Candidate, HistoryPreserved, Inputs
<1>3. FreshOperations'
  BY DEF FreshOperations, SessionConsistent, TypeOK, Prepared
<1>4. HistoryNeverLost'
  BY DEF HistoryNeverLost, Truthful, Blocked, SessionConsistent, RestorePc, Prepared, TypeOK
<1>5. BlockedIsRecoverable'
  BY DEF BlockedIsRecoverable, Blocked, SessionConsistent, TypeOK, RestorePc, Prepared, IsNext
<1>6. ReceiptTellsTheTruth'
  BY DEF ReceiptTellsTheTruth, Blocked, SessionConsistent, TypeOK, RestorePc, Prepared
<1>7. RuntimeNeverBlocked'
  BY DEF RuntimeNeverBlocked, Blocked, SessionConsistent, Prepared
<1> QED BY <1>1, <1>2, <1>3, <1>4, <1>5, <1>6, <1>7

(* ReleaseRuntime preserves the inductive invariant. *)
LEMMA ReleaseRuntimePreserves ==
    ASSUME Inductive, ReleaseRuntime
    PROVE  Inductive'
<1> USE DEF Inductive, ReleaseRuntime
<1>1. TypeOK'
  BY DEF TypeOK, SessionConsistent, ImageOf, Image, Snapshot, Pc, RestorePc, Prepared
<1>2. SessionConsistent'
  BY DEF SessionConsistent, TypeOK, Blocked, RestorePc, Prepared, Candidate, HistoryPreserved, Inputs
<1>3. FreshOperations'
  BY DEF FreshOperations, SessionConsistent, TypeOK, Prepared
<1>4. HistoryNeverLost'
  BY DEF HistoryNeverLost, Truthful, Blocked, SessionConsistent, RestorePc, Prepared, TypeOK
<1>5. BlockedIsRecoverable'
  BY DEF BlockedIsRecoverable, Blocked, SessionConsistent, TypeOK, RestorePc, Prepared, IsNext
<1>6. ReceiptTellsTheTruth'
  BY DEF ReceiptTellsTheTruth, Blocked, SessionConsistent, TypeOK, RestorePc, Prepared
<1>7. RuntimeNeverBlocked'
  BY DEF RuntimeNeverBlocked, Blocked, SessionConsistent, Prepared
<1> QED BY <1>1, <1>2, <1>3, <1>4, <1>5, <1>6, <1>7

(* RecordClaim preserves the inductive invariant. *)
LEMMA RecordClaimPreserves ==
    ASSUME Inductive, NEW c \in Claim, RecordClaim(c)
    PROVE  Inductive'
<1> USE DEF Inductive, RecordClaim, CommitRow
<1>1. TypeOK'
  <2>1. live[DB] \in DbImage
    BY DEF TypeOK, ImageOf
  <2>2. [live[DB] EXCEPT !.claims = @ \cup {c}] \in DbImage
    BY <2>1 DEF DbImage, TypeOK
  <2>3. QED
    BY <2>2 DEF TypeOK, ImageOf, Image
<1>2. SessionConsistent'
  BY DEF SessionConsistent, TypeOK, Blocked, RestorePc, Prepared, Candidate, HistoryPreserved, Inputs
<1>3. FreshOperations'
  BY DEF FreshOperations, SessionConsistent, TypeOK, Prepared
<1>4. HistoryNeverLost'
  BY DEF HistoryNeverLost, Truthful, Blocked, SessionConsistent, RestorePc, Prepared, TypeOK
<1>5. BlockedIsRecoverable'
  BY DEF BlockedIsRecoverable, Blocked, SessionConsistent, TypeOK, RestorePc, Prepared, IsNext
<1>6. ReceiptTellsTheTruth'
  BY DEF ReceiptTellsTheTruth, Blocked, SessionConsistent, TypeOK, RestorePc, Prepared
<1>7. RuntimeNeverBlocked'
  BY DEF RuntimeNeverBlocked, Blocked, SessionConsistent, Prepared
<1> QED BY <1>1, <1>2, <1>3, <1>4, <1>5, <1>6, <1>7

(* ChangeAuthority preserves the inductive invariant. *)
LEMMA ChangeAuthorityPreserves ==
    ASSUME Inductive, ChangeAuthority
    PROVE  Inductive'
<1> USE DEF Inductive, ChangeAuthority, CommitRow
<1>1. TypeOK'
  <2>1. live[DB] \in DbImage /\ granted + 1 \in 0..MaxAuthority
    BY DEF TypeOK, ImageOf
  <2>2. [live[DB] EXCEPT !.authority = granted + 1] \in DbImage
    BY <2>1 DEF DbImage
  <2>3. QED
    BY <2>1, <2>2 DEF TypeOK, ImageOf, Image
<1>2. SessionConsistent'
  BY DEF SessionConsistent, TypeOK, Blocked, RestorePc, Prepared, Candidate, HistoryPreserved, Inputs
<1>3. FreshOperations'
  BY DEF FreshOperations, SessionConsistent, TypeOK, Prepared
<1>4. HistoryNeverLost'
  BY DEF HistoryNeverLost, Truthful, Blocked, SessionConsistent, RestorePc, Prepared, TypeOK
<1>5. BlockedIsRecoverable'
  BY DEF BlockedIsRecoverable, Blocked, SessionConsistent, TypeOK, RestorePc, Prepared, IsNext
<1>6. ReceiptTellsTheTruth'
  BY DEF ReceiptTellsTheTruth, Blocked, SessionConsistent, TypeOK, RestorePc, Prepared
<1>7. RuntimeNeverBlocked'
  BY DEF RuntimeNeverBlocked, Blocked, SessionConsistent, Prepared
<1> QED BY <1>1, <1>2, <1>3, <1>4, <1>5, <1>6, <1>7

(* OweCleanup preserves the inductive invariant. *)
LEMMA OweCleanupPreserves ==
    ASSUME Inductive, OweCleanup
    PROVE  Inductive'
<1> USE DEF Inductive, OweCleanup, CommitRow
<1>1. TypeOK'
  <2>1. live[DB] \in DbImage
    BY DEF TypeOK, ImageOf
  <2>2. [live[DB] EXCEPT !.cleanup = TRUE] \in DbImage
    BY <2>1 DEF DbImage, TypeOK
  <2>3. QED
    BY <2>2 DEF TypeOK, ImageOf, Image
<1>2. SessionConsistent'
  BY DEF SessionConsistent, TypeOK, Blocked, RestorePc, Prepared, Candidate, HistoryPreserved, Inputs
<1>3. FreshOperations'
  BY DEF FreshOperations, SessionConsistent, TypeOK, Prepared
<1>4. HistoryNeverLost'
  BY DEF HistoryNeverLost, Truthful, Blocked, SessionConsistent, RestorePc, Prepared, TypeOK
<1>5. BlockedIsRecoverable'
  BY DEF BlockedIsRecoverable, Blocked, SessionConsistent, TypeOK, RestorePc, Prepared, IsNext
<1>6. ReceiptTellsTheTruth'
  BY DEF ReceiptTellsTheTruth, Blocked, SessionConsistent, TypeOK, RestorePc, Prepared
<1>7. RuntimeNeverBlocked'
  BY DEF RuntimeNeverBlocked, Blocked, SessionConsistent, Prepared
<1> QED BY <1>1, <1>2, <1>3, <1>4, <1>5, <1>6, <1>7

(* ConfirmCleanup preserves the inductive invariant. *)
LEMMA ConfirmCleanupPreserves ==
    ASSUME Inductive, ConfirmCleanup
    PROVE  Inductive'
<1> USE DEF Inductive, ConfirmCleanup, CommitRow
<1>1. TypeOK'
  <2>1. live[DB] \in DbImage
    BY DEF TypeOK, ImageOf
  <2>2. [live[DB] EXCEPT !.cleanup = FALSE] \in DbImage
    BY <2>1 DEF DbImage, TypeOK
  <2>3. QED
    BY <2>2 DEF TypeOK, ImageOf, Image
<1>2. SessionConsistent'
  BY DEF SessionConsistent, TypeOK, Blocked, RestorePc, Prepared, Candidate, HistoryPreserved, Inputs
<1>3. FreshOperations'
  BY DEF FreshOperations, SessionConsistent, TypeOK, Prepared
<1>4. HistoryNeverLost'
  <2>1. live[DB] \in DbImage
    BY DEF TypeOK, ImageOf
  <2>2. QED
    BY <2>1 DEF HistoryNeverLost, Truthful, Blocked, SessionConsistent, TypeOK, DbImage
<1>5. BlockedIsRecoverable'
  BY DEF BlockedIsRecoverable, Blocked, SessionConsistent, TypeOK, RestorePc, Prepared, IsNext
<1>6. ReceiptTellsTheTruth'
  BY DEF ReceiptTellsTheTruth, Blocked, SessionConsistent, TypeOK, RestorePc, Prepared
<1>7. RuntimeNeverBlocked'
  BY DEF RuntimeNeverBlocked, Blocked, SessionConsistent, Prepared
<1> QED BY <1>1, <1>2, <1>3, <1>4, <1>5, <1>6, <1>7

(* IngestDocument preserves the inductive invariant. *)
LEMMA IngestDocumentPreserves ==
    ASSUME Inductive, NEW d \in Document, NEW image \in DocImage, IngestDocument(d, image)
    PROVE  Inductive'
<1> USE DEF Inductive, IngestDocument
<1>1. TypeOK'
  <2>1. d # DB /\ image \in DocState
    BY DEF DocState
  <2>2. QED
    BY <2>1 DEF TypeOK, ImageOf, Image
<1>2. SessionConsistent'
  BY DEF SessionConsistent, TypeOK, Blocked, RestorePc, Prepared, Candidate, HistoryPreserved, Inputs
<1>3. FreshOperations'
  BY DEF FreshOperations, SessionConsistent, TypeOK, Prepared
<1>4. HistoryNeverLost'
  BY DEF HistoryNeverLost, Truthful, Blocked, SessionConsistent, RestorePc, Prepared, TypeOK
<1>5. BlockedIsRecoverable'
  BY DEF BlockedIsRecoverable, Blocked, SessionConsistent, TypeOK, RestorePc, Prepared, IsNext
<1>6. ReceiptTellsTheTruth'
  BY DEF ReceiptTellsTheTruth, Blocked, SessionConsistent, TypeOK, RestorePc, Prepared
<1>7. RuntimeNeverBlocked'
  BY DEF RuntimeNeverBlocked, Blocked, SessionConsistent, Prepared
<1> QED BY <1>1, <1>2, <1>3, <1>4, <1>5, <1>6, <1>7

(* CreateBackup preserves the inductive invariant. *)
LEMMA CreateBackupPreserves ==
    ASSUME Inductive, NEW p \in Plan, CreateBackup(p)
    PROVE  Inductive'
<1> USE DEF Inductive, CreateBackup, CommitRow
<1>1. TypeOK'
  <2>1. live[DB] \in DbImage
    BY DEF TypeOK, ImageOf
  <2>2. [live[DB] EXCEPT !.plans[p] = "SAVED"] \in DbImage
    BY <2>1 DEF DbImage, PlanStatus
  <2>3. \A d \in Document : live[d] \in DocState
    BY DEF TypeOK, ImageOf
  <2>4. [db |-> live[DB], docs |-> [d \in Document |-> live[d]]] \in Snapshot
    BY <2>1, <2>3 DEF Snapshot
  <2>5. QED
    BY <2>2, <2>4 DEF TypeOK, ImageOf, Image
<1>2. SessionConsistent'
  BY DEF SessionConsistent, TypeOK, Blocked, RestorePc, Prepared, Candidate, HistoryPreserved, Inputs
<1>3. FreshOperations'
  BY DEF FreshOperations, SessionConsistent, TypeOK, Prepared
<1>4. HistoryNeverLost'
  BY DEF HistoryNeverLost, Truthful, Blocked, SessionConsistent, RestorePc, Prepared, TypeOK
<1>5. BlockedIsRecoverable'
  BY DEF BlockedIsRecoverable, Blocked, SessionConsistent, TypeOK, RestorePc, Prepared, IsNext
<1>6. ReceiptTellsTheTruth'
  BY DEF ReceiptTellsTheTruth, Blocked, SessionConsistent, TypeOK, RestorePc, Prepared
<1>7. RuntimeNeverBlocked'
  BY DEF RuntimeNeverBlocked, Blocked, SessionConsistent, Prepared
<1> QED BY <1>1, <1>2, <1>3, <1>4, <1>5, <1>6, <1>7

(* StageRestore preserves the inductive invariant. *)
LEMMA StageRestorePreserves ==
    ASSUME Inductive, NEW p \in Plan, NEW c \in (SUBSET Category) \ {{}}, StageRestore(p, c)
    PROVE  Inductive'
<1> USE DEF Inductive, StageRestore, CommitRow
<1>1. TypeOK'
  <2>1. live[DB] \in DbImage
    BY DEF TypeOK, ImageOf
  <2>2. [live[DB] EXCEPT !.plans[p] = "STAGED"] \in DbImage
    BY <2>1 DEF DbImage, PlanStatus, TypeOK
  <2>3. QED
    BY <2>2 DEF TypeOK, ImageOf, Image
<1>2. SessionConsistent'
  BY DEF SessionConsistent, TypeOK, Blocked, RestorePc, Prepared, Candidate, HistoryPreserved, Inputs
<1>3. FreshOperations'
  BY DEF FreshOperations, SessionConsistent, TypeOK, Prepared
<1>4. HistoryNeverLost'
  BY DEF HistoryNeverLost, Truthful, Blocked, SessionConsistent, RestorePc, Prepared, TypeOK
<1>5. BlockedIsRecoverable'
  BY DEF BlockedIsRecoverable, Blocked, SessionConsistent, TypeOK, RestorePc, Prepared, IsNext
<1>6. ReceiptTellsTheTruth'
  BY DEF ReceiptTellsTheTruth, Blocked, SessionConsistent, TypeOK, RestorePc, Prepared
<1>7. RuntimeNeverBlocked'
  BY DEF RuntimeNeverBlocked, Blocked, SessionConsistent, Prepared
<1> QED BY <1>1, <1>2, <1>3, <1>4, <1>5, <1>6, <1>7

(* AdmitRestore preserves the inductive invariant. *)
LEMMA AdmitRestorePreserves ==
    ASSUME Inductive, NEW p \in Plan, AdmitRestore(p)
    PROVE  Inductive'
<1> USE DEF Inductive, AdmitRestore
<1>1. TypeOK'
  BY DEF TypeOK, SessionConsistent, ImageOf, Image, Snapshot, Pc, RestorePc, Prepared
<1>2. SessionConsistent'
  BY DEF SessionConsistent, TypeOK, Blocked, RestorePc, Prepared, Candidate, HistoryPreserved, Inputs
<1>3. FreshOperations'
  BY DEF FreshOperations, SessionConsistent, TypeOK, Prepared
<1>4. HistoryNeverLost'
  BY DEF HistoryNeverLost, Truthful, Blocked, SessionConsistent, RestorePc, Prepared, TypeOK
<1>5. BlockedIsRecoverable'
  BY DEF BlockedIsRecoverable, Blocked, SessionConsistent, TypeOK, RestorePc, Prepared, IsNext
<1>6. ReceiptTellsTheTruth'
  BY DEF ReceiptTellsTheTruth, Blocked, SessionConsistent, TypeOK, RestorePc, Prepared
<1>7. RuntimeNeverBlocked'
  BY DEF RuntimeNeverBlocked, Blocked, SessionConsistent, Prepared
<1> QED BY <1>1, <1>2, <1>3, <1>4, <1>5, <1>6, <1>7

(* AllocateOperation preserves the inductive invariant. *)
LEMMA AllocateOperationPreserves ==
    ASSUME Inductive, NEW op \in Op, AllocateOperation(op)
    PROVE  Inductive'
<1> USE DEF Inductive, AllocateOperation
<1>1. TypeOK'
  BY DEF TypeOK, SessionConsistent, ImageOf, Image, Snapshot, Pc, RestorePc, Prepared
<1>2. SessionConsistent'
  BY DEF SessionConsistent, FreshOperations, TypeOK, Blocked, RestorePc, Prepared,
         Candidate, HistoryPreserved
<1>3. FreshOperations'
  BY DEF FreshOperations, SessionConsistent, TypeOK, Prepared
<1>4. HistoryNeverLost'
  BY DEF HistoryNeverLost, Truthful, Blocked, SessionConsistent, RestorePc, Prepared, TypeOK
<1>5. BlockedIsRecoverable'
  BY DEF BlockedIsRecoverable, Blocked, SessionConsistent, TypeOK, RestorePc, Prepared, IsNext
<1>6. ReceiptTellsTheTruth'
  BY DEF ReceiptTellsTheTruth, Blocked, SessionConsistent, TypeOK, RestorePc, Prepared
<1>7. RuntimeNeverBlocked'
  BY DEF RuntimeNeverBlocked, Blocked, SessionConsistent, Prepared
<1> QED BY <1>1, <1>2, <1>3, <1>4, <1>5, <1>6, <1>7

(* SaveDatabasePreimage preserves the inductive invariant. *)
LEMMA SaveDatabasePreimagePreserves ==
    ASSUME Inductive, SaveDatabasePreimage
    PROVE  Inductive'
<1> USE DEF Inductive, SaveDatabasePreimage
<1>1. TypeOK'
  <2>1. cur \in Op /\ snap \in ImageOf(DB)
    BY DEF SessionConsistent, Prepared, RestorePc, TypeOK, ImageOf
  <2>2. ImageOf(DB) \subseteq Image
    BY DEF ImageOf, Image
  <2>3. Inputs(plan) \subseteq Target
    BY DEF Inputs
  <2>4. QED
    BY <2>1, <2>2, <2>3 DEF TypeOK, Pc, RestorePc
<1>2. SessionConsistent'
  BY DEF SessionConsistent, TypeOK, Blocked, RestorePc, Prepared, Candidate, HistoryPreserved, Inputs
<1>3. FreshOperations'
  BY DEF FreshOperations, SessionConsistent, TypeOK, Prepared
<1>4. HistoryNeverLost'
  BY DEF HistoryNeverLost, Truthful, Blocked, SessionConsistent, RestorePc, Prepared, TypeOK
<1>5. BlockedIsRecoverable'
  BY DEF BlockedIsRecoverable, Blocked, SessionConsistent, TypeOK, RestorePc, Prepared, IsNext
<1>6. ReceiptTellsTheTruth'
  BY DEF ReceiptTellsTheTruth, Blocked, SessionConsistent, TypeOK, RestorePc, Prepared
<1>7. RuntimeNeverBlocked'
  BY DEF RuntimeNeverBlocked, Blocked, SessionConsistent, Prepared
<1> QED BY <1>1, <1>2, <1>3, <1>4, <1>5, <1>6, <1>7

(* CaptureDocument preserves the inductive invariant. *)
LEMMA CaptureDocumentPreserves ==
    ASSUME Inductive, NEW d \in Document, CaptureDocument(d)
    PROVE  Inductive'
<1> USE DEF Inductive, CaptureDocument
<1>1. TypeOK'
  BY DEF TypeOK, SessionConsistent, ImageOf, Image, Snapshot, Pc, RestorePc, Prepared
<1>2. SessionConsistent'
  <2>1. cur \in Op /\ plan \in Plan /\ backups[plan] \in Snapshot
    BY DEF SessionConsistent, RestorePc, Prepared, TypeOK
  <2>2. live[d] # Missing /\ backups[plan].docs[d] # Missing /\ d # DB
    BY <2>1 DEF TypeOK, ImageOf, Snapshot
  <2>3. Inputs(plan)' = Inputs(plan)
    BY DEF Inputs
  <2>4. QED
    BY <2>1, <2>2, <2>3 DEF SessionConsistent, TypeOK, Blocked, RestorePc, Prepared,
       Candidate, HistoryPreserved
<1>3. FreshOperations'
  BY DEF FreshOperations, SessionConsistent, TypeOK, Prepared
<1>4. HistoryNeverLost'
  BY DEF HistoryNeverLost, Truthful, Blocked, SessionConsistent, RestorePc, Prepared, TypeOK
<1>5. BlockedIsRecoverable'
  BY DEF BlockedIsRecoverable, Blocked, SessionConsistent, TypeOK, RestorePc, Prepared, IsNext
<1>6. ReceiptTellsTheTruth'
  BY DEF ReceiptTellsTheTruth, Blocked, SessionConsistent, TypeOK, RestorePc, Prepared
<1>7. RuntimeNeverBlocked'
  BY DEF RuntimeNeverBlocked, Blocked, SessionConsistent, Prepared
<1> QED BY <1>1, <1>2, <1>3, <1>4, <1>5, <1>6, <1>7

(* PublishIntent preserves the inductive invariant. *)
LEMMA PublishIntentPreserves ==
    ASSUME Inductive, PublishIntent
    PROVE  Inductive'
<1> USE DEF Inductive, PublishIntent, PreparedAfter
<1>1. TypeOK'
  <2>1. cur \in Op /\ Bookkeep(Candidate(plan, snap), plan) \in DbImage
    BY CandidateIsDatabase DEF SessionConsistent, RestorePc, Prepared
  <2>2. PreparedAfter \in [Target -> Image \cup {Missing}]
    BY <2>1 DEF TypeOK, Image
  <2>3. \A t \in Target : PreparedAfter[t] \in ImageOf(t) \cup {Missing}
    BY <2>1 DEF TypeOK, ImageOf
  <2>4. Inputs(plan) \cup {DB} \subseteq Target
    BY DEF Inputs
  <2> HIDE DEF PreparedAfter
  <2>5. /\ after' \in [Op -> [Target -> Image \cup {Missing}]]
        /\ \A op \in Op, t \in Target : after'[op][t] \in ImageOf(t) \cup {Missing}
    BY <2>1, <2>2, <2>3 DEF TypeOK
  <2>6. intent' \in [Op -> SUBSET Target]
    BY <2>4 DEF TypeOK
  <2>7. QED
    BY <2>5, <2>6 DEF TypeOK, Pc, RestorePc, ImageOf
<1>2. SessionConsistent'
  <2>1. /\ cur \in Op /\ plan \in Plan /\ snap = live[DB]
        /\ before[cur][DB] = snap
    BY DEF SessionConsistent, RestorePc, Prepared
  <2>2. Bookkeep(Candidate(plan, snap), plan) \in DbImage /\ snap \in DbImage
    BY <2>1, CandidateIsDatabase DEF Prepared, TypeOK, ImageOf
  <2>3. /\ after'[cur] = PreparedAfter
        /\ after'[cur][DB] = Bookkeep(Candidate(plan, snap), plan)
    BY <2>1 DEF TypeOK
  <2>4. intent'[cur] = Inputs(plan) \cup {DB}
    BY <2>1 DEF TypeOK
  <2>5. \A t \in intent'[cur] : before'[cur][t] # Missing /\ after'[cur][t] # Missing
    <3>1. \A d \in Inputs(plan) : before[cur][d] # Missing /\ after'[cur][d] # Missing
      BY <2>1, <2>3 DEF SessionConsistent, Inputs, TypeOK
    <3>2. before[cur][DB] # Missing /\ after'[cur][DB] # Missing
      BY <2>1, <2>2, <2>3
    <3>3. QED
      BY <2>4, <3>1, <3>2
  <2> HIDE DEF PreparedAfter
  <2>6. /\ Candidate(plan, snap)' = Candidate(plan, snap)
        /\ Bookkeep(Candidate(plan, snap), plan)' = Bookkeep(Candidate(plan, snap), plan)
    BY DEF Candidate, Bookkeep
  <2>7. QED
    BY <2>1, <2>3, <2>4, <2>5, <2>6 DEF SessionConsistent, TypeOK, Blocked, RestorePc,
       Prepared, HistoryPreserved
<1>3. FreshOperations'
  BY DEF FreshOperations, SessionConsistent, TypeOK, Prepared
<1>4. HistoryNeverLost'
  BY DEF HistoryNeverLost, Truthful, Blocked, SessionConsistent, RestorePc, Prepared, TypeOK
<1>5. BlockedIsRecoverable'
  BY DEF BlockedIsRecoverable, Blocked, SessionConsistent, TypeOK, RestorePc, Prepared, IsNext
<1>6. ReceiptTellsTheTruth'
  BY DEF ReceiptTellsTheTruth, Blocked, SessionConsistent, TypeOK, RestorePc, Prepared
<1>7. RuntimeNeverBlocked'
  BY DEF RuntimeNeverBlocked, Blocked, SessionConsistent, Prepared
<1> QED BY <1>1, <1>2, <1>3, <1>4, <1>5, <1>6, <1>7

(* ActivatePrepared preserves the inductive invariant. *)
LEMMA ActivatePreparedPreserves ==
    ASSUME Inductive, ActivatePrepared
    PROVE  Inductive'
<1> USE DEF Inductive, ActivatePrepared
<1>1. TypeOK'
  BY DEF TypeOK, SessionConsistent, ImageOf, Image, Snapshot, Pc, RestorePc, Prepared
<1>2. SessionConsistent'
  BY DEF SessionConsistent, TypeOK, Blocked, RestorePc, Prepared, Candidate, HistoryPreserved, Inputs
<1>3. FreshOperations'
  BY DEF FreshOperations, SessionConsistent, TypeOK, Prepared
<1>4. HistoryNeverLost'
  <2>1. /\ cur \in Op /\ ~Blocked /\ dirs[cur] /\ DB \in intent[cur]
        /\ plan \in Plan /\ snap \in DbImage
        /\ before[cur][DB] = snap /\ snap = live[DB]
        /\ after[cur][DB] = Bookkeep(Candidate(plan, snap), plan)
    BY DEF SessionConsistent, RestorePc, Prepared, TypeOK, ImageOf
  <2>2. Truthful(snap)
    BY <2>1 DEF HistoryNeverLost
  <2>3. Truthful(Candidate(plan, snap))
    <3>1. Candidate(plan, snap) \in DbImage
      BY CandidateIsDatabase DEF Prepared
    <3>2. HistoryPreserved(snap, Candidate(plan, snap))
      BY DEF SessionConsistent, Prepared
    <3>3. owed \in BOOLEAN /\ Candidate(plan, snap).cleanup \in BOOLEAN
      BY <3>1 DEF DbImage, TypeOK
    <3>4. Candidate(plan, snap).cleanup = owed
      BY <2>1, <2>2, <3>2, <3>3 DEF Truthful, HistoryPreserved, DbImage
    <3>5. QED
      BY <2>2, <3>2, <3>4 DEF Truthful, HistoryPreserved
  <2>4. Truthful(Bookkeep(Candidate(plan, snap), plan))
    BY <2>3, CandidateIsDatabase DEF Truthful, Bookkeep, DbImage, Prepared
  <2>5. QED
    BY <2>1, <2>2, <2>4 DEF HistoryNeverLost, Truthful, Blocked
<1>5. BlockedIsRecoverable'
  <2>1. cur \in Op /\ dirs[cur] /\ DB \in intent[cur]
    BY DEF SessionConsistent, RestorePc, Prepared
  <2>2. \A t \in intent[cur] :
           /\ before[cur][t] # Missing /\ after[cur][t] # Missing
           /\ live[t] = before[cur][t]
    BY DEF SessionConsistent, StillBefore
  <2>3. QED
    BY <2>1, <2>2 DEF BlockedIsRecoverable, Blocked
<1>6. ReceiptTellsTheTruth'
  BY DEF ReceiptTellsTheTruth, Blocked, SessionConsistent, TypeOK, RestorePc, Prepared
<1>7. RuntimeNeverBlocked'
  BY DEF RuntimeNeverBlocked, Blocked, SessionConsistent, Prepared
<1> QED BY <1>1, <1>2, <1>3, <1>4, <1>5, <1>6, <1>7

(* Install preserves the inductive invariant. *)
LEMMA InstallPreserves ==
    ASSUME Inductive, NEW t \in Target, Install(t)
    PROVE  Inductive'
<1> USE DEF Inductive, Install
<1>1. TypeOK'
  <2>1. cur \in Op /\ cur = guard /\ t \in intent[cur] /\ Blocked
    BY DEF SessionConsistent, RestorePc, IsNext, Blocked
  <2>2. after[cur][t] \in ImageOf(t)
    BY <2>1 DEF BlockedIsRecoverable, TypeOK
  <2>3. ImageOf(t) \subseteq Image
    BY DEF ImageOf, Image
  <2>4. QED
    BY <2>2, <2>3 DEF TypeOK, ImageOf
<1>2. SessionConsistent'
  BY DEF SessionConsistent, TypeOK, Blocked, RestorePc, Prepared, Candidate, HistoryPreserved, Inputs
<1>3. FreshOperations'
  BY DEF FreshOperations, SessionConsistent, TypeOK, Prepared
<1>4. HistoryNeverLost'
  BY DEF HistoryNeverLost, Truthful, Blocked, SessionConsistent, RestorePc, Prepared, TypeOK
<1>5. BlockedIsRecoverable'
  BY DEF BlockedIsRecoverable, Blocked, SessionConsistent, TypeOK, RestorePc, Prepared, IsNext
<1>6. ReceiptTellsTheTruth'
  BY DEF ReceiptTellsTheTruth, Blocked, SessionConsistent, TypeOK, RestorePc, Prepared
<1>7. RuntimeNeverBlocked'
  BY DEF RuntimeNeverBlocked, Blocked, SessionConsistent, Prepared
<1> QED BY <1>1, <1>2, <1>3, <1>4, <1>5, <1>6, <1>7

(* WriteApplied preserves the inductive invariant. *)
LEMMA WriteAppliedPreserves ==
    ASSUME Inductive, WriteApplied
    PROVE  Inductive'
<1> USE DEF Inductive, WriteApplied, WriteReceipt
<1>1. TypeOK'
  BY DEF TypeOK, SessionConsistent, ImageOf, Image, Snapshot, Pc, RestorePc, Prepared
<1>2. SessionConsistent'
  BY DEF SessionConsistent, TypeOK, Blocked, RestorePc, Prepared, Candidate, HistoryPreserved, Inputs
<1>3. FreshOperations'
  <2>1. cur = guard /\ cur \in Op /\ Blocked
    BY DEF SessionConsistent, RestorePc, Blocked
  <2>2. QED
    BY <2>1 DEF FreshOperations, BlockedIsRecoverable, TypeOK
<1>4. HistoryNeverLost'
  BY DEF HistoryNeverLost, Truthful, Blocked, SessionConsistent, RestorePc, Prepared, TypeOK
<1>5. BlockedIsRecoverable'
  BY DEF BlockedIsRecoverable, Blocked, SessionConsistent, TypeOK, RestorePc, Prepared, IsNext
<1>6. ReceiptTellsTheTruth'
  <2>1. cur = guard /\ cur \in Op /\ Blocked
    BY DEF SessionConsistent, RestorePc, Blocked
  <2>2. QED
    BY <2>1 DEF ReceiptTellsTheTruth, OnSide, TypeOK, Blocked
<1>7. RuntimeNeverBlocked'
  BY DEF RuntimeNeverBlocked, Blocked, SessionConsistent, Prepared
<1> QED BY <1>1, <1>2, <1>3, <1>4, <1>5, <1>6, <1>7

(* WriteDecision preserves the inductive invariant. *)
LEMMA WriteDecisionPreserves ==
    ASSUME Inductive, WriteDecision
    PROVE  Inductive'
<1> USE DEF Inductive, WriteDecision
<1>1. TypeOK'
  BY DEF TypeOK, SessionConsistent, ImageOf, Image, Snapshot, Pc, RestorePc, Prepared
<1>2. SessionConsistent'
  BY DEF SessionConsistent, TypeOK, Blocked, RestorePc, Prepared, Candidate, HistoryPreserved, Inputs
<1>3. FreshOperations'
  <2>1. cur = guard /\ cur \in Op /\ Blocked
    BY DEF SessionConsistent, RestorePc, Blocked
  <2>2. QED
    BY <2>1 DEF FreshOperations, BlockedIsRecoverable, TypeOK
<1>4. HistoryNeverLost'
  BY DEF HistoryNeverLost, Truthful, Blocked, SessionConsistent, RestorePc, Prepared, TypeOK
<1>5. BlockedIsRecoverable'
  BY DEF BlockedIsRecoverable, Blocked, SessionConsistent, TypeOK, RestorePc, Prepared, IsNext
<1>6. ReceiptTellsTheTruth'
  BY DEF ReceiptTellsTheTruth, Blocked, SessionConsistent, TypeOK, RestorePc, Prepared
<1>7. RuntimeNeverBlocked'
  BY DEF RuntimeNeverBlocked, Blocked, SessionConsistent, Prepared
<1> QED BY <1>1, <1>2, <1>3, <1>4, <1>5, <1>6, <1>7

(* Undo preserves the inductive invariant. *)
LEMMA UndoPreserves ==
    ASSUME Inductive, NEW t \in Target, Undo(t)
    PROVE  Inductive'
<1> USE DEF Inductive, Undo
<1>1. TypeOK'
  <2>1. cur \in Op /\ cur = guard /\ t \in intent[cur] /\ Blocked
    BY DEF SessionConsistent, RestorePc, IsNext, Blocked
  <2>2. before[cur][t] \in ImageOf(t)
    BY <2>1 DEF BlockedIsRecoverable, TypeOK
  <2>3. ImageOf(t) \subseteq Image
    BY DEF ImageOf, Image
  <2>4. QED
    BY <2>2, <2>3 DEF TypeOK, ImageOf
<1>2. SessionConsistent'
  BY DEF SessionConsistent, TypeOK, Blocked, RestorePc, Prepared, Candidate, HistoryPreserved, Inputs
<1>3. FreshOperations'
  BY DEF FreshOperations, SessionConsistent, TypeOK, Prepared
<1>4. HistoryNeverLost'
  BY DEF HistoryNeverLost, Truthful, Blocked, SessionConsistent, RestorePc, Prepared, TypeOK
<1>5. BlockedIsRecoverable'
  BY DEF BlockedIsRecoverable, Blocked, SessionConsistent, TypeOK, RestorePc, Prepared, IsNext
<1>6. ReceiptTellsTheTruth'
  BY DEF ReceiptTellsTheTruth, Blocked, SessionConsistent, TypeOK, RestorePc, Prepared
<1>7. RuntimeNeverBlocked'
  BY DEF RuntimeNeverBlocked, Blocked, SessionConsistent, Prepared
<1> QED BY <1>1, <1>2, <1>3, <1>4, <1>5, <1>6, <1>7

(* WriteRolledBack preserves the inductive invariant. *)
LEMMA WriteRolledBackPreserves ==
    ASSUME Inductive, WriteRolledBack
    PROVE  Inductive'
<1> USE DEF Inductive, WriteRolledBack, WriteReceipt
<1>1. TypeOK'
  BY DEF TypeOK, SessionConsistent, ImageOf, Image, Snapshot, Pc, RestorePc, Prepared
<1>2. SessionConsistent'
  BY DEF SessionConsistent, TypeOK, Blocked, RestorePc, Prepared, Candidate, HistoryPreserved, Inputs
<1>3. FreshOperations'
  <2>1. cur = guard /\ cur \in Op /\ Blocked
    BY DEF SessionConsistent, RestorePc, Blocked
  <2>2. QED
    BY <2>1 DEF FreshOperations, BlockedIsRecoverable, TypeOK
<1>4. HistoryNeverLost'
  BY DEF HistoryNeverLost, Truthful, Blocked, SessionConsistent, RestorePc, Prepared, TypeOK
<1>5. BlockedIsRecoverable'
  BY DEF BlockedIsRecoverable, Blocked, SessionConsistent, TypeOK, RestorePc, Prepared, IsNext
<1>6. ReceiptTellsTheTruth'
  <2>1. cur = guard /\ cur \in Op /\ Blocked
    BY DEF SessionConsistent, RestorePc, Blocked
  <2>2. QED
    BY <2>1 DEF ReceiptTellsTheTruth, OnSide, TypeOK, Blocked
<1>7. RuntimeNeverBlocked'
  BY DEF RuntimeNeverBlocked, Blocked, SessionConsistent, Prepared
<1> QED BY <1>1, <1>2, <1>3, <1>4, <1>5, <1>6, <1>7

(* Finalize preserves the inductive invariant. *)
LEMMA FinalizePreserves ==
    ASSUME Inductive, Finalize
    PROVE  Inductive'
<1> USE DEF Inductive, Finalize, EndSession
<1>1. TypeOK'
  BY DEF TypeOK, SessionConsistent, ImageOf, Image, Snapshot, Pc, RestorePc, Prepared
<1>2. SessionConsistent'
  BY DEF SessionConsistent, TypeOK, Blocked, RestorePc, Prepared, Candidate, HistoryPreserved, Inputs
<1>3. FreshOperations'
  BY DEF FreshOperations, SessionConsistent, TypeOK, Prepared
<1>4. HistoryNeverLost'
  <2>1. Blocked /\ DB \in intent[cur] /\ guard = cur
    BY DEF SessionConsistent, RestorePc, Blocked, BlockedIsRecoverable
  <2>2. live[DB] \in {before[cur][DB], after[cur][DB]}
    BY <2>1 DEF OnSide
  <2>3. QED
    BY <2>1, <2>2 DEF HistoryNeverLost, Truthful, Blocked
<1>5. BlockedIsRecoverable'
  BY DEF BlockedIsRecoverable, Blocked, SessionConsistent, TypeOK, RestorePc, Prepared, IsNext
<1>6. ReceiptTellsTheTruth'
  BY DEF ReceiptTellsTheTruth, Blocked, SessionConsistent, TypeOK, RestorePc, Prepared
<1>7. RuntimeNeverBlocked'
  BY DEF RuntimeNeverBlocked, Blocked, SessionConsistent, Prepared
<1> QED BY <1>1, <1>2, <1>3, <1>4, <1>5, <1>6, <1>7

(* RefuseStep preserves the inductive invariant. *)
LEMMA RefuseStepPreserves ==
    ASSUME Inductive, RefuseStep
    PROVE  Inductive'
<1> USE DEF Inductive, RefuseStep, EndSession, Discard, Discardable
<1>1. TypeOK'
  <2>1. CASE Discardable /\ Discard(cur)
    BY <2>1, DiscardableIsPrepared DEF TypeOK, Pc, RestorePc, Prepared, ImageOf
  <2>2. CASE ~Discardable
    BY <2>2 DEF TypeOK, Pc, ImageOf
  <2>3. QED
    BY <2>1, <2>2
<1>2. SessionConsistent'
  BY DEF SessionConsistent, TypeOK, Blocked, RestorePc, Prepared, Candidate, HistoryPreserved, Inputs
<1>3. FreshOperations'
  BY DiscardableIsPrepared DEF FreshOperations, TypeOK
<1>4. HistoryNeverLost'
  BY DEF HistoryNeverLost, Truthful, Blocked, SessionConsistent, RestorePc, Prepared, TypeOK
<1>5. BlockedIsRecoverable'
  BY DEF BlockedIsRecoverable, Blocked, SessionConsistent, TypeOK, RestorePc, Prepared, IsNext
<1>6. ReceiptTellsTheTruth'
  BY DEF ReceiptTellsTheTruth, Blocked, SessionConsistent, TypeOK, RestorePc, Prepared
<1>7. RuntimeNeverBlocked'
  BY DEF RuntimeNeverBlocked, Blocked, SessionConsistent, Prepared
<1> QED BY <1>1, <1>2, <1>3, <1>4, <1>5, <1>6, <1>7

(* BeginRollback preserves the inductive invariant. *)
LEMMA BeginRollbackPreserves ==
    ASSUME Inductive, BeginRollback
    PROVE  Inductive'
<1> USE DEF Inductive, BeginRollback
<1>1. TypeOK'
  BY DEF TypeOK, SessionConsistent, ImageOf, Image, Snapshot, Pc, RestorePc, Prepared
<1>2. SessionConsistent'
  BY DEF SessionConsistent, TypeOK, Blocked, RestorePc, Prepared, Candidate, HistoryPreserved, Inputs
<1>3. FreshOperations'
  BY DEF FreshOperations, SessionConsistent, TypeOK, Prepared
<1>4. HistoryNeverLost'
  BY DEF HistoryNeverLost, Truthful, Blocked, SessionConsistent, RestorePc, Prepared, TypeOK
<1>5. BlockedIsRecoverable'
  BY DEF BlockedIsRecoverable, Blocked, SessionConsistent, TypeOK, RestorePc, Prepared, IsNext
<1>6. ReceiptTellsTheTruth'
  BY DEF ReceiptTellsTheTruth, Blocked, SessionConsistent, TypeOK, RestorePc, Prepared
<1>7. RuntimeNeverBlocked'
  BY DEF RuntimeNeverBlocked, Blocked, SessionConsistent, Prepared
<1> QED BY <1>1, <1>2, <1>3, <1>4, <1>5, <1>6, <1>7

(* BeginFinalize preserves the inductive invariant. *)
LEMMA BeginFinalizePreserves ==
    ASSUME Inductive, BeginFinalize
    PROVE  Inductive'
<1> USE DEF Inductive, BeginFinalize
<1>1. TypeOK'
  BY DEF TypeOK, SessionConsistent, ImageOf, Image, Snapshot, Pc, RestorePc, Prepared
<1>2. SessionConsistent'
  BY DEF SessionConsistent, TypeOK, Blocked, RestorePc, Prepared, Candidate, HistoryPreserved, Inputs
<1>3. FreshOperations'
  BY DEF FreshOperations, SessionConsistent, TypeOK, Prepared
<1>4. HistoryNeverLost'
  BY DEF HistoryNeverLost, Truthful, Blocked, SessionConsistent, RestorePc, Prepared, TypeOK
<1>5. BlockedIsRecoverable'
  BY DEF BlockedIsRecoverable, Blocked, SessionConsistent, TypeOK, RestorePc, Prepared, IsNext
<1>6. ReceiptTellsTheTruth'
  BY DEF ReceiptTellsTheTruth, Blocked, SessionConsistent, TypeOK, RestorePc, Prepared
<1>7. RuntimeNeverBlocked'
  BY DEF RuntimeNeverBlocked, Blocked, SessionConsistent, Prepared
<1> QED BY <1>1, <1>2, <1>3, <1>4, <1>5, <1>6, <1>7

(* FailStep preserves the inductive invariant. *)
LEMMA FailStepPreserves ==
    ASSUME Inductive, FailStep
    PROVE  Inductive'
<1> USE DEF Inductive, FailStep, EndSession, Discard, Discardable, DiscardPartly, LeavePending, Publishing
<1>1. TypeOK'
  <2>1. CASE Discardable /\ Discard(cur)
    BY <2>1, DiscardableIsPrepared DEF TypeOK, Pc, RestorePc, Prepared, ImageOf
  <2>2. CASE Discardable /\ DiscardPartly(cur)
    <3>1. cur \in Op
      BY <2>2, DiscardableIsPrepared
    <3>2. PICK kept \in SUBSET Target :
            /\ before' = [before EXCEPT ![cur] =
                  [t \in Target |-> IF t \in kept THEN before[cur][t] ELSE Missing]]
            /\ after' = [after EXCEPT ![cur] =
                  [t \in Target |-> IF t \in kept THEN after[cur][t] ELSE Missing]]
      BY <2>2
    <3>3. /\ before' \in [Op -> [Target -> Image \cup {Missing}]]
          /\ after' \in [Op -> [Target -> Image \cup {Missing}]]
          /\ \A op \in Op, t \in Target :
                {before'[op][t], after'[op][t]} \subseteq ImageOf(t) \cup {Missing}
      BY <3>1, <3>2 DEF TypeOK
    <3>4. intent' \in [Op -> SUBSET Target]
      BY <2>2, <3>1 DEF TypeOK
    <3>5. QED
      BY <2>2, <3>3, <3>4 DEF TypeOK, Pc, ImageOf
  <2>3. CASE ~Discardable
    BY <2>3 DEF TypeOK, Pc, ImageOf
  <2>4. QED
    BY <2>1, <2>2, <2>3
<1>2. SessionConsistent'
  BY DEF SessionConsistent, TypeOK, Blocked, RestorePc, Prepared, Candidate, HistoryPreserved, Inputs
<1>3. FreshOperations'
  BY DiscardableIsPrepared DEF FreshOperations, TypeOK
<1>4. HistoryNeverLost'
  BY DEF HistoryNeverLost, Truthful, Blocked, SessionConsistent, RestorePc, Prepared, TypeOK
<1>5. BlockedIsRecoverable'
  BY DEF BlockedIsRecoverable, Blocked, SessionConsistent, TypeOK, RestorePc, Prepared, IsNext
<1>6. ReceiptTellsTheTruth'
  BY DEF ReceiptTellsTheTruth, Blocked, SessionConsistent, TypeOK, RestorePc, Prepared
<1>7. RuntimeNeverBlocked'
  BY DEF RuntimeNeverBlocked, Blocked, SessionConsistent, Prepared
<1> QED BY <1>1, <1>2, <1>3, <1>4, <1>5, <1>6, <1>7

(* Crash preserves the inductive invariant. *)
LEMMA CrashPreserves ==
    ASSUME Inductive, Crash
    PROVE  Inductive'
<1> USE DEF Inductive, Crash, EndSession, LeavePending, Publishing
<1>1. TypeOK'
  BY DEF TypeOK, SessionConsistent, ImageOf, Image, Snapshot, Pc, RestorePc, Prepared
<1>2. SessionConsistent'
  BY DEF SessionConsistent, TypeOK, Blocked, RestorePc, Prepared, Candidate, HistoryPreserved, Inputs
<1>3. FreshOperations'
  BY DEF FreshOperations, SessionConsistent, TypeOK, Prepared
<1>4. HistoryNeverLost'
  BY DEF HistoryNeverLost, Truthful, Blocked, SessionConsistent, RestorePc, Prepared, TypeOK
<1>5. BlockedIsRecoverable'
  BY DEF BlockedIsRecoverable, Blocked, SessionConsistent, TypeOK, RestorePc, Prepared, IsNext
<1>6. ReceiptTellsTheTruth'
  BY DEF ReceiptTellsTheTruth, Blocked, SessionConsistent, TypeOK, RestorePc, Prepared
<1>7. RuntimeNeverBlocked'
  BY DEF RuntimeNeverBlocked, Blocked, SessionConsistent, Prepared
<1> QED BY <1>1, <1>2, <1>3, <1>4, <1>5, <1>6, <1>7

(* EditDocument preserves the inductive invariant. *)
LEMMA EditDocumentPreserves ==
    ASSUME Inductive, NEW d \in Document, NEW image \in DocState, EditDocument(d, image)
    PROVE  Inductive'
<1> USE DEF Inductive, EditDocument
<1>1. TypeOK'
  BY DEF TypeOK, SessionConsistent, ImageOf, Image, Snapshot, Pc, RestorePc, Prepared
<1>2. SessionConsistent'
  BY DEF SessionConsistent, TypeOK, Blocked, RestorePc, Prepared, Candidate, HistoryPreserved, Inputs
<1>3. FreshOperations'
  BY DEF FreshOperations, SessionConsistent, TypeOK, Prepared
<1>4. HistoryNeverLost'
  BY DEF HistoryNeverLost, Truthful, Blocked, SessionConsistent, RestorePc, Prepared, TypeOK
<1>5. BlockedIsRecoverable'
  <2>1. Blocked => d \notin intent[guard]
    BY DEF Guarded
  <2>2. QED
    BY <2>1 DEF BlockedIsRecoverable, Blocked, TypeOK
<1>6. ReceiptTellsTheTruth'
  <2>1. Blocked => d \notin intent[guard]
    BY DEF Guarded
  <2>2. QED
    BY <2>1 DEF ReceiptTellsTheTruth, Blocked, TypeOK
<1>7. RuntimeNeverBlocked'
  BY DEF RuntimeNeverBlocked, Blocked, SessionConsistent, Prepared
<1> QED BY <1>1, <1>2, <1>3, <1>4, <1>5, <1>6, <1>7

(* DisturbTarget preserves the inductive invariant. *)
LEMMA DisturbTargetPreserves ==
    ASSUME Inductive, NEW t \in Target, DisturbTarget(t)
    PROVE  Inductive'
<1> USE DEF Inductive, DisturbTarget
<1>1. TypeOK'
  BY DEF TypeOK, SessionConsistent, ImageOf, Image, Snapshot, Pc, RestorePc, Prepared
<1>2. SessionConsistent'
  BY DEF SessionConsistent, TypeOK, Blocked, RestorePc, Prepared, Candidate, HistoryPreserved, Inputs
<1>3. FreshOperations'
  BY DEF FreshOperations, SessionConsistent, TypeOK, Prepared
<1>4. HistoryNeverLost'
  BY DEF HistoryNeverLost, Truthful, Blocked, SessionConsistent, RestorePc, Prepared, TypeOK
<1>5. BlockedIsRecoverable'
  BY DEF BlockedIsRecoverable, Blocked, SessionConsistent, TypeOK, RestorePc, Prepared, IsNext
<1>6. ReceiptTellsTheTruth'
  BY DEF ReceiptTellsTheTruth, Blocked, SessionConsistent, TypeOK, RestorePc, Prepared
<1>7. RuntimeNeverBlocked'
  BY DEF RuntimeNeverBlocked, Blocked, SessionConsistent, Prepared
<1> QED BY <1>1, <1>2, <1>3, <1>4, <1>5, <1>6, <1>7

(* RepairTarget preserves the inductive invariant. *)
LEMMA RepairTargetPreserves ==
    ASSUME Inductive, NEW t \in Target, RepairTarget(t)
    PROVE  Inductive'
<1> USE DEF Inductive, RepairTarget
<1>1. TypeOK'
  BY DEF TypeOK, SessionConsistent, ImageOf, Image, Snapshot, Pc, RestorePc, Prepared
<1>2. SessionConsistent'
  BY DEF SessionConsistent, TypeOK, Blocked, RestorePc, Prepared, Candidate, HistoryPreserved, Inputs
<1>3. FreshOperations'
  BY DEF FreshOperations, SessionConsistent, TypeOK, Prepared
<1>4. HistoryNeverLost'
  BY DEF HistoryNeverLost, Truthful, Blocked, SessionConsistent, RestorePc, Prepared, TypeOK
<1>5. BlockedIsRecoverable'
  BY DEF BlockedIsRecoverable, Blocked, SessionConsistent, TypeOK, RestorePc, Prepared, IsNext
<1>6. ReceiptTellsTheTruth'
  BY DEF ReceiptTellsTheTruth, Blocked, SessionConsistent, TypeOK, RestorePc, Prepared
<1>7. RuntimeNeverBlocked'
  BY DEF RuntimeNeverBlocked, Blocked, SessionConsistent, Prepared
<1> QED BY <1>1, <1>2, <1>3, <1>4, <1>5, <1>6, <1>7

(* The workspace starts empty, clear and unowned. *)
LEMMA InitInductive == Init => Inductive
<1> SUFFICES ASSUME Init PROVE Inductive
  OBVIOUS
<1>1. TypeOK
  <2>1. live[DB] \in DbImage
    BY DEF Init, DbImage, PlanStatus
  <2>2. \A d \in Target \ {DB} : live[d] \in DocState
    BY DEF Init, DocState
  <2>3. live \in [Target -> Image] /\ \A t \in Target : live[t] \in ImageOf(t)
    BY <2>1, <2>2 DEF Init, ImageOf, Image
  <2>4. /\ before \in [Op -> [Target -> Image \cup {Missing}]]
        /\ after \in [Op -> [Target -> Image \cup {Missing}]]
        /\ \A op \in Op, t \in Target :
              {before[op][t], after[op][t]} \subseteq ImageOf(t) \cup {Missing}
    BY DEF Init
  <2>5. /\ backups \in [Plan -> Snapshot \cup {NoBackup}]
        /\ staged \in [Plan -> SUBSET Category]
        /\ intent \in [Op -> SUBSET Target]
    BY DEF Init
  <2>6. /\ dirs \in [Op -> BOOLEAN] /\ decision \in [Op -> BOOLEAN]
        /\ receipt \in [Op -> {"none", "APPLIED", "ROLLED_BACK"}]
        /\ pend \in [Op -> Nat]
    BY DEF Init
  <2>7. /\ granted \in 0..MaxAuthority /\ crashes \in 0..MaxCrashes
        /\ failures \in 0..MaxFailures /\ edits \in 0..MaxEdits
    BY DEF Init
  <2>8. QED
    BY <2>3, <2>4, <2>5, <2>6, <2>7 DEF Init, TypeOK, Pc
<1>2. SessionConsistent
  BY DEF Init, SessionConsistent, Blocked, RestorePc, Prepared
<1>3. FreshOperations
  BY DEF Init, FreshOperations
<1>4. HistoryNeverLost
  BY DEF Init, HistoryNeverLost, Truthful, Blocked
<1>5. QED
  BY <1>1, <1>2, <1>3, <1>4 DEF Init, Inductive, BlockedIsRecoverable,
     ReceiptTellsTheTruth, RuntimeNeverBlocked, Blocked

(* Every step, and every stuttering step, preserves the inductive invariant. *)
LEMMA NextInductive == Inductive /\ [Next]_vars => Inductive'
<1> SUFFICES ASSUME Inductive, [Next]_vars PROVE Inductive'
  OBVIOUS
<1>1. CASE Runtime
  BY <1>1, AcquireRuntimePreserves, ReleaseRuntimePreserves, RecordClaimPreserves,
     ChangeAuthorityPreserves, OweCleanupPreserves, ConfirmCleanupPreserves,
     IngestDocumentPreserves, CreateBackupPreserves, StageRestorePreserves DEF Runtime
<1>2. CASE \E p \in Plan : AdmitRestore(p)
  BY <1>2, AdmitRestorePreserves
<1>3. CASE SessionStep
  BY <1>3, AllocateOperationPreserves, SaveDatabasePreimagePreserves,
     CaptureDocumentPreserves, PublishIntentPreserves, ActivatePreparedPreserves,
     InstallPreserves, WriteAppliedPreserves, WriteDecisionPreserves, UndoPreserves,
     WriteRolledBackPreserves, FinalizePreserves, RefuseStepPreserves DEF SessionStep
<1>4. CASE BeginRecovery
  BY <1>4, BeginRollbackPreserves, BeginFinalizePreserves DEF BeginRecovery
<1>5. CASE Environment
  BY <1>5, FailStepPreserves, CrashPreserves, EditDocumentPreserves,
     DisturbTargetPreserves, RepairTargetPreserves DEF Environment
<1>6. CASE UNCHANGED vars
  BY <1>6 DEF vars, Inductive, TypeOK, SessionConsistent, FreshOperations,
     HistoryNeverLost, BlockedIsRecoverable, ReceiptTellsTheTruth, RuntimeNeverBlocked,
     Truthful, Blocked, Candidate, HistoryPreserved, Inputs, Bookkeep, ImageOf
<1>7. QED
  BY <1>1, <1>2, <1>3, <1>4, <1>5, <1>6 DEF Next

-----------------------------------------------------------------------------

(* The inductive invariant holds in every reachable state. *)
THEOREM InductiveInvariant == Spec => []Inductive
<1>1. QED
  BY InitInductive, NextInductive, PTL DEF Spec

(* Every variable keeps its type. *)
THEOREM TypeCorrect == Spec => []TypeOK
<1>1. Inductive => TypeOK
  BY DEF Inductive
<1>2. QED
  BY <1>1, InductiveInvariant, PTL

(* No restore, rollback, crash or retry loses a recorded attempt, revives
   authority or forgets an owed cleanup. *)
THEOREM HistorySafe == Spec => []HistoryNeverLost
<1>1. Inductive => HistoryNeverLost
  BY DEF Inductive
<1>2. QED
  BY <1>1, InductiveInvariant, PTL

(* A blocked workspace always has what a recovery needs. *)
THEOREM RecoveryPossible == Spec => []BlockedIsRecoverable
<1>1. Inductive => BlockedIsRecoverable
  BY DEF Inductive
<1>2. QED
  BY <1>1, InductiveInvariant, PTL

(* A published receipt describes every target on disk. *)
THEOREM ReceiptTruthful == Spec => []ReceiptTellsTheTruth
<1>1. Inductive => ReceiptTellsTheTruth
  BY DEF Inductive
<1>2. QED
  BY <1>1, InductiveInvariant, PTL

(* The runtime never opens a blocked workspace. *)
THEOREM RuntimeExcluded == Spec => []RuntimeNeverBlocked
<1>1. Inductive => RuntimeNeverBlocked
  BY DEF Inductive
<1>2. QED
  BY <1>1, InductiveInvariant, PTL

-----------------------------------------------------------------------------
(* What steps may never do *)

(* The runtime acts, and a restore is admitted, only where no guard stands. *)
LEMMA ClearSteps ==
    ASSUME Inductive, Runtime \/ \E p \in Plan : AdmitRestore(p)
    PROVE  ~Blocked
<1>1. pc = "runtime" \/ ~Blocked
  BY DEF Runtime, AcquireRuntime, ReleaseRuntime, RecordClaim, ChangeAuthority,
     OweCleanup, ConfirmCleanup, IngestDocument, CreateBackup, StageRestore, AdmitRestore
<1>2. QED
  BY <1>1 DEF Inductive, RuntimeNeverBlocked

(* A preparation step is taken only where no guard stands. *)
LEMMA PreparationIsClear ==
    ASSUME Inductive, pc \in {"allocate"} \cup Prepared
    PROVE  ~Blocked
BY DEF Inductive, SessionConsistent

(* A session behind the guard works on the guarded operation. *)
LEMMA GuardedSession ==
    ASSUME Inductive, pc \in {"install", "decide", "undo", "finish"}
    PROVE  cur = guard /\ cur \in Op /\ Blocked
BY DEF Inductive, SessionConsistent, RestorePc, Blocked

(* A step behind the guard neither changes nor removes the guarded evidence. *)
LEMMA GuardedEvidence ==
    ASSUME Inductive, Next, Blocked
    PROVE  KeepsEvidence
<1>1. guard \in Op /\ dirs[guard]
  BY DEF Inductive, TypeOK, Blocked, BlockedIsRecoverable
<1>2. CASE SessionStep
  <2>1. CASE \/ \E op \in Op : AllocateOperation(op)
             \/ SaveDatabasePreimage
             \/ \E d \in Document : CaptureDocument(d)
             \/ PublishIntent \/ ActivatePrepared
    BY <2>1, PreparationIsClear DEF AllocateOperation, SaveDatabasePreimage,
       CaptureDocument, PublishIntent, ActivatePrepared, Prepared
  <2>2. CASE (\E t \in Target : Install(t) \/ Undo(t)) \/ Finalize
    BY <2>2, <1>1 DEF Install, Undo, Finalize, KeepsEvidence
  <2>3. CASE WriteApplied \/ WriteRolledBack
    <3>1. receipt[guard] = "none" /\ cur = guard
      BY <2>3, GuardedSession DEF Inductive, SessionConsistent, WriteApplied,
         WriteRolledBack
    <3>2. QED
      BY <2>3, <3>1, <1>1 DEF WriteApplied, WriteRolledBack, WriteReceipt, KeepsEvidence
  <2>4. CASE WriteDecision
    BY <2>4, <1>1 DEF WriteDecision, KeepsEvidence, Inductive, TypeOK
  <2>5. CASE RefuseStep
    BY <2>5, <1>1 DEF RefuseStep, Discardable, KeepsEvidence
  <2>6. QED
    BY <1>2, <2>1, <2>2, <2>3, <2>4, <2>5 DEF SessionStep
<1>3. CASE BeginRecovery
  BY <1>3, <1>1 DEF BeginRecovery, BeginRollback, BeginFinalize, KeepsEvidence
<1>4. CASE Environment
  BY <1>4, <1>1 DEF Environment, FailStep, Discardable, Crash, EditDocument,
     DisturbTarget, RepairTarget, KeepsEvidence
<1>5. QED
  BY <1>2, <1>3, <1>4, ClearSteps DEF Next

(* The evidence of a guarded operation is never changed or removed. *)
THEOREM EvidenceKept == Spec => EvidenceIsWriteOnce
<1>1. Inductive /\ [Next]_vars => [KeepsEvidence]_vars
  BY GuardedEvidence DEF KeepsEvidence, Blocked
<1>2. QED
  BY <1>1, InductiveInvariant, PTL DEF Spec, EvidenceIsWriteOnce

(* After the decision a rollback only moves towards the before-images. *)
THEOREM RollbackCommits == Spec => RollbackIsFinal
<1>1. Inductive /\ [Next]_vars => [KeepsRollback]_vars
  <2> SUFFICES ASSUME Inductive, Next, Blocked, decision[guard]
               PROVE  KeepsRollback
    BY DEF KeepsRollback
  <2>1. guard \in Op /\ receipt[guard] # "APPLIED"
    BY DEF Inductive, TypeOK, Blocked, ReceiptTellsTheTruth
  <2>2. intent[guard] \subseteq Target
    BY <2>1 DEF Inductive, TypeOK
  <2>3. CASE SessionStep
    <3>1. CASE \/ \E op \in Op : AllocateOperation(op)
               \/ SaveDatabasePreimage
               \/ \E d \in Document : CaptureDocument(d)
               \/ PublishIntent \/ ActivatePrepared
      BY <3>1, PreparationIsClear DEF AllocateOperation, SaveDatabasePreimage,
         CaptureDocument, PublishIntent, ActivatePrepared, Prepared
    <3>2. CASE WriteApplied \/ \E t \in Target : Install(t)
      BY <3>2, GuardedSession DEF WriteApplied, Install, Inductive, SessionConsistent
    <3>3. CASE \E t \in Target : Undo(t)
      BY <3>3, <2>1, <2>2, GuardedSession DEF Undo, KeepsRollback, Inductive, TypeOK
    <3>4. CASE WriteRolledBack \/ WriteDecision \/ Finalize
      BY <3>4, <2>1 DEF WriteRolledBack, WriteReceipt, WriteDecision, Finalize,
         KeepsRollback, Inductive, TypeOK
    <3>5. CASE RefuseStep
      BY <3>5, <2>1 DEF RefuseStep, Discardable, KeepsRollback
    <3>6. QED
      BY <2>3, <3>1, <3>2, <3>3, <3>4, <3>5 DEF SessionStep
  <2>4. CASE BeginRecovery
    BY <2>4, <2>1 DEF BeginRecovery, BeginRollback, BeginFinalize, KeepsRollback
  <2>5. CASE Environment
    BY <2>5, <2>1 DEF Environment, FailStep, Discardable, Crash, EditDocument, Guarded,
       DisturbTarget, RepairTarget, KeepsRollback, Inductive, TypeOK
  <2>6. QED
    BY <2>3, <2>4, <2>5, ClearSteps DEF Next
<1>2. QED
  BY <1>1, InductiveInvariant, PTL DEF Spec, RollbackIsFinal

(* Foreign bytes sit in guarded targets or in a database nobody has open. *)
LEMMA ForeignStep ==
    ASSUME Inductive, ForeignIsGuarded, [Next]_vars
    PROVE  ForeignIsGuarded'
<1>1. CASE Runtime
  BY <1>1, ClearSteps DEF Runtime, AcquireRuntime, ReleaseRuntime, RecordClaim,
     ChangeAuthority, OweCleanup, ConfirmCleanup, IngestDocument, CreateBackup,
     StageRestore, CommitRow, ForeignIsGuarded, Guarded, Blocked
<1>2. CASE \E p \in Plan : AdmitRestore(p)
  BY <1>2 DEF AdmitRestore, ForeignIsGuarded, Guarded, Blocked
<1>3. CASE SessionStep
  <2>1. CASE \/ \E op \in Op : AllocateOperation(op)
             \/ SaveDatabasePreimage
             \/ \E d \in Document : CaptureDocument(d)
             \/ PublishIntent \/ ActivatePrepared
    BY <2>1, PreparationIsClear DEF AllocateOperation, SaveDatabasePreimage,
       CaptureDocument, PublishIntent, ActivatePrepared, Prepared, ForeignIsGuarded,
       Guarded, Blocked
  <2>2. CASE \/ \E t \in Target : Install(t) \/ Undo(t)
             \/ WriteApplied \/ WriteRolledBack \/ WriteDecision
    BY <2>2 DEF Install, Undo, WriteApplied, WriteRolledBack, WriteReceipt,
       WriteDecision, ForeignIsGuarded, Guarded, Blocked
  <2>3. CASE Finalize
    BY <2>3 DEF Finalize, EndSession, OnSide, ForeignIsGuarded, Guarded, Blocked
  <2>4. CASE RefuseStep
    BY <2>4 DEF RefuseStep, Discardable, EndSession, ForeignIsGuarded, Guarded, Blocked
  <2>5. QED
    BY <1>3, <2>1, <2>2, <2>3, <2>4 DEF SessionStep
<1>4. CASE BeginRecovery
  BY <1>4 DEF BeginRecovery, BeginRollback, BeginFinalize, ForeignIsGuarded, Guarded,
     Blocked
<1>5. CASE Environment
  <2>1. CASE FailStep
    BY <2>1 DEF FailStep, Discardable, EndSession, ForeignIsGuarded, Guarded, Blocked
  <2>2. CASE Crash
    BY <2>2 DEF Crash, EndSession, ForeignIsGuarded, Guarded, Blocked
  <2>3. CASE \E d \in Document, image \in DocState : EditDocument(d, image)
    BY <2>3 DEF EditDocument, ForeignIsGuarded, Guarded, Blocked
  <2>4. CASE \E t \in Target : DisturbTarget(t) \/ RepairTarget(t)
    BY <2>4 DEF DisturbTarget, RepairTarget, ForeignIsGuarded, Guarded, Blocked
  <2>5. QED
    BY <1>5, <2>1, <2>2, <2>3, <2>4 DEF Environment
<1>6. CASE UNCHANGED vars
  BY <1>6 DEF vars, ForeignIsGuarded, Guarded, Blocked
<1>7. QED
  BY <1>1, <1>2, <1>3, <1>4, <1>5, <1>6 DEF Next

(* Foreign bytes are neither overwritten nor reopened by a session. *)
THEOREM UnknownBytesKept == Spec => UnknownBytesPreserved
<1>1. Inductive /\ ForeignIsGuarded /\ [Next]_vars => [KeepsUnknownBytes]_vars
  <2> SUFFICES ASSUME Inductive, ForeignIsGuarded, Next, NEW t \in foreign \cap foreign'
               PROVE  /\ live'[t] = live[t]
                      /\ Guarded(t) => guard' = guard
    BY DEF KeepsUnknownBytes
  <2>1. t \in Target
    BY DEF Inductive, TypeOK
  <2>2. CASE Runtime
    <3>1. t \notin foreign \/ (t = DB /\ pc = "idle")
      BY <2>2, ClearSteps DEF Runtime, AcquireRuntime, ReleaseRuntime, RecordClaim,
         ChangeAuthority, OweCleanup, ConfirmCleanup, IngestDocument, CreateBackup,
         StageRestore, ForeignIsGuarded, Guarded
    <3>2. QED
      BY <2>2, <3>1 DEF Runtime, AcquireRuntime, ReleaseRuntime, RecordClaim,
         ChangeAuthority, OweCleanup, ConfirmCleanup, IngestDocument, CreateBackup,
         StageRestore
  <2>3. CASE \E p \in Plan : AdmitRestore(p)
    BY <2>3 DEF AdmitRestore
  <2>4. CASE SessionStep
    <3>1. CASE \/ \E op \in Op : AllocateOperation(op)
               \/ SaveDatabasePreimage
               \/ \E d \in Document : CaptureDocument(d)
               \/ PublishIntent \/ ActivatePrepared
      BY <3>1, PreparationIsClear DEF AllocateOperation, SaveDatabasePreimage,
         CaptureDocument, PublishIntent, ActivatePrepared, Prepared, Guarded
    <3>2. CASE WriteApplied \/ WriteRolledBack \/ WriteDecision \/ RefuseStep
      BY <3>2 DEF WriteApplied, WriteRolledBack, WriteReceipt, WriteDecision, RefuseStep
    <3>3. CASE \E u \in Target : Install(u) \/ Undo(u)
      BY <3>3 DEF Install, Undo, Known, Inductive, TypeOK
    <3>4. CASE Finalize
      BY <3>4 DEF Finalize, OnSide, Guarded
    <3>5. QED
      BY <2>4, <3>1, <3>2, <3>3, <3>4 DEF SessionStep
  <2>5. CASE BeginRecovery
    BY <2>5 DEF BeginRecovery, BeginRollback, BeginFinalize
  <2>6. CASE Environment
    <3>1. t # DB => Guarded(t)
      BY DEF ForeignIsGuarded
    <3>2. CASE \E d \in Document, image \in DocState : EditDocument(d, image)
      BY <3>1, <3>2, <2>1, TargetsDisjoint DEF EditDocument, Guarded, Inductive, TypeOK
    <3>3. CASE \/ FailStep \/ Crash
               \/ \E u \in Target : DisturbTarget(u) \/ RepairTarget(u)
      BY <3>3 DEF FailStep, Crash, DisturbTarget, RepairTarget
    <3>4. QED
      BY <2>6, <3>2, <3>3 DEF Environment
  <2>7. QED
    BY <2>2, <2>3, <2>4, <2>5, <2>6 DEF Next
<1>2. Init => ForeignIsGuarded
  BY DEF Init, ForeignIsGuarded
<1>3. Inductive /\ ForeignIsGuarded /\ [Next]_vars => ForeignIsGuarded'
  BY ForeignStep
<1>4. QED
  BY <1>1, <1>2, <1>3, InductiveInvariant, PTL DEF Spec, UnknownBytesPreserved

-----------------------------------------------------------------------------
(* Applied plans: every database that can still become the live one *)

\* Whatever the image calls applied, some operation that brought it there
\* holds an applied receipt.
Witness(op, p) == receipt[op] = "APPLIED" /\ after[op][DB].plans[p] = "APPLIED"
Witnessed(image) ==
    \A p \in Plan : image.plans[p] = "APPLIED" => \E op \in Op : Witness(op, p)

(* AppliedPlanHasReceipt alone is not inductive: a backup may be restored and
   a guarded operation rolled back, so the archived databases and the
   before-image the guard keeps must be witnessed as well. *)
ReceiptsWitness ==
    /\ ~Blocked => Witnessed(live[DB])
    /\ Blocked => Witnessed(before[guard][DB])
    /\ \A p \in Plan : backups[p] # NoBackup => Witnessed(backups[p].db)

(* What an applied receipt witnesses is never unlearned: the receipt and the
   after-images of an operation that holds one are final. *)
LEMMA AppliedEvidenceIsFinal ==
    ASSUME Inductive, [Next]_vars, NEW op \in Op, receipt[op] = "APPLIED"
    PROVE  receipt'[op] = "APPLIED" /\ after'[op] = after[op]
<1> USE DEF Inductive
<1>1. CASE Runtime
  BY <1>1 DEF Runtime, AcquireRuntime, ReleaseRuntime, RecordClaim, ChangeAuthority,
     OweCleanup, ConfirmCleanup, IngestDocument, CreateBackup, StageRestore, CommitRow
<1>2. CASE SessionStep
  <2>1. CASE AllocateOperation(op)
    BY <2>1 DEF AllocateOperation, FreshOperations
  <2>2. CASE \E o \in Op \ {op} : AllocateOperation(o)
    BY <2>2 DEF AllocateOperation, TypeOK
  <2>3. CASE \/ SaveDatabasePreimage \/ PublishIntent
             \/ \E d \in Document : CaptureDocument(d)
    BY <2>3 DEF SaveDatabasePreimage, PublishIntent, CaptureDocument,
       SessionConsistent, Prepared, RestorePc, TypeOK
  <2>4. CASE WriteApplied \/ WriteRolledBack
    BY <2>4 DEF WriteApplied, WriteRolledBack, WriteReceipt, SessionConsistent,
       RestorePc, Prepared, TypeOK
  <2>5. CASE \/ ActivatePrepared \/ WriteDecision \/ Finalize
             \/ \E t \in Target : Install(t) \/ Undo(t)
    BY <2>5 DEF ActivatePrepared, WriteDecision, Finalize, Install, Undo
  <2>6. CASE RefuseStep
    BY <2>6, DiscardableIsPrepared DEF RefuseStep, Discard, TypeOK
  <2>7. QED
    BY <1>2, <2>1, <2>2, <2>3, <2>4, <2>5, <2>6 DEF SessionStep
<1>3. CASE Environment
  <2>1. CASE FailStep
    BY <2>1, DiscardableIsPrepared DEF FailStep, Discard, DiscardPartly, TypeOK
  <2>2. CASE ~FailStep
    BY <1>3, <2>2 DEF Environment, Crash, EditDocument, DisturbTarget, RepairTarget
  <2>3. QED
    BY <2>1, <2>2
<1>4. CASE BeginRecovery \/ \E p \in Plan : AdmitRestore(p)
  BY <1>4 DEF BeginRecovery, BeginRollback, BeginFinalize, AdmitRestore
<1>5. CASE UNCHANGED vars
  BY <1>5 DEF vars
<1>6. QED
  BY <1>1, <1>2, <1>3, <1>4, <1>5 DEF Next

(* So an image that is witnessed stays witnessed. *)
LEMMA WitnessedStays ==
    ASSUME Inductive, [Next]_vars, NEW image, Witnessed(image)
    PROVE  Witnessed(image)'
BY AppliedEvidenceIsFinal DEF Witnessed, Witness

(* The runtime commits rows beside a plan's status, or a status other than
   APPLIED: no plan becomes applied there. *)
LEMMA RuntimeAppliesNothing ==
    ASSUME Inductive, Runtime, NEW p \in Plan, live'[DB].plans[p] = "APPLIED"
    PROVE  live[DB].plans[p] = "APPLIED"
<1>1. live \in [Target -> Image] /\ live[DB] \in DbImage
  BY DEF Inductive, TypeOK, ImageOf
<1>2. CASE \/ AcquireRuntime \/ ReleaseRuntime
           \/ \E d \in Document, image \in DocImage : IngestDocument(d, image)
  BY <1>1, <1>2 DEF AcquireRuntime, ReleaseRuntime, IngestDocument
<1>3. CASE \/ \E c \in Claim : RecordClaim(c)
           \/ ChangeAuthority \/ OweCleanup \/ ConfirmCleanup
  BY <1>1, <1>3 DEF RecordClaim, ChangeAuthority, OweCleanup, ConfirmCleanup, CommitRow, DbImage
<1>4. CASE \/ \E q \in Plan : CreateBackup(q)
           \/ \E q \in Plan, c \in (SUBSET Category) \ {{}} : StageRestore(q, c)
  BY <1>1, <1>4 DEF CreateBackup, StageRestore, CommitRow, DbImage
<1>5. QED
  BY <1>2, <1>3, <1>4 DEF Runtime

(* No step calls a plan applied that no receipt witnesses: not in the live
   database, not in the before-image behind the guard, not in an archive. *)
LEMMA ReceiptsWitnessStep ==
    ASSUME Inductive, ReceiptsWitness, [Next]_vars
    PROVE  ReceiptsWitness'
<1> USE DEF ReceiptsWitness, Blocked
<1>1. CASE Runtime
  <2>1. guard = NoOp /\ guard' = NoOp
    BY <1>1, ClearSteps DEF Runtime, AcquireRuntime, ReleaseRuntime, RecordClaim,
       ChangeAuthority, OweCleanup, ConfirmCleanup, IngestDocument, CreateBackup,
       StageRestore, CommitRow
  <2>2. Witnessed(live[DB])'
    BY <2>1, <1>1, RuntimeAppliesNothing, WitnessedStays DEF Witnessed
  <2>3. ASSUME NEW p \in Plan, backups'[p] # NoBackup
        PROVE  backups'[p] = backups[p] \/ backups'[p].db = live[DB]
    BY <1>1, <2>3 DEF Runtime, AcquireRuntime, ReleaseRuntime, RecordClaim,
       ChangeAuthority, OweCleanup, ConfirmCleanup, IngestDocument, CreateBackup,
       StageRestore, CommitRow, Inductive, TypeOK
  <2>4. \A p \in Plan : backups'[p] # NoBackup => Witnessed(backups[p].db)'
    BY <2>1, <2>3, WitnessedStays
  <2>5. QED
    BY <2>1, <2>2, <2>4
<1>2. \A p \in Plan : backups'[p] # NoBackup => Witnessed(backups[p].db)'
  <2>1. CASE Runtime
    BY <1>1, <2>1
  <2>2. CASE ~Runtime
    <3>1. backups' = backups
      BY <2>2 DEF Next, vars, AdmitRestore, SessionStep, AllocateOperation,
         SaveDatabasePreimage, CaptureDocument, PublishIntent, ActivatePrepared, Install,
         WriteApplied, WriteDecision, Undo, WriteRolledBack, WriteReceipt, Finalize,
         RefuseStep, BeginRecovery, BeginRollback, BeginFinalize, Environment, FailStep,
         Crash, EditDocument, DisturbTarget, RepairTarget
    <3>2. QED
      BY <3>1, WitnessedStays
  <2>3. QED
    BY <2>1, <2>2
<1>3. CASE ActivatePrepared
  <2>1. guard = NoOp /\ guard' = cur /\ live[DB] = before[cur][DB] /\ before' = before
    BY <1>3 DEF ActivatePrepared, StillBefore, Inductive, SessionConsistent, Prepared
  <2>2. Witnessed(live[DB])'
    BY <2>1, WitnessedStays, <1>3 DEF ActivatePrepared
  <2>3. Witnessed(before[guard][DB])'
    BY <2>1, WitnessedStays
  <2>4. QED
    BY <1>2, <2>1, <2>2, <2>3, <1>3
<1>4. CASE Finalize
  <2>1. /\ guard \in Op /\ guard = cur /\ DB \in intent[guard]
        /\ live' = live /\ guard' = NoOp /\ guard # NoOp
    BY <1>4 DEF Finalize, EndSession, Inductive, SessionConsistent, RestorePc,
       BlockedIsRecoverable
  <2>2. CASE receipt[guard] = "APPLIED"
    <3>1. live[DB] = after[guard][DB]
      BY <1>4, <2>1, <2>2 DEF Finalize, OnSide
    <3>2. \A p \in Plan : live[DB].plans[p] = "APPLIED" => Witness(guard, p)
      BY <2>2, <3>1 DEF Witness
    <3>3. Witnessed(live[DB])
      BY <2>1, <3>2 DEF Witnessed
    <3>4. Witnessed(live[DB])'
      BY <3>3, <2>1, WitnessedStays
    <3>5. QED
      BY <1>2, <2>1, <3>4
  <2>3. CASE receipt[guard] # "APPLIED"
    <3>1. live[DB] = before[guard][DB]
      BY <1>4, <2>1, <2>3 DEF Finalize, OnSide
    <3>2. Witnessed(live[DB])'
      BY <2>1, <3>1, WitnessedStays DEF Inductive, TypeOK
    <3>3. QED
      BY <1>2, <2>1, <3>2
  <2>4. QED
    BY <2>2, <2>3
<1>5. ASSUME ~Runtime, ~ActivatePrepared, ~Finalize
      PROVE  ReceiptsWitness'
  <2>1. guard' = guard
    BY <1>5 DEF Next, vars, AdmitRestore, SessionStep, AllocateOperation,
       SaveDatabasePreimage, CaptureDocument, PublishIntent, Install,
       WriteApplied, WriteDecision, Undo, WriteRolledBack, WriteReceipt,
       RefuseStep, BeginRecovery, BeginRollback, BeginFinalize, Environment, FailStep,
       Crash, EditDocument, DisturbTarget, RepairTarget
  <2>2. CASE guard = NoOp
    <3>1. live'[DB] = live[DB]
      BY <1>5, <2>2 DEF Next, vars, AdmitRestore, SessionStep, AllocateOperation,
         SaveDatabasePreimage, CaptureDocument, PublishIntent, Install,
         WriteApplied, WriteDecision, Undo, WriteRolledBack, WriteReceipt,
         RefuseStep, BeginRecovery, BeginRollback, BeginFinalize, Environment, FailStep,
         Crash, EditDocument, DisturbTarget, RepairTarget, Inductive, TypeOK,
         SessionConsistent, RestorePc
    <3>2. QED
      BY <1>2, <1>5, <2>1, <2>2, <3>1, WitnessedStays
  <2>3. CASE guard # NoOp
    <3>1. before'[guard] = before[guard]
      BY <2>1, <2>3, GuardedEvidence DEF KeepsEvidence, vars
    <3>2. QED
      BY <1>2, <1>5, <2>1, <2>3, <3>1, WitnessedStays
  <2>4. QED
    BY <2>2, <2>3
<1>6. QED
  BY <1>1, <1>3, <1>4, <1>5

(* A plan a reopened database calls applied was applied, whatever restores,
   rollbacks and crashes lie in between. *)
THEOREM AppliedMeansReceipt == Spec => []AppliedPlanHasReceipt
<1>1. Init => ReceiptsWitness
  BY DEF Init, ReceiptsWitness, Witnessed, Blocked
<1>2. Inductive /\ ReceiptsWitness /\ [Next]_vars => ReceiptsWitness'
  BY ReceiptsWitnessStep
<1>3. ReceiptsWitness => AppliedPlanHasReceipt
  BY DEF ReceiptsWitness, AppliedPlanHasReceipt, Witnessed, Witness
<1>4. QED
  BY <1>1, <1>2, <1>3, InductiveInvariant, PTL DEF Spec

-----------------------------------------------------------------------------
(* Refinement *)

(* A clear workspace is seen as it is, and nothing is pending in it. *)
LEMMA ClearView ==
    ASSUME ~Blocked
    PROVE  /\ VisibleWorkspace = [t \in Target |-> live[t]]
           /\ VisiblePhase = "open" /\ PendingBundle = << >>
BY DEF VisibleWorkspace, VisiblePhase, PendingBundle, Guarded

(* One file written outside the pending bundle is a Write of the abstract
   workspace. *)
LEMMA ViewWrite ==
    ASSUME Inductive, NEW t \in Target, ~Guarded(t), live'[t] \in Image,
           live' = [live EXCEPT ![t] = live'[t]],
           UNCHANGED <<guard, intent, before, after, receipt>>
    PROVE  Atomic!Write(t)
<1>1. UNCHANGED <<VisiblePhase, PendingBundle>>
  BY DEF VisiblePhase, PendingBundle, Blocked
<1>2. t \notin DOMAIN PendingBundle
  BY DEF PendingBundle, Guarded
<1>3. VisibleWorkspace' = [VisibleWorkspace EXCEPT ![t] = live'[t]]
  BY DEF VisibleWorkspace, Guarded, Blocked, Inductive, TypeOK
<1>4. QED
  BY <1>1, <1>2, <1>3 DEF Atomic!Write

(* Nothing the mapping reads changes: a stuttering step. *)
LEMMA ViewStutter ==
    ASSUME UNCHANGED <<live, guard, intent, before, after, receipt>>
    PROVE  UNCHANGED Atomic!vars
BY DEF Atomic!vars, VisibleWorkspace, VisiblePhase, PendingBundle, Guarded, Blocked

(* Without a guard only the live bytes are visible. *)
LEMMA ClearStutter ==
    ASSUME ~Blocked, UNCHANGED <<live, guard>>
    PROVE  UNCHANGED Atomic!vars
BY DEF Atomic!vars, VisibleWorkspace, VisiblePhase, PendingBundle, Guarded, Blocked

(* Publishing the guard begins the replacement of every prepared target. *)
LEMMA ActivateBegins ==
    ASSUME Inductive, ActivatePrepared
    PROVE  Atomic!Begin
<1>1. cur \in Op /\ ~Blocked /\ receipt[cur] = "none" /\ intent[cur] \subseteq Target
      /\ DB \in intent[cur]
  BY DEF Inductive, ActivatePrepared, SessionConsistent, RestorePc, Prepared, TypeOK
<1>2. Blocked' /\ guard' = cur
  BY <1>1, RestoreAssumption DEF ActivatePrepared, Blocked
<1>3. VisiblePhase = "open" /\ VisiblePhase' = "pending"
  BY <1>1, <1>2 DEF VisiblePhase, ActivatePrepared, evidence
<1>4. VisibleWorkspace' = VisibleWorkspace
  BY <1>1, <1>2 DEF VisibleWorkspace, Guarded, ActivatePrepared, StillBefore, evidence
<1>5. PendingBundle' = [t \in intent[cur] |-> after[cur][t]]
  BY <1>2 DEF PendingBundle, ActivatePrepared, evidence
<1>6. \A t \in intent[cur] : after[cur][t] \in Image
  BY <1>1 DEF Inductive, SessionConsistent, TypeOK, ActivatePrepared
<1>7. PendingBundle' \in Atomic!Bundles
  <2>1. PendingBundle' \in [intent[cur] -> Image]
    BY <1>5, <1>6
  <2>2. intent[cur] \in (SUBSET Target) \ {{}}
    BY <1>1
  <2>3. QED
    BY <2>1, <2>2 DEF Atomic!Bundles
<1>8. QED
  BY <1>3, <1>4, <1>7 DEF Atomic!Begin

(* Moving a guarded target between its two images is invisible. *)
LEMMA GuardedWriteIsInvisible ==
    ASSUME Inductive, NEW t \in Target, Install(t) \/ Undo(t)
    PROVE  UNCHANGED Atomic!vars
<1>1. Blocked /\ cur = guard /\ t \in intent[guard]
  BY GuardedSession DEF Install, Undo, IsNext, Inductive, SessionConsistent
<1>2. UNCHANGED <<guard, intent, before, after, receipt>>
  BY DEF Install, Undo, evidence
<1>3. \A u \in Target \ {t} : live'[u] = live[u]
  BY DEF Install, Undo, Inductive, TypeOK
<1>4. QED
  BY <1>1, <1>2, <1>3 DEF Atomic!vars, VisibleWorkspace, VisiblePhase, PendingBundle,
     Guarded, Blocked

(* The applied receipt commits the bundle, the other one abandons it. *)
LEMMA ReceiptDecides ==
    ASSUME Inductive, WriteApplied \/ WriteRolledBack
    PROVE  Atomic!Commit \/ Atomic!Abandon
<1>1. Blocked /\ cur = guard /\ cur \in Op /\ receipt[guard] = "none"
  BY GuardedSession DEF WriteApplied, WriteRolledBack, Inductive, SessionConsistent
<1>2. UNCHANGED <<live, guard, intent, before, after>>
  BY DEF WriteApplied, WriteRolledBack, WriteReceipt
<1>3. receipt'[guard] = IF WriteApplied THEN "APPLIED" ELSE "ROLLED_BACK"
  BY <1>1 DEF WriteApplied, WriteRolledBack, WriteReceipt, Inductive, TypeOK
<1>4. VisiblePhase = "pending" /\ VisiblePhase' = "decided"
  BY <1>1, <1>2, <1>3 DEF VisiblePhase, Blocked
<1>5. UNCHANGED PendingBundle
  BY <1>2 DEF PendingBundle, Blocked
<1>6. CASE WriteApplied
  <2>1. VisibleWorkspace' = [t \in Target |-> IF t \in intent[guard] THEN after[guard][t]
                                                                  ELSE live[t]]
    BY <1>1, <1>2, <1>3, <1>6 DEF VisibleWorkspace, Guarded, Blocked
  <2>2. VisibleWorkspace' = [t \in Target |-> IF t \in DOMAIN PendingBundle
                                              THEN PendingBundle[t]
                                              ELSE VisibleWorkspace[t]]
    BY <1>1, <2>1 DEF VisibleWorkspace, PendingBundle, Guarded
  <2>3. QED
    BY <1>4, <1>5, <2>2 DEF Atomic!Commit
<1>7. CASE ~WriteApplied
  <2>1. UNCHANGED VisibleWorkspace
    BY <1>1, <1>2, <1>3, <1>7 DEF VisibleWorkspace, Guarded, Blocked
  <2>2. QED
    BY <1>4, <1>5, <2>1 DEF Atomic!Abandon
<1>8. QED
  BY <1>6, <1>7

(* Clearing the guard reopens exactly the decided workspace. *)
LEMMA FinalizeReopens ==
    ASSUME Inductive, Finalize
    PROVE  Atomic!Reopen
<1>1. Blocked /\ cur = guard /\ cur \in Op /\ receipt[guard] # "none" /\ ~Blocked'
  BY GuardedSession DEF Finalize, Blocked
<1>2. VisiblePhase = "decided" /\ VisiblePhase' = "open" /\ PendingBundle' = << >>
  BY <1>1 DEF VisiblePhase, PendingBundle
<1>3. receipt[guard] \in {"APPLIED", "ROLLED_BACK"}
  BY <1>1 DEF Inductive, TypeOK
<1>4. VisibleWorkspace' = [t \in Target |-> live[t]]
  BY <1>1 DEF VisibleWorkspace, Guarded, Finalize
<1>5. VisibleWorkspace = [t \in Target |-> live[t]]
  BY <1>1, <1>3 DEF VisibleWorkspace, Guarded, Finalize, OnSide
<1>6. QED
  BY <1>2, <1>4, <1>5 DEF Atomic!Reopen, Atomic!NoBundle

(* The restore protocol implements the all-or-nothing replacement. *)
THEOREM RestoreIsAtomic == Spec => ImplementsAtomicRestore
<1>1. Init => Atomic!Init
  <2> SUFFICES ASSUME Init PROVE Atomic!Init
    OBVIOUS
  <2>1. ~Blocked /\ live \in [Target -> Image]
    BY InitInductive DEF Init, Blocked, Inductive, TypeOK
  <2>2. QED
    BY <2>1, ClearView DEF Atomic!Init, Atomic!NoBundle
<1>2. Inductive /\ [Next]_vars => [Atomic!Next]_(Atomic!vars)
  <2> SUFFICES ASSUME Inductive, Next PROVE [Atomic!Next]_(Atomic!vars)
    BY ViewStutter DEF vars, evidence
  <2>1. CASE Runtime
    <3>1. ~Blocked /\ live \in [Target -> Image] /\ live' \in [Target -> Image]
      BY <2>1, ClearSteps, NextInductive DEF Inductive, TypeOK
    <3>2. CASE AcquireRuntime \/ ReleaseRuntime
      BY <3>1, <3>2, ClearStutter DEF AcquireRuntime, ReleaseRuntime
    <3>3. CASE \E d \in Document, image \in DocImage : IngestDocument(d, image)
      <4>1. PICK d \in Document : /\ live' = [live EXCEPT ![d] = live'[d]]
                                 /\ UNCHANGED <<guard, intent, before, after, receipt>>
        BY <3>3, <3>1, TargetsDisjoint DEF IngestDocument, evidence
      <4>2. live'[d] \in Image /\ d \in Target /\ ~Guarded(d)
        BY <3>1, TargetsDisjoint DEF Guarded
      <4>3. QED
        BY <4>1, <4>2, ViewWrite DEF Atomic!Next
    <3>4. CASE \/ \E c \in Claim : RecordClaim(c)
               \/ ChangeAuthority \/ OweCleanup \/ ConfirmCleanup
               \/ \E p \in Plan : CreateBackup(p)
               \/ \E p \in Plan, c \in (SUBSET Category) \ {{}} : StageRestore(p, c)
      <4>1. /\ live' = [live EXCEPT ![DB] = live'[DB]]
            /\ UNCHANGED <<guard, intent, before, after, receipt>>
        BY <3>4, <3>1, TargetsDisjoint DEF RecordClaim, ChangeAuthority, OweCleanup,
           ConfirmCleanup, CreateBackup, StageRestore, CommitRow, evidence
      <4>2. live'[DB] \in Image /\ ~Guarded(DB)
        BY <3>1, TargetsDisjoint DEF Guarded
      <4>3. QED
        BY <4>1, <4>2, TargetsDisjoint, ViewWrite DEF Atomic!Next
    <3>5. QED
      BY <2>1, <3>2, <3>3, <3>4 DEF Runtime
  <2>2. CASE \E p \in Plan : AdmitRestore(p)
    BY <2>2, ViewStutter DEF AdmitRestore, evidence
  <2>3. CASE SessionStep
    <3>1. CASE \/ \E op \in Op : AllocateOperation(op)
               \/ SaveDatabasePreimage
               \/ \E d \in Document : CaptureDocument(d)
               \/ PublishIntent
      BY <3>1, PreparationIsClear, ClearStutter DEF AllocateOperation,
         SaveDatabasePreimage, CaptureDocument, PublishIntent, Prepared
    <3>2. CASE ActivatePrepared
      BY <3>2, ActivateBegins DEF Atomic!Next
    <3>3. CASE \E t \in Target : Install(t) \/ Undo(t)
      BY <3>3, GuardedWriteIsInvisible
    <3>4. CASE WriteApplied \/ WriteRolledBack
      BY <3>4, ReceiptDecides DEF Atomic!Next
    <3>5. CASE WriteDecision
      BY <3>5, ViewStutter DEF WriteDecision
    <3>6. CASE Finalize
      BY <3>6, FinalizeReopens DEF Atomic!Next
    <3>7. CASE RefuseStep
      BY <3>7, ViewStutter, ClearStutter DEF RefuseStep, Discardable, evidence
    <3>8. QED
      BY <2>3, <3>1, <3>2, <3>3, <3>4, <3>5, <3>6, <3>7 DEF SessionStep
  <2>4. CASE BeginRecovery
    BY <2>4, ViewStutter DEF BeginRecovery, BeginRollback, BeginFinalize, evidence
  <2>5. CASE Environment
    <3>1. CASE FailStep
      BY <3>1, ViewStutter, ClearStutter DEF FailStep, Discardable
    <3>2. CASE Crash
      BY <3>2, ViewStutter DEF Crash
    <3>3. CASE \E d \in Document, image \in DocState : EditDocument(d, image)
      <4>1. PICK d \in Document : /\ live' = [live EXCEPT ![d] = live'[d]]
                                 /\ ~Guarded(d)
                                 /\ UNCHANGED <<guard, intent, before, after, receipt>>
        BY <3>3, TargetsDisjoint DEF EditDocument, evidence, Inductive, TypeOK
      <4>2. live'[d] \in Image /\ d \in Target
        BY NextInductive, TargetsDisjoint DEF Inductive, TypeOK
      <4>3. QED
        BY <4>1, <4>2, ViewWrite DEF Atomic!Next
    <3>4. CASE \E t \in Target : DisturbTarget(t) \/ RepairTarget(t)
      BY <3>4, ViewStutter DEF DisturbTarget, RepairTarget, evidence
    <3>5. QED
      BY <2>5, <3>1, <3>2, <3>3, <3>4 DEF Environment
  <2>6. QED
    BY <2>1, <2>2, <2>3, <2>4, <2>5 DEF Next
<1>3. QED
  BY <1>1, <1>2, InductiveInvariant, PTL DEF Spec, Atomic!Spec, ImplementsAtomicRestore
=============================================================================
