----------------------- MODULE ApplicationPreparation -----------------------
(***************************************************************************)
(* An application before its submission: the claims, library and drafts of *)
(* CandidateKnowledge, the documents and the readiness review of           *)
(* JobReadiness and the fields of FieldAutomation, with the faults all of  *)
(* them share - a request that fails, a program that stops.  A behaviour   *)
(* works on one desk: the operations that touch the same rows interleave,  *)
(* those that do not are left to another behaviour.                        *)
(***************************************************************************)
EXTENDS JobReadiness, FieldAutomation

CONSTANTS
    Desks,           \* the desks of the instance
    Imported,        \* documents imported before the posting is reviewed
    Served,          \* claims that are locked and indexed before answers are written
    SavedAnswers     \* values of the drafts that were reviewed before fields are bound

ASSUME DesksAssumption ==
    /\ Served \subseteq Claims
    /\ Imported \subseteq Documents /\ \A d \in Imported : ClaimsOf[d] \subseteq Served
    /\ DOMAIN SavedAnswers \subseteq Drafts
    /\ SavedAnswers \in [DOMAIN SavedAnswers -> Text]

VARIABLE desk      \* "claims", "answers", "documents", "readiness" or "fields"

vars == <<knowledgeVars, documentVars, readinessVars, fieldVars, desk>>

At(d) == desk = d /\ desk' = desk

TypeOK ==
    /\ desk \in Desks
    /\ claims \in [Claims -> Claim]
    /\ \A c \in Claims : chunks[c] \in ClaimChunk \cup {NoChunk}
    /\ \A a \in Library : /\ library[a] \in Entry \cup {NoAnswer}
                          /\ chunks[a] \in AnswerChunk \cup {NoChunk}
    /\ drafts \in [Drafts -> Draft \cup {NoAnswer}]
    /\ files \in [Documents -> {"none", "stored", "lost"}]
    /\ documents \in [Documents -> Rows \cup {NoDocument}]
    /\ state \in 0..Len(States) /\ DOMAIN reviews = Kinds
    /\ session \in {"ACTIVE", "USER_TAKEOVER", "LOST"}
    /\ \A b \in bindings : b.draft \in Drafts /\ b.control \in Controls

Init ==
    /\ desk \in Desks
    /\ KnowledgeInit(IF desk \in {"claims", "answers", "readiness"} THEN Served ELSE {},
                     IF desk = "fields" THEN SavedAnswers ELSE [d \in {} |-> NoValue])
    /\ RequestsInit
    /\ DocumentsInit(IF desk = "readiness" THEN Imported ELSE {},
                     IF desk = "readiness" THEN "greenhouse-public" ELSE "manual")
    /\ ReadinessInit
    /\ FieldsInit

\* Claims are reviewed while the library that cites them is kept.
Reviewing ==
    /\ At("claims")
    /\ \E r \in Requests : \/ ReviewClaims(r) \/ KeepLibrary(r)
                           \/ Abandon(r, AnswerOps) /\ UNCHANGED <<claimVars, answerVars>>
    /\ UNCHANGED <<documentVars, readinessVars, fieldVars>>

\* Answers are drafted from the library, reviewed and promoted to it.
Answering ==
    /\ At("answers")
    /\ \E r \in Requests : \/ KeepLibrary(r) \/ KeepDrafts(r)
                           \/ Abandon(r, AnswerOps) /\ UNCHANGED <<claimVars, answerVars>>
    /\ UNCHANGED <<documentVars, readinessVars, fieldVars>>

\* Documents are imported, tailored, selected and captured.
Collecting ==
    /\ At("documents")
    /\ \E r \in Requests :
          \/ ReviewClaims(r) /\ UNCHANGED documentVars
          \/ KeepDocuments(r)
          \/ Abandon(r, DocumentOps \cup {"saveClaim", "indexClaim"})
             /\ UNCHANGED <<claimVars, answerVars, documentVars>>
    /\ UNCHANGED <<readinessVars, fieldVars>>

\* The posting is reviewed while claims change and files get lost.
Preparing ==
    /\ At("readiness")
    /\ \/ \E r \in Requests :
             \/ ReviewClaims(r) /\ UNCHANGED <<documentVars, readinessVars>>
             \/ ReviewReadiness(r)
             \/ Abandon(r, {"saveClaim", "indexClaim"})
                /\ UNCHANGED <<claimVars, answerVars, documentVars, readinessVars>>
       \/ (\E d \in Documents : LoseFile(d)) /\ UNCHANGED readinessVars
       \/ \E p \in Postings : ImportPosting(p)
    /\ UNCHANGED fieldVars

\* Reviewed answers are bound to fields and entered while the user works.
Filling ==
    /\ At("fields")
    /\ \/ \E r \in Requests :
             \/ KeepDrafts(r) /\ UNCHANGED fieldVars
             \/ FillFields(r)
             \/ Abandon(r, FieldOps \cup AnswerOps)
                /\ UNCHANGED <<claimVars, answerVars, fieldVars>>
       \/ PageMoves \/ CapturePage \/ TakeOver
    /\ UNCHANGED <<documentVars, readinessVars>>

\* The program stops; the browser and its session go with it.
Stop ==
    /\ Crash /\ desk' = desk
    /\ session' = "LOST"
    /\ UNCHANGED <<claimVars, answerVars, documentVars, readinessVars,
                   live, run, bindings, executions, filled>>

Next == Reviewing \/ Answering \/ Collecting \/ Preparing \/ Filling \/ Stop

Spec == Init /\ [][Next]_vars
=============================================================================
