------------------------- MODULE CandidateKnowledge -------------------------
(***************************************************************************)
(* CandidateKnowledgeService and CandidateKnowledgeRepository: the claims  *)
(* a user reviews, the retrieval chunks that serve them, the answer        *)
(* library and the answers drafted for one application.  A request runs in *)
(* a thread of its own: what it reads and what it commits are separate     *)
(* steps, and the program may stop between any two of them.                *)
(***************************************************************************)
EXTENDS FieldRules, ApiRequests, FiniteSetsExt

CONSTANTS
    Claims,        \* claims of the profile
    Library,       \* library answers
    Drafts,        \* answers of the application
    Values,        \* answers that users and models write
    UsesGiven,     \* the uses that users permit of a claim
    KeyOf,         \* the canonical key of a claim
    KindOf,        \* the kind of a draft ...
    RulesOf,       \* ... and its validation rules
    LimitOf,       \* the character limit of a draft
    MaxVersion,    \* bound on the reviews of a claim
    MaxRevision,   \* bound on the revisions of a draft ...
    MaxEdition,    \* ... and of a library answer
    NoChunk, NoAnswer, NoValue

ASSUME AnswersAssumption ==
    /\ KeyOf \in [Claims -> STRING]
    /\ UsesGiven \subseteq {"PROFILE_ONLY", "APPLICATIONS", "ANY"}
    /\ \A d \in Drafts : KindOf[d] \in AnswerKinds /\ RulesAllowed(KindOf[d], RulesOf[d])
    /\ Claims \cap Library = {}
    /\ Values \subseteq Text /\ LimitOf \in [Drafts -> Nat]

VARIABLES
    claims,      \* candidate_claims
    chunks,      \* retrieval_chunks, by the claim or the answer they serve
    library,     \* answer_library
    revisions,   \* answer_library_revisions
    drafts,      \* application_answers
    reviewed     \* what users saved of a draft: the revision, and the one they had seen

claimVars == <<claims, chunks>>
answerVars == <<library, revisions, drafts, reviewed>>
knowledgeVars == <<claims, chunks, library, revisions, drafts, reviewed, work>>

Uses == {"PROFILE_ONLY", "APPLICATIONS", "ANY"}
ForApplications == {"APPLICATIONS", "ANY"}
Statuses == {"ABSENT", "PROPOSED", "VERIFIED", "REJECTED"}

Claim == [status : Statuses, locked : BOOLEAN, use : Uses, version : 0..MaxVersion]
Entry == [revision : Nat, value : Text, evidence : SUBSET Claims, active : BOOLEAN]
Draft == [revision : Nat,
          status : {"NEEDS_REVIEW", "DRAFTED", "REVIEWED", "PROMOTED"},
          source : {"UNANSWERED", "LIBRARY_REUSE", "GOVERNED_AI", "USER_REVIEWED"},
          value : Text \cup {NoValue}, evidence : SUBSET Claims,
          promoted : Library \cup {NoAnswer}]
ClaimChunk == [version : 0..MaxVersion, use : Uses]
AnswerChunk == [revision : Nat, evidence : SUBSET Claims]

\* No row is mistaken for the absence of one.
ASSUME RowsAssumption == NoAnswer \notin Entry /\ NoAnswer \notin Draft

Locked(c) == claims[c].status = "VERIFIED" /\ claims[c].locked
AllLocked(evidence) == \A c \in evidence : Locked(c)

\* A claim as propose_claims writes it, and a claim not proposed yet.
Proposal == [status |-> "PROPOSED", locked |-> FALSE, use |-> "PROFILE_ONLY", version |-> 0]
Absent == [Proposal EXCEPT !.status = "ABSENT"]

\* A draft that was left unanswered and that a user has answered since.
SavedDraft(value) ==
    [revision |-> 2, status |-> "REVIEWED", source |-> "USER_REVIEWED", value |-> value,
     evidence |-> {}, promoted |-> NoAnswer]

\* `served`: the claims of documents imported before, reviewed and indexed;
\* `saved`: what users have saved of the drafts they reviewed.
KnowledgeInit(served, saved) ==
    /\ claims = [c \in Claims |->
                   IF c \in served
                   THEN [status |-> "VERIFIED", locked |-> TRUE, use |-> "APPLICATIONS", version |-> 1]
                   ELSE Absent]
    /\ chunks = [s \in Claims \cup Library |->
                   IF s \in served THEN [version |-> 1, use |-> "APPLICATIONS"] ELSE NoChunk]
    /\ library = [a \in Library |-> NoAnswer] /\ revisions = {}
    /\ drafts = [d \in Drafts |-> IF d \in DOMAIN saved THEN SavedDraft(saved[d]) ELSE NoAnswer]
    /\ reviewed = {[draft |-> d, revision |-> 2, seen |-> 1, basis |-> 1, value |-> saved[d]] :
                      d \in DOMAIN saved}

----------------------------------------------------------------------------
(* Claims: two commits, first the claim and then its retrieval chunk.      *)

Outcomes == {[status |-> "VERIFIED", locked |-> TRUE],
             [status |-> "VERIFIED", locked |-> FALSE],
             [status |-> "REJECTED", locked |-> FALSE]}

Conflicting(c) == \E other \in Claims \ {c} : KeyOf[other] = KeyOf[c] /\ Locked(other)

\* review_claim reads the claim and, to approve it, the claims of its key.
BeginReview(r, c, outcome, use) ==
    /\ claims[c].status # "ABSENT" /\ claims[c].version < MaxVersion
    /\ outcome.status = "VERIFIED" => ~Conflicting(c)
    /\ Begin(r, [op |-> "saveClaim", claim |-> c, outcome |-> outcome, use |-> use])
    /\ UNCHANGED <<claimVars, answerVars>>

\* save_claim: the row is written whole, whatever it holds by now.
SaveClaim(r) ==
    /\ Doing(r, "saveClaim")
    /\ LET c == work[r].claim
           saved == [status |-> work[r].outcome.status, locked |-> work[r].outcome.locked,
                     use |-> work[r].use, version |-> claims[c].version + 1]
       IN /\ claims[c].version < MaxVersion
          /\ claims' = [claims EXCEPT ![c] = saved]
          /\ work' = [work EXCEPT ![r] = [op |-> "indexClaim", claim |-> c, saved |-> saved]]
    /\ UNCHANGED <<chunks, answerVars>>

\* upsert_chunk or delete_chunk, by what this request saved.
IndexClaim(r) ==
    /\ Doing(r, "indexClaim")
    /\ LET saved == work[r].saved IN
       chunks' = [chunks EXCEPT ![work[r].claim] =
                    IF saved.status = "VERIFIED" /\ saved.locked
                    THEN [version |-> saved.version, use |-> saved.use]
                    ELSE NoChunk]
    /\ Finish(r)
    /\ UNCHANGED <<claims, answerVars>>

----------------------------------------------------------------------------
(* The answer library.                                                     *)

\* The chunk an answer is served by: none unless it is approved and locked.
ServedAs(entry) ==
    IF entry.active THEN [revision |-> entry.revision, evidence |-> entry.evidence] ELSE NoChunk

Row(a, entry, seen) == [answer |-> a, entry |-> entry, seen |-> seen]

\* Mutant of Store: an answer that is no longer active keeps its chunk.
StoreKeepingChunk(a, entry, seen) ==
    /\ library' = [library EXCEPT ![a] = entry]
    /\ revisions' = revisions \cup {Row(a, entry, seen)}
    /\ chunks' = IF entry.active THEN [chunks EXCEPT ![a] = ServedAs(entry)] ELSE chunks

\* The answer, its revision row and its chunk, in one commit.
Store(a, entry, seen) ==
    /\ library' = [library EXCEPT ![a] = entry]
    /\ revisions' = revisions \cup {Row(a, entry, seen)}
    /\ chunks' = [chunks EXCEPT ![a] = ServedAs(entry)]

\* add_answer validates the evidence.
BeginAdd(r, a, value, evidence, active) ==
    /\ library[a] = NoAnswer
    /\ AllLocked(evidence)
    /\ Begin(r, [op |-> "addAnswer", answer |-> a,
                 entry |-> [revision |-> 1, value |-> value, evidence |-> evidence,
                            active |-> active]])
    /\ UNCHANGED <<claimVars, answerVars>>

AddAnswer(r) ==
    /\ Doing(r, "addAnswer")
    /\ library[work[r].answer] = NoAnswer
    /\ Store(work[r].answer, work[r].entry, 0)
    /\ Finish(r)
    /\ UNCHANGED <<claims, drafts, reviewed>>

\* update_answer reads the answer at the revision its user has seen.
BeginUpdate(r, a, value, evidence, active) ==
    /\ library[a] # NoAnswer /\ library[a].revision < MaxEdition
    /\ AllLocked(evidence)
    /\ Begin(r, [op |-> "updateAnswer", answer |-> a, seen |-> library[a].revision,
                 entry |-> [revision |-> library[a].revision + 1, value |-> value,
                            evidence |-> evidence, active |-> active]])
    /\ UNCHANGED <<claimVars, answerVars>>

\* UPDATE ... WHERE revision = expected, and the unique (answer, revision).
UpdateAnswer(r) ==
    /\ Doing(r, "updateAnswer")
    /\ LET a == work[r].answer IN
       /\ library[a].revision = work[r].seen
       /\ Store(a, work[r].entry, work[r].seen)
    /\ Finish(r)
    /\ UNCHANGED <<claims, drafts, reviewed>>

----------------------------------------------------------------------------
(* Answers drafted for the application.                                    *)

\* retrieve: what the index serves for applications, without a look at the
\* claims and the answers behind it.
ServedClaims == {c \in Claims : chunks[c] # NoChunk /\ chunks[c].use \in ForApplications}
ServedAnswers == {a \in Library : chunks[a] # NoChunk}

\* A reused answer is cut to the draft's limit before it is validated.
Clip(value, limit) ==
    IF value.length =< limit THEN value
    ELSE [form |-> value.form, word |-> "cut", amount |-> value.amount, length |-> limit,
          lines |-> value.lines, normal |-> FALSE]

Drafted(status, source, value, evidence) ==
    [revision |-> 1, status |-> status, source |-> source, value |-> value,
     evidence |-> evidence, promoted |-> NoAnswer]
Unanswered == Drafted("NEEDS_REVIEW", "UNANSWERED", NoValue, {})

\* The library answers that the draft can reuse.  An answer is served with
\* the text of the revision its chunk was made of.
ServedText(a) ==
    (CHOOSE row \in revisions : row.answer = a /\ row.entry.revision = chunks[a].revision).entry.value
Reusable(d) ==
    {a \in ServedAnswers : Accepts(KindOf[d], Clip(ServedText(a), LimitOf[d]), RulesOf[d])}

\* What draft_application_answer may come to: the reuse of a served answer;
\* or an answer of the model that cites claims it was given; or, when
\* nothing ranks, fits or answers, nothing.
DraftOutcomes(d) ==
    {Drafted("DRAFTED", "LIBRARY_REUSE",
             Canonical(KindOf[d], Clip(ServedText(a), LimitOf[d])), chunks[a].evidence) :
        a \in Reusable(d)}
    \cup {Drafted("NEEDS_REVIEW", "GOVERNED_AI", Canonical(KindOf[d], v), cited) :
             v \in {x \in {Clip(y, LimitOf[d]) : y \in Values} : Accepts(KindOf[d], x, RulesOf[d])},
             cited \in SUBSET ServedClaims \ {{}}}
    \cup {Unanswered}

BeginDraft(r, d) ==
    /\ drafts[d] = NoAnswer
    /\ \E outcome \in DraftOutcomes(d) :
          Begin(r, [op |-> "addDraft", draft |-> d, record |-> outcome])
    /\ UNCHANGED <<claimVars, answerVars>>

AddDraft(r) ==
    /\ Doing(r, "addDraft")
    /\ drafts[work[r].draft] = NoAnswer
    /\ drafts' = [drafts EXCEPT ![work[r].draft] = work[r].record]
    /\ Finish(r)
    /\ UNCHANGED <<claimVars, library, revisions, reviewed>>

\* review_application_answer: any status; the evidence and the type are
\* validated against what is read here.
BeginDraftReview(r, d, value, evidence) ==
    /\ drafts[d] # NoAnswer /\ drafts[d].revision < MaxRevision
    /\ AllLocked(evidence)
    /\ Accepts(KindOf[d], value, RulesOf[d]) /\ value.length =< LimitOf[d]
    /\ Begin(r, [op |-> "saveDraft", draft |-> d, seen |-> drafts[d].revision,
                 record |-> [revision |-> drafts[d].revision + 1, status |-> "REVIEWED",
                             source |-> "USER_REVIEWED", value |-> Canonical(KindOf[d], value),
                             evidence |-> evidence, promoted |-> drafts[d].promoted]])
    /\ UNCHANGED <<claimVars, answerVars>>

\* Mutant of StillAt: the row is updated by its identifier.
StillThere(d, revision) == drafts[d] # NoAnswer

\* UPDATE application_answers ... WHERE revision = expected.
StillAt(d, revision) == drafts[d].revision = revision

SaveDraft(r) ==
    /\ Doing(r, "saveDraft")
    /\ LET d == work[r].draft IN
       /\ StillAt(d, work[r].seen)
       /\ drafts' = [drafts EXCEPT ![d] = work[r].record]
       /\ reviewed' = reviewed \cup {[draft |-> d, revision |-> work[r].record.revision,
                                      seen |-> drafts[d].revision, basis |-> work[r].seen,
                                      value |-> work[r].record.value]}
    /\ Finish(r)
    /\ UNCHANGED <<claimVars, library, revisions>>

\* promote_application_answer: a reviewed draft becomes a library answer.
BeginPromotion(r, d, a) ==
    /\ drafts[d] # NoAnswer /\ drafts[d].status = "REVIEWED" /\ drafts[d].revision < MaxRevision
    /\ AllLocked(drafts[d].evidence)
    /\ library[a] = NoAnswer
    /\ Begin(r, [op |-> "promote", draft |-> d, answer |-> a, seen |-> drafts[d].revision,
                 entry |-> [revision |-> 1, value |-> drafts[d].value,
                            evidence |-> drafts[d].evidence, active |-> TRUE],
                 record |-> [revision |-> drafts[d].revision + 1, status |-> "PROMOTED",
                             source |-> drafts[d].source, value |-> drafts[d].value,
                             evidence |-> drafts[d].evidence, promoted |-> a]])
    /\ UNCHANGED <<claimVars, answerVars>>

Promote(r) ==
    /\ Doing(r, "promote")
    /\ LET d == work[r].draft IN
       /\ StillAt(d, work[r].seen)
       /\ library[work[r].answer] = NoAnswer
       /\ drafts' = [drafts EXCEPT ![d] = work[r].record]
       /\ Store(work[r].answer, work[r].entry, 0)
    /\ Finish(r)
    /\ UNCHANGED <<claims, reviewed>>

----------------------------------------------------------------------------
AnswerOps == {"saveClaim", "indexClaim", "addAnswer", "updateAnswer", "addDraft",
              "saveDraft", "promote"}

ReviewClaims(r) ==
    \/ \E c \in Claims, o \in Outcomes, u \in UsesGiven : BeginReview(r, c, o, u)
    \/ SaveClaim(r)
    \/ IndexClaim(r)

KeepLibrary(r) ==
    \/ \E a \in Library, v \in Values, e \in SUBSET Claims, on \in BOOLEAN :
          BeginAdd(r, a, v, e, on) \/ BeginUpdate(r, a, v, e, on)
    \/ AddAnswer(r) \/ UpdateAnswer(r)

KeepDrafts(r) ==
    \/ \E d \in Drafts : BeginDraft(r, d)
    \/ \E d \in Drafts, v \in Values, e \in SUBSET Claims : BeginDraftReview(r, d, v, e)
    \/ \E d \in Drafts, a \in Library : BeginPromotion(r, d, a)
    \/ AddDraft(r) \/ SaveDraft(r) \/ Promote(r)

----------------------------------------------------------------------------
(* Properties.                                                             *)

\* No review of a draft replaces a revision its author had not seen, and
\* what a draft holds once reviewed is what its last author saved: two
\* reviewers, a promotion and a draft still being written never mix.
NoReviewIsLost ==
    /\ \A saved \in reviewed : saved.seen = saved.basis /\ saved.revision = saved.basis + 1
    /\ \A one, two \in reviewed :
          one.draft = two.draft /\ one.revision = two.revision => one = two
    /\ \A d \in Drafts :
          drafts[d] # NoAnswer /\ drafts[d].source = "USER_REVIEWED" =>
             \E saved \in reviewed :
                /\ saved.draft = d /\ saved.value = drafts[d].value
                /\ saved.revision = IF drafts[d].status = "PROMOTED"
                                    THEN drafts[d].revision - 1 ELSE drafts[d].revision

\* The library's history is whole and the index follows it: every revision
\* of an answer has exactly one row, its author saw the one before, and the
\* answer is served, at its current revision, exactly while it is active.
LibraryFollowsItsHistory ==
    \A a \in Library :
       LET rows == {row \in revisions : row.answer = a} IN
       IF library[a] = NoAnswer THEN rows = {} /\ chunks[a] = NoChunk
       ELSE /\ {row.entry.revision : row \in rows} = 1..library[a].revision
            /\ Cardinality(rows) = library[a].revision
            /\ \A row \in rows : row.entry.revision = row.seen + 1
            /\ \E row \in rows : row.entry = library[a]
            /\ chunks[a] = IF library[a].active
                           THEN [revision |-> library[a].revision,
                                 evidence |-> library[a].evidence]
                           ELSE NoChunk
=============================================================================
