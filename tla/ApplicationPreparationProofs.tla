--------------------- MODULE ApplicationPreparationProofs ---------------------
(***************************************************************************)
(* What ApplicationPreparation promises of reviews, of the answer library, *)
(* of the fields that are filled, of documents and of the readiness review *)
(* holds for any number of requests, claims, answers, documents and fields *)
(* and for any bound on the revisions of each.                             *)
(***************************************************************************)
EXTENDS ApplicationPreparation, FiniteSetTheorems, TLAPS

-----------------------------------------------------------------------------
(* Knowledge: the invariant of the library and of the drafts.              *)

KnowledgeTypes ==
    /\ work = [r \in Requests |-> work[r]]
    /\ chunks = [s \in Claims \cup Library |-> chunks[s]]
    /\ library \in [Library -> Entry \cup {NoAnswer}]
    /\ revisions \subseteq [answer : Library, entry : Entry, seen : Nat]
    /\ drafts \in [Drafts -> Draft \cup {NoAnswer}]
    /\ reviewed \subseteq [draft : Drafts, revision : Nat, seen : Nat, basis : Nat,
                           value : Text \cup {NoValue}]

(* The history of one answer of the library. *)
History(a) == {row \in revisions : row.answer = a}

Whole(a) ==
    /\ IsFiniteSet(History(a))
    /\ {row.entry.revision : row \in History(a)} = 1..library[a].revision
    /\ Cardinality(History(a)) = library[a].revision
    /\ \A row \in History(a) : row.entry.revision = row.seen + 1
    /\ \E row \in History(a) : row.entry = library[a]
    /\ chunks[a] = ServedAs(library[a])

LibrarySound ==
    \A a \in Library :
       /\ library[a] = NoAnswer => History(a) = {} /\ chunks[a] = NoChunk
       /\ library[a] # NoAnswer => Whole(a)

(* What the rows of the drafts say of each other. *)
DraftsSound ==
    /\ \A saved \in reviewed :
          /\ saved.seen = saved.basis /\ saved.revision = saved.basis + 1
          /\ drafts[saved.draft] # NoAnswer /\ saved.revision =< drafts[saved.draft].revision
    /\ \A one, two \in reviewed :
          one.draft = two.draft /\ one.revision = two.revision => one = two
    /\ \A d \in Drafts :
          drafts[d] # NoAnswer =>
             /\ drafts[d].status \in {"REVIEWED", "PROMOTED"} =>
                   drafts[d].source = "USER_REVIEWED" /\ drafts[d].value \in Text
             /\ drafts[d].source = "USER_REVIEWED" =>
                   \E saved \in reviewed :
                      /\ saved.draft = d /\ saved.value = drafts[d].value
                      /\ saved.revision = IF drafts[d].status = "PROMOTED"
                                          THEN drafts[d].revision - 1 ELSE drafts[d].revision

(* What a request may count on between its reads and its commit. *)
Writes(w) == w.draft \in Drafts /\ w.record \in Draft

Overtaken(w) ==
    /\ drafts[w.draft] # NoAnswer /\ w.seen \in Nat /\ w.seen =< drafts[w.draft].revision
    /\ w.record.revision = w.seen + 1

KnowledgeRequest(w) ==
    /\ w.op \in {"saveClaim", "indexClaim"} => w.claim \in Claims
    /\ w.op \in {"addAnswer", "updateAnswer", "promote"} =>
          w.answer \in Library /\ w.entry \in Entry
    /\ w.op \in {"addAnswer", "promote"} => w.entry.revision = 1
    /\ w.op = "updateAnswer" =>
          library[w.answer] # NoAnswer /\ w.seen \in Nat /\ w.entry.revision = w.seen + 1
    /\ w.op \in {"addDraft", "saveDraft", "promote"} => Writes(w)
    /\ w.op = "addDraft" =>
          /\ w.record.revision = 1 /\ w.record.source # "USER_REVIEWED"
          /\ w.record.status \notin {"REVIEWED", "PROMOTED"}
    /\ w.op = "saveDraft" =>
          /\ Overtaken(w)
          /\ w.record.status = "REVIEWED" /\ w.record.source = "USER_REVIEWED"
          /\ w.record.value \in Text
    /\ w.op = "promote" =>
          /\ Overtaken(w)
          /\ w.record.status = "PROMOTED"
          /\ drafts[w.draft].revision = w.seen =>
                /\ drafts[w.draft].status = "REVIEWED"
                /\ w.record.value = drafts[w.draft].value
                /\ w.record.source = drafts[w.draft].source

RequestsSound == \A r \in Requests : work[r] # Idle => KnowledgeRequest(work[r])

KnowledgeInv == KnowledgeTypes /\ LibrarySound /\ DraftsSound /\ RequestsSound

KnowledgeOps == {"saveClaim", "indexClaim", "addAnswer", "updateAnswer", "addDraft", "saveDraft",
                 "promote"}

LEMMA OtherOperations ==
    ASSUME NEW w, w.op \notin KnowledgeOps
    PROVE  KnowledgeRequest(w)
BY DEF KnowledgeOps, KnowledgeRequest

(* One request goes on, and the rows it leaves alone stay sound. *)
LEMMA RequestGoesOn ==
    ASSUME KnowledgeInv, NEW r \in Requests, NEW w,
           work' = [work EXCEPT ![r] = w], w # Idle => KnowledgeRequest(w),
           UNCHANGED <<library, revisions, drafts, reviewed>>,
           chunks' = [s \in Claims \cup Library |-> chunks'[s]],
           \A a \in Library : chunks'[a] = chunks[a]
    PROVE  KnowledgeInv'
<1> USE DEF KnowledgeInv
<1>1. KnowledgeTypes'
  BY DEF KnowledgeTypes
<1>2. LibrarySound'
  BY DEF LibrarySound, Whole, History, ServedAs
<1>3. DraftsSound'
  BY DEF DraftsSound
<1>4. \A v : KnowledgeRequest(v)' <=> KnowledgeRequest(v)
  BY DEF KnowledgeRequest, Writes, Overtaken
<1>5. RequestsSound'
  <2> SUFFICES ASSUME NEW s \in Requests, work'[s] # Idle PROVE KnowledgeRequest(work'[s])
    BY <1>4 DEF RequestsSound, KnowledgeRequest, Writes, Overtaken
  <2> QED BY DEF RequestsSound, KnowledgeTypes
<1> QED BY <1>1, <1>2, <1>3, <1>5

(* The same when the row of a request is written. *)
LEMMA RequestCommits ==
    ASSUME KnowledgeInv, NEW r \in Requests,
           work' = [work EXCEPT ![r] = Idle],
           KnowledgeTypes', LibrarySound', DraftsSound',
           \A v : KnowledgeRequest(v) => KnowledgeRequest(v)'
    PROVE  KnowledgeInv'
<1> USE DEF KnowledgeInv
<1>1. ASSUME NEW s \in Requests, work'[s] # Idle PROVE KnowledgeRequest(work[s])'
  <2>1. work'[s] = work[s] /\ KnowledgeRequest(work[s])
    BY <1>1 DEF RequestsSound, KnowledgeTypes
  <2>2. PICK v : v = work[s] /\ v = work'[s]
    BY <2>1
  <2>3. KnowledgeRequest(v)'
    BY <2>1, <2>2
  <2> QED BY <2>2, <2>3 DEF KnowledgeRequest, Writes, Overtaken
<1> QED BY <1>1 DEF RequestsSound

LEMMA ValuesAreText ==
    ASSUME NEW kind, NEW value \in Text, NEW limit \in Nat
    PROVE  Canonical(kind, value) \in Text /\ Clip(value, limit) \in Text
<1>1. /\ [value EXCEPT !.normal = TRUE] \in Text
      /\ [value EXCEPT !.word = "Yes"] \in Text
      /\ [value EXCEPT !.word = "No"] \in Text
  BY WordsAssumption DEF Text
<1>2. Clip(value, limit) \in Text
  BY WordsAssumption DEF Clip, Text
<1>3. CASE kind = "YES_NO"
  BY <1>1, <1>2, <1>3 DEF Canonical
<1>4. CASE kind # "YES_NO"
  BY <1>1, <1>2, <1>4 DEF Canonical
<1> QED BY <1>3, <1>4

(* The claims. *)
LEMMA ClaimReviewBegins ==
    ASSUME KnowledgeInv, NEW r \in Requests, NEW c \in Claims, NEW o, NEW u,
           BeginReview(r, c, o, u)
    PROVE  KnowledgeInv'
<1> DEFINE w == [op |-> "saveClaim", claim |-> c, outcome |-> o, use |-> u]
<1>1. KnowledgeRequest(w)
  BY DEF KnowledgeRequest
<1>2. work' = [work EXCEPT ![r] = w]
  BY DEF BeginReview, Begin
<1> HIDE DEF w
<1> QED
  BY <1>1, <1>2, RequestGoesOn DEF BeginReview, claimVars, answerVars, KnowledgeInv, KnowledgeTypes

LEMMA ClaimSaves ==
    ASSUME KnowledgeInv, NEW r \in Requests, SaveClaim(r)
    PROVE  KnowledgeInv'
<1>1. PICK c, saved : /\ c = work[r].claim
                      /\ work' = [work EXCEPT ![r] = [op |-> "indexClaim", claim |-> c, saved |-> saved]]
  BY DEF SaveClaim
<1> DEFINE w == [op |-> "indexClaim", claim |-> c, saved |-> saved]
<1>2. KnowledgeRequest(w)
  BY <1>1 DEF KnowledgeRequest, SaveClaim, Doing, KnowledgeInv, RequestsSound
<1>3. work' = [work EXCEPT ![r] = w]
  BY <1>1
<1> HIDE DEF w
<1> QED
  BY <1>2, <1>3, RequestGoesOn DEF SaveClaim, answerVars, KnowledgeInv, KnowledgeTypes

LEMMA ClaimIsIndexed ==
    ASSUME KnowledgeInv, NEW r \in Requests, IndexClaim(r)
    PROVE  KnowledgeInv'
<1>1. work[r].claim \in Claims
  BY DEF IndexClaim, Doing, KnowledgeInv, RequestsSound, KnowledgeRequest
<1>2. /\ chunks' = [s \in Claims \cup Library |-> chunks'[s]]
      /\ \A a \in Library : chunks'[a] = chunks[a]
  BY <1>1, AnswersAssumption DEF IndexClaim, KnowledgeInv, KnowledgeTypes
<1> QED
  BY <1>2, RequestGoesOn DEF IndexClaim, Finish, answerVars

(* The library: a stored entry is the next revision of its history. *)
LEMMA LibraryStores ==
    ASSUME KnowledgeInv, NEW a \in Library, NEW entry \in Entry, NEW seen \in Nat,
           Store(a, entry, seen), entry.revision = seen + 1,
           IF library[a] = NoAnswer THEN seen = 0 ELSE seen = library[a].revision
    PROVE  /\ LibrarySound'
           /\ chunks' = [s \in Claims \cup Library |-> chunks'[s]]
           /\ library' \in [Library -> Entry \cup {NoAnswer}]
           /\ library'[a] # NoAnswer /\ \A b \in Library : library[b] # NoAnswer => library'[b] # NoAnswer
           /\ revisions' \subseteq [answer : Library, entry : Entry, seen : Nat]
<1> DEFINE new == Row(a, entry, seen)
<1>1. /\ library' = [library EXCEPT ![a] = entry]
      /\ revisions' = revisions \cup {new}
      /\ chunks' = [chunks EXCEPT ![a] = ServedAs(entry)]
  BY DEF Store
<1>2. new \in [answer : Library, entry : Entry, seen : Nat]
  BY DEF Row
<1>3. entry # NoAnswer
  BY RowsAssumption DEF Entry
<1>4. new.answer = a /\ new.entry = entry /\ new.seen = seen
  BY DEF Row
<1> HIDE DEF new
<1>5. /\ chunks' = [s \in Claims \cup Library |-> chunks'[s]]
      /\ library' \in [Library -> Entry \cup {NoAnswer}]
      /\ library'[a] # NoAnswer /\ \A b \in Library : library[b] # NoAnswer => library'[b] # NoAnswer
      /\ revisions' \subseteq [answer : Library, entry : Entry, seen : Nat]
  BY <1>1, <1>2, <1>3 DEF KnowledgeInv, KnowledgeTypes
<1>6. ASSUME NEW b \in Library, b # a
      PROVE  History(b)' = History(b) /\ library'[b] = library[b] /\ chunks'[b] = chunks[b]
  BY <1>1, <1>4, <1>6 DEF History, KnowledgeInv, KnowledgeTypes
<1>7. History(a)' = History(a) \cup {new} /\ library'[a] = entry /\ chunks'[a] = ServedAs(entry)
  BY <1>1, <1>4 DEF History, KnowledgeInv, KnowledgeTypes
<1>8. /\ IsFiniteSet(History(a)) /\ Cardinality(History(a)) = seen
      /\ {row.entry.revision : row \in History(a)} = 1..seen
      /\ \A row \in History(a) : row.entry.revision = row.seen + 1
  <2>1. CASE library[a] = NoAnswer
    <3>1. History(a) = {} /\ seen = 0
      BY <2>1 DEF KnowledgeInv, LibrarySound
    <3>2. IsFiniteSet(History(a)) /\ Cardinality(History(a)) = 0
      BY <3>1, FS_EmptySet
    <3> QED BY <3>1, <3>2
  <2>2. CASE library[a] # NoAnswer
    BY <2>2 DEF KnowledgeInv, LibrarySound, Whole
  <2> QED BY <2>1, <2>2
<1>9. new \notin History(a)
  BY <1>4, <1>8
<1>10. IsFiniteSet(History(a)') /\ Cardinality(History(a)') = entry.revision
  BY <1>7, <1>8, <1>9, FS_AddElement
<1>11. {row.entry.revision : row \in History(a)'} = 1..entry.revision
  BY <1>4, <1>7, <1>8
<1>12. \A row \in History(a)' : row.entry.revision = row.seen + 1
  BY <1>4, <1>7, <1>8
<1>13. \E row \in History(a)' : row.entry = entry
  BY <1>4, <1>7
<1>14. Whole(a)'
  BY <1>7, <1>10, <1>11, <1>12, <1>13 DEF Whole, ServedAs
<1>15. ASSUME NEW b \in Library, b # a, library[b] # NoAnswer PROVE Whole(b)'
  BY <1>6, <1>15 DEF KnowledgeInv, LibrarySound, Whole
<1> QED
  BY <1>5, <1>6, <1>7, <1>14, <1>15 DEF KnowledgeInv, LibrarySound

LEMMA LibraryCommits ==
    ASSUME KnowledgeInv, NEW r \in Requests, NEW a \in Library, NEW entry \in Entry, NEW seen \in Nat,
           Store(a, entry, seen), entry.revision = seen + 1,
           IF library[a] = NoAnswer THEN seen = 0 ELSE seen = library[a].revision,
           Finish(r), UNCHANGED <<drafts, reviewed>>
    PROVE  KnowledgeInv'
<1>1. /\ LibrarySound'
      /\ chunks' = [s \in Claims \cup Library |-> chunks'[s]]
      /\ library' \in [Library -> Entry \cup {NoAnswer}]
      /\ \A b \in Library : library[b] # NoAnswer => library'[b] # NoAnswer
      /\ revisions' \subseteq [answer : Library, entry : Entry, seen : Nat]
  BY LibraryStores
<1>2. work' = [work EXCEPT ![r] = Idle]
  BY DEF Finish
<1>3. KnowledgeTypes'
  BY <1>1, <1>2 DEF KnowledgeInv, KnowledgeTypes
<1>4. DraftsSound'
  BY DEF KnowledgeInv, DraftsSound
<1>5. ASSUME NEW v, KnowledgeRequest(v) PROVE KnowledgeRequest(v)'
  BY <1>1, <1>5 DEF KnowledgeRequest, Writes, Overtaken
<1> QED BY <1>1, <1>2, <1>3, <1>4, <1>5, RequestCommits

LEMMA AnswerBegins ==
    ASSUME KnowledgeInv, NEW r \in Requests, NEW a \in Library, NEW v \in Values,
           NEW e \in SUBSET Claims, NEW on \in BOOLEAN,
           BeginAdd(r, a, v, e, on) \/ BeginUpdate(r, a, v, e, on)
    PROVE  KnowledgeInv'
<1>1. v \in Text
  BY AnswersAssumption
<1>2. CASE BeginAdd(r, a, v, e, on)
  <2> DEFINE w == [op |-> "addAnswer", answer |-> a,
                   entry |-> [revision |-> 1, value |-> v, evidence |-> e, active |-> on]]
  <2>1. KnowledgeRequest(w)
    BY <1>1 DEF KnowledgeRequest, Entry
  <2>2. work' = [work EXCEPT ![r] = w]
    BY <1>2 DEF BeginAdd, Begin
  <2> HIDE DEF w
  <2> QED
    BY <1>2, <2>1, <2>2, RequestGoesOn
       DEF BeginAdd, claimVars, answerVars, KnowledgeInv, KnowledgeTypes
<1>3. CASE BeginUpdate(r, a, v, e, on)
  <2> DEFINE w == [op |-> "updateAnswer", answer |-> a, seen |-> library[a].revision,
                   entry |-> [revision |-> library[a].revision + 1, value |-> v,
                              evidence |-> e, active |-> on]]
  <2>1. library[a] # NoAnswer /\ library[a].revision \in Nat
    BY <1>3 DEF BeginUpdate, KnowledgeInv, KnowledgeTypes, Entry
  <2>2. KnowledgeRequest(w)
    BY <1>1, <2>1 DEF KnowledgeRequest, Entry
  <2>3. work' = [work EXCEPT ![r] = w]
    BY <1>3 DEF BeginUpdate, Begin
  <2> HIDE DEF w
  <2> QED
    BY <1>3, <2>2, <2>3, RequestGoesOn
       DEF BeginUpdate, claimVars, answerVars, KnowledgeInv, KnowledgeTypes
<1> QED BY <1>2, <1>3

LEMMA AnswerIsAdded ==
    ASSUME KnowledgeInv, NEW r \in Requests, AddAnswer(r)
    PROVE  KnowledgeInv'
<1>1. PICK w : w = work[r]
  OBVIOUS
<1>2. w # Idle /\ w.op = "addAnswer" /\ KnowledgeRequest(w)
  BY <1>1 DEF AddAnswer, Doing, KnowledgeInv, RequestsSound
<1>3. w.answer \in Library /\ w.entry \in Entry /\ w.entry.revision = 1
  BY <1>2 DEF KnowledgeRequest
<1> QED
  BY <1>1, <1>3, LibraryCommits DEF AddAnswer

LEMMA AnswerIsUpdated ==
    ASSUME KnowledgeInv, NEW r \in Requests, UpdateAnswer(r)
    PROVE  KnowledgeInv'
<1>1. PICK w : w = work[r]
  OBVIOUS
<1>2. w # Idle /\ w.op = "updateAnswer" /\ KnowledgeRequest(w)
  BY <1>1 DEF UpdateAnswer, Doing, KnowledgeInv, RequestsSound
<1>3. /\ w.answer \in Library /\ w.entry \in Entry /\ library[w.answer] # NoAnswer
      /\ w.seen \in Nat /\ w.entry.revision = w.seen + 1
  BY <1>2 DEF KnowledgeRequest
<1> QED
  BY <1>1, <1>3, LibraryCommits DEF UpdateAnswer

LEMMA LibraryIsKept ==
    ASSUME KnowledgeInv, NEW r \in Requests, KeepLibrary(r)
    PROVE  KnowledgeInv'
BY AnswerBegins, AnswerIsAdded, AnswerIsUpdated DEF KeepLibrary

LEMMA ClaimsAreReviewed ==
    ASSUME KnowledgeInv, NEW r \in Requests, ReviewClaims(r)
    PROVE  KnowledgeInv'
BY ClaimReviewBegins, ClaimSaves, ClaimIsIndexed DEF ReviewClaims

(* The drafts.  What the index serves is a text of the library. *)
LEMMA ServedIsText ==
    ASSUME KnowledgeInv, NEW a \in ServedAnswers
    PROVE  ServedText(a) \in Text /\ chunks[a].evidence \in SUBSET Claims
<1>1. a \in Library /\ chunks[a] # NoChunk
  BY DEF ServedAnswers
<1>2. library[a] # NoAnswer /\ library[a] \in Entry /\ Whole(a)
  BY <1>1 DEF KnowledgeInv, KnowledgeTypes, LibrarySound
<1>3. chunks[a] = [revision |-> library[a].revision, evidence |-> library[a].evidence]
  BY <1>1, <1>2 DEF Whole, ServedAs
<1>4. \E row \in revisions : row.answer = a /\ row.entry.revision = chunks[a].revision
  BY <1>2, <1>3 DEF Whole, History
<1>5. PICK row \in revisions :
         row = CHOOSE x \in revisions : x.answer = a /\ x.entry.revision = chunks[a].revision
  BY <1>4
<1>6. row.entry \in Entry
  BY DEF KnowledgeInv, KnowledgeTypes
<1>7. ServedText(a) = row.entry.value
  BY <1>5 DEF ServedText
<1> QED BY <1>2, <1>3, <1>6, <1>7 DEF Entry

(* A draft no user has reviewed. *)
Fresh(record) ==
    /\ record \in Draft /\ record.revision = 1 /\ record.source # "USER_REVIEWED"
    /\ record.status \notin {"REVIEWED", "PROMOTED"}

LEMMA DraftedIsFresh ==
    ASSUME NEW value \in Text \cup {NoValue}, NEW evidence \in SUBSET Claims
    PROVE  /\ Fresh(Drafted("DRAFTED", "LIBRARY_REUSE", value, evidence))
           /\ Fresh(Drafted("NEEDS_REVIEW", "GOVERNED_AI", value, evidence))
           /\ Fresh(Drafted("NEEDS_REVIEW", "UNANSWERED", value, evidence))
BY DEF Fresh, Drafted, Draft

LEMMA OutcomesAreFresh ==
    ASSUME KnowledgeInv, NEW d \in Drafts, NEW outcome \in DraftOutcomes(d)
    PROVE  Fresh(outcome)
<1>1. LimitOf[d] \in Nat
  BY AnswersAssumption
<1>2. CASE \E a \in Reusable(d) :
              outcome = Drafted("DRAFTED", "LIBRARY_REUSE",
                                Canonical(KindOf[d], Clip(ServedText(a), LimitOf[d])),
                                chunks[a].evidence)
  <2>1. PICK a \in Reusable(d) :
              outcome = Drafted("DRAFTED", "LIBRARY_REUSE",
                                Canonical(KindOf[d], Clip(ServedText(a), LimitOf[d])),
                                chunks[a].evidence)
    BY <1>2
  <2>2. ServedText(a) \in Text /\ chunks[a].evidence \in SUBSET Claims
    BY ServedIsText DEF Reusable
  <2>3. Clip(ServedText(a), LimitOf[d]) \in Text
    BY <1>1, <2>2, ValuesAreText
  <2>4. Canonical(KindOf[d], Clip(ServedText(a), LimitOf[d])) \in Text
    BY <1>1, <2>3, ValuesAreText
  <2> QED BY <2>1, <2>2, <2>4, DraftedIsFresh
<1>3. CASE \E v \in {x \in {Clip(y, LimitOf[d]) : y \in Values} : Accepts(KindOf[d], x, RulesOf[d])},
              cited \in SUBSET ServedClaims :
              outcome = Drafted("NEEDS_REVIEW", "GOVERNED_AI", Canonical(KindOf[d], v), cited)
  <2>1. PICK y \in Values, cited \in SUBSET ServedClaims :
              outcome = Drafted("NEEDS_REVIEW", "GOVERNED_AI",
                                Canonical(KindOf[d], Clip(y, LimitOf[d])), cited)
    BY <1>3
  <2>2. y \in Text /\ cited \in SUBSET Claims
    BY AnswersAssumption DEF ServedClaims
  <2>3. Clip(y, LimitOf[d]) \in Text
    BY <1>1, <2>2, ValuesAreText
  <2>4. Canonical(KindOf[d], Clip(y, LimitOf[d])) \in Text
    BY <1>1, <2>3, ValuesAreText
  <2> QED BY <2>1, <2>2, <2>4, DraftedIsFresh
<1>4. CASE outcome = Unanswered
  BY <1>4, DraftedIsFresh DEF Unanswered
<1> QED BY <1>2, <1>3, <1>4 DEF DraftOutcomes

LEMMA DraftBegins ==
    ASSUME KnowledgeInv, NEW r \in Requests, NEW d \in Drafts, BeginDraft(r, d)
    PROVE  KnowledgeInv'
<1>1. PICK outcome \in DraftOutcomes(d) :
         work' = [work EXCEPT ![r] = [op |-> "addDraft", draft |-> d, record |-> outcome]]
  BY DEF BeginDraft, Begin
<1> DEFINE w == [op |-> "addDraft", draft |-> d, record |-> outcome]
<1>2. KnowledgeRequest(w)
  BY OutcomesAreFresh DEF KnowledgeRequest, Writes, Fresh
<1>3. work' = [work EXCEPT ![r] = w]
  BY <1>1
<1> HIDE DEF w
<1> QED
  BY <1>2, <1>3, RequestGoesOn DEF BeginDraft, claimVars, answerVars, KnowledgeInv, KnowledgeTypes

LEMMA DraftReviewBegins ==
    ASSUME KnowledgeInv, NEW r \in Requests, NEW d \in Drafts, NEW v \in Values,
           NEW e \in SUBSET Claims, BeginDraftReview(r, d, v, e)
    PROVE  KnowledgeInv'
<1> DEFINE x == [revision |-> drafts[d].revision + 1, status |-> "REVIEWED",
                 source |-> "USER_REVIEWED", value |-> Canonical(KindOf[d], v),
                 evidence |-> e, promoted |-> drafts[d].promoted]
           w == [op |-> "saveDraft", draft |-> d, seen |-> drafts[d].revision, record |-> x]
<1>1. v \in Text
  BY AnswersAssumption
<1>2. Canonical(KindOf[d], v) \in Text
  BY <1>1, ValuesAreText
<1>3. drafts[d] # NoAnswer /\ drafts[d] \in Draft
  BY DEF BeginDraftReview, KnowledgeInv, KnowledgeTypes
<1>4. x \in Draft /\ drafts[d].revision \in Nat
  BY <1>2, <1>3 DEF Draft
<1>5. KnowledgeRequest(w)
  BY <1>2, <1>3, <1>4 DEF KnowledgeRequest, Writes, Overtaken
<1>6. work' = [work EXCEPT ![r] = w]
  BY DEF BeginDraftReview, Begin
<1> HIDE DEF w
<1> QED
  BY <1>5, <1>6, RequestGoesOn
     DEF BeginDraftReview, claimVars, answerVars, KnowledgeInv, KnowledgeTypes

LEMMA PromotionBegins ==
    ASSUME KnowledgeInv, NEW r \in Requests, NEW d \in Drafts, NEW a \in Library,
           BeginPromotion(r, d, a)
    PROVE  KnowledgeInv'
<1> DEFINE x == [revision |-> drafts[d].revision + 1, status |-> "PROMOTED",
                 source |-> drafts[d].source, value |-> drafts[d].value,
                 evidence |-> drafts[d].evidence, promoted |-> a]
           y == [revision |-> 1, value |-> drafts[d].value, evidence |-> drafts[d].evidence,
                 active |-> TRUE]
           w == [op |-> "promote", draft |-> d, answer |-> a, seen |-> drafts[d].revision,
                 entry |-> y, record |-> x]
<1>1. /\ drafts[d] # NoAnswer /\ drafts[d] \in Draft /\ drafts[d].status = "REVIEWED"
      /\ drafts[d].value \in Text
  BY DEF BeginPromotion, KnowledgeInv, KnowledgeTypes, DraftsSound
<1>2. x \in Draft /\ y \in Entry /\ drafts[d].revision \in Nat
  BY <1>1 DEF Draft, Entry
<1>3. KnowledgeRequest(w)
  BY <1>1, <1>2 DEF KnowledgeRequest, Writes, Overtaken
<1>4. work' = [work EXCEPT ![r] = w]
  BY DEF BeginPromotion, Begin
<1> HIDE DEF w
<1> QED
  BY <1>3, <1>4, RequestGoesOn
     DEF BeginPromotion, claimVars, answerVars, KnowledgeInv, KnowledgeTypes

(* A draft's row is written: no request takes the new revision for the one *)
(* it read.                                                                *)
LEMMA RequestsOutliveDrafts ==
    ASSUME KnowledgeInv, NEW d \in Drafts, NEW x \in Draft,
           drafts' = [drafts EXCEPT ![d] = x],
           drafts[d] # NoAnswer => x.revision = drafts[d].revision + 1,
           \A b \in Library : library[b] # NoAnswer => library'[b] # NoAnswer,
           NEW v, KnowledgeRequest(v)
    PROVE  KnowledgeRequest(v)'
<1>1. x # NoAnswer
  BY RowsAssumption
<1>2. \A e \in Drafts : e # d => drafts'[e] = drafts[e]
  BY DEF KnowledgeInv, KnowledgeTypes
<1>3. drafts'[d] = x
  BY DEF KnowledgeInv, KnowledgeTypes
<1>4. drafts[d] # NoAnswer => drafts[d].revision \in Nat
  BY DEF KnowledgeInv, KnowledgeTypes, Draft
<1>5. ASSUME v.draft \in Drafts, Overtaken(v)
      PROVE  /\ Overtaken(v)'
             /\ drafts'[v.draft].revision = v.seen => drafts'[v.draft] = drafts[v.draft]
  <2>1. CASE v.draft = d
    BY <1>1, <1>3, <1>4, <1>5, <2>1 DEF Overtaken
  <2>2. CASE v.draft # d
    BY <1>2, <1>5, <2>2 DEF Overtaken
  <2> QED BY <2>1, <2>2
<1>6. v.op = "saveDraft" => KnowledgeRequest(v)'
  BY <1>5 DEF KnowledgeRequest, Writes
<1>7. v.op = "promote" => KnowledgeRequest(v)'
  BY <1>5 DEF KnowledgeRequest, Writes
<1>8. v.op \notin {"saveDraft", "promote"} => KnowledgeRequest(v)'
  BY DEF KnowledgeRequest, Writes
<1> QED BY <1>6, <1>7, <1>8

LEMMA DraftIsAdded ==
    ASSUME KnowledgeInv, NEW r \in Requests, AddDraft(r)
    PROVE  KnowledgeInv'
<1>1. PICK w : w = work[r]
  OBVIOUS
<1>2. w # Idle /\ w.op = "addDraft" /\ KnowledgeRequest(w)
  BY <1>1 DEF AddDraft, Doing, KnowledgeInv, RequestsSound
<1>3. PICK d \in Drafts, x \in Draft : d = w.draft /\ x = w.record
  BY <1>2 DEF KnowledgeRequest, Writes
<1>4. x.source # "USER_REVIEWED" /\ x.status \notin {"REVIEWED", "PROMOTED"}
  BY <1>2, <1>3 DEF KnowledgeRequest
<1>5. /\ drafts[d] = NoAnswer /\ drafts' = [drafts EXCEPT ![d] = x]
      /\ work' = [work EXCEPT ![r] = Idle]
      /\ UNCHANGED <<chunks, library, revisions, reviewed>>
  BY <1>1, <1>3 DEF AddDraft, Finish, claimVars
<1>6. KnowledgeTypes'
  BY <1>5 DEF KnowledgeInv, KnowledgeTypes
<1>7. LibrarySound'
  BY <1>5 DEF KnowledgeInv, LibrarySound, Whole, History, ServedAs
<1>8. \A e \in Drafts : drafts'[e] = IF e = d THEN x ELSE drafts[e]
  BY <1>5 DEF KnowledgeInv, KnowledgeTypes
<1>9. \A saved \in reviewed : saved.draft \in Drafts /\ saved.draft # d
  BY <1>5 DEF KnowledgeInv, KnowledgeTypes, DraftsSound
<1>10. DraftsSound'
  BY <1>4, <1>5, <1>8, <1>9 DEF KnowledgeInv, DraftsSound
<1>11. ASSUME NEW v, KnowledgeRequest(v) PROVE KnowledgeRequest(v)'
  BY <1>5, <1>11, RequestsOutliveDrafts
<1> QED BY <1>5, <1>6, <1>7, <1>10, <1>11, RequestCommits

LEMMA DraftIsSaved ==
    ASSUME KnowledgeInv, NEW r \in Requests, SaveDraft(r)
    PROVE  KnowledgeInv'
<1>1. PICK w : w = work[r]
  OBVIOUS
<1>2. w # Idle /\ w.op = "saveDraft" /\ KnowledgeRequest(w)
  BY <1>1 DEF SaveDraft, Doing, KnowledgeInv, RequestsSound
<1>3. PICK d \in Drafts, x \in Draft : d = w.draft /\ x = w.record
  BY <1>2 DEF KnowledgeRequest, Writes
<1>4. /\ x.source = "USER_REVIEWED" /\ x.status = "REVIEWED" /\ x.value \in Text
      /\ drafts[d] # NoAnswer /\ x.revision = w.seen + 1 /\ w.seen \in Nat
  BY <1>2, <1>3 DEF KnowledgeRequest, Overtaken
<1> DEFINE new == [draft |-> d, revision |-> x.revision, seen |-> drafts[d].revision,
                   basis |-> w.seen, value |-> x.value]
<1>5. /\ drafts[d].revision = w.seen /\ drafts' = [drafts EXCEPT ![d] = x]
      /\ reviewed' = reviewed \cup {new}
      /\ work' = [work EXCEPT ![r] = Idle]
      /\ UNCHANGED <<chunks, library, revisions>>
  BY <1>1, <1>3 DEF SaveDraft, StillAt, Finish, claimVars
<1>6. new \in [draft : Drafts, revision : Nat, seen : Nat, basis : Nat, value : Text \cup {NoValue}]
  BY <1>4, <1>5
<1>7. /\ new.draft = d /\ new.revision = w.seen + 1 /\ new.seen = w.seen /\ new.basis = w.seen
      /\ new.value = x.value
  BY <1>4, <1>5
<1> HIDE DEF new
<1>8. KnowledgeTypes'
  BY <1>5, <1>6 DEF KnowledgeInv, KnowledgeTypes
<1>9. LibrarySound'
  BY <1>5 DEF KnowledgeInv, LibrarySound, Whole, History, ServedAs
<1>10. \A e \in Drafts : drafts'[e] = IF e = d THEN x ELSE drafts[e]
  BY <1>5 DEF KnowledgeInv, KnowledgeTypes
<1>11. x # NoAnswer
  BY RowsAssumption
<1>12. \A saved \in reviewed :
         /\ saved.draft \in Drafts /\ saved.revision \in Nat /\ saved.seen = saved.basis
         /\ saved.revision = saved.basis + 1
         /\ drafts[saved.draft] # NoAnswer /\ saved.revision =< drafts[saved.draft].revision
  BY DEF KnowledgeInv, KnowledgeTypes, DraftsSound
<1>13. \A saved \in reviewed' :
         /\ saved.seen = saved.basis /\ saved.revision = saved.basis + 1
         /\ drafts'[saved.draft] # NoAnswer /\ saved.revision =< drafts'[saved.draft].revision
  BY <1>4, <1>5, <1>7, <1>10, <1>11, <1>12
<1>14. \A saved \in reviewed : saved.draft = d => saved.revision # new.revision
  BY <1>4, <1>5, <1>7, <1>12
<1>15. \A one, two \in reviewed' :
          one.draft = two.draft /\ one.revision = two.revision => one = two
  BY <1>5, <1>7, <1>14 DEF KnowledgeInv, DraftsSound
<1>16. ASSUME NEW e \in Drafts, drafts'[e] # NoAnswer
       PROVE  /\ drafts'[e].status \in {"REVIEWED", "PROMOTED"} =>
                   drafts'[e].source = "USER_REVIEWED" /\ drafts'[e].value \in Text
              /\ drafts'[e].source = "USER_REVIEWED" =>
                   \E saved \in reviewed' :
                      /\ saved.draft = e /\ saved.value = drafts'[e].value
                      /\ saved.revision = IF drafts'[e].status = "PROMOTED"
                                          THEN drafts'[e].revision - 1 ELSE drafts'[e].revision
  <2>1. CASE e = d
    BY <1>4, <1>5, <1>7, <1>10, <2>1
  <2>2. CASE e # d
    BY <1>5, <1>10, <1>16, <2>2 DEF KnowledgeInv, DraftsSound
  <2> QED BY <2>1, <2>2
<1>17. DraftsSound'
  BY <1>13, <1>15, <1>16 DEF DraftsSound
<1>18. ASSUME NEW v, KnowledgeRequest(v) PROVE KnowledgeRequest(v)'
  BY <1>4, <1>5, <1>18, RequestsOutliveDrafts
<1> QED BY <1>5, <1>8, <1>9, <1>17, <1>18, RequestCommits

LEMMA DraftIsPromoted ==
    ASSUME KnowledgeInv, NEW r \in Requests, Promote(r)
    PROVE  KnowledgeInv'
<1>1. PICK w : w = work[r]
  OBVIOUS
<1>2. w # Idle /\ w.op = "promote" /\ KnowledgeRequest(w)
  BY <1>1 DEF Promote, Doing, KnowledgeInv, RequestsSound
<1>3. PICK d \in Drafts, x \in Draft, a \in Library, entry \in Entry :
         d = w.draft /\ x = w.record /\ a = w.answer /\ entry = w.entry /\ entry.revision = 1
  BY <1>2 DEF KnowledgeRequest, Writes
<1>4. /\ drafts[d] # NoAnswer /\ x.revision = w.seen + 1 /\ w.seen \in Nat
      /\ x.status = "PROMOTED"
  BY <1>2, <1>3 DEF KnowledgeRequest, Overtaken
<1>5. /\ drafts[d].revision = w.seen /\ drafts' = [drafts EXCEPT ![d] = x]
      /\ work' = [work EXCEPT ![r] = Idle]
      /\ library[a] = NoAnswer /\ Store(a, entry, 0)
      /\ reviewed' = reviewed
  BY <1>1, <1>3 DEF Promote, StillAt, Finish
<1>6. drafts[d].status = "REVIEWED" /\ x.value = drafts[d].value /\ x.source = drafts[d].source
  BY <1>2, <1>3, <1>5 DEF KnowledgeRequest
<1>7. /\ LibrarySound'
      /\ chunks' = [s \in Claims \cup Library |-> chunks'[s]]
      /\ library' \in [Library -> Entry \cup {NoAnswer}]
      /\ \A b \in Library : library[b] # NoAnswer => library'[b] # NoAnswer
      /\ revisions' \subseteq [answer : Library, entry : Entry, seen : Nat]
  <2>1. 0 \in Nat /\ entry.revision = 0 + 1
    BY <1>3
  <2> QED BY <1>5, <2>1, LibraryStores
<1>8. KnowledgeTypes'
  BY <1>5, <1>7 DEF KnowledgeInv, KnowledgeTypes
<1>9. \A e \in Drafts : drafts'[e] = IF e = d THEN x ELSE drafts[e]
  BY <1>5 DEF KnowledgeInv, KnowledgeTypes
<1>10. x # NoAnswer
  BY RowsAssumption
<1>11. \A saved \in reviewed :
          /\ saved.draft \in Drafts /\ saved.revision \in Nat
          /\ saved.seen = saved.basis /\ saved.revision = saved.basis + 1
          /\ drafts'[saved.draft] # NoAnswer /\ saved.revision =< drafts'[saved.draft].revision
  BY <1>4, <1>5, <1>9, <1>10 DEF KnowledgeInv, KnowledgeTypes, DraftsSound
<1>12. ASSUME NEW e \in Drafts, drafts'[e] # NoAnswer
       PROVE  /\ drafts'[e].status \in {"REVIEWED", "PROMOTED"} =>
                   drafts'[e].source = "USER_REVIEWED" /\ drafts'[e].value \in Text
              /\ drafts'[e].source = "USER_REVIEWED" =>
                   \E saved \in reviewed' :
                      /\ saved.draft = e /\ saved.value = drafts'[e].value
                      /\ saved.revision = IF drafts'[e].status = "PROMOTED"
                                          THEN drafts'[e].revision - 1 ELSE drafts'[e].revision
  <2>1. CASE e = d
    <3>1. drafts[d].source = "USER_REVIEWED" /\ drafts[d].value \in Text
      BY <1>4, <1>6 DEF KnowledgeInv, DraftsSound
    <3>2. \E saved \in reviewed :
             saved.draft = d /\ saved.value = drafts[d].value /\ saved.revision = drafts[d].revision
      BY <1>4, <1>6, <3>1 DEF KnowledgeInv, DraftsSound
    <3> QED BY <1>4, <1>5, <1>6, <1>9, <2>1, <3>1, <3>2
  <2>2. CASE e # d
    BY <1>5, <1>9, <1>12, <2>2 DEF KnowledgeInv, DraftsSound
  <2> QED BY <2>1, <2>2
<1>13. DraftsSound'
  BY <1>5, <1>11, <1>12 DEF KnowledgeInv, DraftsSound
<1>14. ASSUME NEW v, KnowledgeRequest(v) PROVE KnowledgeRequest(v)'
  BY <1>4, <1>5, <1>7, <1>14, RequestsOutliveDrafts
<1> QED BY <1>5, <1>7, <1>8, <1>13, <1>14, RequestCommits

LEMMA DraftsAreKept ==
    ASSUME KnowledgeInv, NEW r \in Requests, KeepDrafts(r)
    PROVE  KnowledgeInv'
BY DraftBegins, DraftReviewBegins, PromotionBegins, DraftIsAdded, DraftIsSaved, DraftIsPromoted
   DEF KeepDrafts

(* The other desks leave the library and the drafts alone. *)
answerRows == <<chunks, library, revisions, drafts, reviewed>>

LEMMA OtherWork ==
    ASSUME KnowledgeInv, NEW r \in Requests, NEW w, work' = [work EXCEPT ![r] = w],
           w # Idle => w.op \notin KnowledgeOps, UNCHANGED answerRows
    PROVE  KnowledgeInv'
<1>1. w # Idle => KnowledgeRequest(w)
  BY OtherOperations
<1> QED
  BY <1>1, RequestGoesOn DEF answerRows, KnowledgeInv, KnowledgeTypes

LEMMA NoWork ==
    ASSUME KnowledgeInv, work' = work, UNCHANGED answerRows
    PROVE  KnowledgeInv'
<1> USE DEF answerRows
<1>1. KnowledgeTypes'
  BY DEF KnowledgeInv, KnowledgeTypes
<1>2. LibrarySound'
  BY DEF KnowledgeInv, LibrarySound, Whole, History, ServedAs
<1>3. DraftsSound'
  BY DEF KnowledgeInv, DraftsSound
<1>4. RequestsSound'
  BY DEF KnowledgeInv, RequestsSound, KnowledgeRequest, Writes, Overtaken
<1> QED BY <1>1, <1>2, <1>3, <1>4 DEF KnowledgeInv

LEMMA RequestEnds ==
    ASSUME KnowledgeInv, NEW r \in Requests, Finish(r), UNCHANGED answerRows
    PROVE  KnowledgeInv'
BY OtherWork DEF Finish

LEMMA ProgramStops ==
    ASSUME KnowledgeInv, Crash, UNCHANGED answerRows
    PROVE  KnowledgeInv'
<1> USE DEF answerRows
<1>1. work' = [r \in Requests |-> Idle]
  BY DEF Crash
<1>2. KnowledgeTypes'
  BY <1>1 DEF KnowledgeInv, KnowledgeTypes
<1>3. LibrarySound'
  BY DEF KnowledgeInv, LibrarySound, Whole, History, ServedAs
<1>4. DraftsSound'
  BY DEF KnowledgeInv, DraftsSound
<1>5. RequestsSound'
  BY <1>1 DEF RequestsSound
<1> QED BY <1>2, <1>3, <1>4, <1>5 DEF KnowledgeInv

(* A request goes on with an operation of its own desk, or ends. *)
Continues(r, ops) ==
    \E w : work' = [work EXCEPT ![r] = w] /\ (w # Idle => w.op \in ops)

LEMMA LibraryContinues ==
    ASSUME NEW r \in Requests, KeepLibrary(r)
    PROVE  Continues(r, {"addAnswer", "updateAnswer"})
<1> USE DEF Continues
<1>1. ASSUME NEW a \in Library, NEW v \in Values, NEW e \in SUBSET Claims, NEW on \in BOOLEAN,
             BeginAdd(r, a, v, e, on)
      PROVE  Continues(r, {"addAnswer"})
  <2> DEFINE w == [op |-> "addAnswer", answer |-> a,
                   entry |-> [revision |-> 1, value |-> v, evidence |-> e, active |-> on]]
  <2>1. w.op = "addAnswer" /\ work' = [work EXCEPT ![r] = w]
    BY <1>1 DEF BeginAdd, Begin
  <2> HIDE DEF w
  <2> QED BY <2>1
<1>2. ASSUME NEW a \in Library, NEW v \in Values, NEW e \in SUBSET Claims, NEW on \in BOOLEAN,
             BeginUpdate(r, a, v, e, on)
      PROVE  Continues(r, {"updateAnswer"})
  <2> DEFINE w == [op |-> "updateAnswer", answer |-> a, seen |-> library[a].revision,
                   entry |-> [revision |-> library[a].revision + 1, value |-> v,
                              evidence |-> e, active |-> on]]
  <2>1. w.op = "updateAnswer" /\ work' = [work EXCEPT ![r] = w]
    BY <1>2 DEF BeginUpdate, Begin
  <2> HIDE DEF w
  <2> QED BY <2>1
<1>3. AddAnswer(r) \/ UpdateAnswer(r) => work' = [work EXCEPT ![r] = Idle]
  BY DEF AddAnswer, UpdateAnswer, Finish
<1> QED BY <1>1, <1>2, <1>3 DEF KeepLibrary

LEMMA DraftsContinue ==
    ASSUME NEW r \in Requests, KeepDrafts(r)
    PROVE  Continues(r, {"addDraft", "saveDraft", "promote"})
<1> USE DEF Continues
<1>1. ASSUME NEW d \in Drafts, BeginDraft(r, d) PROVE Continues(r, {"addDraft"})
  <2>1. PICK record : work' = [work EXCEPT ![r] = [op |-> "addDraft", draft |-> d, record |-> record]]
    BY <1>1 DEF BeginDraft, Begin
  <2> DEFINE w == [op |-> "addDraft", draft |-> d, record |-> record]
  <2>2. w.op = "addDraft" /\ work' = [work EXCEPT ![r] = w]
    BY <2>1
  <2> HIDE DEF w
  <2> QED BY <2>2
<1>2. ASSUME NEW d \in Drafts, NEW v, NEW e, BeginDraftReview(r, d, v, e)
      PROVE  Continues(r, {"saveDraft"})
  <2>1. PICK seen, record :
          work' = [work EXCEPT ![r] = [op |-> "saveDraft", draft |-> d, seen |-> seen,
                                       record |-> record]]
    BY <1>2 DEF BeginDraftReview, Begin
  <2> DEFINE w == [op |-> "saveDraft", draft |-> d, seen |-> seen, record |-> record]
  <2>2. w.op = "saveDraft" /\ work' = [work EXCEPT ![r] = w]
    BY <2>1
  <2> HIDE DEF w
  <2> QED BY <2>2
<1>3. ASSUME NEW d \in Drafts, NEW a, BeginPromotion(r, d, a)
      PROVE  Continues(r, {"promote"})
  <2>1. PICK seen, entry, record :
          work' = [work EXCEPT ![r] = [op |-> "promote", draft |-> d, answer |-> a, seen |-> seen,
                                       entry |-> entry, record |-> record]]
    BY <1>3 DEF BeginPromotion, Begin
  <2> DEFINE w == [op |-> "promote", draft |-> d, answer |-> a, seen |-> seen, entry |-> entry,
                   record |-> record]
  <2>2. w.op = "promote" /\ work' = [work EXCEPT ![r] = w]
    BY <2>1
  <2> HIDE DEF w
  <2> QED BY <2>2
<1>4. AddDraft(r) \/ SaveDraft(r) \/ Promote(r) => work' = [work EXCEPT ![r] = Idle]
  BY DEF AddDraft, SaveDraft, Promote, Finish
<1> QED BY <1>1, <1>2, <1>3, <1>4 DEF KeepDrafts

LEMMA DocumentsContinue ==
    ASSUME NEW r \in Requests, KeepDocuments(r)
    PROVE  Continues(r, {"writeFile", "addBundle", "select", "capture"}) /\ UNCHANGED answerRows
<1> USE DEF Continues, answerRows, answerVars, claimVars
<1>1. ASSUME NEW d, NEW claimed, NEW row, NEW cited, NEW op \in {"writeFile", "addBundle"},
             work' = [work EXCEPT ![r] = [op |-> op, document |-> d, claims |-> claimed,
                                          row |-> row, cited |-> cited]]
      PROVE  Continues(r, {"writeFile", "addBundle"})
  <2> DEFINE w == [op |-> op, document |-> d, claims |-> claimed, row |-> row, cited |-> cited]
  <2>1. w.op = op /\ work' = [work EXCEPT ![r] = w]
    BY <1>1
  <2> HIDE DEF w
  <2> QED BY <2>1
<1>2. ASSUME NEW d \in Documents, NEW primary, BeginImport(r, d, primary)
      PROVE  Continues(r, {"writeFile", "addBundle"}) /\ UNCHANGED answerRows
  BY <1>1, <1>2 DEF BeginImport, Begin
<1>3. CASE WriteFile(r)
  BY <1>1, <1>3 DEF WriteFile, Goes
<1>4. ASSUME NEW d \in Documents, NEW k, NEW chosen, BeginTailoring(r, d, k, chosen)
      PROVE  Continues(r, {"writeFile", "addBundle"}) /\ UNCHANGED answerRows
  BY <1>1, <1>4 DEF BeginTailoring, Begin
<1>5. ASSUME NEW d \in Documents, BeginSelection(r, d)
      PROVE  Continues(r, {"select"}) /\ UNCHANGED answerRows
  <2> DEFINE w == [op |-> "select", document |-> d, view |-> SelectionView]
  <2>1. w.op = "select" /\ work' = [work EXCEPT ![r] = w] /\ UNCHANGED answerRows
    BY <1>5 DEF BeginSelection, Begin
  <2> HIDE DEF w
  <2> QED BY <2>1
<1>6. ASSUME NEW d \in Documents, NEW u, BeginCapture(r, d, u)
      PROVE  Continues(r, {"capture"}) /\ UNCHANGED answerRows
  <2> DEFINE w == [op |-> "capture", document |-> d, upload |-> u]
  <2>1. w.op = "capture" /\ work' = [work EXCEPT ![r] = w] /\ UNCHANGED answerRows
    BY <1>6 DEF BeginCapture, Begin
  <2> HIDE DEF w
  <2> QED BY <2>1
<1>7. ASSUME AddBundle(r) \/ BundleFails(r) \/ ApproveSelection(r) \/ AddCapture(r)
      PROVE  work' = [work EXCEPT ![r] = Idle] /\ UNCHANGED answerRows
  BY <1>7 DEF AddBundle, BundleFails, ApproveSelection, AddCapture, Finish
<1> QED BY <1>2, <1>3, <1>4, <1>5, <1>6, <1>7 DEF KeepDocuments

LEMMA ReadinessContinues ==
    ASSUME KnowledgeInv, NEW r \in Requests, ReviewReadiness(r)
    PROVE  Continues(r, {"approve"}) /\ UNCHANGED answerRows
<1> USE DEF Continues, answerRows, answerVars, claimVars
<1>1. ASSUME NEW kind, NEW input, NEW view, Hold(r, kind, input, view)
      PROVE  Continues(r, {"approve"}) /\ UNCHANGED answerRows
  <2> DEFINE w == [op |-> "approve", kind |-> kind, input |-> input, view |-> view]
  <2>1. w.op = "approve" /\ work' = [work EXCEPT ![r] = w] /\ UNCHANGED answerRows
    BY <1>1 DEF Hold, Begin
  <2> HIDE DEF w
  <2> QED BY <2>1
<1>2. CASE \/ ApproveRequirements(r) \/ ApproveQualification(r) \/ ApproveResume(r)
           \/ Refuse(r)
  <2>1. UNCHANGED answerRows /\ (Finish(r) \/ work' = work) /\ work[r].op = "approve"
    BY <1>2 DEF ApproveRequirements, ApproveQualification, ApproveResume, Refuse, Answered,
                Approving, Doing
  <2>2. work' = work => work' = [work EXCEPT ![r] = work[r]]
    BY DEF KnowledgeInv, KnowledgeTypes
  <2> QED BY <2>1, <2>2 DEF Finish
<1> QED
  BY <1>1, <1>2 DEF ReviewReadiness, PreviewRequirements, PreviewQualification, PreviewResume

LEMMA FieldsContinue ==
    ASSUME NEW r \in Requests, FillFields(r)
    PROVE  Continues(r, FieldOps) /\ UNCHANGED answerRows
<1> USE DEF Continues, FieldOps, answerRows, answerVars, claimVars
<1>1. ASSUME NEW op \in {"arm", "enter", "release"}, Onward(r, op)
      PROVE  Continues(r, FieldOps)
  <2> DEFINE w == [op |-> op, binding |-> work[r].binding, value |-> work[r].value]
  <2>1. w.op = op /\ work' = [work EXCEPT ![r] = w]
    BY <1>1 DEF Onward, Goes
  <2> HIDE DEF w
  <2> QED BY <2>1
<1>2. Finish(r) => Continues(r, FieldOps)
  BY DEF Finish
<1>3. ASSUME NEW d, NEW c, NEW p, BeginBinding(r, d, c, p)
      PROVE  Continues(r, FieldOps) /\ UNCHANGED answerRows
  <2>1. PICK binding : work' = [work EXCEPT ![r] = [op |-> "bind", binding |-> binding]]
    BY <1>3 DEF BeginBinding, Begin
  <2>2. UNCHANGED answerRows
    BY <1>3 DEF BeginBinding
  <2> DEFINE w == [op |-> "bind", binding |-> binding]
  <2>3. w.op = "bind" /\ work' = [work EXCEPT ![r] = w]
    BY <2>1
  <2> HIDE DEF w
  <2> QED BY <2>2, <2>3
<1>4. ASSUME NEW b, BeginExecution(r, b)
      PROVE  Continues(r, FieldOps) /\ UNCHANGED answerRows
  <2> DEFINE w == [op |-> "observe", binding |-> b, value |-> drafts[b.draft].value]
  <2>1. w.op = "observe" /\ work' = [work EXCEPT ![r] = w] /\ UNCHANGED answerRows
    BY <1>4 DEF BeginExecution, Begin
  <2> HIDE DEF w
  <2> QED BY <2>1
<1>5. CASE Enter(r)
  <2>1. UNCHANGED answerRows
    BY <1>5 DEF Enter
  <2>2. ASSUME NEW v \in BOOLEAN,
               Goes(r, [op |-> "record", binding |-> work[r].binding, value |-> work[r].value,
                        verified |-> v])
        PROVE  Continues(r, FieldOps)
    <3> DEFINE w == [op |-> "record", binding |-> work[r].binding, value |-> work[r].value,
                     verified |-> v]
    <3>1. w.op = "record" /\ work' = [work EXCEPT ![r] = w]
      BY <2>2 DEF Goes
    <3> HIDE DEF w
    <3> QED BY <3>1
  <2> QED BY <1>1, <1>5, <2>1, <2>2 DEF Enter
<1>6. CASE AddBinding(r) \/ Release(r)
  BY <1>2, <1>6 DEF AddBinding, Release
<1>7. CASE ObserveLive(r)
  <2>1. UNCHANGED answerRows
    BY <1>7 DEF ObserveLive
  <2>2. Finish(r) \/ Onward(r, "arm") \/ Onward(r, "release")
    BY <1>7 DEF ObserveLive
  <2> QED BY <1>1, <1>2, <2>1, <2>2
<1>8. CASE Arm(r)
  <2>1. UNCHANGED answerRows
    BY <1>8 DEF Arm
  <2>2. Onward(r, "enter") \/ Onward(r, "release")
    BY <1>8 DEF Arm
  <2> QED BY <1>1, <2>1, <2>2
<1>9. CASE RecordExecution(r)
  BY <1>1, <1>9 DEF RecordExecution
<1> QED BY <1>3, <1>4, <1>5, <1>6, <1>7, <1>8, <1>9 DEF FillFields

LEMMA OtherDesksKeepTheLibrary ==
    ASSUME KnowledgeInv, NEW r \in Requests,
           KeepDocuments(r) \/ ReviewReadiness(r) \/ FillFields(r)
    PROVE  KnowledgeInv'
<1>1. PICK w : work' = [work EXCEPT ![r] = w] /\ (w # Idle => w.op \notin KnowledgeOps)
  BY DocumentsContinue, ReadinessContinues, FieldsContinue DEF Continues, FieldOps, KnowledgeOps
<1>2. UNCHANGED answerRows
  BY DocumentsContinue, ReadinessContinues, FieldsContinue
<1> QED BY <1>1, <1>2, OtherWork

LEMMA KnowledgeStarts ==
    ASSUME Init
    PROVE  KnowledgeInv
<1>1. PICK served, saved :
        /\ KnowledgeInit(served, saved)
        /\ served \subseteq Claims /\ DOMAIN saved \subseteq Drafts
        /\ \A d \in DOMAIN saved : saved[d] \in Text
  <2>1. KnowledgeInit(IF desk \in {"claims", "answers", "readiness"} THEN Served ELSE {},
                      IF desk = "fields" THEN SavedAnswers ELSE [d \in {} |-> NoValue])
    BY DEF Init
  <2>2. DOMAIN [d \in {} |-> NoValue] = {}
    OBVIOUS
  <2> QED BY <2>1, <2>2, DesksAssumption
<1> USE DEF KnowledgeInit
<1>2. /\ library = [a \in Library |-> NoAnswer] /\ revisions = {}
      /\ \A a \in Library : chunks[a] = NoChunk
      /\ chunks = [s \in Claims \cup Library |-> chunks[s]]
  BY <1>1, AnswersAssumption
<1>3. LibrarySound
  BY <1>2 DEF LibrarySound, History
<1>4. \A d \in DOMAIN saved : /\ SavedDraft(saved[d]) \in Draft
                              /\ SavedDraft(saved[d]).revision = 2
                              /\ SavedDraft(saved[d]).status = "REVIEWED"
                              /\ SavedDraft(saved[d]).source = "USER_REVIEWED"
                              /\ SavedDraft(saved[d]).value = saved[d]
  BY <1>1 DEF SavedDraft, Draft
<1>5. \A d \in DOMAIN saved : drafts[d] = SavedDraft(saved[d]) /\ drafts[d] # NoAnswer
  BY <1>1, <1>4, RowsAssumption
<1>6. \A d \in Drafts : d \notin DOMAIN saved => drafts[d] = NoAnswer
  BY <1>1
<1>7. drafts \in [Drafts -> Draft \cup {NoAnswer}]
  BY <1>1, <1>4
<1>8. \A one \in reviewed :
         \E d \in DOMAIN saved : /\ one = [draft |-> d, revision |-> 2, seen |-> 1, basis |-> 1,
                                           value |-> saved[d]]
                                 /\ d \in Drafts /\ saved[d] \in Text
  BY <1>1
<1>9. \A d \in DOMAIN saved :
         [draft |-> d, revision |-> 2, seen |-> 1, basis |-> 1, value |-> saved[d]] \in reviewed
  BY <1>1
<1>10. KnowledgeTypes
  BY <1>2, <1>7, <1>8 DEF KnowledgeTypes, Init, RequestsInit
<1>11. DraftsSound
  <2>1. \A one \in reviewed :
          /\ one.seen = one.basis /\ one.revision = one.basis + 1
          /\ drafts[one.draft] # NoAnswer /\ one.revision =< drafts[one.draft].revision
    BY <1>4, <1>5, <1>8
  <2>2. \A one, two \in reviewed :
          one.draft = two.draft /\ one.revision = two.revision => one = two
    BY <1>8
  <2>3. ASSUME NEW d \in Drafts, drafts[d] # NoAnswer
        PROVE  /\ drafts[d].status \in {"REVIEWED", "PROMOTED"} =>
                   drafts[d].source = "USER_REVIEWED" /\ drafts[d].value \in Text
               /\ drafts[d].source = "USER_REVIEWED" =>
                   \E one \in reviewed :
                      /\ one.draft = d /\ one.value = drafts[d].value
                      /\ one.revision = IF drafts[d].status = "PROMOTED"
                                        THEN drafts[d].revision - 1 ELSE drafts[d].revision
    <3>1. d \in DOMAIN saved
      BY <1>6, <2>3
    <3> QED BY <1>1, <1>4, <1>5, <1>9, <3>1
  <2> QED BY <2>1, <2>2, <2>3 DEF DraftsSound
<1>12. RequestsSound
  BY DEF RequestsSound, Init, RequestsInit
<1> QED BY <1>3, <1>10, <1>11, <1>12 DEF KnowledgeInv

LEMMA KnowledgeStep ==
    ASSUME KnowledgeInv, [Next]_vars
    PROVE  KnowledgeInv'
<1> USE DEF answerRows, answerVars, claimVars
<1>1. CASE Reviewing
  BY <1>1, ClaimsAreReviewed, LibraryIsKept, RequestEnds DEF Reviewing, Abandon
<1>2. CASE Answering
  BY <1>2, LibraryIsKept, DraftsAreKept, RequestEnds DEF Answering, Abandon
<1>3. CASE Collecting
  BY <1>3, ClaimsAreReviewed, OtherDesksKeepTheLibrary, RequestEnds DEF Collecting, Abandon
<1>4. CASE Preparing
  <2>1. ASSUME \/ \E d \in Documents : LoseFile(d)
               \/ \E p \in Postings : ImportPosting(p)
        PROVE  KnowledgeInv'
    BY <2>1, NoWork DEF LoseFile, ImportPosting, evidenceVars, knowledgeVars
  <2> QED BY <1>4, <2>1, ClaimsAreReviewed, OtherDesksKeepTheLibrary, RequestEnds
          DEF Preparing, Abandon
<1>5. CASE Filling
  <2>1. CASE PageMoves \/ CapturePage \/ TakeOver
    BY <2>1, NoWork DEF PageMoves, CapturePage, TakeOver, knowledgeVars
  <2> QED BY <1>5, <2>1, DraftsAreKept, OtherDesksKeepTheLibrary, RequestEnds DEF Filling, Abandon
<1>6. CASE Stop
  BY <1>6, ProgramStops DEF Stop
<1>7. CASE UNCHANGED vars
  BY <1>7, NoWork DEF vars, knowledgeVars
<1> QED BY <1>1, <1>2, <1>3, <1>4, <1>5, <1>6, <1>7 DEF Next

(* Requests that read, wait and write as they like keep the library and the *)
(* drafts sound.                                                            *)
THEOREM KnowledgeStaysSound == Spec => []KnowledgeInv
<1>1. Init => KnowledgeInv
  BY KnowledgeStarts
<1>2. KnowledgeInv /\ [Next]_vars => KnowledgeInv'
  BY KnowledgeStep
<1> QED BY <1>1, <1>2, PTL DEF Spec

(* No review of a draft is lost: two reviewers, a promotion and a draft     *)
(* still being written never mix (update_application_answer,                *)
(* promote_application_answer).                                             *)
THEOREM ReviewsAreKept == Spec => []NoReviewIsLost
<1>1. KnowledgeInv => NoReviewIsLost
  BY DEF KnowledgeInv, DraftsSound, NoReviewIsLost
<1> QED BY <1>1, KnowledgeStaysSound, PTL

(* Every revision of an answer has one row and the index serves the current *)
(* one while it is active (add_answer, update_answer, promote).             *)
THEOREM LibraryIsWhole == Spec => []LibraryFollowsItsHistory
<1>1. KnowledgeInv => LibraryFollowsItsHistory
  BY DEF KnowledgeInv, LibrarySound, LibraryFollowsItsHistory, Whole, History, ServedAs
<1> QED BY <1>1, KnowledgeStaysSound, PTL

-----------------------------------------------------------------------------
(* Documents: the invariant of the files, the rows and the selection.      *)

DocumentTypes ==
    /\ documents \in [Documents -> Rows \cup {NoDocument}]
    /\ files \in [Documents -> {"none", "stored", "lost"}]
    /\ claims = [c \in Claims |-> claims[c]]

DocumentsSound ==
    /\ \A d \in Documents :
          documents[d] # NoDocument =>
             files[d] # "none" /\ \A c \in ClaimsOf[d] : claims[c].status # "ABSENT"
    /\ \A d, e \in Documents :
          /\ documents[d] # NoDocument /\ documents[d].kind = "RESUME" /\ documents[d].primary
          /\ documents[e] # NoDocument /\ documents[e].kind = "RESUME" /\ documents[e].primary
          => d = e

(* A request writes a file of its own before the rows that name it. *)
Bundles == {"writeFile", "addBundle"}

DocumentRequest(w) ==
    /\ w.op \in Bundles =>
          /\ w.document \in Documents /\ documents[w.document] = NoDocument
          /\ w.row \in Rows /\ w.claims = ClaimsOf[w.document]
    /\ w.op = "writeFile" => files[w.document] = "none"
    /\ w.op = "addBundle" => files[w.document] = "stored"
    /\ w.op = "saveClaim" => w.outcome \in Outcomes

OwnFiles ==
    \A r, s \in Requests :
       /\ work[r] # Idle /\ work[r].op \in Bundles
       /\ work[s] # Idle /\ work[s].op \in Bundles
       /\ work[r].document = work[s].document
       => r = s

DocumentRequests == \A r \in Requests : work[r] # Idle => DocumentRequest(work[r])

DocumentsInv ==
    /\ work = [r \in Requests |-> work[r]]
    /\ DocumentTypes /\ DocumentsSound /\ OwnFiles /\ DocumentRequests

(* The application's selection is the last one audited. *)
SelectionRequest(w) ==
    /\ w.op = "select" => w.document \in Documents
    /\ w.op = "approve" /\ w.kind = "SELECTION" => w.input \in Documents

SelectionInv ==
    /\ selections \in Seq(Documents)
    /\ selected = IF selections = <<>> THEN NoDocument ELSE selections[Len(selections)]
    /\ \A r \in Requests : work[r] # Idle => SelectionRequest(work[r])

(* One request goes on, and no other loses what it counts on. *)
LEMMA DocumentsGoOn ==
    ASSUME DocumentsInv, NEW r \in Requests, NEW w,
           work' = [work EXCEPT ![r] = w], DocumentTypes', DocumentsSound',
           w # Idle => DocumentRequest(w)',
           \A s \in Requests \ {r} :
              /\ w # Idle /\ w.op \in Bundles /\ work[s] # Idle /\ work[s].op \in Bundles
              => w.document # work[s].document,
           \A v : (\E s \in Requests \ {r} : v = work[s]) /\ v # Idle /\ DocumentRequest(v)
                     => DocumentRequest(v)'
    PROVE  DocumentsInv'
<1>1. \A s \in Requests : work'[s] = IF s = r THEN w ELSE work[s]
  BY DEF DocumentsInv
<1>2. work' = [s \in Requests |-> work'[s]]
  BY DEF DocumentsInv
<1>3. OwnFiles'
  BY <1>1 DEF DocumentsInv, OwnFiles
<1>4. ASSUME NEW s \in Requests, work'[s] # Idle PROVE DocumentRequest(work[s])'
  <2>1. PICK v : v = work'[s]
    OBVIOUS
  <2>2. DocumentRequest(v)'
    <3>1. CASE s = r
      BY <1>1, <1>4, <2>1, <3>1
    <3>2. CASE s # r
      <4>1. v = work[s] /\ v # Idle /\ DocumentRequest(v)
        BY <1>1, <1>4, <2>1, <3>2 DEF DocumentsInv, DocumentRequests
      <4> QED BY <3>2, <4>1
    <3> QED BY <3>1, <3>2
  <2> QED BY <2>1, <2>2 DEF DocumentRequest
<1> QED BY <1>2, <1>3, <1>4 DEF DocumentsInv, DocumentRequests

(* Where documents and files stay and no claim disappears. *)
LEMMA DocumentsStay ==
    ASSUME DocumentsInv, NEW r \in Requests, NEW w,
           work' = [work EXCEPT ![r] = w],
           w # Idle => w.op \notin Bundles /\ (w.op = "saveClaim" => w.outcome \in Outcomes),
           UNCHANGED <<documents, files>>, claims' = [c \in Claims |-> claims'[c]],
           \A c \in Claims : claims[c].status # "ABSENT" => claims'[c].status # "ABSENT"
    PROVE  DocumentsInv'
<1>1. DocumentTypes'
  BY DEF DocumentsInv, DocumentTypes
<1>2. DocumentsSound'
  BY DocumentsAssumption DEF DocumentsInv, DocumentsSound
<1>3. \A v : DocumentRequest(v) => DocumentRequest(v)'
  BY DEF DocumentRequest
<1>4. w # Idle => DocumentRequest(w)'
  BY DEF DocumentRequest, Bundles
<1> QED BY <1>1, <1>2, <1>3, <1>4, DocumentsGoOn

(* The requests of the other desks write no file and no claim. *)
LEMMA DocumentsRest ==
    ASSUME DocumentsInv, NEW r \in Requests, NEW ops, Continues(r, ops),
           ops \cap (Bundles \cup {"saveClaim"}) = {}, UNCHANGED <<documents, files, claims>>
    PROVE  DocumentsInv'
<1>1. PICK w : work' = [work EXCEPT ![r] = w] /\ (w # Idle => w.op \in ops)
  BY DEF Continues
<1>2. w # Idle => w.op \notin Bundles /\ w.op # "saveClaim"
  BY <1>1
<1> QED BY <1>1, <1>2, DocumentsStay DEF DocumentsInv, DocumentTypes

LEMMA ClaimsLeaveDocuments ==
    ASSUME DocumentsInv, NEW r \in Requests, ReviewClaims(r), UNCHANGED <<documents, files>>
    PROVE  DocumentsInv'
<1>1. ASSUME NEW c \in Claims, NEW o \in Outcomes, NEW u, BeginReview(r, c, o, u)
      PROVE  DocumentsInv'
  <2> DEFINE w == [op |-> "saveClaim", claim |-> c, outcome |-> o, use |-> u]
  <2>1. /\ work' = [work EXCEPT ![r] = w] /\ claims' = claims
        /\ w.op \notin Bundles /\ w.outcome \in Outcomes
    BY <1>1 DEF BeginReview, Begin, claimVars, Bundles
  <2> HIDE DEF w
  <2> QED BY <2>1, DocumentsStay DEF DocumentsInv, DocumentTypes
<1>2. CASE SaveClaim(r)
  <2>1. PICK c, saved : /\ c = work[r].claim /\ saved.status = work[r].outcome.status
                        /\ claims' = [claims EXCEPT ![c] = saved]
                        /\ work' = [work EXCEPT ![r] = [op |-> "indexClaim", claim |-> c, saved |-> saved]]
    BY <1>2 DEF SaveClaim
  <2>2. saved.status # "ABSENT"
    <3>1. work[r].outcome \in Outcomes
      BY <1>2 DEF SaveClaim, Doing, DocumentsInv, DocumentRequests, DocumentRequest
    <3> QED BY <2>1, <3>1 DEF Outcomes
  <2> DEFINE w == [op |-> "indexClaim", claim |-> c, saved |-> saved]
  <2>3. work' = [work EXCEPT ![r] = w] /\ w.op \notin Bundles /\ w.op # "saveClaim"
    BY <2>1 DEF Bundles
  <2>4. /\ claims' = [k \in Claims |-> claims'[k]]
        /\ \A k \in Claims : claims[k].status # "ABSENT" => claims'[k].status # "ABSENT"
    BY <2>1, <2>2 DEF DocumentsInv, DocumentTypes
  <2> HIDE DEF w
  <2> QED BY <2>3, <2>4, DocumentsStay
<1>3. CASE IndexClaim(r)
  BY <1>3, DocumentsStay DEF IndexClaim, Finish, DocumentsInv, DocumentTypes
<1> QED BY <1>1, <1>2, <1>3 DEF ReviewClaims

(* A file is written for a document no row names yet. *)
LEMMA BundleBegins ==
    ASSUME DocumentsInv, NEW r \in Requests, NEW d \in Documents, NEW row \in Rows, NEW cited,
           Unused(d), UNCHANGED <<documents, files, claims>>,
           Begin(r, [op |-> "writeFile", document |-> d, claims |-> ClaimsOf[d], row |-> row,
                     cited |-> cited])
    PROVE  DocumentsInv'
<1> DEFINE w == [op |-> "writeFile", document |-> d, claims |-> ClaimsOf[d], row |-> row,
                 cited |-> cited]
<1>1. /\ work' = [work EXCEPT ![r] = w] /\ w.op = "writeFile" /\ w.document = d /\ w.row = row
      /\ w.claims = ClaimsOf[d]
  BY DEF Begin
<1> HIDE DEF w
<1>2. documents[d] = NoDocument /\ files[d] = "none"
  BY DEF Unused
<1>3. DocumentTypes' /\ DocumentsSound'
  BY DEF DocumentsInv, DocumentTypes, DocumentsSound
<1>4. \A v : DocumentRequest(v) => DocumentRequest(v)'
  BY DEF DocumentRequest
<1>5. DocumentRequest(w)'
  BY <1>1, <1>2 DEF DocumentRequest
<1>6. ASSUME NEW s \in Requests, work[s] # Idle, work[s].op \in Bundles
      PROVE  work[s].document # d
  <2>1. DocumentRequest(work[s])
    BY <1>6 DEF DocumentsInv, DocumentRequests
  <2> QED BY <1>2, <1>6, <2>1 DEF Unused, Doing, DocumentRequest, Bundles
<1>7. \A s \in Requests \ {r} :
         /\ w # Idle /\ w.op \in Bundles /\ work[s] # Idle /\ work[s].op \in Bundles
         => w.document # work[s].document
  BY <1>1, <1>6
<1>8. \A v : (\E s \in Requests \ {r} : v = work[s]) /\ v # Idle /\ DocumentRequest(v)
               => DocumentRequest(v)'
  BY <1>4
<1>9. w # Idle => DocumentRequest(w)'
  BY <1>5
<1> QED BY <1>1, <1>3, <1>7, <1>8, <1>9, DocumentsGoOn

LEMMA FileIsWritten ==
    ASSUME DocumentsInv, NEW r \in Requests, WriteFile(r)
    PROVE  DocumentsInv'
<1>1. PICK w : w = work[r]
  OBVIOUS
<1>2. w # Idle /\ w.op = "writeFile" /\ DocumentRequest(w)
  BY <1>1 DEF WriteFile, Doing, DocumentsInv, DocumentRequests
<1>3. PICK d \in Documents :
        /\ d = w.document /\ documents[d] = NoDocument /\ files[d] = "none"
        /\ w.row \in Rows /\ w.claims = ClaimsOf[d]
  BY <1>2 DEF DocumentRequest, Bundles
<1> DEFINE next == [op |-> "addBundle", document |-> d, claims |-> w.claims, row |-> w.row,
                    cited |-> w.cited]
<1>4. /\ work' = [work EXCEPT ![r] = next] /\ files' = [files EXCEPT ![d] = "stored"]
      /\ UNCHANGED <<documents, claims>>
      /\ next.op = "addBundle" /\ next.document = d /\ next.row = w.row /\ next.claims = w.claims
  BY <1>1, <1>3 DEF WriteFile, Goes, claimVars
<1> HIDE DEF next
<1>5. DocumentTypes' /\ DocumentsSound'
  BY <1>3, <1>4 DEF DocumentsInv, DocumentTypes, DocumentsSound
<1>6. DocumentRequest(next)'
  BY <1>3, <1>4 DEF DocumentRequest, Bundles, DocumentsInv, DocumentTypes
<1>7. ASSUME NEW s \in Requests \ {r}, work[s] # Idle, work[s].op \in Bundles
      PROVE  work[s].document # d
  BY <1>1, <1>2, <1>3, <1>7 DEF DocumentsInv, OwnFiles, Bundles
<1>8. ASSUME NEW s \in Requests \ {r}, NEW v, v = work[s], v # Idle, DocumentRequest(v)
      PROVE  DocumentRequest(v)'
  BY <1>4, <1>7, <1>8 DEF DocumentRequest, Bundles, DocumentsInv, DocumentTypes
<1>9. \A s \in Requests \ {r} :
         /\ next # Idle /\ next.op \in Bundles /\ work[s] # Idle /\ work[s].op \in Bundles
         => next.document # work[s].document
  BY <1>4, <1>7
<1>10. \A v : (\E s \in Requests \ {r} : v = work[s]) /\ v # Idle /\ DocumentRequest(v)
               => DocumentRequest(v)'
  BY <1>8
<1>11. next # Idle => DocumentRequest(next)'
  BY <1>6
<1> QED BY <1>4, <1>5, <1>9, <1>10, <1>11, DocumentsGoOn

LEMMA BundleIsAdded ==
    ASSUME DocumentsInv, NEW r \in Requests, AddBundle(r)
    PROVE  DocumentsInv'
<1>1. PICK w : w = work[r]
  OBVIOUS
<1>2. w # Idle /\ w.op = "addBundle" /\ DocumentRequest(w)
  BY <1>1 DEF AddBundle, Doing, DocumentsInv, DocumentRequests
<1>3. PICK d \in Documents, row \in Rows :
        /\ d = w.document /\ row = w.row /\ w.claims = ClaimsOf[d]
        /\ documents[d] = NoDocument /\ files[d] = "stored"
  BY <1>2 DEF DocumentRequest, Bundles
<1>4. /\ documents' = [Demoted(row) EXCEPT ![d] = row]
      /\ claims' = [c \in Claims |-> IF c \in ClaimsOf[d] THEN Proposal ELSE claims[c]]
      /\ work' = [work EXCEPT ![r] = Idle] /\ files' = files
  BY <1>1, <1>3 DEF AddBundle, Finish
<1>5. row # NoDocument
  BY DocumentRowsAssumption
<1>6. \A e \in Documents : documents[e] # NoDocument => documents[e] \in Rows
  BY DEF DocumentsInv, DocumentTypes
<1>7. ASSUME NEW e \in Documents, e # d
      PROVE  /\ documents'[e] = NoDocument <=> documents[e] = NoDocument
             /\ documents'[e] \in Rows \cup {NoDocument}
             /\ documents[e] # NoDocument =>
                   /\ documents'[e].kind = documents[e].kind
                   /\ documents'[e].primary => documents[e].primary
                   /\ row.primary /\ documents[e].kind = row.kind => ~documents'[e].primary
  <2>1. documents'[e] = IF row.primary /\ documents[e] # NoDocument /\ documents[e].kind = row.kind
                        THEN [documents[e] EXCEPT !.primary = FALSE] ELSE documents[e]
    BY <1>4, <1>7 DEF Demoted
  <2>2. documents[e] # NoDocument =>
          /\ [documents[e] EXCEPT !.primary = FALSE] \in Rows
          /\ [documents[e] EXCEPT !.primary = FALSE].kind = documents[e].kind
          /\ [documents[e] EXCEPT !.primary = FALSE].primary = FALSE
    BY <1>6 DEF Rows
  <2> QED BY <1>6, <2>1, <2>2, DocumentRowsAssumption
<1>8. documents'[d] = row
  BY <1>4 DEF Demoted
<1>9. DocumentTypes'
  <2>1. documents' = [e \in Documents |-> documents'[e]]
    BY <1>4 DEF Demoted
  <2>2. \A e \in Documents : documents'[e] \in Rows \cup {NoDocument}
    BY <1>7, <1>8
  <2>3. claims' = [c \in Claims |-> claims'[c]]
    BY <1>4
  <2> QED BY <1>4, <2>1, <2>2, <2>3 DEF DocumentsInv, DocumentTypes
<1>10. ASSUME NEW e \in Documents, documents'[e] # NoDocument
       PROVE  files'[e] # "none" /\ \A c \in ClaimsOf[e] : claims'[c].status # "ABSENT"
  <2>1. Proposal.status # "ABSENT"
    BY DEF Proposal
  <2>2. \A c \in ClaimsOf[e] : c \in Claims
    BY DocumentsAssumption
  <2>3. CASE e = d
    BY <1>3, <1>4, <2>1, <2>2, <2>3
  <2>4. CASE e # d
    BY <1>4, <1>7, <1>10, <2>1, <2>2, <2>4 DEF DocumentsInv, DocumentsSound
  <2> QED BY <2>3, <2>4
<1>11. ASSUME NEW e \in Documents, NEW f \in Documents,
              documents'[e] # NoDocument, documents'[e].kind = "RESUME", documents'[e].primary,
              documents'[f] # NoDocument, documents'[f].kind = "RESUME", documents'[f].primary
       PROVE  e = f
  <2>1. CASE e # d /\ f # d
    BY <1>7, <1>11, <2>1 DEF DocumentsInv, DocumentsSound
  <2>2. CASE e = d \/ f = d
    BY <1>7, <1>8, <1>11, <2>2
  <2> QED BY <2>1, <2>2
<1>12. DocumentsSound'
  BY <1>10, <1>11 DEF DocumentsSound
<1>13. ASSUME NEW s \in Requests \ {r}, NEW v, v = work[s], v # Idle, DocumentRequest(v)
       PROVE  DocumentRequest(v)'
  <2>1. v.op \in Bundles => v.document # d
    BY <1>1, <1>2, <1>3, <1>13 DEF DocumentsInv, OwnFiles, Bundles
  <2> QED BY <1>4, <1>7, <1>13, <2>1 DEF DocumentRequest
<1> QED BY <1>4, <1>9, <1>12, <1>13, DocumentsGoOn

LEMMA BundleIsUndone ==
    ASSUME DocumentsInv, NEW r \in Requests, BundleFails(r)
    PROVE  DocumentsInv'
<1>1. PICK w : w = work[r]
  OBVIOUS
<1>2. w # Idle /\ w.op = "addBundle" /\ DocumentRequest(w)
  BY <1>1 DEF BundleFails, Doing, DocumentsInv, DocumentRequests
<1>3. PICK d \in Documents : d = w.document /\ documents[d] = NoDocument
  BY <1>2 DEF DocumentRequest, Bundles
<1>4. /\ work' = [work EXCEPT ![r] = Idle] /\ files' = [files EXCEPT ![d] = "none"]
      /\ UNCHANGED <<documents, claims>>
  BY <1>1, <1>3 DEF BundleFails, Finish, claimVars
<1>5. DocumentTypes' /\ DocumentsSound'
  BY <1>3, <1>4 DEF DocumentsInv, DocumentTypes, DocumentsSound
<1>6. ASSUME NEW s \in Requests \ {r}, NEW v, v = work[s], v # Idle, DocumentRequest(v)
      PROVE  DocumentRequest(v)'
  <2>1. v.op \in Bundles => v.document # d
    BY <1>1, <1>2, <1>3, <1>6 DEF DocumentsInv, OwnFiles, Bundles
  <2> QED BY <1>4, <1>6, <2>1 DEF DocumentRequest, Bundles, DocumentsInv, DocumentTypes
<1> QED BY <1>4, <1>5, <1>6, DocumentsGoOn

LEMMA FileIsLost ==
    ASSUME DocumentsInv, NEW d \in Documents, LoseFile(d)
    PROVE  DocumentsInv'
<1>1. /\ files[d] = "stored" /\ documents[d] # NoDocument
      /\ files' = [files EXCEPT ![d] = "lost"] /\ UNCHANGED <<documents, claims, work>>
  BY DEF LoseFile, knowledgeVars
<1>2. DocumentTypes' /\ DocumentsSound'
  BY <1>1 DEF DocumentsInv, DocumentTypes, DocumentsSound
<1>3. \A v : DocumentRequest(v) => DocumentRequest(v)'
  BY <1>1 DEF DocumentRequest, Bundles, DocumentsInv, DocumentTypes
<1>4. DocumentRequests'
  <2> SUFFICES ASSUME NEW s \in Requests, work'[s] # Idle PROVE DocumentRequest(work[s])'
    BY DEF DocumentRequests
  <2>1. PICK v : v = work[s]
    OBVIOUS
  <2>2. DocumentRequest(v)'
    BY <1>1, <1>3, <2>1 DEF DocumentsInv, DocumentRequests
  <2> QED BY <1>1, <2>1, <2>2
<1> QED BY <1>1, <1>2, <1>4 DEF DocumentsInv, OwnFiles

LEMMA DocumentsAreKept ==
    ASSUME DocumentsInv, NEW r \in Requests, KeepDocuments(r)
    PROVE  DocumentsInv'
<1> USE DEF claimVars
<1>1. ASSUME NEW d \in Documents, NEW primary \in BOOLEAN, BeginImport(r, d, primary)
      PROVE  DocumentsInv'
  <2> DEFINE row == [kind |-> "RESUME", primary |-> primary, origin |-> "IMPORTED"]
  <2>1. row \in Rows
    BY DEF Rows
  <2>2. /\ Unused(d) /\ UNCHANGED <<documents, files, claims>>
        /\ Begin(r, [op |-> "writeFile", document |-> d, claims |-> ClaimsOf[d], row |-> row,
                     cited |-> {}])
    BY <1>1 DEF BeginImport, documentVars
  <2> HIDE DEF row
  <2> QED BY <2>1, <2>2, BundleBegins
<1>2. ASSUME NEW d \in Documents, NEW k \in {"RESUME", "COVER_LETTER"}, NEW chosen \in SUBSET Claims,
             BeginTailoring(r, d, k, chosen)
      PROVE  DocumentsInv'
  <2> DEFINE row == [kind |-> k, primary |-> FALSE, origin |-> "GENERATED"]
  <2>1. row \in Rows
    BY DEF Rows
  <2>2. /\ Unused(d) /\ UNCHANGED <<documents, files, claims>> /\ ClaimsOf[d] = {}
        /\ Begin(r, [op |-> "writeFile", document |-> d, claims |-> {}, row |-> row,
                     cited |-> chosen])
    BY <1>2 DEF BeginTailoring, documentVars
  <2> HIDE DEF row
  <2> QED BY <2>1, <2>2, BundleBegins
<1>3. ASSUME NEW d \in Documents, BeginSelection(r, d)
      PROVE  DocumentsInv'
  <2> DEFINE w == [op |-> "select", document |-> d, view |-> SelectionView]
  <2>1. /\ w.op \notin Bundles /\ w.op # "saveClaim" /\ work' = [work EXCEPT ![r] = w]
        /\ UNCHANGED <<documents, files, claims>>
    BY <1>3 DEF BeginSelection, Begin, Bundles, documentVars
  <2> HIDE DEF w
  <2> QED BY <2>1, DocumentsStay DEF DocumentsInv, DocumentTypes
<1>4. ASSUME NEW d \in Documents, NEW u \in Uploads, BeginCapture(r, d, u)
      PROVE  DocumentsInv'
  <2> DEFINE w == [op |-> "capture", document |-> d, upload |-> u]
  <2>1. /\ w.op \notin Bundles /\ w.op # "saveClaim" /\ work' = [work EXCEPT ![r] = w]
        /\ UNCHANGED <<documents, files, claims>>
    BY <1>4 DEF BeginCapture, Begin, Bundles, documentVars
  <2> HIDE DEF w
  <2> QED BY <2>1, DocumentsStay DEF DocumentsInv, DocumentTypes
<1>5. CASE ApproveSelection(r) \/ AddCapture(r)
  <2>1. work' = [work EXCEPT ![r] = Idle] /\ UNCHANGED <<documents, files, claims>>
    BY <1>5 DEF ApproveSelection, AddCapture, Finish
  <2> QED BY <2>1, DocumentsStay DEF DocumentsInv, DocumentTypes
<1> QED
  BY <1>1, <1>2, <1>3, <1>4, <1>5, FileIsWritten, BundleIsAdded, BundleIsUndone DEF KeepDocuments

LEMMA NoDocumentWork ==
    ASSUME DocumentsInv, UNCHANGED <<work, documents, files, claims>>
    PROVE  DocumentsInv'
BY DEF DocumentsInv, DocumentTypes, DocumentsSound, OwnFiles, DocumentRequests, DocumentRequest

LEMMA DocumentsSurviveStop ==
    ASSUME DocumentsInv, Crash, UNCHANGED <<documents, files, claims>>
    PROVE  DocumentsInv'
<1>1. work' = [r \in Requests |-> Idle]
  BY DEF Crash
<1>2. DocumentTypes' /\ DocumentsSound'
  BY DEF DocumentsInv, DocumentTypes, DocumentsSound
<1> QED BY <1>1, <1>2 DEF DocumentsInv, OwnFiles, DocumentRequests

LEMMA DocumentsStart ==
    ASSUME Init
    PROVE  DocumentsInv
<1>1. PICK stored, source :
         /\ DocumentsInit(stored, source)
         /\ stored \subseteq Imported
         /\ stored # {} => \A c \in Served : claims[c].status = "VERIFIED"
  <2>1. DocumentsInit(IF desk = "readiness" THEN Imported ELSE {},
                      IF desk = "readiness" THEN "greenhouse-public" ELSE "manual")
    BY DEF Init
  <2>2. desk = "readiness" => \A c \in Served : claims[c].status = "VERIFIED"
    BY DesksAssumption DEF Init, KnowledgeInit
  <2> QED BY <2>1, <2>2
<1>2. stored \subseteq Documents /\ \A d \in stored : ClaimsOf[d] \subseteq Served
  BY <1>1, DesksAssumption
<1> DEFINE row == [kind |-> "RESUME", primary |-> FALSE, origin |-> "IMPORTED"]
<1>3. row \in Rows /\ row.primary = FALSE
  BY DEF Rows
<1>4. \A d \in Documents : documents[d] = IF d \in stored THEN row ELSE NoDocument
  BY <1>1 DEF DocumentsInit
<1>5. \A d \in Documents : files[d] = IF d \in stored THEN "stored" ELSE "none"
  BY <1>1 DEF DocumentsInit
<1>6. claims = [c \in Claims |-> claims[c]]
  BY DEF Init, KnowledgeInit
<1>7. documents = [d \in Documents |-> documents[d]] /\ files = [d \in Documents |-> files[d]]
  BY <1>1 DEF DocumentsInit
<1> HIDE DEF row
<1>8. DocumentTypes
  BY <1>3, <1>4, <1>5, <1>6, <1>7 DEF DocumentTypes
<1>9. DocumentsSound
  BY <1>1, <1>2, <1>3, <1>4, <1>5 DEF DocumentsSound
<1>10. work = [r \in Requests |-> Idle]
  BY DEF Init, RequestsInit
<1> QED BY <1>8, <1>9, <1>10 DEF DocumentsInv, OwnFiles, DocumentRequests

LEMMA AbandonContinues ==
    ASSUME NEW r \in Requests, NEW ops, Abandon(r, ops)
    PROVE  Continues(r, {})
BY DEF Abandon, Finish, Continues

LEMMA DocumentsStep ==
    ASSUME KnowledgeInv, DocumentsInv, [Next]_vars
    PROVE  DocumentsInv'
<1> USE DEF claimVars, documentVars
<1>a. ASSUME NEW r \in Requests, NEW ops, Abandon(r, ops), UNCHANGED <<documents, files, claims>>
      PROVE  DocumentsInv'
  BY <1>a, AbandonContinues, DocumentsRest
<1>b. ASSUME NEW r \in Requests, KeepLibrary(r) \/ KeepDrafts(r), UNCHANGED <<documents, files>>
      PROVE  DocumentsInv'
  <2>1. claims' = claims
    BY <1>b DEF KeepLibrary, KeepDrafts, BeginAdd, BeginUpdate, AddAnswer, UpdateAnswer, BeginDraft,
                BeginDraftReview, BeginPromotion, AddDraft, SaveDraft, Promote
  <2>2. Continues(r, {"addAnswer", "updateAnswer"}) \/ Continues(r, {"addDraft", "saveDraft", "promote"})
    BY <1>b, LibraryContinues, DraftsContinue
  <2> QED BY <1>b, <2>1, <2>2, DocumentsRest DEF Bundles
<1>1. CASE Reviewing
  BY <1>1, <1>a, <1>b, ClaimsLeaveDocuments DEF Reviewing
<1>2. CASE Answering
  BY <1>2, <1>a, <1>b DEF Answering
<1>3. CASE Collecting
  BY <1>3, <1>a, ClaimsLeaveDocuments, DocumentsAreKept DEF Collecting
<1>4. CASE Preparing
  <2>1. ASSUME NEW r \in Requests, ReviewReadiness(r) PROVE DocumentsInv'
    <3>1. UNCHANGED <<documents, files, claims>>
      BY <2>1 DEF ReviewReadiness, PreviewRequirements, PreviewQualification, PreviewResume, Hold,
                  ApproveRequirements, ApproveQualification, ApproveResume, Refuse
    <3>2. Continues(r, {"approve"})
      BY <2>1, ReadinessContinues
    <3> QED BY <3>1, <3>2, DocumentsRest DEF Bundles
  <2>2. ASSUME NEW p \in Postings, ImportPosting(p) PROVE DocumentsInv'
    BY <2>2, NoDocumentWork DEF ImportPosting, evidenceVars, knowledgeVars
  <2> QED BY <1>4, <1>a, <2>1, <2>2, ClaimsLeaveDocuments, FileIsLost DEF Preparing
<1>5. CASE Filling
  <2>1. ASSUME NEW r \in Requests, FillFields(r), UNCHANGED documentVars PROVE DocumentsInv'
    <3>1. claims' = claims
      BY <2>1 DEF FillFields, BeginBinding, AddBinding, BeginExecution, ObserveLive, Arm, Enter,
                  RecordExecution, Release
    <3>2. Continues(r, FieldOps)
      BY <2>1, FieldsContinue
    <3> QED BY <2>1, <3>1, <3>2, DocumentsRest DEF Bundles, FieldOps
  <2>2. CASE PageMoves \/ CapturePage \/ TakeOver
    BY <1>5, <2>2, NoDocumentWork DEF Filling, PageMoves, CapturePage, TakeOver, knowledgeVars
  <2> QED BY <1>5, <1>a, <1>b, <2>1, <2>2 DEF Filling
<1>6. CASE Stop
  BY <1>6, DocumentsSurviveStop DEF Stop
<1>7. CASE UNCHANGED vars
  BY <1>7, NoDocumentWork DEF vars, knowledgeVars
<1> QED BY <1>1, <1>2, <1>3, <1>4, <1>5, <1>6, <1>7 DEF Next

(* The selection. *)
LEMMA SelectionGoesOn ==
    ASSUME KnowledgeInv, SelectionInv, NEW r \in Requests, NEW w,
           work' = [work EXCEPT ![r] = w], w # Idle => SelectionRequest(w),
           \/ UNCHANGED <<selected, selections>>
           \/ \E d \in Documents : Select(d)
    PROVE  SelectionInv'
<1>1. selections' \in Seq(Documents)
  BY DEF SelectionInv, Select
<1>2. selected' = IF selections' = <<>> THEN NoDocument ELSE selections'[Len(selections')]
  BY DEF SelectionInv, Select
<1>3. \A s \in Requests : work'[s] = IF s = r THEN w ELSE work[s]
  BY DEF KnowledgeInv, KnowledgeTypes
<1>4. \A s \in Requests : work'[s] # Idle => SelectionRequest(work'[s])
  BY <1>3 DEF SelectionInv
<1>5. (\A s \in Requests : work[s] # Idle => SelectionRequest(work[s]))'
  BY <1>4 DEF SelectionRequest
<1> QED BY <1>1, <1>2, <1>5 DEF SelectionInv

LEMMA SelectionRests ==
    ASSUME KnowledgeInv, SelectionInv, NEW r \in Requests, NEW ops, Continues(r, ops),
           ops \cap {"select", "approve"} = {}, UNCHANGED <<selected, selections>>
    PROVE  SelectionInv'
<1>1. PICK w : work' = [work EXCEPT ![r] = w] /\ (w # Idle => w.op \in ops)
  BY DEF Continues
<1>2. w # Idle => SelectionRequest(w)
  BY <1>1 DEF SelectionRequest
<1> QED BY <1>1, <1>2, SelectionGoesOn

LEMMA ClaimsContinue ==
    ASSUME NEW r \in Requests, ReviewClaims(r)
    PROVE  Continues(r, {"saveClaim", "indexClaim"})
<1> USE DEF Continues
<1>1. ASSUME NEW c, NEW o, NEW u, BeginReview(r, c, o, u)
      PROVE  Continues(r, {"saveClaim", "indexClaim"})
  <2> DEFINE w == [op |-> "saveClaim", claim |-> c, outcome |-> o, use |-> u]
  <2>1. work' = [work EXCEPT ![r] = w] /\ w.op = "saveClaim"
    BY <1>1 DEF BeginReview, Begin
  <2> HIDE DEF w
  <2> QED BY <2>1
<1>2. CASE SaveClaim(r)
  <2>1. PICK c, saved : work' = [work EXCEPT ![r] = [op |-> "indexClaim", claim |-> c, saved |-> saved]]
    BY <1>2 DEF SaveClaim
  <2> DEFINE w == [op |-> "indexClaim", claim |-> c, saved |-> saved]
  <2>2. work' = [work EXCEPT ![r] = w] /\ w.op = "indexClaim"
    BY <2>1
  <2> HIDE DEF w
  <2> QED BY <2>2
<1>3. CASE IndexClaim(r)
  BY <1>3 DEF IndexClaim, Finish
<1> QED BY <1>1, <1>2, <1>3 DEF ReviewClaims

LEMMA DocumentsAreSelected ==
    ASSUME KnowledgeInv, SelectionInv, NEW r \in Requests, KeepDocuments(r)
    PROVE  SelectionInv'
<1> USE DEF documentVars
<1>1. ASSUME NEW d \in Documents, BeginSelection(r, d)
      PROVE  SelectionInv'
  <2> DEFINE w == [op |-> "select", document |-> d, view |-> SelectionView]
  <2>1. /\ work' = [work EXCEPT ![r] = w] /\ SelectionRequest(w)
        /\ UNCHANGED <<selected, selections>>
    BY <1>1 DEF BeginSelection, Begin, SelectionRequest
  <2> HIDE DEF w
  <2> QED BY <2>1, SelectionGoesOn
<1>2. CASE ApproveSelection(r)
  <2>1. work[r].document \in Documents
    BY <1>2 DEF ApproveSelection, Doing, SelectionInv, SelectionRequest
  <2>2. work' = [work EXCEPT ![r] = Idle] /\ Select(work[r].document)
    BY <1>2 DEF ApproveSelection, Finish
  <2> QED BY <2>1, <2>2, SelectionGoesOn
<1>3. ASSUME NEW d \in Documents, NEW primary \in BOOLEAN, BeginImport(r, d, primary)
      PROVE  SelectionInv'
  <2> DEFINE w == [op |-> "writeFile", document |-> d, claims |-> ClaimsOf[d],
                   row |-> [kind |-> "RESUME", primary |-> primary, origin |-> "IMPORTED"],
                   cited |-> {}]
  <2>1. /\ work' = [work EXCEPT ![r] = w] /\ SelectionRequest(w)
        /\ UNCHANGED <<selected, selections>>
    BY <1>3 DEF BeginImport, Begin, SelectionRequest
  <2> HIDE DEF w
  <2> QED BY <2>1, SelectionGoesOn
<1>4. ASSUME NEW d \in Documents, NEW k, NEW chosen, BeginTailoring(r, d, k, chosen)
      PROVE  SelectionInv'
  <2> DEFINE w == [op |-> "writeFile", document |-> d, claims |-> {},
                   row |-> [kind |-> k, primary |-> FALSE, origin |-> "GENERATED"],
                   cited |-> chosen]
  <2>1. /\ work' = [work EXCEPT ![r] = w] /\ SelectionRequest(w)
        /\ UNCHANGED <<selected, selections>>
    BY <1>4 DEF BeginTailoring, Begin, SelectionRequest
  <2> HIDE DEF w
  <2> QED BY <2>1, SelectionGoesOn
<1>5. ASSUME NEW d \in Documents, NEW u, BeginCapture(r, d, u)
      PROVE  SelectionInv'
  <2> DEFINE w == [op |-> "capture", document |-> d, upload |-> u]
  <2>1. /\ work' = [work EXCEPT ![r] = w] /\ SelectionRequest(w)
        /\ UNCHANGED <<selected, selections>>
    BY <1>5 DEF BeginCapture, Begin, SelectionRequest
  <2> HIDE DEF w
  <2> QED BY <2>1, SelectionGoesOn
<1>6. CASE WriteFile(r)
  <2> DEFINE w == [op |-> "addBundle", document |-> work[r].document, claims |-> work[r].claims,
                   row |-> work[r].row, cited |-> work[r].cited]
  <2>1. /\ work' = [work EXCEPT ![r] = w] /\ SelectionRequest(w)
        /\ UNCHANGED <<selected, selections>>
    BY <1>6 DEF WriteFile, Goes, SelectionRequest
  <2> HIDE DEF w
  <2> QED BY <2>1, SelectionGoesOn
<1>7. CASE AddBundle(r) \/ BundleFails(r) \/ AddCapture(r)
  <2>1. work' = [work EXCEPT ![r] = Idle] /\ UNCHANGED <<selected, selections>>
    BY <1>7 DEF AddBundle, BundleFails, AddCapture, Finish
  <2> QED BY <2>1, SelectionGoesOn
<1> QED BY <1>1, <1>2, <1>3, <1>4, <1>5, <1>6, <1>7 DEF KeepDocuments

LEMMA ResumesAreSelected ==
    ASSUME KnowledgeInv, DocumentsInv, SelectionInv, NEW r \in Requests, ReviewReadiness(r)
    PROVE  SelectionInv'
<1> USE DEF documentVars
<1>1. ASSUME NEW kind, NEW input, NEW view, Hold(r, kind, input, view),
             kind = "SELECTION" => input \in Documents
      PROVE  SelectionInv'
  <2> DEFINE w == [op |-> "approve", kind |-> kind, input |-> input, view |-> view]
  <2>1. /\ work' = [work EXCEPT ![r] = w] /\ SelectionRequest(w)
        /\ UNCHANGED <<selected, selections>>
    BY <1>1 DEF Hold, Begin, SelectionRequest
  <2> HIDE DEF w
  <2> QED BY <2>1, SelectionGoesOn
<1>2. ASSUME \E d \in Documents : PreviewResume(r, d) PROVE SelectionInv'
  BY <1>1, <1>2 DEF PreviewResume
<1>3. ASSUME NEW items, PreviewRequirements(r, items) PROVE SelectionInv'
  BY <1>1, <1>3 DEF PreviewRequirements
<1>4. ASSUME NEW findings, NEW clear, PreviewQualification(r, findings, clear) PROVE SelectionInv'
  BY <1>1, <1>4 DEF PreviewQualification
<1>5. ASSUME \/ ApproveRequirements(r) \/ ApproveQualification(r) \/ ApproveResume(r)
             \/ Refuse(r)
      PROVE SelectionInv'
  <2>1. PICK w : work' = [work EXCEPT ![r] = w] /\ (w = Idle \/ w = work[r])
    <3>1. work' = work => work' = [work EXCEPT ![r] = work[r]]
      BY DEF KnowledgeInv, KnowledgeTypes
    <3>2. Finish(r) \/ work' = work
      BY <1>5 DEF ApproveRequirements, ApproveQualification, ApproveResume, Refuse, Answered
    <3> QED BY <3>1, <3>2 DEF Finish
  <2>2. w # Idle => SelectionRequest(w)
    BY <2>1 DEF SelectionInv
  <2>3. CASE ApproveResume(r)
    <3>1. work[r].input \in Documents /\ Select(work[r].input)
      BY <2>3 DEF ApproveResume, Approving, Doing, SelectionInv, SelectionRequest
    <3> QED BY <2>1, <2>2, <3>1, SelectionGoesOn
  <2>4. CASE ~ApproveResume(r)
    <3>1. UNCHANGED <<selected, selections>>
      BY <1>5, <2>4 DEF ApproveRequirements, ApproveQualification, Refuse
    <3> QED BY <2>1, <2>2, <3>1, SelectionGoesOn
  <2> QED BY <2>3, <2>4
<1> QED BY <1>2, <1>3, <1>4, <1>5 DEF ReviewReadiness

LEMMA SelectionStarts ==
    ASSUME Init
    PROVE  SelectionInv
BY DEF Init, DocumentsInit, RequestsInit, SelectionInv

LEMMA SelectionStep ==
    ASSUME KnowledgeInv, DocumentsInv, SelectionInv, [Next]_vars
    PROVE  SelectionInv'
<1> USE DEF documentVars
<1>a. ASSUME NEW r \in Requests, NEW ops, Abandon(r, ops), UNCHANGED documentVars
      PROVE  SelectionInv'
  BY <1>a, AbandonContinues, SelectionRests
<1>b. ASSUME NEW r \in Requests, ReviewClaims(r) \/ KeepLibrary(r) \/ KeepDrafts(r),
             UNCHANGED documentVars
      PROVE  SelectionInv'
  <2>1. \/ Continues(r, {"addAnswer", "updateAnswer"})
        \/ Continues(r, {"addDraft", "saveDraft", "promote"})
        \/ Continues(r, {"saveClaim", "indexClaim"})
    BY <1>b, LibraryContinues, DraftsContinue, ClaimsContinue
  <2> QED BY <1>b, <2>1, SelectionRests
<1>c. ASSUME UNCHANGED <<work, selected, selections>> PROVE SelectionInv'
  BY <1>c DEF SelectionInv, SelectionRequest
<1>1. CASE Reviewing
  BY <1>1, <1>a, <1>b DEF Reviewing
<1>2. CASE Answering
  BY <1>2, <1>a, <1>b DEF Answering
<1>3. CASE Collecting
  BY <1>3, <1>a, <1>b, DocumentsAreSelected DEF Collecting
<1>4. CASE Preparing
  <2>1. ASSUME \/ \E d \in Documents : LoseFile(d)
               \/ \E p \in Postings : ImportPosting(p)
        PROVE  SelectionInv'
    BY <1>c, <2>1 DEF LoseFile, ImportPosting, evidenceVars, knowledgeVars
  <2> QED BY <1>4, <1>a, <1>b, <2>1, ResumesAreSelected DEF Preparing
<1>5. CASE Filling
  <2>1. ASSUME NEW r \in Requests, FillFields(r), UNCHANGED documentVars PROVE SelectionInv'
    BY <2>1, FieldsContinue, SelectionRests DEF FieldOps
  <2>2. CASE PageMoves \/ CapturePage \/ TakeOver
    BY <1>5, <1>c, <2>2 DEF Filling, PageMoves, CapturePage, TakeOver, knowledgeVars
  <2> QED BY <1>5, <1>a, <1>b, <2>1, <2>2 DEF Filling
<1>6. CASE Stop
  BY <1>6 DEF Stop, Crash, SelectionInv
<1>7. CASE UNCHANGED vars
  BY <1>7, <1>c DEF vars, knowledgeVars
<1> QED BY <1>1, <1>2, <1>3, <1>4, <1>5, <1>6, <1>7 DEF Next

(* A listed document has its file and its claims, one resume at most is     *)
(* primary, and the selection is the last one audited, however imports,     *)
(* tailoring, selections and failures interleave (import_document,          *)
(* generate_tailored_document, approve_selection).                          *)
THEOREM DocumentsStayWhole == Spec => []DocumentsAreWhole
<1> DEFINE Inv == KnowledgeInv /\ DocumentsInv /\ SelectionInv
<1>1. Init => Inv
  BY KnowledgeStarts, DocumentsStart, SelectionStarts
<1>2. Inv /\ [Next]_vars => Inv'
  BY KnowledgeStep, DocumentsStep, SelectionStep
<1>3. Inv => DocumentsAreWhole
  BY DEF DocumentsInv, DocumentTypes, DocumentsSound, SelectionInv, DocumentsAreWhole, ResumesIn
<1> HIDE DEF Inv
<1> QED BY <1>1, <1>2, <1>3, PTL DEF Spec

-----------------------------------------------------------------------------
(* Fields: the invariant of bindings, executions and what was entered.     *)

BindingSound(b) ==
    /\ b.draft \in Drafts /\ b.control \in Controls
    /\ drafts[b.draft] # NoAnswer
    /\ b.revision \in Nat /\ b.revision =< drafts[b.draft].revision
    /\ b.print.revision = b.revision

(* An execution holds a permitted binding and the value it read, which is   *)
(* still the answer's while the answer has the bound revision.              *)
Permitted(w) == w.binding \in bindings /\ w.binding.permission = "AUTOFILL_ALLOWED"

AnswerAs(w) ==
    drafts[w.binding.draft].revision = w.binding.revision =>
       drafts[w.binding.draft].value = w.value

(* What it saw of the page and the answer lets it enter the value. *)
Armed(w) ==
    LET b == w.binding IN
    /\ Permitted(w)
    /\ b.kind \in Executable /\ ~b.print.field.legal
    /\ \E saved \in reviewed :
          /\ saved.draft = b.draft /\ saved.value = w.value
          /\ saved.revision = IF b.print.status = "PROMOTED" THEN b.revision - 1 ELSE b.revision

Recorded(w) ==
    Permitted(w) /\ AnswerAs(w) /\ (w.verified => filled[w.binding.control] # {})

FieldRequest(w) ==
    /\ w.op = "bind" => BindingSound(w.binding)
    /\ w.op = "observe" => Permitted(w) /\ AnswerAs(w)
    /\ w.op \in {"arm", "enter"} => Armed(w) /\ AnswerAs(w)
    /\ w.op = "record" => Recorded(w)

FieldsInv ==
    /\ filled = [c \in Controls |-> filled[c]]
    /\ \A b \in bindings : BindingSound(b)
    /\ \A c \in Controls : \A entry \in filled[c] : entry.binding.control = c /\ Armed(entry)
    /\ \A e \in executions : Recorded(e)
    /\ \A r \in Requests : work[r] # Idle => FieldRequest(work[r])

(* A draft keeps what it holds at a revision. *)
DraftsMoveOn ==
    /\ reviewed \subseteq reviewed'
    /\ \A d \in Drafts :
          drafts[d] # NoAnswer =>
             /\ drafts'[d] # NoAnswer /\ drafts[d].revision \in Nat /\ drafts'[d].revision \in Nat
             /\ drafts[d].revision =< drafts'[d].revision
             /\ drafts'[d].revision = drafts[d].revision => drafts'[d] = drafts[d]

LEMMA UntouchedDraftsMoveOn ==
    ASSUME KnowledgeInv, UNCHANGED <<drafts, reviewed>>
    PROVE  DraftsMoveOn
BY DEF DraftsMoveOn, KnowledgeInv, KnowledgeTypes, Draft

LEMMA WrittenDraftsMoveOn ==
    ASSUME KnowledgeInv, NEW d \in Drafts, NEW x \in Draft, drafts' = [drafts EXCEPT ![d] = x],
           drafts[d] # NoAnswer => x.revision = drafts[d].revision + 1,
           reviewed \subseteq reviewed'
    PROVE  DraftsMoveOn
<1>1. \A e \in Drafts : drafts'[e] = IF e = d THEN x ELSE drafts[e]
  BY DEF KnowledgeInv, KnowledgeTypes
<1>2. \A e \in Drafts : drafts[e] # NoAnswer => drafts[e].revision \in Nat
  BY DEF KnowledgeInv, KnowledgeTypes, Draft
<1>3. x # NoAnswer /\ x.revision \in Nat
  BY RowsAssumption DEF Draft
<1> QED BY <1>1, <1>2, <1>3 DEF DraftsMoveOn

LEMMA KeptDraftsMoveOn ==
    ASSUME KnowledgeInv, NEW r \in Requests, KeepDrafts(r)
    PROVE  DraftsMoveOn
<1>1. ASSUME NEW w, w = work[r], w # Idle, w.op \in {"addDraft", "saveDraft", "promote"}
      PROVE  KnowledgeRequest(w) /\ w.draft \in Drafts /\ w.record \in Draft
  BY <1>1 DEF KnowledgeInv, RequestsSound, KnowledgeRequest, Writes
<1>2. CASE AddDraft(r)
  <2>1. PICK w : w = work[r]
    OBVIOUS
  <2>2. /\ drafts[w.draft] = NoAnswer /\ drafts' = [drafts EXCEPT ![w.draft] = w.record]
        /\ reviewed' = reviewed /\ w # Idle /\ w.op = "addDraft"
    BY <1>2, <2>1 DEF AddDraft, Doing
  <2> QED BY <1>1, <2>1, <2>2, WrittenDraftsMoveOn
<1>3. CASE SaveDraft(r)
  <2>1. PICK w : w = work[r]
    OBVIOUS
  <2>2. /\ drafts[w.draft].revision = w.seen /\ drafts' = [drafts EXCEPT ![w.draft] = w.record]
        /\ reviewed \subseteq reviewed' /\ w # Idle /\ w.op = "saveDraft"
    BY <1>3, <2>1 DEF SaveDraft, Doing, StillAt
  <2>3. w.record.revision = w.seen + 1
    BY <1>1, <2>1, <2>2 DEF KnowledgeRequest, Overtaken
  <2> QED BY <1>1, <2>1, <2>2, <2>3, WrittenDraftsMoveOn
<1>4. CASE Promote(r)
  <2>1. PICK w : w = work[r]
    OBVIOUS
  <2>2. /\ drafts[w.draft].revision = w.seen /\ drafts' = [drafts EXCEPT ![w.draft] = w.record]
        /\ reviewed \subseteq reviewed' /\ w # Idle /\ w.op = "promote"
    BY <1>4, <2>1 DEF Promote, Doing, StillAt
  <2>3. w.record.revision = w.seen + 1
    BY <1>1, <2>1, <2>2 DEF KnowledgeRequest, Overtaken
  <2> QED BY <1>1, <2>1, <2>2, <2>3, WrittenDraftsMoveOn
<1>5. CASE \/ \E d \in Drafts : BeginDraft(r, d)
           \/ \E d \in Drafts, v \in Values, e \in SUBSET Claims : BeginDraftReview(r, d, v, e)
           \/ \E d \in Drafts, a \in Library : BeginPromotion(r, d, a)
  BY <1>5, UntouchedDraftsMoveOn DEF BeginDraft, BeginDraftReview, BeginPromotion, answerVars
<1> QED BY <1>2, <1>3, <1>4, <1>5 DEF KeepDrafts

(* What bindings, executions and requests count on lasts. *)
FieldsMoveOn ==
    /\ DraftsMoveOn
    /\ bindings \subseteq bindings'
    /\ \A c \in Controls : filled[c] # {} => filled'[c] # {}

LEMMA FieldFactsLast ==
    ASSUME FieldsInv, FieldsMoveOn
    PROVE  /\ \A v : BindingSound(v) => BindingSound(v)'
           /\ \A v : Permitted(v) => Permitted(v)'
           /\ \A v : Permitted(v) /\ AnswerAs(v) => AnswerAs(v)'
           /\ \A v : Armed(v) => Armed(v)'
           /\ \A v : Recorded(v) => Recorded(v)'
           /\ \A v : FieldRequest(v) => FieldRequest(v)'
<1>1. ASSUME NEW v, BindingSound(v) PROVE BindingSound(v)'
  BY <1>1 DEF FieldsMoveOn, DraftsMoveOn, BindingSound
<1>2. ASSUME NEW v, Permitted(v) PROVE Permitted(v)'
  BY <1>2 DEF FieldsMoveOn, Permitted
<1>3. ASSUME NEW v, Permitted(v), AnswerAs(v) PROVE AnswerAs(v)'
  <2>1. BindingSound(v.binding)
    BY <1>3 DEF Permitted, FieldsInv
  <2> QED BY <1>3, <2>1 DEF FieldsMoveOn, DraftsMoveOn, BindingSound, AnswerAs
<1>4. ASSUME NEW v, Armed(v) PROVE Armed(v)'
  BY <1>2, <1>4 DEF FieldsMoveOn, DraftsMoveOn, Armed
<1>5. ASSUME NEW v, Recorded(v) PROVE Recorded(v)'
  <2>1. Permitted(v) /\ AnswerAs(v) /\ v.binding.control \in Controls
    BY <1>5 DEF Recorded, Permitted, FieldsInv, BindingSound
  <2>2. Permitted(v)' /\ AnswerAs(v)'
    BY <1>2, <1>3, <2>1
  <2>3. v.verified => filled'[v.binding.control] # {}
    BY <1>5, <2>1 DEF Recorded, FieldsMoveOn
  <2> QED BY <2>2, <2>3 DEF Recorded
<1>6. ASSUME NEW v, FieldRequest(v) PROVE FieldRequest(v)'
  <2>1. v.op = "bind" => BindingSound(v.binding)'
    BY <1>1, <1>6 DEF FieldRequest
  <2>2. v.op = "observe" => Permitted(v)' /\ AnswerAs(v)'
    BY <1>2, <1>3, <1>6 DEF FieldRequest
  <2>3. v.op \in {"arm", "enter"} => Armed(v)' /\ AnswerAs(v)'
    <3>1. Armed(v) => Permitted(v)
      BY DEF Armed
    <3> QED BY <1>3, <1>4, <1>6, <3>1 DEF FieldRequest
  <2>4. v.op = "record" => Recorded(v)'
    BY <1>5, <1>6 DEF FieldRequest
  <2> QED BY <2>1, <2>2, <2>3, <2>4 DEF FieldRequest
<1> QED BY <1>1, <1>2, <1>3, <1>4, <1>5, <1>6

LEMMA FieldsGoOn ==
    ASSUME KnowledgeInv, FieldsInv, FieldsMoveOn, NEW r \in Requests, NEW w,
           work' = [work EXCEPT ![r] = w], w # Idle => FieldRequest(w)',
           \A b \in bindings' : b \in bindings \/ BindingSound(b)',
           filled' = [c \in Controls |-> filled'[c]],
           \A c \in Controls : \A entry \in filled'[c] :
              entry \in filled[c] \/ (entry.binding.control = c /\ Armed(entry)'),
           \A e \in executions' : e \in executions \/ Recorded(e)'
    PROVE  FieldsInv'
<1>1. \A b \in bindings' : BindingSound(b)'
  BY FieldFactsLast DEF FieldsInv
<1>2. \A c \in Controls : \A entry \in filled'[c] : entry.binding.control = c /\ Armed(entry)'
  BY FieldFactsLast DEF FieldsInv
<1>3. \A e \in executions' : Recorded(e)'
  BY FieldFactsLast DEF FieldsInv
<1>4. ASSUME NEW s \in Requests, work'[s] # Idle PROVE FieldRequest(work[s])'
  <2>1. PICK v : v = work'[s]
    OBVIOUS
  <2>2. FieldRequest(v)'
    <3>1. CASE s = r
      BY <1>4, <2>1, <3>1 DEF KnowledgeInv, KnowledgeTypes
    <3>2. CASE s # r
      <4>1. v = work[s] /\ v # Idle /\ FieldRequest(v)
        BY <1>4, <2>1, <3>2 DEF KnowledgeInv, KnowledgeTypes, FieldsInv
      <4> QED BY <4>1, FieldFactsLast
    <3> QED BY <3>1, <3>2
  <2> QED BY <2>1, <2>2 DEF FieldRequest, BindingSound, Permitted, AnswerAs, Armed, Recorded
<1> QED BY <1>1, <1>2, <1>3, <1>4 DEF FieldsInv

(* The requests of the other desks, and those that end, leave the fields be. *)
LEMMA FieldsRest ==
    ASSUME KnowledgeInv, FieldsInv, DraftsMoveOn, NEW r \in Requests, NEW ops, Continues(r, ops),
           ops \cap FieldOps \subseteq {"release"}, UNCHANGED <<bindings, executions, filled>>
    PROVE  FieldsInv'
<1>1. PICK w : work' = [work EXCEPT ![r] = w] /\ (w # Idle => w.op \in ops)
  BY DEF Continues
<1>2. w # Idle => FieldRequest(w)'
  BY <1>1 DEF FieldRequest, FieldOps
<1>3. FieldsMoveOn
  BY DEF FieldsMoveOn
<1>4. filled' = [c \in Controls |-> filled'[c]]
  BY DEF FieldsInv
<1> QED BY <1>1, <1>2, <1>3, <1>4, FieldsGoOn

LEMMA FieldsTurn ==
    ASSUME KnowledgeInv, FieldsInv, NEW r \in Requests, NEW w,
           work' = [work EXCEPT ![r] = w], w # Idle => FieldRequest(w),
           UNCHANGED <<drafts, reviewed, bindings, executions, filled>>
    PROVE  FieldsInv'
<1>1. FieldsMoveOn
  BY UntouchedDraftsMoveOn DEF FieldsMoveOn
<1>2. w # Idle => FieldRequest(w)'
  BY <1>1, FieldFactsLast
<1>3. filled' = [c \in Controls |-> filled'[c]]
  BY DEF FieldsInv
<1> QED BY <1>1, <1>2, <1>3, FieldsGoOn

LEMMA BindingBegins ==
    ASSUME KnowledgeInv, FieldsInv, NEW r \in Requests, NEW d \in Drafts, NEW c \in Controls, NEW p,
           BeginBinding(r, d, c, p)
    PROVE  FieldsInv'
<1> USE DEF answerVars, fieldVars
<1>1. PICK field :
        work' = [work EXCEPT ![r] =
                   [op |-> "bind",
                    binding |-> [draft |-> d, revision |-> drafts[d].revision,
                                 page |-> run.page, control |-> c, kind |-> field.kind,
                                 permission |-> p,
                                 print |-> ReviewPrint(d, run.page, field)]]]
  BY DEF BeginBinding, Begin
<1> DEFINE b == [draft |-> d, revision |-> drafts[d].revision,
                 page |-> run.page, control |-> c, kind |-> field.kind,
                 permission |-> p, print |-> ReviewPrint(d, run.page, field)]
           w == [op |-> "bind", binding |-> b]
<1>2. drafts[d] # NoAnswer /\ drafts[d].revision \in Nat
  BY DEF BeginBinding, KnowledgeInv, KnowledgeTypes, Draft
<1>3. BindingSound(b)
  BY <1>2 DEF BindingSound, ReviewPrint
<1> HIDE DEF b
<1>4. FieldRequest(w) /\ work' = [work EXCEPT ![r] = w]
  BY <1>1, <1>3 DEF FieldRequest, b
<1>5. UNCHANGED <<drafts, reviewed, bindings, executions, filled>>
  BY DEF BeginBinding
<1> HIDE DEF w
<1> QED BY <1>4, <1>5, FieldsTurn

LEMMA BindingIsAdded ==
    ASSUME KnowledgeInv, FieldsInv, NEW r \in Requests, AddBinding(r)
    PROVE  FieldsInv'
<1>1. FieldRequest(work[r]) /\ work[r].op = "bind"
  BY DEF AddBinding, Doing, FieldsInv
<1>2. PICK b : b = work[r].binding
  OBVIOUS
<1>3. BindingSound(b)
  BY <1>1, <1>2 DEF FieldRequest
<1>4. /\ bindings' = bindings \cup {b} /\ work' = [work EXCEPT ![r] = Idle]
      /\ UNCHANGED <<drafts, reviewed, executions, filled>>
  BY <1>2 DEF AddBinding, Finish, answerVars
<1>5. FieldsMoveOn
  BY <1>4, UntouchedDraftsMoveOn DEF FieldsMoveOn
<1>6. BindingSound(b)'
  BY <1>3, <1>5, FieldFactsLast
<1>7. filled' = [c \in Controls |-> filled'[c]]
  BY <1>4 DEF FieldsInv
<1> QED BY <1>4, <1>5, <1>6, <1>7, FieldsGoOn

LEMMA ExecutionBegins ==
    ASSUME KnowledgeInv, FieldsInv, NEW r \in Requests, NEW b \in bindings, BeginExecution(r, b)
    PROVE  FieldsInv'
<1> USE DEF answerVars, fieldVars
<1> DEFINE w == [op |-> "observe", binding |-> b, value |-> drafts[b.draft].value]
<1>1. FieldRequest(w) /\ work' = [work EXCEPT ![r] = w]
  BY DEF BeginExecution, Begin, FieldRequest, Permitted, AnswerAs
<1>2. UNCHANGED <<drafts, reviewed, bindings, executions, filled>>
  BY DEF BeginExecution
<1> HIDE DEF w
<1> QED BY <1>1, <1>2, FieldsTurn

(* The answer and the control are as they were reviewed: the value is one a *)
(* user saved at the bound revision, and no human must handle the control.  *)
LEMMA StillAsBoundArms ==
    ASSUME KnowledgeInv, FieldsInv, NEW w, Permitted(w), AnswerAs(w), StillAsBound(w.binding)
    PROVE  Armed(w)
<1>1. PICK b, shape : b = w.binding /\ shape = live.shape[b.control]
  OBVIOUS
<1>2. BindingSound(b)
  BY <1>1 DEF Permitted, FieldsInv
<1>3. /\ Operable(shape, b.kind)
      /\ ReviewPrint(b.draft, b.page, Field(shape)) = b.print /\ b.print.compatible
  BY <1>1 DEF StillAsBound
<1>4. b.kind \in Executable /\ ~shape.legal
  BY <1>3 DEF Operable
<1>5. /\ b.print.revision = drafts[b.draft].revision /\ b.print.status = drafts[b.draft].status
      /\ b.print.field = Field(shape)
  BY <1>3 DEF ReviewPrint
<1>c. Compatible(AnswerOf(b.draft), Field(shape))
  <2>1. ReviewPrint(b.draft, b.page, Field(shape)).compatible
    BY <1>3
  <2> QED BY <2>1, Zenon DEF ReviewPrint
<1>6. ~b.print.field.legal
  BY <1>4, <1>5 DEF Field
<1>7. drafts[b.draft].status \in {"REVIEWED", "PROMOTED"}
  BY <1>c DEF Compatible, AnswerOf
<1>8. drafts[b.draft].revision = b.revision /\ drafts[b.draft].value = w.value
  BY <1>1, <1>2, <1>5 DEF BindingSound, AnswerAs
<1>9. drafts[b.draft] # NoAnswer /\ b.draft \in Drafts
  BY <1>2 DEF BindingSound
<1>10. \E saved \in reviewed :
          /\ saved.draft = b.draft /\ saved.value = drafts[b.draft].value
          /\ saved.revision = IF drafts[b.draft].status = "PROMOTED"
                              THEN drafts[b.draft].revision - 1 ELSE drafts[b.draft].revision
  BY <1>7, <1>9 DEF KnowledgeInv, DraftsSound
<1> QED BY <1>1, <1>4, <1>5, <1>6, <1>8, <1>10 DEF Armed

LEMMA ExecutionGoesOn ==
    ASSUME KnowledgeInv, FieldsInv, NEW r \in Requests,
           ObserveLive(r) \/ Arm(r) \/ Release(r)
    PROVE  FieldsInv'
<1> USE DEF answerVars, fieldVars
<1>1. PICK w : w = work[r]
  OBVIOUS
<1>2. w # Idle /\ FieldRequest(w)
  BY <1>1 DEF ObserveLive, Arm, Release, Doing, FieldsInv
<1>3. UNCHANGED <<drafts, reviewed, bindings, executions, filled>>
  BY DEF ObserveLive, Arm, Release
<1>4. ASSUME NEW op \in {"arm", "enter", "release"}, Onward(r, op),
             op # "release" => Armed(w) /\ AnswerAs(w)
      PROVE  FieldsInv'
  <2> DEFINE v == [op |-> op, binding |-> w.binding, value |-> w.value]
  <2>1. work' = [work EXCEPT ![r] = v] /\ v.op = op /\ v.binding = w.binding /\ v.value = w.value
    BY <1>1, <1>4 DEF Onward, Goes
  <2> HIDE DEF v
  <2>2. FieldRequest(v)
    BY <1>4, <2>1 DEF FieldRequest, Armed, AnswerAs, Permitted
  <2> QED BY <1>3, <2>1, <2>2, FieldsTurn
<1>5. CASE ObserveLive(r)
  <2>1. Permitted(w) /\ AnswerAs(w)
    BY <1>1, <1>2, <1>5 DEF ObserveLive, Doing, FieldRequest
  <2>2. CASE Finish(r)
    BY <1>3, <2>2, FieldsTurn DEF Finish
  <2>3. CASE StillAsBound(w.binding) /\ Onward(r, "arm")
    BY <1>4, <2>1, <2>3, StillAsBoundArms
  <2>4. CASE Onward(r, "release")
    BY <1>4, <2>4
  <2> QED BY <1>1, <1>5, <2>2, <2>3, <2>4 DEF ObserveLive
<1>6. CASE Arm(r)
  <2>1. Armed(w) /\ AnswerAs(w)
    BY <1>1, <1>2, <1>6 DEF Arm, Doing, FieldRequest
  <2> QED BY <1>4, <1>6, <2>1 DEF Arm
<1>7. CASE Release(r)
  BY <1>3, <1>7, FieldsTurn DEF Release, Finish
<1> QED BY <1>5, <1>6, <1>7

LEMMA FieldIsEntered ==
    ASSUME KnowledgeInv, FieldsInv, NEW r \in Requests, Enter(r)
    PROVE  FieldsInv'
<1> USE DEF answerVars, fieldVars
<1>1. PICK w : w = work[r]
  OBVIOUS
<1>2. w # Idle /\ w.op = "enter" /\ Armed(w) /\ AnswerAs(w)
  BY <1>1 DEF Enter, Doing, FieldsInv, FieldRequest
<1>3. w.binding \in bindings /\ w.binding.control \in Controls /\ Permitted(w)
  BY <1>2 DEF Armed, Permitted, FieldsInv, BindingSound
<1>4. UNCHANGED <<drafts, reviewed, bindings, executions>>
  BY DEF Enter
<1>5. ASSUME NEW v \in BOOLEAN, v => filled'[w.binding.control] # {},
             Goes(r, [op |-> "record", binding |-> w.binding, value |-> w.value, verified |-> v]),
             FieldsMoveOn, filled' = [c \in Controls |-> filled'[c]],
             \A c \in Controls : \A entry \in filled'[c] :
                entry \in filled[c] \/ (entry.binding.control = c /\ Armed(entry)')
      PROVE  FieldsInv'
  <2> DEFINE x == [op |-> "record", binding |-> w.binding, value |-> w.value, verified |-> v]
  <2>1. /\ work' = [work EXCEPT ![r] = x] /\ x.op = "record" /\ x.binding = w.binding
        /\ x.value = w.value /\ x.verified = v
    BY <1>5 DEF Goes
  <2> HIDE DEF x
  <2>2. Permitted(w)' /\ AnswerAs(w)'
    BY <1>2, <1>3, <1>5, FieldFactsLast
  <2>3. FieldRequest(x)'
    BY <1>5, <2>1, <2>2 DEF FieldRequest, Recorded, Permitted, AnswerAs
  <2> QED BY <1>4, <1>5, <2>1, <2>3, FieldsGoOn
<1>6. CASE /\ filled' = filled
           /\ \/ Goes(r, [op |-> "record", binding |-> w.binding, value |-> w.value,
                           verified |-> FALSE])
              \/ Onward(r, "release")
  <2>1. FieldsMoveOn /\ filled' = [c \in Controls |-> filled'[c]]
    BY <1>4, <1>6, UntouchedDraftsMoveOn DEF FieldsMoveOn, FieldsInv
  <2>2. CASE Onward(r, "release")
    <3> DEFINE x == [op |-> "release", binding |-> w.binding, value |-> w.value]
    <3>1. work' = [work EXCEPT ![r] = x] /\ FieldRequest(x)
      BY <1>1, <2>2 DEF Onward, Goes, FieldRequest
    <3> HIDE DEF x
    <3> QED BY <1>4, <1>6, <3>1, FieldsTurn
  <2> QED BY <1>5, <1>6, <2>1, <2>2
<1>7. CASE /\ filled' = [filled EXCEPT ![w.binding.control] =
                           {[binding |-> w.binding, value |-> w.value]}]
           /\ \E v \in BOOLEAN :
                 Goes(r, [op |-> "record", binding |-> w.binding, value |-> w.value, verified |-> v])
  <2> DEFINE new == [binding |-> w.binding, value |-> w.value]
  <2>1. new.binding = w.binding /\ new.value = w.value /\ Armed(new)
    BY <1>2 DEF Armed, Permitted
  <2>2. filled' = [filled EXCEPT ![w.binding.control] = {new}]
    BY <1>7
  <2> HIDE DEF new
  <2>3. filled' = [c \in Controls |-> filled'[c]]
    BY <2>2 DEF FieldsInv
  <2>4. \A c \in Controls : filled'[c] = IF c = w.binding.control THEN {new} ELSE filled[c]
    BY <2>2 DEF FieldsInv
  <2>5. FieldsMoveOn
    BY <1>4, <2>4, UntouchedDraftsMoveOn DEF FieldsMoveOn
  <2>6. Armed(new)'
    BY <2>1, <2>5, FieldFactsLast
  <2>7. \A c \in Controls : \A entry \in filled'[c] :
           entry \in filled[c] \/ (entry.binding.control = c /\ Armed(entry)')
    BY <2>1, <2>4, <2>6
  <2>8. filled'[w.binding.control] # {}
    BY <1>3, <2>4
  <2> QED BY <1>5, <1>7, <2>3, <2>5, <2>7, <2>8
<1> QED BY <1>1, <1>6, <1>7 DEF Enter

LEMMA ExecutionIsRecorded ==
    ASSUME KnowledgeInv, FieldsInv, NEW r \in Requests, RecordExecution(r)
    PROVE  FieldsInv'
<1>1. PICK w : w = work[r]
  OBVIOUS
<1>2. w # Idle /\ Recorded(w)
  BY <1>1 DEF RecordExecution, Doing, FieldsInv, FieldRequest
<1> DEFINE new == [binding |-> w.binding, value |-> w.value, verified |-> w.verified]
<1>3. new.binding = w.binding /\ new.value = w.value /\ new.verified = w.verified
  OBVIOUS
<1>4. Recorded(new)
  BY <1>2, <1>3 DEF Recorded, Permitted, AnswerAs
<1>5. UNCHANGED <<drafts, reviewed, bindings, filled>> /\ executions' \subseteq executions \cup {new}
  BY <1>1 DEF RecordExecution, answerVars
<1> DEFINE v == [op |-> "release", binding |-> w.binding, value |-> w.value]
<1>6. work' = [work EXCEPT ![r] = v] /\ v.op = "release"
  BY <1>1 DEF RecordExecution, Onward, Goes
<1> HIDE DEF new, v
<1>7. FieldsMoveOn
  BY <1>5, UntouchedDraftsMoveOn DEF FieldsMoveOn
<1>8. Recorded(new)' /\ FieldRequest(v)'
  BY <1>4, <1>6, <1>7, FieldFactsLast DEF FieldRequest
<1>9. filled' = [c \in Controls |-> filled'[c]]
  BY <1>5 DEF FieldsInv
<1> QED BY <1>5, <1>6, <1>7, <1>8, <1>9, FieldsGoOn

LEMMA FieldsStart ==
    ASSUME Init
    PROVE  FieldsInv
BY DEF Init, FieldsInit, RequestsInit, FieldsInv

LEMMA NoFieldWork ==
    ASSUME FieldsInv, UNCHANGED <<work, drafts, reviewed, bindings, executions, filled>>
    PROVE  FieldsInv'
BY DEF FieldsInv, FieldRequest, BindingSound, Permitted, AnswerAs, Armed, Recorded

LEMMA FieldsSurviveStop ==
    ASSUME FieldsInv, Crash, UNCHANGED <<drafts, reviewed, bindings, executions, filled>>
    PROVE  FieldsInv'
<1>1. work' = [r \in Requests |-> Idle]
  BY DEF Crash
<1> QED BY <1>1 DEF FieldsInv, BindingSound, Permitted, AnswerAs, Armed, Recorded

LEMMA FieldsStep ==
    ASSUME KnowledgeInv, FieldsInv, [Next]_vars
    PROVE  FieldsInv'
<1> USE DEF fieldVars, answerVars
<1>a. ASSUME NEW r \in Requests, NEW ops, Abandon(r, ops),
             UNCHANGED <<drafts, reviewed, bindings, executions, filled>>
      PROVE  FieldsInv'
  BY <1>a, AbandonContinues, UntouchedDraftsMoveOn, FieldsRest
<1>b. ASSUME NEW r \in Requests, ReviewClaims(r) \/ KeepLibrary(r) \/ KeepDocuments(r) \/ ReviewReadiness(r),
             UNCHANGED fieldVars
      PROVE  FieldsInv'
  <2>1. UNCHANGED <<drafts, reviewed>>
    <3>1. ReviewClaims(r) \/ KeepLibrary(r) => UNCHANGED <<drafts, reviewed>>
      BY DEF ReviewClaims, BeginReview, SaveClaim, IndexClaim, KeepLibrary, BeginAdd, BeginUpdate,
             AddAnswer, UpdateAnswer
    <3> QED BY <1>b, <3>1, DocumentsContinue, ReadinessContinues DEF answerRows
  <2>2. \/ Continues(r, {"addAnswer", "updateAnswer"})
        \/ Continues(r, {"saveClaim", "indexClaim"})
        \/ Continues(r, {"writeFile", "addBundle", "select", "capture"})
        \/ Continues(r, {"approve"})
    BY <1>b, LibraryContinues, ClaimsContinue, DocumentsContinue, ReadinessContinues
  <2>3. DraftsMoveOn
    BY <2>1, UntouchedDraftsMoveOn
  <2> QED BY <1>b, <2>2, <2>3, FieldsRest DEF FieldOps
<1>c. ASSUME NEW r \in Requests, KeepDrafts(r), UNCHANGED fieldVars
      PROVE  FieldsInv'
  <2>1. Continues(r, {"addDraft", "saveDraft", "promote"}) /\ DraftsMoveOn
    BY <1>c, DraftsContinue, KeptDraftsMoveOn
  <2> QED BY <1>c, <2>1, FieldsRest DEF FieldOps
<1>1. CASE Reviewing
  BY <1>1, <1>a, <1>b DEF Reviewing
<1>2. CASE Answering
  BY <1>2, <1>a, <1>b, <1>c DEF Answering
<1>3. CASE Collecting
  BY <1>3, <1>a, <1>b DEF Collecting
<1>4. CASE Preparing
  <2>1. ASSUME \/ \E d \in Documents : LoseFile(d)
               \/ \E p \in Postings : ImportPosting(p),
               UNCHANGED fieldVars
        PROVE  FieldsInv'
    BY <2>1, NoFieldWork DEF LoseFile, ImportPosting, evidenceVars, knowledgeVars
  <2> QED BY <1>4, <1>a, <1>b, <2>1 DEF Preparing
<1>5. CASE Filling
  <2>1. ASSUME NEW r \in Requests, FillFields(r) PROVE FieldsInv'
    BY <2>1, BindingBegins, BindingIsAdded, ExecutionBegins, ExecutionGoesOn, FieldIsEntered,
       ExecutionIsRecorded DEF FillFields
  <2>2. CASE PageMoves \/ CapturePage \/ TakeOver
    BY <1>5, <2>2, NoFieldWork DEF Filling, PageMoves, CapturePage, TakeOver, knowledgeVars
  <2> QED BY <1>5, <1>a, <1>c, <2>1, <2>2 DEF Filling
<1>6. CASE Stop
  BY <1>6, FieldsSurviveStop DEF Stop
<1>7. CASE UNCHANGED vars
  BY <1>7, NoFieldWork DEF vars, knowledgeVars
<1> QED BY <1>1, <1>2, <1>3, <1>4, <1>5, <1>6, <1>7 DEF Next

(* Bindings, executions and entered values stay sound while answers are     *)
(* revised, pages change and two requests drive one browser session.        *)
THEOREM FieldsStaySound == Spec => [](KnowledgeInv /\ FieldsInv)
<1> DEFINE Inv == KnowledgeInv /\ FieldsInv
<1>1. Init => Inv
  BY KnowledgeStarts, FieldsStart
<1>2. Inv /\ [Next]_vars => Inv'
  BY KnowledgeStep, FieldsStep
<1> HIDE DEF Inv
<1>3. Spec => []Inv
  BY <1>1, <1>2, PTL DEF Spec
<1> QED BY <1>3 DEF Inv

(* Automation enters only what a user reviewed, where it is permitted, and  *)
(* a verified execution tells of such an entry (field_execution.execute).   *)
THEOREM FieldsAreFilledAsReviewed == Spec => []FilledAsReviewed
<1>1. FieldsInv => FilledAsReviewed
  BY DEF FieldsInv, Armed, Permitted, Recorded, FilledAsReviewed
<1> QED BY <1>1, FieldsStaySound, PTL

(* What the coverage review concludes from a binding, it concludes from one *)
(* of this page and control that is fresh, permitted and, for the verified  *)
(* class, executed.                                                         *)
LEMMA CoverageRestsOnABinding ==
    ASSUME NEW control, NEW current, NEW stale, NEW fresh, NEW done,
           Coverage(control, current, stale, fresh, done) \in {"ALREADY_VERIFIED", "READY_TO_EXECUTE"}
    PROVE  /\ ~KeptForUser(control)
           /\ \E b \in current :
                 /\ fresh[b] /\ b.permission = "AUTOFILL_ALLOWED"
                 /\ Coverage(control, current, stale, fresh, done) = "ALREADY_VERIFIED" => done[b]
<1>1. ~KeptForUser(control) /\ ~control.satisfied /\ control.located /\ current # {}
      /\ ~(Cardinality(current) > 1)
  BY DEF Coverage
<1>2. PICK b : b = CHOOSE x \in current : TRUE
  OBVIOUS
<1>3. b \in current
  BY <1>1, <1>2
<1>4. Coverage(control, current, stale, fresh, done) =
        CASE ~fresh[b] -> "STALE_BINDING"
          [] fresh[b] /\ b.permission # "AUTOFILL_ALLOWED" -> "MANUAL_REQUIRED"
          [] OTHER -> IF done[b] THEN "ALREADY_VERIFIED" ELSE "READY_TO_EXECUTE"
  BY <1>1, <1>2 DEF Coverage
<1>5. fresh[b] /\ b.permission = "AUTOFILL_ALLOWED"
  BY <1>4
<1>6. Coverage(control, current, stale, fresh, done) = "ALREADY_VERIFIED" => done[b]
  BY <1>4, <1>5
<1> QED BY <1>1, <1>3, <1>5, <1>6

(* The coverage review tells the truth about the answers as they are now    *)
(* (field_coverage.review).                                                 *)
THEOREM CoverageIsTrue == Spec => []CoverageTellsTheTruth
<1>1. ASSUME KnowledgeInv, FieldsInv PROVE CoverageTellsTheTruth
  <2> SUFFICES ASSUME NEW c \in Controls
               PROVE  /\ CoverageOf(c) = "ALREADY_VERIFIED" =>
                            \E e \in executions :
                               /\ e.verified /\ e.binding.control = c /\ e.binding.page = run.page
                               /\ e.value = drafts[e.binding.draft].value
                      /\ CoverageOf(c) = "READY_TO_EXECUTE" =>
                            \E b \in bindings :
                               /\ b.control = c /\ b.permission = "AUTOFILL_ALLOWED"
                               /\ drafts[b.draft].revision = b.revision
                               /\ ~run.observed[c].legal /\ run.observed[c].kind \in Executable
    BY DEF CoverageTellsTheTruth
  <2>1. ASSUME CoverageOf(c) \in {"ALREADY_VERIFIED", "READY_TO_EXECUTE"}
        PROVE  /\ ~KeptForUser(run.observed[c])
               /\ \E b \in Here(c) :
                     /\ drafts[b.draft].revision = b.revision /\ b.permission = "AUTOFILL_ALLOWED"
                     /\ CoverageOf(c) = "ALREADY_VERIFIED" => Verified(b)
    <3> DEFINE fresh == [b \in Here(c) |-> drafts[b.draft].revision = b.revision]
               done == [b \in Here(c) |-> Verified(b)]
               stale == \E b \in bindings : b.control = c
    <3>1. CoverageOf(c) = Coverage(run.observed[c], Here(c), stale, fresh, done)
      BY DEF CoverageOf
    <3>2. \A b \in Here(c) : (fresh[b] <=> drafts[b.draft].revision = b.revision)
                             /\ (done[b] <=> Verified(b))
      OBVIOUS
    <3> HIDE DEF fresh, done, stale
    <3> QED BY <2>1, <3>1, <3>2, CoverageRestsOnABinding
  <2>2. ASSUME CoverageOf(c) = "ALREADY_VERIFIED"
        PROVE  \E e \in executions :
                  /\ e.verified /\ e.binding.control = c /\ e.binding.page = run.page
                  /\ e.value = drafts[e.binding.draft].value
    <3>1. PICK b \in Here(c) : drafts[b.draft].revision = b.revision /\ Verified(b)
      BY <2>1, <2>2
    <3>2. PICK e \in executions : e.binding = b /\ e.verified
      BY <3>1 DEF Verified
    <3>3. AnswerAs(e)
      BY <1>1, <3>2 DEF FieldsInv, Recorded
    <3> QED BY <3>1, <3>2, <3>3 DEF AnswerAs, Here
  <2>3. ASSUME CoverageOf(c) = "READY_TO_EXECUTE"
        PROVE  \E b \in bindings :
                  /\ b.control = c /\ b.permission = "AUTOFILL_ALLOWED"
                  /\ drafts[b.draft].revision = b.revision
                  /\ ~run.observed[c].legal /\ run.observed[c].kind \in Executable
    BY <2>1, <2>3 DEF Here, KeptForUser
  <2> QED BY <2>2, <2>3
<1> QED BY <1>1, FieldsStaySound, PTL

----------------------------------------------------------------------------
(* Readiness.  A review is only ever appended, so what it says of the      *)
(* reviews before it is said for good: a qualification judges exactly the  *)
(* lines of the requirements it names, and cites claims of the candidate   *)
(* it was approved against, at least one unless the verdict is UNKNOWN.    *)

IsList(s) == s \in Seq({s[i] : i \in DOMAIN s})

Judged(q, requirements) ==
    /\ q.requirements \in DOMAIN requirements
    /\ DOMAIN q.findings = DOMAIN requirements[q.requirements].items
    /\ \A s \in DOMAIN q.findings :
          /\ \A c \in q.findings[s].claims : \E row \in q.candidate : row[1] = c
          /\ q.findings[s].status # "UNKNOWN" => q.findings[s].claims # {}

Progressed(p, at, history) ==
    /\ at \in 0..4
    /\ history = [i \in 1..at |-> States[i]]
    /\ p = NoPosting => at = 0

ReviewsSound(of) ==
    /\ DOMAIN of = Kinds
    /\ \A kind \in Kinds :
          /\ IsList(of[kind])
          /\ \A i \in DOMAIN of[kind] : of[kind][i].seen = i - 1
    /\ \A i \in DOMAIN of["QUALIFICATION"] :
          Judged(of["QUALIFICATION"][i], of["REQUIREMENTS"])

ReadinessInv == Progressed(posting, state, events) /\ ReviewsSound(reviews)

LEMMA AppendIsList ==
    ASSUME NEW s, IsList(s), NEW x
    PROVE  /\ IsList(Append(s, x))
           /\ Len(s) \in Nat /\ DOMAIN s = 1..Len(s)
           /\ Len(Append(s, x)) = Len(s) + 1
           /\ DOMAIN Append(s, x) = 1..(Len(s) + 1)
           /\ \A i \in 1..Len(s) : Append(s, x)[i] = s[i]
           /\ Append(s, x)[Len(s) + 1] = x
<1> DEFINE S == {s[i] : i \in DOMAIN s} \cup {x}
<1>1. s \in Seq({s[i] : i \in DOMAIN s})
  BY DEF IsList
<1>2. s \in Seq(S) /\ x \in S
  <2>1. \A i \in 1..Len(s) : s[i] \in S
    BY <1>1
  <2> QED BY <1>1, <2>1
<1> HIDE DEF S
<1>3. /\ Len(s) \in Nat /\ DOMAIN s = 1..Len(s)
      /\ Len(Append(s, x)) = Len(s) + 1
      /\ DOMAIN Append(s, x) = 1..(Len(s) + 1)
      /\ \A i \in 1..Len(s) : Append(s, x)[i] = s[i]
      /\ Append(s, x)[Len(s) + 1] = x
      /\ Append(s, x) \in Seq(S)
  BY <1>2
<1> DEFINE t == Append(s, x)
<1>4. t \in Seq(S) /\ DOMAIN t = 1..Len(t) /\ Len(t) \in Nat
  BY <1>2, <1>3
<1> HIDE DEF t
<1>5. t \in Seq({t[i] : i \in DOMAIN t})
  <2>1. t = [i \in 1..Len(t) |-> t[i]]
    BY <1>4
  <2>2. \A i \in 1..Len(t) : t[i] \in {t[j] : j \in DOMAIN t}
    BY <1>4
  <2> QED BY <1>4, <2>1, <2>2
<1> QED BY <1>3, <1>5 DEF IsList, t

\* A review is appended to the reviews of its kind.
LEMMA ReviewIsAppended ==
    ASSUME NEW kind \in Kinds, NEW review, ReviewsSound(reviews), Record(kind, review),
           review.seen = Len(reviews[kind]),
           kind = "QUALIFICATION" => Judged(review, reviews["REQUIREMENTS"])
    PROVE  /\ ReviewsSound(reviews')
           /\ reviews'[kind][Len(reviews'[kind])] = review
           /\ \A k \in Kinds \ {kind} : reviews'[k] = reviews[k]
<1> DEFINE before == reviews[kind]
           after == reviews'[kind]
           n == Len(before)
<1>1. /\ DOMAIN reviews = Kinds
      /\ \A k \in Kinds : /\ IsList(reviews[k])
                          /\ \A i \in DOMAIN reviews[k] : reviews[k][i].seen = i - 1
      /\ \A i \in DOMAIN reviews["QUALIFICATION"] :
            Judged(reviews["QUALIFICATION"][i], reviews["REQUIREMENTS"])
  BY DEF ReviewsSound
<1>2. /\ DOMAIN reviews' = Kinds
      /\ after = Append(before, review)
      /\ \A k \in Kinds \ {kind} : reviews'[k] = reviews[k]
  BY <1>1 DEF Record
<1>3. /\ IsList(after)
      /\ n \in Nat /\ DOMAIN before = 1..n
      /\ Len(after) = n + 1 /\ DOMAIN after = 1..(n + 1)
      /\ \A i \in 1..n : after[i] = before[i]
      /\ after[n + 1] = review
  <2>1. IsList(before)
    BY <1>1
  <2> QED BY <1>2, <2>1, AppendIsList
<1>4. after[Len(after)] = review
  BY <1>3
<1> HIDE DEF before, after, n
<1>5. ASSUME NEW k \in Kinds
      PROVE  /\ IsList(reviews'[k])
             /\ \A i \in DOMAIN reviews'[k] : reviews'[k][i].seen = i - 1
  <2>1. CASE k # kind
    <3>1. reviews'[k] = reviews[k]
      BY <1>2, <2>1
    <3> QED BY <1>1, <3>1
  <2>2. CASE k = kind
    <3>1. ASSUME NEW i \in 1..(n + 1)
          PROVE  after[i].seen = i - 1
      <4>1. CASE i \in 1..n
        BY <4>1, <1>1, <1>3 DEF before
      <4>2. CASE i = n + 1
        BY <4>2, <1>3 DEF before, n
      <4> QED BY <4>1, <4>2, <1>3
    <3> QED BY <3>1, <2>2, <1>3 DEF after
  <2> QED BY <2>1, <2>2
<1>6. ASSUME NEW i \in DOMAIN reviews'["QUALIFICATION"]
      PROVE  Judged(reviews'["QUALIFICATION"][i], reviews'["REQUIREMENTS"])
  <2>1. CASE kind = "QUALIFICATION"
    <3>1. reviews'["REQUIREMENTS"] = reviews["REQUIREMENTS"]
      BY <1>2, <2>1 DEF Kinds
    <3>2. CASE i \in 1..n
      BY <3>1, <3>2, <2>1, <1>1, <1>3 DEF before, after
    <3>3. CASE i = n + 1
      BY <3>1, <3>3, <2>1, <1>3 DEF after
    <3> QED BY <3>2, <3>3, <1>3, <2>1 DEF after
  <2>2. CASE kind # "QUALIFICATION"
    <3>1. reviews'["QUALIFICATION"] = reviews["QUALIFICATION"]
      BY <1>2, <2>2 DEF Kinds
    <3>2. Judged(reviews["QUALIFICATION"][i], reviews["REQUIREMENTS"])
      BY <1>1, <3>1
    <3>3. CASE kind # "REQUIREMENTS"
      <4>1. reviews'["REQUIREMENTS"] = reviews["REQUIREMENTS"]
        BY <1>2, <3>3 DEF Kinds
      <4> QED BY <3>1, <3>2, <4>1
    <3>4. CASE kind = "REQUIREMENTS"
      <4> DEFINE q == reviews["QUALIFICATION"][i]
      <4>1. q.requirements \in 1..n /\ q.requirements \in DOMAIN after
        BY <3>2, <3>4, <1>3 DEF Judged, before
      <4>2. after[q.requirements] = reviews["REQUIREMENTS"][q.requirements]
        BY <4>1, <3>4, <1>3 DEF before
      <4> HIDE DEF q
      <4>3. Judged(q, after)
        BY <3>2, <4>1, <4>2 DEF Judged, q
      <4> QED BY <4>3, <3>1, <3>4 DEF q, after
    <3> QED BY <3>3, <3>4
  <2> QED BY <2>1, <2>2
<1>7. ReviewsSound(reviews')
  BY <1>2, <1>5, <1>6 DEF ReviewsSound
<1> QED BY <1>2, <1>4, <1>7 DEF after

\* The evidence a step to ELIGIBILITY_CHECKED or further rests on, and what
\* every step does to the workflow state.
Evidence ==
    state' > state /\ state' \in 3..4 =>
       \A s \in OfClass(reviews'["REQUIREMENTS"][Len(reviews'["REQUIREMENTS"])].items,
                        "MANDATORY") :
          LET q == reviews'["QUALIFICATION"][Len(reviews'["QUALIFICATION"])] IN
          q.approved /\ q.findings[s].claims # {} /\ q.findings[s].claims \subseteq Eligible

ReadinessGoesOn == ReadinessInv' /\ state' >= state /\ Evidence

LEMMA Advances ==
    ASSUME Progressed(posting, state, events), posting # NoPosting, posting' = posting,
           NEW target \in 0..4, Advance(target)
    PROVE  /\ Progressed(posting', state', events')
           /\ state' = IF state < target THEN target ELSE state
<1> DEFINE more == IF state < target THEN target - state ELSE 0
<1>1. state \in 0..4 /\ events = [i \in 1..state |-> States[i]]
  BY DEF Progressed
<1>2. /\ state' = IF state < target THEN target ELSE state
      /\ events' = events \o [i \in 1..more |-> States[state + i]]
  BY DEF Advance
<1>3. more \in Nat /\ state' = state + more /\ state' \in 0..4
  BY <1>1, <1>2
<1>4. events' = [i \in 1..state' |-> States[i]]
  <2>1. \A i \in 1..4 : States[i] \in {States[1], States[2], States[3], States[4]}
    OBVIOUS
  <2> DEFINE S == {States[1], States[2], States[3], States[4]}
             tail == [i \in 1..more |-> States[state + i]]
  <2>2. events \in Seq(S) /\ Len(events) = state
    <3> HIDE DEF S
    <3>1. \A i \in 1..state : States[i] \in S
      BY <1>1, <2>1 DEF S
    <3> QED BY <1>1, <3>1
  <2>3. tail \in Seq(S) /\ Len(tail) = more
    <3> HIDE DEF S
    <3>1. \A i \in 1..more : States[state + i] \in S
      BY <1>1, <1>3, <2>1 DEF S
    <3> QED BY <1>3, <3>1
  <2>4. \A i \in 1..more : tail[i] = States[state + i]
    OBVIOUS
  <2> HIDE DEF S, tail, more
  <2>5. /\ events \o tail \in Seq(S) /\ Len(events \o tail) = state + more
        /\ \A i \in 1..(state + more) :
              (events \o tail)[i] = IF i <= state THEN events[i] ELSE tail[i - state]
    BY <2>2, <2>3, <1>1, <1>3
  <2>6. \A i \in 1..(state + more) : (events \o tail)[i] = States[i]
    <3> SUFFICES ASSUME NEW i \in 1..(state + more)
                 PROVE  (events \o tail)[i] = States[i]
      OBVIOUS
    <3>1. CASE i <= state
      BY <3>1, <2>5, <1>1
    <3>2. CASE i > state
      <4>1. i - state \in 1..more /\ state + (i - state) = i
        BY <3>2, <1>1, <1>3
      <4>2. tail[i - state] = States[i]
        BY <4>1, <2>4
      <4>3. ~(i <= state)
        <5>1. i \in Int /\ state \in Int
          BY <1>1, <1>3
        <5> QED BY <3>2, <5>1
      <4> QED BY <4>2, <4>3, <2>5
    <3>3. i <= state \/ i > state
      <4>1. i \in Int /\ state \in Int
        BY <1>1, <1>3
      <4> QED BY <4>1
    <3> QED BY <3>1, <3>2, <3>3
  <2>7. events \o tail = [i \in 1..(state + more) |-> (events \o tail)[i]]
    <3> DEFINE all == events \o tail
    <3>1. all \in Seq(S) /\ Len(all) = state + more
      BY <2>5
    <3> HIDE DEF all
    <3>2. all = [i \in 1..Len(all) |-> all[i]]
      BY <3>1
    <3> QED BY <3>1, <3>2 DEF all
  <2> QED BY <2>6, <2>7, <1>2, <1>3 DEF tail
<1> HIDE DEF more
<1>5. state' = 0 => posting' # NoPosting
  OBVIOUS
<1> QED BY <1>2, <1>3, <1>4 DEF Progressed

LEMMA ReadinessRests ==
    ASSUME ReadinessInv, UNCHANGED readinessVars
    PROVE  ReadinessGoesOn
<1>1. ReadinessInv'
  BY DEF readinessVars, ReadinessInv
<1>2. state \in Int /\ state' = state
  BY DEF readinessVars, ReadinessInv, Progressed
<1> QED BY <1>1, <1>2 DEF ReadinessGoesOn, Evidence

LEMMA PostingIsImported ==
    ASSUME ReadinessInv, NEW p \in Postings, p # NoPosting, ImportPosting(p)
    PROVE  ReadinessGoesOn
<1>1. /\ state = 0 /\ state' = 1 /\ events' = <<States[1]>> /\ posting' = p
      /\ reviews' = reviews
  BY DEF ImportPosting, ReadinessInv, Progressed
<1>2. events' = [i \in 1..1 |-> States[i]]
  <2>1. <<States[1]>> = [i \in 1..1 |-> States[1]]
    OBVIOUS
  <2> QED BY <1>1, <2>1
<1>3. Progressed(posting', state', events')
  BY <1>1, <1>2 DEF Progressed
<1>4. ReviewsSound(reviews')
  BY <1>1 DEF ReadinessInv
<1> QED BY <1>1, <1>3, <1>4 DEF ReadinessGoesOn, ReadinessInv, Evidence

LEMMA RequirementsAreApproved ==
    ASSUME ReadinessInv, NEW r \in Requests, ApproveRequirements(r)
    PROVE  ReadinessGoesOn
<1> DEFINE new == [seen |-> work[r].view.prior, input |-> work[r].input, view |-> work[r].view,
                   source |-> posting, items |-> work[r].input]
<1>1. /\ Record("REQUIREMENTS", new)
      /\ work[r].view = RequirementsView(work[r].input)
      /\ posting' = posting /\ state' = state /\ events' = events
  BY DEF ApproveRequirements, RequirementsStand
<1>2. new.seen = Len(reviews["REQUIREMENTS"])
  BY <1>1 DEF RequirementsView
<1> HIDE DEF new
<1>3. ReviewsSound(reviews')
  BY <1>1, <1>2, ReviewIsAppended DEF ReadinessInv, Kinds
<1>4. Progressed(posting', state', events') /\ state \in Int
  BY <1>1 DEF ReadinessInv, Progressed
<1> QED BY <1>1, <1>3, <1>4 DEF ReadinessGoesOn, ReadinessInv, Evidence

\* What stays of a review until the next of its kind.
LEMMA LastReviewExists ==
    ASSUME ReviewsSound(reviews), NEW kind \in Kinds, Reviewed(kind)
    PROVE  /\ Len(reviews[kind]) \in DOMAIN reviews[kind]
           /\ Last(kind) = reviews[kind][Len(reviews[kind])]
<1>1. IsList(reviews[kind])
  BY DEF ReviewsSound
<1>2. /\ reviews[kind] \in Seq({reviews[kind][i] : i \in DOMAIN reviews[kind]})
      /\ reviews[kind] # <<>>
  BY <1>1 DEF IsList, Reviewed
<1> QED BY <1>2 DEF Last

\* A qualification that qualifies has each mandatory line supported by a claim.
LEMMA QualifiedIsSupported ==
    ASSUME NEW items, NEW findings, Qualifies(items, findings), DOMAIN findings = DOMAIN items,
           \A s \in DOMAIN findings :
              findings[s].status # "UNKNOWN" => findings[s].claims # {}
    PROVE  \A s \in OfClass(items, "MANDATORY") : s \in DOMAIN findings /\ findings[s].claims # {}
BY DEF Qualifies, OfClass

\* Claims a qualification cites that holds now are eligible now.
LEMMA CitedAreEligible ==
    ASSUME NEW q, NEW requirements, Judged(q, requirements), q.candidate = CandidateView,
           NEW s \in DOMAIN q.findings
    PROVE  q.findings[s].claims \subseteq Eligible
<1> SUFFICES ASSUME NEW c \in q.findings[s].claims
             PROVE  c \in Eligible
  OBVIOUS
<1>1. PICK row \in CandidateView : row[1] = c
  BY DEF Judged
<1>2. PICK e \in Eligible : row = <<e, claims[e]>>
  BY <1>1 DEF CandidateView
<1> QED BY <1>1, <1>2

LEMMA QualificationIsApproved ==
    ASSUME ReadinessInv, NEW r \in Requests, ApproveQualification(r)
    PROVE  ReadinessGoesOn
<1> DEFINE new == [seen |-> work[r].view.prior, input |-> work[r].input, view |-> work[r].view,
                   requirements |-> work[r].view.requirements,
                   candidate |-> work[r].view.candidate,
                   findings |-> work[r].input.findings, approved |-> work[r].input.clear]
           findings == work[r].input.findings
           clear == work[r].input.clear
           items == Last("REQUIREMENTS").items
           reached == IF clear THEN 3 ELSE 2
<1>1. /\ Record("QUALIFICATION", new)
      /\ work[r].view = QualificationView(findings)
      /\ Reviewed("REQUIREMENTS")
      /\ FindingsAllowed(findings, Eligible)
      /\ clear => Qualifies(items, findings)
      /\ posting # NoPosting /\ posting' = posting
      /\ IF Evaluable(items) THEN Advance(reached) ELSE UNCHANGED <<state, events>>
  BY DEF ApproveQualification, QualificationStands, ValidRequirements, Supported
<1>2. /\ new.seen = Len(reviews["QUALIFICATION"])
      /\ new.requirements = Len(reviews["REQUIREMENTS"])
      /\ new.candidate = CandidateView
      /\ new.findings = findings /\ new.approved = clear
  BY <1>1 DEF QualificationView
<1> HIDE DEF new
<1>3. /\ Len(reviews["REQUIREMENTS"]) \in DOMAIN reviews["REQUIREMENTS"]
      /\ items = reviews["REQUIREMENTS"][Len(reviews["REQUIREMENTS"])].items
  BY <1>1, LastReviewExists DEF ReadinessInv, Kinds
<1>4. /\ DOMAIN findings = DOMAIN items
      /\ \A s \in DOMAIN findings :
            /\ findings[s].claims \subseteq Eligible
            /\ findings[s].status # "UNKNOWN" => findings[s].claims # {}
  BY <1>1 DEF FindingsAllowed
<1>5. Judged(new, reviews["REQUIREMENTS"])
  <2>1. ASSUME NEW s \in DOMAIN findings, NEW c \in findings[s].claims
        PROVE  \E row \in CandidateView : row[1] = c
    <3>1. c \in Eligible
      BY <2>1, <1>4
    <3>2. <<c, claims[c]>> \in CandidateView
      BY <3>1 DEF CandidateView
    <3> QED BY <3>2
  <2> HIDE DEF findings, items
  <2> QED BY <2>1, <1>2, <1>3, <1>4 DEF Judged
<1>6. ReviewsSound(reviews) /\ Progressed(posting, state, events)
  BY DEF ReadinessInv
<1>7. /\ ReviewsSound(reviews')
      /\ reviews'["QUALIFICATION"][Len(reviews'["QUALIFICATION"])] = new
      /\ reviews'["REQUIREMENTS"] = reviews["REQUIREMENTS"]
  <2>1. "QUALIFICATION" \in Kinds /\ "REQUIREMENTS" \in Kinds \ {"QUALIFICATION"}
    BY DEF Kinds
  <2> QED BY <1>1, <1>2, <1>5, <1>6, <2>1, ReviewIsAppended
<1>8. /\ Progressed(posting', state', events')
      /\ state \in 0..4
      /\ state' = state \/ state' = IF state < reached THEN reached ELSE state
  <2>1. CASE Evaluable(items)
    <3>1. reached \in 0..4
      OBVIOUS
    <3> HIDE DEF reached, items
    <3>2. Advance(reached)
      BY <1>1, <2>1
    <3> QED BY <3>1, <3>2, <1>1, <1>6, Advances DEF Progressed
  <2>2. CASE ~Evaluable(items)
    <3>1. state' = state /\ events' = events
      BY <2>2, <1>1
    <3> QED BY <3>1, <1>1, <1>6 DEF Progressed
  <2> QED BY <2>1, <2>2
<1>9. Evidence
  <2> SUFFICES ASSUME state' > state, state' \in 3..4,
                      NEW s \in OfClass(items, "MANDATORY")
               PROVE  clear /\ findings[s].claims # {} /\ findings[s].claims \subseteq Eligible
    BY <1>2, <1>3, <1>7 DEF Evidence
  <2>1. clear
    BY <1>8
  <2> HIDE DEF findings, items, clear
  <2>2. Qualifies(items, findings)
    BY <1>1, <2>1
  <2>3. s \in DOMAIN findings /\ findings[s].claims # {}
    BY <2>2, <1>4, QualifiedIsSupported
  <2> QED BY <2>1, <2>3, <1>4
<1> QED BY <1>7, <1>8, <1>9 DEF ReadinessGoesOn, ReadinessInv

\* What a cleared qualification stands for.
LEMMA ClearedRestsOnFacts ==
    ASSUME ReadinessInv, Cleared
    PROVE  LET q == Last("QUALIFICATION") IN
           /\ q.approved
           /\ \A s \in OfClass(Last("REQUIREMENTS").items, "MANDATORY") :
                 q.findings[s].claims # {} /\ q.findings[s].claims \subseteq Eligible
<1> DEFINE q == Last("QUALIFICATION")
           items == Last("REQUIREMENTS").items
           of == reviews["REQUIREMENTS"]
<1>1. /\ Reviewed("REQUIREMENTS") /\ Reviewed("QUALIFICATION")
      /\ q.requirements = Len(of) /\ q.candidate = CandidateView
      /\ Qualifies(items, q.findings) /\ q.approved
  BY DEF Cleared, ValidRequirements, ValidQualification
<1>2. "QUALIFICATION" \in Kinds /\ "REQUIREMENTS" \in Kinds /\ ReviewsSound(reviews)
  BY DEF Kinds, ReadinessInv
<1>3. /\ Len(reviews["QUALIFICATION"]) \in DOMAIN reviews["QUALIFICATION"]
      /\ q = reviews["QUALIFICATION"][Len(reviews["QUALIFICATION"])]
      /\ items = of[Len(of)].items
  BY <1>1, <1>2, LastReviewExists
<1>4. Judged(q, of)
  BY <1>2, <1>3 DEF ReviewsSound
<1> HIDE DEF q, items, of
<1>5. /\ DOMAIN q.findings = DOMAIN items
      /\ \A s \in DOMAIN q.findings :
            q.findings[s].status # "UNKNOWN" => q.findings[s].claims # {}
  BY <1>1, <1>3, <1>4 DEF Judged
<1>6. \A s \in OfClass(items, "MANDATORY") :
         s \in DOMAIN q.findings /\ q.findings[s].claims # {}
  BY <1>1, <1>5, QualifiedIsSupported
<1>7. \A s \in OfClass(items, "MANDATORY") : q.findings[s].claims \subseteq Eligible
  BY <1>1, <1>4, <1>6, CitedAreEligible
<1> QED BY <1>1, <1>6, <1>7 DEF q, items

LEMMA ResumeIsApproved ==
    ASSUME ReadinessInv, NEW r \in Requests, ApproveResume(r)
    PROVE  ReadinessGoesOn
<1> DEFINE new == [seen |-> work[r].view.prior, input |-> work[r].input, view |-> work[r].view,
                   requirements |-> Len(reviews["REQUIREMENTS"]),
                   qualification |-> Len(reviews["QUALIFICATION"]),
                   candidate |-> CandidateView, inventory |-> InventoryView,
                   document |-> work[r].input]
<1>1. /\ Record("SELECTION", new)
      /\ work[r].view = ResumeView
      /\ Cleared
      /\ posting # NoPosting /\ posting' = posting
      /\ Advance(4)
  BY DEF ApproveResume, ResumeStands, Supported
<1>2. new.seen = Len(reviews["SELECTION"])
  BY <1>1 DEF ResumeView
<1> HIDE DEF new
<1>3. ReviewsSound(reviews) /\ Progressed(posting, state, events) /\ state \in 0..4
  BY DEF ReadinessInv, Progressed
<1>4. /\ ReviewsSound(reviews')
      /\ reviews'["QUALIFICATION"] = reviews["QUALIFICATION"]
      /\ reviews'["REQUIREMENTS"] = reviews["REQUIREMENTS"]
  <2>1. /\ "SELECTION" \in Kinds /\ "REQUIREMENTS" \in Kinds \ {"SELECTION"}
        /\ "QUALIFICATION" \in Kinds \ {"SELECTION"}
    BY DEF Kinds
  <2> QED BY <1>1, <1>2, <1>3, <2>1, ReviewIsAppended
<1>5. /\ Progressed(posting', state', events')
      /\ state' = IF state < 4 THEN 4 ELSE state
  BY <1>1, <1>3, Advances
<1>6. Evidence
  BY <1>1, <1>4, ClearedRestsOnFacts DEF Evidence, Last
<1> QED BY <1>3, <1>4, <1>5, <1>6 DEF ReadinessGoesOn, ReadinessInv

----------------------------------------------------------------------------
LEMMA ReadinessStarts == ASSUME Init PROVE ReadinessInv
<1>1. posting = NoPosting /\ state = 0 /\ events = <<>> /\ reviews = [k \in Kinds |-> <<>>]
  BY DEF Init, ReadinessInit
<1>2. Progressed(posting, state, events)
  <2>1. <<>> = [i \in 1..0 |-> States[i]]
    OBVIOUS
  <2> QED BY <1>1, <2>1 DEF Progressed
<1>3. ReviewsSound(reviews)
  <2>1. \A k \in Kinds : reviews[k] = <<>>
    BY <1>1
  <2>2. IsList(<<>>) /\ DOMAIN <<>> = {}
    BY DEF IsList
  <2>3. "QUALIFICATION" \in Kinds /\ DOMAIN reviews = Kinds
    BY <1>1 DEF Kinds
  <2> QED BY <2>1, <2>2, <2>3 DEF ReviewsSound
<1> QED BY <1>2, <1>3 DEF ReadinessInv

LEMMA ReadinessStep ==
    ASSUME ReadinessInv, [Next]_vars
    PROVE  ReadinessGoesOn
<1>1. CASE UNCHANGED readinessVars
  BY <1>1, ReadinessRests
<1>2. ASSUME NEW r \in Requests, ReviewReadiness(r)
      PROVE  ReadinessGoesOn
  <2>1. CASE ApproveRequirements(r) \/ ApproveQualification(r) \/ ApproveResume(r)
    BY <2>1, RequirementsAreApproved, QualificationIsApproved, ResumeIsApproved
  <2>2. ASSUME NEW kind, NEW input, NEW view, Hold(r, kind, input, view)
        PROVE  ReadinessGoesOn
    BY <2>2, ReadinessRests DEF Hold
  <2>3. CASE Refuse(r)
    BY <2>3, ReadinessRests DEF Refuse
  <2>4. ASSUME NEW items \in RequirementChoices, PreviewRequirements(r, items)
        PROVE  ReadinessGoesOn
    BY <2>2, <2>4 DEF PreviewRequirements
  <2>5. ASSUME NEW findings, NEW clear, PreviewQualification(r, findings, clear)
        PROVE  ReadinessGoesOn
    BY <2>2, <2>5 DEF PreviewQualification
  <2>6. ASSUME NEW d \in Documents, PreviewResume(r, d)
        PROVE  ReadinessGoesOn
    BY <2>2, <2>6 DEF PreviewResume
  <2> QED BY <1>2, <2>1, <2>3, <2>4, <2>5, <2>6 DEF ReviewReadiness
<1>3. ASSUME NEW p \in Postings, ImportPosting(p)
      PROVE  ReadinessGoesOn
  BY <1>3, PostingIsImported, ReadinessAssumption
<1>4. CASE Preparing
  BY <1>4, <1>1, <1>2, <1>3 DEF Preparing
<1>5. CASE Reviewing \/ Answering \/ Collecting \/ Filling \/ Stop
  BY <1>5, <1>1 DEF Reviewing, Answering, Collecting, Filling, Stop
<1>6. CASE UNCHANGED vars
  BY <1>6, <1>1 DEF vars
<1> QED BY <1>4, <1>5, <1>6 DEF Next

\* The reviews of a posting in every behaviour: JobReadinessRepository only
\* appends them, each against what its author had seen, and moves the
\* application forward through the states of States with an event for each.
THEOREM ReadinessStaysSound == Spec => []ReadinessInv
<1>1. Init => ReadinessInv
  BY ReadinessStarts
<1>2. ReadinessInv /\ [Next]_vars => ReadinessInv'
  BY ReadinessStep DEF ReadinessGoesOn
<1> QED BY <1>1, <1>2, PTL DEF Spec

\* No approval overrides a review its author had not seen: _append refuses
\* a preview whose prior review is not the latest, so the reviews of a kind
\* are numbered by what their previews saw.
THEOREM ApprovalsFollowTheLatest == Spec => []ApprovalsSeeTheLatest
<1>1. ReadinessInv => ApprovalsSeeTheLatest
  BY DEF ReadinessInv, ReviewsSound, ApprovalsSeeTheLatest
<1> QED BY <1>1, ReadinessStaysSound, PTL

\* A snapshot that says READY rests on claims that are locked, permitted and
\* readable at that moment, and on the resume that was approved: status
\* compares the fingerprints of the reviews with the rows as they are now.
THEOREM ReadyIsTrue == Spec => []ReadyRestsOnLockedFacts
<1>1. ASSUME ReadinessInv, Status = "READY"
      PROVE  /\ Cleared
             /\ selected = Last("SELECTION").document
  <2>1. Supported /\ Reviewed("REQUIREMENTS") /\ ValidRequirements
    BY <1>1 DEF Status
  <2>2. /\ Reviewed("QUALIFICATION") /\ ValidQualification
        /\ Qualifies(Last("REQUIREMENTS").items, Last("QUALIFICATION").findings)
        /\ Last("QUALIFICATION").approved
        /\ Reviewed("SELECTION") /\ ValidSelection
    BY <1>1, <2>1 DEF Status
  <2> QED BY <2>1, <2>2 DEF Cleared, ValidSelection
<1>2. ReadinessInv => ReadyRestsOnLockedFacts
  BY <1>1, ClearedRestsOnFacts DEF ReadyRestsOnLockedFacts
<1> QED BY <1>2, ReadinessStaysSound, PTL

\* The workflow moves only on evidence that holds as the step commits:
\* _require_qualification and the claims' fingerprint are read in the
\* transaction that records the approval and its events.
THEOREM AdvancesRestOnEvidence == Spec => AdvancesOnEvidence
<1>1. ReadinessInv /\ [Next]_vars =>
         (UNCHANGED readinessVars \/
          (/\ Evidence
           /\ state' >= state
           /\ events' = [i \in 1..state' |-> States[i]]))
  BY ReadinessStep DEF ReadinessGoesOn, ReadinessInv, Progressed
<1>2. ReadinessInv /\ [Next]_vars =>
         [/\ state' > state /\ state' \in 3..4 =>
               \A s \in OfClass(reviews'["REQUIREMENTS"][Len(reviews'["REQUIREMENTS"])].items,
                                "MANDATORY") :
                  LET q == reviews'["QUALIFICATION"][Len(reviews'["QUALIFICATION"])] IN
                  q.approved /\ q.findings[s].claims # {} /\ q.findings[s].claims \subseteq Eligible
          /\ state' >= state
          /\ events' = [i \in 1..state' |-> States[i]]]_readinessVars
  BY <1>1 DEF Evidence
<1> QED BY <1>2, ReadinessStaysSound, PTL DEF Spec, AdvancesOnEvidence
=============================================================================
