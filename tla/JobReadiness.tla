----------------------------- MODULE JobReadiness -----------------------------
(***************************************************************************)
(* JobReadinessService over JobReadinessRepository: a saved public posting *)
(* is reviewed in three steps - which lines of it are requirements, which  *)
(* claims support them, which resume goes with it.  A user previews a step *)
(* and approves the preview later.  An approval takes the database's       *)
(* writer reservation first, then reads everything again and compares it   *)
(* with the fingerprint the user saw: it is one step here.  Claims,        *)
(* documents and files change between the two.                             *)
(***************************************************************************)
EXTENDS ApplicationDocuments

CONSTANTS
    Postings,      \* versions of the public posting that may be saved
    Spans,         \* lines of the posting
    Classes,       \* the classes users give requirements ...
    Verdicts,      \* ... and the verdicts they give the candidate on them
    MaxReviews,    \* bound on the reviews of requirements and qualification together
    MaxChoices,    \* bound on the choices of a resume
    NoPosting

ASSUME ReadinessAssumption ==
    /\ Classes \subseteq {"MANDATORY", "PREFERRED", "AMBIGUOUS"}
    /\ Verdicts \subseteq {"SUPPORTED", "CONTRADICTED", "UNKNOWN"}
    /\ NoPosting \notin Postings

VARIABLES
    posting,       \* the saved job and its discovery snapshot
    state,         \* the application's workflow state, as an index of States
    events,        \* workflow_events of the application, oldest first
    reviews        \* job_readiness_reviews: a sequence for each kind

readinessVars == <<posting, state, events, reviews>>

\* _EARLY_STATES: nothing in the program moves such an application further.
States == <<"DEDUPLICATED", "SCORED", "ELIGIBILITY_CHECKED", "DOCUMENTS_SELECTED">>
Kinds == {"REQUIREMENTS", "QUALIFICATION", "SELECTION"}

Last(kind) == reviews[kind][Len(reviews[kind])]
Reviewed(kind) == reviews[kind] # <<>>
Room(kind) ==
    IF kind = "SELECTION" THEN Len(reviews[kind]) < MaxChoices
    ELSE Len(reviews["REQUIREMENTS"]) + Len(reviews["QUALIFICATION"]) < MaxReviews

ReadinessInit ==
    /\ posting = NoPosting
    /\ state = 0
    /\ events = <<>>
    /\ reviews = [k \in Kinds |-> <<>>]

\* import_reviewed: the first saved posting stays; the same import again
\* finds it, another version of it changes nothing.
ImportPosting(p) ==
    /\ jobSource = "greenhouse-public" /\ posting = NoPosting
    /\ posting' = p
    /\ state' = 1 /\ events' = <<States[1]>>
    /\ UNCHANGED <<evidenceVars, reviews>>

\* _source: a saved posting whose application is in an early state.
Supported == posting # NoPosting /\ state \in DOMAIN States

----------------------------------------------------------------------------
(* What the fingerprints cover.                                            *)

\* Mutant of CandidateView: the fingerprint covers what the database says of
\* the claims, not whether their source can still be read.
CandidateRows == {<<c, claims[c]>> : c \in Claims}

\* _claims: the claims a finding may cite, and the facts of them that the
\* candidate fingerprint covers.
Eligible == {c \in Tailorable : SourceReadable(c)}
CandidateView == {<<c, claims[c]>> : c \in Eligible}

\* _document_fingerprint: the inventory of resumes; a damaged file is an error.
InventoryView == {<<d, documents[d]>> : d \in ResumesIn(documents)}
InventoryReadable == \A d \in ResumesIn(documents) : files[d] = "stored"

\* The fingerprint of a preview: its content and the review it would follow.
RequirementsView(items) == [items |-> items, source |-> posting, prior |-> Len(reviews["REQUIREMENTS"])]

ValidRequirements ==
    Reviewed("REQUIREMENTS") /\ Last("REQUIREMENTS").source = posting

QualificationView(findings) ==
    [findings |-> findings, requirements |-> Len(reviews["REQUIREMENTS"]),
     candidate |-> CandidateView, prior |-> Len(reviews["QUALIFICATION"])]

ResumeView == [inventory |-> InventoryView, selection |-> SelectionView,
               requirements |-> Len(reviews["REQUIREMENTS"]),
               qualification |-> Len(reviews["QUALIFICATION"]),
               prior |-> Len(reviews["SELECTION"])]

----------------------------------------------------------------------------
(* The rules of a qualification.                                           *)

Finding == [status : Verdicts, claims : SUBSET Claims]

\* Every requirement is judged, on eligible claims; what is unknown cites none.
FindingsAllowed(findings, eligible) ==
    /\ DOMAIN findings = DOMAIN Last("REQUIREMENTS").items
    /\ \A s \in DOMAIN findings :
          /\ findings[s].claims \subseteq eligible
          /\ (findings[s].status = "UNKNOWN") <=> (findings[s].claims = {})

OfClass(items, class) == {s \in DOMAIN items : items[s] = class}
Evaluable(items) == OfClass(items, "MANDATORY") # {} /\ OfClass(items, "AMBIGUOUS") = {}
Qualifies(items, findings) ==
    /\ Evaluable(items)
    /\ \A s \in OfClass(items, "MANDATORY") : findings[s].status = "SUPPORTED"

\* _valid_qualification and what _require_qualification adds.
ValidQualification ==
    /\ Reviewed("QUALIFICATION")
    /\ Last("QUALIFICATION").requirements = Len(reviews["REQUIREMENTS"])
    /\ Last("QUALIFICATION").candidate = CandidateView
Cleared ==
    /\ ValidRequirements /\ ValidQualification
    /\ Qualifies(Last("REQUIREMENTS").items, Last("QUALIFICATION").findings)
    /\ Last("QUALIFICATION").approved

----------------------------------------------------------------------------
(* Previews: the user holds one, with the input it was made from.          *)

Hold(r, kind, input, view) ==
    /\ Room(kind)
    /\ Begin(r, [op |-> "approve", kind |-> kind, input |-> input, view |-> view])
    /\ UNCHANGED <<claimVars, answerVars, documentVars, readinessVars>>

PreviewRequirements(r, items) ==
    /\ Supported
    /\ Hold(r, "REQUIREMENTS", items, RequirementsView(items))

PreviewQualification(r, findings, clear) ==
    /\ Supported /\ ValidRequirements
    /\ FindingsAllowed(findings, Eligible)
    /\ Hold(r, "QUALIFICATION", [findings |-> findings, clear |-> clear],
            QualificationView(findings))

PreviewResume(r, d) ==
    /\ Supported /\ Cleared /\ InventoryReadable
    /\ d \in Recommended
    /\ Hold(r, "SELECTION", d, ResumeView)

----------------------------------------------------------------------------
(* Approvals.                                                              *)

\* The response may be lost: the client keeps the approval and repeats it.
Answered(r) == Finish(r) \/ work' = work

\* advance: through every early state up to the target, an event for each.
Advance(target) ==
    /\ state' = IF state < target THEN target ELSE state
    /\ events' = events \o [i \in 1..(IF state < target THEN target - state ELSE 0) |->
                               States[state + i]]

Approving(r, kind) == Doing(r, "approve") /\ work[r].kind = kind
Record(kind, review) == reviews' = [reviews EXCEPT ![kind] = Append(@, review)]

\* A review of the same request is on record already.
Repeated(r) ==
    \E i \in DOMAIN reviews[work[r].kind] :
        /\ reviews[work[r].kind][i].seen = work[r].view.prior
        /\ reviews[work[r].kind][i].input = work[r].input
        /\ reviews[work[r].kind][i].view = work[r].view

\* Mutant of RequirementsStand: the review the preview would follow is not
\* part of the fingerprint.
RequirementsLookAlike(r) ==
    LET now == RequirementsView(work[r].input) IN
    work[r].view.items = now.items /\ work[r].view.source = now.source

\* The preview the user approved is the preview made now.
RequirementsStand(r) == work[r].view = RequirementsView(work[r].input)

ApproveRequirements(r) ==
    /\ Approving(r, "REQUIREMENTS") /\ Supported
    /\ ~Repeated(r)
    /\ RequirementsStand(r)
    /\ Room("REQUIREMENTS")
    /\ Record("REQUIREMENTS",
              [seen |-> work[r].view.prior, input |-> work[r].input, view |-> work[r].view,
               source |-> posting, items |-> work[r].input])
    /\ Answered(r)
    /\ UNCHANGED <<claimVars, answerVars, documentVars, posting, state, events>>

\* Mutant of QualificationStands: the approval relies on what the preview found.
QualificationAsPreviewed(r) ==
    /\ ValidRequirements
    /\ work[r].view.prior = Len(reviews["QUALIFICATION"])
    /\ work[r].view.requirements = Len(reviews["REQUIREMENTS"])
    /\ work[r].input.clear => Qualifies(Last("REQUIREMENTS").items, work[r].input.findings)

\* The qualification as it reads now, and whether the user may clear it.
QualificationStands(r) ==
    /\ ValidRequirements
    /\ FindingsAllowed(work[r].input.findings, Eligible)
    /\ work[r].view = QualificationView(work[r].input.findings)
    /\ work[r].input.clear => Qualifies(Last("REQUIREMENTS").items, work[r].input.findings)

ApproveQualification(r) ==
    /\ Approving(r, "QUALIFICATION") /\ Supported
    /\ ~Repeated(r)
    /\ QualificationStands(r)
    /\ Room("QUALIFICATION")
    /\ Record("QUALIFICATION",
              [seen |-> work[r].view.prior, input |-> work[r].input, view |-> work[r].view,
               requirements |-> work[r].view.requirements, candidate |-> work[r].view.candidate,
               findings |-> work[r].input.findings, approved |-> work[r].input.clear])
    /\ IF Evaluable(Last("REQUIREMENTS").items)
       THEN Advance(IF work[r].input.clear THEN 3 ELSE 2)
       ELSE UNCHANGED <<state, events>>
    /\ Answered(r)
    /\ UNCHANGED <<claimVars, answerVars, documentVars, posting>>

ResumeStands(r) ==
    /\ Cleared /\ InventoryReadable
    /\ work[r].view = ResumeView
    /\ work[r].input \in Recommended

ApproveResume(r) ==
    /\ Approving(r, "SELECTION") /\ Supported
    /\ ~Repeated(r)
    /\ ResumeStands(r)
    /\ Room("SELECTION") /\ Len(selections) < MaxAudits
    /\ Record("SELECTION",
              [seen |-> work[r].view.prior, input |-> work[r].input, view |-> work[r].view,
               requirements |-> Len(reviews["REQUIREMENTS"]),
               qualification |-> Len(reviews["QUALIFICATION"]),
               candidate |-> CandidateView, inventory |-> InventoryView,
               document |-> work[r].input])
    /\ Select(work[r].input)
    /\ Advance(4)
    /\ Answered(r)
    /\ UNCHANGED <<claimVars, answerVars, files, documents, jobSource, generations, submitted,
                   posting>>

\* Anything else is refused - a repeated approval included, which returns
\* the review on record while it is the latest and nothing it covers changed.
Refuse(r) ==
    /\ Doing(r, "approve")
    /\ Finish(r)
    /\ UNCHANGED <<claimVars, answerVars, documentVars, readinessVars>>

----------------------------------------------------------------------------
(* The snapshot the desktop shows.                                         *)

ValidSelection ==
    LET s == Last("SELECTION") IN
    /\ s.requirements = Len(reviews["REQUIREMENTS"])
    /\ s.qualification = Len(reviews["QUALIFICATION"])
    /\ s.candidate = CandidateView
    /\ s.document = selected
    /\ s.inventory = InventoryView

Status ==
    CASE ~Supported -> "UNSUPPORTED"
      [] Supported /\ ~Reviewed("REQUIREMENTS") -> "REQUIREMENTS_REVIEW"
      [] Supported /\ Reviewed("REQUIREMENTS") /\ ~ValidRequirements -> "STALE"
      [] OTHER ->
           IF ~Reviewed("QUALIFICATION") THEN "QUALIFICATION_REVIEW"
           ELSE IF ~ValidQualification THEN "STALE"
           ELSE IF ~Qualifies(Last("REQUIREMENTS").items, Last("QUALIFICATION").findings)
                THEN "QUALIFICATION_REVIEW"
           ELSE IF ~Last("QUALIFICATION").approved THEN "ELIGIBILITY_REVIEW"
           ELSE IF ~Reviewed("SELECTION") THEN "RESUME_REVIEW"
           ELSE IF ValidSelection THEN "READY" ELSE "STALE"

----------------------------------------------------------------------------
RequirementChoices == UNION {[S -> Classes] : S \in SUBSET Spans \ {{}}}
Judgements(S) == [S -> Finding]

ReviewReadiness(r) ==
    \/ \E items \in RequirementChoices : PreviewRequirements(r, items)
    \/ /\ Reviewed("REQUIREMENTS")
       /\ \E findings \in Judgements(DOMAIN Last("REQUIREMENTS").items), clear \in BOOLEAN :
             PreviewQualification(r, findings, clear)
    \/ \E d \in Documents : PreviewResume(r, d)
    \/ ApproveRequirements(r) \/ ApproveQualification(r) \/ ApproveResume(r)
    \/ Refuse(r)

----------------------------------------------------------------------------
(* Properties.                                                             *)

\* No approval overrides a review its author had not seen, and a repeated
\* one leaves no second record: each review follows the one its preview saw.
ApprovalsSeeTheLatest ==
    \A kind \in Kinds : \A i \in DOMAIN reviews[kind] : reviews[kind][i].seen = i - 1

\* While the snapshot says READY, every mandatory requirement is supported
\* by claims that are locked, permitted and readable now - whatever was
\* reviewed, imported or damaged since - and the selected resume is the
\* approved one.
ReadyRestsOnLockedFacts ==
    Status = "READY" =>
       /\ \A s \in OfClass(Last("REQUIREMENTS").items, "MANDATORY") :
             LET cited == Last("QUALIFICATION").findings[s].claims IN
             cited # {} /\ cited \subseteq Eligible
       /\ selected = Last("SELECTION").document

\* The workflow moves only on evidence that holds at that moment: a step to
\* ELIGIBILITY_CHECKED or DOCUMENTS_SELECTED has every mandatory requirement
\* supported by claims that are eligible as it commits, and the events are
\* the states passed through, none skipped.
AdvancesOnEvidence ==
    [][/\ state' > state /\ state' \in 3..4 =>
             \A s \in OfClass(reviews'["REQUIREMENTS"][Len(reviews'["REQUIREMENTS"])].items,
                              "MANDATORY") :
                LET q == reviews'["QUALIFICATION"][Len(reviews'["QUALIFICATION"])] IN
                q.approved /\ q.findings[s].claims # {} /\ q.findings[s].claims \subseteq Eligible
       /\ state' >= state
       /\ events' = [i \in 1..state' |-> States[i]]]_readinessVars
=============================================================================
