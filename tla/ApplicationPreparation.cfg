SPECIFICATION Spec
CONSTANTS
    c1 = c1
    c2 = c2
    a1 = a1
    d1 = d1
    doc1 = doc1
    doc2 = doc2
    form = form
    outside = outside
    box = box
    r1 = r1
    r2 = r2
    Requests = {r1, r2}
SYMMETRY Symmetry
CONSTANTS
    Idle = Idle
    Claims <- TheClaims
    Library = {a1}
    Drafts = {d1}
    Values <- SmallValues
    Words = {"yes", "Yes", "No", "cut"}
    KeyOf <- SameKey
    KindOf <- YesNo
    RulesOf <- NoRules
    LimitOf <- Limits
    UsesGiven = {"APPLICATIONS"}
    MaxVersion = 2
    MaxRevision = 3
    MaxEdition = 2
    NoChunk = NoChunk
    NoAnswer = NoAnswer
    NoValue = NoValue
    Documents = {doc1, doc2}
    Uploads = {u1}
    ClaimsOf <- Proposals
    MaxAudits = 1
    NoDocument = NoDocument
    Postings = {p1}
    Spans = {s1}
    Classes = {"MANDATORY", "AMBIGUOUS"}
    Verdicts = {"SUPPORTED", "UNKNOWN"}
    MaxReviews = 3
    MaxChoices = 1
    NoPosting = NoPosting
    Pages = {form, outside}
    Foreign = {outside}
    Controls = {box}
    Shapes <- SmallShapes
    FirstPage = form
    FirstShape <- Radio
    NoControl = NoControl
    Imported = {doc1}
    Served = {c1}
    SavedAnswers <- Saved
    Desks = {"claims", "answers", "documents", "readiness", "fields"}
INVARIANTS
    NoReviewIsLost
    LibraryFollowsItsHistory
    
    
    
    ApprovalsSeeTheLatest
    ReadyRestsOnLockedFacts
PROPERTY AdvancesOnEvidence
CHECK_DEADLOCK FALSE
