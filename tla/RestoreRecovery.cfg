\* One plan, one document, one claim, one change of authority, two operations;
\* one crash, one error and one edit anywhere.
SPECIFICATION FairSpec
CONSTANTS
    DocumentCount = 1
    DocImage <- OneImage
    Claim <- OneClaim
    MaxAuthority = 1
    Plan <- OnePlan
    Op <- TwoOps
    Absent = Absent
    Missing = Missing
    NoOp = NoOp
    NoPlan = NoPlan
    NoBackup = NoBackup
    MaxRetained = 2
    RecordRoom = 5
    MaxCrashes = 1
    MaxFailures = 1
    MaxEdits = 1
    p1 = p1
    p2 = p2
    c1 = c1
    d1 = d1
    op1 = op1
    op2 = op2
INVARIANTS
    HistoryNeverLost
    AppliedPlanHasReceipt
    
PROPERTIES
    BlockedIsEventuallyCleared
    
    ImplementsAtomicRestore
