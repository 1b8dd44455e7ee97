SPECIFICATION Spec
CONSTANTS
    r1 = r1
    r2 = r2
    q1 = q1
    q2 = q2
    plain = plain
    longer = longer
    mine = mine
    draft = draft
    plan = plan
    Requests = {r1, r2}
SYMMETRY Symmetry
CONSTANTS
    Idle = Idle
    NoEvent = NoEvent
    NoChallenge = NoChallenge
    PublicTargets = {"SUBMISSION_CONFIRMED", "USER_TAKEOVER", "CLOSED"}
    MaxClicks = 2
    Questions = {q1, q2}
    Layouts = {plain, longer}
    RequiredOn <- Required
    FirstLayout = plain
    SheetKinds = {"ASSESSMENT", "QUESTIONNAIRE"}
    Desks = {"workbench", "portal", "assessment", "mail", "dialog"}
    MaxConnections = 2
    AccountOf <- OneAccount
    Drafts = {draft, plan}
    Plans = {plan}
    MaxArrived = 2
    MaxItems <- Limits
    Providers = {"gmail", "outlook"}
    NoSync = NoSync
INVARIANTS
    
    TrackedIsTrue
    
    NoMailIsSkipped
    ActsAsReviewed
CHECK_DEADLOCK FALSE
