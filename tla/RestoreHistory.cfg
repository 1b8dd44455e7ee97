SPECIFICATION Spec
CONSTANTS
    i1 = i1
    i2 = i2
    i3 = i3
    p1 = p1
    p2 = p2
    Ids = {i1, i2, i3}
    Profiles = {p1, p2}
    Stranger = Stranger
    Null = Null
    MaxWrites <- Bounds
    MaxBackups = 1
    Desks = {"mail", "calendar", "documents", "browser", "authority", "records", "reviews"}
SYMMETRY Symmetry
INVARIANTS
    RecordedHistoryStands
    NothingIsSentTwice
    MatchingIsAdmitted
PROPERTIES
    VersionsKeepTheirBytes
CHECK_DEADLOCK FALSE
