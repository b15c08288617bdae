SPECIFICATION Spec
CONSTANTS
    Account = {a1}
    Departing = {a1}
    Owner = {p1, p2}
    Overlap = TRUE
    StorageFails = TRUE
    Interval <- SoonIntervals
    Lease = 1
    Limit = 1
    BatchTime = 2
    Overdue = 1
    PageLimit = 2
    MaxEvent = 2
SYMMETRY Symmetry
PROPERTIES
    NothingSkipped
    CursorNeverRewinds
    LeaseHonoured
