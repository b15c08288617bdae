SPECIFICATION FairSpec
CONSTANTS
    Account = {a1}
    Departing = {}
    Owner = {p1, p2, p3}
    Overlap = FALSE
    StorageFails = FALSE
    Interval <- ShortIntervals
    Lease = 2
    Limit = 2
    BatchTime = 1
    Overdue = 2
    PageLimit = 1
    MaxEvent = 2
PROPERTIES
    PlaysArrive
