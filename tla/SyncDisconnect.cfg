SPECIFICATION Spec
CONSTANTS
    Account = {a1, a2}
    Departing = {a2}
    Owner = {p1}
    Overlap = FALSE
    StorageFails = FALSE
    Interval <- ShortIntervals
    Lease = 2
    Limit = 2
    BatchTime = 1
    Overdue = 1
    PageLimit = 1
    MaxEvent = 1
INVARIANT
    SchedulerSurvives
