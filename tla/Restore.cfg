SPECIFICATION Spec
CONSTANTS
    Requests = {r1}
    Attempts = {a1, a2}
    Ticks = {t1}
    MaxFaults = 2
    MaxCrashes = 1
    None = None
INVARIANTS
    ExclusiveAccess
    NeverLeftShut
    PreviousStaysOnDisk
    BackupHoldsWhatItReplaces
    LeftoversAreCleaned
PROPERTIES
    OutcomeMatchesDatabase
    AttemptsEnd
\* Every request and attempt is served once: the server may have no more to do.
CHECK_DEADLOCK FALSE
