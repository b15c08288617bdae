SPECIFICATION Spec
CONSTANTS
    Client = {c1, c2}
    RoundId = {r1, r2, r3}
    Scope = {0}
    Episode = {}
    ExtId = {1, 2}
    Time = {1, 2}
    Review = {}
    InputStatus = {"watching", "completed"}
    SeasonSize = 0
    MaxNumber = 3
    MaxVersion = 2
SYMMETRY Symmetry
INVARIANTS
    ScopesConsistent
    NoLostUpdate
    ProfileProjection
    CompletedMovieHasEvent
PROPERTIES
    ArchivedImmutable
    ManualStays
    LedgerSpec
