SPECIFICATION Spec
CONSTANTS
    Client = {c1}
    RoundId = {r1, r2}
    Scope = {1}
    Episode = {1, 2}
    ExtId = {1, 2}
    Time = {1, 2}
    Review = {}
    InputStatus = {"completed"}
    SeasonSize = 2
    MaxNumber = 2
    MaxVersion = 3
SYMMETRY Symmetry
INVARIANTS
    CompletionDated
    ProgressMatchesEvents
PROPERTIES
    BookSpec
