SPECIFICATION Spec
CONSTANTS
    Client = {c1, c2}
    Event = {e1, e2}
    Item = {i1}
    ItemOf <- OneItem
    Media = {m1, m2}
    Custom = {x1}
SYMMETRY Symmetry
INVARIANTS
    PlayRecordedOnce
    MappingConfirmed
PROPERTIES
    ManualRoundsUntouched
    ConfirmationRecorded
    ResolutionFinal
    BookSpec
