SPECIFICATION Spec
CONSTANTS
    None = None
    Media = {1, 2}
    TitleOf <- MCTitleOf
    CutOf <- MCCutOf
    RestOf <- MCRestOf
    Tags = {1, 2}
    PartsOf <- MCPartsOf
    FirstPartsOf <- MCFirstPartsOf
    Collections = {l, k}
    CollectionNames = {n}
    Clients = {c, d}
    PageLimit = 1
    Formats = {"json", "csv"}
    MaxWrites = 3
    MaxNow = 1
    MaxRounds = 2
    MaxActive = 2
INVARIANTS ListsOnce NoLostEdit TransfersFaithful
SYMMETRY Alike
