SPECIFICATION FairSpec
CONSTANTS
    same1 = same1
    same2 = same2
    reuse = reuse
    restore = restore
    k = k
    kr = kr
    b1 = b1
    b2 = b2
    Clients = {same1, same2, reuse, restore}
    Keys = {k, kr}
    Bodies = {b1, b2}
    KeyOf <- MCKeyOf
    BodyOf <- MCBodyOf
    RestoreKeys = {kr}
    MaxFaults = 1
    None = None
INVARIANTS
    AtMostOnce
    ToldIsRecorded
    RecordMatchesEffects
PROPERTIES
    RetriesSettle
