SPECIFICATION FairSpec
CONSTANTS
    Connections <- FourConnections
    Exports = {e}
    Matchers = {m}
    Requests = {r}
    MaxRows = 1
INVARIANTS NeverStuck
PROPERTIES RequestsEnd
