SPECIFICATION Spec
CONSTANTS
    Connections <- FourConnections
    Exports = {e, f}
    Matchers = {}
    Requests = {}
    MaxRows = 1
INVARIANT NeverStuck
