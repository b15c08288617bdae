SPECIFICATION Spec
CONSTANTS
    ann = ann
    bob = bob
    n1 = n1
    n2 = n2
    None = None
    Users = {ann, bob}
    Names = {n1, n2}
    NameOf <- MCNameOf
    Requests = {r1, r2}
    FailureLimit = 2
    MaxSessions = 2
    MaxPasswords = 2
INVARIANTS OneAdministrator AuditTellsMembers BlockedAtLimit
PROPERTIES AdmittedByLastSession
SYMMETRY Alike
