SPECIFICATION Spec
CONSTANTS
    None = None
    timed = timed
    plain = plain
    unknown = unknown
    outdated = outdated
    Calls = {c1, c2}
    Keys = {k1, k2}
    Requests <- MCRequests
    RegistryCheck <- MCRegistryCheck
    Deadlined <- MCDeadlined
    MaxEntries = 2
    HookMayRaise = FALSE
SYMMETRY Symmetry
INVARIANT NoOrphanedClaim
CHECK_DEADLOCK FALSE
