SPECIFICATION Spec
CONSTANTS
    None = None
    timed = timed
    plain = plain
    unknown = unknown
    outdated = outdated
    Calls = {c1, c2, c3, c4}
    Keys = {k1, k2, k3}
    Requests <- MCRequests
    RegistryCheck <- MCRegistryCheck
    Deadlined <- MCDeadlined
    MaxEntries = 2
    HookMayRaise = TRUE
SYMMETRY Symmetry
INVARIANT ClaimHeld
INVARIANT DuplicatesRepeatTheOutcome
INVARIANT OneRunPerRetention
CHECK_DEADLOCK FALSE
