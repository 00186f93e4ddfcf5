SPECIFICATION Spec
CONSTANTS
    None = None
    Unit = 100000
    Precision = 5
    Fills <- MCFills
    Currency = "USD"
INVARIANT OrderedFillsAreJournaled
