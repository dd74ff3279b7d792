CONSTANTS
    Urls = {"a", "b", "c"}
    Hits = {1, 2, 3}
    MaxUpdates = 4
SPECIFICATION TableSpec
CHECK_DEADLOCK FALSE
INVARIANT NoRepetition
