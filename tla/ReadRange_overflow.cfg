SPECIFICATION Spec
CONSTANTS
    Peers = {"sysio"}
    Bits = 7
    Forms = {"time"}
    Records <- SeededRecords
    References <- NearReferences
    Counts <- AllCounts
    TimeCounts <- ExtremeTimeCounts
    Pages <- SomePages
INVARIANT NewerRecordsAreReturned
CHECK_DEADLOCK FALSE
