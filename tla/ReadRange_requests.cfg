SPECIFICATION Spec
CONSTANTS
    Peers = {"sysio", "worldiety"}
    Bits = 7
    Forms = {"all", "position", "sequence", "time"}
    Records <- SeededRecords
    References <- NearReferences
    Counts <- AllCounts
    TimeCounts <- OrdinaryTimeCounts
    Pages <- SomePages
INVARIANT AnswerIsExact
INVARIANT WalkReadsEachRecordOnce
PROPERTY WalksEnd
CHECK_DEADLOCK FALSE
