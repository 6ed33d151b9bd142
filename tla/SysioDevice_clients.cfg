SPECIFICATION FairSpec
CONSTANTS
    av1 = av1
    bv1 = bv1
    tl1 = tl1
    c1 = c1
    c2 = c2
    Clients = {c1, c2}
    ProcessIds = {1}
    Objects = {av1, tl1}
    KindOf <- AlarmAndLog
    HasNotificationClass = TRUE
    Values = {0, 1}
    InitialValue = 0
    AlarmHighLimit = 0
    Priorities = {1}
    EmitEvent = FALSE
    Lifetimes = {0}
    Monitors = {"pv"}
    TicksPerSecond = 1
    MaxWrites = 2
    MaxQueue = 2
    Unknown = Unknown
    Null = Null
INVARIANTS EventsFollowTheAlarm
PROPERTIES SubscribersCatchUp GateIsReleased
