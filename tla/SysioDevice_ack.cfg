SPECIFICATION Spec
CONSTANTS
    av1 = av1
    bv1 = bv1
    tl1 = tl1
    c1 = c1
    c2 = c2
    Clients = {c1}
    ProcessIds = {1}
    Objects = {av1}
    KindOf <- OneAnalog
    HasNotificationClass = TRUE
    Values = {0, 1}
    InitialValue = 0
    AlarmHighLimit = 0
    Priorities = {1}
    EmitEvent = FALSE
    Lifetimes = {0, 1}
    Monitors = {"object"}
    TicksPerSecond = 1
    MaxWrites = 1
    MaxQueue = 1
    Unknown = Unknown
    Null = Null
INVARIANTS ReportedTransitionsCanBeAcknowledged
