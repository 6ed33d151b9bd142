CONSTANTS
    Adapters <- MCAdapters
    Configurations <- MCConfigurations
    Others <- MCOthers
    Polls = 3
    PipeSize = 2
    MaxLines = 4
SPECIFICATION Spec
INVARIANTS
    TypeOK
    FailedStartsAreReported
    ServesItsFixture
    RoutesTheRightNetworks
    NotificationsFollowOneRead
    LinesAndAnswersAreInOrder
    MultipleWritesAreAnsweredTruly
    EnrollmentAnswersPartition
    AnswersTellTheirRequests
    CovNotificationsComeInPairs
    DeviceIsFoundOnce
    SimulatorIsReported
PROPERTIES
    ContractIsKept
    StartsEnd
    StopsEnd
    OperationsAreForwarded
    RequestsAreAnswered
CHECK_DEADLOCK FALSE
