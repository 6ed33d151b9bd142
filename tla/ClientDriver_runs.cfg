SPECIFICATION FairSpec
CONSTANTS
    Drivers = {"bacnet-stack", "bacpypes3", "bacnet4j"}
    Plans <- Files
    Ids = 2
    Tries = 2
    Pages = 2
    Answerers = {"target", "other"}
    None = None
INVARIANTS TypeOK AnswersAreOwn NotificationsAreFresh VerdictsAreTrue
PROPERTIES ContractIsKept
CHECK_DEADLOCK FALSE
