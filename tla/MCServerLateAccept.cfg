\* One delivery, sent by HTTP only; nothing fails; one life of the process.
CONSTANTS
    good = good
    unhandled = unhandled
    Deliveries = {good}
    Payload <- MCPayload
    Rank <- MCRank
    ChannelSize = 1
    IngestBatch = 2
    FlushBatch = 1
    FinalBatch = 1
    Faults = {}
    MaxFaults = 0
    MaxOffers = 1
    WebSocket = FALSE
    Migrations = 0
    MaxLives = 1
SPECIFICATION Spec
PROPERTY NothingAcceptedAfterDrain
CHECK_DEADLOCK FALSE
