\* A delivery that is queued and one that is answered at once, each sent up to
\* twice and by either transport; two calls of any kind fail or find their
\* deadline passed; two migrations; the process lives twice, ended by a signal
\* or killed.
CONSTANTS
    good = good
    unhandled = unhandled
    Deliveries = {good, unhandled}
    Payload <- MCPayload
    Rank <- MCRank
    ChannelSize = 1
    IngestBatch = 2
    FlushBatch = 1
    FinalBatch = 1
    Faults = {"handler", "store", "mark", "fetch", "deadline"}
    MaxFaults = 2
    MaxOffers = 2
    WebSocket = TRUE
    Migrations = 2
    MaxLives = 2
SPECIFICATION FairSpec
INVARIANTS TypeOK MigratedOnce ClosedDBIsUnused RelayedIsKept RelayedIsSettled
PROPERTY SignalEnds
CHECK_DEADLOCK FALSE
