\* Two events of one job; three failing calls of any kind, stale marking, Stop
\* and one crash, in any order.
CONSTANTS
    job1 = job1
    dp = dp
    dc = dc
    ingest = ingest
    flush = flush
    Jobs = {job1}
    Runs = {}
    Expirable = {}
    Overdue = {job1}
    Deliveries = {dp, dc}
    NoDelivery = NoDelivery
    Event <- MCEvent
    MaxHandled = 9
    Rank <- MCRank
    ChannelSize = 1
    IngestBatch = 2
    FlushBatch = 2
    FinalBatch = 2
    Faults = {"handler", "store", "mark", "fetch", "deadline"}
    MaxFaults = 3
    MaxOffers = 1
    MayStop = TRUE
    MaxCrashes = 1
SPECIFICATION FairSpec
INVARIANTS HandledIsReflected AcceptedAccounted
PROPERTY AcceptedIsReflected
CHECK_DEADLOCK FALSE
