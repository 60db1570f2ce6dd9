\* Three deliveries, one of them permanent, each sent up to twice; two failing
\* calls of any kind, Stop and one crash, in any order.
CONSTANTS
    d1 = d1
    d2 = d2
    d3 = d3
    Deliveries = {d1, d2, d3}
    Permanent = {d3}
    Rank <- MCRank
    ChannelSize = 2
    IngestBatch = 2
    FlushBatch = 2
    FinalBatch = 2
    Faults = {"handler", "store", "mark", "fetch", "deadline"}
    MaxFaults = 2
    MaxOffers = 2
    MayStop = TRUE
    MaxCrashes = 1
SPECIFICATION Spec
INVARIANTS TypeOK PermanentNotRetried NothingForgotten ProcessedWasHandled
PROPERTY LedgerSpec
CHECK_DEADLOCK FALSE
