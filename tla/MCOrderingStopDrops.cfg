\* Two deliveries whose handlers may fail; no statement of the database fails.
CONSTANTS
    d1 = d1
    d2 = d2
    d3 = d3
    Deliveries = {d1, d2}
    Permanent = {}
    Rank <- MCRank
    ChannelSize = 1
    IngestBatch = 2
    FlushBatch = 1
    FinalBatch = 1
    Faults = {"handler"}
    MaxFaults = 2
    MaxOffers = 1
    MayStop = TRUE
    MaxCrashes = 0
SPECIFICATION Spec
INVARIANT NothingDropped
CHECK_DEADLOCK FALSE
