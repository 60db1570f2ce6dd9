\* One job and one run; every kind of event, the completed one twice; an unknown
\* action; database faults; stale marking of the job, retention of the run.
CONSTANTS
    job1 = job1
    run1 = run1
    dq = dq
    dp = dp
    dc = dc
    dx = dx
    dc2 = dc2
    ds = ds
    de = de
    du = du
    Jobs = {job1}
    Runs = {run1}
    Expirable = {run1}
    Overdue = {job1}
    Deliveries = {dq, dp, dc, dc2, dx, ds, de, du}
    NoDelivery = NoDelivery
    Event <- MCEvent
    Workers = {ingest, flush}
    DBFaults = TRUE
    MaxHandled = 1
SPECIFICATION Spec
INVARIANTS TypeOK RowsConverge ConclusionCountedOnce RunChangesAnnounced
PROPERTY RowsMoveForward
CHECK_DEADLOCK FALSE
