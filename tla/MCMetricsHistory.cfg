\* Two days of two hours and one hour more, a server one hour east of UTC, a
\* retention of three hours and one job, whose three events may come again
\* after it was deleted, with one failing statement.
CONSTANTS
    j1 = j1
    linux = linux
    NoLabel = NoLabel
    Jobs = {j1}
    CreatedAt <- MCCreatedAt
    Labels = {linux}
    Label <- MCLabel
    Day = 2
    Offset <- MCOffset
    Retention = 3
    StaleAfter = 2
    Periods = {1, 3}
    MaxTime = 4
    MaxEvents = 3
    MaxFailures = 1
SPECIFICATION FairSpec
INVARIANTS TypeOK DemandWasReal
PROPERTIES RetentionWindow GaugesConverge PeakIsUpToDate
CHECK_DEADLOCK FALSE
