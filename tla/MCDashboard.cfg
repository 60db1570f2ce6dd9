\* Two changes of a run, a connection with a buffer of one, two pages; the user
\* does two things, one request fails and two may be in flight.
CONSTANTS
    c1 = c1
    c2 = c2
    Connections = {c1}
    BufferSize = 1
    Pages = {1, 2}
    FirstPage = 1
    MaxChanges = 2
    MaxLoads = 2
    MaxFailures = 1
    MaxTouches = 2
SPECIFICATION FairSpec
INVARIANTS TypeOK ChangeNotLost
PROPERTY UpdateReachesTable
CHECK_DEADLOCK FALSE
