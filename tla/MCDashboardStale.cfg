\* One change of a run and two connections; no request fails and the user looks on.
CONSTANTS
    c1 = c1
    c2 = c2
    Connections = {c1, c2}
    BufferSize = 1
    Pages = {1}
    FirstPage = 1
    MaxChanges = 1
    MaxLoads = 1
    MaxFailures = 0
    MaxTouches = 0
SPECIFICATION FairSpec
PROPERTY TableCatchesUp
CHECK_DEADLOCK FALSE
