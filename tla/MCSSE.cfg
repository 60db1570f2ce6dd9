\* Two types of event, two updates of one and one of the other, a fast client with a buffer of
\* two next to one that need never take an event.
CONSTANTS
    workflow = workflow
    metrics = metrics
    fast = fast
    slow = slow
    Types = {workflow, metrics}
    Clients = {fast, slow}
    Fast = {fast}
    BufferSize = 2
    MaxUpdates <- MCMaxUpdates
SPECIFICATION Spec
INVARIANTS TypeOK NewestLast LastNotMissed
PROPERTY UpdatesArrive
CHECK_DEADLOCK FALSE
