\* Two deliveries, three failing calls, and a hook for each runOnce these can
\* cause; the backoff reaches its maximum at the second wait.
CONSTANTS
    h1 = h1
    h2 = h2
    h3 = h3
    h4 = h4
    d1 = d1
    d2 = d2
    Hooks = {h1, h2, h3, h4}
    NoHook = NoHook
    Deliveries = {d1, d2}
    NoDelivery = NoDelivery
    MaxBackoff = 3
    MaxFaults = 3
SPECIFICATION Spec
INVARIANTS TypeOK ActiveIsConnected HooksTidied AckedWasIngested
PROPERTIES ComesBack CancelReturns
CHECK_DEADLOCK FALSE
