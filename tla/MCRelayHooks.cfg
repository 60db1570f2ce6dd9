\* The first hook GitHub creates is answered without a ws_url.
CONSTANTS
    h1 = h1
    h2 = h2
    h3 = h3
    h4 = h4
    d1 = d1
    d2 = d2
    Hooks = {h1, h2}
    NoHook = NoHook
    Deliveries = {d1, d2}
    NoDelivery = NoDelivery
    MaxBackoff = 3
    MaxFaults = 1
SPECIFICATION Spec
INVARIANT PreviousHookDeleted
CHECK_DEADLOCK FALSE
