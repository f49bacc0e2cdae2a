CONSTANTS
    Recommendations = {r}
    Disturbers = {d}
    Spontaneous = {s}
    MaxCopies = 2
    MaxMishaps = 2
    Idle = Idle
SPECIFICATION Spec
INVARIANT BootsUnlessAhead
INVARIANT NothingIsPending
INVARIANT ConsumedBecameEvent
INVARIANT DoubledOnlyIfCut
CHECK_DEADLOCK FALSE
