CONSTANTS
    Pids = {1, 2, 3}
    None = None
SPECIFICATION Spec
INVARIANT OneUserOfStore
PROPERTY StopsOnlyTheAsked
PROPERTY StopIsHeeded
CHECK_DEADLOCK FALSE
