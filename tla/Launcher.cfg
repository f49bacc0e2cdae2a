CONSTANTS
    Order <- StartOrder
    MaxRestarts = 2
    Window = 2
    Backoff <- Delays
SPECIFICATION Spec
INVARIANT NoneForgotten
INVARIANT DownStaysDown
INVARIANT RestartBudget
INVARIANT NothingLeftBehind
PROPERTY CrashesAreAnswered
PROPERTY StopIsHonoured
