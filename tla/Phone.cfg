CONSTANTS
    Addresses = {"x"}
    Choices <- MCChoices
    Clients = {1, 2, 3, 4}
    First = 0
    Networks <- MCNetworks
    Screens = {"screen"}
    Actions = {"action"}
    Alone = TRUE
    None = None
SPECIFICATION FairSpec
INVARIANT OnlyCancelCuts
INVARIANT NothingLeaks
PROPERTY Reconnects
CHECK_DEADLOCK FALSE
