\* Liveness, the execution slot and the histories; slots longer than a tick
CONSTANTS
    urgent = urgent
    minor = minor
    walk = walk
    call = call
    Idle = Idle
    Recommendations = {minor}
    Spontaneous = {walk}
    Disturbers = {call}
    Priority <- MCPriority
    Lead <- MCLead
    Validity = 2
    Slot = 2
SPECIFICATION FairSpec
PROPERTY HistoriesFollowMachines
PROPERTY ImplementsExecutionSlot
PROPERTY OffersAreSettled
PROPERTY UncontendedBecomesReady
