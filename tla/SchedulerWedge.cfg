\* A disturbance meets a resumed Event
CONSTANTS
    urgent = urgent
    minor = minor
    walk = walk
    call = call
    Idle = Idle
    Recommendations = {minor}
    Spontaneous = {walk}
    Disturbers = {call}
    Priority <- MCPriority
    Lead <- MCLead
    Validity = 1
    Slot = 1
SPECIFICATION Spec
INVARIANT EveryTriggerCausesACycle
