\* Two Recommendations, a spontaneous Event and a disturbance
CONSTANTS
    urgent = urgent
    minor = minor
    walk = walk
    call = call
    Idle = Idle
    Recommendations = {urgent, minor}
    Spontaneous = {walk}
    Disturbers = {call}
    Priority <- MCPriority
    Lead <- MCLead
    Validity = 1
    Slot = 1
SPECIFICATION Spec
INVARIANT ContextNamesRunning
INVARIANT WindowFollowsEvent
INVARIANT MaterialisedOnce
INVARIANT PlanServesWork
