SPECIFICATION Spec
CONSTANTS
    a1 = a1
    a2 = a2
    Actor = {a1}
    Linked = {}
    Timeouts = {1}
    Requests = 1
CHECK_DEADLOCK FALSE
PROPERTY DeadAreCleanedUp
