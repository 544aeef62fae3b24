SPECIFICATION Spec
CONSTANTS
    a1 = a1
    a2 = a2
    Actor = {a1}
    Linked = {}
    Timeouts = {2}
    Requests = 3
CHECK_DEADLOCK FALSE
PROPERTY OneDeadline
