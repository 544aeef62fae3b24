SPECIFICATION Spec
CONSTANTS
    a1 = a1
    a2 = a2
    Actor = {a1, a2}
    Linked = {a2}
    Timeouts = {1, 2}
    Requests = 3
CHECK_DEADLOCK FALSE
INVARIANTS TypeOK Guarded PunishedOnce CallsAreQueued
PROPERTIES ImplementsRegistry RegistrationEnds CallsReturn PunishedActorsDie
