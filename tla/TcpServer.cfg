SPECIFICATION Spec
CONSTANTS
    ann = ann
    bob = bob
    Client = {ann, bob}
    Port = {1, 2}
    Errors = 1
CHECK_DEADLOCK FALSE
INVARIANTS TypeOK KeepsAccepting EndsForAReason
PROPERTIES ImplementsReception EndTogether AllAccepted SessionsEnd
