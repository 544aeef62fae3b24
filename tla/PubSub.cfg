SPECIFICATION Spec
CONSTANTS
    ann = ann
    bob = bob
    Actor = {ann, bob}
    Targets <- Lists
    Calls = 3
    Messages = 2
CHECK_DEADLOCK FALSE
INVARIANTS TypeOK ServedThroughLatest AnswersAddUp
PROPERTIES ImplementsTopic CallsReturn Served
