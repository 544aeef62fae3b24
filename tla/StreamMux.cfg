SPECIFICATION Spec
CONSTANTS
    t1 = t1
    t2 = t2
    t3 = t3
    Target = {t1, t2, t3}
    Failing = {t1, t2, t3}
    Length = 4
    Outside = {"Stop", "Drain", "Panic"}
CHECK_DEADLOCK FALSE
INVARIANTS TypeOK EosOnce
PROPERTIES DroppedForGood ImplementsMulticast MuxEnds StreamProcessed
