SPECIFICATION Spec
CONSTANTS
    t1 = t1
    t2 = t2
    t3 = t3
    Target = {t1}
    Failing = {}
    Length = 2
    Outside = {"Drain"}
CHECK_DEADLOCK FALSE
INVARIANT DiesAfterStream
