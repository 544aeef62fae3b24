SPECIFICATION Spec
CONSTANTS
    backup = backup
    cleanup = cleanup
    hourly = hourly
    once = once
    alice = alice
    Name = {backup}
    Schedule = {hourly, once}
    Finite = {once}
    Subscriber = {alice}
    Instances = 2
    Changes = 2
CHECK_DEADLOCK FALSE
INVARIANTS TypeOK KeepsBeating ScheduleAgreed OneEnding EndsAreUnderWay
PROPERTIES ImplementsJobBoard TableFollowsJobs Executes
