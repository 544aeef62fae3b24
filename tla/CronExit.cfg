SPECIFICATION Spec
CONSTANTS
    backup = backup
    cleanup = cleanup
    hourly = hourly
    once = once
    alice = alice
    Name = {backup}
    Schedule = {hourly, once}
    Finite = {once}
    Subscriber = {alice}
    Instances = 1
    Changes = 1
CHECK_DEADLOCK FALSE
PROPERTY NothingPending
