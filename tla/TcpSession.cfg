SPECIFICATION Spec
CONSTANTS
    client = client
    server = server
    Side = {client, server}
    Frames <- TwoTwo
    Empty = {2}
    Capacity = 2
    Stoppers = {client, server}
    Faulty = {server}
CHECK_DEADLOCK FALSE
INVARIANTS TypeOK FramesIntact
PROPERTIES ImplementsConnection AllExit EveryFrameArrives
