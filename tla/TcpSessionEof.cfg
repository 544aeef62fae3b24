SPECIFICATION Spec
CONSTANTS
    client = client
    server = server
    Side = {client, server}
    Frames <- OneWay
    Empty = {}
    Capacity = 2
    Stoppers = {client}
    Faulty = {}
CHECK_DEADLOCK FALSE
INVARIANT ReadFramesHandedOver
