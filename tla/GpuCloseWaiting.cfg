SPECIFICATION BuffersSpec
CONSTANTS
    Clients = {s1, s2}
    Ids = {1, 2}
    MaxObjects = 2
INVARIANT WorkerEndsFirst
CHECK_DEADLOCK FALSE
