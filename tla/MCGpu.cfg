SPECIFICATION GpuSpec
CONSTANTS
    Sessions = {s1, s2}
    Pipes = {gp, pp}
    Submitters = {s2}
    MaxJobs = 3
    Clients = {c1, c2}
    Ids = {1, 2}
    MaxObjects = 2
INVARIANTS
    NoLostWakeup  
PROPERTIES CompleteMeansDone AccessMeansDone WaitsReturn
CHECK_DEADLOCK FALSE
