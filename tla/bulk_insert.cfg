SPECIFICATION FairSpec
CONSTANTS
    Threads = {t1, t2}
    MaxCalls = 3
    Workloads = {
        {"store", "close", "failures"},
        {"store", "close", "waitid"},
        {"store", "close", "abort"},
        {"store", "close", "unencodable", "badid", "missing"},
        {"store", "waitid", "abort", "failures"},
        {"poll", "missing"}}
INVARIANTS
    StreamIsOneArray
PROPERTIES
    CloseMeansStored
    
CHECK_DEADLOCK FALSE
