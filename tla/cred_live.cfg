SPECIFICATION FairSpec
CONSTANTS
    q1 = q1  q2 = q2  w1 = w1  w2 = w2
    Requests = {q1, q2}
    Workers = {w1, w2}
    WorkerOf <- MCWorkerOf
    Keys = {"A"}
    None = None
    Kinds = {"complete", "undated", "keyless"}
    Margin = 1
    LockTTL = 1
    MaxCall = 1
    MaxFetch = 1
    MinLife = 3
    Lifetimes = {3}
    LockZone = TRUE
    Evicts = TRUE
PROPERTIES
    EveryRequestAnswered
    CacheRecovers
