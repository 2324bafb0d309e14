SPECIFICATION SigningSpec
CONSTANTS
    q1 = q1  q2 = q2  w1 = w1
    Requests = {q1, q2}
    Workers = {w1}
    WorkerOf <- OneWorker
    Keys = {A, B}
    None = None
    Kinds = {"complete"}
    Margin = 1
    LockTTL = 1
    MaxCall = 1
    MaxFetch = 1
    MinLife = 3
    Lifetimes = {3}
    LockZone = TRUE
    Evicts = TRUE
    SigningCache = TRUE
    MaxDay = 1
INVARIANTS
    SentAsSigned
    SignedWithItsOwnKey

