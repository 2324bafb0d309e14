SPECIFICATION Spec
CONSTANTS
    q1 = q1  q2 = q2  q3 = q3  w1 = w1  w2 = w2
    Requests = {q1, q2, q3}
    Workers = {w1, w2}
    WorkerOf <- MCWorkerOf
    Keys = {"A"}
    None = None
    Kinds = {"complete", "keyless"}
    Margin = 4
    LockTTL = 1
    MaxCall = 1
    MaxFetch = 3
    MinLife = 5
    Lifetimes = {5, 7}
    LockZone = TRUE
    Evicts = FALSE
SYMMETRY MCSymmetry
INVARIANTS
    Inv
    ElectionsSpaced
    OwnSentinelNeverGates
    NoEmptyReadAfterCheck
PROPERTIES
    AuthorizedMeansUsable
