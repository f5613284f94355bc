SPECIFICATION Spec
CONSTANTS
    c1 = c1
    c2 = c2
    Clients = {c1, c2}
    Modes = {"latency", "bandwidth"}
    MSG_NUM = 3
    PERFORMANCE_COUNT = 3
    Nobody = Nobody
    MaxLoss = 2
    MaxDup = 1
INVARIANTS
    RepliesMatch
    NobodyStranded
PROPERTIES
    TestsEnd
