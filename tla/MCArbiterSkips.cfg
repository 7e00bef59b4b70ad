CONSTANTS
    Chunk = 50
    Cap = 100
    Port <- PairPort
    Flow <- PairFlow
    Client = {1, 4, 6}
    Traffic <- PairTraffic
    ReqSize = 4
SPECIFICATION Spec
INVARIANTS
    PassedOverOnlyIfFull
