CONSTANTS
    Chunk = 50
    Cap = 100
    Port <- MixPort
    Flow <- MixFlow
    Client = {1, 4, 9}
    Traffic <- MixTraffic
    ReqSize = 7
SPECIFICATION FairSpec
INVARIANTS
    TypeOK
    StaleSlotsEmpty
    FindsItsRequest
    SlotServesFirst
    ChunksConserved
    PriorityOrder
PROPERTIES
    AllocSpec
    AwakeDrains
