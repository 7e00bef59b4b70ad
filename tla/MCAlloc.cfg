CONSTANTS
    Chunk = 50
    Cap = 100
    Port = {5001}
    Flow <- Mixed
SPECIFICATION AllocSpec
INVARIANTS
    AllocTypeOK
    HostLinks
    CorePaths
    PodCounters
    AggregateLoad
    UplinkLoad
    PodOvershoot
    FreshSlotServes
PROPERTY ContractSpec
