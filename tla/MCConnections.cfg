CONSTANTS
    Client <- Hosts
    MaxStarts = 2
    MaxDemands = 1
    Queue = 1
    Wrap = 2
SPECIFICATION FairSpec
INVARIANTS
    ConnTypeOK
    RepliesMoveForward
    OneLossSurvived
PROPERTIES
    EveryAccepted
    DemandsRead
CHECK_DEADLOCK FALSE
