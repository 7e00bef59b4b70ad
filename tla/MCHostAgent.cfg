CONSTANTS
    Replies <- TwoSlots
    Burst = 10
    Limit = 200
SPECIFICATION FairSpec
INVARIANTS
    HostTypeOK
    InOrderOnce
    SourceWithinTwice
    ExitAfterReading
PROPERTY AwakeSends
CHECK_DEADLOCK FALSE
