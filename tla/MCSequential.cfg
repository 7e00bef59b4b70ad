CONSTANTS
    MaxLen = 4
    MaxFlow = 3
    Key = {"p", "q"}
    Volumes <- Sample
    Endings = {"crlf", "lf"}
    MaxLines = 2
    NumHost = 3
    Source = 2
    Dest <- DestOfKey
SPECIFICATION Spec
INVARIANTS
    PrefixFinal
    LoopsMeetOrder
    CircularFirstFit
    VolumeServed
    JudgedRight
PROPERTY AllEnd
CHECK_DEADLOCK FALSE
