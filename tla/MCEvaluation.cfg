CONSTANTS
    Key = {"p", "q"}
    Volumes <- Sample
    Endings = {"crlf", "lf"}
    MaxLines = 2
    NumHost = 3
    Source = 2
    Dest <- DestOfKey
SPECIFICATION EvalSpec
INVARIANT CompleteIsCaptured
CHECK_DEADLOCK FALSE
