CONSTANTS
    Size = 5
    Mss = 14
    Total = 12
SPECIFICATION FairSpec
PROPERTIES
    WholeReads
    InStepAgain
CHECK_DEADLOCK FALSE
