CONSTANTS
    Replies <- TwoSlots
    Burst = 10
    Limit = 200
SPECIFICATION Spec
INVARIANT SlotsAcknowledged
CHECK_DEADLOCK FALSE
