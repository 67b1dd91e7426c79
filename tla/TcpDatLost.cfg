CONSTANTS
    Size = 3
    MaxBlock = 2
    MaxBytes = 6
    MaxDelivered = 6
    Backlog = 3
SPECIFICATION Spec
CHECK_DEADLOCK FALSE
INVARIANT NothingLost
