CONSTANTS
    Size = 3
    MaxBlock = 2
    MaxBytes = 9
    MaxDelivered = 9
    Backlog = 5
SPECIFICATION Spec
CHECK_DEADLOCK FALSE
CONSTRAINT RacedBound
INVARIANT WriterInPool
INVARIANT InOrderUnlessRaced
INVARIANT DrainedUnlessRaced
PROPERTY DeliveredUnlessRaced
