CONSTANTS
    Callers = {driver, timer}
    Blocks = {b1, b2}
    NULL = NULL
    MaxJobs = 4
SPECIFICATION Spec
CHECK_DEADLOCK FALSE
INVARIANT TypeOK OneOwner WokenForWork InOrder RefusedInWindow NoLostWakeup
PROPERTY EventuallyDone
