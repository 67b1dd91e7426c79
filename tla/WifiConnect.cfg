CONSTANTS
    ours = ours
    near = near
    far = far
    APs = {ours, near, far}
    Rank <- MCRank
    Ours = {ours}
    SCAN_CACHE_NUM = 2
    MaxSessions = 2
SPECIFICATION Spec
CHECK_DEADLOCK FALSE
INVARIANT TypeOK LocksReleased DanglingOnlyAfterTimeout ReadyIsTrue
PROPERTY MainReturns ReadyReported
