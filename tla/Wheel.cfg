CONSTANTS
    Targets <- MCTargets
    Garbage <- MCGarbage
    Kp = 6
    Ki = 2
    Kd = 7
    Limit = 1000
    PulseRevol = 1000
    SampleTime = 2
    PidSampleTime = 1
    TickMod = 4
    MaxEdges = 3
    MaxTicks = 5
SPECIFICATION Spec
CHECK_DEADLOCK FALSE
INVARIANT TypeOK DistanceMeasured PidIsPositional
