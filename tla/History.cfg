SPECIFICATION Spec
CONSTANTS
    none = none
    empty = empty
    a = a
    Schemas = {empty, a}
    EmptySchema = empty
    NoSchema = none
    TrackSchema = TRUE
    Buckets = 2
    Rates = {0, 4}
    Downtime = {5}
    Warmup = 4
    Hysteresis = 2
    MinSamples = 1
    MaxSamples = 0
    DefaultCap = 2
    ZThreshold = 3
    Retention = 3
    RateScale = 60
    Horizon = 6
INVARIANTS TypeOK LowIsSustained SamplesAreTheRecorded
PROPERTIES LowIsEarned WarmingEnds DriftIsExact
CHECK_DEADLOCK FALSE
