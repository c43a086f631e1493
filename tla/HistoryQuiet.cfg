SPECIFICATION Spec
CONSTANTS
    none = none
    empty = empty
    a = a
    Schemas = {empty}
    EmptySchema = empty
    NoSchema = none
    TrackSchema = FALSE
    Buckets = 2
    Rates = {4}
    Downtime = {1}
    Warmup = 1
    Hysteresis = 2
    MinSamples = 1
    MaxSamples = 0
    DefaultCap = 2
    ZThreshold = 3
    Retention = 4
    RateScale = 420
    Horizon = 5
PROPERTY QuietNeverCounts
CHECK_DEADLOCK FALSE
