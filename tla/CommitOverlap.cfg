SPECIFICATION DeploymentsSpec
CONSTANTS
    p1 = p1
    p2 = p2
    t1 = t1
    t2 = t2
    none = none
    empty = empty
    a = a
    Scans = {p1, p2}
    Candidates = {}
    Serving = {p1}
    Outputs <- ServeOutputs
    TargetOf <- OneTarget
    Targets = {t1}
    Fleet = 1
    FleetFile = FALSE
    Sources = {"s1"}
    Schemas = {empty, a}
    EmptySchema = empty
    Legacy = {}
    None = none
    Hysteresis = 2
    Serial = FALSE
    MaxRemaps = 1
INVARIANTS ConsumedOnlyIfTold PageIsEarned 
