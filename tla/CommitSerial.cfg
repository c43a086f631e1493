SPECIFICATION FairSpec
CONSTANTS
    p1 = p1
    p2 = p2
    p3 = p3
    t1 = t1
    t2 = t2
    none = none
    empty = empty
    a = a
    Scans = {p1, p2, p3}
    Candidates = {p2}
    Serving = {p3}
    Outputs <- MixedOutputs
    TargetOf <- OneTarget
    Targets = {t1}
    Fleet = 1
    FleetFile = FALSE
    Sources = {"s1"}
    Schemas = {empty, a}
    EmptySchema = empty
    Legacy <- OldFile
    None = none
    Hysteresis = 2
    Serial = TRUE
    MaxRemaps = 3
PROPERTIES ChangesAreReported CandidateKeepsHistory CatchesUp
