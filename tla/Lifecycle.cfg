SPECIFICATION ReportingSpec
CONSTANTS
    rule = rule
    none = none
    s1 = s1
    s2 = s2
    Sources = {s1, s2}
    InScope = {s1}
    Rule = rule
    MaxGaps = 1
    MaxChanges = 3
    Policies <- MCPolicies
    GateChanges = 2
    GateGaps = 1
    Slots = 3
    Windows <- MCWindows
    Lateness = 1
    LogWindow = 2
    MaxStale = 1
    MaxEdits = 1
    None = none
INVARIANTS FindingsAreTrue NothingIsMissed RecoveryIsTrue ExitIsTrue MaintenanceIsDeclared
PROPERTIES HealedWorldCloses RecoveryIsNew HealthyAgain
