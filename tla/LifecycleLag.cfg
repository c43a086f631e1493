SPECIFICATION Spec
CONSTANTS
    rule = rule
    s1 = s1
    s2 = s2
    Sources = {s1, s2}
    InScope = {s1}
    Rule = rule
    MaxGaps = 2
    MaxChanges = 3
INVARIANT LagRecoveryIsTrue
