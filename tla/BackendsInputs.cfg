SPECIFICATION QuerySpec
CONSTANTS
    nobody = nobody
    t1 = t1
    t2 = t2
    r = r
    w = w
    p = p
    r1 = r1
    r2 = r2
    r3 = r3
    ds = ds
    i = i
    a = a
    b = b
    f = f
    g = g
    h = h
    dyn = dyn
    main = main
    Tasks = {1, 2, 3, 4}
    Slots = 2
    Attempts = 2
    QueryBudget = 4
    SourceBudget = 3
    MaxCalls = 2
    Nobody = nobody
    Tables = {t1, t2}
    Remotes = {r}
    Watchlists = {w}
    Parsers = {p}
    Rules = {{r}, {t1, w}, {t1, p}}
    MaxChanges = 1
    Dynamic = {dyn}
    Functions = {f, g, h}
    Lets = {a, b}
    Main = main
    Programs <- MCPrograms
    Metadata = {{f, g, h}}
    MaxDepth = 2
    MaxWalk = 16
    RuleIds = {r1, r2, r3}
    PageSize = 1
    Streams = {ds}
    Indices = {i}
    Selections <- MCSelections
    MaxClusterChanges = 2
INVARIANTS InputsAreSeen
CHECK_DEADLOCK FALSE
