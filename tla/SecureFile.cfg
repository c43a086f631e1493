SPECIFICATION FairSpec
CONSTANTS
    w1 = w1
    w2 = w2
    v1 = v1
    v2 = v2
    Writers <- MCWriters
    Values <- MCValues
    Missing = Missing
    NoFile = NoFile
    Torn = Torn
    Windows = TRUE
    MaxBusy = 1
INVARIANTS NeverPartial
PROPERTIES PrivateOnceReplaced NeverVanishes CallReturns ImplementsAtomicFile
