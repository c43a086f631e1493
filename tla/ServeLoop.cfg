SPECIFICATION LoopSpec
CONSTANTS
    Names = {n1, n2}
    MaxCycles = 3
    Conns = {c1, c2}
INVARIANTS LoopTypeOK NothingLeftBehind RetainedIsLatest ScrapeIsConsistent
PROPERTIES CancellationIsNotFailure StopReturns TickIsServed NeverVanishes
CHECK_DEADLOCK FALSE
