\* Four operations, graphs of depth two, a request and two report graphs.
SPECIFICATION MCSpec
CONSTANTS
    Ops <- Op
    NoOp = 0
    MaxLevel = 2
    MaxGraphs = 2
    MaxEntries = 3
    Values = {1, 2}
    nan = nan
    NaN = nan
    Inf = inf
    MaxMemory = 5
    MaxRequests = 1
INVARIANTS IInv GraphsWellFormed RecursionBounded ErrorsAreExplained NothingShownTwice
PROPERTY GraphsFinish
