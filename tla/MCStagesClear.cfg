\* A stage is cleared between two executions.
SPECIFICATION Spec
CONSTANTS
    s1 = s1
    s2 = s2
    x1 = x1
    x2 = x2
    StageNums = {s1}
    Addrs = {x1}
    Errors = {0, 1, 3}
    NaN = NaN
    Inf = Inf
    NULL = NULL
    Special = {}
    Clearing = TRUE
    MaxCount = 4
INVARIANT ReportsAreRanges
\* The guest program may end at any time.
CHECK_DEADLOCK FALSE
