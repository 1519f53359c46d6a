\* Nested stages that are cleared while they are active; one stage executed again and again.
SPECIFICATION MCSpec
CONSTANTS
    s1 = s1
    s2 = s2
    x1 = x1
    x2 = x2
    StageNums = {s1, s2}
    Addrs = {x1, x2}
    Errors = {0, 1, 3}
    NaN = NaN
    Inf = Inf
    NULL = NULL
    Special = {NaN, Inf}
    Clearing = TRUE
    MaxCount = 4
INVARIANTS
    NoStageSkipped
    TablesFollowLifecycle
    LimitIsLargestDrift
    ReportsAreRecords
\* The guest program may end at any time.
CHECK_DEADLOCK FALSE
