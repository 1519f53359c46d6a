\* Two suffixes, a buffer of three that chunks of three bypass.
SPECIFICATION Spec
CONSTANTS
    Bases <- TwoBases
    RelError = "shadow_values_relative_error"
    GraphNames = {g}
    g = g
    LastSuffix = 2
    FDs = {3, 4}
    NoFd <- MinusOne
    BufSize = 3
    Through = 2
    Lengths = {1, 3}
    MaxWrites = 3
    MaxGraphs = 2
    Foreign = Foreign
    Absent = Absent
INVARIANTS IInv OlderReportsKept
PROPERTY AppendsOnly
