\* Three operations that cancel bits and feed each other, with errors of every order, infinite and NaN.
SPECIFICATION MCSpec
CONSTANTS
    Code = {k1, k2, k3}
    NoCode = NoCode
    Slots = {v1, v2}
    NoSlot = NoSlot
    Errors = {0, 1, 3}
    NaN = NaN
    Inf = Inf
    NegInf = NegInf
    Special = {NaN, Inf}
    Bits = {0, 2}
    ExactBits = {1}
    NULL = NULL
    Word = 32
    MaxSamples = 3
SYMMETRY Symmetry
INVARIANTS
    OriginsKnown
    BlameIsJust
    AverageAsLabelled
    MaxIsWorst
    IntroducedIsFair
\* The guest program may end at any time.
CHECK_DEADLOCK FALSE
