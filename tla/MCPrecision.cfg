\* Two places.
SPECIFICATION Spec
CONSTANTS
    Places = {p, q}
    p = p
    q = q
    None = 0
    Default = 120
INVARIANT OneWidthIsSimulated
