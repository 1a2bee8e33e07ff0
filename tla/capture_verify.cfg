SPECIFICATION Spec
CONSTANTS
    NoRef = NoRef
    WordValues = 4
    d1 = d1
    d2 = d2
    Digests = {d1, d2}
    Sizes = {0, 2, 3}
    MaxLines = 2
CHECK_DEADLOCK FALSE
INVARIANT PassesExactly
