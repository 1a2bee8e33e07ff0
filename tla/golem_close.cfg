CONSTANTS
    MaxHops = 2
    Buffer = 2
    Buttons = {1}
SPECIFICATION Spec
CHECK_DEADLOCK FALSE
INVARIANTS CloseReleases
