CONSTANTS
    MaxHops = 3
    Buffer = 2
    Buttons = {1}
SPECIFICATION FairSpec
CHECK_DEADLOCK FALSE
INVARIANTS TypeOK OneConnection BlameRemote TransfersExact PassMeansClean
PROPERTIES CloseEnds
