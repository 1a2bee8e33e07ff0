SPECIFICATION FairSpec
CONSTANTS
    NoRef = NoRef
    NoOne = NoOne
    WordValues = 64
    a = a
    b = b
    r1 = r1
    s1 = s1
    k1 = k1
    Recorders = {r1}
    Streamers = {s1}
    Closers = {k1}
    Payloads = {b}
    PayloadSize <- MCPayloadSize
    QueueCapacity = 2
    QueueBytes = 2
    SyncEachEvent = FALSE
    Faults = {"append"}
    Limitations = {"limit"}
    MaxCalls = 3
    MaxLoss = 1
INVARIANT FinalMeansWhole
PROPERTY SealedForever
PROPERTY NothingHangs
