SPECIFICATION Spec
CONSTANTS
    NoRef = NoRef
    NoOne = NoOne
    WordValues = 64
    a = a
    b = b
    r1 = r1
    r2 = r2
    s1 = s1
    k1 = k1
    Recorders = {r1, r2}
    Streamers = {s1}
    Closers = {k1}
    Payloads = {a, b}
    PayloadSize <- MCPayloadSize
    QueueCapacity = 2
    QueueBytes = 2
    SyncEachEvent = TRUE
    Faults = {"store", "append", "sync", "manifest", "rename"}
    Limitations = {}
    MaxCalls = 4
    MaxLoss = 0
SYMMETRY Sym
INVARIANT TypeOK
INVARIANT PendingExact
INVARIANT QueueSafe
INVARIANT EvidenceOnDisk
INVARIANT OrderKept
INVARIANT Accounted
INVARIANT VerifierAgrees
PROPERTY ImplementsLog
PROPERTY ImplementsFiles
