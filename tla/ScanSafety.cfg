SPECIFICATION ClientSpec
CONSTANTS
    Scans = {s1}
    ClientScan = s1
    s1 = s1
    s2 = s2
    a1 = a1
    b1 = b1
    sast = sast
    syft = syft
    ghost = ghost
    Scanners = {sast, syft}
    Normalizers = {sast}
    Inventoriers = {syft}
    Supports <- MCSupports
    KindOf <- MCKindOf
    RequestOf <- MCRequestOf
    Workers = {"A", "B"}
    Slots = {a1, b1}
    WorkerOf <- MCWorkerOf
    IncompleteScan = "warn"
    NoScan = NoScan
    NoScanner = NoScanner
    Faults = {"disconnect", "enqueue_refused", "enqueue_unacked", "enqueue_repeated", "api_crash", "db", "panic", "shutdown", "crash", "early_deadline"}
    MaxFaults = 2
INVARIANTS
    TypeOK
    SingleOwner
    CompletedIsWhole
    PassIsWhole
    ResolversSucceeded
    JudgedWasScored
    PassOutlived
    ExitIsEarned
PROPERTIES
    TerminalFrozen
    ImplementsContract
CHECK_DEADLOCK FALSE
