SPECIFICATION FairSpec
CONSTANTS
    Scans = {s1, s2}
    s1 = s1
    s2 = s2
    a1 = a1
    b1 = b1
    sast = sast
    syft = syft
    ghost = ghost
    Scanners = {sast, syft}
    Normalizers = {sast}
    Inventoriers = {syft}
    Supports <- MCSupports
    KindOf <- MCKindOf
    RequestOf <- MCRequestOf
    Workers = {"A"}
    Slots = {a1, b1}
    WorkerOf <- MCWorkerOf
    IncompleteScan = "warn"
    NoScan = NoScan
    NoScanner = NoScanner
    Faults = {"shutdown", "enqueue_repeated"}
    MaxFaults = 1
PROPERTIES
    RunningSettles
    ShutdownCompletes
    AcceptedSettles
CHECK_DEADLOCK FALSE
