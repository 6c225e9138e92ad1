SPECIFICATION Spec
CONSTANTS
    Scans = {s1}
    s1 = s1
    s2 = s2
    a1 = a1
    b1 = b1
    sast = sast
    syft = syft
    ghost = ghost
    Scanners = {sast, syft}
    Normalizers = {sast}
    Inventoriers = {syft}
    Supports <- MCSupports
    KindOf <- MCKindOf
    RequestOf <- MCRequestOf
    Workers = {"A"}
    Slots = {a1}
    WorkerOf <- MCWorkerOf
    IncompleteScan = "warn"
    NoScan = NoScan
    NoScanner = NoScanner
    Faults = {}
    MaxFaults = 0
INVARIANTS
    PassMeansAllSelected
CHECK_DEADLOCK FALSE
