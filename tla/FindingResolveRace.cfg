SPECIFICATION Spec
CONSTANTS
    x1 = x1
    x2 = x2
    x3 = x3
    Scans = {x1, x2, x3}
    Findings = {"f1"}
    Scanners = {"grype", "trivy"}
    Path <- MCNoPath
    MayNotParse = {}
    NoScan = NoScan
    NoFinding = NoFinding
    MaxOpen = 2
    MaxHuman = 0
    Chosen = {"acknowledged", "open"}
PROPERTIES
    EntitledToResolve
SYMMETRY MCSymmetry
CHECK_DEADLOCK FALSE
