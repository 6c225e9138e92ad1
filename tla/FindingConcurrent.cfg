SPECIFICATION Spec
CONSTANTS
    x1 = x1
    x2 = x2
    x3 = x3
    Scans = {x1, x2, x3}
    Findings = {"f1"}
    Scanners = {"grype", "trivy"}
    Path <- MCPath
    MayNotParse = {"grype"}
    NoScan = NoScan
    NoFinding = NoFinding
    MaxOpen = 2
    MaxHuman = 1
    Chosen = {"acknowledged", "open"}
INVARIANTS
    TypeOK
    HistoryExplains
    SeenSomewhere
PROPERTIES
    ScansRespectJudgement
    EntitledAsOfStart
SYMMETRY MCPairSymmetry
CHECK_DEADLOCK FALSE
