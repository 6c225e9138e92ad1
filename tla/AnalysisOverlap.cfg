SPECIFICATION Spec
CONSTANTS
    Findings = {1, 2, 3}
    Catalogues <- MCCatalogues
    Scans = {s1, s2}
    Reports = {{1, 2, 3}, {2, 3}}
    Image = {"pkg", "libc"}
    Listed = {"libc"}
    Policies <- MCPolicies
    MaxBucketSize = 2
    NoScan = NoScan
    MaxHuman = 1
SYMMETRY Symmetry
CHECK_DEADLOCK FALSE
INVARIANTS
    IssuesAreCoherent
    RiskIsMonotone
    JudgedTogether
    PassWasEarned
    AbsentIsKnown
