SPECIFICATION FairSpec
CONSTANTS
    Selected <- MCSelected
    Kinds <- MCKinds
    NeedsNetwork <- MCNeedsNetwork
    TooBig = {"trivy"}
    MaxFaults = 2
CHECK_DEADLOCK FALSE
INVARIANTS
    JudgedInFull
    Confined
    FetchedBeforeScanned
    CleanedUp
PROPERTIES
    ExecuteReturns
