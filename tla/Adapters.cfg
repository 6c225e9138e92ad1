SPECIFICATION FairSpec
CONSTANTS
    Jobs = {"j1", "j2"}
    Plans <- MCPlans
    Rulesets <- MCRulesets
CHECK_DEADLOCK FALSE
INVARIANTS
    NothingLingers
    ResultsAreFit
    CauseIsTrue
PROPERTIES
    ScanReturns
