SPECIFICATION Spec
CONSTANTS
    Jobs = {"j1", "j2"}
    Plans <- MCSemgrep
    Rulesets <- MCRulesets
CHECK_DEADLOCK FALSE
INVARIANTS
    UnprovisionedIsVisible
