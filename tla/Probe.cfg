SPECIFICATION Spec
CONSTANTS
    Sites <- MCSites
    MaxRedirects = 2
    MaxFaults = 2
CHECK_DEADLOCK FALSE
INVARIANTS
    StoredIsSound
    SilenceIsEarned
    ReportsAreTrue
    StaysOnSite
