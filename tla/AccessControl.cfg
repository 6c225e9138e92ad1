SPECIFICATION FairSpec
CONSTANTS
    ann = ann
    bob = bob
    ci = ci
    Users = {ann, bob}
    Tokens = {ci, guest}
    Projects = {web}
    InitialRoles <- MCInitialRoles
    TokenRole <- MCTokenRole
    TokenScope <- MCTokenScope
    Requests = {r1, r2}
    NewRoles = {"engineer"}
    Patches <- MCPatches
    PolicyValues = {"strict", "lax"}
    PoolSize = 2
    NoRequest = NoRequest
    NoUser = NoUser
    NoProject = NoProject
INVARIANTS
    AuditIsExact
PROPERTIES
    EnforcedNow
    RefusedRightly
    RequestsEnd
CHECK_DEADLOCK FALSE
