SPECIFICATION Spec
CONSTANTS
    ann = ann
    bob = bob
    ci = ci
    Users = {ann, bob}
    Tokens = {ci}
    Projects = {web}
    InitialRoles <- MCTwoAdmins
    TokenRole <- MCTokenRole
    TokenScope <- MCTokenScope
    Requests = {r1, r2}
    NewRoles = {"engineer"}
    Patches <- MCDemotions
    PolicyValues = {"strict", "lax"}
    PoolSize = 3
    NoRequest = NoRequest
    NoUser = NoUser
    NoProject = NoProject
INVARIANT AdminRemains
CHECK_DEADLOCK FALSE
