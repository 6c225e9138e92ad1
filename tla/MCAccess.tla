------------------------------ MODULE MCAccess ------------------------------
(* Small instances of Access for TLC. *)
EXTENDS Access, TLC

CONSTANTS ann, bob, ci

MCInitialRoles == {ann :> "admin" @@ bob :> role : role \in {"engineer", "none"}}
MCTwoAdmins == {[u \in Users |-> "admin"]}

MCTokenRole == [t \in Tokens |-> "service"]
MCTokenScope == [t \in Tokens |-> IF t = ci THEN Projects ELSE {}]

Role(role) == [kind |-> "role", role |-> role]
Disable(to) == [kind |-> "disabled", to |-> to]
Membership(to) == [kind |-> "projects", to |-> to]

\* One change, or two of which the second may be refused.
MCPatches == {<<Role("engineer"), Membership(Projects)>>, <<Disable(TRUE), Membership({})>>}
MCDemotions == {<<Role("viewer")>>, <<Disable(TRUE)>>}
=============================================================================
