------------------------------- MODULE Access -------------------------------
(***************************************************************************)
(* Who may do what: sessions and configured tokens, accounts, memberships, *)
(* projects and policies, as concurrent API requests read and change them. *)
(*                                                                         *)
(* A request resolves its principal and its project through the pool, one  *)
(* query at a time, and then runs its handler's transactions: a change to  *)
(* an account reads the row FOR UPDATE, runs the guard, writes the row and *)
(* the audit record and commits.  PATCH /users runs one per changed field. *)
(***************************************************************************)
EXTENDS Naturals, Sequences, FiniteSets

CONSTANTS
    Users, Tokens, Projects,
    InitialRoles,    \* the roles of the accounts at the start, "none" if absent
    TokenRole,       \* token -> its configured role
    TokenScope,      \* token -> the projects it is configured for
    Requests,        \* bound: the API requests that arrive
    NewRoles,        \* the roles accounts are created with
    Patches,         \* the bodies PATCH /users is sent, as sequences of changes (a
                     \* body that names no field changes nothing and is left out)
    PolicyValues,    \* policies a project may be given
    PoolSize,        \* connections in the process's pool
    NoRequest, NoUser, NoProject

Roles == {"viewer", "engineer", "admin"}
CredentialRoles == {"viewer", "service", "admin"}
Changes == [kind : {"role"}, role : Roles] \union [kind : {"disabled"}, to : BOOLEAN]
              \union [kind : {"projects"}, to : SUBSET Projects]

ASSUME ConstantsAssumption ==
    /\ \A roles \in InitialRoles :
         /\ roles \in [Users -> Roles \union {"none"}]
         /\ \E u \in Users : roles[u] = "admin"
    /\ NewRoles \subseteq Roles
    /\ \A body \in Patches : body \in Seq(Changes) /\ body # <<>>
    /\ TokenRole \in [Tokens -> CredentialRoles]
    /\ Users \intersect Tokens = {}
    /\ TokenScope \in [Tokens -> SUBSET Projects]
    /\ NoRequest \notin Requests
    /\ NoUser \notin Users \union Tokens
    /\ NoProject \notin Projects
    /\ PoolSize \in Nat \ {0}

VARIABLES
    user,      \* the users table, as committed
    members,   \* project_members of each user
    project,   \* the projects table
    policy,    \* security_policies
    lock,      \* the request holding a user's row lock (FOR UPDATE)
    signedIn,  \* the users who hold a session that verifies
    trail,     \* the audit records of each user's account, in commit order
    audited,   \* the newest audited membership and policy values
    req        \* the API requests

rows == <<user, members, project, policy, trail, audited>>   \* in the database
vars == <<rows, lock, signedIn, req>>

-----------------------------------------------------------------------------

Accounts == [role : Roles \union {"none"}, disabled : BOOLEAN]
NoAccount == [role |-> "none", disabled |-> FALSE]

\* The routes: the body of each request, the account or project it is about.
Ops == [kind : {"patch"}, target : Users, body : Patches]
         \union [kind : {"account"}, target : Users, role : NewRoles]
         \union [kind : {"create", "scan", "read"}, project : Projects]
         \union [kind : {"archive"}, project : Projects, to : BOOLEAN]
         \union [kind : {"policy"}, project : Projects, to : PolicyValues]
Subtree == {"read", "archive", "policy"}   \* routes under scopedProject

\* roleForUser: a person's role as one of the credential roles.
RoleForUser(role) == IF role = "engineer" THEN "service" ELSE role
RoleRank(role) == [admin |-> 3, service |-> 2, viewer |-> 1, none |-> 0][role]

\* requireRole, as the routes table applies it.
Required(op) == CASE op.kind \in {"patch", "account", "archive", "policy"} -> "admin"
                  [] op.kind \in {"create", "scan"} -> "service"
                  [] op.kind = "read" -> "viewer"
Allows(role, op) == RoleRank(role) >= RoleRank(Required(op)) /\ RoleRank(role) > 0

IdleReq == [pc |-> "idle", by |-> NoUser, op |-> [kind |-> "read", project |-> NoProject],
            role |-> "none", scope |-> {}, global |-> FALSE, todo |-> <<>>,
            before |-> NoAccount, held |-> {}, previous |-> "none", overtaken |-> FALSE]
\* A request ends: refused (401, 403 or 404) or answered in any other way.
End(code) == [IdleReq EXCEPT !.pc = code]

\* Where a request keeps a connection from one step to the next, and where it is
\* under way.
OpenPCs == {"lock", "guard", "write", "granting", "policy"}
BusyPCs == OpenPCs \union {"auth", "scope", "project", "account", "begin", "create", "grant",
                           "archive", "previous", "exists", "insert", "read"}

Reqs == [pc : BusyPCs \union {"idle", "ended", "refused"}, by : Users \union Tokens \union {NoUser},
         op : Ops \union {IdleReq.op}, role : CredentialRoles \union {"none"},
         scope : SUBSET Projects, global : BOOLEAN, todo : Seq(Changes), before : Accounts,
         held : SUBSET Projects, previous : PolicyValues \union {"none"}, overtaken : BOOLEAN]

TypeOK ==
    /\ user \in [Users -> Accounts]
    /\ members \in [Users -> SUBSET Projects]
    /\ project \in [Projects -> [exists : BOOLEAN, archived : BOOLEAN,
                                 creator : Users \union Tokens \union {NoUser}]]
    /\ policy \in [Projects -> PolicyValues \union {"none"}]
    /\ lock \in [Users -> Requests \union {NoRequest}]
    /\ signedIn \subseteq Users
    /\ trail \in [Users -> Seq([before : Accounts, after : Accounts])]
    /\ audited \in [members : [Users -> SUBSET Projects],
                    policy : [Projects -> PolicyValues \union {"none"}]]
    /\ req \in [Requests -> Reqs]

Init ==
    /\ \E roles \in InitialRoles : user = [u \in Users |-> [role |-> roles[u], disabled |-> FALSE]]
    /\ \E made \in SUBSET Projects :
         project = [p \in Projects |-> [exists |-> p \in made, archived |-> FALSE, creator |-> NoUser]]
    /\ members = [u \in Users |-> IF user[u].role = "engineer" THEN {p \in Projects : project[p].exists} ELSE {}]
    /\ audited = [members |-> members, policy |-> [p \in Projects |-> "none"]]
    /\ policy = [p \in Projects |-> "none"]
    /\ lock = [u \in Users |-> NoRequest]
    /\ signedIn = {u \in Users : user[u].role # "none"}
    /\ trail = [u \in Users |-> <<>>]
    /\ req = [r \in Requests |-> IdleReq]

\* A query takes a connection of the pool; an open transaction, or a statement
\* that waits for a row, keeps one.
ConnectionFree == Cardinality({r \in Requests : req[r].pc \in OpenPCs}) < PoolSize

-----------------------------------------------------------------------------
(* Signing in. *)

Exists(u) == user[u].role # "none"

\* handleLogin with the right password: a disabled account gets the same 401 as
\* a wrong one.  A newer session does not end an older one.
Login(u) ==
    /\ u \notin signedIn
    /\ Exists(u) /\ ~user[u].disabled
    /\ ConnectionFree
    /\ signedIn' = signedIn \union {u}
    /\ UNCHANGED <<rows, lock, req>>

\* SessionTTL has passed.
Expire(u) ==
    /\ u \in signedIn
    /\ signedIn' = signedIn \ {u}
    /\ UNCHANGED <<rows, lock, req>>

\* The API restarts with a generated key: requests die, nobody is signed in.
Restart ==
    /\ signedIn # {} \/ \E r \in Requests : req[r].pc \in BusyPCs
    /\ signedIn' = {}
    /\ lock' = [u \in Users |-> NoRequest]
    /\ req' = [r \in Requests |-> IF req[r].pc \in BusyPCs THEN End("ended") ELSE req[r]]
    /\ UNCHANGED rows

-----------------------------------------------------------------------------
(* Resolving the principal and the project. *)

\* The changed accounts and projects overtake the requests that read them.
Overtake(reqs, accounts, changed) ==
    [r \in Requests |->
        IF reqs[r].pc \in BusyPCs
             /\ \/ reqs[r].by \in accounts
                \/ reqs[r].op.kind \in Subtree \union {"scan"} /\ reqs[r].op.project \in changed
        THEN [reqs[r] EXCEPT !.overtaken = TRUE] ELSE reqs[r]]

\* Where the routes send an authenticated request.
Handler(op) == CASE op.kind = "patch" -> "begin" [] op.kind = "account" -> "account"
                 [] op.kind = "create" -> "create" [] op.kind = "scan" -> "exists"
                 [] op.kind = "archive" -> "archive" [] op.kind = "policy" -> "previous"
                 [] op.kind = "read" -> "read"
Admit(role, op) ==
    IF op.kind \in Subtree THEN "project"
    ELSE IF Allows(role, op) THEN Handler(op) ELSE "refused"
Todo(op) == IF op.kind = "patch" THEN op.body ELSE <<>>

\* A request arrives.
Arrive(r, by, op) ==
    /\ req[r].pc = "idle"
    /\ req' = [req EXCEPT ![r] = [IdleReq EXCEPT !.pc = "auth", !.by = by, !.op = op]]
    /\ UNCHANGED <<rows, lock, signedIn>>

\* Authenticator.Authenticate: a token's role and scope are its configuration's.
AuthenticateToken(r) ==
    LET t == req[r].by IN
    /\ req[r].pc = "auth"
    /\ t \in Tokens
    /\ req' = [req EXCEPT ![r] =
         IF Admit(TokenRole[t], req[r].op) = "refused" THEN End("refused")
         ELSE [@ EXCEPT !.pc = Admit(TokenRole[t], req[r].op), !.todo = Todo(req[r].op),
                        !.role = TokenRole[t], !.scope = TokenScope[t]]]
    /\ UNCHANGED <<rows, lock, signedIn>>

\* Mutant: the session is believed and the account is not read again.
PrincipalForSessionTrusting(r) ==
    LET u == req[r].by IN
    /\ req[r].pc = "auth"
    /\ u \in Users
    /\ ConnectionFree
    /\ req' = [req EXCEPT ![r] = IF u \notin signedIn THEN End("refused")
         ELSE [@ EXCEPT !.pc = "scope", !.role = RoleForUser(user[u].role)]]
    /\ UNCHANGED <<rows, lock, signedIn>>

\* principalForSession: the session is verified, then the account is read.
PrincipalForSession(r) ==
    LET u == req[r].by IN
    /\ req[r].pc = "auth"
    /\ u \in Users
    /\ ConnectionFree
    /\ req' = [req EXCEPT ![r] = IF u \notin signedIn \/ user[u].disabled THEN End("refused")
         ELSE [@ EXCEPT !.pc = "scope", !.role = RoleForUser(user[u].role)]]
    /\ UNCHANGED <<rows, lock, signedIn>>

\* ScopeOf: an admin, as just read, reaches everything; others their rows.
ReadScope(r) ==
    /\ req[r].pc = "scope"
    /\ ConnectionFree
    /\ req' = [req EXCEPT ![r] =
         IF Admit(req[r].role, req[r].op) = "refused" THEN End("refused")
         ELSE [@ EXCEPT !.pc = Admit(req[r].role, req[r].op), !.todo = Todo(req[r].op),
                        !.global = (req[r].role = "admin"),
                        !.scope = IF req[r].role = "admin" THEN Projects ELSE members[req[r].by]]]
    /\ UNCHANGED <<rows, lock, signedIn>>

\* Mutant: the project is resolved by Get, which leaves out archived ones.
ScopedProjectLive(r) ==
    LET p == req[r].op.project IN
    /\ req[r].pc = "project"
    /\ ConnectionFree
    /\ req' = [req EXCEPT ![r] =
         IF project[p].exists /\ ~project[p].archived /\ p \in req[r].scope /\ Allows(req[r].role, req[r].op)
         THEN [@ EXCEPT !.pc = Handler(req[r].op)] ELSE End("refused")]
    /\ UNCHANGED <<rows, lock, signedIn>>

\* scopedProject, with GetAny, and then requireRole.
ScopedProject(r) ==
    LET p == req[r].op.project IN
    /\ req[r].pc = "project"
    /\ ConnectionFree
    /\ req' = [req EXCEPT ![r] =
         IF project[p].exists /\ p \in req[r].scope /\ Allows(req[r].role, req[r].op)
         THEN [@ EXCEPT !.pc = Handler(req[r].op)] ELSE End("refused")]
    /\ UNCHANGED <<rows, lock, signedIn>>

-----------------------------------------------------------------------------
(* Accounts. *)

\* Mutant: a role the users table does not know.
AppliedUnknownRole(account, change) ==
    CASE change.kind = "role" -> [account EXCEPT !.role = "owner"]
      [] change.kind = "disabled" -> [account EXCEPT !.disabled = change.to]
      [] OTHER -> account

Applied(account, change) ==
    CASE change.kind = "role" -> [account EXCEPT !.role = change.role]
      [] change.kind = "disabled" -> [account EXCEPT !.disabled = change.to]
      [] OTHER -> account

\* audit.Write: the record of the change, in the transaction that makes it.
Audited(records, before, after) == Append(records, [before |-> before, after |-> after])

\* refuseIfLastAdmin's count: the OTHER enabled admins, read through the pool
\* and not through the transaction, so as last committed.
OtherAdmins(u) == {v \in Users \ {u} : user[v].role = "admin" /\ ~user[v].disabled}

\* The guards SetRole and SetDisabled pass to update.
Guarded(account, change) ==
    /\ account.role = "admin"
    /\ CASE change.kind = "role" -> change.role # "admin"
         [] change.kind = "disabled" -> change.to
         [] OTHER -> FALSE

\* Store.Create: the account and its audit record in one transaction.
CreateAccount(r) ==
    LET u == req[r].op.target IN
    /\ req[r].pc = "account"
    /\ ConnectionFree
    /\ IF Exists(u)
       THEN /\ req' = [req EXCEPT ![r] = End("ended")]
            /\ UNCHANGED <<user, trail>>
       ELSE /\ user' = [user EXCEPT ![u] = [role |-> req[r].op.role, disabled |-> FALSE]]
            /\ trail' = [trail EXCEPT ![u] = Audited(@, NoAccount, user'[u])]
            /\ req' = [req EXCEPT ![r] = End("ended")]
    /\ UNCHANGED <<members, project, policy, lock, signedIn, audited>>

\* Mutant: a plain SELECT, without FOR UPDATE.
LockRowUnlocked(r) ==
    LET u == req[r].op.target IN
    /\ req[r].pc = "lock"
    /\ req' = [req EXCEPT ![r] = IF ~Exists(u) THEN End("refused")
         ELSE [@ EXCEPT !.before = user[u], !.held = members[u],
                 !.pc = IF Guarded(user[u], Head(req[r].todo)) THEN "guard" ELSE "write"]]
    /\ UNCHANGED <<rows, lock, signedIn>>

\* Begin, or the Exec of GrantMembership, waits for a connection and keeps it.
Connect(r) ==
    /\ req[r].pc \in {"begin", "grant"}
    /\ ConnectionFree
    /\ req' = [req EXCEPT ![r].pc = IF @ = "begin" THEN "lock" ELSE "granting"]
    /\ UNCHANGED <<rows, lock, signedIn>>

\* Mutant: the row is read through the pool, not through the transaction.
LockRowPooled(r) ==
    LET u == req[r].op.target IN
    /\ req[r].pc = "lock"
    /\ ConnectionFree
    /\ lock[u] = NoRequest
    /\ lock' = IF Exists(u) THEN [lock EXCEPT ![u] = r] ELSE lock
    /\ req' = [req EXCEPT ![r] = IF ~Exists(u) THEN End("refused")
         ELSE [@ EXCEPT !.before = user[u], !.held = members[u],
                 !.pc = IF Guarded(user[u], Head(req[r].todo)) THEN "guard" ELSE "write"]]
    /\ UNCHANGED <<rows, signedIn>>

\* byIDTx: SELECT ... FOR UPDATE waits for the row and reads its last version;
\* SetMembership then reads the memberships it is about to delete.
LockRow(r) ==
    LET u == req[r].op.target IN
    /\ req[r].pc = "lock"
    /\ lock[u] = NoRequest
    /\ IF ~Exists(u)
       THEN /\ req' = [req EXCEPT ![r] = End("refused")]
            /\ lock' = lock
       ELSE /\ lock' = [lock EXCEPT ![u] = r]
            /\ req' = [req EXCEPT ![r].before = user[u], ![r].held = members[u],
                 ![r].pc = IF Guarded(user[u], Head(req[r].todo)) THEN "guard" ELSE "write"]
    /\ UNCHANGED <<rows, signedIn>>

Release(r) == lock' = [u \in Users |-> IF lock[u] = r THEN NoRequest ELSE lock[u]]

\* refuseIfLastAdmin, on a second connection.
Guard(r) ==
    /\ req[r].pc = "guard"
    /\ ConnectionFree
    /\ IF OtherAdmins(req[r].op.target) = {}
       THEN /\ req' = [req EXCEPT ![r] = End("ended")]
            /\ Release(r)
       ELSE /\ req' = [req EXCEPT ![r].pc = "write"]
            /\ lock' = lock
    /\ UNCHANGED <<rows, signedIn>>

\* What is left of the PATCH after a committed change.
Advance(r) == IF Len(req[r].todo) = 1 THEN End("ended")
              ELSE [req[r] EXCEPT !.pc = "begin", !.todo = Tail(@)]

\* update's UPDATE, the audit record and the commit.
WriteAccount(r) ==
    LET u == req[r].op.target
        after == Applied(user[u], Head(req[r].todo))
    IN
    /\ req[r].pc = "write"
    /\ Head(req[r].todo).kind # "projects"
    /\ user' = [user EXCEPT ![u] = after]
    /\ trail' = [trail EXCEPT ![u] = Audited(@, req[r].before, after)]
    /\ Release(r)
    /\ req' = Overtake([req EXCEPT ![r] = Advance(r)], {u}, {})
    /\ UNCHANGED <<members, project, policy, signedIn, audited>>

\* SetMembership: what was there is deleted, the new set is inserted, and a
\* project that does not exist rolls it all back.
WriteMembership(r) ==
    LET u == req[r].op.target
        to == Head(req[r].todo).to
    IN
    /\ req[r].pc = "write"
    /\ Head(req[r].todo).kind = "projects"
    /\ Release(r)
    /\ IF \E p \in to : ~project[p].exists
       THEN /\ req' = [req EXCEPT ![r] = End("ended")]
            /\ UNCHANGED <<members, audited>>
       ELSE /\ members' = [members EXCEPT ![u] = (@ \ req[r].held) \union to]
            /\ audited' = [audited EXCEPT !.members[u] = to]
            /\ req' = Overtake([req EXCEPT ![r] = Advance(r)], {u}, {})
    /\ UNCHANGED <<user, project, policy, signedIn, trail>>

-----------------------------------------------------------------------------
(* Projects and policies. *)

\* Store.Create: a project starts live and knows who created it.
InsertProject(by) == [exists |-> TRUE, archived |-> FALSE, creator |-> by]

\* handleCreateProject: the project and its audit record; a taken slug is 409.
CreateProject(r) ==
    LET p == req[r].op.project IN
    /\ req[r].pc = "create"
    /\ ConnectionFree
    /\ IF project[p].exists
       THEN /\ req' = [req EXCEPT ![r] = End("ended")]
            /\ project' = project
       ELSE /\ project' = [project EXCEPT ![p] = InsertProject(req[r].by)]
            /\ req' = Overtake([req EXCEPT ![r] =
                 IF req[r].by \in Users /\ ~req[r].global
                 THEN [@ EXCEPT !.pc = "grant"] ELSE End("ended")], {}, {p})
    /\ UNCHANGED <<user, members, policy, lock, signedIn, trail, audited>>

\* GrantMembership: not audited.  The foreign key waits for the user's row.
Grant(r) ==
    LET u == req[r].by IN
    /\ req[r].pc = "granting"
    /\ lock[u] = NoRequest
    /\ members' = [members EXCEPT ![u] = @ \union {req[r].op.project}]
    /\ req' = Overtake([req EXCEPT ![r] = End("ended")], {u}, {})
    /\ UNCHANGED <<user, project, policy, lock, signedIn, trail, audited>>

\* It fails: logged, and the project is reported as created all the same.
GrantFails(r) ==
    /\ req[r].pc \in {"grant", "granting"}
    /\ req' = [req EXCEPT ![r] = End("ended")]
    /\ UNCHANGED <<rows, lock, signedIn>>

\* SetArchived: read FOR UPDATE, write, audit and commit.
SetArchived(r) ==
    LET p == req[r].op.project IN
    /\ req[r].pc = "archive"
    /\ ConnectionFree
    /\ project' = [project EXCEPT ![p].archived = req[r].op.to]
    /\ req' = Overtake([req EXCEPT ![r] = End("ended")], {}, {p})
    /\ UNCHANGED <<user, members, policy, lock, signedIn, trail, audited>>

\* previousWithin: a plain SELECT.
ReadPrevious(r) ==
    /\ req[r].pc = "previous"
    /\ ConnectionFree
    /\ req' = [req EXCEPT ![r].pc = "policy", ![r].previous = policy[req[r].op.project]]
    /\ UNCHANGED <<rows, lock, signedIn>>

\* Mutant: what was read decides between an INSERT that ignores a conflict and
\* an UPDATE.
SetPolicyStale(r) ==
    LET p == req[r].op.project IN
    /\ req[r].pc = "policy"
    /\ policy' = [policy EXCEPT ![p] =
         IF req[r].previous = "none" /\ @ # "none" THEN @ ELSE req[r].op.to]
    /\ audited' = [audited EXCEPT !.policy[p] = req[r].op.to]
    /\ req' = [req EXCEPT ![r] = End("ended")]
    /\ UNCHANGED <<user, members, project, lock, signedIn, trail>>

\* Store.Set: the upsert, the audit record and the commit.
SetPolicy(r) ==
    LET p == req[r].op.project IN
    /\ req[r].pc = "policy"
    /\ policy' = [policy EXCEPT ![p] = req[r].op.to]
    /\ audited' = [audited EXCEPT !.policy[p] = req[r].op.to]
    /\ req' = [req EXCEPT ![r] = End("ended")]
    /\ UNCHANGED <<user, members, project, lock, signedIn, trail>>

\* handleCreateScan: only the role and a live project are asked for.
CheckExists(r) ==
    LET p == req[r].op.project IN
    /\ req[r].pc = "exists"
    /\ ConnectionFree
    /\ req' = [req EXCEPT ![r] = IF project[p].exists /\ ~project[p].archived
                                 THEN [@ EXCEPT !.pc = "insert"] ELSE End("refused")]
    /\ UNCHANGED <<rows, lock, signedIn>>

InsertScan(r) ==
    /\ req[r].pc = "insert"
    /\ ConnectionFree
    /\ req' = [req EXCEPT ![r] = End("ended")]
    /\ UNCHANGED <<rows, lock, signedIn>>

\* The handlers below scopedProject that only read.
Respond(r) ==
    /\ req[r].pc = "read"
    /\ ConnectionFree
    /\ req' = [req EXCEPT ![r] = End("ended")]
    /\ UNCHANGED <<rows, lock, signedIn>>

\* The client hangs up: the open transaction rolls back.
GiveUp(r) ==
    /\ req[r].pc \in BusyPCs
    /\ Release(r)
    /\ req' = [req EXCEPT ![r] = End("ended")]
    /\ UNCHANGED <<rows, signedIn>>

Step(r) ==
    \/ AuthenticateToken(r) \/ PrincipalForSession(r) \/ ReadScope(r) \/ ScopedProject(r) \/ CreateAccount(r)
    \/ Connect(r) \/ LockRow(r) \/ Guard(r) \/ WriteAccount(r) \/ WriteMembership(r)
    \/ CreateProject(r) \/ Grant(r) \/ SetArchived(r)
    \/ ReadPrevious(r) \/ SetPolicy(r) \/ CheckExists(r) \/ InsertScan(r) \/ Respond(r)

Next ==
    \/ \E u \in Users : Login(u) \/ Expire(u)
    \/ Restart
    \/ \E r \in Requests, by \in Users \union Tokens, op \in Ops : Arrive(r, by, op)
    \/ \E r \in Requests : Step(r) \/ GrantFails(r) \/ GiveUp(r)

Spec == Init /\ [][Next]_vars

\* A request's goroutine is scheduled and the database answers it.  Weak
\* fairness is enough: each of the other requests ends or stalls, so what a
\* waiting one needs is taken from it only finitely often.
FairSpec == Spec /\ \A r \in Requests : WF_vars(Step(r))

-----------------------------------------------------------------------------

\* Each audit record of an account starts where the one before it ended and the
\* last one ends at the account as it is: no concurrent change slips between
\* the value update reads and the one it writes.
TrailIsExact ==
    \A u \in Users :
        /\ \A i \in 1..(Len(trail[u]) - 1) : trail[u][i].after = trail[u][i + 1].before
        /\ trail[u] # <<>> => trail[u][Len(trail[u])].after = user[u]

\* The newest audit record of a membership or a policy change says what is in
\* force, although a policy's previous value is read without a lock; beyond the
\* audited grants a person is a member only of projects they created.
AuditEndsHere ==
    /\ \A p \in Projects : policy[p] = audited.policy[p]
    /\ \A u \in Users :
         /\ audited.members[u] \subseteq members[u]
         /\ \A p \in members[u] \ audited.members[u] : project[p].creator = u

\* The audit log and the tables agree at every commit, whatever requests overlap
\* or stop half way: accounts record by record, memberships and policies at the
\* newest record.
AuditIsExact == TypeOK /\ TrailIsExact /\ AuditEndsHere

\* What a principal may do, by the state as it is now and by the most any document
\* grants: the role, of an account in force, says what (ADR 023; ADR 033 section 2
\* adds an engineer's policy edit) and the scope says where (ADR 033 section 3).
Entitled(by, op) ==
    /\ \/ Allows(IF by \in Tokens THEN TokenRole[by] ELSE RoleForUser(user[by].role), op)
       \/ op.kind = "policy" /\ by \in Users /\ user[by].role = "engineer"
    /\ by \in Users => ~user[by].disabled
    /\ op.kind \in Subtree => project[op.project].exists
    /\ op.kind = "scan" => project[op.project].exists /\ ~project[op.project].archived

Within(by, op) ==
    op.kind \in Subtree \union {"scan"} =>
        op.project \in (CASE by \in Tokens -> TokenScope[by]
                           [] by \in Users /\ user[by].role = "admin" -> Projects
                           [] OTHER -> members[by])

\* This step does what the request asked for, reports why it conflicts with
\* what is there, or answers its read.
Effect(r) ==
    /\ req[r].pc \in {"account", "write", "create", "archive", "policy", "insert", "read"}
    /\ req'[r].pc \in {"ended", "begin", "grant"}

\* "Disabling an account takes effect on the next request" (ADR 033), and so do
\* a demotion, a membership change and an archive: a request does only what its
\* principal may do now, unless the change came after the request had begun.
\* The documents confine every request to the principal's projects; submitting a
\* scan is left out of that, because POST /scans names its project in the body,
\* past scopedProject, and handleCreateScan does not look at the scope.
EnforcedNow ==
    [][\A r \in Requests : Effect(r) /\ ~req[r].overtaken =>
         /\ Entitled(req[r].by, req[r].op)
         /\ Within(req[r].by, req[r].op) \/ req[r].op.kind = "scan"]_vars

\* Nor is anybody refused what they may do: archiving is no one-way door, and
\* the creator of a project is not shut out of it.  ADR 033 and the comment in
\* roleForUser let an engineer edit a policy; ADR 023 and the route require an
\* admin, and the handler has no check of its own, so that refusal is left out.
RefusedRightly ==
    [][\A r \in Requests :
         req[r].pc \in BusyPCs /\ req'[r].pc = "refused" /\ ~req[r].overtaken
           => \/ ~(Entitled(req[r].by, req[r].op) /\ Within(req[r].by, req[r].op))
              \/ req[r].by \in Users \ signedIn
              \/ req[r].op.kind = "patch" /\ ~Exists(req[r].op.target)
              \/ /\ req[r].op.kind = "policy"
                 /\ req[r].by \in Users /\ user[req[r].by].role = "engineer"]_vars

\* The last-admin guard waits for a second connection while it keeps one: when
\* every connection is kept by such a guard, or by a request that waits for a
\* row such a transaction has locked, none of them goes on.
Stalled ==
    /\ ~ConnectionFree
    /\ \A r \in Requests :
         /\ req[r].pc \notin {"write", "policy"}
         /\ req[r].pc = "lock" => lock[req[r].op.target] # NoRequest
         /\ req[r].pc = "granting" => lock[req[r].by] # NoRequest

\* A request in flight comes to an end by itself, however many wait for the pool
\* and for each other's rows, except while the guards have used the pool up.
RequestsEnd ==
    \A r \in Requests : []<>(req[r].pc \notin BusyPCs \/ Stalled)

\* "The last enabled administrator cannot be demoted or disabled."
AdminRemains == \E u \in Users : user[u].role = "admin" /\ ~user[u].disabled
=============================================================================
