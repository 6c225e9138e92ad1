---------------------------- MODULE AccessProofs ----------------------------
(***************************************************************************)
(* Theorems about Access, for every set of accounts, tokens, projects and  *)
(* requests, every configuration of tokens and every size of the pool.     *)
(***************************************************************************)
EXTENDS Access, FiniteSetTheorems, TLAPS

-----------------------------------------------------------------------------
(* Requests and routes. *)

Kinds == {"patch", "account", "create", "scan", "read", "archive", "policy"}

LEMMA OpFields ==
  ASSUME NEW op \in Ops
  PROVE  /\ op.kind \in Kinds
         /\ op.kind = "patch" => op.target \in Users /\ op.body \in Patches
         /\ op.kind = "account" => op.target \in Users /\ op.role \in NewRoles
         /\ op.kind \notin {"patch", "account"} => op.project \in Projects
         /\ op.kind = "archive" => op.to \in BOOLEAN
         /\ op.kind = "policy" => op.to \in PolicyValues
  BY DEF Ops, Kinds

LEMMA ChangeFields ==
  ASSUME NEW c \in Changes
  PROVE  /\ c.kind \in {"role", "disabled", "projects"}
         /\ c.kind = "role" => c.role \in Roles
         /\ c.kind = "disabled" => c.to \in BOOLEAN
         /\ c.kind = "projects" => c.to \in SUBSET Projects
  BY DEF Changes

LEMMA AdmitRoutes ==
  ASSUME NEW op \in Ops, NEW role
  PROVE  LET a == Admit(role, op)
         IN  /\ a \in {"project", "refused", "begin", "account", "create", "exists"}
             /\ a = "project" <=> op.kind \in Subtree
             /\ a = "refused" <=> op.kind \notin Subtree /\ ~Allows(role, op)
             /\ a = "begin" => op.kind = "patch"
             /\ a = "account" => op.kind = "account"
             /\ a = "create" => op.kind = "create"
             /\ a = "exists" => op.kind = "scan"
  <1>1. op.kind \in Kinds
    BY OpFields
  <1>2. CASE op.kind \in Subtree
    BY <1>2 DEF Admit
  <1>3. CASE op.kind \notin Subtree /\ ~Allows(role, op)
    BY <1>3 DEF Admit
  <1>4. CASE op.kind \notin Subtree /\ Allows(role, op)
    <2>1. Admit(role, op) = Handler(op)
      BY <1>4 DEF Admit
    <2>2. op.kind \in {"patch", "account", "create", "scan"}
      BY <1>1, <1>4 DEF Subtree, Kinds
    <2>3. /\ op.kind = "patch" => Handler(op) = "begin"
          /\ op.kind = "account" => Handler(op) = "account"
          /\ op.kind = "create" => Handler(op) = "create"
          /\ op.kind = "scan" => Handler(op) = "exists"
      BY DEF Handler
    <2>4. QED
      BY <1>4, <2>1, <2>2, <2>3
  <1>5. QED
    BY <1>2, <1>3, <1>4

LEMMA HandlerRoutes ==
  ASSUME NEW op \in Ops, op.kind \in Subtree
  PROVE  /\ Handler(op) \in {"archive", "previous", "read"}
         /\ Handler(op) = "archive" => op.kind = "archive"
         /\ Handler(op) = "previous" => op.kind = "policy"
         /\ Handler(op) = "read" => op.kind = "read"
  BY DEF Handler, Subtree

LEMMA IdleReqType == IdleReq \in Reqs
  BY DEF IdleReq, Reqs, BusyPCs, OpenPCs, NoAccount, Accounts, Roles, CredentialRoles

LEMMA EndType ==
  ASSUME NEW code \in {"ended", "refused"}
  PROVE  End(code) \in Reqs /\ End(code).pc = code /\ code \notin BusyPCs
  BY IdleReqType DEF End, Reqs, BusyPCs, OpenPCs

LEMMA TodoType ==
  ASSUME NEW op \in Ops
  PROVE  Todo(op) \in Seq(Changes) /\ (op.kind = "patch" => Todo(op) # <<>>)
  BY OpFields, ConstantsAssumption DEF Todo

\* A change that overtakes a request leaves everything else of it alone.
LEMMA OvertakeEffect ==
  ASSUME NEW reqs \in [Requests -> Reqs], NEW accounts, NEW changed
  PROVE  LET new == Overtake(reqs, accounts, changed)
         IN  /\ new \in [Requests -> Reqs]
             /\ \A r \in Requests :
                  \/ new[r] = reqs[r]
                  \/ new[r] = [reqs[r] EXCEPT !.overtaken = TRUE]
             /\ \A r \in Requests :
                  reqs[r].pc \in BusyPCs
                    /\ \/ reqs[r].by \in accounts
                       \/ reqs[r].op.kind \in Subtree \union {"scan"}
                            /\ reqs[r].op.project \in changed
                  => new[r].overtaken
  <1> DEFINE Hit(r) == reqs[r].pc \in BusyPCs
                         /\ \/ reqs[r].by \in accounts
                            \/ reqs[r].op.kind \in Subtree \union {"scan"}
                                 /\ reqs[r].op.project \in changed
             new == Overtake(reqs, accounts, changed)
  <1>1. new = [r \in Requests |->
                 IF Hit(r) THEN [reqs[r] EXCEPT !.overtaken = TRUE] ELSE reqs[r]]
    BY DEF Overtake
  <1>2. \A r \in Requests : [reqs[r] EXCEPT !.overtaken = TRUE] \in Reqs
                               /\ [reqs[r] EXCEPT !.overtaken = TRUE].overtaken
    BY ZenonT(60) DEF Reqs
  <1> HIDE DEF Hit, new
  <1>3. /\ new \in [Requests -> Reqs]
        /\ \A r \in Requests : new[r] = reqs[r] \/ new[r] = [reqs[r] EXCEPT !.overtaken = TRUE]
        /\ \A r \in Requests : Hit(r) => new[r].overtaken
    BY <1>1, <1>2
  <1>4. QED
    BY <1>3 DEF Hit, new

-----------------------------------------------------------------------------
(* The inductive invariant. *)

\* Where a PATCH /users is, from its first transaction to its last.
PatchPCs == {"begin", "lock", "guard", "write"}

\* A request under way is of a principal, and in the handler of its route.
Routed(q) ==
    q.pc \in BusyPCs =>
        /\ q.by \in Users \union Tokens
        /\ q.op \in Ops
        /\ q.pc \in PatchPCs => q.op.kind = "patch" /\ q.todo # <<>>
        /\ q.pc = "account" => q.op.kind = "account"
        /\ q.pc \in {"create", "grant", "granting"} => q.op.kind = "create"
        /\ q.pc \in {"exists", "insert"} => q.op.kind = "scan"
        /\ q.pc = "project" => q.op.kind \in Subtree
        /\ q.pc = "archive" => q.op.kind = "archive"
        /\ q.pc \in {"previous", "policy"} => q.op.kind = "policy"
        /\ q.pc = "read" => q.op.kind = "read"
        /\ q.pc = "scope" => q.by \in Users

RequestsRouted == \A r \in Requests : Routed(req[r])

\* The tables: an account without a role is no account, only accounts have
\* sessions, and a project that was never created has no creator.
TablesSound ==
    /\ \A u \in Users : user[u].role = "none" => user[u] = NoAccount
    /\ \A u \in signedIn : Exists(u)
    /\ \A p \in Projects : ~project[p].exists => project[p].creator = NoUser

\* Between SELECT ... FOR UPDATE and the commit the row, and the memberships,
\* are what the transaction read.
LockedIsCurrent ==
    \A r \in Requests : req[r].pc \in {"guard", "write"} =>
        /\ lock[req[r].op.target] = r
        /\ Exists(req[r].op.target)
        /\ req[r].before = user[req[r].op.target]
        /\ req[r].held = members[req[r].op.target]

\* A grant under way is of the project its principal has just created.
GrantsOwn ==
    \A r \in Requests : req[r].pc \in {"grant", "granting"} =>
        /\ req[r].by \in Users
        /\ project[req[r].op.project].exists
        /\ project[req[r].op.project].creator = req[r].by

AuditInv ==
    /\ RequestsRouted
    /\ TablesSound
    /\ LockedIsCurrent
    /\ GrantsOwn
    /\ TrailIsExact
    /\ AuditEndsHere

\* What a request knows of its principal and its project is how it is now,
\* unless a change overtook it.
Scope(q) == IF q.role = "admin" THEN Projects ELSE members[q.by]
Principal(r) ==
    LET q == req[r] IN
    /\ q.by \in Tokens => q.role = TokenRole[q.by]
    /\ q.by \in Users =>
         /\ Exists(q.by) /\ ~user[q.by].disabled
         /\ q.role = RoleForUser(user[q.by].role)
Admitted(r) ==
    LET q == req[r] IN
    /\ q.scope = IF q.by \in Tokens THEN TokenScope[q.by] ELSE Scope(q)
    /\ q.op.kind \notin Subtree => Allows(q.role, q.op)
Scoped(r) ==
    LET q == req[r] IN
    q.op.kind \in Subtree =>
        project[q.op.project].exists /\ q.op.project \in q.scope /\ Allows(q.role, q.op)
Live(r) ==
    LET q == req[r] IN
    q.pc = "insert" => project[q.op.project].exists /\ ~project[q.op.project].archived

KnowsNow(r) ==
    /\ req[r].pc # "auth" => Principal(r)
    /\ req[r].pc \notin {"auth", "scope"} => Admitted(r)
    /\ req[r].pc \notin {"auth", "scope", "project"} => Scoped(r) /\ Live(r)

Informed ==
    \A r \in Requests : req[r].pc \in BusyPCs /\ ~req[r].overtaken => KnowsNow(r)

-----------------------------------------------------------------------------
(* Type correctness. *)

LEMMA EndRouted ==
  ASSUME NEW code \in {"ended", "refused"} PROVE Routed(End(code))
  BY EndType DEF Routed

LEMMA PutReq ==
  ASSUME req \in [Requests -> Reqs], RequestsRouted, NEW r \in Requests,
         NEW q \in Reqs, Routed(q),
         \/ req' = [req EXCEPT ![r] = q]
         \/ \E accounts, changed : req' = Overtake([req EXCEPT ![r] = q], accounts, changed)
  PROVE  /\ req' \in [Requests -> Reqs]
         /\ RequestsRouted'
         /\ \A x \in Requests : LET old == IF x = r THEN q ELSE req[x]
              IN  req'[x] = old \/ req'[x] = [old EXCEPT !.overtaken = TRUE]
  <1> DEFINE mid == [req EXCEPT ![r] = q]
  <1>1. mid \in [Requests -> Reqs] /\ \A x \in Requests : mid[x] = IF x = r THEN q ELSE req[x]
    OBVIOUS
  <1>2. \A x \in Requests : Routed(mid[x])
    BY <1>1 DEF RequestsRouted
  <1> HIDE DEF mid
  <1>3. /\ req' \in [Requests -> Reqs]
        /\ \A x \in Requests : req'[x] = mid[x] \/ req'[x] = [mid[x] EXCEPT !.overtaken = TRUE]
    <2>1. CASE req' = mid
      BY <1>1, <2>1
    <2>2. ASSUME NEW accounts, NEW changed, req' = Overtake(mid, accounts, changed)
          PROVE  /\ req' \in [Requests -> Reqs]
                 /\ \A x \in Requests :
                      req'[x] = mid[x] \/ req'[x] = [mid[x] EXCEPT !.overtaken = TRUE]
      BY <1>1, <2>2, OvertakeEffect
    <2>3. QED
      BY <2>1, <2>2 DEF mid
  <1>4. ASSUME NEW x \in Requests PROVE Routed(req'[x])
    <2>1. mid[x] \in Reqs
      BY <1>1
    <2>2. ASSUME NEW f \in Reqs, Routed(f) PROVE Routed([f EXCEPT !.overtaken = TRUE])
      BY <2>2 DEF Routed, Reqs
    <2>3. QED
      BY <1>2, <1>3, <2>1, <2>2
  <1>5. QED
    BY <1>1, <1>3, <1>4 DEF RequestsRouted

LEMMA TypeInit == Init => TypeOK /\ RequestsRouted
  <1> SUFFICES ASSUME Init PROVE TypeOK /\ RequestsRouted
    OBVIOUS
  <1>1. user \in [Users -> Accounts]
    BY ConstantsAssumption DEF Init, Accounts
  <1>2. PICK made \in SUBSET Projects :
          project = [p \in Projects |-> [exists |-> p \in made, archived |-> FALSE, creator |-> NoUser]]
    BY DEF Init
  <1>3. project \in [Projects -> [exists : BOOLEAN, archived : BOOLEAN,
                                 creator : Users \union Tokens \union {NoUser}]]
    BY <1>2
  <1>4. members \in [Users -> SUBSET Projects]
    BY DEF Init
  <1>5. req \in [Requests -> Reqs] /\ \A r \in Requests : req[r] = IdleReq
    BY IdleReqType DEF Init
  <1>6. RequestsRouted
    BY <1>5 DEF RequestsRouted, Routed, IdleReq, BusyPCs, OpenPCs, PatchPCs
  <1>7. trail \in [Users -> Seq([before : Accounts, after : Accounts])]
    BY DEF Init
  <1>8. audited \in [members : [Users -> SUBSET Projects],
                    policy : [Projects -> PolicyValues \union {"none"}]]
    BY <1>4 DEF Init
  <1>9. QED
    BY <1>1, <1>3, <1>4, <1>5, <1>6, <1>7, <1>8 DEF Init, TypeOK

\* The request a step leaves behind is well formed and in the handler of its
\* route.
NewReq(q) == q \in Reqs /\ Routed(q)

LEMMA EndNew == ASSUME NEW code \in {"ended", "refused"} PROVE NewReq(End(code))
  BY EndType, EndRouted DEF NewReq

LEMMA AdmittedType ==
  ASSUME NEW q \in Reqs, NEW pc \in BusyPCs, NEW todo \in Seq(Changes),
         NEW global \in BOOLEAN, NEW scope \in SUBSET Projects
  PROVE  [q EXCEPT !.pc = pc, !.todo = todo, !.global = global, !.scope = scope] \in Reqs
  BY Zenon DEF Reqs

LEMMA TypeResolve ==
  ASSUME TypeOK, RequestsRouted, NEW r \in Requests,
         AuthenticateToken(r) \/ PrincipalForSession(r) \/ ReadScope(r) \/ ScopedProject(r)
  PROVE  \E q : NewReq(q) /\ req' = [req EXCEPT ![r] = q]
  <1>t. req[r] \in Reqs /\ Routed(req[r])
    BY DEF TypeOK, RequestsRouted
  <1>r. \A u \in Users : RoleForUser(user[u].role) \in CredentialRoles \union {"none"}
    BY DEF TypeOK, Accounts, Roles, CredentialRoles, RoleForUser
  <1>1. CASE AuthenticateToken(r)
    <2> DEFINE t == req[r].by
               a == Admit(TokenRole[t], req[r].op)
               q == [req[r] EXCEPT !.pc = a, !.todo = Todo(req[r].op),
                                   !.role = TokenRole[t], !.scope = TokenScope[t]]
    <2>1. /\ req[r].pc = "auth" /\ t \in Tokens /\ req[r].op \in Ops
          /\ req' = [req EXCEPT ![r] = IF a = "refused" THEN End("refused") ELSE q]
      BY <1>1, <1>t DEF AuthenticateToken, Routed, BusyPCs
    <2>2. TokenRole[t] \in CredentialRoles /\ TokenScope[t] \in SUBSET Projects
      BY <2>1, ConstantsAssumption
    <2>3. /\ a \in {"project", "refused", "begin", "account", "create", "exists"}
          /\ a = "project" => req[r].op.kind \in Subtree
          /\ a = "begin" => req[r].op.kind = "patch"
          /\ a = "account" => req[r].op.kind = "account"
          /\ a = "create" => req[r].op.kind = "create"
          /\ a = "exists" => req[r].op.kind = "scan"
      BY <2>1, AdmitRoutes
    <2>4. Todo(req[r].op) \in Seq(Changes) /\ (req[r].op.kind = "patch" => Todo(req[r].op) # <<>>)
      BY <2>1, TodoType
    <2> HIDE DEF a
    <2>5. ASSUME a # "refused" PROVE NewReq(q)
      <3>1. q \in Reqs
        BY <1>t, <2>2, <2>3, <2>4, <2>5, ZenonT(60) DEF Reqs, BusyPCs, OpenPCs
      <3>2. q.pc = a /\ q.by = t /\ q.op = req[r].op /\ q.todo = Todo(req[r].op)
        BY <1>t DEF Reqs
      <3> HIDE DEF q, t
      <3>3. Routed(q)
        BY <2>1, <2>3, <2>4, <2>5, <3>2 DEF Routed, BusyPCs, OpenPCs, PatchPCs
      <3>4. QED
        BY <3>1, <3>3 DEF NewReq
    <2>6. QED
      BY <2>1, <2>5, EndNew
  <1>2. CASE PrincipalForSession(r)
    <2> DEFINE u == req[r].by
               q == [req[r] EXCEPT !.pc = "scope", !.role = RoleForUser(user[u].role)]
    <2>1. /\ req[r].pc = "auth" /\ u \in Users /\ req[r].op \in Ops
          /\ req' = [req EXCEPT ![r] =
                       IF u \notin signedIn \/ user[u].disabled THEN End("refused") ELSE q]
      BY <1>2, <1>t DEF PrincipalForSession, Routed, BusyPCs
    <2>2. q \in Reqs
      BY <1>t, <1>r, <2>1 DEF Reqs, BusyPCs
    <2>3. Routed(q)
      BY <1>t, <2>1 DEF Routed, BusyPCs, OpenPCs, PatchPCs, Reqs
    <2>4. QED
      BY <2>1, <2>2, <2>3, EndNew DEF NewReq
  <1>3. CASE ReadScope(r)
    <2> DEFINE a == Admit(req[r].role, req[r].op)
               scope == IF req[r].role = "admin" THEN Projects ELSE members[req[r].by]
               global == req[r].role = "admin"
               q == [req[r] EXCEPT !.pc = a, !.todo = Todo(req[r].op),
                                   !.global = global, !.scope = scope]
    <2>1. /\ req[r].pc = "scope" /\ req[r].by \in Users /\ req[r].op \in Ops
          /\ req' = [req EXCEPT ![r] = IF a = "refused" THEN End("refused") ELSE q]
      BY <1>3, <1>t DEF ReadScope, Routed, BusyPCs
    <2>2. scope \in SUBSET Projects /\ global \in BOOLEAN
      BY <2>1 DEF TypeOK
    <2>3. /\ a \in {"project", "refused", "begin", "account", "create", "exists"}
          /\ a = "project" => req[r].op.kind \in Subtree
          /\ a = "begin" => req[r].op.kind = "patch"
          /\ a = "account" => req[r].op.kind = "account"
          /\ a = "create" => req[r].op.kind = "create"
          /\ a = "exists" => req[r].op.kind = "scan"
      BY <2>1, AdmitRoutes
    <2>4. Todo(req[r].op) \in Seq(Changes) /\ (req[r].op.kind = "patch" => Todo(req[r].op) # <<>>)
      BY <2>1, TodoType
    <2> HIDE DEF a, scope, global
    <2>5. ASSUME a # "refused" PROVE NewReq(q)
      <3>0. a \in BusyPCs
        BY <2>3, <2>5 DEF BusyPCs, OpenPCs
      <3>1. q \in Reqs
        BY <1>t, <2>2, <2>4, <3>0, AdmittedType
      <3>2. q.pc = a /\ q.by = req[r].by /\ q.op = req[r].op /\ q.todo = Todo(req[r].op)
        BY <1>t DEF Reqs
      <3> HIDE DEF q
      <3>3. Routed(q)
        BY <2>1, <2>3, <2>4, <2>5, <3>2 DEF Routed, BusyPCs, OpenPCs, PatchPCs
      <3>4. QED
        BY <3>1, <3>3 DEF NewReq
    <2>6. QED
      BY <2>1, <2>5, EndNew
  <1>4. CASE ScopedProject(r)
    <2> DEFINE h == Handler(req[r].op)
               q == [req[r] EXCEPT !.pc = h]
    <2>1. /\ req[r].pc = "project" /\ req[r].op \in Ops /\ req[r].op.kind \in Subtree
          /\ req' = [req EXCEPT ![r] = q] \/ req' = [req EXCEPT ![r] = End("refused")]
      BY <1>4, <1>t DEF ScopedProject, Routed, BusyPCs
    <2>2. /\ h \in {"archive", "previous", "read"}
          /\ h = "archive" => req[r].op.kind = "archive"
          /\ h = "previous" => req[r].op.kind = "policy"
          /\ h = "read" => req[r].op.kind = "read"
      BY <2>1, HandlerRoutes
    <2> HIDE DEF h
    <2>3. q \in Reqs
      BY <1>t, <2>2 DEF Reqs, BusyPCs
    <2>4. Routed(q)
      BY <1>t, <2>1, <2>2 DEF Routed, BusyPCs, OpenPCs, PatchPCs, Reqs
    <2>5. QED
      BY <2>1, <2>3, <2>4, EndNew DEF NewReq
  <1>5. QED
    BY <1>1, <1>2, <1>3, <1>4

\* The step replaced the request of r, and may have overtaken others.
Replaces(r, q) ==
    \/ req' = [req EXCEPT ![r] = q]
    \/ \E accounts, changed : req' = Overtake([req EXCEPT ![r] = q], accounts, changed)

LEMMA TailNonempty ==
  ASSUME NEW c \in Seq(Changes), c # <<>>, Len(c) # 1
  PROVE  Tail(c) \in Seq(Changes) /\ Tail(c) # <<>>
  <1>1. Tail(c) \in Seq(Changes) /\ Len(Tail(c)) = Len(c) - 1
    OBVIOUS
  <1>2. Len(c) \in Nat /\ Len(c) # 0
    OBVIOUS
  <1>3. Len(Tail(c)) # 0 /\ Len(<<>>) = 0
    BY <1>1, <1>2
  <1>4. QED
    BY <1>1, <1>3

LEMMA AdvanceNew ==
  ASSUME TypeOK, RequestsRouted, NEW r \in Requests, req[r].pc = "write"
  PROVE  /\ NewReq(Advance(r))
         /\ Advance(r).pc \in {"ended", "begin"}
         /\ Advance(r).pc = "begin" => Advance(r) = [req[r] EXCEPT !.pc = "begin", !.todo = Tail(@)]
  <1>t. req[r] \in Reqs /\ Routed(req[r]) /\ req[r].todo \in Seq(Changes)
    BY DEF TypeOK, RequestsRouted, Reqs
  <1>1. CASE Len(req[r].todo) = 1
    BY <1>1, EndNew, EndType DEF Advance
  <1>2. CASE Len(req[r].todo) # 1
    <2> DEFINE q == [req[r] EXCEPT !.pc = "begin", !.todo = Tail(@)]
    <2>1. Advance(r) = q
      BY <1>2 DEF Advance
    <2>2. req[r].todo # <<>> /\ req[r].op.kind = "patch"
      BY <1>t DEF Routed, BusyPCs, OpenPCs, PatchPCs
    <2>3. Tail(req[r].todo) \in Seq(Changes) /\ Tail(req[r].todo) # <<>>
      BY <1>t, <1>2, <2>2, TailNonempty
    <2>4. q \in Reqs
      BY <1>t, <2>3 DEF Reqs, BusyPCs, OpenPCs
    <2>5. q.pc = "begin" /\ q.by = req[r].by /\ q.op = req[r].op /\ q.todo = Tail(req[r].todo)
      BY <1>t DEF Reqs
    <2> HIDE DEF q
    <2>6. Routed(q)
      BY <1>t, <2>2, <2>3, <2>5 DEF Routed, BusyPCs, OpenPCs, PatchPCs
    <2>7. NewReq(q)
      BY <2>4, <2>6 DEF NewReq
    <2>8. Advance(r).pc = "begin" => Advance(r) = [req[r] EXCEPT !.pc = "begin", !.todo = Tail(@)]
      BY <2>1 DEF q
    <2>9. QED
      BY <2>1, <2>5, <2>7, <2>8
  <1>3. QED
    BY <1>1, <1>2

\* A request that gets its connection is otherwise as it was.
LEMMA ConnectReq ==
  ASSUME TypeOK, RequestsRouted, NEW r \in Requests, Connect(r)
  PROVE  /\ req[r].pc \in {"begin", "grant"}
         /\ \E q : NewReq(q) /\ req' = [req EXCEPT ![r] = q]
         /\ req'[r].pc = IF req[r].pc = "begin" THEN "lock" ELSE "granting"
         /\ req'[r].by = req[r].by /\ req'[r].op = req[r].op
         /\ req'[r].role = req[r].role /\ req'[r].scope = req[r].scope
         /\ req'[r].overtaken = req[r].overtaken
  <1> DEFINE pc == IF req[r].pc = "begin" THEN "lock" ELSE "granting"
             q == [req[r] EXCEPT !.pc = pc]
  <1>1. req[r] \in Reqs /\ Routed(req[r]) /\ req \in [Requests -> Reqs]
    BY DEF TypeOK, RequestsRouted
  <1>2. req[r].pc \in {"begin", "grant"} /\ req' = [req EXCEPT ![r] = q]
    BY <1>1 DEF Connect
  <1>3. /\ pc \in {"lock", "granting"}
        /\ pc = "lock" <=> req[r].pc = "begin"
    BY <1>2
  <1> HIDE DEF pc
  <1>4. q \in Reqs
    BY <1>1, <1>3 DEF Reqs, BusyPCs, OpenPCs
  <1>5. /\ q.pc = pc /\ q.by = req[r].by /\ q.op = req[r].op /\ q.todo = req[r].todo
        /\ q.role = req[r].role /\ q.scope = req[r].scope /\ q.overtaken = req[r].overtaken
    BY <1>1 DEF Reqs
  <1>6. req'[r] = q
    BY <1>1, <1>2
  <1> HIDE DEF q
  <1>7. Routed(q)
    BY <1>1, <1>2, <1>3, <1>5 DEF Routed, BusyPCs, OpenPCs, PatchPCs
  <1>8. QED
    BY <1>2, <1>4, <1>5, <1>6, <1>7 DEF NewReq, pc

LEMMA TypeAccountReq ==
  ASSUME TypeOK, RequestsRouted, NEW r \in Requests,
         \/ CreateAccount(r) \/ Connect(r) \/ LockRow(r) \/ Guard(r)
         \/ WriteAccount(r) \/ WriteMembership(r)
  PROVE  \E q : NewReq(q) /\ Replaces(r, q)
  <1>t. req[r] \in Reqs /\ Routed(req[r]) /\ req \in [Requests -> Reqs]
    BY DEF TypeOK, RequestsRouted
  <1>1. CASE CreateAccount(r)
    BY <1>1, EndNew DEF CreateAccount, Replaces
  <1>2. CASE LockRow(r)
    <2> DEFINE u == req[r].op.target
               pc == IF Guarded(user[u], Head(req[r].todo)) THEN "guard" ELSE "write"
               q == [req[r] EXCEPT !.before = user[u], !.held = members[u], !.pc = pc]
    <2>1. /\ req[r].pc = "lock" /\ req[r].op.kind = "patch" /\ req[r].op \in Ops
          /\ req[r].by \in Users \union Tokens /\ req[r].todo # <<>>
      BY <1>2, <1>t DEF LockRow, Routed, BusyPCs, OpenPCs, PatchPCs
    <2>2. user[u] \in Accounts /\ members[u] \in SUBSET Projects /\ pc \in {"guard", "write"}
      BY <2>1, OpFields DEF TypeOK
    <2>3. req' = [req EXCEPT ![r] = End("refused")] \/ req' = [req EXCEPT ![r] = q]
      BY <1>2, <1>t DEF LockRow
    <2> HIDE DEF pc
    <2>4. q \in Reqs
      BY <1>t, <2>2 DEF Reqs, BusyPCs, OpenPCs
    <2>5. q.pc = pc /\ q.by = req[r].by /\ q.op = req[r].op /\ q.todo = req[r].todo
      BY <1>t DEF Reqs
    <2> HIDE DEF q
    <2>6. Routed(q)
      BY <2>1, <2>2, <2>5 DEF Routed, BusyPCs, OpenPCs, PatchPCs
    <2>7. QED
      BY <2>3, <2>4, <2>6, EndNew DEF NewReq, Replaces
  <1>3. CASE Guard(r)
    <2> DEFINE q == [req[r] EXCEPT !.pc = "write"]
    <2>1. req' = [req EXCEPT ![r] = End("ended")] \/ req' = [req EXCEPT ![r] = q]
      BY <1>3, <1>t DEF Guard
    <2>2. q \in Reqs
      BY <1>t DEF Reqs, BusyPCs, OpenPCs
    <2>3. Routed(q)
      BY <1>3, <1>t DEF Guard, Routed, BusyPCs, OpenPCs, PatchPCs, Reqs
    <2>4. QED
      BY <2>1, <2>2, <2>3, EndNew DEF NewReq, Replaces
  <1>4. CASE WriteAccount(r)
    BY <1>4, AdvanceNew DEF WriteAccount, Replaces
  <1>5. CASE WriteMembership(r)
    <2>1. req[r].pc = "write" /\ NewReq(Advance(r)) /\ NewReq(End("ended"))
      BY <1>5, AdvanceNew, EndNew DEF WriteMembership
    <2>2. \/ req' = [req EXCEPT ![r] = End("ended")]
          \/ req' = Overtake([req EXCEPT ![r] = Advance(r)], {req[r].op.target}, {})
      BY <1>5 DEF WriteMembership
    <2>3. QED
      BY <2>1, <2>2 DEF Replaces
  <1>6. CASE Connect(r)
    BY <1>6, ConnectReq DEF Replaces
  <1>7. QED
    BY <1>1, <1>2, <1>3, <1>4, <1>5, <1>6

LEMMA TypeProjectReq ==
  ASSUME TypeOK, RequestsRouted, NEW r \in Requests,
         \/ CreateProject(r) \/ Grant(r) \/ GrantFails(r) \/ SetArchived(r)
         \/ ReadPrevious(r) \/ SetPolicy(r) \/ CheckExists(r) \/ InsertScan(r) \/ Respond(r)
         \/ GiveUp(r)
  PROVE  \E q : NewReq(q) /\ Replaces(r, q)
  <1>t. req[r] \in Reqs /\ Routed(req[r]) /\ req \in [Requests -> Reqs]
    BY DEF TypeOK, RequestsRouted
  <1>1. CASE CreateProject(r)
    <2> DEFINE q == [req[r] EXCEPT !.pc = "grant"]
               p == req[r].op.project
               final == IF req[r].by \in Users /\ ~req[r].global THEN q ELSE End("ended")
    <2>1. q \in Reqs
      BY <1>t DEF Reqs, BusyPCs
    <2>2. Routed(q)
      BY <1>1, <1>t DEF CreateProject, Routed, BusyPCs, OpenPCs, PatchPCs, Reqs
    <2>3. NewReq(q) /\ NewReq(final)
      BY <2>1, <2>2, EndNew DEF NewReq
    <2>4. req' = [req EXCEPT ![r] = End("ended")]
            \/ req' = Overtake([req EXCEPT ![r] = final], {}, {p})
      BY <1>1 DEF CreateProject
    <2> HIDE DEF final
    <2>5. QED
      BY <2>3, <2>4, EndNew DEF Replaces
  <1>2. CASE Grant(r) \/ SetArchived(r)
    BY <1>2, EndNew DEF Grant, SetArchived, Replaces
  <1>3. CASE GrantFails(r) \/ SetPolicy(r) \/ InsertScan(r) \/ Respond(r) \/ GiveUp(r)
    BY <1>3, EndNew DEF GrantFails, SetPolicy, InsertScan, Respond, GiveUp, Replaces
  <1>4. CASE ReadPrevious(r)
    <2> DEFINE q == [req[r] EXCEPT !.pc = "policy", !.previous = policy[req[r].op.project]]
    <2>1. req[r].op \in Ops /\ req[r].op.kind = "policy" /\ req[r].by \in Users \union Tokens
      BY <1>4, <1>t DEF ReadPrevious, Routed, BusyPCs
    <2>2. policy[req[r].op.project] \in PolicyValues \union {"none"}
      BY <2>1, OpFields DEF TypeOK
    <2>3. q \in Reqs
      BY <1>t, <2>2 DEF Reqs, BusyPCs, OpenPCs
    <2>4. Routed(q)
      BY <1>t, <2>1 DEF Routed, BusyPCs, OpenPCs, PatchPCs, Reqs
    <2>5. req' = [req EXCEPT ![r] = q]
      BY <1>4, <1>t DEF ReadPrevious
    <2>6. QED
      BY <2>3, <2>4, <2>5 DEF NewReq, Replaces
  <1>5. CASE CheckExists(r)
    <2> DEFINE q == [req[r] EXCEPT !.pc = "insert"]
    <2>1. q \in Reqs
      BY <1>t DEF Reqs, BusyPCs
    <2>2. Routed(q)
      BY <1>5, <1>t DEF CheckExists, Routed, BusyPCs, OpenPCs, PatchPCs, Reqs
    <2>3. req' = [req EXCEPT ![r] = End("refused")] \/ req' = [req EXCEPT ![r] = q]
      BY <1>5 DEF CheckExists
    <2>4. QED
      BY <2>1, <2>2, <2>3, EndNew DEF NewReq, Replaces
  <1>6. QED
    BY <1>1, <1>2, <1>3, <1>4, <1>5

\* A step of a request replaces it by one that is well formed and routed.
LEMMA StepReq ==
  ASSUME TypeOK, RequestsRouted, NEW r \in Requests, Step(r) \/ GrantFails(r) \/ GiveUp(r)
  PROVE  \E q : NewReq(q) /\ Replaces(r, q)
  BY TypeResolve, TypeAccountReq, TypeProjectReq DEF Step, Replaces

LEMMA AppliedType ==
  ASSUME NEW account \in Accounts, NEW c \in Changes
  PROVE  /\ Applied(account, c) \in Accounts
         /\ account.role # "none" => Applied(account, c).role # "none"
  BY ChangeFields DEF Applied, Accounts, Roles

Records == [before : Accounts, after : Accounts]

LEMMA AuditedType ==
  ASSUME NEW records \in Seq(Records), NEW before \in Accounts, NEW after \in Accounts
  PROVE  Audited(records, before, after) \in Seq(Records)
  BY DEF Audited, Records

\* The rows a change of an account or of its memberships is about.
LEMMA WriteFields ==
  ASSUME TypeOK, RequestsRouted, NEW r \in Requests, req[r].pc \in PatchPCs
  PROVE  /\ req[r].op \in Ops /\ req[r].op.kind = "patch" /\ req[r].op.target \in Users
         /\ req[r].todo \in Seq(Changes) /\ Head(req[r].todo) \in Changes
         /\ req[r].before \in Accounts /\ req[r].held \in SUBSET Projects
         /\ user[req[r].op.target] \in Accounts
  <1>1. req[r] \in Reqs /\ Routed(req[r])
    BY DEF TypeOK, RequestsRouted
  <1>2. req[r].op \in Ops /\ req[r].op.kind = "patch" /\ req[r].todo # <<>>
    BY <1>1 DEF Routed, BusyPCs, OpenPCs, PatchPCs
  <1>3. req[r].todo \in Seq(Changes) /\ req[r].before \in Accounts /\ req[r].held \in SUBSET Projects
    BY <1>1 DEF Reqs
  <1>4. Head(req[r].todo) \in Changes
    BY <1>2, <1>3
  <1>5. QED
    BY <1>2, <1>3, <1>4, OpFields DEF TypeOK

LEMMA ReleaseType ==
  ASSUME TypeOK, NEW r \in Requests, Release(r)
  PROVE  lock' \in [Users -> Requests \union {NoRequest}]
  BY DEF TypeOK, Release

\* Everything but the requests.
TablesType ==
    /\ user \in [Users -> Accounts]
    /\ members \in [Users -> SUBSET Projects]
    /\ project \in [Projects -> [exists : BOOLEAN, archived : BOOLEAN,
                                 creator : Users \union Tokens \union {NoUser}]]
    /\ policy \in [Projects -> PolicyValues \union {"none"}]
    /\ lock \in [Users -> Requests \union {NoRequest}]
    /\ signedIn \subseteq Users
    /\ trail \in [Users -> Seq(Records)]
    /\ audited \in [members : [Users -> SUBSET Projects],
                    policy : [Projects -> PolicyValues \union {"none"}]]

LEMMA TypeParts == TypeOK <=> TablesType /\ req \in [Requests -> Reqs]
  BY DEF TypeOK, TablesType, Records

\* The audited memberships of one user are replaced, the rest is kept.
LEMMA AuditMembers ==
  ASSUME NEW a \in [members : [Users -> SUBSET Projects],
                    policy : [Projects -> PolicyValues \union {"none"}]],
         NEW u \in Users, NEW to \in SUBSET Projects
  PROVE  LET b == [a EXCEPT !.members[u] = to]
         IN  /\ b \in [members : [Users -> SUBSET Projects],
                       policy : [Projects -> PolicyValues \union {"none"}]]
             /\ b.policy = a.policy
             /\ \A v \in Users : b.members[v] = IF v = u THEN to ELSE a.members[v]
  <1> DEFINE m == [a.members EXCEPT ![u] = to]
             b == [a EXCEPT !.members = m]
  <1>1. m \in [Users -> SUBSET Projects] /\ \A v \in Users : m[v] = IF v = u THEN to ELSE a.members[v]
    OBVIOUS
  <1> HIDE DEF m
  <1>2. /\ b \in [members : [Users -> SUBSET Projects],
                  policy : [Projects -> PolicyValues \union {"none"}]]
        /\ b.policy = a.policy /\ b.members = m
    BY <1>1
  <1>3. [a EXCEPT !.members[u] = to] = b
    BY Zenon DEF m
  <1>4. QED
    BY <1>1, <1>2, <1>3

LEMMA TablesStep ==
  ASSUME TypeOK, RequestsRouted, NEW r \in Requests, Step(r) \/ GrantFails(r) \/ GiveUp(r)
  PROVE  TablesType'
  <1>t. TablesType
    BY TypeParts
  <1>1. CASE \/ AuthenticateToken(r) \/ PrincipalForSession(r) \/ ReadScope(r) \/ ScopedProject(r)
             \/ Connect(r) \/ GrantFails(r) \/ ReadPrevious(r) \/ CheckExists(r) \/ InsertScan(r) \/ Respond(r)
    BY <1>1, <1>t DEF AuthenticateToken, PrincipalForSession, ReadScope, ScopedProject, Connect, GrantFails,
       ReadPrevious, CheckExists, InsertScan, Respond, rows, TablesType
  <1>2. CASE CreateAccount(r)
    <2> DEFINE u == req[r].op.target
               account == [role |-> req[r].op.role, disabled |-> FALSE]
    <2>1. req[r].op \in Ops /\ req[r].op.kind = "account"
      BY <1>2 DEF CreateAccount, RequestsRouted, Routed, BusyPCs
    <2>2. u \in Users /\ account \in Accounts /\ NoAccount \in Accounts
      BY <2>1, OpFields, ConstantsAssumption DEF Accounts, NoAccount
    <2>3. user' \in [Users -> Accounts]
      BY <1>2, <1>t, <2>2 DEF CreateAccount, TablesType
    <2>4. Audited(trail[u], NoAccount, user'[u]) \in Seq(Records)
      BY <1>t, <2>2, <2>3, AuditedType DEF TablesType
    <2>5. trail' \in [Users -> Seq(Records)]
      BY <1>2, <1>t, <2>4 DEF CreateAccount, TablesType
    <2>6. QED
      BY <1>2, <1>t, <2>3, <2>5 DEF CreateAccount, TablesType
  <1>3. CASE LockRow(r)
    <2>1. lock' = lock \/ lock' = [lock EXCEPT ![req[r].op.target] = r]
      BY <1>3 DEF LockRow
    <2>2. lock' \in [Users -> Requests \union {NoRequest}]
      BY <1>t, <2>1 DEF TablesType
    <2>3. UNCHANGED <<user, members, project, policy, trail, audited, signedIn>>
      BY <1>3 DEF LockRow, rows
    <2>4. QED
      BY <1>t, <2>2, <2>3 DEF TablesType
  <1>4. CASE Guard(r) \/ GiveUp(r)
    <2>1. lock' \in [Users -> Requests \union {NoRequest}]
      BY <1>4, <1>t, ReleaseType DEF Guard, GiveUp, TablesType
    <2>2. QED
      BY <1>4, <1>t, <2>1 DEF Guard, GiveUp, rows, TablesType
  <1>5. CASE WriteAccount(r)
    <2> DEFINE u == req[r].op.target
               after == Applied(user[u], Head(req[r].todo))
    <2>1. /\ u \in Users /\ user[u] \in Accounts /\ Head(req[r].todo) \in Changes
          /\ req[r].before \in Accounts
      BY <1>5, WriteFields DEF WriteAccount, PatchPCs
    <2>2. after \in Accounts
      BY <2>1, AppliedType
    <2>3. Audited(trail[u], req[r].before, after) \in Seq(Records)
      BY <1>t, <2>1, <2>2, AuditedType DEF TablesType
    <2>4. lock' \in [Users -> Requests \union {NoRequest}]
      BY <1>5, ReleaseType DEF WriteAccount
    <2> HIDE DEF after
    <2>5. user' = [user EXCEPT ![u] = after] /\ trail' = [trail EXCEPT ![u] = Audited(@, req[r].before, after)]
      BY <1>5 DEF WriteAccount, after
    <2>6. user' \in [Users -> Accounts]
      BY <1>t, <2>2, <2>5 DEF TablesType
    <2>7. trail' \in [Users -> Seq(Records)]
      BY <1>t, <2>3, <2>5 DEF TablesType
    <2>8. UNCHANGED <<members, project, policy, signedIn, audited>>
      BY <1>5 DEF WriteAccount
    <2>9. QED
      BY <1>t, <2>4, <2>6, <2>7, <2>8 DEF TablesType
  <1>6. CASE WriteMembership(r)
    <2> DEFINE u == req[r].op.target
               to == Head(req[r].todo).to
    <2>1. u \in Users /\ to \in SUBSET Projects /\ req[r].held \in SUBSET Projects
      BY <1>6, WriteFields, ChangeFields DEF WriteMembership, PatchPCs
    <2>2. lock' \in [Users -> Requests \union {NoRequest}]
      BY <1>6, ReleaseType DEF WriteMembership
    <2> HIDE DEF to
    <2>3. \/ UNCHANGED <<members, audited>>
          \/ /\ members' = [members EXCEPT ![u] = (@ \ req[r].held) \union to]
             /\ audited' = [audited EXCEPT !.members[u] = to]
      BY <1>6 DEF WriteMembership, to
    <2>4. (members[u] \ req[r].held) \union to \in SUBSET Projects
      BY <1>t, <2>1 DEF TablesType
    <2>5. members' \in [Users -> SUBSET Projects]
      BY <1>t, <2>3, <2>4 DEF TablesType
    <2>6. audited' \in [members : [Users -> SUBSET Projects],
                        policy : [Projects -> PolicyValues \union {"none"}]]
      <3>1. audited \in [members : [Users -> SUBSET Projects],
                        policy : [Projects -> PolicyValues \union {"none"}]]
        BY <1>t DEF TablesType
      <3>2. [audited EXCEPT !.members[u] = to]
              \in [members : [Users -> SUBSET Projects],
                   policy : [Projects -> PolicyValues \union {"none"}]]
        BY <2>1, <3>1, AuditMembers, Zenon
      <3>3. QED
        BY <2>3, <3>1, <3>2, Zenon
    <2>7. UNCHANGED <<user, project, policy, signedIn, trail>>
      BY <1>6 DEF WriteMembership
    <2>8. QED
      BY <1>t, <2>2, <2>5, <2>6, <2>7 DEF TablesType
  <1>7. CASE CreateProject(r)
    <2>1. req[r].by \in Users \union Tokens
      BY <1>7 DEF CreateProject, RequestsRouted, Routed, BusyPCs
    <2>2. InsertProject(req[r].by) \in [exists : BOOLEAN, archived : BOOLEAN,
                                       creator : Users \union Tokens \union {NoUser}]
      BY <2>1 DEF InsertProject
    <2>3. \/ project' = project
          \/ project' = [project EXCEPT ![req[r].op.project] = InsertProject(req[r].by)]
      BY <1>7 DEF CreateProject
    <2>4. project' \in [Projects -> [exists : BOOLEAN, archived : BOOLEAN,
                                 creator : Users \union Tokens \union {NoUser}]]
      BY <1>t, <2>2, <2>3 DEF TablesType
    <2>5. UNCHANGED <<user, members, policy, lock, signedIn, trail, audited>>
      BY <1>7 DEF CreateProject
    <2>6. QED
      BY <1>t, <2>4, <2>5 DEF TablesType
  <1>8. CASE Grant(r)
    <2>1. req[r].op \in Ops /\ req[r].op.kind = "create"
      BY <1>8 DEF Grant, RequestsRouted, Routed, BusyPCs, OpenPCs
    <2>2. req[r].op.project \in Projects
      BY <2>1, OpFields
    <2>3. QED
      BY <1>8, <1>t, <2>2 DEF Grant, TablesType
  <1>9. CASE SetArchived(r)
    <2>1. req[r].op \in Ops /\ req[r].op.kind = "archive"
      BY <1>9 DEF SetArchived, RequestsRouted, Routed, BusyPCs
    <2>2. req[r].op.project \in Projects /\ req[r].op.to \in BOOLEAN
      BY <2>1, OpFields
    <2>3. QED
      BY <1>9, <1>t, <2>2, ZenonT(60) DEF SetArchived, TablesType
  <1>10. CASE SetPolicy(r)
    <2>1. req[r].op \in Ops /\ req[r].op.kind = "policy"
      BY <1>10 DEF SetPolicy, RequestsRouted, Routed, BusyPCs, OpenPCs
    <2>2. req[r].op.project \in Projects /\ req[r].op.to \in PolicyValues
      BY <2>1, OpFields
    <2>3. policy' \in [Projects -> PolicyValues \union {"none"}]
      BY <1>10, <1>t, <2>2 DEF SetPolicy, TablesType
    <2>4. audited' \in [members : [Users -> SUBSET Projects],
                        policy : [Projects -> PolicyValues \union {"none"}]]
      BY <1>10, <1>t, <2>2 DEF SetPolicy, TablesType
    <2>5. QED
      BY <1>10, <1>t, <2>3, <2>4 DEF SetPolicy, TablesType
  <1>11. QED
    BY <1>1, <1>2, <1>3, <1>4, <1>5, <1>6, <1>7, <1>8, <1>9, <1>10 DEF Step

LEMMA TypeNext == TypeOK /\ RequestsRouted /\ [Next]_vars => (TypeOK /\ RequestsRouted)'
  <1> SUFFICES ASSUME TypeOK, RequestsRouted, [Next]_vars PROVE (TypeOK /\ RequestsRouted)'
    OBVIOUS
  <1>t. TablesType /\ req \in [Requests -> Reqs]
    BY TypeParts
  <1>1. CASE UNCHANGED vars
    BY <1>1, <1>t DEF vars, rows, TypeOK, RequestsRouted
  <1>2. ASSUME NEW u \in Users, Login(u) \/ Expire(u) PROVE (TypeOK /\ RequestsRouted)'
    BY <1>2 DEF Login, Expire, rows, TypeOK, RequestsRouted
  <1>3. CASE Restart
    <2>1. \A x \in Requests : req'[x] = End("ended") \/ req'[x] = req[x]
      BY <1>3 DEF Restart
    <2>2. End("ended") \in Reqs /\ Routed(End("ended"))
      BY EndType, EndRouted
    <2>3. req' \in [Requests -> Reqs]
      BY <1>3, <1>t, <2>2 DEF Restart
    <2>4. RequestsRouted'
      BY <2>1, <2>2 DEF RequestsRouted
    <2>5. QED
      BY <1>3, <2>3, <2>4 DEF Restart, rows, TypeOK
  <1>4. ASSUME NEW r \in Requests, NEW by \in Users \union Tokens, NEW op \in Ops, Arrive(r, by, op)
        PROVE  (TypeOK /\ RequestsRouted)'
    <2> DEFINE q == [IdleReq EXCEPT !.pc = "auth", !.by = by, !.op = op]
    <2>1. q \in Reqs
      BY IdleReqType DEF Reqs, BusyPCs
    <2>2. q.pc = "auth" /\ q.by = by /\ q.op = op
      BY IdleReqType DEF Reqs
    <2>3. req' = [req EXCEPT ![r] = q]
      BY <1>4 DEF Arrive
    <2> HIDE DEF q
    <2>4. Routed(q)
      BY <2>2 DEF Routed, BusyPCs, OpenPCs, PatchPCs
    <2>5. req' \in [Requests -> Reqs] /\ RequestsRouted'
      BY <1>t, <2>1, <2>3, <2>4, PutReq
    <2>6. QED
      BY <1>4, <2>5 DEF Arrive, rows, TypeOK
  <1>5. ASSUME NEW r \in Requests, Step(r) \/ GrantFails(r) \/ GiveUp(r) PROVE (TypeOK /\ RequestsRouted)'
    <2>1. PICK q : NewReq(q) /\ Replaces(r, q)
      BY <1>5, StepReq
    <2>2. req' \in [Requests -> Reqs] /\ RequestsRouted'
      BY <1>t, <2>1, PutReq DEF NewReq, Replaces
    <2>3. TablesType'
      BY <1>5, TablesStep
    <2>4. QED
      BY <2>2, <2>3 DEF TypeOK, TablesType, Records
  <1>6. QED
    BY <1>1, <1>2, <1>3, <1>4, <1>5 DEF Next

\* Type correctness: the tables, the audit trail, the row locks and the requests
\* keep their types, and a request is only ever in the handler of its own route.
THEOREM TypeCorrect == Spec => [](TypeOK /\ RequestsRouted)
  BY TypeInit, TypeNext, PTL DEF Spec

-----------------------------------------------------------------------------
(* The audit log. *)

\* A step of r changes nothing of another request but that it is overtaken.
LEMMA OthersKeep ==
  ASSUME TypeOK, RequestsRouted, NEW r \in Requests, Step(r) \/ GrantFails(r) \/ GiveUp(r),
         NEW x \in Requests, x # r
  PROVE  /\ req'[x].pc = req[x].pc /\ req'[x].by = req[x].by /\ req'[x].op = req[x].op
         /\ req'[x].role = req[x].role /\ req'[x].scope = req[x].scope
         /\ req'[x].before = req[x].before /\ req'[x].held = req[x].held
         /\ req[x].overtaken => req'[x].overtaken
  <1>1. PICK q : NewReq(q) /\ Replaces(r, q)
    BY StepReq
  <1>2. req \in [Requests -> Reqs] /\ req[x] \in Reqs
    BY DEF TypeOK
  <1>3. req'[x] = req[x] \/ req'[x] = [req[x] EXCEPT !.overtaken = TRUE]
    BY <1>1, <1>2, PutReq DEF NewReq, Replaces
  <1>4. QED
    BY <1>2, <1>3 DEF Reqs

\* What its own step makes of r, but for being overtaken by it.
LEMMA OwnReq ==
  ASSUME TypeOK, RequestsRouted, NEW r \in Requests, NEW q, NewReq(q), Replaces(r, q)
  PROVE  /\ req'[r].pc = q.pc /\ req'[r].by = q.by /\ req'[r].op = q.op
         /\ req'[r].role = q.role /\ req'[r].scope = q.scope
         /\ req'[r].before = q.before /\ req'[r].held = q.held
         /\ q.overtaken => req'[r].overtaken
  <1>1. req \in [Requests -> Reqs] /\ q \in Reqs /\ Routed(q)
    BY DEF TypeOK, NewReq
  <1>2. req'[r] = q \/ req'[r] = [q EXCEPT !.overtaken = TRUE]
    BY <1>1, PutReq DEF Replaces
  <1>3. QED
    BY <1>1, <1>2 DEF Reqs

\* Only the row lock and the guard lead into the change of an account, and only
\* a creation to a grant.
LEMMA OwnPC ==
  ASSUME TypeOK, RequestsRouted, NEW r \in Requests, Step(r) \/ GrantFails(r) \/ GiveUp(r)
  PROVE  /\ req'[r].pc \in {"guard", "write"} => LockRow(r) \/ Guard(r)
         /\ req'[r].pc \in {"grant", "granting"} => CreateProject(r) \/ Connect(r)
  <1>t. req[r] \in Reqs /\ Routed(req[r]) /\ req \in [Requests -> Reqs]
    BY DEF TypeOK, RequestsRouted
  <1>0. /\ End("ended").pc = "ended" /\ End("refused").pc = "refused"
        /\ NewReq(End("ended")) /\ NewReq(End("refused"))
    BY EndType, EndNew
  <1>1. CASE AuthenticateToken(r)
    <2>1. req[r].op \in Ops
      BY <1>1, <1>t DEF AuthenticateToken, Routed, BusyPCs
    <2>2. req'[r].pc \in {"refused", Admit(TokenRole[req[r].by], req[r].op)}
      BY <1>0, <1>1, <1>t DEF AuthenticateToken, Reqs
    <2>3. QED
      BY <2>1, <2>2, AdmitRoutes
  <1>2. CASE PrincipalForSession(r)
    BY <1>0, <1>2, <1>t DEF PrincipalForSession, Reqs
  <1>3. CASE ReadScope(r)
    <2>1. req[r].op \in Ops
      BY <1>3, <1>t DEF ReadScope, Routed, BusyPCs
    <2>2. req'[r].pc \in {"refused", Admit(req[r].role, req[r].op)}
      BY <1>0, <1>3, <1>t DEF ReadScope, Reqs
    <2>3. QED
      BY <2>1, <2>2, AdmitRoutes
  <1>4. CASE ScopedProject(r)
    <2>1. req[r].op \in Ops /\ req[r].op.kind \in Subtree
      BY <1>4, <1>t DEF ScopedProject, Routed, BusyPCs
    <2>2. req'[r].pc \in {"refused", Handler(req[r].op)}
      BY <1>0, <1>4, <1>t DEF ScopedProject, Reqs
    <2>3. QED
      BY <2>1, <2>2, HandlerRoutes
  <1>5. CASE \/ CreateAccount(r) \/ GrantFails(r) \/ SetPolicy(r) \/ InsertScan(r) \/ Respond(r)
             \/ GiveUp(r)
    BY <1>0, <1>5, <1>t DEF CreateAccount, GrantFails, SetPolicy, InsertScan, Respond, GiveUp
  <1>6. CASE LockRow(r) \/ Guard(r)
    BY <1>0, <1>6, <1>t DEF LockRow, Guard, Reqs
  <1>7. CASE WriteAccount(r) \/ WriteMembership(r)
    <2>1. /\ NewReq(Advance(r)) /\ Advance(r).pc \in {"ended", "begin"}
      BY <1>7, AdvanceNew DEF WriteAccount, WriteMembership
    <2>2. Replaces(r, Advance(r)) \/ Replaces(r, End("ended"))
      BY <1>7 DEF WriteAccount, WriteMembership, Replaces
    <2>3. QED
      BY <1>0, <2>1, <2>2, OwnReq
  <1>8. CASE Grant(r) \/ SetArchived(r)
    <2>1. Replaces(r, End("ended"))
      BY <1>8 DEF Grant, SetArchived, Replaces
    <2>2. QED
      BY <1>0, <2>1, OwnReq
  <1>9. CASE CreateProject(r)
    <2> DEFINE q == [req[r] EXCEPT !.pc = "grant"]
    <2>1. q \in Reqs /\ q.pc = "grant"
      BY <1>t DEF Reqs, BusyPCs
    <2>2. Routed(q)
      BY <1>9, <1>t DEF CreateProject, Routed, BusyPCs, OpenPCs, PatchPCs, Reqs
    <2>3. Replaces(r, q) \/ Replaces(r, End("ended"))
      BY <1>9 DEF CreateProject, Replaces
    <2>4. req'[r].pc \in {"grant", "ended"}
      BY <1>0, <2>1, <2>2, <2>3, OwnReq DEF NewReq
    <2>5. QED
      BY <1>9, <2>4
  <1>10. CASE ReadPrevious(r) \/ CheckExists(r)
    BY <1>0, <1>10, <1>t DEF ReadPrevious, CheckExists, Reqs
  <1>11. CASE Connect(r)
    BY <1>11, ConnectReq
  <1>12. QED
    BY <1>1, <1>2, <1>3, <1>4, <1>5, <1>6, <1>7, <1>8, <1>9, <1>10, <1>11 DEF Step

\* The row of an account is written by the request that holds its lock.
LEMMA WriterHolds ==
  ASSUME TypeOK, RequestsRouted, LockedIsCurrent, NEW r \in Requests, req[r].pc = "write"
  PROVE  LET u == req[r].op.target
         IN  /\ u \in Users /\ lock[u] = r /\ Exists(u)
             /\ req[r].before = user[u] /\ req[r].held = members[u]
             /\ Head(req[r].todo) \in Changes
  BY WriteFields DEF LockedIsCurrent, PatchPCs

\* What a step does to the accounts: nothing, or one account is replaced and its
\* record starts at the account as it was.
AccountWritten(r) ==
    \E u \in Users, after \in Accounts :
        /\ after.role # "none"
        /\ ~Exists(u) \/ lock[u] = r
        /\ user' = [user EXCEPT ![u] = after]
        /\ trail' = [trail EXCEPT ![u] = Audited(@, user[u], after)]

LEMMA AccountEffect ==
  ASSUME TypeOK, AuditInv, NEW r \in Requests, Step(r) \/ GrantFails(r) \/ GiveUp(r)
  PROVE  UNCHANGED <<user, trail>> \/ AccountWritten(r)
  <1>r. RequestsRouted /\ LockedIsCurrent /\ TablesSound
    BY DEF AuditInv
  <1>1. CASE CreateAccount(r)
    <2> DEFINE u == req[r].op.target
               account == [role |-> req[r].op.role, disabled |-> FALSE]
    <2>1. req[r].op \in Ops /\ req[r].op.kind = "account"
      BY <1>1, <1>r DEF CreateAccount, RequestsRouted, Routed, BusyPCs
    <2>2. u \in Users /\ account \in Accounts /\ account.role # "none"
      BY <2>1, OpFields, ConstantsAssumption DEF Accounts, Roles
    <2>3. CASE Exists(u)
      BY <1>1, <2>3 DEF CreateAccount
    <2>4. CASE ~Exists(u)
      <3>1. user[u] = NoAccount
        BY <1>r, <2>2, <2>4 DEF TablesSound, Exists
      <3>2. user' = [user EXCEPT ![u] = account]
        BY <1>1, <2>4 DEF CreateAccount
      <3>3. user'[u] = account
        BY <2>2, <3>2 DEF TypeOK
      <3>4. trail' = [trail EXCEPT ![u] = Audited(@, user[u], account)]
        BY <1>1, <2>4, <3>1, <3>3 DEF CreateAccount
      <3> HIDE DEF account
      <3>5. QED
        BY <2>2, <2>4, <3>2, <3>4 DEF AccountWritten
    <2>5. QED
      BY <2>3, <2>4
  <1>2. CASE WriteAccount(r)
    <2> DEFINE u == req[r].op.target
               after == Applied(user[u], Head(req[r].todo))
    <2>1. /\ u \in Users /\ lock[u] = r /\ Exists(u) /\ req[r].before = user[u]
          /\ Head(req[r].todo) \in Changes
      BY <1>2, <1>r, WriterHolds DEF WriteAccount
    <2>2. after \in Accounts /\ after.role # "none"
      BY <2>1, AppliedType DEF TypeOK, Exists
    <2>3. /\ user' = [user EXCEPT ![u] = after]
          /\ trail' = [trail EXCEPT ![u] = Audited(@, user[u], after)]
      BY <1>2, <2>1 DEF WriteAccount
    <2> HIDE DEF after
    <2>4. QED
      BY <2>1, <2>2, <2>3 DEF AccountWritten
  <1>3. CASE ~CreateAccount(r) /\ ~WriteAccount(r)
    BY <1>3 DEF Step, AuthenticateToken, PrincipalForSession, ReadScope, ScopedProject, Connect, LockRow, Guard,
       WriteMembership, CreateProject, Grant, GrantFails, SetArchived, ReadPrevious, SetPolicy,
       CheckExists, InsertScan, Respond, GiveUp, rows
  <1>4. QED
    BY <1>1, <1>2, <1>3

\* To the memberships: nothing, the audited replacement of one account's, or the
\* grant of a project to the one who created it.
MembersWritten(r) ==
    \E u \in Users, to \in SUBSET Projects :
        /\ lock[u] = r
        /\ members' = [members EXCEPT ![u] = to]
        /\ audited' = [audited EXCEPT !.members[u] = to]
MembersGranted ==
    \E u \in Users, p \in Projects :
        /\ lock[u] = NoRequest
        /\ project[p].exists /\ project[p].creator = u
        /\ members' = [members EXCEPT ![u] = @ \union {p}]
        /\ audited' = audited
MembersKept == members' = members /\ audited'.members = audited.members

LEMMA MembersEffect ==
  ASSUME TypeOK, AuditInv, NEW r \in Requests, Step(r) \/ GrantFails(r) \/ GiveUp(r)
  PROVE  MembersKept \/ MembersWritten(r) \/ MembersGranted
  <1>r. RequestsRouted /\ LockedIsCurrent /\ GrantsOwn
    BY DEF AuditInv
  <1>1. CASE WriteMembership(r)
    <2> DEFINE u == req[r].op.target
               to == Head(req[r].todo).to
    <2>1. /\ u \in Users /\ lock[u] = r /\ req[r].held = members[u]
          /\ Head(req[r].todo) \in Changes /\ Head(req[r].todo).kind = "projects"
      BY <1>1, <1>r, WriterHolds DEF WriteMembership
    <2>2. to \in SUBSET Projects
      BY <2>1, ChangeFields
    <2> HIDE DEF to
    <2>3. \/ UNCHANGED <<members, audited>>
          \/ /\ members' = [members EXCEPT ![u] = (@ \ req[r].held) \union to]
             /\ audited' = [audited EXCEPT !.members[u] = to]
      BY <1>1 DEF WriteMembership, to
    <2>4. (members[u] \ req[r].held) \union to = to
      BY <2>1
    <2>5. QED
      BY <2>1, <2>2, <2>3, <2>4 DEF MembersKept, MembersWritten
  <1>2. CASE Grant(r)
    <2> DEFINE p == req[r].op.project
    <2>1. /\ req[r].by \in Users /\ project[p].exists /\ project[p].creator = req[r].by
          /\ req[r].op \in Ops /\ req[r].op.kind = "create"
      BY <1>2, <1>r DEF Grant, GrantsOwn, RequestsRouted, Routed, BusyPCs, OpenPCs
    <2>2. p \in Projects
      BY <2>1, OpFields
    <2>3. /\ lock[req[r].by] = NoRequest
          /\ members' = [members EXCEPT ![req[r].by] = @ \union {p}]
          /\ audited' = audited
      BY <1>2 DEF Grant
    <2>4. QED
      BY <2>1, <2>2, <2>3 DEF MembersGranted
  <1>3. CASE SetPolicy(r)
    <2>1. audited' = [audited EXCEPT !.policy[req[r].op.project] = req[r].op.to] /\ members' = members
      BY <1>3 DEF SetPolicy
    <2>2. audited'.members = audited.members
      BY <2>1 DEF TypeOK
    <2>3. QED
      BY <2>1, <2>2 DEF MembersKept
  <1>4. CASE ~WriteMembership(r) /\ ~Grant(r) /\ ~SetPolicy(r)
    <2>1. UNCHANGED <<members, audited>>
      BY <1>4 DEF Step, AuthenticateToken, PrincipalForSession, ReadScope, ScopedProject, Connect, LockRow, Guard,
         CreateAccount, WriteAccount, CreateProject, GrantFails, SetArchived, ReadPrevious,
         CheckExists, InsertScan, Respond, GiveUp, rows
    <2>2. QED
      BY <2>1 DEF MembersKept
  <1>5. QED
    BY <1>1, <1>2, <1>3, <1>4

\* To the projects: one that is there stays there, with its creator.
LEMMA ProjectEffect ==
  ASSUME TypeOK, AuditInv, NEW r \in Requests, Step(r) \/ GrantFails(r) \/ GiveUp(r), NEW p \in Projects
  PROVE  /\ project[p].exists => project'[p].exists /\ project'[p].creator = project[p].creator
         /\ ~project'[p].exists => project'[p].creator = NoUser
  <1>r. RequestsRouted /\ (~project[p].exists => project[p].creator = NoUser)
    BY DEF AuditInv, TablesSound
  <1>1. CASE CreateProject(r)
    <2> DEFINE new == req[r].op.project
    <2>1. \/ project' = project
          \/ ~project[new].exists /\ project' = [project EXCEPT ![new] = InsertProject(req[r].by)]
      BY <1>1 DEF CreateProject
    <2>2. \/ project'[p] = project[p]
          \/ ~project[p].exists /\ project'[p] = InsertProject(req[r].by)
      BY <2>1, Zenon DEF TypeOK
    <2>3. InsertProject(req[r].by).exists
      BY DEF InsertProject
    <2>4. QED
      BY <1>r, <2>2, <2>3, Zenon
  <1>2. CASE SetArchived(r)
    <2>1. project' = [project EXCEPT ![req[r].op.project].archived = req[r].op.to]
      BY <1>2 DEF SetArchived
    <2>2. project'[p] = project[p] \/ project'[p] = [project[p] EXCEPT !.archived = req[r].op.to]
      <3> DEFINE w == [project[req[r].op.project] EXCEPT !.archived = req[r].op.to]
      <3>1. project' = [project EXCEPT ![req[r].op.project] = w]
        BY <2>1, Zenon
      <3>2. project'[p] = IF p = req[r].op.project THEN w ELSE project[p]
        BY <3>1, Zenon DEF TypeOK
      <3>3. QED
        BY <3>2, Zenon
    <2>3. project'[p].exists = project[p].exists /\ project'[p].creator = project[p].creator
      BY <2>2 DEF TypeOK
    <2>4. QED
      BY <1>r, <2>3
  <1>3. CASE ~CreateProject(r) /\ ~SetArchived(r)
    <2>1. project' = project
      BY <1>3 DEF Step, AuthenticateToken, PrincipalForSession, ReadScope, ScopedProject, Connect, LockRow, Guard,
         CreateAccount, WriteAccount, WriteMembership, Grant, GrantFails, SetPolicy, ReadPrevious,
         CheckExists, InsertScan, Respond, GiveUp, rows
    <2>2. QED
      BY <1>r, <2>1
  <1>4. QED
    BY <1>1, <1>2, <1>3

\* To the locks: those of other requests stay.
LEMMA LockEffect ==
  ASSUME TypeOK, NEW r \in Requests, Step(r) \/ GrantFails(r) \/ GiveUp(r), NEW u \in Users,
         lock[u] \notin {r, NoRequest}
  PROVE  lock'[u] = lock[u]
  <1>1. CASE LockRow(r)
    <2>1. lock[req[r].op.target] = NoRequest
            /\ (lock' = lock \/ lock' = [lock EXCEPT ![req[r].op.target] = r])
      BY <1>1 DEF LockRow
    <2>2. QED
      BY <2>1 DEF TypeOK
  <1>2. CASE ~LockRow(r)
    <2>1. lock' = lock \/ Release(r)
      BY <1>2 DEF Step, AuthenticateToken, PrincipalForSession, ReadScope, ScopedProject, Connect, Guard,
         CreateAccount, WriteAccount, WriteMembership, Grant, GrantFails, SetPolicy, ReadPrevious,
         CreateProject, SetArchived, CheckExists, InsertScan, Respond, GiveUp, rows
    <2>2. QED
      BY <2>1 DEF Release
  <1>3. QED
    BY <1>1, <1>2

LEMMA TablesSoundStep ==
  ASSUME TypeOK, AuditInv, NEW r \in Requests, Step(r) \/ GrantFails(r) \/ GiveUp(r)
  PROVE  TablesSound'
  <1>1. signedIn' = signedIn
    BY DEF Step, AuthenticateToken, PrincipalForSession, ReadScope, ScopedProject, Connect, LockRow, Guard,
       CreateAccount, WriteAccount, WriteMembership, Grant, GrantFails, SetPolicy, ReadPrevious,
       CreateProject, SetArchived, CheckExists, InsertScan, Respond, GiveUp, rows
  <1>2. \A v \in Users : \/ user'[v] = user[v]
                         \/ user'[v].role # "none"
    BY AccountEffect DEF AccountWritten, TypeOK
  <1>3. \A u \in Users : user'[u].role = "none" => user'[u] = NoAccount
    BY <1>2 DEF AuditInv, TablesSound
  <1>4. \A u \in signedIn' : user'[u].role # "none"
    BY <1>1, <1>2 DEF AuditInv, TablesSound, Exists, TypeOK
  <1>5. QED
    BY <1>3, <1>4, ProjectEffect DEF TablesSound, Exists

LEMMA LockedStep ==
  ASSUME TypeOK, AuditInv, TypeOK', NEW r \in Requests, Step(r) \/ GrantFails(r) \/ GiveUp(r)
  PROVE  LockedIsCurrent'
  <1>r. RequestsRouted /\ LockedIsCurrent
    BY DEF AuditInv
  <1>1. ASSUME NEW x \in Requests, x # r, req'[x].pc \in {"guard", "write"}
        PROVE  LET u == req'[x].op.target
               IN  /\ lock'[u] = x /\ user'[u].role # "none"
                   /\ req'[x].before = user'[u] /\ req'[x].held = members'[u]
    <2> DEFINE u == req[x].op.target
    <2>1. /\ req'[x].op = req[x].op /\ req[x].pc \in {"guard", "write"}
          /\ req'[x].before = req[x].before /\ req'[x].held = req[x].held
      BY <1>1, <1>r, OthersKeep
    <2>2. u \in Users
      BY <2>1, <1>r, WriteFields DEF PatchPCs
    <2>3. lock[u] = x /\ Exists(u) /\ req[x].before = user[u] /\ req[x].held = members[u]
      BY <2>1, <1>r DEF LockedIsCurrent
    <2>4. lock[u] \notin {r, NoRequest}
      BY <1>1, <2>3, ConstantsAssumption
    <2>5. lock'[u] = x
      BY <2>2, <2>3, <2>4, LockEffect
    <2>6. user'[u] = user[u]
      <3>1. ASSUME AccountWritten(r) PROVE user'[u] = user[u]
        <4>1. PICK v \in Users, after \in Accounts :
                (~Exists(v) \/ lock[v] = r) /\ user' = [user EXCEPT ![v] = after]
          BY <3>1 DEF AccountWritten
        <4>2. v # u
          BY <2>3, <2>4, <4>1
        <4>3. QED
          BY <2>2, <4>1, <4>2 DEF TypeOK
      <3>2. QED
        BY <3>1, AccountEffect
    <2>7. members'[u] = members[u]
      <3>1. ASSUME MembersWritten(r) \/ MembersGranted PROVE members'[u] = members[u]
        <4>1. PICK v \in Users :
                lock[v] \in {r, NoRequest} /\ \E to : members' = [members EXCEPT ![v] = to]
          BY <3>1 DEF MembersWritten, MembersGranted
        <4>2. v # u
          BY <2>4, <4>1
        <4>3. QED
          BY <2>2, <4>1, <4>2 DEF TypeOK
      <3>2. QED
        BY <3>1, MembersEffect DEF MembersKept
    <2>8. QED
      BY <2>1, <2>3, <2>5, <2>6, <2>7 DEF Exists
  <1>2. ASSUME req'[r].pc \in {"guard", "write"}
        PROVE  LET u == req'[r].op.target
               IN  /\ lock'[u] = r /\ user'[u].role # "none"
                   /\ req'[r].before = user'[u] /\ req'[r].held = members'[u]
    <2> DEFINE u == req[r].op.target
    <2>0. req[r] \in Reqs /\ req \in [Requests -> Reqs]
      BY DEF TypeOK
    <2>1. CASE LockRow(r)
      <3>1. u \in Users
        BY <2>1, <1>r, WriteFields DEF LockRow, PatchPCs
      <3>2. End("refused").pc = "refused"
        BY EndType
      <3>3. Exists(u)
        BY <1>2, <2>0, <2>1, <3>2 DEF LockRow
      <3> DEFINE pc == IF Guarded(user[u], Head(req[r].todo)) THEN "guard" ELSE "write"
      <3>4. /\ lock' = [lock EXCEPT ![u] = r]
            /\ req' = [req EXCEPT ![r].before = user[u], ![r].held = members[u], ![r].pc = pc]
            /\ user' = user /\ members' = members
        BY <2>1, <3>3 DEF LockRow, rows
      <3> HIDE DEF pc
      <3>5. req'[r] = [req[r] EXCEPT !.before = user[u], !.held = members[u], !.pc = pc]
        BY <2>0, <3>4
      <3>6. req'[r].op = req[r].op /\ req'[r].before = user[u] /\ req'[r].held = members[u]
        BY <2>0, <3>5 DEF Reqs
      <3>7. lock'[u] = r
        BY <3>1, <3>4 DEF TypeOK
      <3>8. QED
        BY <3>3, <3>4, <3>6, <3>7 DEF Exists
    <2>2. CASE Guard(r)
      <3>1. u \in Users /\ req[r].pc = "guard"
        BY <2>2, <1>r, WriteFields DEF Guard, PatchPCs
      <3>2. lock[u] = r /\ Exists(u) /\ req[r].before = user[u] /\ req[r].held = members[u]
        BY <3>1, <1>r DEF LockedIsCurrent
      <3>3. End("ended").pc = "ended"
        BY EndType
      <3>4. /\ req' = [req EXCEPT ![r].pc = "write"] /\ lock' = lock
            /\ user' = user /\ members' = members
        BY <1>2, <2>0, <2>2, <3>3 DEF Guard, rows
      <3>5. req'[r] = [req[r] EXCEPT !.pc = "write"]
        BY <2>0, <3>4
      <3>6. req'[r].op = req[r].op /\ req'[r].before = req[r].before /\ req'[r].held = req[r].held
        BY <2>0, <3>5 DEF Reqs
      <3>7. QED
        BY <3>2, <3>4, <3>6 DEF Exists
    <2>3. QED
      BY <1>2, <1>r, <2>1, <2>2, OwnPC
  <1>3. QED
    BY <1>1, <1>2 DEF LockedIsCurrent, Exists

LEMMA GrantsStep ==
  ASSUME TypeOK, AuditInv, NEW r \in Requests, Step(r) \/ GrantFails(r) \/ GiveUp(r)
  PROVE  GrantsOwn'
  <1>r. RequestsRouted /\ GrantsOwn /\ \A x \in Requests : Routed(req[x])
    BY DEF AuditInv, RequestsRouted
  <1>1. ASSUME NEW x \in Requests, x # r, req'[x].pc \in {"grant", "granting"}
        PROVE  /\ req'[x].by \in Users /\ project'[req'[x].op.project].exists
               /\ project'[req'[x].op.project].creator = req'[x].by
    <2>1. req'[x].op = req[x].op /\ req[x].pc \in {"grant", "granting"} /\ req'[x].by = req[x].by
      BY <1>1, <1>r, OthersKeep
    <2>2. req[x].op \in Ops /\ req[x].op.kind = "create"
      BY <2>1, <1>r DEF Routed, BusyPCs, OpenPCs
    <2>3. req[x].op.project \in Projects
      BY <2>2, OpFields
    <2>4. QED
      BY <1>r, <2>1, <2>3, ProjectEffect DEF GrantsOwn
  <1>2. ASSUME req'[r].pc \in {"grant", "granting"}, CreateProject(r)
        PROVE  /\ req'[r].by \in Users /\ project'[req'[r].op.project].exists
               /\ project'[req'[r].op.project].creator = req'[r].by
    <2> DEFINE q == [req[r] EXCEPT !.pc = "grant"]
               p == req[r].op.project
               final == IF req[r].by \in Users /\ ~req[r].global THEN q ELSE End("ended")
    <2>0. req[r] \in Reqs /\ req \in [Requests -> Reqs] /\ End("ended").pc = "ended"
      BY EndType DEF TypeOK
    <2>1. CreateProject(r)
      BY <1>2
    <2>2. req[r].op \in Ops /\ req[r].op.kind = "create" /\ req[r].by \in Users \union Tokens
      BY <2>1, <1>r DEF CreateProject, Routed, BusyPCs
    <2>3. p \in Projects
      BY <2>2, OpFields
    <2>4. q \in Reqs /\ q.pc = "grant" /\ q.by = req[r].by /\ q.op = req[r].op
      BY <2>0 DEF Reqs, BusyPCs
    <2>5. Routed(q)
      BY <2>2, <2>4 DEF Routed, OpenPCs, PatchPCs
    <2>6. ~project[p].exists
      BY <1>2, <2>0, <2>1 DEF CreateProject
    <2>7. /\ project' = [project EXCEPT ![p] = InsertProject(req[r].by)]
          /\ req' = Overtake([req EXCEPT ![r] = final], {}, {p})
      BY <2>1, <2>6 DEF CreateProject
    <2>8. NewReq(final) /\ Replaces(r, final)
      <3>1. NewReq(final)
        BY <2>4, <2>5, EndNew DEF NewReq
      <3>2. Replaces(r, final)
        BY <2>7 DEF Replaces
      <3>3. QED
        BY <3>1, <3>2
    <2>9. req'[r].pc = final.pc /\ req'[r].by = final.by /\ req'[r].op = final.op
      BY <1>r, <2>8, OwnReq
    <2>10. final = q /\ req[r].by \in Users
      BY <1>2, <2>0, <2>9
    <2>11. req'[r].by = req[r].by /\ req'[r].op = req[r].op
      BY <2>4, <2>9, <2>10
    <2>12. project'[p] = InsertProject(req[r].by)
      BY <2>3, <2>7 DEF TypeOK
    <2>13. QED
      BY <2>10, <2>11, <2>12 DEF InsertProject
  <1>3. ASSUME req'[r].pc \in {"grant", "granting"}, Connect(r)
        PROVE  /\ req'[r].by \in Users /\ project'[req'[r].op.project].exists
               /\ project'[req'[r].op.project].creator = req'[r].by
    <2>1. /\ req[r].pc = "grant" /\ req'[r].by = req[r].by /\ req'[r].op = req[r].op
          /\ project' = project
      BY <1>3, <1>r, ConnectReq DEF Connect, rows
    <2>2. QED
      BY <1>r, <2>1 DEF GrantsOwn
  <1>4. QED
    BY <1>1, <1>2, <1>3, <1>r, OwnPC DEF GrantsOwn

\* A record appended at the account as it was keeps the trail exact.
LEMMA AuditedExact ==
  ASSUME NEW records \in Seq(Records), NEW before \in Accounts, NEW after \in Accounts,
         \A i \in 1..(Len(records) - 1) : records[i].after = records[i + 1].before,
         records # <<>> => records[Len(records)].after = before
  PROVE  LET new == Audited(records, before, after)
         IN  /\ \A i \in 1..(Len(new) - 1) : new[i].after = new[i + 1].before
             /\ new[Len(new)].after = after
  <1> DEFINE new == Audited(records, before, after)
             last == [before |-> before, after |-> after]
             n == Len(records)
  <1>1. last \in Records /\ last.before = before /\ last.after = after
    BY DEF Records
  <1> HIDE DEF last
  <1>2. new = Append(records, last)
    BY DEF Audited, last
  <1>3. n \in Nat /\ Len(new) = n + 1 /\ new[n + 1] = last /\ \A i \in 1..n : new[i] = records[i]
    BY <1>1, <1>2
  <1>4. n > 0 => records # <<>>
    OBVIOUS
  <1> HIDE DEF new
  <1>5. ASSUME NEW i \in 1..(Len(new) - 1) PROVE new[i].after = new[i + 1].before
    <2>1. i \in 1..n
      BY <1>3
    <2>2. CASE i = n
      BY <1>1, <1>3, <1>4, <2>1, <2>2
    <2>3. CASE i # n
      <3>1. i \in 1..(n - 1) /\ i + 1 \in 1..n
        BY <1>3, <2>1, <2>3
      <3>2. new[i] = records[i] /\ new[i + 1] = records[i + 1]
        BY <1>3, <2>1, <3>1
      <3>3. QED
        BY <3>1, <3>2
    <2>4. QED
      BY <2>2, <2>3
  <1>6. QED
    BY <1>1, <1>3, <1>5 DEF new

LEMMA TrailStep ==
  ASSUME TypeOK, AuditInv, NEW r \in Requests, Step(r) \/ GrantFails(r) \/ GiveUp(r)
  PROVE  TrailIsExact'
  <1>0. TrailIsExact /\ user \in [Users -> Accounts] /\ trail \in [Users -> Seq(Records)]
    BY DEF AuditInv, TypeOK, Records
  <1>1. CASE UNCHANGED <<user, trail>>
    BY <1>0, <1>1 DEF TrailIsExact
  <1>2. CASE AccountWritten(r)
    <2>1. PICK u \in Users, after \in Accounts :
            /\ user' = [user EXCEPT ![u] = after]
            /\ trail' = [trail EXCEPT ![u] = Audited(@, user[u], after)]
      BY <1>2 DEF AccountWritten
    <2> DEFINE new == Audited(trail[u], user[u], after)
    <2>2. trail[u] \in Seq(Records) /\ user[u] \in Accounts
      BY <1>0
    <2>3. /\ \A i \in 1..(Len(trail[u]) - 1) : trail[u][i].after = trail[u][i + 1].before
          /\ trail[u] # <<>> => trail[u][Len(trail[u])].after = user[u]
      BY <1>0 DEF TrailIsExact
    <2>4. /\ \A i \in 1..(Len(new) - 1) : new[i].after = new[i + 1].before
          /\ new[Len(new)].after = after
      BY <2>2, <2>3, AuditedExact
    <2> HIDE DEF new
    <2>5. \A v \in Users : /\ user'[v] = IF v = u THEN after ELSE user[v]
                           /\ trail'[v] = IF v = u THEN new ELSE trail[v]
      BY <1>0, <2>1 DEF new
    <2>6. ASSUME NEW v \in Users
          PROVE  /\ \A i \in 1..(Len(trail'[v]) - 1) : trail'[v][i].after = trail'[v][i + 1].before
                 /\ trail'[v] # <<>> => trail'[v][Len(trail'[v])].after = user'[v]
      <3>1. CASE v = u
        BY <2>4, <2>5, <3>1
      <3>2. CASE v # u
        BY <1>0, <2>5, <3>2 DEF TrailIsExact
      <3>3. QED
        BY <3>1, <3>2
    <2>7. QED
      BY <2>6 DEF TrailIsExact
  <1>3. QED
    BY <1>1, <1>2, AccountEffect

LEMMA PolicyEffect ==
  ASSUME TypeOK, AuditInv, NEW r \in Requests, Step(r) \/ GrantFails(r) \/ GiveUp(r), NEW p \in Projects
  PROVE  policy'[p] = audited'.policy[p]
  <1>0. policy[p] = audited.policy[p]
    BY DEF AuditInv, AuditEndsHere
  <1>1. CASE SetPolicy(r)
    <2> DEFINE q == req[r].op.project
               m == [audited.policy EXCEPT ![q] = req[r].op.to]
    <2>1. policy' = [policy EXCEPT ![q] = req[r].op.to]
            /\ audited' = [audited EXCEPT !.policy[q] = req[r].op.to]
      BY <1>1 DEF SetPolicy
    <2>2. audited' = [audited EXCEPT !.policy = m]
      BY <2>1, Zenon
    <2>3. audited'.policy = m
      BY <2>2, Zenon DEF TypeOK
    <2>4. m[p] = IF p = q THEN req[r].op.to ELSE audited.policy[p]
      BY DEF TypeOK
    <2>5. policy'[p] = IF p = q THEN req[r].op.to ELSE policy[p]
      BY <2>1 DEF TypeOK
    <2>6. QED
      BY <1>0, <2>3, <2>4, <2>5, Zenon
  <1>2. CASE WriteMembership(r)
    <2>1. policy' = policy
            /\ (audited' = audited
                  \/ audited' = [audited EXCEPT !.members[req[r].op.target] = Head(req[r].todo).to])
      BY <1>2 DEF WriteMembership
    <2>2. audited'.policy = audited.policy
      BY <2>1, Zenon DEF TypeOK
    <2>3. QED
      BY <1>0, <2>1, <2>2
  <1>3. CASE ~SetPolicy(r) /\ ~WriteMembership(r)
    <2>1. UNCHANGED <<policy, audited>>
      BY <1>3 DEF Step, AuthenticateToken, PrincipalForSession, ReadScope, ScopedProject, Connect, LockRow, Guard,
         CreateAccount, WriteAccount, CreateProject, Grant, GrantFails, SetArchived, ReadPrevious,
         CheckExists, InsertScan, Respond, GiveUp, rows
    <2>2. QED
      BY <1>0, <2>1
  <1>4. QED
    BY <1>1, <1>2, <1>3

LEMMA EndsHereStep ==
  ASSUME TypeOK, AuditInv, NEW r \in Requests, Step(r) \/ GrantFails(r) \/ GiveUp(r)
  PROVE  AuditEndsHere'
  <1>1. ASSUME NEW u \in Users
        PROVE  /\ audited'.members[u] \subseteq members'[u]
               /\ \A p \in members'[u] \ audited'.members[u] : project'[p].creator = u
    <2>0. /\ audited.members[u] \subseteq members[u]
          /\ \A p \in members[u] \ audited.members[u] : p \in Projects /\ project[p].creator = u
      BY DEF AuditInv, AuditEndsHere, TypeOK
    <2>1. \A p \in Projects : project[p].creator = u => project'[p].creator = u
      <3>1. ASSUME NEW p \in Projects, project[p].creator = u PROVE project'[p].creator = u
        <4>1. project[p].exists
          BY <3>1, ConstantsAssumption DEF AuditInv, TablesSound
        <4>2. QED
          BY <3>1, <4>1, ProjectEffect
      <3>2. QED
        BY <3>1
    <2>2. CASE MembersKept
      BY <2>0, <2>1, <2>2 DEF MembersKept
    <2>3. CASE MembersWritten(r)
      <3>1. PICK v \in Users, to \in SUBSET Projects :
              /\ members' = [members EXCEPT ![v] = to]
              /\ audited' = [audited EXCEPT !.members[v] = to]
        BY <2>3 DEF MembersWritten
      <3>2. audited \in [members : [Users -> SUBSET Projects],
                        policy : [Projects -> PolicyValues \union {"none"}]]
        BY DEF TypeOK
      <3>3. [audited EXCEPT !.members[v] = to].members[u] = IF u = v THEN to ELSE audited.members[u]
        BY <3>2, AuditMembers, SMTT(30)
      <3>4. audited'.members[u] = IF u = v THEN to ELSE audited.members[u]
        BY <3>1, <3>3, Zenon
      <3>5. members'[u] = IF u = v THEN to ELSE members[u]
        BY <3>1 DEF TypeOK
      <3>6. QED
        BY <2>0, <2>1, <3>4, <3>5
    <2>4. CASE MembersGranted
      <3>1. PICK v \in Users, p \in Projects :
              /\ project[p].creator = v
              /\ members' = [members EXCEPT ![v] = @ \union {p}]
              /\ audited' = audited
        BY <2>4 DEF MembersGranted
      <3>2. members'[u] = IF u = v THEN members[u] \union {p} ELSE members[u]
        BY <3>1 DEF TypeOK
      <3>3. QED
        BY <2>0, <2>1, <3>1, <3>2
    <2>5. QED
      BY <2>2, <2>3, <2>4, MembersEffect
  <1>2. QED
    BY <1>1, PolicyEffect DEF AuditEndsHere

LEMMA AuditInit == Init => AuditInv
  <1> SUFFICES ASSUME Init PROVE AuditInv
    OBVIOUS
  <1>t. TypeOK /\ RequestsRouted
    BY TypeInit
  <1>1. \A r \in Requests : req[r].pc = "idle"
    BY DEF Init, IdleReq
  <1>2. \A u \in Users : user[u] = [role |-> user[u].role, disabled |-> FALSE]
    BY DEF Init
  <1>3. TablesSound
    <2>1. \A u \in Users : user[u].role = "none" => user[u] = NoAccount
      BY <1>2, Zenon DEF NoAccount
    <2>2. \A u \in signedIn : Exists(u)
      BY DEF Init, Exists
    <2>3. \A p \in Projects : project[p].creator = NoUser
      BY DEF Init
    <2>4. QED
      BY <2>1, <2>2, <2>3 DEF TablesSound
  <1>4. LockedIsCurrent /\ GrantsOwn
    BY <1>1 DEF LockedIsCurrent, GrantsOwn
  <1>5. TrailIsExact
    BY DEF Init, TrailIsExact
  <1>6. AuditEndsHere
    <2>1. audited.members = members /\ audited.policy = policy
      BY DEF Init
    <2>2. QED
      BY <2>1 DEF AuditEndsHere
  <1>7. QED
    BY <1>t, <1>3, <1>4, <1>5, <1>6 DEF AuditInv

LEMMA AuditNext == TypeOK /\ TypeOK' /\ RequestsRouted' /\ AuditInv /\ [Next]_vars => AuditInv'
  <1> SUFFICES ASSUME TypeOK, TypeOK', RequestsRouted', AuditInv, [Next]_vars PROVE AuditInv'
    OBVIOUS
  <1>0. RequestsRouted /\ TablesSound /\ LockedIsCurrent /\ GrantsOwn /\ TrailIsExact /\ AuditEndsHere
    BY DEF AuditInv
  <1>1. CASE UNCHANGED vars
    BY <1>0, <1>1 DEF vars, rows, AuditInv, RequestsRouted, TablesSound, LockedIsCurrent, GrantsOwn,
       TrailIsExact, AuditEndsHere, Exists
  <1>2. ASSUME UNCHANGED rows, \A u \in signedIn' : Exists(u),
               \A x \in Requests : \/ req'[x].pc \notin {"guard", "write", "grant", "granting"}
                                   \/ req'[x] = req[x] /\ lock' = lock
        PROVE  AuditInv'
    <2>1. TablesSound' /\ TrailIsExact' /\ AuditEndsHere'
      BY <1>0, <1>2 DEF rows, TablesSound, TrailIsExact, AuditEndsHere, Exists
    <2>2. LockedIsCurrent' /\ GrantsOwn'
      BY <1>0, <1>2 DEF rows, LockedIsCurrent, GrantsOwn, Exists
    <2>3. QED
      BY <2>1, <2>2 DEF AuditInv
  <1>3. ASSUME NEW u \in Users, Login(u) \/ Expire(u) PROVE AuditInv'
    <2>1. UNCHANGED <<rows, lock, req>> /\ \A v \in signedIn' : Exists(v)
      BY <1>0, <1>3 DEF Login, Expire, TablesSound
    <2>2. QED
      BY <1>2, <2>1
  <1>4. CASE Restart
    <2>1. UNCHANGED rows /\ signedIn' = {}
      BY <1>4 DEF Restart
    <2>2. ASSUME NEW x \in Requests PROVE req'[x].pc \notin {"guard", "write", "grant", "granting"}
      <3>1. req'[x] = IF req[x].pc \in BusyPCs THEN End("ended") ELSE req[x]
        BY <1>4 DEF Restart
      <3>2. QED
        BY <3>1, EndType DEF BusyPCs, OpenPCs
    <2>3. QED
      BY <1>2, <2>1, <2>2
  <1>5. ASSUME NEW r \in Requests, NEW by \in Users \union Tokens, NEW op \in Ops, Arrive(r, by, op)
        PROVE  AuditInv'
    <2>1. UNCHANGED <<rows, lock, signedIn>>
      BY <1>5 DEF Arrive
    <2> DEFINE q == [IdleReq EXCEPT !.pc = "auth", !.by = by, !.op = op]
    <2>2. q.pc = "auth"
      BY IdleReqType DEF Reqs
    <2>3. req' = [req EXCEPT ![r] = q]
      BY <1>5 DEF Arrive
    <2> HIDE DEF q
    <2>4. \A x \in Requests : req'[x].pc = "auth" \/ req'[x] = req[x]
      BY <2>2, <2>3 DEF TypeOK
    <2>5. QED
      BY <1>0, <1>2, <2>1, <2>4 DEF TablesSound
  <1>6. ASSUME NEW r \in Requests, Step(r) \/ GrantFails(r) \/ GiveUp(r) PROVE AuditInv'
    BY <1>6, TablesSoundStep, LockedStep, GrantsStep, TrailStep, EndsHereStep DEF AuditInv
  <1>7. QED
    BY <1>1, <1>3, <1>4, <1>5, <1>6 DEF Next

\* The audit log agrees with the tables, whatever requests overlap or stop half
\* way: a change to an account reads the row FOR UPDATE and so records the value
\* it replaces; the memberships it deletes are those it read; and beyond what is
\* audited a person is a member only of projects they created.
THEOREM AuditIsExactHolds == Spec => []AuditIsExact
  <1>1. Init => TypeOK /\ RequestsRouted /\ AuditInv
    BY TypeInit, AuditInit
  <1>2. TypeOK /\ RequestsRouted /\ AuditInv /\ [Next]_vars => (TypeOK /\ RequestsRouted /\ AuditInv)'
    BY TypeNext, AuditNext
  <1>3. TypeOK /\ AuditInv => AuditIsExact
    BY DEF AuditIsExact, AuditInv
  <1>4. QED
    BY <1>1, <1>2, <1>3, PTL DEF Spec

-----------------------------------------------------------------------------
(* What a request knows. *)

\* A request that a change did not overtake is not about what changed.
LEMMA NotOvertaken ==
  ASSUME NEW reqs \in [Requests -> Reqs], NEW accounts, NEW changed, NEW x \in Requests,
         Overtake(reqs, accounts, changed)[x].pc \in BusyPCs,
         ~Overtake(reqs, accounts, changed)[x].overtaken
  PROVE  LET q == Overtake(reqs, accounts, changed)[x]
         IN  /\ q.by \notin accounts
             /\ q.op.kind \in Subtree \union {"scan"} => q.op.project \notin changed
  <1> DEFINE q == Overtake(reqs, accounts, changed)[x]
  <1>1. reqs[x] \in Reqs
    OBVIOUS
  <1>2. q = reqs[x] \/ q = [reqs[x] EXCEPT !.overtaken = TRUE]
    BY OvertakeEffect
  <1>3. q.pc = reqs[x].pc /\ q.by = reqs[x].by /\ q.op = reqs[x].op
    BY <1>1, <1>2 DEF Reqs
  <1>4. reqs[x].pc \in BusyPCs
          /\ \/ reqs[x].by \in accounts
             \/ reqs[x].op.kind \in Subtree \union {"scan"} /\ reqs[x].op.project \in changed
        => q.overtaken
    BY OvertakeEffect
  <1> HIDE DEF q
  <1>5. q.pc \in BusyPCs /\ ~q.overtaken
    BY DEF q
  <1>6. /\ q.by \notin accounts
        /\ q.op.kind \in Subtree \union {"scan"} => q.op.project \notin changed
    BY <1>3, <1>4, <1>5
  <1>7. QED
    BY <1>6 DEF q

\* What a step leaves alone for a request that it does not overtake.
StillTrue(q) ==
    /\ q.by \in Users /\ Exists(q.by) => user'[q.by] = user[q.by]
    /\ q.by \in Users => members'[q.by] = members[q.by]
    /\ q.op.kind \in Subtree \union {"scan"} => project'[q.op.project] = project[q.op.project]

LEMMA StepStillTrue ==
  ASSUME TypeOK, AuditInv, RequestsRouted', NEW r \in Requests, Step(r) \/ GrantFails(r) \/ GiveUp(r),
         NEW x \in Requests, req'[x].pc \in BusyPCs, ~req'[x].overtaken
  PROVE  StillTrue(req'[x])
  <1> DEFINE q == req'[x]
  <1>t. RequestsRouted /\ Routed(req[r]) /\ req \in [Requests -> Reqs] /\ user \in [Users -> Accounts]
          /\ members \in [Users -> SUBSET Projects]
          /\ project \in [Projects -> [exists : BOOLEAN, archived : BOOLEAN,
                                       creator : Users \union Tokens \union {NoUser}]]
    BY DEF AuditInv, RequestsRouted, TypeOK
  <1>o. ASSUME NEW new \in Reqs, NEW accounts, NEW changed,
               req' = Overtake([req EXCEPT ![r] = new], accounts, changed)
        PROVE  /\ q.by \notin accounts
               /\ q.op.kind \in Subtree \union {"scan"} => q.op.project \notin changed
    <2>1. [req EXCEPT ![r] = new] \in [Requests -> Reqs]
      BY <1>t
    <2>2. QED
      BY <1>o, <2>1, NotOvertaken
  <1>e. End("ended") \in Reqs
    BY EndType
  <1>p. q.op.kind \in Subtree \union {"scan"} => q.op.project \in Projects
    <2>1. q.op \in Ops
      BY DEF RequestsRouted, Routed
    <2>2. QED
      BY <2>1, OpFields DEF Subtree
  <1>1. CASE CreateAccount(r)
    <2> DEFINE account == [role |-> req[r].op.role, disabled |-> FALSE]
    <2>1. /\ \/ user' = user
             \/ ~Exists(req[r].op.target) /\ user' = [user EXCEPT ![req[r].op.target] = account]
          /\ UNCHANGED <<members, project>>
      BY <1>1 DEF CreateAccount
    <2> HIDE DEF account
    <2>2. q.by \in Users /\ Exists(q.by) => user'[q.by] = user[q.by]
      BY <1>t, <2>1, Zenon
    <2>3. QED
      BY <2>1, <2>2 DEF StillTrue
  <1>2. CASE WriteAccount(r)
    <2>1. Advance(r) \in Reqs
      BY <1>2, <1>t, AdvanceNew DEF WriteAccount, NewReq
    <2>2. /\ req' = Overtake([req EXCEPT ![r] = Advance(r)], {req[r].op.target}, {})
          /\ \E a : user' = [user EXCEPT ![req[r].op.target] = a]
          /\ UNCHANGED <<members, project>>
      BY <1>2 DEF WriteAccount
    <2>3. q.by # req[r].op.target
      BY <1>o, <2>1, <2>2
    <2>4. q.by \in Users => user'[q.by] = user[q.by]
      BY <1>t, <2>2, <2>3
    <2>5. QED
      BY <2>2, <2>4 DEF StillTrue
  <1>3. CASE WriteMembership(r)
    <2>1. Advance(r) \in Reqs
      BY <1>3, <1>t, AdvanceNew DEF WriteMembership, NewReq
    <2>2. /\ \/ members' = members
             \/ /\ req' = Overtake([req EXCEPT ![r] = Advance(r)], {req[r].op.target}, {})
                /\ \E m : members' = [members EXCEPT ![req[r].op.target] = m]
          /\ UNCHANGED <<user, project>>
      BY <1>3 DEF WriteMembership
    <2>3. members' = members \/ q.by # req[r].op.target
      BY <1>o, <2>1, <2>2
    <2>4. q.by \in Users => members'[q.by] = members[q.by]
      BY <1>t, <2>2, <2>3
    <2>5. QED
      BY <2>2, <2>4 DEF StillTrue
  <1>4. CASE Grant(r)
    <2>2. /\ req' = Overtake([req EXCEPT ![r] = End("ended")], {req[r].by}, {})
          /\ \E m : members' = [members EXCEPT ![req[r].by] = m]
          /\ UNCHANGED <<user, project>>
      BY <1>4 DEF Grant
    <2>3. q.by # req[r].by
      BY <1>o, <1>e, <2>2
    <2>4. q.by \in Users => members'[q.by] = members[q.by]
      BY <1>t, <2>2, <2>3
    <2>5. QED
      BY <2>2, <2>4 DEF StillTrue
  <1>5. CASE CreateProject(r) \/ SetArchived(r)
    <2> DEFINE p == req[r].op.project
               final == IF req[r].by \in Users /\ ~req[r].global
                        THEN [req[r] EXCEPT !.pc = "grant"] ELSE End("ended")
    <2>1. final \in Reqs
      <3>1. req[r] \in Reqs
        BY <1>t
      <3>2. [req[r] EXCEPT !.pc = "grant"] \in Reqs
        BY <3>1 DEF Reqs, BusyPCs
      <3>3. QED
        BY <1>e, <3>2
    <2>2. /\ \/ project' = project
             \/ /\ \/ req' = Overtake([req EXCEPT ![r] = final], {}, {p})
                   \/ req' = Overtake([req EXCEPT ![r] = End("ended")], {}, {p})
                /\ \E a : project' = [project EXCEPT ![p] = a]
          /\ UNCHANGED <<user, members>>
      <3>1. CASE CreateProject(r)
        BY <3>1 DEF CreateProject
      <3>2. CASE SetArchived(r)
        <4>1. project' = [project EXCEPT ![p].archived = req[r].op.to]
          BY <3>2 DEF SetArchived
        <4>2. project' = [project EXCEPT ![p] = [project[p] EXCEPT !.archived = req[r].op.to]]
          BY <4>1, Zenon
        <4>3. QED
          BY <3>2, <4>2 DEF SetArchived
      <3>3. QED
        BY <1>5, <3>1, <3>2
    <2> HIDE DEF final
    <2>3. project' = project \/ (q.op.kind \in Subtree \union {"scan"} => q.op.project # p)
      BY <1>o, <1>e, <2>1, <2>2
    <2>4. q.op.kind \in Subtree \union {"scan"} => project'[q.op.project] = project[q.op.project]
      <3>1. CASE project' = project
        BY <3>1
      <3>2. CASE project' # project
        <4>1. PICK a : project' = [project EXCEPT ![p] = a]
          BY <2>2, <3>2
        <4>2. \A z \in Projects : z # p => project'[z] = project[z]
          BY <4>1, <1>t, Zenon
        <4>3. QED
          BY <1>p, <2>3, <3>2, <4>2
      <3>3. QED
        BY <3>1, <3>2
    <2>5. QED
      BY <2>2, <2>4 DEF StillTrue
  <1>6. CASE ~(\/ CreateAccount(r) \/ WriteAccount(r) \/ WriteMembership(r) \/ Grant(r)
               \/ CreateProject(r) \/ SetArchived(r))
    <2>1. UNCHANGED <<user, members, project>>
      BY <1>6 DEF Step, AuthenticateToken, PrincipalForSession, ReadScope, ScopedProject, Connect, LockRow, Guard,
         GrantFails, ReadPrevious, SetPolicy, CheckExists, InsertScan, Respond, GiveUp, rows
    <2>2. QED
      BY <2>1 DEF StillTrue
  <1>7. QED
    BY <1>1, <1>2, <1>3, <1>4, <1>5, <1>6

LEMMA RoleForUserAdmin ==
  ASSUME NEW role \in Roles \union {"none"}
  PROVE  RoleForUser(role) = "admin" <=> role = "admin"
  BY DEF RoleForUser, Roles

\* The request x is where it was, or further on than its project's resolution.
Further(x) ==
    \/ req'[x].pc = req[x].pc
    \/ /\ req[x].pc \notin {"auth", "scope", "project"}
       /\ req'[x].pc \notin {"auth", "scope", "project", "insert"}
Same(x) ==
    /\ req'[x].by = req[x].by /\ req'[x].op = req[x].op
    /\ req'[x].role = req[x].role /\ req'[x].scope = req[x].scope

LEMMA Keeps ==
  ASSUME NEW x \in Requests, Routed(req[x]), req[x].pc \in BusyPCs, KnowsNow(x),
         StillTrue(req'[x]), Same(x), Further(x)
  PROVE  KnowsNow(x)'
  <1>1. CASE req[x].pc = "auth"
    BY <1>1 DEF KnowsNow, Further
  <1>2. CASE req[x].pc # "auth"
    <2>1. Principal(x) /\ req'[x].pc # "auth"
      BY <1>2 DEF KnowsNow, Further
    <2>2. Principal(x)'
      BY <2>1 DEF Principal, StillTrue, Same, Exists
    <2>3. req'[x].pc \notin {"auth", "scope"} => Admitted(x)'
      <3>1. SUFFICES ASSUME req'[x].pc \notin {"auth", "scope"} PROVE Admitted(x)'
        OBVIOUS
      <3>2. Admitted(x)
        BY <1>2, <3>1 DEF KnowsNow, Further
      <3>3. req[x].by \in Users \union Tokens
        BY DEF Routed
      <3>4. QED
        BY <3>2, <3>3 DEF Admitted, Scope, StillTrue, Same
    <2>4. req'[x].pc \notin {"auth", "scope", "project"} => Scoped(x)' /\ Live(x)'
      <3>1. SUFFICES ASSUME req'[x].pc \notin {"auth", "scope", "project"} PROVE Scoped(x)' /\ Live(x)'
        OBVIOUS
      <3>2. Scoped(x) /\ Live(x)
        BY <1>2, <3>1 DEF KnowsNow, Further
      <3>3. Scoped(x)'
        BY <3>2 DEF Scoped, StillTrue, Same
      <3>4. Live(x)'
        <4>1. SUFFICES ASSUME req'[x].pc = "insert"
                       PROVE  /\ project'[req'[x].op.project].exists
                              /\ ~project'[req'[x].op.project].archived
          BY DEF Live
        <4>2. req[x].pc = "insert" /\ req[x].op.kind = "scan"
          BY <4>1 DEF Further, Routed
        <4>3. QED
          BY <3>2, <4>2 DEF Live, StillTrue, Same
      <3>5. QED
        BY <3>3, <3>4
    <2>5. QED
      BY <2>1, <2>2, <2>3, <2>4 DEF KnowsNow
  <1>3. QED
    BY <1>1, <1>2

\* The steps that only carry a request on.
LEMMA CarriedOn ==
  ASSUME TypeOK, AuditInv, NEW r \in Requests,
         \/ Connect(r) \/ LockRow(r) \/ Guard(r) \/ WriteAccount(r) \/ WriteMembership(r)
         \/ CreateProject(r) \/ ReadPrevious(r),
         req'[r].pc \in BusyPCs
  PROVE  Same(r) /\ Further(r) /\ (req[r].overtaken => req'[r].overtaken)
  <1>t. req[r] \in Reqs /\ req \in [Requests -> Reqs] /\ RequestsRouted /\ Routed(req[r])
    BY DEF TypeOK, AuditInv, RequestsRouted
  <1>e. \A c \in {"ended", "refused"} : End(c).pc = c /\ c \notin BusyPCs
    BY EndType
  <1>n. NewReq(End("ended"))
    BY EndNew
  <1>1. CASE LockRow(r)
    <2> DEFINE u == req[r].op.target
               pc == IF Guarded(user[u], Head(req[r].todo)) THEN "guard" ELSE "write"
    <2>1. req' = [req EXCEPT ![r] = End("refused")]
            \/ req' = [req EXCEPT ![r].before = user[u], ![r].held = members[u], ![r].pc = pc]
      BY <1>1 DEF LockRow
    <2>2. req[r].pc = "lock" /\ pc \in {"guard", "write"}
      BY <1>1 DEF LockRow
    <2> HIDE DEF pc
    <2>3. req'[r] = [req[r] EXCEPT !.before = user[u], !.held = members[u], !.pc = pc]
      BY <1>t, <1>e, <2>1
    <2>4. Same(r) /\ req'[r].pc = pc /\ req'[r].overtaken = req[r].overtaken
      BY <1>t, <2>3 DEF Reqs, Same
    <2>5. QED
      BY <2>2, <2>4 DEF Further
  <1>2. CASE Guard(r)
    <2>1. req[r].pc = "guard" /\ req'[r] = [req[r] EXCEPT !.pc = "write"]
      BY <1>2, <1>t, <1>e DEF Guard
    <2>2. QED
      BY <1>t, <2>1 DEF Reqs, Same, Further
  <1>3. CASE WriteAccount(r) \/ WriteMembership(r)
    <2>1. /\ req[r].pc = "write" /\ NewReq(Advance(r)) /\ Advance(r).pc \in {"ended", "begin"}
          /\ Advance(r).pc = "begin" => Advance(r) = [req[r] EXCEPT !.pc = "begin", !.todo = Tail(@)]
      BY <1>3, <1>t, AdvanceNew DEF WriteAccount, WriteMembership
    <2>2. Replaces(r, Advance(r)) \/ Replaces(r, End("ended"))
      BY <1>3 DEF WriteAccount, WriteMembership, Replaces
    <2>3. Replaces(r, Advance(r)) /\ Advance(r).pc = "begin"
      BY <1>e, <1>n, <1>t, <2>1, <2>2, OwnReq
    <2>4. /\ req'[r].pc = "begin" /\ req'[r].by = Advance(r).by /\ req'[r].op = Advance(r).op
          /\ req'[r].role = Advance(r).role /\ req'[r].scope = Advance(r).scope
          /\ Advance(r).overtaken => req'[r].overtaken
      BY <1>t, <2>1, <2>3, OwnReq, ZenonT(60)
    <2>5. /\ Advance(r).by = req[r].by /\ Advance(r).op = req[r].op /\ Advance(r).role = req[r].role
          /\ Advance(r).scope = req[r].scope /\ Advance(r).overtaken = req[r].overtaken
      BY <1>t, <2>1, <2>3 DEF Reqs
    <2>6. QED
      BY <2>1, <2>4, <2>5 DEF Same, Further
  <1>4. CASE CreateProject(r)
    <2> DEFINE q == [req[r] EXCEPT !.pc = "grant"]
    <2>1. /\ q \in Reqs /\ q.pc = "grant" /\ q.by = req[r].by /\ q.op = req[r].op
          /\ q.role = req[r].role /\ q.scope = req[r].scope /\ q.overtaken = req[r].overtaken
      BY <1>t DEF Reqs, BusyPCs
    <2>2. Routed(q) /\ req[r].pc = "create"
      BY <1>4, <1>t, <2>1 DEF CreateProject, Routed, BusyPCs, OpenPCs, PatchPCs
    <2>3. Replaces(r, q) \/ Replaces(r, End("ended"))
      BY <1>4 DEF CreateProject, Replaces
    <2>4. Replaces(r, q) /\ NewReq(q)
      BY <1>e, <1>n, <1>t, <2>1, <2>2, <2>3, OwnReq DEF NewReq
    <2> HIDE DEF q
    <2>5. /\ req'[r].pc = q.pc /\ req'[r].by = q.by /\ req'[r].op = q.op
          /\ req'[r].role = q.role /\ req'[r].scope = q.scope
          /\ q.overtaken => req'[r].overtaken
      BY <1>t, <2>4, OwnReq
    <2>6. QED
      BY <2>1, <2>2, <2>5 DEF Same, Further
  <1>5. CASE ReadPrevious(r)
    <2>1. /\ req[r].pc = "previous"
          /\ req'[r] = [req[r] EXCEPT !.pc = "policy", !.previous = policy[req[r].op.project]]
      BY <1>5, <1>t DEF ReadPrevious
    <2>2. QED
      BY <1>t, <2>1 DEF Reqs, Same, Further
  <1>6. CASE Connect(r)
    BY <1>6, <1>t, ConnectReq DEF Same, Further
  <1>7. QED
    BY <1>1, <1>2, <1>3, <1>4, <1>5, <1>6

\* Each step that resolves something of a request reads it as it is.
LEMMA Resolved ==
  ASSUME TypeOK, AuditInv, Informed, NEW r \in Requests,
         \/ AuthenticateToken(r) \/ PrincipalForSession(r) \/ ReadScope(r) \/ ScopedProject(r)
         \/ CheckExists(r),
         req'[r].pc \in BusyPCs, ~req'[r].overtaken
  PROVE  KnowsNow(r)'
  <1>t. req[r] \in Reqs /\ req \in [Requests -> Reqs] /\ RequestsRouted /\ Routed(req[r])
    BY DEF TypeOK, AuditInv, RequestsRouted
  <1>e. \A c \in {"ended", "refused"} : End(c).pc = c /\ c \notin BusyPCs
    BY EndType
  <1>u. UNCHANGED <<user, members, project>>
    BY DEF AuthenticateToken, PrincipalForSession, ReadScope, ScopedProject, CheckExists, rows
  <1>1. CASE AuthenticateToken(r)
    <2> DEFINE t == req[r].by
               a == Admit(TokenRole[t], req[r].op)
               q == [req[r] EXCEPT !.pc = a, !.todo = Todo(req[r].op),
                                   !.role = TokenRole[t], !.scope = TokenScope[t]]
    <2>1. /\ t \in Tokens /\ req[r].op \in Ops
          /\ req' = [req EXCEPT ![r] = IF a = "refused" THEN End("refused") ELSE q]
      BY <1>1, <1>t DEF AuthenticateToken, Routed, BusyPCs
    <2>2. t \notin Users
      BY <2>1, ConstantsAssumption
    <2>3. req'[r] = q /\ a # "refused"
      BY <1>e, <1>t, <2>1
    <2>4. /\ a \in {"project", "refused", "begin", "account", "create", "exists"}
          /\ a = "project" <=> req[r].op.kind \in Subtree
          /\ a = "refused" <=> req[r].op.kind \notin Subtree /\ ~Allows(TokenRole[t], req[r].op)
      BY <2>1, AdmitRoutes
    <2> HIDE DEF a
    <2>5. q.pc = a /\ q.by = t /\ q.op = req[r].op /\ q.role = TokenRole[t] /\ q.scope = TokenScope[t]
      BY <1>t DEF Reqs
    <2> HIDE DEF q, t
    <2>6. Principal(r)' /\ Admitted(r)'
      BY <2>1, <2>2, <2>3, <2>4, <2>5 DEF Principal, Admitted
    <2>7. req'[r].pc # "project" => Scoped(r)' /\ Live(r)'
      BY <2>3, <2>4, <2>5 DEF Scoped, Live
    <2>8. QED
      BY <2>6, <2>7 DEF KnowsNow
  <1>2. CASE PrincipalForSession(r)
    <2> DEFINE u == req[r].by
               q == [req[r] EXCEPT !.pc = "scope", !.role = RoleForUser(user[u].role)]
    <2>1. /\ u \in Users
          /\ req' = [req EXCEPT ![r] =
                       IF u \notin signedIn \/ user[u].disabled THEN End("refused") ELSE q]
      BY <1>2 DEF PrincipalForSession
    <2>2. req'[r] = q /\ u \in signedIn /\ ~user[u].disabled
      BY <1>e, <1>t, <2>1
    <2>3. u \notin Tokens /\ user[u].role # "none"
      BY <2>1, <2>2, ConstantsAssumption DEF AuditInv, TablesSound, Exists
    <2>4. q.pc = "scope" /\ q.by = u /\ q.role = RoleForUser(user[u].role)
      BY <1>t DEF Reqs
    <2> HIDE DEF q, u
    <2>5. Principal(r)'
      BY <1>u, <2>1, <2>2, <2>3, <2>4 DEF Principal, Exists
    <2>6. QED
      BY <2>2, <2>4, <2>5 DEF KnowsNow
  <1>3. CASE ReadScope(r)
    <2> DEFINE a == Admit(req[r].role, req[r].op)
               scope == IF req[r].role = "admin" THEN Projects ELSE members[req[r].by]
               global == req[r].role = "admin"
               q == [req[r] EXCEPT !.pc = a, !.todo = Todo(req[r].op),
                                   !.global = global, !.scope = scope]
    <2>1. /\ req[r].pc = "scope" /\ req[r].by \in Users /\ req[r].op \in Ops
          /\ req' = [req EXCEPT ![r] = IF a = "refused" THEN End("refused") ELSE q]
      BY <1>3, <1>t DEF ReadScope, Routed, BusyPCs
    <2>2. req'[r] = q /\ a # "refused"
      BY <1>e, <1>t, <2>1
    <2>3. /\ a \in {"project", "refused", "begin", "account", "create", "exists"}
          /\ a = "project" <=> req[r].op.kind \in Subtree
          /\ a = "refused" <=> req[r].op.kind \notin Subtree /\ ~Allows(req[r].role, req[r].op)
      BY <2>1, AdmitRoutes
    <2> HIDE DEF a, global
    <2>4. /\ q.pc = a /\ q.by = req[r].by /\ q.op = req[r].op /\ q.role = req[r].role
          /\ q.scope = scope /\ q.overtaken = req[r].overtaken
      BY <1>t DEF Reqs
    <2> HIDE DEF q
    <2>5. Principal(r)
      BY <2>1, <2>2, <2>4 DEF Informed, KnowsNow, BusyPCs
    <2>6. Principal(r)'
      BY <1>u, <2>2, <2>4, <2>5 DEF Principal, Exists
    <2>7. req[r].by \notin Tokens
      BY <2>1, ConstantsAssumption
    <2>8. Admitted(r)'
      BY <1>u, <2>2, <2>3, <2>4, <2>7 DEF Admitted, Scope
    <2>9. req'[r].pc # "project" => Scoped(r)' /\ Live(r)'
      BY <2>2, <2>3, <2>4 DEF Scoped, Live
    <2>10. QED
      BY <2>6, <2>8, <2>9 DEF KnowsNow
  <1>4. CASE ScopedProject(r) \/ CheckExists(r)
    <2> DEFINE p == req[r].op.project
    <2>1. PICK h : req'[r] = [req[r] EXCEPT !.pc = h]
      BY <1>4, <1>e, <1>t DEF ScopedProject, CheckExists
    <2>2. Same(r) /\ req'[r].pc = h /\ req'[r].overtaken = req[r].overtaken
      BY <1>t, <2>1 DEF Same, Reqs
    <2>3. req[r].pc \in {"project", "exists"} /\ Principal(r) /\ Admitted(r)
      BY <1>4, <2>2 DEF ScopedProject, CheckExists, Informed, KnowsNow, BusyPCs
    <2>4. Principal(r)'
      BY <1>u, <2>2, <2>3 DEF Principal, Same, Exists
    <2>5. Admitted(r)'
      BY <1>u, <2>2, <2>3 DEF Admitted, Scope, Same
    <2>6. Scoped(r)' /\ Live(r)'
      <3>1. CASE ScopedProject(r)
        <4>1. req[r].op \in Ops /\ req[r].op.kind \in Subtree /\ req[r].pc = "project"
          BY <1>t, <3>1 DEF ScopedProject, Routed, BusyPCs
        <4>2. /\ project[p].exists /\ p \in req[r].scope /\ Allows(req[r].role, req[r].op)
              /\ req'[r] = [req[r] EXCEPT !.pc = Handler(req[r].op)]
          BY <1>e, <1>t, <3>1 DEF ScopedProject
        <4>3. req'[r].pc = Handler(req[r].op)
          BY <1>t, <4>2 DEF Reqs
        <4>4. req'[r].pc # "insert"
          BY <4>1, <4>3, HandlerRoutes
        <4>5. QED
          BY <1>u, <2>2, <4>2, <4>4 DEF Scoped, Live, Same
      <3>2. CASE CheckExists(r)
        <4>1. req[r].op.kind = "scan"
          BY <1>t, <3>2 DEF CheckExists, Routed, BusyPCs
        <4>2. project[p].exists /\ ~project[p].archived
          BY <1>e, <1>t, <3>2 DEF CheckExists
        <4>3. QED
          BY <1>u, <2>2, <4>1, <4>2 DEF Scoped, Live, Same, Subtree
      <3>3. QED
        BY <1>4, <3>1, <3>2
    <2>7. QED
      BY <2>4, <2>5, <2>6 DEF KnowsNow
  <1>5. QED
    BY <1>1, <1>2, <1>3, <1>4

\* The other steps end their request.
LEMMA OwnEnds ==
  ASSUME TypeOK, AuditInv, NEW r \in Requests,
         \/ CreateAccount(r) \/ Grant(r) \/ GrantFails(r) \/ SetArchived(r) \/ SetPolicy(r)
         \/ InsertScan(r) \/ Respond(r) \/ GiveUp(r)
  PROVE  req'[r].pc = "ended"
  <1>1. NewReq(End("ended")) /\ End("ended").pc = "ended" /\ RequestsRouted
    BY EndNew, EndType DEF AuditInv
  <1>2. Replaces(r, End("ended"))
    BY DEF CreateAccount, Grant, GrantFails, SetArchived, SetPolicy, InsertScan, Respond, GiveUp,
       Replaces
  <1>3. QED
    BY <1>1, <1>2, OwnReq

LEMMA InformedNext ==
  TypeOK /\ AuditInv /\ RequestsRouted' /\ Informed /\ [Next]_vars => Informed'
  <1> SUFFICES ASSUME TypeOK, AuditInv, RequestsRouted', Informed, [Next]_vars,
                      NEW x \in Requests, req'[x].pc \in BusyPCs, ~req'[x].overtaken
               PROVE  KnowsNow(x)'
    BY DEF Informed
  <1>t. req[x] \in Reqs /\ req \in [Requests -> Reqs] /\ RequestsRouted /\ Routed(req[x])
    BY DEF TypeOK, AuditInv, RequestsRouted
  <1>1. ASSUME UNCHANGED <<user, members, project>>, req'[x] = req[x] PROVE KnowsNow(x)'
    <2>1. KnowsNow(x) /\ req[x].pc \in BusyPCs
      BY <1>1 DEF Informed
    <2>2. StillTrue(req'[x]) /\ Same(x) /\ Further(x)
      BY <1>1 DEF StillTrue, Same, Further
    <2>3. QED
      BY <1>t, <2>1, <2>2, Keeps
  <1>2. CASE UNCHANGED vars
    BY <1>1, <1>2 DEF vars, rows
  <1>3. ASSUME NEW u \in Users, Login(u) \/ Expire(u) PROVE KnowsNow(x)'
    BY <1>1, <1>3 DEF Login, Expire, rows
  <1>4. CASE Restart
    <2>1. req'[x] = (IF req[x].pc \in BusyPCs THEN End("ended") ELSE req[x])
      BY <1>4 DEF Restart
    <2>2. QED
      BY <2>1, EndType
  <1>5. ASSUME NEW r \in Requests, NEW by \in Users \union Tokens, NEW op \in Ops, Arrive(r, by, op)
        PROVE  KnowsNow(x)'
    <2> DEFINE q == [IdleReq EXCEPT !.pc = "auth", !.by = by, !.op = op]
    <2>1. q.pc = "auth"
      BY IdleReqType DEF Reqs
    <2>2. req' = [req EXCEPT ![r] = q] /\ UNCHANGED <<user, members, project>>
      BY <1>5 DEF Arrive, rows
    <2> HIDE DEF q
    <2>3. CASE x = r
      <3>1. req'[x].pc = "auth"
        BY <1>t, <2>1, <2>2, <2>3
      <3>2. QED
        BY <3>1 DEF KnowsNow
    <2>4. CASE x # r
      BY <1>1, <1>t, <2>2, <2>4
    <2>5. QED
      BY <2>3, <2>4
  <1>6. ASSUME NEW r \in Requests, Step(r) \/ GrantFails(r) \/ GiveUp(r) PROVE KnowsNow(x)'
    <2>1. StillTrue(req'[x])
      BY <1>6, StepStillTrue
    <2>2. CASE x # r
      <3>1. Same(x) /\ Further(x) /\ req[x].pc \in BusyPCs /\ ~req[x].overtaken
        BY <1>6, <1>t, <2>2, OthersKeep DEF Same, Further
      <3>2. KnowsNow(x)
        BY <3>1 DEF Informed
      <3>3. QED
        BY <1>t, <2>1, <3>1, <3>2, Keeps
    <2>3. CASE x = r /\ (\/ Connect(r) \/ LockRow(r) \/ Guard(r) \/ WriteAccount(r)
                         \/ WriteMembership(r) \/ CreateProject(r) \/ ReadPrevious(r))
      <3>1. Same(x) /\ Further(x) /\ ~req[x].overtaken
        BY <2>3, CarriedOn
      <3>2. req[x].pc \in BusyPCs
        BY <2>3 DEF Connect, LockRow, Guard, WriteAccount, WriteMembership, CreateProject, ReadPrevious,
           BusyPCs, OpenPCs
      <3>3. KnowsNow(x)
        BY <3>1, <3>2 DEF Informed
      <3>4. QED
        BY <1>t, <2>1, <3>1, <3>2, <3>3, Keeps
    <2>4. CASE x = r /\ (\/ AuthenticateToken(r) \/ PrincipalForSession(r) \/ ReadScope(r)
                         \/ ScopedProject(r) \/ CheckExists(r))
      BY <2>4, Resolved
    <2>5. CASE x = r /\ (\/ CreateAccount(r) \/ Grant(r) \/ GrantFails(r) \/ SetArchived(r) \/ SetPolicy(r)
                         \/ InsertScan(r) \/ Respond(r) \/ GiveUp(r))
      BY <2>5, OwnEnds, EndType
    <2>6. QED
      BY <1>6, <2>2, <2>3, <2>4, <2>5 DEF Step
  <1>7. QED
    BY <1>2, <1>3, <1>4, <1>5, <1>6 DEF Next

-----------------------------------------------------------------------------
(* Nobody does what they may not, nobody is refused what they may. *)

\* What the principal may do now, in terms of what the request knows.
NowRole(by) == IF by \in Tokens THEN TokenRole[by] ELSE RoleForUser(user[by].role)
NowScope(by) == CASE by \in Tokens -> TokenScope[by]
                  [] by \in Users /\ user[by].role = "admin" -> Projects
                  [] OTHER -> members[by]

LEMMA EntitledParts ==
  ASSUME NEW by, NEW op
  PROVE  /\ Entitled(by, op) <=>
              /\ \/ Allows(NowRole(by), op)
                 \/ op.kind = "policy" /\ by \in Users /\ user[by].role = "engineer"
              /\ by \in Users => ~user[by].disabled
              /\ op.kind \in Subtree => project[op.project].exists
              /\ op.kind = "scan" => project[op.project].exists /\ ~project[op.project].archived
         /\ Within(by, op) <=>
              (op.kind \in Subtree \union {"scan"} => op.project \in NowScope(by))
  <1>1. Within(by, op) <=>
          (op.kind \in Subtree \union {"scan"} => op.project \in NowScope(by))
    BY DEF Within, NowScope
  <1>2. QED
    BY <1>1 DEF Entitled, NowRole

\* The refusal the route makes although the documents grant it.
PolicyEdit(by, op) == op.kind = "policy" /\ by \in Users /\ user[by].role = "engineer"

LEMMA KnownNow ==
  ASSUME TypeOK, NEW r \in Requests, Routed(req[r]), req[r].pc \in BusyPCs, Principal(r)
  PROVE  /\ NowRole(req[r].by) = req[r].role
         /\ Admitted(r) => NowScope(req[r].by) = req[r].scope
  <1> DEFINE by == req[r].by
  <1>1. by \in Users \union Tokens /\ (by \in Users <=> by \notin Tokens)
    BY ConstantsAssumption DEF Routed
  <1>2. CASE by \in Tokens
    <2>1. NowRole(by) = req[r].role
      BY <1>2 DEF NowRole, Principal
    <2>2. NowScope(by) = TokenScope[by]
      BY <1>1, <1>2 DEF NowScope
    <2>3. QED
      BY <1>2, <2>1, <2>2 DEF Admitted
  <1>3. CASE by \in Users
    <2>1. NowRole(by) = req[r].role /\ req[r].role = RoleForUser(user[by].role)
      BY <1>1, <1>3 DEF NowRole, Principal
    <2>2. user[by].role \in Roles \union {"none"}
      BY <1>3 DEF TypeOK, Accounts
    <2>3. req[r].role = "admin" <=> user[by].role = "admin"
      BY <2>1, <2>2, RoleForUserAdmin
    <2>4. NowScope(by) = IF req[r].role = "admin" THEN Projects ELSE members[by]
      BY <1>1, <1>3, <2>3 DEF NowScope
    <2>5. QED
      BY <1>1, <1>3, <2>1, <2>4 DEF Admitted, Scope
  <1>4. QED
    BY <1>1, <1>2, <1>3

LEMMA EffectAllowed ==
  ASSUME TypeOK, RequestsRouted, Informed, NEW r \in Requests, Effect(r), ~req[r].overtaken
  PROVE  /\ Entitled(req[r].by, req[r].op)
         /\ Within(req[r].by, req[r].op) \/ req[r].op.kind = "scan"
  <1>1. /\ req[r].pc \in {"account", "write", "create", "archive", "policy", "insert", "read"}
        /\ req[r].pc \in BusyPCs /\ Routed(req[r])
    BY DEF Effect, BusyPCs, OpenPCs, RequestsRouted
  <1>2. Principal(r) /\ Admitted(r) /\ Scoped(r) /\ Live(r)
    BY <1>1 DEF Informed, KnowsNow
  <1>3. NowRole(req[r].by) = req[r].role /\ NowScope(req[r].by) = req[r].scope
    BY <1>1, <1>2, KnownNow
  <1>4. Allows(NowRole(req[r].by), req[r].op)
    BY <1>2, <1>3 DEF Admitted, Scoped
  <1>5. req[r].op.kind = "scan" => req[r].pc = "insert"
    BY <1>1 DEF Routed, OpenPCs, PatchPCs
  <1>6. Entitled(req[r].by, req[r].op)
    BY <1>2, <1>4, <1>5, EntitledParts DEF Principal, Scoped, Live
  <1>7. Within(req[r].by, req[r].op) \/ req[r].op.kind = "scan"
    BY <1>2, <1>3, EntitledParts DEF Scoped
  <1>8. QED
    BY <1>6, <1>7

\* The step that refuses a request, and why.
LEMMA RefusedBy ==
  ASSUME TypeOK, AuditInv, RequestsRouted', [Next]_vars, NEW r \in Requests,
         req[r].pc \in BusyPCs, req'[r].pc = "refused"
  PROVE  \/ AuthenticateToken(r) \/ PrincipalForSession(r) \/ ReadScope(r) \/ ScopedProject(r)
         \/ LockRow(r) \/ CheckExists(r)
  <1>t. req \in [Requests -> Reqs] /\ RequestsRouted
    BY DEF TypeOK, AuditInv
  <1>e. End("ended").pc = "ended" /\ "refused" \notin BusyPCs
    BY EndType
  <1>0. req'[r] # req[r]
    BY <1>e
  <1>1. CASE UNCHANGED vars
    BY <1>0, <1>1 DEF vars
  <1>2. ASSUME NEW u \in Users, Login(u) \/ Expire(u) PROVE FALSE
    BY <1>0, <1>2 DEF Login, Expire
  <1>3. CASE Restart
    BY <1>3, <1>e DEF Restart
  <1>4. ASSUME NEW x \in Requests, NEW by \in Users \union Tokens, NEW op \in Ops, Arrive(x, by, op)
        PROVE  FALSE
    <2>1. req[x].pc = "idle" /\ \E q : req' = [req EXCEPT ![x] = q]
      BY <1>4 DEF Arrive
    <2>2. x # r
      BY <2>1 DEF BusyPCs, OpenPCs
    <2>3. QED
      BY <1>0, <1>t, <2>1, <2>2
  <1>5. ASSUME NEW x \in Requests, Step(x) \/ GrantFails(x) \/ GiveUp(x)
        PROVE  x = r /\ (\/ AuthenticateToken(r) \/ PrincipalForSession(r) \/ ReadScope(r)
                         \/ ScopedProject(r) \/ LockRow(r) \/ CheckExists(r))
    <2>1. x = r
      BY <1>5, <1>e, <1>t, OthersKeep
    <2>2. CASE \/ Connect(r) \/ Guard(r) \/ WriteAccount(r) \/ WriteMembership(r)
               \/ CreateProject(r) \/ ReadPrevious(r)
      <3>1. CASE Guard(r)
        BY <1>e, <1>t, <3>1 DEF Guard, Reqs
      <3>2. CASE WriteAccount(r) \/ WriteMembership(r)
        <4>1. NewReq(Advance(r)) /\ Advance(r).pc \in {"ended", "begin"} /\ NewReq(End("ended"))
          BY <1>t, <3>2, AdvanceNew, EndNew DEF WriteAccount, WriteMembership
        <4>2. Replaces(r, Advance(r)) \/ Replaces(r, End("ended"))
          BY <3>2 DEF WriteAccount, WriteMembership, Replaces
        <4>3. QED
          BY <1>e, <1>t, <4>1, <4>2, OwnReq
      <3>3. CASE CreateProject(r)
        <4> DEFINE q == [req[r] EXCEPT !.pc = "grant"]
        <4>1. q \in Reqs /\ q.pc = "grant" /\ Routed(q)
          <5>1. req[r] \in Reqs /\ Routed(req[r])
            BY <1>t DEF RequestsRouted
          <5>2. q \in Reqs /\ q.pc = "grant" /\ q.by = req[r].by /\ q.op = req[r].op
            BY <5>1 DEF Reqs, BusyPCs
          <5>3. QED
            BY <3>3, <5>1, <5>2 DEF CreateProject, Routed, BusyPCs, OpenPCs, PatchPCs
        <4>2. Replaces(r, q) \/ Replaces(r, End("ended"))
          BY <3>3 DEF CreateProject, Replaces
        <4>3. QED
          BY <1>e, <1>t, <4>1, <4>2, OwnReq, EndNew DEF NewReq
      <3>4. CASE ReadPrevious(r)
        BY <1>t, <3>4 DEF ReadPrevious, Reqs
      <3>5. CASE Connect(r)
        BY <1>t, <3>5, ConnectReq
      <3>6. QED
        BY <2>2, <3>1, <3>2, <3>3, <3>4, <3>5
    <2>3. CASE \/ CreateAccount(r) \/ Grant(r) \/ GrantFails(r) \/ SetArchived(r) \/ SetPolicy(r)
               \/ InsertScan(r) \/ Respond(r) \/ GiveUp(r)
      BY <2>3, OwnEnds
    <2>4. QED
      BY <1>5, <2>1, <2>2, <2>3 DEF Step
  <1>6. QED
    BY <1>1, <1>2, <1>3, <1>4, <1>5 DEF Next

LEMMA RefusalDeserved ==
  ASSUME TypeOK, AuditInv, Informed, RequestsRouted', [Next]_vars, NEW r \in Requests,
         req[r].pc \in BusyPCs, req'[r].pc = "refused", ~req[r].overtaken
  PROVE  \/ ~(Entitled(req[r].by, req[r].op) /\ Within(req[r].by, req[r].op))
         \/ req[r].by \in Users \ signedIn
         \/ req[r].op.kind = "patch" /\ ~Exists(req[r].op.target)
         \/ PolicyEdit(req[r].by, req[r].op)
  <1>t. req \in [Requests -> Reqs] /\ req[r] \in Reqs /\ Routed(req[r]) /\ req[r].op \in Ops
    BY DEF TypeOK, AuditInv, RequestsRouted, Routed
  <1>k. KnowsNow(r)
    BY DEF Informed
  <1>1. CASE AuthenticateToken(r)
    <2> DEFINE a == Admit(TokenRole[req[r].by], req[r].op)
    <2>1. /\ req[r].by \in Tokens
          /\ req'[r].pc = IF a = "refused" THEN End("refused").pc ELSE a
      BY <1>1, <1>t DEF AuthenticateToken, Reqs
    <2>2. a = "refused"
      BY <2>1
    <2>3. ~Allows(TokenRole[req[r].by], req[r].op)
      BY <1>t, <2>2, AdmitRoutes
    <2>4. QED
      BY <2>1, <2>3, EntitledParts DEF NowRole, PolicyEdit
  <1>2. CASE PrincipalForSession(r)
    <2>1. req[r].by \in Users /\ (req[r].by \notin signedIn \/ user[req[r].by].disabled)
      BY <1>2, <1>t DEF PrincipalForSession, Reqs
    <2>2. QED
      BY <2>1, EntitledParts
  <1>3. CASE ReadScope(r)
    <2> DEFINE a == Admit(req[r].role, req[r].op)
    <2>1. /\ req[r].pc = "scope"
          /\ req'[r].pc = IF a = "refused" THEN End("refused").pc ELSE a
      BY <1>3, <1>t DEF ReadScope, Reqs
    <2>2. a = "refused"
      BY <2>1
    <2>3. ~Allows(req[r].role, req[r].op)
      BY <1>t, <2>2, AdmitRoutes
    <2>4. NowRole(req[r].by) = req[r].role
      BY <1>k, <1>t, <2>1, KnownNow DEF KnowsNow
    <2>5. QED
      BY <2>3, <2>4, EntitledParts DEF PolicyEdit
  <1>4. CASE ScopedProject(r)
    <2> DEFINE p == req[r].op.project
    <2>1. req[r].pc = "project" /\ req[r].op.kind \in Subtree
      BY <1>4, <1>t DEF ScopedProject, Routed, BusyPCs
    <2>2. Handler(req[r].op) # "refused"
      BY <1>t, <2>1, HandlerRoutes
    <2>3. ~(project[p].exists /\ p \in req[r].scope /\ Allows(req[r].role, req[r].op))
      BY <1>4, <1>t, <2>2 DEF ScopedProject, Reqs
    <2>4. NowRole(req[r].by) = req[r].role /\ NowScope(req[r].by) = req[r].scope
      BY <1>k, <1>t, <2>1, KnownNow DEF KnowsNow
    <2>5. QED
      BY <2>1, <2>3, <2>4, EntitledParts DEF PolicyEdit
  <1>5. CASE LockRow(r)
    <2> DEFINE u == req[r].op.target
               pc == IF Guarded(user[u], Head(req[r].todo)) THEN "guard" ELSE "write"
    <2>1. req[r].op.kind = "patch"
      BY <1>5, <1>t DEF LockRow, Routed, BusyPCs, OpenPCs, PatchPCs
    <2>2. ASSUME Exists(u) PROVE FALSE
      <3>1. req' = [req EXCEPT ![r].before = user[u], ![r].held = members[u], ![r].pc = pc]
        BY <1>5, <2>2 DEF LockRow
      <3>2. pc # "refused"
        OBVIOUS
      <3> HIDE DEF pc
      <3>3. req'[r] = [req[r] EXCEPT !.before = user[u], !.held = members[u], !.pc = pc]
        BY <1>t, <3>1
      <3>4. req'[r].pc = pc
        BY <1>t, <3>3 DEF Reqs
      <3>5. QED
        BY <3>2, <3>4
    <2>3. QED
      BY <2>1, <2>2
  <1>6. CASE CheckExists(r)
    <2> DEFINE p == req[r].op.project
    <2>1. req[r].op.kind = "scan"
      BY <1>6, <1>t DEF CheckExists, Routed, BusyPCs
    <2>2. ~(project[p].exists /\ ~project[p].archived)
      BY <1>6, <1>t DEF CheckExists, Reqs
    <2>3. QED
      BY <2>1, <2>2, EntitledParts
  <1>7. QED
    BY <1>1, <1>2, <1>3, <1>4, <1>5, <1>6, RefusedBy

AccessInv == TypeOK /\ RequestsRouted /\ AuditInv /\ Informed

LEMMA AccessInvariant == Spec => []AccessInv
  <1>1. Init => AccessInv
    <2>1. Init => \A r \in Requests : req[r].pc = "idle"
      BY DEF Init, IdleReq
    <2>2. Init => Informed
      BY <2>1 DEF Informed, BusyPCs, OpenPCs
    <2>3. QED
      BY <2>2, TypeInit, AuditInit DEF AccessInv
  <1>2. AccessInv /\ [Next]_vars => AccessInv'
    BY TypeNext, AuditNext, InformedNext DEF AccessInv
  <1>3. QED
    BY <1>1, <1>2, PTL DEF Spec

\* A request does only what its principal may do now, unless the change that
\* took it away came after the request had begun: a disabled account, a demotion,
\* a lost membership or an archived project takes effect on the next request.
\* Only a scan is submitted without regard to the principal's projects.
THEOREM EnforcedNowHolds == Spec => EnforcedNow
  <1>1. AccessInv /\ [Next]_vars =>
          [\A r \in Requests : Effect(r) /\ ~req[r].overtaken =>
             /\ Entitled(req[r].by, req[r].op)
             /\ Within(req[r].by, req[r].op) \/ req[r].op.kind = "scan"]_vars
    BY EffectAllowed DEF AccessInv
  <1>2. QED
    BY <1>1, AccessInvariant, PTL DEF Spec, EnforcedNow

\* Nobody whom nothing overtook is refused what they may do: the refusals of the
\* authenticator, of the route's role, of scopedProject and of the handlers come
\* from facts that still hold when the answer is given.  Only an engineer's edit
\* of a policy is refused although the documents allow it.
THEOREM RefusedRightlyHolds == Spec => RefusedRightly
  <1>1. AccessInv /\ AccessInv' /\ [Next]_vars =>
          [\A r \in Requests :
             req[r].pc \in BusyPCs /\ req'[r].pc = "refused" /\ ~req[r].overtaken
               => \/ ~(Entitled(req[r].by, req[r].op) /\ Within(req[r].by, req[r].op))
                  \/ req[r].by \in Users \ signedIn
                  \/ req[r].op.kind = "patch" /\ ~Exists(req[r].op.target)
                  \/ /\ req[r].op.kind = "policy"
                     /\ req[r].by \in Users /\ user[req[r].by].role = "engineer"]_vars
    BY RefusalDeserved DEF AccessInv, PolicyEdit
  <1>2. QED
    BY <1>1, AccessInvariant, PTL DEF Spec, RefusedRightly

-----------------------------------------------------------------------------
(* Where requests can wait for ever. *)

\* A row lock is held by the transaction that changes the row, up to its commit.
LockHeld ==
    \A u \in Users : lock[u] # NoRequest =>
        /\ req[lock[u]].pc \in {"guard", "write"}
        /\ req[lock[u]].op.target = u

LEMMA LockHeldStep ==
  ASSUME TypeOK, AuditInv, LockHeld, NEW r \in Requests, Step(r) \/ GrantFails(r) \/ GiveUp(r)
  PROVE  LockHeld'
  <1> SUFFICES ASSUME NEW u \in Users, lock'[u] # NoRequest
               PROVE  req'[lock'[u]].pc \in {"guard", "write"} /\ req'[lock'[u]].op.target = u
    BY DEF LockHeld
  <1>t. /\ req[r] \in Reqs /\ req \in [Requests -> Reqs] /\ RequestsRouted
        /\ lock \in [Users -> Requests \union {NoRequest}]
    BY DEF TypeOK, AuditInv
  <1>1. CASE LockRow(r) /\ lock'[u] # lock[u]
    <2> DEFINE pc == IF Guarded(user[u], Head(req[r].todo)) THEN "guard" ELSE "write"
    <2>1. Exists(req[r].op.target) /\ lock' = [lock EXCEPT ![req[r].op.target] = r]
      BY <1>1 DEF LockRow
    <2>2. u = req[r].op.target /\ lock'[u] = r
      BY <1>1, <1>t, <2>1
    <2>3. req' = [req EXCEPT ![r].before = user[u], ![r].held = members[u], ![r].pc = pc]
      BY <1>1, <2>1, <2>2 DEF LockRow
    <2>4. pc \in {"guard", "write"}
      OBVIOUS
    <2> HIDE DEF pc
    <2>5. req'[r] = [req[r] EXCEPT !.before = user[u], !.held = members[u], !.pc = pc]
      BY <1>t, <2>3
    <2>6. req'[r].pc = pc /\ req'[r].op = req[r].op
      BY <1>t, <2>5 DEF Reqs
    <2>7. QED
      BY <2>2, <2>4, <2>6
  <1>2. CASE lock'[u] = lock[u]
    <2> DEFINE x == lock[u]
    <2>1. x \in Requests /\ req[x].pc \in {"guard", "write"} /\ req[x].op.target = u
      BY <1>2, <1>t DEF LockHeld
    <2>2. CASE x # r
      BY <1>2, <1>t, <2>1, <2>2, OthersKeep
    <2>3. CASE x = r
      <3>1. ~Release(r)
        BY <1>2, <1>t, <2>1, <2>3, ConstantsAssumption DEF Release
      <3>2. Guard(r)
        BY <1>t, <2>1, <2>3, <3>1 DEF Step, AuthenticateToken, PrincipalForSession, ReadScope,
           ScopedProject, Connect, LockRow, CreateAccount, WriteAccount, WriteMembership,
           CreateProject, Grant, GrantFails, SetArchived, ReadPrevious, SetPolicy, CheckExists,
           InsertScan, Respond, GiveUp
      <3>3. req'[r] = [req[r] EXCEPT !.pc = "write"]
        BY <1>t, <3>1, <3>2 DEF Guard
      <3>4. req'[r].pc = "write" /\ req'[r].op = req[r].op
        BY <1>t, <3>3 DEF Reqs
      <3>5. QED
        BY <1>2, <2>1, <2>3, <3>4
    <2>4. QED
      BY <2>2, <2>3
  <1>3. CASE ~LockRow(r)
    <2>1. lock' = lock \/ Release(r)
      BY <1>3 DEF Step, AuthenticateToken, PrincipalForSession, ReadScope, ScopedProject, Connect, Guard,
         CreateAccount, WriteAccount, WriteMembership, Grant, GrantFails, SetPolicy, ReadPrevious,
         CreateProject, SetArchived, CheckExists, InsertScan, Respond, GiveUp, rows
    <2>2. lock'[u] = lock[u]
      BY <1>t, <2>1 DEF Release
    <2>3. QED
      BY <1>2, <2>2
  <1>4. QED
    BY <1>1, <1>2, <1>3

LEMMA LockHeldNext == TypeOK /\ AuditInv /\ LockHeld /\ [Next]_vars => LockHeld'
  <1> SUFFICES ASSUME TypeOK, AuditInv, LockHeld, [Next]_vars PROVE LockHeld'
    OBVIOUS
  <1>t. lock \in [Users -> Requests \union {NoRequest}] /\ req \in [Requests -> Reqs]
    BY DEF TypeOK
  <1>1. CASE UNCHANGED <<lock, req>>
    BY <1>1 DEF LockHeld
  <1>2. ASSUME NEW u \in Users, Login(u) \/ Expire(u) PROVE LockHeld'
    BY <1>1, <1>2 DEF Login, Expire
  <1>3. CASE Restart
    BY <1>3 DEF Restart, LockHeld
  <1>4. ASSUME NEW r \in Requests, NEW by \in Users \union Tokens, NEW op \in Ops, Arrive(r, by, op)
        PROVE  LockHeld'
    <2>1. /\ req[r].pc = "idle" /\ lock' = lock
          /\ \A x \in Requests : x # r => req'[x] = req[x]
      BY <1>4, <1>t DEF Arrive
    <2>2. QED
      BY <1>t, <2>1 DEF LockHeld
  <1>5. ASSUME NEW r \in Requests, Step(r) \/ GrantFails(r) \/ GiveUp(r) PROVE LockHeld'
    BY <1>5, LockHeldStep
  <1>6. QED
    BY <1>1, <1>2, <1>3, <1>4, <1>5 DEF Next, vars

LEMMA StallHasGuard ==
  ASSUME TypeOK, AuditInv, LockHeld, Stalled
  PROVE  \E r \in Requests : req[r].pc = "guard"
  <1>1. PICK r \in Requests : req[r].pc \in OpenPCs
    <2> DEFINE open == {r \in Requests : req[r].pc \in OpenPCs}
    <2>1. ~(Cardinality(open) < PoolSize)
      BY DEF Stalled, ConnectionFree
    <2>2. PoolSize \in Nat /\ PoolSize # 0
      BY ConstantsAssumption
    <2> HIDE DEF open
    <2>3. open # {}
      BY <2>1, <2>2, FS_EmptySet
    <2>4. QED
      BY <2>3 DEF open
  <1>2. ASSUME NEW u \in Users, lock[u] # NoRequest PROVE \E x \in Requests : req[x].pc = "guard"
    <2>1. lock[u] \in Requests /\ req[lock[u]].pc \in {"guard", "write"}
      BY <1>2 DEF TypeOK, LockHeld
    <2>2. req[lock[u]].pc # "write"
      BY <2>1 DEF Stalled
    <2>3. QED
      BY <2>1, <2>2
  <1>3. Routed(req[r]) /\ GrantsOwn
    BY DEF AuditInv, RequestsRouted
  <1>4. CASE req[r].pc = "lock"
    <2>1. req[r].op.target \in Users
      BY <1>4, WriteFields DEF AuditInv, PatchPCs
    <2>2. QED
      BY <1>2, <1>4, <2>1 DEF Stalled
  <1>5. CASE req[r].pc = "granting"
    BY <1>2, <1>3, <1>5 DEF GrantsOwn, Stalled
  <1>6. QED
    BY <1>1, <1>4, <1>5 DEF OpenPCs, Stalled

\* However small the pool, it stalls only while a last-admin guard waits for its
\* second connection: a row is held by a transaction of its own, and whoever waits
\* for the row or for a connection waits, in the end, for one that can commit.
THEOREM StallNeedsGuard == Spec => [](Stalled => \E r \in Requests : req[r].pc = "guard")
  <1>1. Init => LockHeld
    BY DEF Init, LockHeld
  <1>2. AccessInv /\ LockHeld /\ [Next]_vars => LockHeld'
    BY LockHeldNext DEF AccessInv
  <1>3. AccessInv /\ LockHeld => (Stalled => \E r \in Requests : req[r].pc = "guard")
    BY StallHasGuard DEF AccessInv
  <1>4. QED
    BY <1>1, <1>2, <1>3, AccessInvariant, PTL DEF Spec

=============================================================================
