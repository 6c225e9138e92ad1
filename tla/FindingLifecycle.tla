-------------------------- MODULE FindingLifecycle --------------------------
(***************************************************************************)
(* The findings of one project: RecordScan, which a worker runs once per   *)
(* scan, and the status changes people make.                               *)
(*                                                                         *)
(* RecordScan is one PostgreSQL transaction at READ COMMITTED.  Several    *)
(* scans of a project may record at once, so the transaction is modelled   *)
(* statement by statement: a statement reads the rows committed when it    *)
(* starts, waits for the row lock, and writes the row's latest version.    *)
(* Locks are held, and writes are invisible to others, until the commit.   *)
(***************************************************************************)
EXTENDS Naturals, Sequences, FiniteSets

CONSTANTS
    Findings,       \* fingerprints
    Scanners,
    Scans,          \* scans whose results are recorded
    Path,           \* scan -> the URL path it looked at, "none" if no website
    MayNotParse,    \* scanners whose output Normalize may fail on
    NoScan, NoFinding,
    MaxOpen,        \* bound: RecordScan transactions open at once
    MaxHuman,       \* bound: status changes people make
    Chosen          \* bound: the statuses people choose among

VARIABLES
    fnd,       \* findings: status and first reporter, as committed
    occ,       \* finding_occurrences: which scanner saw it in which scan
    hist,      \* finding_status_history, in commit order
    lock,      \* the open transaction holding the finding's row lock
    tx,        \* the RecordScan transaction of each scan
    humans     \* human status changes so far

vars == <<fnd, occ, hist, lock, tx, humans>>

-----------------------------------------------------------------------------

Open == {"open", "reopened"}
Judged == {"acknowledged", "in_progress", "false_positive", "ignored"}
Statuses == {"none", "resolved"} \union Open \union Judged

\* humanSettable: "resolved" and "reopened" are observations, not judgements.
HumanSettable == Judged \union {"open"}

ASSUME ConstantsAssumption ==
    /\ NoScan \notin Scans
    /\ IsFiniteSet(Scans)
    /\ NoFinding \notin Findings
    /\ MayNotParse \subseteq Scanners
    /\ MaxOpen \in Nat
    /\ MaxHuman \in Nat
    /\ Chosen \subseteq HumanSettable

\* What a scan's adapters came back with: how each scanner ended, what it saw,
\* and whether its output could be normalized.  A degraded scanner resolves
\* nothing, so if nothing of it can be read either it is as good as absent.
Runs == {r \in [how : {"absent", "degraded", "complete"}, saw : SUBSET Findings,
                parsed : BOOLEAN] :
           /\ r.how = "absent" => r.saw = {}
           /\ ~r.parsed => r.how = "complete"}

Rows == [status : Statuses, scanner : Scanners \union {"none"}]
Reasons == {"first_seen", "reopened", "not_reported", "human"}
Changes == [from : Statuses, to : Statuses, reason : Reasons]
NoChange == [from |-> "none", to |-> "none", reason |-> "human"]

\* begun orders the scans by creation; before is history: the recordings that
\* had ended when this one began.
IdleTx == [pc |-> "idle", begun |-> 0, before |-> {}, runs |-> [n \in Scanners |->
              [how |-> "absent", saw |-> {}, parsed |-> TRUE]],
           todo |-> {}, cur |-> NoFinding, snap |-> "none",
           rows |-> [f \in Findings |-> [status |-> "none", scanner |-> "none"]],
           log |-> [f \in Findings |-> NoChange]]

OpenPCs == {"upsert", "looked", "resolving"}
EndedPCs == {"done", "aborted"}

Txs == [pc : OpenPCs \union EndedPCs \union {"idle"},
        begun : Nat, before : SUBSET Scans, runs : [Scanners -> Runs],
        todo : SUBSET Findings, cur : Findings \union {NoFinding},
        snap : Statuses, rows : [Findings -> Rows], log : [Findings -> Changes]]

TypeOK ==
    /\ fnd \in [Findings -> Rows]
    /\ occ \in [Findings -> SUBSET (Scans \X Scanners)]
    /\ hist \in [Findings -> Seq(Changes)]
    /\ lock \in [Findings -> Scans \union {NoScan}]
    /\ tx \in [Scans -> Txs]
    /\ humans \in 0..MaxHuman

Init ==
    /\ fnd = [f \in Findings |-> [status |-> "none", scanner |-> "none"]]
    /\ occ = [f \in Findings |-> {}]
    /\ hist = [f \in Findings |-> <<>>]
    /\ lock = [f \in Findings |-> NoScan]
    /\ tx = [s \in Scans |-> IdleTx]
    /\ humans = 0

-----------------------------------------------------------------------------

\* ingest and Combine: output that does not normalize reports nothing.
Reported(run) == IF run.parsed THEN run.saw ELSE {}
Reporters(s, f) == {n \in Scanners : f \in Reported(tx[s].runs[n])}
ReportedBy(s) == {f \in Findings : Reporters(s, f) # {}}

\* persistFindings: the scanners that succeeded with no degradation.
Complete(s) == {n \in Scanners : tx[s].runs[n].how = "complete"}

\* persistFindings reached RecordScan: at least one output was normalized.
Begin(s) ==
    /\ tx[s].pc = "idle"
    /\ Cardinality({t \in Scans : tx[t].pc \in OpenPCs}) < MaxOpen
    /\ \E runs \in [Scanners -> Runs] :
         /\ \A n \in Scanners : runs[n].parsed \/ n \in MayNotParse
         /\ \E n \in Scanners : runs[n].how # "absent" /\ runs[n].parsed
         /\ tx' = [tx EXCEPT
              ![s].pc = "upsert", ![s].runs = runs,
              ![s].before = {t \in Scans : tx[t].pc \in EndedPCs},
              ![s].begun = Cardinality({t \in Scans : tx[t].pc # "idle"}) + 1,
              ![s].todo = {f \in Findings : \E n \in Scanners : f \in Reported(runs[n])}]
    /\ UNCHANGED <<fnd, occ, hist, lock, humans>>

\* upsertFinding's statement starts: its "previous" reads the snapshot.
ReadPrevious(s, f) ==
    /\ tx[s].pc = "upsert"
    /\ tx[s].cur = NoFinding
    /\ f \in tx[s].todo
    /\ tx' = [tx EXCEPT ![s].cur = f, ![s].snap = fnd[f].status]
    /\ UNCHANGED <<fnd, occ, hist, lock, humans>>

\* Mutant: a status the findings table does not know.
UpsertRowUnknownStatus(current, reporter) ==
    CASE current.status = "none" -> [status |-> "new", scanner |-> reporter]
      [] current.status = "resolved" -> [current EXCEPT !.status = "reopened"]
      [] OTHER -> current

\* ON CONFLICT DO UPDATE: what the upsert makes of the row it finds.  A new
\* row belongs to whichever of its reporters was dispatched first.
UpsertRow(current, reporter) ==
    CASE current.status = "none" -> [status |-> "open", scanner |-> reporter]
      [] current.status = "resolved" -> [current EXCEPT !.status = "reopened"]
      [] OTHER -> current

\* Mutant: from_status and to_status change places.
UpsertChangeSwapped(snap) ==
    CASE snap = "none" -> [from |-> "open", to |-> "none", reason |-> "first_seen"]
      [] snap = "resolved" -> [from |-> "reopened", to |-> "resolved", reason |-> "reopened"]
      [] OTHER -> NoChange

\* The transition upsertFinding records, judged by the snapshot's status.
UpsertChange(snap) ==
    CASE snap = "none" -> [from |-> "none", to |-> "open", reason |-> "first_seen"]
      [] snap = "resolved" -> [from |-> "resolved", to |-> "reopened", reason |-> "reopened"]
      [] OTHER -> NoChange

\* A statement is done with a finding: what it made of the row, and the history
\* it adds, wait for the commit.
Write(t, f, row, change) ==
    [t EXCEPT !.todo = @ \ {f}, !.rows[f] = row, !.log[f] = change]

\* The row lock is free: the statement writes the row, then its history.
Upsert(s) ==
    LET f == tx[s].cur IN
    /\ tx[s].pc = "upsert"
    /\ f # NoFinding
    /\ lock[f] = NoScan
    /\ lock' = [lock EXCEPT ![f] = s]
    /\ \E n \in Reporters(s, f) :
         tx' = [tx EXCEPT ![s] =
           [Write(@, f, UpsertRow(fnd[f], n), UpsertChange(@.snap))
              EXCEPT !.cur = NoFinding, !.snap = "none"]]
    /\ UNCHANGED <<fnd, occ, hist, humans>>

\* findingsThisScanLookedAt: a website scan may resolve a finding only if the
\* last scan that reported it looked at the same path.
LastReporters(s, f) ==
    LET others == {t \in Scans \ {s} : \E n \in Scanners : <<t, n>> \in occ[f]}
    IN  {t \in others : \A u \in others : tx[u].begun <= tx[t].begun}

LookedAt(s, f) ==
    \/ Path[s] = "none"
    \/ \E t \in LastReporters(s, f) : Path[t] = Path[s]

\* Mutant: without the NOT EXISTS over finding_occurrences.
UnreportedByFirst(s, f) ==
    /\ fnd[f].status \in Open
    /\ fnd[f].scanner \in Complete(s)
    /\ f \notin ReportedBy(s)

\* The WHERE clause of resolveUnreported, over the rows committed so far.
Unreported(s, f) ==
    /\ fnd[f].status \in Open
    /\ fnd[f].scanner \in Complete(s)
    /\ f \notin ReportedBy(s)
    /\ \A o \in occ[f] : o[2] \in Complete(s)

\* All upserts done: resolveUnreported first asks what this scan looked at.
ReadLookedAt(s) ==
    /\ tx[s].pc = "upsert"
    /\ tx[s].cur = NoFinding
    /\ tx[s].todo = {}
    /\ tx' = [tx EXCEPT ![s].pc = "looked", ![s].todo = {f \in Findings : LookedAt(s, f)}]
    /\ UNCHANGED <<fnd, occ, hist, lock, humans>>

\* Then its UPDATE statement starts, with a snapshot of its own.
StartResolve(s) ==
    /\ tx[s].pc = "looked"
    /\ tx' = [tx EXCEPT ![s].pc = "resolving",
                        ![s].todo = {f \in @ : Unreported(s, f)}]
    /\ UNCHANGED <<fnd, occ, hist, lock, humans>>

\* resolveUnreported writes no from_status.
ResolveChange == [from |-> "none", to |-> "resolved", reason |-> "not_reported"]

\* Mutant: resolve what an earlier SELECT chose, whatever it is by now.
ResolveRowUnchecked(s, f) ==
    /\ tx[s].pc = "resolving"
    /\ f \in tx[s].todo
    /\ lock[f] = NoScan
    /\ lock' = [lock EXCEPT ![f] = s]
    /\ tx' = [tx EXCEPT ![s] =
         Write(@, f, [fnd[f] EXCEPT !.status = "resolved"], ResolveChange)]
    /\ UNCHANGED <<fnd, occ, hist, humans>>

\* Once it has the lock, the statement tests the row's own columns again; the
\* subqueries keep the snapshot.
ResolveRow(s, f) ==
    /\ tx[s].pc = "resolving"
    /\ f \in tx[s].todo
    /\ lock[f] = NoScan
    /\ IF fnd[f].status \in Open
       THEN /\ lock' = [lock EXCEPT ![f] = s]
            /\ tx' = [tx EXCEPT ![s] =
                 Write(@, f, [fnd[f] EXCEPT !.status = "resolved"], ResolveChange)]
       ELSE /\ lock' = lock
            /\ tx' = [tx EXCEPT ![s].todo = @ \ {f}]
    /\ UNCHANGED <<fnd, occ, hist, humans>>

Mine(s) == {f \in Findings : lock[f] = s}

\* Mutant: the history of a resolved finding is not written.
CommitUnexplained(s) ==
    /\ tx[s].pc = "resolving"
    /\ tx[s].todo = {}
    /\ fnd' = [f \in Findings |-> IF f \in Mine(s) THEN tx[s].rows[f] ELSE fnd[f]]
    /\ occ' = [f \in Findings |-> occ[f] \union ({s} \X Reporters(s, f))]
    /\ hist' = [f \in Findings |->
         IF f \in Mine(s) /\ tx[s].log[f] # NoChange /\ f \in ReportedBy(s)
         THEN Append(hist[f], tx[s].log[f]) ELSE hist[f]]
    /\ lock' = [f \in Findings |-> IF f \in Mine(s) THEN NoScan ELSE lock[f]]
    /\ tx' = [tx EXCEPT ![s] = [IdleTx EXCEPT !.pc = "done", !.begun = tx[s].begun, !.before = tx[s].before]]
    /\ UNCHANGED humans

Commit(s) ==
    /\ tx[s].pc = "resolving"
    /\ tx[s].todo = {}
    /\ fnd' = [f \in Findings |-> IF f \in Mine(s) THEN tx[s].rows[f] ELSE fnd[f]]
    /\ occ' = [f \in Findings |-> occ[f] \union ({s} \X Reporters(s, f))]
    /\ hist' = [f \in Findings |->
         IF f \in Mine(s) /\ tx[s].log[f] # NoChange
         THEN Append(hist[f], tx[s].log[f]) ELSE hist[f]]
    /\ lock' = [f \in Findings |-> IF f \in Mine(s) THEN NoScan ELSE lock[f]]
    /\ tx' = [tx EXCEPT ![s] = [IdleTx EXCEPT !.pc = "done", !.begun = tx[s].begun, !.before = tx[s].before]]
    /\ UNCHANGED humans

\* Mutant: the upserts run outside the transaction.
AbortPublishing(s) ==
    /\ tx[s].pc \in OpenPCs
    /\ fnd' = [f \in Findings |-> IF f \in Mine(s) THEN tx[s].rows[f] ELSE fnd[f]]
    /\ tx' = [tx EXCEPT ![s] = [IdleTx EXCEPT !.pc = "aborted", !.begun = tx[s].begun, !.before = tx[s].before]]
    /\ lock' = [f \in Findings |-> IF f \in Mine(s) THEN NoScan ELSE lock[f]]
    /\ UNCHANGED <<occ, hist, humans>>

\* RecordScan fails and rolls back: PostgreSQL breaks a cycle of waits, or the
\* connection is lost.  The worker logs it; nothing retries.
Abort(s) ==
    /\ tx[s].pc \in OpenPCs
    /\ tx' = [tx EXCEPT ![s] = [IdleTx EXCEPT !.pc = "aborted", !.begun = tx[s].begun, !.before = tx[s].before]]
    /\ lock' = [f \in Findings |-> IF f \in Mine(s) THEN NoScan ELSE lock[f]]
    /\ UNCHANGED <<fnd, occ, hist, humans>>

\* Store.Transition: SELECT ... FOR UPDATE, update, history and audit row in
\* one transaction.  Setting the status it already has is refused.
Transition(f, to) ==
    /\ humans < MaxHuman
    /\ fnd[f].status # "none"
    /\ lock[f] = NoScan
    /\ to \in HumanSettable
    /\ to # fnd[f].status
    /\ fnd' = [fnd EXCEPT ![f].status = to]
    /\ hist' = [hist EXCEPT ![f] =
         Append(@, [from |-> fnd[f].status, to |-> to, reason |-> "human"])]
    /\ humans' = humans + 1
    /\ UNCHANGED <<occ, lock, tx>>

RecordStep(s) ==
    \/ (\E f \in Findings : ReadPrevious(s, f) \/ ResolveRow(s, f))
    \/ Upsert(s) \/ ReadLookedAt(s) \/ StartResolve(s) \/ Commit(s)

Next ==
    \/ \E s \in Scans : Begin(s) \/ RecordStep(s) \/ Abort(s)
    \/ \E f \in Findings, to \in Chosen : Transition(f, to)

Spec == Init /\ [][Next]_vars

-----------------------------------------------------------------------------
(* Safety. *)

Last(seq) == seq[Len(seq)]

\* "A scan must not overrule a human judgement" (upsertFinding): only a person
\* moves a finding out of a status a person gave it, also when the judgement
\* lands between a recording's snapshot and its write.
ScansRespectJudgement ==
    [][\A f \in Findings :
         fnd[f].status \in Judged /\ fnd'[f].status # fnd[f].status
           => humans' # humans]_vars

\* A resolved finding's newest history row says that a scan resolved it: no
\* interleaving loses the row or buries it under another.
ResolvedIsExplained ==
    \A f \in Findings : fnd[f].status = "resolved" =>
        hist[f] # <<>> /\ Last(hist[f]).reason = "not_reported"

\* The commit of this step, if any, moved f to resolved.
Resolves(s, f) ==
    /\ tx[s].pc # "done" /\ tx'[s].pc = "done"
    /\ fnd[f].status # "resolved" /\ fnd'[f].status = "resolved"

\* The resolve rule of docs/architecture/fingerprinting.md: every scanner that
\* has ever reported the finding completed in the scan that resolves it, and
\* a website scan resolves only what was last reported from its own path.
EntitledToResolve ==
    [][\A s \in Scans, f \in Findings : Resolves(s, f) =>
         /\ \A o \in occ[f] : o[2] \in Complete(s)
         /\ Path[s] # "none" => \A t \in LastReporters(s, f) : Path[t] = Path[s]]_vars

\* As far as it goes: no scan resolves against what it could have known, which
\* is every report whose recording had ended when its own began, and every
\* report of its own scanners whose output could be read.  Judgements, aborted
\* recordings and recordings that overlap do not change that.
EntitledAsOfStart ==
    [][\A s \in Scans, f \in Findings : Resolves(s, f) =>
         /\ \A o \in occ[f] : o[1] \in tx[s].before => o[2] \in Complete(s)
         /\ Path[s] # "none" =>
              \A t \in LastReporters(s, f) : t \in tx[s].before => Path[t] = Path[s]
         /\ \A n \in Scanners : f \in tx[s].runs[n].saw => ~tx[s].runs[n].parsed]_vars

\* No two recordings of the project were open at once, and no person changed a
\* status.
Alone ==
    /\ humans = 0
    /\ \A s, t \in Scans : s # t /\ tx[s].pc # "idle" /\ tx[t].pc # "idle" =>
         s \in tx[t].before \/ t \in tx[s].before

\* Without overlap the newest history row of a finding is how it got its status
\* ("so the transition can be recorded accurately", upsertFinding).  With it, a
\* recording that read the status before another's commit can reopen a finding
\* and leave no row.
HistoryIsAccurate ==
    \A f \in Findings : fnd[f].status # "none" =>
        \/ Last(hist[f]).to = fnd[f].status
        \/ ~Alone

\* The history explains the status: always that a finding is resolved, and
\* every status when recordings do not overlap.
HistoryExplains == ResolvedIsExplained /\ HistoryIsAccurate

\* The first reporter a finding's row names did report it, in a scan whose
\* recording was committed: two scans racing to insert the row, or one of them
\* rolling back, leave no finding "seen but nowhere" (RecordScan).
SeenSomewhere ==
    \A f \in Findings : fnd[f].status # "none" =>
        \E t \in Scans : <<t, fnd[f].scanner>> \in occ[f] /\ tx[t].pc = "done"

------------------------------------------------------------------------
=============================================================================
