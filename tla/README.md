# SecureOps: specification and verification

SecureOps runs security scanners over a target, turns their output into
findings, scores them and gives a PASS/WARN/FAIL verdict. This directory holds
TLA+ specifications of the parts of it that carry state across processes,
requests and subprocesses, the TLC instances that check them, and TLAPS proofs
of their safety properties. `PROJECT.json` lists components, runs, mutants, the
definition-to-source map, findings, hazards and theorems.

## The system

| Component | State | Operations | Talks to | Module |
|---|---|---|---|---|
| Scan submission (`httpapi/scans.go`) | none of its own | create row, enqueue, fail what was not enqueued | scan store, queue | ScanLifecycle, Access |
| Queue (`queue/redis.go`) | a Redis list | RPUSH, BLPOP | API pushes, workers pop | ScanLifecycle |
| Worker loop (`worker/runner.go` `Run`) | semaphore, wait group, root context | dequeue, start, drop, drain, recover | queue, jobs | ScanLifecycle |
| Job pipeline (`executeJob` ...) | results and findings in memory | validate, mark, execute, ingest, persist, score, gate, finalize | every store | ScanLifecycle, Analysis |
| In-process executor (`scanexec`) | workspace | fetch, run scanners, report events | pipeline callbacks | ScanLifecycle |
| Kubernetes executor (`scanexec/kube`, `scanjob`) | Jobs, policies, volume, intake sessions | create, wait, report, clean up | API server, pods, callbacks | KubeScan |
| Scanner adapters, git (`scanners`, `fetch`) | subprocesses, directories, rules, databases | provision, run, redact, check | executor | Adapters |
| HTTP probe (`scanners/httpprobe`) | the record being filled | ask, follow, classify, judge, normalize | the site | Probe |
| Scan store (`scans/store`) | `scans`, `scan_scanner_results`, `scan_raw_results` | guarded updates | PostgreSQL | ScanLifecycle |
| Findings store (`findings`) | `findings`, occurrences, history | RecordScan, Transition | pipeline, API | FindingLifecycle |
| Correlation, risk, remediation, gate | issues, links, scores, verdicts | correlate, replace, assess, plan, evaluate | pipeline, read API | Analysis |
| Accounts, sessions, projects, policies, audit | `users`, `project_members`, `projects`, `security_policies`, `audit_logs` | create, change, disable, archive, set, log in, read | API | Access |
| CI client (`cli`, `cmd/cli`) | one pipeline run | submit, poll, read the gate, exit | API | CIClient |
| HTTP server, network guard, configuration, migrations, dashboard | – | routing, address ranges, parsing, DDL, pages | – | not modelled |

What is hard here: several workers and API processes share the database with no
lock but row locks and `WHERE` clauses; a job is popped before it is done; three
contexts (request, worker, job deadline) end at different moments, and which
call uses which decides what survives; most stages are "not fatal", so any
subset of them may be stored; PostgreSQL's READ COMMITTED evaluates a statement
on one snapshot and rows on another; pods report over a network that loses
replies; tools hang, flood, crash and leave helpers behind; and "nothing found"
must never come from "nothing ran". Correctness means: one owner per scan, a
status that moves only forward, a verdict never better than the coverage behind
it, findings resolved only by those entitled to, judgements of people left
alone, results kept only if whole, rights as they are now, an audit trail
without gaps, and an end to everything that was started.

## Modules

**ScanContract** is the abstract specification: `allowedTransitions` of
`scans/scan.go` over the status of each scan, and nothing else.

**ScanLifecycle** is the detailed one, from `POST /scans` to the terminal status.

| Variable | Code |
|---|---|
| `row`, `results`, `stored` | `scans` (status, failure reason, whether a checkout is recorded), `scan_scanner_results`, raw results and component inventory |
| `recorded`, `risk`, `verdict` | findings recorded and by which resolving scanners; risk score saved; `policy_results` |
| `api` | where the handler is: `created` after the insert, `failing` after an enqueue error |
| `queue` | the Redis list; a job is represented by its scan |
| `ctx`, `loop`, `held` | root context, position in `Run`, the dequeued job without a slot |
| `jobs` | the goroutine in each semaphore slot: stage, deadline passed, scanners left, results and findings in memory |
| `faults` | how many faults were injected |

One action is one pipeline stage, because a stage ends in one statement or
transaction of a store and anything may happen between two. `Ingest` groups the
writes of one scanner event (raw output, inventory, scanner row) and lets any
subset of them land when the database fails. `JobLive` is `jobCtx`, `Live` the
worker's context: `MarkRunning` and the scanners use the first, every other
database call the second, `finalize` neither. A fault costs one of `MaxFaults`;
the kinds are in `FaultKinds`. The job's deadline is no fault once the scan
runs, since any long scan meets it. What a stage computes (a score, a verdict)
is any outcome here; Analysis says which.

For each module M, MC*M* holds its instances and *M*Proofs its theorems; the
client's instance is also the one of `scan_safety`.

**CIClient** composes ScanLifecycle with one run of the CI client, whose
submission is the `Create` of its scan. `client` is where `Run` is, what it has
read, and the exit code. A poll that finds the scan in flight changes nothing and
is a stutter; a client that goes away in mid-submission is ScanLifecycle's
`Disconnect`. `ClientSpec` leaves every other action as it is, so what is proved
of `Spec` holds of it.

**KubeScan** is `Execute` of the Kubernetes executor: open a session, per phase
create the volume, the policy and the Job, wait, clean up by label, close. `job`
is what the API server shows, `pod` the process behind it, which does not stop
because somebody deleted its Job; `post` is a report on its way, from the pod
through the intake's authorization, its size cap and the runner's callback, to
the reply the pod sees; `heard` is what the callbacks have taken in. Failing API
calls, evictions, refused and lost reports cost one of `MaxFaults`.

**FindingLifecycle** is `findings.RecordScan` for the scans of one project and
`Store.Transition` by people. A recording is an open transaction: an upsert is
two steps, since the CTE reads the statement's snapshot (`ReadPrevious`) and
`ON CONFLICT` writes the row's last committed version once its lock is free
(`Upsert`); resolving is a read of what the scan looked at (`ReadLookedAt`), the
snapshot of the `UPDATE` (`StartResolve`), then one locked row at a time with
the row's own columns tested again (`ResolveRow`). `fnd`, `occ` and `hist` are
the committed tables, `lock` the row locks, `tx` the open transactions with
their unpublished writes.

**Analysis** follows what a recording sets off: `ListLive`, `ReadArtifact` (or its
failure), the transaction of `ReplaceCorrelation` (`Clear`, `Commit`), `Score`,
`Gate`, each after another scan or a person may have changed the project. The
engines are operators: keys, capped buckets, links, issues
and deployment for correlation; weights and factors over scaled integers for
risk; dismissal, grouping and remaining risk for remediation; rules and coverage
for the gate.

**Access** is the API's request from authentication to commit: a principal from
a session or a token, built anew for each request (`Arrive`), the role and scope
checks, the connection pool (a query needs a free connection, a transaction keeps
one from `Connect` to its commit), row locks, the last-admin guard on a second
connection, the write with its audit record. Requests are log in, create user,
PATCH user (a sequence of separate transactions), create, archive and restore
project, set policy, submit a scan, read. `trail` and `audited` are the audit
records the properties are about.

**Adapters** is a job of the in-process executor down to its subprocesses:
clone, measure, head and branch; version and provisioning probes; the scan under
its own timeout; the age of a database; the separate inventory run. `run` is the
one `scanners.Run` in progress: stdout and stderr limits, three contexts, process
group, helpers. The adapters (gitleaks, grype, semgrep, syft, trivy, ZAP) differ
in the report they leave, what they redact and check, and whether they share a
home directory (`home`).

**Probe** is the HTTP probe: `findPage` and its hops, the CORS questions, the
plain-HTTP question, `Scan`'s verdict over them, the stored record, and what
`Normalize` reports from it. A site is a record of what it does; a request may be
disturbed (refused, silent, blocked by the address policy, answered "not ready")
`MaxFaults` times.

Mutated forms of definitions stand before the definitions they replace, marked
"Mutant"; nothing else uses them.

## What the runs show

All figures are distinct states. `CHECK_DEADLOCK FALSE` is set because these
systems come to rest: every scan settled, every request answered.

| Run | Shows |
|---|---|
| `scan_safety` (1,020,180) | a CI client's scan, two workers with one slot each, two scanners (one normalizes, one inventories), any two of ten kinds of fault: single owner, whole coverage behind COMPLETED and PASS, resolvers succeeded, verdicts rest on scores and scores on findings, terminal rows frozen, `ScanContract` implemented; a build goes green only on a verdict that stands, and red only on a stored FAIL |
| `scan_liveness` (177,521) | under fairness, two scans, one of which names an unknown scanner, on one worker with two slots, with a shutdown or a duplicate push: running scans settle, stopped workers exit, and accepted scans settle unless a fault strikes |
| `kube_execute` (46,293) | a repository or an image scan with up to two failures of cluster or network: pods confined, success heard in full and at rest before it is judged, checkout before scanners, nothing left behind, Execute returns |
| `finding_concurrent` (2,454,137) | three recordings of two pages, two of them overlapping, output that may not parse, one human change: judgements respected, resolutions explained, no finding seen nowhere, nobody resolves against what it could have known |
| `analysis` (879,038) | two scans over three findings related in every way the engine knows, one bucket over the cap, packages named by URL or by name alone, a truncated image inventory, one human change: a correlation alone is exact, overlapping ones leave whole issues, risk is monotone, score, gate and plan judge the same findings, PASS was earned, "not deployed" is known |
| `access` (224,664) | any two requests at once by two people, a token of the project and a token confined elsewhere, over a pool of two connections: exact trail, audit ends at what is in force, rights as they are now, nobody refused wrongly, requests end unless the guards use up the pool |
| `adapters` (235,117) | each adapter by itself and two ZAP jobs at once, tools that hang, flood, crash or are killed: only fit output kept, old databases flagged, ZAP's home exclusive, true causes, nothing left, every job ends |
| `probe` (359,597) | 120 sites, two disturbed requests, a context that ends anywhere: silence is earned, reports are true, requests stay on the site, nothing unanswered is stored, the record is readable |

Some properties are conjunctions of named parts, each broken by a mutant of its own
(`ExitIsEarned`, `JudgedInFull`, `HistoryExplains`, `IssuesAreCoherent`,
`AuditIsExact`, `ResultsAreFit`, `NothingLingers`, `StoredIsSound`). Where a module's
type invariant is no property of a run itself it is one of those parts.

Four runs expect a violation. Each states what the documentation or a comment
says and shows the code doing something else; `findings` in `PROJECT.json`
quotes the lines.

| Run | Counterexample |
|---|---|
| `scan_coverage` | the deadline passes after the first scanner's event; the second is never dispatched and leaves no result; COMPLETED, PASS |
| `finding_resolve_race` | a resolve waits for a recording that adds a second reporter, then resolves without asking it |
| `user_last_admin` | two administrators demoted at once, each guard counting the other |
| `adapter_rules` | the second ruleset's download fails; semgrep scans with the first and is recorded as succeeded, undegraded |

Where the code does less than a text near it says, but the exception can be
stated exactly, a property of a passing run states it:

* `PassOutlived`: the push is applied and its reply lost, the API fails the scan
  while the worker runs it and stores PASS. A failed scan with a PASS therefore
  exists (`docs/architecture/policy.md` says "at least WARN"), but its owner
  never made it so; and `ExitIsEarned` shows the client never acts on it.
* `HistoryExplains`: an upsert that waited for a resolve reopens the finding
  believing it was open, and writes no history row, although the CTE is there
  "so the transition can be recorded accurately". Without overlap it is.
* `EntitledAsOfStart`: a scanner whose output does not normalize still counts as
  complete (`runner.go` `ingest`) and may resolve what it saw. Otherwise nobody
  resolves against a report it could have known of.
* `ResultsAreFit`, `CauseIsTrue`: an empty gitleaks report is a clean one whatever
  the exit code; a tool that exits 0 as its noisy stderr hits the cap is
  "cancelled".
* `AuditIsExact`: the policy's previous value is read without a lock, so two
  concurrent edits may name the same predecessor; and the membership a project's
  creator gets is not audited.
* `RiskIsMonotone`: `docs/architecture/risk-engine.md` says "adding any finding never
  lowers the project score". It holds of `Assess` on subjects as they are loaded,
  hence of a plan's remaining risk, but the next scan correlates anew, and then
  there are two exceptions. In a bucket over the cap a new finding may displace
  another. And `unknown` ranks above `low` but is off the ladder of `escalate`
  (`issue.go`): two low findings of different categories make a medium issue, and
  with a third of unknown severity the issue is unknown, not escalated, and the
  total falls by more than a quarter.
* `AbsentIsKnown`: an image's components are committed before the row that says
  they were truncated.
* `EnforcedNow`: `docs/security/threat-model.md` (262–264), ADR 033 and
  `httpapi/authz_test.go` (127–132) confine a credential to its projects. `POST
  /scans` names its project in the body, past `scopedProject`, and
  `handleCreateScan` (`httpapi/scans.go` 249–343) asks only for the role and a live
  project: a principal may submit a scan of a project outside its scope, and one
  confined to no project at all does so in the instance. For every other request
  below a project the scope is enforced.
* `RefusedRightly`: ADR 033 §2 lets an engineer edit a policy, and the comment at
  `httpapi/sessions.go` 99–104 says the handler checks that itself. The route
  requires an admin (`httpapi/server.go` 304), as ADR 023 and the threat model
  say, and the handler has no check, so the engineer gets a 403. The instance
  reaches that refusal; nobody else is refused what any document grants.
* `RequestsEnd`: `refuseIfLastAdmin` counts through the pool while its transaction
  keeps a connection. When every connection is kept by such a guard, or by a request
  that waits for a row such a transaction has locked, none goes on (`Stalled`) until
  a client gives up. The default pool is ten, and `config.go` accepts one, where a
  single guarded change stalls. The instance reaches it with two guards and two
  connections. `RequestsEnd` promises the end of every request except then, and
  the theorem `StallNeedsGuard` shows that a guard is always part of it: neither
  transactions nor waits for rows stall the pool by themselves.

Two more follow from the models without a property. A client that hangs up
between insert and enqueue leaves a scan QUEUED for ever, since
`failUnqueuedScan` uses the dead request's context. And a worker crash loses the
job: BLPOP removes the only copy and `Attempt` is never incremented, although
ADR 003 speaks of at-least-once delivery. `scan_safety` includes both; the
liveness run promises nothing after them, nor after a database that fails at
finalize or a panic (`runner.go` logs, nothing retries). Nor does the resolve
rule know revisions: a scan of an older one that ends later may resolve what a
newer one reported, and no document promises otherwise.

**Bounds.** One scan suffices for the single-scan properties because nothing in
the store relates two scans; two workers give every race between two
deliveries, and the theorems remove the bound. Two faults let one spoil the
recovery from another, in ScanLifecycle, KubeScan and Probe alike. For liveness
both slots belong to one worker, so that its loop can be full while it holds a
job and drains two when it stops. In FindingLifecycle two open transactions are
needed for a race and a third scan for what was there before; one finding
suffices, since findings meet only in lock cycles; `Chosen` holds one of the
judged statuses, which the store treats alike, and the way back to open. In
Analysis `MaxBucketSize` is 2 rather than 500, so that three findings exceed it.
In Access two requests give every race of one write with one other, and with two
connections they can use up the pool (`user_last_admin` has three, so that its
counterexample needs no stall); one project suffices, as no two are compared, with
a token of that project and one confined elsewhere. Adapters runs
every adapter by itself and two ZAP jobs at once, since ZAP's home is all that two
jobs of a worker share. In Probe `maxRedirects` is 2 instead of 3: enough for a hop that is
followed, one that is refused, and a chain that is too long. `MaxHuman` and
`MaxFaults` bound what would otherwise grow for ever. Symmetry is used only
where safety is checked.

**Fairness.** Weak fairness of handler, loop and job steps: goroutines are
scheduled, BLPOP has a poll timeout, scanners and fetches run under deadlines,
a stopped worker is restarted (`restart: unless-stopped`, a Deployment). The
liveness run uses `ServedNext`, which leaves out crashes, panics and failed
submissions, since the code promises nothing after them. In
KubeScan the executor's own steps and the end of its context are fair, so that
Execute returns even when no pod ever does anything. In Access a request that
can go on does; weak fairness is enough, since each other request ends or stalls
and so takes a row or a connection only finitely often. A grant that fails and a
client that gives up are not relied on. In Adapters the worker's
code and its timers are fair; a tool owes nothing. No fault, client request or
human act is ever owed. FindingLifecycle, Analysis and Probe state no liveness:
that PostgreSQL ends a cycle of waits is assumed, and `Abort` may end any
recording.

## What is proved

Each theorem holds for every value of the constants that satisfies the named
`ASSUME` of its module, which TLC evaluates on the instances too. `PROJECT.json`
lists the theorems with the property each one states. Nothing is proved from an
assumption about the behaviour: the specifications are the ones the runs check.

| Module | For every | Theorems |
|---|---|---|
| ScanLifecycleProofs | scans, scanners, workers, slots, selection, kinds and number of faults | type correctness, `SingleOwner`, `CompletedIsWhole`, `PassIsWhole`, `ResolversSucceeded`, `JudgedWasScored`, `FailedHasReason`, `PassOutlived`, `TerminalFrozen`, the refinement of ScanContract |
| CIClientProofs | the same, with a client | the client only observes (`ClientSpec` implies `Spec`), `ExitIsEarned` |
| FindingLifecycleProofs | finite set of scans, findings, scanners, paths, number of open transactions and human changes | type correctness, `HistoryExplains`, `SeenSomewhere`, `ScansRespectJudgement`, `EntitledAsOfStart` |
| AccessProofs | users, tokens, projects, requests, initial roles with an administrator, PATCH bodies, pool size | type correctness, `AuditIsExact`, `EnforcedNow`, `RefusedRightly`, that a stall of the pool has a last-admin guard in it (`StallNeedsGuard`) |
| KubeScanProofs | non-empty list of distinct scanners, kinds of target, number of faults | `JudgedInFull`, `Confined`, `FetchedBeforeScanned`, `CleanedUp` |
| AdaptersProofs | jobs, assignment of adapters, non-empty list of rulesets | `NothingLingers`, `ResultsAreFit`, `CauseIsTrue` |
| AnalysisProofs | finite set of findings with any attributes, scans, reports, inventories, policies, bucket cap | `IssuesAreCoherent`, `RiskIsMonotone`, `JudgedTogether`, `PassWasEarned`, `AbsentIsKnown` |
| ProbeProofs | sites, redirect limit, number of disturbed requests | `StaysOnSite`, `StoredIsSound`, `ReportsAreTrue`, `SilenceIsEarned` |

None of these invariants is inductive as it stands. Each module of proofs opens
with the strengthening it needs, which TLC checked on the run's instance before
it was proved; a step then has one lemma per action or group of actions.

* **Scans: `Ownership`.** That COMPLETED means whole speaks of stored rows, but the
  status is computed from the job's memory; so the owner's memory must agree
  with what is stored (`MemoryAgrees`). That needs a single owner (`OneOwner`),
  which needs that a queued scan is nobody's and has nothing stored
  (`UntakenIsFresh`) — a job refused before `MarkRunning` may finalize, but only
  with a refusal, so it is told apart by its reason. What is stored fixes how far
  the owner is (`StoredInOrder`): otherwise a row could still turn "failed" after
  the verdict it was judged by. `VerdictOfJob` carries the status from `Settle`
  to `Finalize`. `TerminalFrozen` and the refinement follow from a lemma on how
  one step may change a row.
* **Scans: `Standing`**, for `PassOutlived`. A stored verdict knows the status its
  owner is about to give (`VerdictStands`), and the two ways another party can
  fail a scan under its owner (`Foreign`: a lost enqueue reply, a second delivery
  that finds the target invalid) leave their reasons. A delivery refused because
  no scanner resolves is not one of them: resolution depends on the scan alone,
  so its owner would have been refused as well (`ResolvedJob`).
* **CI client: `ClientInv`.** What the client has read stays true of the database:
  a settled row is frozen (`TerminalFrozen`), and a verdict is written only by
  an owner, which a settled scan no longer has.
* **Findings: `Isolation`.** At READ COMMITTED nothing a transaction has read is
  stable but what it has locked. The invariant says what that buys: a buffered
  write is the upsert or the resolution of the row as committed now
  (`LocksHeld`), a candidate for resolution is still one the scan was entitled to
  against the recordings it found ended (`CandidatesEntitled`), and a snapshot is
  current if nothing overlapped (`SnapshotFresh`). Recordings are ordered by when
  they began, which is where finiteness of the set of scans is used.
* **Access: `AccessInv`.** Between `SELECT ... FOR UPDATE` and the commit the row is
  what was read (`LockedIsCurrent`), which makes the audit record exact; a
  membership grant is of the project just created (`GrantsOwn`); and a request
  nothing overtook knows its principal and project as they are now (`Informed`).
  Who has locked a row is past locking it (`LockHeld`), so a request that waits for a
  row waits for one that writes or guards: hence `StallNeedsGuard`.
  The last-admin guard is not among the results: it does not hold
  (`user_last_admin`).
* **Kubernetes: `KubeInv`.** A pod that has met no error has delivered what it has
  reported, with only the report it waits for on its way (`FetchInv`, `ScanInv`);
  the phases do not overlap (`PhaseInv`); what cleanup deleted stays deleted
  unless a delete failed (`CleanInv`, `PolicyInv`).
* **Adapters: `AdaptersInv`.** A conjunction over the jobs, so a step of one job is
  proved against that job and a lemma keeps the others (`OthersKept`); only ZAP's
  home and the databases are shared. A process group lives and dies as one within
  the step that waits for it (`RunInv`), whoever runs ZAP holds the home
  (`HomeInv`), and since a database was read it can only have aged (`ScanInv`),
  which is why an age asked for after the scan is still an answer.
* **Analysis: `IInv`.** For `ExactWhenAlone` a correlation that is still alone must
  have read what is there now and be about to clear all of it
  (`LoneCorrelation`); that the verdict rests on the saved score needs what was
  counted to be what was scored, from `Score` on (`JudgementIsSound`); and an
  issue keeps the inventory it was judged by (`ArtifactsAreKnown`).
  `RiskIsMonotone` needs no history but an argument about the engine: a finding
  more gives every other finding the issues it had, grown (`IssuesGrow`); a grown
  issue is no less severe (`IssueSeverityGrows`); so every risk grows
  (`RiskGrows`), and with them the worst one, the sum and the total
  (`TotalGrows`). Facts about sums over any finite set need induction, which the
  library states over operators; here it is a lemma about a set of subsets
  (`InductionOnSubsets`), derived from the least element of a set of naturals.
* **Probe: `ProbeInv`.** The answers on record are answers of the page where
  `findPage` stopped (`AnswersInv`), and which questions were asked is fixed by
  where the scan is and what the first answer said (`OrderInv`).

Writing the proofs changed the models in three ways. `SilenceIsEarned` was false for
sites outside the earlier instance: where a redirect echoes any origin, the code
reports that, and does not ask the page behind it about lookalikes. The property
now says so, and the `probe` run has such sites. `RiskIsMonotone` was false for
findings of unknown severity, which the instance did not combine with low ones;
the property now leaves them out, and "truncated" is now what `CorrelateWith`
records, any bucket over the cap. And where a CASE had two guards that could both
hold, they were made disjoint, since the meaning of such a CASE is an unspecified
choice. Analysis gained the assumptions that normalization and `Policy.Validate`
establish: severities, confidences and levels come from their scales.

Only model-checked: liveness under fairness (`RunningSettles` and the other
properties of `scan_liveness`, that Execute returns, requests and jobs end),
which the prover does not do.

## Assumptions and omissions

* A database call that returns an error had no effect; a lost reply is modelled
  only for Redis, where the code compensates, and for a pod's report.
* Scanners run in any order; the registry's is fixed.
* `Attempt` is always 1 (`handleCreateScan`), so the `MaxAttempts` branch is
  never taken and is not modelled. Undecodable payloads are not either.
* A history table is read in commit order.
* KubeScan: a create whose reply is lost is not modelled. After a failed Execute
  a handler that had been authorized before `Close` may still call back, which
  the comment at `executor.go` on Close rules out; the runner ignores what it
  collected then. A fetch refused as too large is reported as `fetch_failed`,
  and the Job's environment does not carry `SCANNER_MAX_OUTPUT_BYTES`.
* Analysis: two transactions that wait for each other commit in any order, which
  allows more than PostgreSQL does; the DELETEs of one `ReplaceCorrelation` share
  a snapshot; exposure and criticality are the same factor for every finding and
  are left out, as is the saturation of the total.
* Access: a session may expire at any moment; passwords and the clock behind the
  expiry are not modelled; a token has the role and the projects it was configured
  with.
* Adapters: "bad" output stands for all a validator refuses. Grandchildren that
  survive a normal exit, failures of RemoveAll, and volumes shared by replicas
  are left out. ZAP's and gitleaks's report files have no size cap. The message
  `lockHome`'s comment promises ("waiting for the ZAP home directory") is logged,
  while the stored error is the fixed "scanner execution failed". ZAP's check
  walks the fields its redaction walked, so a field both miss is not caught.
* Probe: name and TLS failures are folded into "network"; a transient 404 or a
  refused plain port is taken as a fact about the site, as the code does. What ADR
  041 §4 says the probe cannot catch is not among the disturbances: a holding page
  that answers 200, and a 401 or 403 given before CORS is looked at. Header
  values that neither echo nor are absent are one class; the port of a redirect
  affects only the confidence and is left out.
* CIClient: the API's answers are read from the committed state; a failing call
  is an error whatever its cause.

Not modelled: the HTTP server around the handlers (routing, body limits, a
library's rate limiter), the network guard (a predicate over address ranges,
used by Probe as "blocked"), configuration and logging, connection set-up and
migrations (constraints that matter are in the actions that meet them), the
mappers from a tool's JSON to findings, and the dashboard. They keep no state
over time that the code in `internal` acts on.

## Plan

1. Normalization's merge of two reports of one finding, and the inventory's caps.
2. Password changes, and the log-in rate limit with its clock.
