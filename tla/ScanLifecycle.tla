--------------------------- MODULE ScanLifecycle ---------------------------
(***************************************************************************)
(* The life of a scan: POST /scans, the Redis job queue, the worker's      *)
(* consume loop, and executeJob with the in-process executor, up to the    *)
(* security gate and the terminal status.                                  *)
(*                                                                         *)
(* Every write to PostgreSQL is one atomic statement or transaction of the *)
(* store that makes it, so one action makes at most the writes of one      *)
(* pipeline stage.  Between two stages anything may happen: another        *)
(* worker, the API, the job's deadline, a shutdown, a crash.               *)
(***************************************************************************)
EXTENDS Naturals, Sequences, FiniteSets

CONSTANTS
    Scans,            \* scan ids
    Scanners,         \* adapters in the worker's registry
    Normalizers,      \* adapters implementing normalization.Normalizer
    Inventoriers,     \* adapters implementing sbom.Inventorier
    Supports,         \* effective target kind -> adapters that support it
    KindOf,           \* scan -> target kind the client submitted
    RequestOf,        \* scan -> adapter names the client asked for ({} = all)
    Workers,          \* worker processes
    Slots,            \* semaphore slots, of all workers
    WorkerOf,         \* slot -> the worker it belongs to
    IncompleteScan,   \* the policy's level for an incomplete scan
    NoScan,           \* "no scan", for an empty hand or slot
    NoScanner,        \* "no scanner", between two runs
    Faults,           \* the kinds of fault this instance may inject
    MaxFaults         \* bound: how many faults a behaviour contains

Kinds == {"repository", "image", "endpoint"}
EffectiveKinds == {"filesystem", "image", "endpoint"}
FaultKinds == {"disconnect", "enqueue_refused", "enqueue_unacked",
               "enqueue_repeated", "api_crash", "db", "panic", "shutdown",
               "crash", "early_deadline"}

ASSUME ConstantsAssumption ==
    /\ NoScan \notin Scans
    /\ Normalizers \subseteq Scanners
    /\ Inventoriers \subseteq Scanners
    /\ Supports \in [EffectiveKinds -> SUBSET Scanners]
    /\ KindOf \in [Scans -> Kinds]
    /\ WorkerOf \in [Slots -> Workers]
    /\ IncompleteScan \in {"warn", "fail"}
    /\ NoScanner \notin Scanners
    /\ Faults \subseteq FaultKinds
    /\ MaxFaults \in Nat

VARIABLES
    row,        \* the scans table: status, failure reason, checkout recorded
    results,    \* scan_scanner_results: one outcome per scan and scanner
    stored,     \* scan_raw_results and the component inventory
    recorded,   \* whether findings.RecordScan ran, and the resolvers it was given
    risk,       \* whether a risk score is stored for the scan
    verdict,    \* policy_results: the stored verdict and its coverage flag
    api,        \* where the POST /scans handler for the scan is
    queue,      \* the Redis list of jobs; a job is represented by its scan
    ctx,        \* the worker's root context
    loop,       \* where Run's consume loop is
    held,       \* the job the loop dequeued and has no slot for yet
    jobs,       \* the goroutine in each slot
    faults      \* faults injected so far

dbVars == <<row, results, stored, recorded, risk, verdict>>
loopVars == <<ctx, loop, held>>
vars == <<dbVars, api, queue, loopVars, jobs, faults>>

-----------------------------------------------------------------------------
(* The vocabulary of package scans. *)

ActiveStatuses == {"queued", "running"}
TerminalStatuses == {"partial", "completed", "failed", "cancelled"}
Statuses == {"none"} \union ActiveStatuses \union TerminalStatuses
Reasons == {"none", "target_invalid", "no_scanner", "not_registered",
            "workspace", "fetch_failed", "too_large", "all_degraded",
            "not_enqueued"}

\* "degraded" is status succeeded with at least one degradation.
Usable == {"succeeded", "degraded"}
Outcomes == Usable \union {"failed", "skipped"}
Results == [Scanners -> Outcomes \union {"none"}]
NoResults == [n \in Scanners |-> "none"]

Levels == {"none", "pass", "warn", "fail"}
Rank(v) == CASE v = "pass" -> 0 [] v = "warn" -> 1 [] OTHER -> 2

PCs == {"free", "validate", "mark", "fetch", "scan", "ingest", "persist",
        "score", "settle", "gate", "finalize"}
\* The stages at which the job believes it owns the scan: after MarkRunning.
OwnerPCs == {"fetch", "scan", "ingest", "persist", "score", "settle", "gate"}

Idle == [pc |-> "free", scan |-> NoScan, expired |-> FALSE, todo |-> {},
         cur |-> NoScanner, out |-> "none", res |-> NoResults, norm |-> {},
         scored |-> FALSE, status |-> "none", reason |-> "none"]

Rows == [status : Statuses, reason : Reasons, checkout : BOOLEAN]
Jobs == [pc : PCs, scan : Scans \union {NoScan}, expired : BOOLEAN,
         todo : SUBSET Scanners, cur : Scanners \union {NoScanner},
         out : Outcomes \union {"none"}, res : Results, norm : SUBSET Scanners,
         scored : BOOLEAN, status : Statuses, reason : Reasons]

TypeOK ==
    /\ row \in [Scans -> Rows]
    /\ results \in [Scans -> Results]
    /\ stored \in [Scans -> [raw : SUBSET Scanners, sbom : SUBSET Scanners]]
    /\ recorded \in [Scans -> [done : BOOLEAN, resolvers : SUBSET Scanners]]
    /\ risk \in [Scans -> BOOLEAN]
    /\ verdict \in [Scans -> [verdict : Levels, complete : BOOLEAN]]
    /\ api \in [Scans -> {"idle", "created", "failing", "accepted", "rejected", "dead"}]
    /\ queue \in Seq(Scans)
    /\ ctx \in [Workers -> {"live", "cancelled"}]
    /\ loop \in [Workers -> {"consume", "holding", "drain", "down"}]
    /\ held \in [Workers -> Scans \union {NoScan}]
    /\ jobs \in [Slots -> Jobs]
    /\ faults \in 0..MaxFaults

Init ==
    /\ row = [s \in Scans |-> [status |-> "none", reason |-> "none", checkout |-> FALSE]]
    /\ results = [s \in Scans |-> NoResults]
    /\ stored = [s \in Scans |-> [raw |-> {}, sbom |-> {}]]
    /\ recorded = [s \in Scans |-> [done |-> FALSE, resolvers |-> {}]]
    /\ risk = [s \in Scans |-> FALSE]
    /\ verdict = [s \in Scans |-> [verdict |-> "none", complete |-> FALSE]]
    /\ api = [s \in Scans |-> "idle"]
    /\ queue = <<>>
    /\ ctx = [w \in Workers |-> "live"]
    /\ loop = [w \in Workers |-> "consume"]
    /\ held = [w \in Workers |-> NoScan]
    /\ jobs = [j \in Slots |-> Idle]
    /\ faults = 0

-----------------------------------------------------------------------------
(* Faults.  Each one costs one of MaxFaults. *)

Fault(kind) ==
    /\ kind \in Faults
    /\ faults < MaxFaults
    /\ faults' = faults + 1

NoFault == UNCHANGED faults

-----------------------------------------------------------------------------
(* Pure definitions translated from the code. *)

\* scanners.EffectiveKind: a repository reaches the adapters as a checkout.
EffectiveKind(kind) == IF kind = "repository" THEN "filesystem" ELSE kind

\* Registry.Resolve; the empty set stands for its error.
Resolve(s) ==
    LET supported == Supports[EffectiveKind(KindOf[s])]
    IN  IF RequestOf[s] = {} THEN supported
        ELSE IF RequestOf[s] \subseteq supported THEN RequestOf[s] ELSE {}

\* Mutant: a degraded scanner counts as a success.
TerminalStatusForgiving(res) ==
    LET usable == {n \in Scanners : res[n] \in Usable}
        lost == {n \in Scanners : res[n] \in {"failed", "skipped"}}
    IN  IF usable = {} THEN "failed"
        ELSE IF lost # {} THEN "partial" ELSE "completed"

\* Scan.TerminalStatus: what the per-scanner results imply.
TerminalStatus(res) ==
    LET succeeded == {n \in Scanners : res[n] = "succeeded"}
        degraded == {n \in Scanners : res[n] \notin {"none", "succeeded"}}
    IN  IF succeeded = {} THEN "failed"
        ELSE IF degraded # {} THEN "partial" ELSE "completed"

\* Mutant: missing coverage is reported and not judged.
EvaluateRulesOnly(worstRule, complete) == worstRule

\* policies.Evaluate: the worst breached rule, made worse by missing coverage.
Evaluate(worstRule, complete) ==
    IF ~complete /\ Rank(IncompleteScan) > Rank(worstRule)
    THEN IncompleteScan ELSE worstRule

-----------------------------------------------------------------------------
(* The statements of scans/store. *)

\* Mutant: Finalize without its status clause.
FinalizeRowAlways(s, status, reason) ==
    row' = [row EXCEPT ![s].status = status, ![s].reason = reason]

\* Finalize on a scan that is already terminal updates no row.
FinalizeRow(s, status, reason) ==
    row' = IF row[s].status \in ActiveStatuses
           THEN [row EXCEPT ![s].status = status, ![s].reason = reason]
           ELSE row

\* Mutants: the WHERE clause accepts a running, or a terminal, scan.
CanMarkRunningActive(s) == row[s].status \in ActiveStatuses
CanMarkRunningUnlessRunning(s) == row[s].status # "running"

\* MarkRunning: its WHERE clause makes a delivery the owner of a queued scan.
CanMarkRunning(s) == row[s].status = "queued"

\* RecordCheckout, ignored once the scan is terminal.
CheckoutRow(s) ==
    row' = IF row[s].status \in ActiveStatuses
           THEN [row EXCEPT ![s].checkout = TRUE] ELSE row

-----------------------------------------------------------------------------
(* POST /scans. *)

\* The scan row and its audit record, in one transaction.
CreateScan(s) ==
    /\ api[s] = "idle"
    /\ api' = [api EXCEPT ![s] = "created"]
    /\ row' = [row EXCEPT ![s].status = "queued"]
    /\ UNCHANGED <<results, stored, recorded, risk, verdict, queue, loopVars, jobs, faults>>

\* RPUSH acknowledged: 202.  The client's retries may have pushed it twice.
EnqueueOK(s) ==
    /\ api[s] = "created"
    /\ api' = [api EXCEPT ![s] = "accepted"]
    /\ \/ /\ queue' = Append(queue, s)
          /\ NoFault
       \/ /\ queue' = Append(Append(queue, s), s)
          /\ Fault("enqueue_repeated")
    /\ UNCHANGED <<dbVars, loopVars, jobs>>

\* Enqueue returned an error: nothing was pushed, or the push was applied
\* and its reply lost.
EnqueueError(s) ==
    /\ api[s] = "created"
    /\ api' = [api EXCEPT ![s] = "failing"]
    /\ \/ /\ queue' = queue
          /\ Fault("enqueue_refused")
       \/ /\ queue' = Append(queue, s)
          /\ Fault("enqueue_unacked")
    /\ UNCHANGED <<dbVars, loopVars, jobs>>

\* failUnqueuedScan: best effort, then 500.
FailUnqueued(s) ==
    /\ api[s] = "failing"
    /\ api' = [api EXCEPT ![s] = "rejected"]
    /\ \/ FinalizeRow(s, "failed", "not_enqueued") /\ NoFault
       \/ row' = row /\ Fault("db")
    /\ UNCHANGED <<results, stored, recorded, risk, verdict, queue, loopVars, jobs>>

\* The client hangs up after the row was created.  Enqueue and Finalize both
\* run under the request's context, so both fail.
Disconnect(s) ==
    /\ api[s] = "created"
    /\ Fault("disconnect")
    /\ api' = [api EXCEPT ![s] = "rejected"]
    /\ UNCHANGED <<dbVars, queue, loopVars, jobs>>

\* The API process dies inside the handler.
APICrash(s) ==
    /\ api[s] \in {"created", "failing"}
    /\ Fault("api_crash")
    /\ api' = [api EXCEPT ![s] = "dead"]
    /\ UNCHANGED <<dbVars, queue, loopVars, jobs>>

-----------------------------------------------------------------------------
(* Runner.Run. *)

\* BLPOP: the job leaves the queue for good.
Dequeue(w) ==
    /\ loop[w] = "consume"
    /\ queue # <<>>
    /\ queue' = Tail(queue)
    /\ held' = [held EXCEPT ![w] = Head(queue)]
    /\ loop' = [loop EXCEPT ![w] = "holding"]
    /\ UNCHANGED <<dbVars, api, ctx, jobs, faults>>

\* A semaphore slot is free: start executeJob, then test the context again.
StartJob(w, j) ==
    /\ loop[w] = "holding"
    /\ WorkerOf[j] = w
    /\ jobs[j].pc = "free"
    /\ jobs' = [jobs EXCEPT ![j] = [Idle EXCEPT !.pc = "validate", !.scan = held[w]]]
    /\ held' = [held EXCEPT ![w] = NoScan]
    /\ loop' = [loop EXCEPT ![w] = IF ctx[w] = "live" THEN "consume" ELSE "drain"]
    /\ UNCHANGED <<dbVars, api, queue, ctx, faults>>

\* "shutting down before job start": the dequeued job is dropped.
DropJob(w) ==
    /\ loop[w] = "holding"
    /\ ctx[w] = "cancelled"
    /\ held' = [held EXCEPT ![w] = NoScan]
    /\ loop' = [loop EXCEPT ![w] = "drain"]
    /\ UNCHANGED <<dbVars, api, queue, ctx, jobs, faults>>

\* Mutant: the context is tested only between two jobs.
StopConsumingAfterAJob(w) ==
    /\ loop[w] = "consume"
    /\ ctx[w] = "cancelled"
    /\ queue # <<>>
    /\ loop' = [loop EXCEPT ![w] = "drain"]
    /\ UNCHANGED <<dbVars, api, queue, ctx, held, jobs, faults>>

\* The loop condition is false; only the in-flight jobs are left.
StopConsuming(w) ==
    /\ loop[w] = "consume"
    /\ ctx[w] = "cancelled"
    /\ loop' = [loop EXCEPT ![w] = "drain"]
    /\ UNCHANGED <<dbVars, api, queue, ctx, held, jobs, faults>>

\* wg.Wait returns and the process exits.
Drained(w) ==
    /\ loop[w] = "drain"
    /\ \A j \in Slots : WorkerOf[j] = w => jobs[j].pc = "free"
    /\ loop' = [loop EXCEPT ![w] = "down"]
    /\ UNCHANGED <<dbVars, api, queue, ctx, held, jobs, faults>>

\* SIGTERM cancels the root context.
Shutdown(w) ==
    /\ loop[w] # "down"
    /\ ctx[w] = "live"
    /\ Fault("shutdown")
    /\ ctx' = [ctx EXCEPT ![w] = "cancelled"]
    /\ UNCHANGED <<dbVars, api, queue, loop, held, jobs>>

\* The process dies: its goroutines and the job in its hand are gone.
Crash(w) ==
    /\ loop[w] # "down"
    /\ Fault("crash")
    /\ loop' = [loop EXCEPT ![w] = "down"]
    /\ held' = [held EXCEPT ![w] = NoScan]
    /\ jobs' = [j \in Slots |-> IF WorkerOf[j] = w THEN Idle ELSE jobs[j]]
    /\ UNCHANGED <<dbVars, api, queue, ctx>>

\* The deployment restarts a worker that exited.
Restart(w) ==
    /\ loop[w] = "down"
    /\ loop' = [loop EXCEPT ![w] = "consume"]
    /\ ctx' = [ctx EXCEPT ![w] = "live"]
    /\ UNCHANGED <<dbVars, api, queue, held, jobs, faults>>

-----------------------------------------------------------------------------
(* executeJob, in slot j. *)

Live(j) == ctx[WorkerOf[j]] = "live"
JobLive(j) == Live(j) /\ ~jobs[j].expired

\* Mutant: a status the scans table does not know.
FailJobUnknownStatus(j, reason) ==
    jobs' = [jobs EXCEPT ![j].pc = "finalize", ![j].status = "error", ![j].reason = reason]

\* The job goes to its finalize call with this status and reason.
FailJob(j, reason) ==
    jobs' = [jobs EXCEPT ![j].pc = "finalize", ![j].status = "failed", ![j].reason = reason]

\* Mutant: an unresolvable request is logged and dropped.
ValidateDropping(j) ==
    /\ jobs[j].pc = "validate"
    /\ LET s == jobs[j].scan IN
       \/ FailJob(j, "target_invalid")
       \/ Resolve(s) = {} /\ jobs' = [jobs EXCEPT ![j] = Idle]
       \/ /\ Resolve(s) # {}
          /\ jobs' = [jobs EXCEPT ![j].pc = "mark", ![j].todo = Resolve(s)]
    /\ UNCHANGED <<dbVars, api, queue, loopVars, faults>>

\* Validator.Validate and Registry.Resolve, both before the scan is marked.
Validate(j) ==
    /\ jobs[j].pc = "validate"
    /\ LET s == jobs[j].scan IN
       \/ FailJob(j, "target_invalid")
       \/ /\ Resolve(s) = {}
          /\ FailJob(j, IF RequestOf[s] = {} THEN "no_scanner" ELSE "not_registered")
       \/ /\ Resolve(s) # {}
          /\ jobs' = [jobs EXCEPT ![j].pc = "mark", ![j].todo = Resolve(s)]
    /\ UNCHANGED <<dbVars, api, queue, loopVars, faults>>

\* MarkRunning took the scan: this delivery owns it.
MarkRunning(j) ==
    /\ jobs[j].pc = "mark"
    /\ JobLive(j)
    /\ CanMarkRunning(jobs[j].scan)
    /\ row' = [row EXCEPT ![jobs[j].scan].status = "running"]
    /\ jobs' = [jobs EXCEPT ![j].pc = "fetch"]
    /\ UNCHANGED <<results, stored, recorded, risk, verdict, api, queue, loopVars, faults>>

\* MarkRunning failed: the job returns and finalizes nothing.
NotMarked(j) ==
    /\ jobs[j].pc = "mark"
    /\ \/ ~CanMarkRunning(jobs[j].scan) /\ NoFault
       \/ ~JobLive(j) /\ NoFault
       \/ Fault("db")
    /\ jobs' = [jobs EXCEPT ![j] = Idle]
    /\ UNCHANGED <<dbVars, api, queue, loopVars>>

\* No workspace, or the clone failed: nothing was scanned.
FetchFailed(j) ==
    /\ jobs[j].pc = "fetch"
    /\ \/ FailJob(j, "workspace")
       \/ /\ KindOf[jobs[j].scan] = "repository"
          /\ \E reason \in {"fetch_failed", "too_large"} : FailJob(j, reason)
    /\ UNCHANGED <<dbVars, api, queue, loopVars, faults>>

\* The workspace is ready; a repository's revision is recorded if it can be.
Fetched(j) ==
    /\ jobs[j].pc = "fetch"
    /\ jobs' = [jobs EXCEPT ![j].pc = "scan"]
    /\ IF KindOf[jobs[j].scan] = "repository"
       THEN \/ Live(j) /\ CheckoutRow(jobs[j].scan) /\ NoFault
            \/ ~Live(j) /\ row' = row /\ NoFault
            \/ row' = row /\ Fault("db")
       ELSE row' = row /\ NoFault
    /\ UNCHANGED <<results, stored, recorded, risk, verdict, api, queue, loopVars>>

\* runScanner returns.  A subprocess cannot succeed under a context that is
\* already done; a missing binary is noticed either way.
RunScanner(j, n) ==
    /\ jobs[j].pc = "scan"
    /\ n \in jobs[j].todo
    /\ \E out \in Outcomes :
         /\ out \in Usable => JobLive(j)
         /\ jobs' = [jobs EXCEPT ![j].pc = "ingest", ![j].cur = n, ![j].out = out,
                                 ![j].todo = @ \ {n}]
    /\ UNCHANGED <<dbVars, api, queue, loopVars, faults>>

\* The loop's ctx.Err() test after the previous scanner's event: the
\* remaining scanners are not dispatched.
BreakLoop(j) ==
    /\ jobs[j].pc = "scan"
    /\ ~JobLive(j)
    /\ jobs[j].res # NoResults
    /\ jobs' = [jobs EXCEPT ![j].pc = "persist"]
    /\ UNCHANGED <<dbVars, api, queue, loopVars, faults>>

\* What ingest may do with an outcome: the raw output and the scanner's row go
\* to the database, an inventory too if the adapter makes one, and findings
\* are normalized in memory.  An inventory that is absent or does not parse,
\* and output that is empty or does not parse, leave nothing.
Effects(n, out) ==
    {"row"} \union (IF out \notin Usable THEN {} ELSE
        {"raw"} \union (IF n \in Inventoriers THEN {"inventory"} ELSE {})
                \union (IF n \in Normalizers THEN {"findings"} ELSE {}))

\* Which effects land: the raw output and the row always while the context is
\* live, nothing in the database once it is cancelled, any of them when the
\* database fails.
Lands(j, lands) ==
    LET whole == Effects(jobs[j].cur, jobs[j].out) \intersect {"raw", "row"} \subseteq lands
    IN  \/ Live(j) /\ whole /\ NoFault
        \/ Live(j) /\ ~whole /\ Fault("db")
        \/ ~Live(j) /\ lands \subseteq {"findings"} /\ NoFault

\* What is recorded of an outcome: the inventory can add a degradation.
IngestOutcomes(out, lands) ==
    IF out = "succeeded" /\ "inventory" \in lands THEN Usable ELSE {out}

\* Scan.RecordResult and the normalized findings, kept in memory by the job.
Ingested(job, out, lands) ==
    [job EXCEPT !.pc = IF job.todo = {} THEN "persist" ELSE "scan",
                !.cur = NoScanner,
                !.out = "none",
                !.res = [@ EXCEPT ![job.cur] = out],
                !.norm = IF "findings" \in lands THEN @ \union {job.cur} ELSE @]

\* The Scanner event: StoreRaw, recordInventory, Normalize, then
\* Scan.RecordResult and RecordScannerResult.
Ingest(j) ==
    LET s == jobs[j].scan
        n == jobs[j].cur
    IN
    /\ jobs[j].pc = "ingest"
    /\ \E lands \in SUBSET Effects(n, jobs[j].out) :
         /\ Lands(j, lands)
         /\ \E out \in IngestOutcomes(jobs[j].out, lands) :
              /\ results' = IF "row" \in lands
                            THEN [results EXCEPT ![s] = [@ EXCEPT ![n] = out]] ELSE results
              /\ jobs' = [jobs EXCEPT ![j] = Ingested(jobs[j], out, lands)]
         /\ stored' = [stored EXCEPT ![s] =
              [raw |-> IF "raw" \in lands THEN @.raw \union {n} ELSE @.raw,
               sbom |-> IF "inventory" \in lands THEN @.sbom \union {n} ELSE @.sbom]]
    /\ UNCHANGED <<row, recorded, risk, verdict, api, queue, loopVars>>

\* Mutant: truncated output is taken for the whole of it.
CompleteScannersUsable(res) == {n \in Scanners : res[n] \in Usable}

\* The scanners entitled to resolve what they no longer report.
CompleteScanners(res) == {n \in Scanners : res[n] = "succeeded"}

\* persistFindings: RecordScan stored the findings.
PersistFindings(j) ==
    /\ jobs[j].pc = "persist"
    /\ jobs[j].norm # {}
    /\ Live(j)
    /\ recorded' = [recorded EXCEPT ![jobs[j].scan] =
         [done |-> TRUE, resolvers |-> CompleteScanners(jobs[j].res)]]
    /\ jobs' = [jobs EXCEPT ![j].pc = "score"]
    /\ UNCHANGED <<row, results, stored, risk, verdict, api, queue, loopVars, faults>>

\* Nothing normalized, or RecordScan failed: no score, hence no verdict.
NotPersisted(j) ==
    /\ jobs[j].pc = "persist"
    /\ \/ jobs[j].norm = {} /\ NoFault
       \/ ~Live(j) /\ NoFault
       \/ Fault("db")
    /\ jobs' = [jobs EXCEPT ![j].pc = "settle"]
    /\ UNCHANGED <<dbVars, api, queue, loopVars>>

\* correlate (which never fails the job) and score.
Score(j) ==
    /\ jobs[j].pc = "score"
    /\ \/ /\ Live(j)
          /\ risk' = [risk EXCEPT ![jobs[j].scan] = TRUE]
          /\ jobs' = [jobs EXCEPT ![j].pc = "settle", ![j].scored = TRUE]
          /\ NoFault
       \/ /\ (~Live(j) /\ NoFault) \/ Fault("db")
          /\ risk' = risk
          /\ jobs' = [jobs EXCEPT ![j].pc = "settle"]
    /\ UNCHANGED <<row, results, stored, recorded, verdict, api, queue, loopVars>>

\* The terminal status, "cancelled" when the worker is shutting down.
Settle(j) ==
    /\ jobs[j].pc = "settle"
    /\ LET status == IF Live(j) THEN TerminalStatus(jobs[j].res) ELSE "cancelled"
       IN  jobs' = [jobs EXCEPT ![j].pc = "gate", ![j].status = status,
                       ![j].reason = IF status = "failed" THEN "all_degraded" ELSE "none"]
    /\ UNCHANGED <<dbVars, api, queue, loopVars, faults>>

\* Mutant: the gate runs whether or not there is a score.
GateUnscored(j) ==
    /\ jobs[j].pc = "gate"
    /\ Live(j)
    /\ LET complete == jobs[j].status = "completed"
       IN  \E worstRule \in {"pass", "warn", "fail"} :
             verdict' = [verdict EXCEPT ![jobs[j].scan] =
                 [verdict |-> Evaluate(worstRule, complete), complete |-> complete]]
    /\ jobs' = [jobs EXCEPT ![j].pc = "finalize"]
    /\ UNCHANGED <<row, results, stored, recorded, risk, api, queue, loopVars, faults>>

\* gate: the verdict, over whatever the project's live findings breach.
Gate(j) ==
    /\ jobs[j].pc = "gate"
    /\ jobs[j].scored
    /\ Live(j)
    /\ LET complete == jobs[j].status = "completed"
       IN  \E worstRule \in {"pass", "warn", "fail"} :
             verdict' = [verdict EXCEPT ![jobs[j].scan] =
                 [verdict |-> Evaluate(worstRule, complete), complete |-> complete]]
    /\ jobs' = [jobs EXCEPT ![j].pc = "finalize"]
    /\ UNCHANGED <<row, results, stored, recorded, risk, api, queue, loopVars, faults>>

\* No score to judge, no policy to judge it by, or the verdict was not saved.
NoGate(j) ==
    /\ jobs[j].pc = "gate"
    /\ \/ ~jobs[j].scored /\ NoFault
       \/ ~Live(j) /\ NoFault
       \/ Fault("db")
    /\ jobs' = [jobs EXCEPT ![j].pc = "finalize"]
    /\ UNCHANGED <<dbVars, api, queue, loopVars>>

\* Mutant: finalize under the worker's own context.
FinalizeUnderContext(j) ==
    /\ jobs[j].pc = "finalize"
    /\ \/ Live(j) /\ FinalizeRow(jobs[j].scan, jobs[j].status, jobs[j].reason) /\ NoFault
       \/ ~Live(j) /\ row' = row /\ NoFault
       \/ row' = row /\ Fault("db")
    /\ jobs' = [jobs EXCEPT ![j] = Idle]
    /\ UNCHANGED <<results, stored, recorded, risk, verdict, api, queue, loopVars>>

\* finalize runs under a context of its own; a failure is only logged.
Finalize(j) ==
    /\ jobs[j].pc = "finalize"
    /\ \/ FinalizeRow(jobs[j].scan, jobs[j].status, jobs[j].reason) /\ NoFault
       \/ row' = row /\ Fault("db")
    /\ jobs' = [jobs EXCEPT ![j] = Idle]
    /\ UNCHANGED <<results, stored, recorded, risk, verdict, api, queue, loopVars>>

\* JobTimeout passes.  Nothing after the executor reads the job's context.
\* Only a target validation slower than the whole job's budget lets it pass
\* before MarkRunning, so that is a fault.
JobDeadline(j) ==
    /\ ~jobs[j].expired
    /\ \/ jobs[j].pc \in {"validate", "mark"} /\ Fault("early_deadline")
       \/ jobs[j].pc \in {"fetch", "scan", "ingest"} /\ NoFault
    /\ jobs' = [jobs EXCEPT ![j].expired = TRUE]
    /\ UNCHANGED <<dbVars, api, queue, loopVars>>

\* A panic ends the goroutine; Run recovers it and releases the slot.
Panic(j) ==
    /\ jobs[j].pc # "free"
    /\ Fault("panic")
    /\ jobs' = [jobs EXCEPT ![j] = Idle]
    /\ UNCHANGED <<dbVars, api, queue, loopVars>>

-----------------------------------------------------------------------------

HandlerStep(s) == EnqueueOK(s) \/ FailUnqueued(s)
HandlerFault(s) == EnqueueError(s) \/ Disconnect(s) \/ APICrash(s)
LoopStep(w) ==
    \/ Dequeue(w) \/ (\E j \in Slots : StartJob(w, j)) \/ DropJob(w)
    \/ StopConsuming(w) \/ Drained(w) \/ Restart(w)
LoopFault(w) == Shutdown(w) \/ Crash(w)
JobStep(j) ==
    \/ Validate(j) \/ MarkRunning(j) \/ NotMarked(j) \/ FetchFailed(j) \/ Fetched(j)
    \/ (\E n \in Scanners : RunScanner(j, n)) \/ BreakLoop(j) \/ Ingest(j)
    \/ PersistFindings(j) \/ NotPersisted(j) \/ Score(j) \/ Settle(j)
    \/ Gate(j) \/ NoGate(j) \/ Finalize(j)
JobFault(j) == JobDeadline(j) \/ Panic(j)

Next ==
    \/ \E s \in Scans : CreateScan(s) \/ HandlerStep(s) \/ HandlerFault(s)
    \/ \E w \in Workers : LoopStep(w) \/ LoopFault(w)
    \/ \E j \in Slots : JobStep(j) \/ JobFault(j)

Spec == Init /\ [][Next]_vars

\* Handlers and goroutines are scheduled, every call they make has a timeout,
\* and an exited worker is restarted.  No fault, deadline or client request
\* is ever owed.
Fairness ==
    /\ \A s \in Scans : WF_vars(HandlerStep(s))
    /\ \A w \in Workers : WF_vars(LoopStep(w))
    /\ \A j \in Slots : WF_vars(JobStep(j))

\* Next without what ends a process, a goroutine or a request for good: the
\* behaviours the liveness properties are about.
ServedNext ==
    \/ \E s \in Scans : CreateScan(s) \/ EnqueueOK(s)
    \/ \E w \in Workers : LoopStep(w) \/ Shutdown(w)
    \/ \E j \in Slots : JobStep(j) \/ JobDeadline(j)

FairSpec == Init /\ [][ServedNext]_vars /\ Fairness

-----------------------------------------------------------------------------
(* Safety. *)

\* At most one delivery is between MarkRunning and its finalize call for a
\* scan, however often Redis delivered the job (store.MarkRunning's WHERE).
SingleOwner ==
    \A i, j \in Slots :
        /\ jobs[i].pc \in OwnerPCs
        /\ jobs[j].pc \in OwnerPCs
        /\ jobs[i].scan = jobs[j].scan
        => i = j

\* A scan reported COMPLETED has no scanner row that failed, was skipped or
\* was degraded, whoever finalized it ("a scan in which any scanner failed
\* must never be reported as a clean, complete scan", scans/scan.go).
CompletedIsWhole ==
    \A s \in Scans : row[s].status = "completed" =>
        \A n \in Scanners : results[s][n] \in {"none", "succeeded"}

\* A stored PASS was computed over a scan none of whose scanners is on
\* record as failed, skipped or degraded, at the time and ever after.
PassIsWhole ==
    \A s \in Scans : verdict[s].verdict = "pass" =>
        \A n \in Scanners : results[s][n] \in {"none", "succeeded"}

\* findings.RecordScan is never told that a scanner may resolve findings when
\* the scanner's stored row says it failed, was skipped or was degraded.
ResolversSucceeded ==
    \A s \in Scans : \A n \in recorded[s].resolvers :
        results[s][n] \in {"none", "succeeded"}

\* The gate never judges what was not scored, and nothing is scored whose
\* findings were not recorded: runner.score hands its inputs to runner.gate.
JudgedWasScored ==
    \A s \in Scans :
        /\ verdict[s].verdict # "none" => risk[s]
        /\ risk[s] => recorded[s].done

\* A failure reason is stored exactly for the failed scans, on every path of
\* executeJob and of the API's failUnqueuedScan.
FailedHasReason ==
    \A s \in Scans : row[s].status = "failed" <=> row[s].reason # "none"

\* "A scan that is not completed produces at least WARN" (docs, policy.md), as
\* far as it goes: the delivery that owns a scan never settles it against the
\* PASS it stored, so a failed scan with a PASS was failed by somebody else, the
\* API that lost an enqueue's reply or a second delivery's target validation.
PassOutlived ==
    \A s \in Scans : verdict[s].verdict = "pass" /\ row[s].status \in TerminalStatuses =>
        \/ row[s].status = "completed"
        \/ row[s].reason \in {"not_enqueued", "target_invalid"}

\* Nothing rewrites the row of a terminal scan: not a duplicate delivery, a
\* late checkout, or a second finalize (the WHERE clauses of scans/store).
TerminalFrozen ==
    [][\A s \in Scans :
         row[s].status \in TerminalStatuses => row'[s] = row[s]]_vars

\* The abstract state machine, of which the status column is the state.
Contract == INSTANCE ScanContract WITH status <- [s \in Scans |-> row[s].status]

\* Every change of scans.status that the API and the workers make between
\* them is one that allowedTransitions (scans/scan.go) permits.
ImplementsContract == Contract!Spec

-----------------------------------------------------------------------------
(* Liveness, under FairSpec. *)

Settled(s) == row[s].status \in TerminalStatuses

\* A scan that reached RUNNING is finalized, through deadlines, duplicate
\* deliveries and worker shutdowns ("Finalization must survive job
\* cancellation, or a cancelled scan would be left stuck in RUNNING forever",
\* runner.finalize).  Not promised when the database fails or a process dies.
RunningSettles ==
    \A s \in Scans : row[s].status = "running" ~> Settled(s)

\* A worker told to stop drains its jobs and exits.
ShutdownCompletes ==
    \A w \in Workers : ctx[w] = "cancelled" ~> loop[w] = "down"

\* An accepted scan reaches a terminal status unless a fault strikes: no
\* selection, deadline, full worker or interleaving of jobs loses it.
AcceptedSettles ==
    \A s \in Scans : api[s] = "accepted" ~> Settled(s) \/ faults > 0

-----------------------------------------------------------------------------
(* What the documentation says and the code does not do. *)

\* "An incomplete scan can never pass": a PASS means that every selected
\* scanner is on record as having succeeded.
PassMeansAllSelected ==
    \A s \in Scans : verdict[s].verdict = "pass" =>
        \A n \in Resolve(s) : results[s][n] = "succeeded"
=============================================================================
