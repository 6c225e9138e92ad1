------------------------------ MODULE Adapters ------------------------------
(***************************************************************************)
(* The scanner adapters of one worker process: how a job turns a target    *)
(* into one scanner's result.  Each job clones if it has to, asks the tool *)
(* for its version, runs it through scanners.Run (a process group with a   *)
(* deadline and a limit on its output), and accepts, redacts or refuses    *)
(* what came back.  Jobs run concurrently and share ZAP's home directory,  *)
(* the vulnerability databases and the rules provisioned at startup.       *)
(* ScanLifecycle has the loop over a job's scanners; here a job runs one.  *)
(*                                                                         *)
(* The tools are external: they may write anything, exit with anything,    *)
(* leave any report and never come back; a tool that exits by itself has   *)
(* waited for its helpers.                                                 *)
(***************************************************************************)
EXTENDS Naturals, Sequences, FiniteSets

CONSTANTS
    Jobs,       \* the worker's concurrent jobs
    Plans,      \* which adapter each job runs, [Jobs -> Adapters \union {"none"}]
    Rulesets    \* semgrep's rulesets, in the order they are downloaded

Adapters == {"gitleaks", "grype", "semgrep", "syft", "trivy_fs", "trivy_image", "zap"}

None == "none"

ASSUME AdaptersAssumption ==
    /\ Plans \subseteq [Jobs -> Adapters \union {"none"}]
    /\ None \notin Jobs
    /\ Len(Rulesets) \in Nat \ {0} /\ DOMAIN Rulesets = 1..Len(Rulesets)

VARIABLES
    plan,     \* the adapter of each job
    ready,    \* Registry.Provision has returned and jobs are claimed
    rules,    \* rulesets in semgrep's rules directory
    db,       \* the state of each vulnerability database a job consults
    step,     \* where each job is
    jctx,     \* its context: live, past its deadline, or cancelled
    sctx,     \* the context of its Scan, derived from jctx
    run,      \* the scanners.Run in progress
    home,     \* the job that holds ZAP's home directory, if any
    dirs,     \* directories the job has made
    scanned,  \* what the scanning invocation came to
    result    \* the Execution the job reports

vars == <<plan, ready, rules, db, step, jctx, sctx, run, home, dirs, scanned, result>>
shared == <<plan, ready, rules, db>>

Ctx == {"live", "deadline", "canceled"}
DBStates == {"absent", "fresh", "stale", "undated", "invalid"}

\* Steps that wait for a subprocess, and the others.
Subprocess == {"clone", "head", "branch", "version", "probe", "scan", "dbage", "inventory"}
Steps == Subprocess \union {"idle", "measure", "prepare", "accept", "finish", "done"}

\* A report: "bad" is what the validators refuse (cut off, another tool's, too
\* long a list), "over" a file beyond the cap.
Reports == {"none", "empty", "bad", "whole", "over"}

\* Where a report may carry the target's own content: in a field redaction
\* rewrites, in one it misses but the check names, or as a workspace path.
Leaks == {"listed", "moved", "path"}

Degradations == {"output_truncated", "stale_db", "unknown_db"}
RunErrors == {"ok", "missing", "too_large", "timeout", "cancelled", "exit"}
Errors == {"", "not_installed", "timeout", "too_large", "cancelled", "failed",
           "fetch_failed", "target_too_large", "workspace_unavailable"}

NoRun == [on |-> FALSE, alive |-> {}, err |-> "live", truncated |-> FALSE, exit |-> "none",
          report |-> "none", leak |-> {}]
Started(alive, exit, err) ==
    [on |-> TRUE, alive |-> alive, err |-> err, truncated |-> FALSE, exit |-> exit,
     report |-> "none", leak |-> {}]
NotScanned == [err |-> "ok", report |-> "none", leak |-> {}, truncated |-> FALSE,
               interrupted |-> FALSE, basis |-> "none", rules |-> {}, degr |-> {}]
Unstored(status, error, degr) ==
    [status |-> status, error |-> error, degr |-> degr, leak |-> {}, stored |-> FALSE,
     inventory |-> FALSE]
NoResult == Unstored("none", "", {})

\* Only what the jobs at hand use is provisioned here: each adapter's data is
\* its own.
Database(a) == IF a = "grype" THEN "grype" ELSE "trivy"
Consulted == {Database(plan[j]) : j \in {k \in Jobs : plan[k] \in {"grype", "trivy_image"}}}
Wanted == IF \E j \in Jobs : plan[j] = "semgrep" THEN Rulesets ELSE <<>>

RunType ==
    [on : BOOLEAN, alive : SUBSET {"leader", "helper"}, err : Ctx, truncated : BOOLEAN,
     exit : {"none", "zero", "fail", "killed", "interrupted", "unstarted", "missing"},
     report : Reports, leak : SUBSET Leaks]
ScannedType ==
    [err : RunErrors, report : Reports, leak : SUBSET Leaks, truncated : BOOLEAN,
     interrupted : BOOLEAN, basis : DBStates \union {"none"},
     rules : SUBSET {Rulesets[i] : i \in DOMAIN Rulesets}, degr : SUBSET Degradations]
ResultType ==
    [status : {"none", "succeeded", "failed", "skipped"}, error : Errors,
     degr : SUBSET Degradations, leak : SUBSET Leaks, stored : BOOLEAN, inventory : BOOLEAN]

TypeOK ==
    /\ plan \in Plans
    /\ ready \in BOOLEAN
    /\ rules \subseteq {Rulesets[i] : i \in DOMAIN Rulesets}
    /\ db \in [Consulted -> DBStates]
    /\ step \in [Jobs -> Steps]
    /\ jctx \in [Jobs -> Ctx]
    /\ sctx \in [Jobs -> Ctx]
    /\ run \in [Jobs -> RunType]
    /\ home \in Jobs \union {None}
    /\ dirs \in [Jobs -> SUBSET {"workspace", "checkout", "report", "run"}]
    /\ scanned \in [Jobs -> ScannedType]
    /\ result \in [Jobs -> ResultType]

Init ==
    /\ plan \in Plans
    /\ ready = FALSE
    /\ rules \in {{}, {Wanted[i] : i \in DOMAIN Wanted}}
    /\ db \in [Consulted -> DBStates]
    /\ \A a \in Consulted : db[a] = "invalid" => a = "grype"   \* only grype says so
    /\ step = [j \in Jobs |-> IF plan[j] = "none" THEN "done" ELSE "idle"]
    /\ jctx = [j \in Jobs |-> "live"]
    /\ sctx = [j \in Jobs |-> "live"]
    /\ run = [j \in Jobs |-> NoRun]
    /\ home = None
    /\ dirs = [j \in Jobs |-> {}]
    /\ scanned = [j \in Jobs |-> NotScanned]
    /\ result = [j \in Jobs |-> NoResult]

-----------------------------------------------------------------------------
(* The worker starts: Registry.Provision *)

\* semgrep stops at the first ruleset it cannot fetch and keeps those it has.
FetchRuleset(n) == {Wanted[i] : i \in 1..n}
SemgrepProvision == {rules \union FetchRuleset(n) : n \in 0..Len(Wanted)}

\* A database that is not refreshed stays as it was; trivy fetches its checks
\* first and its database only after them.
GrypeProvision == {db["grype"], "fresh"}
TrivyProvision == {IF checks /\ data THEN "fresh" ELSE db["trivy"] : checks, data \in BOOLEAN}

\* Registry.Provision: before any job is claimed.  A failure is logged and the
\* adapter stays registered.
Provision ==
    /\ ~ready
    /\ ready' = TRUE
    /\ rules' \in SemgrepProvision
    /\ db' \in {d \in [Consulted -> DBStates] :
                  \A a \in Consulted : d[a] \in IF a = "grype" THEN GrypeProvision ELSE TrivyProvision}
    /\ UNCHANGED <<plan, step, jctx, sctx, run, home, dirs, scanned, result>>

\* Time passes: a database grows older than maxDBAge.
Age ==
    /\ ready
    /\ \E a \in DOMAIN db : db[a] = "fresh" /\ db' = [db EXCEPT ![a] = "stale"]
    /\ UNCHANGED <<plan, ready, rules, step, jctx, sctx, run, home, dirs, scanned, result>>

-----------------------------------------------------------------------------
(* scanners.Run *)

Fetched(j) == plan[j] \notin {"trivy_image", "zap"}

\* The context an invocation is given: Scan and what it calls get scanCtx.
Parent(j) == IF step[j] \in {"clone", "head", "branch", "version"} THEN jctx[j] ELSE sctx[j]

\* What the tool may leave behind at this step.
MayReport(j) ==
    CASE step[j] = "scan" /\ plan[j] = "gitleaks" -> {"none", "empty", "bad", "whole"}
      [] step[j] = "scan" /\ plan[j] = "zap" -> {"none", "bad", "whole", "over"}
      [] step[j] = "scan" /\ plan[j] \notin {"gitleaks", "zap"} -> {"bad", "whole"}
      [] step[j] = "dbage" -> {"bad", "whole"}
      [] OTHER -> {"none"}

LeakOf(a) ==
    CASE a \in {"gitleaks", "zap"} -> {"listed"}
      [] a = "semgrep" -> {"listed", "path"}
      [] a = "syft" -> {"path"}
      [] a = "trivy_fs" -> {"listed", "moved", "path"}
      [] a = "trivy_image" -> {"listed", "moved"}
      [] OTHER -> {}
MayLeak(j) == IF step[j] = "scan" THEN LeakOf(plan[j]) ELSE {}

\* Without rules or a database the tool exits with an error.
Usable(j) ==
    /\ plan[j] = "semgrep" => rules # {}
    /\ plan[j] \in {"grype", "trivy_image"} => db[Database(plan[j])] # "absent"

\* ZAP is started only by the job that holds the home directory.
HoldsHome(j) ==
    plan[j] = "zap" /\ step[j] \in {"version", "probe", "scan"} => home = j

Launchable(j) == step[j] \in Subprocess /\ ~run[j].on /\ HoldsHome(j)

\* LookPath, then a process group of its own for the tool and its helpers; exec
\* starts nothing when the context is already done.
Launch(j) ==
    /\ Launchable(j)
    /\ \/ run' = [run EXCEPT ![j] = Started({}, "missing", "live")]
       \/ /\ Parent(j) = "live"
          /\ run' = [run EXCEPT ![j] = Started({"leader", "helper"}, "none", "live")]
       \/ /\ Parent(j) # "live"
          /\ run' = [run EXCEPT ![j] = Started({}, "unstarted", Parent(j))]
    /\ UNCHANGED <<shared, step, jctx, sctx, home, dirs, scanned, result>>

Running(j) == run[j].on /\ "leader" \in run[j].alive

\* A context keeps the first reason it was given.
Ended(was, why) == IF was = "live" THEN why ELSE was

\* limitedBuffer on stdout: the excess is dropped and runCtx cancelled.
StdoutOver(j) ==
    /\ Running(j) /\ ~run[j].truncated
    /\ run' = [run EXCEPT ![j] = [run[j] EXCEPT !.truncated = TRUE,
                                                 !.err = Ended(run[j].err, "canceled")]]
    /\ UNCHANGED <<shared, step, jctx, sctx, home, dirs, scanned, result>>

\* The smaller limit on stderr cancels too, but leaves no mark.
StderrOver(j) ==
    /\ Running(j) /\ run[j].err = "live"
    /\ run' = [run EXCEPT ![j] = [run[j] EXCEPT !.err = "canceled"]]
    /\ UNCHANGED <<shared, step, jctx, sctx, home, dirs, scanned, result>>

\* Mutant: an invocation is bounded by its caller's context only.
RunUnbounded(j) ==
    /\ Running(j) /\ run[j].err = "live" /\ Parent(j) = "deadline"
    /\ run' = [run EXCEPT ![j] = [run[j] EXCEPT !.err = "deadline"]]
    /\ UNCHANGED <<shared, step, jctx, sctx, home, dirs, scanned, result>>

\* The invocation's own timeout.
RunTimesOut(j) ==
    /\ Running(j) /\ run[j].err = "live"
    /\ run' = [run EXCEPT ![j] = [run[j] EXCEPT !.err = "deadline"]]
    /\ UNCHANGED <<shared, step, jctx, sctx, home, dirs, scanned, result>>

\* The tool exits on its own.  If its context had ended, the signal may still
\* have found it a zombie, and Wait then reports the context's error.
ToolExits(j) ==
    /\ Running(j)
    /\ \E exit \in {"zero", "fail"} \union (IF run[j].err = "live" THEN {} ELSE {"interrupted"}),
         report \in MayReport(j) :
         /\ step[j] = "scan" /\ ~Usable(j) => exit = "fail"
         /\ \E leak \in IF report = "whole" THEN SUBSET MayLeak(j) ELSE {{}} :
              run' = [run EXCEPT ![j] = [run[j] EXCEPT !.alive = {}, !.exit = exit, !.report = report,
                                                       !.leak = leak]]
    /\ UNCHANGED <<shared, step, jctx, sctx, home, dirs, scanned, result>>

\* Mutant: the signal goes to the direct child only.
KillLeader(j) ==
    /\ Running(j) /\ run[j].err # "live"
    /\ \E report \in MayReport(j) :
         run' = [run EXCEPT ![j] = [run[j] EXCEPT !.alive = run[j].alive \ {"leader"}, !.exit = "killed",
                                                  !.report = report]]
    /\ UNCHANGED <<shared, step, jctx, sctx, home, dirs, scanned, result>>

\* killProcessGroup: the whole group, whatever had been written by then.
KillGroup(j) ==
    /\ Running(j) /\ run[j].err # "live"
    /\ \E report \in MayReport(j) :
         run' = [run EXCEPT ![j] = [run[j] EXCEPT !.alive = {}, !.exit = "killed", !.report = report]]
    /\ UNCHANGED <<shared, step, jctx, sctx, home, dirs, scanned, result>>

\* Run returns when the direct child is gone.
Returned(j) == run[j].on /\ "leader" \notin run[j].alive

\* How Run classifies what happened: truncation first, it is what cancelled;
\* "canceled" is asked of the caller's context.
Classify(j, canceled) ==
    LET r == run[j]
        AllowNonZeroExit == step[j] = "scan" /\ plan[j] = "gitleaks"
    IN  IF r.exit = "missing" THEN "missing"
        ELSE IF r.truncated THEN "too_large"
        ELSE IF r.err = "deadline" THEN "timeout"
        ELSE IF canceled \/ r.exit \in {"interrupted", "unstarted"} THEN "cancelled"
        ELSE IF r.exit \in {"fail", "killed"} /\ ~AllowNonZeroExit THEN "exit"
        ELSE "ok"

\* Mutant: the run's own context is asked whether the job was cancelled.
RunErrorOwnContext(j) == Classify(j, run[j].err = "canceled")

RunError(j) == Classify(j, Parent(j) = "canceled")

\* What Run leaves: a helper that was not killed lives on.
Reaped(j) == [NoRun EXCEPT !.alive = run[j].alive]

-----------------------------------------------------------------------------
(* The contexts *)

\* The steps at which a context is looked at.
Heeding(j) == step[j] \in Subprocess \union {"prepare"}

\* A running tool is told.
Told(j, why) ==
    IF Running(j) THEN [run EXCEPT ![j] = [run[j] EXCEPT !.err = Ended(run[j].err, why)]] ELSE run

\* The job is cancelled or out of time; what derives from its context ends too.
JobContextEnds(j) ==
    /\ Heeding(j)
    /\ jctx[j] = "live"
    /\ \E why \in {"deadline", "canceled"} :
         /\ jctx' = [jctx EXCEPT ![j] = why]
         /\ sctx' = [sctx EXCEPT ![j] = Ended(@, why)]
         /\ run' = Told(j, why)
    /\ UNCHANGED <<shared, step, home, dirs, scanned, result>>

\* The worker's per-scanner timeout, around Scan.
ScanTimesOut(j) ==
    /\ Heeding(j) /\ step[j] \notin {"clone", "head", "branch", "version"}
    /\ sctx[j] = "live"
    /\ sctx' = [sctx EXCEPT ![j] = "deadline"]
    /\ run' = Told(j, "deadline")
    /\ UNCHANGED <<shared, step, jctx, home, dirs, scanned, result>>

-----------------------------------------------------------------------------
(* InProcess.Execute: the workspace and the checkout *)

Goto(j, s) == step' = [step EXCEPT ![j] = s]

\* Execute returns Fatal; its deferred cleanup still removes the workspace.
Fatal(j, reason) ==
    /\ result' = [result EXCEPT ![j] = [result[j] EXCEPT !.error = reason]]
    /\ Goto(j, "finish")

Begin(j) ==
    /\ ready /\ step[j] = "idle"
    /\ \/ /\ dirs' = [dirs EXCEPT ![j] = {"workspace"}]
          /\ Goto(j, IF Fetched(j) THEN "clone" ELSE "version")
          /\ UNCHANGED result
       \/ Fatal(j, "workspace_unavailable") /\ UNCHANGED dirs
    /\ UNCHANGED <<shared, jctx, sctx, run, home, scanned>>

\* clone: a missing git, a timeout or an exit code are the same failure.
CloneFailed(j) == RunError(j) # "ok"

\* Repository removes a partial checkout.
CloneReturns(j) ==
    /\ step[j] = "clone" /\ Returned(j)
    /\ run' = [run EXCEPT ![j] = Reaped(j)]
    /\ IF CloneFailed(j)
         THEN Fatal(j, "fetch_failed") /\ UNCHANGED dirs
         ELSE /\ dirs' = [dirs EXCEPT ![j] = @ \union {"checkout"}]
              /\ Goto(j, "measure")
              /\ UNCHANGED result
    /\ UNCHANGED <<shared, jctx, sctx, home, scanned>>

\* measure stops at the first breach of a limit; it may also fail to read.
Measure(j) ==
    /\ step[j] = "measure"
    /\ \/ Goto(j, "head") /\ UNCHANGED <<dirs, result>>
       \/ /\ dirs' = [dirs EXCEPT ![j] = @ \ {"checkout"}]
          /\ \E reason \in {"target_too_large", "fetch_failed"} : Fatal(j, reason)
    /\ UNCHANGED <<shared, jctx, sctx, run, home, scanned>>

\* resolveHead and resolveBranch: best effort, one after the other.
HeadReturns(j) ==
    /\ step[j] = "head" /\ Returned(j)
    /\ run' = [run EXCEPT ![j] = Reaped(j)]
    /\ Goto(j, "branch")
    /\ UNCHANGED <<shared, jctx, sctx, home, dirs, scanned, result>>

BranchReturns(j) ==
    /\ step[j] = "branch" /\ Returned(j)
    /\ run' = [run EXCEPT ![j] = Reaped(j)]
    /\ Goto(j, "version")
    /\ UNCHANGED <<shared, jctx, sctx, home, dirs, scanned, result>>

-----------------------------------------------------------------------------
(* runScanner *)

\* lockHome: select chooses freely when the home is free and ctx is done.
LockHome(j) ==
    /\ plan[j] = "zap" /\ step[j] \in {"version", "prepare"}
    /\ home = None
    /\ home' = j
    /\ UNCHANGED <<shared, step, jctx, sctx, run, dirs, scanned, result>>

Released(j) == IF home = j THEN None ELSE home

\* Mutant: the error itself is stored, not a fixed summary.
OutcomeVerbatim(err, degr) == Unstored("failed", err, degr)

\* What runScanner makes of an error, and of the degradations so far.
Outcome(err, degr) ==
    CASE err = "missing" -> Unstored("skipped", "not_installed", degr)
      [] err = "too_large" -> Unstored("failed", "too_large", {"output_truncated"})
      [] err \in {"timeout", "cancelled"} -> Unstored("failed", err, degr)
      [] OTHER -> Unstored("failed", "failed", degr)

\* Scan returns an error: its deferred calls remove its directory and release
\* the home.
ScanFails(j, err, degr) ==
    /\ result' = [result EXCEPT ![j] = Outcome(err, degr)]
    /\ dirs' = [dirs EXCEPT ![j] = @ \ {"report", "run"}]
    /\ home' = Released(j)
    /\ Goto(j, "finish")

\* The wait for the home ends with the context: the probe's error is only
\* logged, Scan's fails it, and a deadline is not ErrExecTimeout.
LockGivesUp(j) ==
    /\ plan[j] = "zap" /\ step[j] \in {"version", "prepare"} /\ home # j /\ ~run[j].on
    /\ \/ /\ step[j] = "version" /\ jctx[j] # "live"
          /\ sctx' = [sctx EXCEPT ![j] = jctx[j]]
          /\ Goto(j, "prepare")
          /\ UNCHANGED <<home, dirs, result>>
       \/ /\ step[j] = "prepare" /\ sctx[j] # "live"
          /\ ScanFails(j, IF sctx[j] = "canceled" THEN "cancelled" ELSE "exit", {})
          /\ UNCHANGED sctx
    /\ UNCHANGED <<shared, jctx, run, scanned>>

\* A missing binary skips the scanner; any other error of the probe is logged.
\* Then scanCtx is made and Scan called.
VersionReturns(j) ==
    /\ step[j] = "version" /\ Returned(j)
    /\ run' = [run EXCEPT ![j] = Reaped(j)]
    /\ home' = Released(j)
    /\ IF RunError(j) = "missing"
         THEN /\ result' = [result EXCEPT ![j] = Outcome("missing", {})]
              /\ Goto(j, "finish")
              /\ UNCHANGED sctx
         ELSE /\ sctx' = [sctx EXCEPT ![j] = jctx[j]]
              /\ Goto(j, "prepare")
              /\ UNCHANGED result
    /\ UNCHANGED <<shared, jctx, dirs, scanned>>

\* newReportDir, and ZAP's directory for its plan and report; semgrep's
\* ensureDirs makes what is there already.
NewDir(a) ==
    CASE a = "gitleaks" -> {"report"}
      [] a = "zap" -> {"run"}
      [] OTHER -> {}
WritesToDisk == {"gitleaks", "zap", "semgrep"}

\* Mutant: the error return forgets to release ZAP's home.
PrepareKeepsHome(j) ==
    /\ step[j] = "prepare"
    /\ plan[j] = "zap" => home = j
    /\ \/ /\ dirs' = [dirs EXCEPT ![j] = @ \union NewDir(plan[j])]
          /\ Goto(j, "probe")
          /\ UNCHANGED result
       \/ /\ plan[j] \in WritesToDisk
          /\ result' = [result EXCEPT ![j] = Outcome("exit", {})]
          /\ Goto(j, "finish")
          /\ UNCHANGED dirs
    /\ UNCHANGED <<shared, jctx, sctx, run, home, scanned>>

\* Scan makes its directories and ZAP's plan file, inside ZAP's turn.
Prepare(j) ==
    /\ step[j] = "prepare"
    /\ plan[j] = "zap" => home = j
    /\ \/ /\ dirs' = [dirs EXCEPT ![j] = @ \union NewDir(plan[j])]
          /\ Goto(j, "probe")
          /\ UNCHANGED <<home, result>>
       \/ plan[j] \in WritesToDisk /\ ScanFails(j, "exit", {})
    /\ UNCHANGED <<shared, jctx, sctx, run, scanned>>

\* Scan asks for the version once more and ignores the error.
ProbeReturns(j) ==
    /\ step[j] = "probe" /\ Returned(j)
    /\ run' = [run EXCEPT ![j] = Reaped(j)]
    /\ Goto(j, "scan")
    /\ UNCHANGED <<shared, jctx, sctx, home, dirs, scanned, result>>

\* What the database says of itself: grype in its report.
Assess(state) ==
    CASE state = "stale" -> {"stale_db"}
      [] state \in {"undated", "absent"} -> {"unknown_db"}
      [] OTHER -> {}

\* The scanning invocation is over.  An image scan asks how old its database
\* is next, even when it failed.
ScannerReturns(j) ==
    /\ step[j] = "scan" /\ Returned(j)
    /\ run' = [run EXCEPT ![j] = Reaped(j)]
    /\ scanned' = [scanned EXCEPT ![j] =
         LET err == RunError(j)
         IN  [err |-> err,
              report |-> IF err = "ok" THEN run[j].report ELSE "none",
              leak |-> IF err = "ok" THEN run[j].leak ELSE {},
              truncated |-> run[j].truncated,
              interrupted |-> run[j].exit = "interrupted",
              basis |-> IF plan[j] \in {"grype", "trivy_image"} THEN db[Database(plan[j])] ELSE "none",
              rules |-> IF plan[j] = "semgrep" THEN rules ELSE {},
              degr |-> IF run[j].truncated THEN {"output_truncated"} ELSE {}]]
    /\ Goto(j, IF plan[j] = "trivy_image" THEN "dbage" ELSE "accept")
    /\ UNCHANGED <<shared, jctx, sctx, home, dirs, result>>

\* Mutant: an unanswered question adds nothing.
DBAgeUnanswered(j) ==
    /\ step[j] = "dbage" /\ Returned(j)
    /\ run' = [run EXCEPT ![j] = Reaped(j)]
    /\ scanned' = [scanned EXCEPT ![j] = [scanned[j] EXCEPT !.degr = scanned[j].degr \union
         IF RunError(j) # "ok" \/ run[j].report = "bad" THEN {} ELSE Assess(db["trivy"])]]
    /\ Goto(j, "accept")
    /\ UNCHANGED <<shared, jctx, sctx, home, dirs, result>>

\* assessDatabase: no answer, or none that parses, is not a fresh database.
DBAgeReturns(j) ==
    /\ step[j] = "dbage" /\ Returned(j)
    /\ run' = [run EXCEPT ![j] = Reaped(j)]
    /\ scanned' = [scanned EXCEPT ![j] = [scanned[j] EXCEPT !.degr = scanned[j].degr \union
         IF RunError(j) # "ok" \/ run[j].report = "bad" THEN {"unknown_db"}
         ELSE Assess(db["trivy"])]]
    /\ Goto(j, "accept")
    /\ UNCHANGED <<shared, jctx, sctx, home, dirs, result>>

\* The rest of each adapter's Scan: what it keeps, and what it refuses with
\* which degradations.  A leak rebuilds the result, degradations and all.
Keep(degr, leak) == [err |-> "ok", degr |-> degr, leak |-> leak]
FailWith(err, degr) == [err |-> err, degr |-> degr, leak |-> {}]
Refuse(degr) == FailWith("exit", degr)
Discard == Refuse({})

\* validateReport and validateSBOM.
Valid(o) == o.report = "whole"

\* gitleaks writes an empty file when it has nothing to report.
ParseReport(o) == o.report \in {"empty", "whole"}
AssertRedacted(leak) == leak \intersect {"listed", "moved"} = {}

GitleaksScan(o) ==
    IF ~ParseReport(o) THEN Refuse(o.degr)
    ELSE IF AssertRedacted(o.leak) THEN Keep(o.degr, o.leak) ELSE Discard

\* grype's database is assessed from its report before the report is accepted.
InvalidDatabase(o) == o.basis = "invalid"

GrypeScan(o) ==
    LET degr == o.degr \union Assess(db["grype"])
    IN  IF ~Valid(o) THEN Refuse(o.degr)
        ELSE IF InvalidDatabase(o) THEN Refuse(degr) ELSE Keep(degr, o.leak)

AssertNoMatchedSource(leak) == leak \intersect {"listed", "moved"} = {}
AssertNoWorkspacePaths(leak) == "path" \notin leak

SemgrepScan(o) ==
    IF ~Valid(o) THEN Refuse(o.degr)
    ELSE IF AssertNoMatchedSource(o.leak) /\ AssertNoWorkspacePaths(o.leak)
           THEN Keep(o.degr, o.leak) ELSE Discard

SyftScan(o) ==
    IF ~Valid(o) THEN Refuse(o.degr)
    ELSE IF AssertNoWorkspacePaths(o.leak) THEN Keep(o.degr, o.leak) ELSE Discard

\* trivy rewrites the source-bearing fields of what looks like a line, then
\* looks for those fields anywhere.
RedactSourceContent(leak) == leak \ {"listed"}

\* Mutant: the redaction is trusted.
TrustedRedaction(leak) == TRUE

AssertNoSourceContent(leak) == leak \intersect {"listed", "moved"} = {}

TrivyScan(o) ==
    LET left == RedactSourceContent(o.leak)
    IN  IF ~Valid(o) THEN Refuse(o.degr)
        ELSE IF AssertNoSourceContent(left) /\ AssertNoWorkspacePaths(left)
               THEN Keep(o.degr, left) ELSE Discard

\* ZAP's redaction and its check walk the same fields of every object.
RedactTargetContent(leak) == leak \ {"listed", "moved"}
AssertNoTargetContent(leak) == leak \intersect {"listed", "moved"} = {}

ZapScan(o) ==
    LET left == RedactTargetContent(o.leak)
    IN  IF o.report = "over" THEN Refuse(o.degr \union {"output_truncated"})
        ELSE IF ~Valid(o) THEN Refuse(o.degr)
        ELSE IF AssertNoTargetContent(left) THEN Keep(o.degr, left) ELSE Discard

Scan(a, o) ==
    CASE a = "gitleaks" -> GitleaksScan(o)
      [] a = "grype" -> GrypeScan(o)
      [] a = "semgrep" -> SemgrepScan(o)
      [] a = "syft" -> SyftScan(o)
      [] a \in {"trivy_fs", "trivy_image"} -> TrivyScan(o)
      [] a = "zap" -> ZapScan(o)

Stored(r) ==
    [status |-> "succeeded", error |-> "", degr |-> r.degr, leak |-> r.leak, stored |-> TRUE,
     inventory |-> FALSE]

\* Scan returns, and runScanner's switch on what it returned; trivy is asked for
\* an image's inventory next.
Accept(j) ==
    LET o == scanned[j]
        r == IF o.err = "ok" THEN Scan(plan[j], o) ELSE FailWith(o.err, o.degr)
    IN  /\ step[j] = "accept"
        /\ \/ r.err # "ok" /\ ScanFails(j, r.err, r.degr)
           \/ /\ r.err = "ok"
              /\ result' = [result EXCEPT ![j] = Stored(r)]
              /\ dirs' = [dirs EXCEPT ![j] = @ \ {"report", "run"}]
              /\ home' = Released(j)
              /\ Goto(j, IF plan[j] = "trivy_image" THEN "inventory" ELSE "finish")
        /\ UNCHANGED <<shared, jctx, sctx, run, scanned>>

\* ScanInventory: a second invocation, whose failure costs only the inventory.
InventoryReturns(j) ==
    /\ step[j] = "inventory" /\ Returned(j)
    /\ run' = [run EXCEPT ![j] = Reaped(j)]
    /\ result' = [result EXCEPT ![j] = [result[j] EXCEPT !.inventory = RunError(j) = "ok"]]
    /\ Goto(j, "finish")
    /\ UNCHANGED <<shared, jctx, sctx, home, dirs, scanned>>

\* Execute returns and removes the workspace with all that is in it.
Finish(j) ==
    /\ step[j] = "finish"
    /\ dirs' = [dirs EXCEPT ![j] = @ \ {"workspace", "checkout", "report"}]
    /\ Goto(j, "done")
    /\ UNCHANGED <<shared, jctx, sctx, run, home, scanned, result>>

-----------------------------------------------------------------------------

Tool(j) == StdoutOver(j) \/ StderrOver(j) \/ ToolExits(j)

Code(j) ==
    \/ Begin(j) \/ Launch(j) \/ KillGroup(j) \/ RunTimesOut(j)
    \/ CloneReturns(j) \/ Measure(j) \/ HeadReturns(j) \/ BranchReturns(j)
    \/ LockGivesUp(j) \/ VersionReturns(j) \/ Prepare(j) \/ ProbeReturns(j)
    \/ ScannerReturns(j) \/ DBAgeReturns(j) \/ Accept(j) \/ InventoryReturns(j) \/ Finish(j)

Next ==
    \/ Provision \/ Age
    \/ \E j \in Jobs : Tool(j) \/ Code(j) \/ LockHome(j) \/ JobContextEnds(j) \/ ScanTimesOut(j)

Spec == Init /\ [][Next]_vars

\* The worker's goroutines and timers run; the tools owe nothing,
\* not even to exit.
FairSpec == Spec /\ WF_vars(Provision) /\ \A j \in Jobs : WF_vars(Code(j)) /\ WF_vars(LockHome(j))

-----------------------------------------------------------------------------
(* Properties *)

\* What is kept of a tool that reports success is all it had to say and nothing
\* of the target's own: through kills, limits and exits, a result is stored only
\* from a report that was written in full and checked after redaction.  The one
\* other source is a gitleaks report that is empty, which the parser reads as
\* "nothing found" whatever the exit code was.
StoredIsFit ==
    \A j \in Jobs : result[j].stored =>
        /\ result[j].status = "succeeded" /\ result[j].leak = {}
        /\ ~scanned[j].truncated
        /\ scanned[j].report = "whole" \/ (scanned[j].report = "empty" /\ plan[j] = "gitleaks")

\* A vulnerability scan that carries no degradation used a database that was
\* fresh while it scanned, however its age was asked for and answered.
FreshOrFlagged ==
    \A j \in Jobs :
        plan[j] \in {"grype", "trivy_image"} /\ result[j].status = "succeeded" /\ result[j].degr = {}
            => scanned[j].basis = "fresh"

\* A result that reads as good is good: all of it, redacted, and from data that
\* was fresh or is flagged.
ResultsAreFit == StoredIsFit /\ FreshOrFlagged

\* One ZAP at a time in the home directory, helpers included: neither a version
\* probe nor a scan starts beside another job's, dead or alive.
HomeIsExclusive ==
    Cardinality({j \in Jobs : plan[j] = "zap" /\ run[j].alive # {}}) <= 1

\* The two causes the executor infers from a flag or a context, "too_large" and
\* "cancelled", are the true ones.  A truncated output is reported as that and
\* as nothing else; "cancelled" means the job was, except when the context
\* cancelled by a noisy stderr was found just as the tool exited cleanly.
CauseIsTrue ==
    \A j \in Jobs : step[j] \in {"inventory", "finish", "done"} =>
        /\ result[j].error = "too_large" <=> scanned[j].truncated
        /\ result[j].error = "cancelled" => jctx[j] = "canceled" \/ scanned[j].interrupted

\* A job that is over leaves nothing behind: no directory, no process, and not
\* ZAP's home, whichever return it took.
NothingLeft ==
    \A j \in Jobs : step[j] = "done" => dirs[j] = {} /\ run[j].alive = {} /\ home # j

\* No job finds what another left: not in ZAP's home while both run, nor
\* anywhere once the other is over.
NothingLingers == TypeOK /\ HomeIsExclusive /\ NothingLeft

\* Every job ends, even when its tool never does and two jobs want ZAP's home.
ScanReturns == \A j \in Jobs : []<>(step[j] = "done")

\* cmd/worker/main.go: after a failed Provision "a scan that needed it then
\* records a failed scanner": a semgrep result without a degradation rests on
\* all of the rulesets.
UnprovisionedIsVisible ==
    \A j \in Jobs :
        plan[j] = "semgrep" /\ result[j].status = "succeeded" /\ result[j].degr = {}
            => scanned[j].rules = {Rulesets[i] : i \in DOMAIN Rulesets}
=============================================================================
