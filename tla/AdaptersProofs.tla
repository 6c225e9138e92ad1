---------------------------- MODULE AdaptersProofs ----------------------------
(***************************************************************************)
(* Proofs about the scanner adapters, for any number of concurrent jobs,   *)
(* any assignment of adapters to them and any rulesets.                    *)
(***************************************************************************)
EXTENDS Adapters, FiniteSetTheorems, TLAPS

-----------------------------------------------------------------------------
(* The inductive invariant, one part per piece of a job's state *)

\* Before the scanning invocation returns, between it and Scan's return, after.
Early == {"idle", "clone", "measure", "head", "branch", "version", "prepare", "probe", "scan"}
Late == {"inventory", "finish", "done"}
Tools == {"grype", "trivy_image"}

\* Which steps a plan reaches, and when.
FlowInv(j) ==
    /\ step[j] \in {"clone", "measure", "head", "branch"} => Fetched(j)
    /\ step[j] \in {"dbage", "inventory"} => plan[j] = "trivy_image"
    /\ step[j] \notin {"idle", "done"} => ready
    /\ plan[j] = "none" => step[j] = "done"

\* A scan is cancelled only by its job.
CtxInv(j) == sctx[j] = "canceled" => jctx[j] = "canceled"

\* The process group lives and dies as one, within the step that waits for it.
RunFit(j, r) ==
    /\ r.alive = {} \/ r.alive = {"leader", "helper"}
    /\ ~r.on => r = NoRun
    /\ r.on => step[j] \in Subprocess
    /\ r.exit # "none" => r.alive = {}
    /\ r.exit \in {"missing", "unstarted"} => ~r.truncated
    /\ r.exit = "unstarted" => r.err = "deadline" \/ (r.err = "canceled" /\ jctx[j] = "canceled")
    /\ step[j] = "scan" => r.leak \subseteq LeakOf(plan[j])

RunInv(j) == RunFit(j, run[j])

\* ZAP's home is held by whoever runs ZAP, and from Prepare to Scan's return.
HomeInv(j) ==
    /\ home = j => /\ plan[j] = "zap"
                   /\ step[j] \in {"version", "prepare", "probe", "scan", "accept"}
    /\ plan[j] = "zap" /\ step[j] \in {"probe", "scan", "accept"} => home = j
    /\ plan[j] = "zap" /\ run[j].on => home = j

DirInv(j) ==
    /\ step[j] \in {"idle", "done"} => dirs[j] = {}
    /\ "run" \in dirs[j] => step[j] \in {"probe", "scan", "dbage", "accept"}

\* What the scanning invocation came to.  The database was read then: since
\* then it can only have aged.
ScanInv(j) ==
    /\ step[j] \in Early => scanned[j] = NotScanned
    /\ scanned[j].truncated <=> scanned[j].err = "too_large"
    /\ scanned[j].err = "cancelled" => jctx[j] = "canceled" \/ scanned[j].interrupted
    /\ scanned[j].leak \subseteq LeakOf(plan[j])
    /\ step[j] \in {"dbage", "accept"} /\ plan[j] \in Tools =>
         \/ scanned[j].basis = db[Database(plan[j])]
         \/ scanned[j].basis = "fresh" /\ db[Database(plan[j])] = "stale"
    /\ step[j] = "accept" /\ plan[j] = "trivy_image" /\ scanned[j].degr = {} =>
         scanned[j].basis = "fresh"

Cause(j) ==
    /\ result[j].error = "too_large" <=> scanned[j].truncated
    /\ result[j].error = "cancelled" => jctx[j] = "canceled" \/ scanned[j].interrupted

Fit(j) ==
    /\ result[j].stored =>
         /\ result[j].status = "succeeded" /\ result[j].leak = {}
         /\ ~scanned[j].truncated
         /\ scanned[j].report = "whole" \/ (scanned[j].report = "empty" /\ plan[j] = "gitleaks")
    /\ plan[j] \in Tools /\ result[j].status = "succeeded" /\ result[j].degr = {} =>
         scanned[j].basis = "fresh"

ResultInv(j) ==
    /\ step[j] \notin Late => result[j] = NoResult
    /\ step[j] \in Late => Cause(j)
    /\ Fit(j)

JobInv(j) ==
    FlowInv(j) /\ CtxInv(j) /\ RunInv(j) /\ HomeInv(j) /\ DirInv(j) /\ ScanInv(j) /\ ResultInv(j)

\* Only grype calls a database invalid.
DBInv == \A a \in Consulted : db[a] = "invalid" => a = "grype"

AdaptersInv == TypeOK /\ DBInv /\ \A j \in Jobs : JobInv(j)

-----------------------------------------------------------------------------
(* A job's steps leave the others alone *)

Only(j) ==
    /\ plan' = plan
    /\ \A k \in Jobs \ {j} :
         /\ step'[k] = step[k] /\ jctx'[k] = jctx[k] /\ sctx'[k] = sctx[k] /\ run'[k] = run[k]
         /\ dirs'[k] = dirs[k] /\ scanned'[k] = scanned[k] /\ result'[k] = result[k]
    /\ \/ home' = home
       \/ home = None /\ home' = j
       \/ home = j /\ home' = None

LEMMA OthersKept ==
  ASSUME AdaptersInv, NEW j \in Jobs, Only(j), UNCHANGED <<ready, db>>,
         NEW k \in Jobs, k # j
  PROVE  JobInv(k)'
  <1>1. JobInv(k) /\ k # None
    BY AdaptersAssumption DEF AdaptersInv
  <1>2. /\ step'[k] = step[k] /\ jctx'[k] = jctx[k] /\ sctx'[k] = sctx[k] /\ run'[k] = run[k]
        /\ dirs'[k] = dirs[k] /\ scanned'[k] = scanned[k] /\ result'[k] = result[k]
        /\ plan' = plan /\ ready' = ready /\ db' = db
    BY DEF Only
  <1>3. home = k <=> home' = k
    BY <1>1 DEF Only
  <1>4. FlowInv(k)' /\ CtxInv(k)'
    BY <1>1, <1>2 DEF JobInv, FlowInv, CtxInv, Fetched
  <1>5. RunInv(k)'
    BY <1>1, <1>2 DEF JobInv, RunInv, RunFit
  <1>6. HomeInv(k)'
    BY <1>1, <1>2, <1>3 DEF JobInv, HomeInv
  <1>7. DirInv(k)'
    BY <1>1, <1>2 DEF JobInv, DirInv
  <1>8. ScanInv(k)'
    BY <1>1, <1>2 DEF JobInv, ScanInv
  <1>9. ResultInv(k)'
    BY <1>1, <1>2 DEF JobInv, ResultInv, Cause, Fit
  <1>10. QED
    BY <1>4, <1>5, <1>6, <1>7, <1>8, <1>9 DEF JobInv

LEMMA Assemble ==
  ASSUME AdaptersInv, NEW j \in Jobs, Only(j), UNCHANGED <<ready, db>>, TypeOK', JobInv(j)'
  PROVE  AdaptersInv'
  <1>1. \A k \in Jobs : JobInv(k)'
    BY OthersKept
  <1>2. DBInv'
    BY DEF Only, AdaptersInv, DBInv, Consulted
  <1>3. QED
    BY <1>1, <1>2 DEF AdaptersInv

-----------------------------------------------------------------------------
(* Steps that change only the invocation *)

RunOnlyStep ==
    UNCHANGED <<plan, ready, rules, db, step, jctx, sctx, home, dirs, scanned, result>>

LEMMA RunOnly ==
  ASSUME AdaptersInv, NEW j \in Jobs, NEW w \in RunType, run' = [run EXCEPT ![j] = w],
         RunOnlyStep, RunFit(j, w), plan[j] = "zap" /\ w.on => home = j
  PROVE  AdaptersInv'
  <1>1. run'[j] = w /\ \A k \in Jobs \ {j} : run'[k] = run[k]
    BY DEF AdaptersInv, TypeOK
  <1>2. TypeOK'
    BY DEF AdaptersInv, TypeOK, RunOnlyStep, Consulted
  <1>3. Only(j)
    BY <1>1 DEF Only, RunOnlyStep
  <1>4. JobInv(j)
    BY DEF AdaptersInv
  <1>5. FlowInv(j)' /\ CtxInv(j)' /\ DirInv(j)'
    BY <1>4 DEF JobInv, FlowInv, CtxInv, DirInv, Fetched, RunOnlyStep
  <1>6. RunInv(j)'
    BY <1>1 DEF RunInv, RunFit, RunOnlyStep
  <1>7. HomeInv(j)'
    BY <1>1, <1>4 DEF JobInv, HomeInv, RunOnlyStep
  <1>8. ScanInv(j)' /\ ResultInv(j)'
    BY <1>4 DEF JobInv, ScanInv, ResultInv, Cause, Fit, RunOnlyStep
  <1>9. JobInv(j)'
    BY <1>5, <1>6, <1>7, <1>8 DEF JobInv
  <1>10. QED
    BY <1>2, <1>3, <1>9, Assemble DEF RunOnlyStep

LEMMA StartedType ==
  ASSUME NEW alive \in SUBSET {"leader", "helper"}, NEW err \in Ctx,
         NEW exit \in {"none", "unstarted", "missing"}
  PROVE  Started(alive, exit, err) \in RunType
  BY DEF Started, RunType, Reports

\* The context an invocation is given was cancelled only with its job.
LEMMA ParentFacts ==
  ASSUME AdaptersInv, NEW j \in Jobs
  PROVE  Parent(j) \in Ctx /\ (Parent(j) = "canceled" => jctx[j] = "canceled")
  BY DEF AdaptersInv, TypeOK, JobInv, CtxInv, Parent

LEMMA InvLaunch ==
  ASSUME AdaptersInv, NEW j \in Jobs, Launch(j)
  PROVE  AdaptersInv'
  <1>1. /\ step[j] \in Subprocess /\ HoldsHome(j) /\ RunOnlyStep
        /\ \E alive \in SUBSET {"leader", "helper"}, err \in Ctx,
              exit \in {"none", "unstarted", "missing"} :
             /\ run' = [run EXCEPT ![j] = Started(alive, exit, err)]
             /\ alive = {} \/ (alive = {"leader", "helper"} /\ exit = "none")
             /\ exit = "unstarted" => err # "live" /\ err = Parent(j)
    <2>1. "live" \in Ctx /\ Parent(j) \in Ctx
      BY ParentFacts DEF Ctx
    <2>2. {} \in SUBSET {"leader", "helper"} /\ {"leader", "helper"} \in SUBSET {"leader", "helper"}
      OBVIOUS
    <2>3. QED
      <3>1. step[j] \in Subprocess /\ HoldsHome(j) /\ RunOnlyStep
        BY DEF Launch, Launchable, RunOnlyStep, shared
      <3>2. CASE run' = [run EXCEPT ![j] = Started({}, "missing", "live")]
        BY <2>1, <2>2, <3>1, <3>2
      <3>3. CASE run' = [run EXCEPT ![j] = Started({"leader", "helper"}, "none", "live")]
        BY <2>1, <2>2, <3>1, <3>3
      <3>4. CASE /\ Parent(j) # "live"
                 /\ run' = [run EXCEPT ![j] = Started({}, "unstarted", Parent(j))]
        BY <2>1, <2>2, <3>1, <3>4
      <3>5. QED
        BY <3>2, <3>3, <3>4 DEF Launch
  <1>2. PICK alive \in SUBSET {"leader", "helper"}, err \in Ctx,
             exit \in {"none", "unstarted", "missing"} :
             /\ run' = [run EXCEPT ![j] = Started(alive, exit, err)]
             /\ alive = {} \/ (alive = {"leader", "helper"} /\ exit = "none")
             /\ exit = "unstarted" => err # "live" /\ err = Parent(j)
    BY <1>1
  <1> DEFINE w == Started(alive, exit, err)
  <1>3. w \in RunType
    BY StartedType
  <1>4. /\ w.on /\ w.alive = alive /\ w.exit = exit /\ w.err = err /\ ~w.truncated /\ w.leak = {}
    BY DEF Started
  <1>5. run' = [run EXCEPT ![j] = w]
    BY <1>2
  <1> HIDE DEF w
  <1>6. RunFit(j, w)
    <2>1. exit = "unstarted" => err = "deadline" \/ (err = "canceled" /\ jctx[j] = "canceled")
      BY <1>2, ParentFacts DEF Ctx
    <2>2. QED
      BY <1>1, <1>2, <1>4, <2>1 DEF RunFit
  <1>7. plan[j] = "zap" => home = j
    BY <1>1 DEF HoldsHome, AdaptersInv, JobInv, FlowInv, Fetched, Subprocess
  <1>8. QED
    BY <1>1, <1>3, <1>5, <1>6, <1>7, RunOnly

\* A tool that runs may be cut short or exit, and then all of its group is gone.
LEMMA RunChanged ==
  ASSUME AdaptersInv, NEW j \in Jobs, Running(j), NEW w \in RunType,
         run' = [run EXCEPT ![j] = w], RunOnlyStep, w.on,
         \/ w.exit = run[j].exit /\ w.alive = run[j].alive
         \/ w.exit \in {"zero", "fail", "interrupted", "killed"} /\ w.alive = {},
         step[j] = "scan" => w.leak \subseteq LeakOf(plan[j])
  PROVE  AdaptersInv'
  <1>1. RunFit(j, run[j]) /\ HomeInv(j)
    BY DEF AdaptersInv, JobInv, RunInv
  <1>2. run[j].on /\ run[j].alive # {} /\ run[j].exit = "none"
    BY <1>1 DEF Running, RunFit
  <1>3. RunFit(j, w)
    BY <1>1, <1>2 DEF RunFit
  <1>4. plan[j] = "zap" => home = j
    BY <1>1, <1>2 DEF HomeInv
  <1>5. QED
    BY <1>3, <1>4, RunOnly

LEMMA RunFields ==
  ASSUME NEW r \in RunType, NEW e \in Ctx, NEW t \in BOOLEAN
  PROVE  LET w == [r EXCEPT !.truncated = t, !.err = e]
         IN  /\ w \in RunType /\ w.on = r.on /\ w.alive = r.alive /\ w.exit = r.exit
             /\ w.leak = r.leak
  BY DEF RunType

LEMMA ErrFields ==
  ASSUME NEW r \in RunType, NEW e \in Ctx
  PROVE  LET w == [r EXCEPT !.err = e]
         IN  /\ w \in RunType /\ w.on = r.on /\ w.alive = r.alive /\ w.exit = r.exit
             /\ w.leak = r.leak
  BY DEF RunType

Exited(r, x, p, l) == [r EXCEPT !.alive = {}, !.exit = x, !.report = p, !.leak = l]

LEMMA ExitFields ==
  ASSUME NEW r \in RunType, NEW x \in {"zero", "fail", "interrupted", "killed"},
         NEW p \in Reports, NEW l \in SUBSET Leaks
  PROVE  LET w == Exited(r, x, p, l)
         IN  w \in RunType /\ w.on = r.on /\ w.alive = {} /\ w.exit = x /\ w.leak = l
  BY DEF RunType, Exited

LEMMA KillFields ==
  ASSUME NEW r \in RunType, NEW p \in Reports
  PROVE  LET w == [r EXCEPT !.alive = {}, !.exit = "killed", !.report = p]
         IN  w \in RunType /\ w.on = r.on /\ w.alive = {} /\ w.exit = "killed" /\ w.leak = r.leak
  BY DEF RunType

LEMMA EndedType == "live" \in Ctx /\ \A was, why \in Ctx : Ended(was, why) \in Ctx
  BY DEF Ended, Ctx

LEMMA MayLeave ==
  ASSUME NEW j \in Jobs
  PROVE  MayReport(j) \subseteq Reports /\ MayLeak(j) \subseteq Leaks
  <1>1. MayReport(j) \subseteq Reports
    BY DEF MayReport, Reports
  <1>2. LeakOf(plan[j]) \subseteq Leaks
    BY DEF LeakOf, Leaks
  <1>3. QED
    BY <1>1, <1>2 DEF MayLeak

LEMMA InvRun ==
  ASSUME AdaptersInv, NEW j \in Jobs,
         StdoutOver(j) \/ StderrOver(j) \/ RunTimesOut(j) \/ KillGroup(j) \/ ToolExits(j)
  PROVE  AdaptersInv'
  <1>1. run[j] \in RunType /\ run[j].err \in Ctx /\ "deadline" \in Ctx /\ "canceled" \in Ctx
    BY DEF AdaptersInv, TypeOK, RunType, Ctx
  <1>2. Running(j) /\ RunOnlyStep /\ run[j].on
    BY DEF StdoutOver, StderrOver, RunTimesOut, KillGroup, ToolExits, RunOnlyStep, shared, Running
  <1>3. step[j] = "scan" => run[j].leak \subseteq LeakOf(plan[j])
    BY DEF AdaptersInv, JobInv, RunInv, RunFit
  <1>4. CASE StdoutOver(j)
    <2> DEFINE w == [run[j] EXCEPT !.truncated = TRUE, !.err = Ended(run[j].err, "canceled")]
    <2>1. run' = [run EXCEPT ![j] = w]
      BY <1>4 DEF StdoutOver
    <2>2. w \in RunType /\ w.on = run[j].on /\ w.alive = run[j].alive /\ w.exit = run[j].exit
          /\ w.leak = run[j].leak
      <3>1. Ended(run[j].err, "canceled") \in Ctx /\ TRUE \in BOOLEAN
        BY <1>1, EndedType
      <3>2. QED
        BY <1>1, <3>1, RunFields, Zenon
    <2> HIDE DEF w
    <2>3. QED
      BY <1>2, <1>3, <2>1, <2>2, RunChanged
  <1>5. ASSUME NEW e \in {"deadline", "canceled"}, run' = [run EXCEPT ![j] = [run[j] EXCEPT !.err = e]]
        PROVE  AdaptersInv'
    <2> DEFINE w == [run[j] EXCEPT !.err = e]
    <2>1. run' = [run EXCEPT ![j] = w]
      BY <1>5
    <2>2. w \in RunType /\ w.on = run[j].on /\ w.alive = run[j].alive /\ w.exit = run[j].exit
          /\ w.leak = run[j].leak
      BY <1>1, ErrFields
    <2> HIDE DEF w
    <2>3. QED
      BY <1>2, <1>3, <2>1, <2>2, RunChanged
  <1>6. CASE StderrOver(j) \/ RunTimesOut(j)
    BY <1>5, <1>6 DEF StderrOver, RunTimesOut
  <1>7. CASE KillGroup(j)
    <2>1. PICK report \in MayReport(j) :
            run' = [run EXCEPT ![j] = [run[j] EXCEPT !.alive = {}, !.exit = "killed", !.report = report]]
      BY <1>7 DEF KillGroup
    <2> DEFINE w == [run[j] EXCEPT !.alive = {}, !.exit = "killed", !.report = report]
    <2>2. run' = [run EXCEPT ![j] = w]
      BY <2>1
    <2>3. w \in RunType /\ w.on = run[j].on /\ w.alive = {} /\ w.exit = "killed" /\ w.leak = run[j].leak
      <3>1. report \in Reports
        BY MayLeave
      <3>2. QED
        BY <1>1, <3>1, KillFields, Zenon
    <2> HIDE DEF w
    <2>4. QED
      BY <1>2, <1>3, <2>2, <2>3, RunChanged
  <1>8. CASE ToolExits(j)
    <2>1. PICK exit \in {"zero", "fail", "interrupted"}, report \in MayReport(j),
               leak \in SUBSET MayLeak(j) :
            run' = [run EXCEPT ![j] = [run[j] EXCEPT !.alive = {}, !.exit = exit, !.report = report,
                                                     !.leak = leak]]
      <3>1. PICK exit \in {"zero", "fail"} \union (IF run[j].err = "live" THEN {} ELSE {"interrupted"}),
                 report \in MayReport(j) :
              \E leak \in IF report = "whole" THEN SUBSET MayLeak(j) ELSE {{}} :
                run' = [run EXCEPT ![j] = [run[j] EXCEPT !.alive = {}, !.exit = exit, !.report = report,
                                                         !.leak = leak]]
        BY <1>8 DEF ToolExits
      <3>2. (IF report = "whole" THEN SUBSET MayLeak(j) ELSE {{}}) \subseteq SUBSET MayLeak(j)
        OBVIOUS
      <3>3. exit \in {"zero", "fail", "interrupted"}
        OBVIOUS
      <3>4. QED
        BY <3>1, <3>2, <3>3
    <2> DEFINE w == Exited(run[j], exit, report, leak)
    <2>2. run' = [run EXCEPT ![j] = w]
      BY <2>1 DEF Exited
    <2>3. w \in RunType /\ w.on = run[j].on /\ w.alive = {} /\ w.exit = exit /\ w.leak = leak
      <3>1. report \in Reports /\ leak \in SUBSET Leaks
        BY MayLeave
      <3>2. exit \in {"zero", "fail", "interrupted", "killed"}
        OBVIOUS
      <3>3. QED
        BY <1>1, <3>1, <3>2, ExitFields
    <2>4. step[j] = "scan" => leak \subseteq LeakOf(plan[j])
      BY DEF MayLeak
    <2> HIDE DEF w
    <2>5. QED
      BY <1>2, <2>2, <2>3, <2>4, RunChanged
  <1>9. QED
    BY <1>4, <1>6, <1>7, <1>8

-----------------------------------------------------------------------------
(* Steps that move a job on *)

Dirs == SUBSET {"workspace", "checkout", "report", "run"}

\* A step of job j that leaves it in the given state.
Moves(j, s, jc, sc, w, d, o, r) ==
    /\ UNCHANGED <<plan, ready, rules, db>>
    /\ step' = [step EXCEPT ![j] = s] /\ jctx' = [jctx EXCEPT ![j] = jc]
    /\ sctx' = [sctx EXCEPT ![j] = sc] /\ run' = [run EXCEPT ![j] = w]
    /\ dirs' = [dirs EXCEPT ![j] = d] /\ scanned' = [scanned EXCEPT ![j] = o]
    /\ result' = [result EXCEPT ![j] = r]
    /\ home' = home \/ (home = None /\ home' = j) \/ (home = j /\ home' = None)

At(j, s, jc, sc, w, d, o, r) ==
    /\ step'[j] = s /\ jctx'[j] = jc /\ sctx'[j] = sc /\ run'[j] = w /\ dirs'[j] = d
    /\ scanned'[j] = o /\ result'[j] = r

LEMMA JobStep ==
  ASSUME AdaptersInv, NEW j \in Jobs, NEW s \in Steps, NEW jc \in Ctx, NEW sc \in Ctx,
         NEW w \in RunType, NEW d \in Dirs, NEW o \in ScannedType, NEW r \in ResultType,
         Moves(j, s, jc, sc, w, d, o, r)
  PROVE  TypeOK' /\ Only(j) /\ At(j, s, jc, sc, w, d, o, r)
  <1>1. /\ step' \in [Jobs -> Steps] /\ jctx' \in [Jobs -> Ctx] /\ sctx' \in [Jobs -> Ctx]
        /\ run' \in [Jobs -> RunType] /\ dirs' \in [Jobs -> Dirs]
        /\ scanned' \in [Jobs -> ScannedType] /\ result' \in [Jobs -> ResultType]
    BY DEF AdaptersInv, TypeOK, Moves, Dirs
  <1>2. home' \in Jobs \union {None}
    BY DEF AdaptersInv, TypeOK, Moves
  <1>3. TypeOK'
    BY <1>1, <1>2 DEF AdaptersInv, TypeOK, Moves, Dirs, Consulted
  <1>4. At(j, s, jc, sc, w, d, o, r)
    BY DEF AdaptersInv, TypeOK, Moves, At
  <1>5. Only(j)
    BY DEF AdaptersInv, TypeOK, Moves, Only
  <1>6. QED
    BY <1>3, <1>4, <1>5

LEMMA MoveOn ==
  ASSUME AdaptersInv, NEW j \in Jobs, NEW s \in Steps, NEW jc \in Ctx, NEW sc \in Ctx,
         NEW w \in RunType, NEW d \in Dirs, NEW o \in ScannedType, NEW r \in ResultType,
         Moves(j, s, jc, sc, w, d, o, r), JobInv(j)'
  PROVE  AdaptersInv'
  <1>1. TypeOK' /\ Only(j)
    BY JobStep
  <1>2. UNCHANGED <<ready, db>>
    BY DEF Moves
  <1>3. QED
    BY <1>1, <1>2, Assemble

\* What a job's own state is, and that leaving a variable alone is a move too.
LEMMA JobState ==
  ASSUME AdaptersInv, NEW j \in Jobs
  PROVE  /\ step[j] \in Steps /\ jctx[j] \in Ctx /\ sctx[j] \in Ctx /\ run[j] \in RunType
         /\ dirs[j] \in Dirs /\ scanned[j] \in ScannedType /\ result[j] \in ResultType
         /\ step = [step EXCEPT ![j] = step[j]] /\ jctx = [jctx EXCEPT ![j] = jctx[j]]
         /\ sctx = [sctx EXCEPT ![j] = sctx[j]] /\ run = [run EXCEPT ![j] = run[j]]
         /\ dirs = [dirs EXCEPT ![j] = dirs[j]] /\ scanned = [scanned EXCEPT ![j] = scanned[j]]
         /\ result = [result EXCEPT ![j] = result[j]]
         /\ JobInv(j) /\ plan[j] \in Adapters \union {"none"} /\ j # None
  <1>1. /\ step[j] \in Steps /\ jctx[j] \in Ctx /\ sctx[j] \in Ctx /\ run[j] \in RunType
        /\ dirs[j] \in Dirs /\ scanned[j] \in ScannedType /\ result[j] \in ResultType
    BY DEF AdaptersInv, TypeOK, Dirs
  <1>2. /\ step = [step EXCEPT ![j] = step[j]] /\ jctx = [jctx EXCEPT ![j] = jctx[j]]
        /\ sctx = [sctx EXCEPT ![j] = sctx[j]] /\ run = [run EXCEPT ![j] = run[j]]
        /\ dirs = [dirs EXCEPT ![j] = dirs[j]] /\ scanned = [scanned EXCEPT ![j] = scanned[j]]
        /\ result = [result EXCEPT ![j] = result[j]]
    BY DEF AdaptersInv, TypeOK
  <1>3. JobInv(j) /\ plan[j] \in Adapters \union {"none"} /\ j # None
    BY AdaptersAssumption DEF AdaptersInv, TypeOK
  <1>4. QED
    BY <1>1, <1>2, <1>3

LEMMA NoRunFacts ==
  NoRun \in RunType /\ ~NoRun.on /\ NoRun.alive = {} /\ NoRun.exit = "none" /\ ~NoRun.truncated
  /\ NoRun.leak = {} /\ \A j : RunFit(j, NoRun)
  <1>1. /\ NoRun \in RunType /\ ~NoRun.on /\ NoRun.alive = {} /\ NoRun.exit = "none"
        /\ ~NoRun.truncated /\ NoRun.leak = {}
    BY DEF NoRun, RunType, Ctx, Reports
  <1>2. QED
    BY <1>1 DEF RunFit

\* When Run returns, the whole group is gone and nothing is left of it.
LEMMA ReturnFacts ==
  ASSUME AdaptersInv, NEW j \in Jobs, Returned(j)
  PROVE  Reaped(j) = NoRun
  <1>1. run[j].alive = {}
    BY DEF AdaptersInv, JobInv, RunInv, RunFit, Returned
  <1>2. QED
    BY <1>1 DEF Reaped, NoRun

\* The classification tells truncation and cancellation apart from the rest.
LEMMA RunErrorFacts ==
  ASSUME AdaptersInv, NEW j \in Jobs, Returned(j)
  PROVE  /\ RunError(j) \in RunErrors
         /\ RunError(j) = "too_large" <=> run[j].truncated
         /\ RunError(j) = "cancelled" => jctx[j] = "canceled" \/ run[j].exit = "interrupted"
  <1>1. RunFit(j, run[j])
    BY DEF AdaptersInv, JobInv, RunInv
  <1>2. RunError(j) \in RunErrors
    BY DEF RunError, Classify, RunErrors
  <1>3. RunError(j) = "too_large" <=> run[j].truncated
    BY <1>1 DEF RunError, Classify, RunFit
  <1>4. RunError(j) = "cancelled" => jctx[j] = "canceled" \/ run[j].exit = "interrupted"
    BY <1>1, ParentFacts DEF RunError, Classify, RunFit
  <1>5. QED
    BY <1>2, <1>3, <1>4

LEMMA BlankFacts ==
  /\ NotScanned \in ScannedType /\ NotScanned.err = "ok" /\ ~NotScanned.truncated
  /\ NotScanned.leak = {} /\ NoResult \in ResultType /\ ~NoResult.stored
  /\ NoResult.status = "none" /\ NoResult.error = ""
  <1>1. NotScanned \in ScannedType
    BY DEF NotScanned, ScannedType, RunErrors, Reports
  <1>2. NoResult \in ResultType
    BY DEF NoResult, Unstored, ResultType, Errors
  <1>3. QED
    BY <1>1, <1>2 DEF NotScanned, NoResult, Unstored

\* A step before anything was scanned.
LEMMA EarlyStep ==
  ASSUME AdaptersInv, NEW j \in Jobs, step[j] \in Early, ready, plan[j] # "none",
         NEW s \in Early \ {"idle"}, NEW sc \in Ctx, sc = "canceled" => jctx[j] = "canceled",
         NEW d \in Dirs, "run" \in d => s \in {"probe", "scan"},
         s \in {"clone", "measure", "head", "branch"} => Fetched(j),
         home' = j => plan[j] = "zap" /\ s \in {"version", "prepare", "probe", "scan"},
         plan[j] = "zap" /\ s \in {"probe", "scan"} => home' = j,
         Moves(j, s, jctx[j], sc, NoRun, d, scanned[j], result[j])
  PROVE  AdaptersInv'
  <1>1. JobInv(j) /\ jctx[j] \in Ctx /\ scanned[j] \in ScannedType /\ result[j] \in ResultType
    BY JobState
  <1>2. s \in Steps /\ step[j] \notin Late /\ s \notin Late /\ s \notin {"idle", "done", "dbage", "inventory", "accept"}
    BY DEF Early, Late, Steps, Subprocess
  <1>3. scanned[j] = NotScanned /\ result[j] = NoResult
    BY <1>1, <1>2 DEF JobInv, ScanInv, ResultInv
  <1>4. At(j, s, jctx[j], sc, NoRun, d, scanned[j], result[j])
    BY <1>1, <1>2, NoRunFacts, JobStep
  <1>5. plan' = plan /\ ready' = ready /\ db' = db
    BY DEF Moves
  <1>6. FlowInv(j)' /\ CtxInv(j)' /\ DirInv(j)'
    BY <1>1, <1>2, <1>4, <1>5 DEF FlowInv, CtxInv, DirInv, At, Fetched
  <1>7. RunInv(j)'
    BY <1>4, <1>5, NoRunFacts DEF RunInv, RunFit, At
  <1>8. HomeInv(j)'
    BY <1>2, <1>4, <1>5, NoRunFacts DEF HomeInv, At
  <1>9. ScanInv(j)'
    BY <1>2, <1>3, <1>4, <1>5, BlankFacts DEF ScanInv, At
  <1>10. ResultInv(j)'
    BY <1>2, <1>3, <1>4, <1>5, BlankFacts DEF ResultInv, Fit, At
  <1>11. JobInv(j)'
    BY <1>6, <1>7, <1>8, <1>9, <1>10 DEF JobInv
  <1>12. QED
    BY <1>1, <1>2, <1>11, NoRunFacts, MoveOn

\* A step that ends the job without a result.
LEMMA FailedStep ==
  ASSUME AdaptersInv, NEW j \in Jobs, ready, plan[j] # "none", home' # j,
         NEW d \in Dirs, "run" \notin d, NEW r \in ResultType, ~r.stored,
         r.status # "succeeded", r.error = "too_large" <=> scanned[j].truncated,
         r.error = "cancelled" => jctx[j] = "canceled" \/ scanned[j].interrupted,
         Moves(j, "finish", jctx[j], sctx[j], NoRun, d, scanned[j], r)
  PROVE  AdaptersInv'
  <1>1. JobInv(j) /\ jctx[j] \in Ctx /\ sctx[j] \in Ctx /\ scanned[j] \in ScannedType
    BY JobState
  <1>2. "finish" \in Steps /\ "finish" \in Late /\ "finish" \notin Early
    BY DEF Early, Late, Steps, Subprocess
  <1>4. At(j, "finish", jctx[j], sctx[j], NoRun, d, scanned[j], r)
    BY <1>1, <1>2, NoRunFacts, JobStep
  <1>5. plan' = plan /\ ready' = ready /\ db' = db
    BY DEF Moves
  <1>6. FlowInv(j)' /\ CtxInv(j)' /\ DirInv(j)'
    BY <1>1, <1>2, <1>4, <1>5 DEF JobInv, FlowInv, CtxInv, DirInv, At, Fetched
  <1>7. RunInv(j)'
    BY <1>4, <1>5, NoRunFacts DEF RunInv, RunFit, At
  <1>8. HomeInv(j)'
    BY <1>4, <1>5, NoRunFacts DEF HomeInv, At
  <1>9. ScanInv(j)'
    BY <1>1, <1>2, <1>4, <1>5 DEF JobInv, ScanInv, At
  <1>10. ResultInv(j)'
    BY <1>2, <1>4, <1>5 DEF ResultInv, Fit, Cause, At
  <1>11. JobInv(j)'
    BY <1>6, <1>7, <1>8, <1>9, <1>10 DEF JobInv
  <1>12. QED
    BY <1>1, <1>2, <1>11, NoRunFacts, MoveOn

-----------------------------------------------------------------------------
(* The contexts *)

LEMMA ToldFacts ==
  ASSUME AdaptersInv, NEW j \in Jobs, NEW why \in {"deadline", "canceled"}
  PROVE  \E w \in RunType :
           /\ Told(j, why) = [run EXCEPT ![j] = w]
           /\ w = run[j] \/ (run[j].exit = "none" /\ run[j].on)
           /\ w.on = run[j].on /\ w.alive = run[j].alive /\ w.exit = run[j].exit
           /\ w.leak = run[j].leak
  <1>1. run[j] \in RunType /\ run = [run EXCEPT ![j] = run[j]] /\ RunFit(j, run[j])
    BY JobState DEF JobInv, RunInv
  <1>2. CASE ~Running(j)
    BY <1>1, <1>2 DEF Told
  <1>3. CASE Running(j)
    <2> DEFINE e == Ended(run[j].err, why)
               w == [run[j] EXCEPT !.err = e]
    <2>1. e \in Ctx
      BY <1>1, EndedType DEF RunType, Ctx
    <2>2. Told(j, why) = [run EXCEPT ![j] = w]
      BY <1>3 DEF Told
    <2> HIDE DEF e
    <2>3. /\ w \in RunType /\ w.on = run[j].on /\ w.alive = run[j].alive /\ w.exit = run[j].exit
          /\ w.leak = run[j].leak
      BY <1>1, <2>1, ErrFields
    <2>4. run[j].exit = "none" /\ run[j].on
      BY <1>1, <1>3 DEF Running, RunFit
    <2> HIDE DEF w
    <2>5. QED
      BY <2>2, <2>3, <2>4
  <1>4. QED
    BY <1>2, <1>3

LEMMA InvContext ==
  ASSUME AdaptersInv, NEW j \in Jobs, JobContextEnds(j) \/ ScanTimesOut(j)
  PROVE  AdaptersInv'
  <1>1. /\ step[j] \in Steps /\ jctx[j] \in Ctx /\ sctx[j] \in Ctx /\ run[j] \in RunType
        /\ dirs[j] \in Dirs /\ scanned[j] \in ScannedType /\ result[j] \in ResultType
        /\ JobInv(j)
    BY JobState
  <1>2. PICK jc \in Ctx, sc \in Ctx, w \in RunType :
          /\ Moves(j, step[j], jc, sc, w, dirs[j], scanned[j], result[j])
          /\ jctx[j] = "canceled" => jc = "canceled"
          /\ sc = "canceled" => jc = "canceled"
          /\ w = run[j] \/ (run[j].exit = "none" /\ run[j].on)
          /\ w.on = run[j].on /\ w.alive = run[j].alive /\ w.exit = run[j].exit
          /\ w.leak = run[j].leak
          /\ home' = home
    <2>1. CASE JobContextEnds(j)
      <3>1. PICK why \in {"deadline", "canceled"} :
              /\ jctx' = [jctx EXCEPT ![j] = why]
              /\ sctx' = [sctx EXCEPT ![j] = Ended(sctx[j], why)]
              /\ run' = Told(j, why)
        BY <2>1 DEF JobContextEnds
      <3>2. PICK w \in RunType :
           /\ Told(j, why) = [run EXCEPT ![j] = w]
           /\ w = run[j] \/ (run[j].exit = "none" /\ run[j].on)
           /\ w.on = run[j].on /\ w.alive = run[j].alive /\ w.exit = run[j].exit
           /\ w.leak = run[j].leak
        BY ToldFacts
      <3>3. why \in Ctx /\ Ended(sctx[j], why) \in Ctx
        BY <1>1, EndedType DEF Ctx
      <3>4. jctx[j] = "live"
        BY <2>1 DEF JobContextEnds
      <3>5. Ended(sctx[j], why) = "canceled" => why = "canceled"
        BY <1>1, <3>4 DEF Ended, JobInv, CtxInv
      <3>6. Moves(j, step[j], why, Ended(sctx[j], why), w, dirs[j], scanned[j], result[j]) /\ home' = home
        BY <2>1, <3>1, <3>2, JobState DEF Moves, JobContextEnds, shared
      <3>7. QED
        BY <3>2, <3>3, <3>4, <3>5, <3>6
    <2>2. CASE ScanTimesOut(j)
      <3>1. PICK w \in RunType :
           /\ Told(j, "deadline") = [run EXCEPT ![j] = w]
           /\ w = run[j] \/ (run[j].exit = "none" /\ run[j].on)
           /\ w.on = run[j].on /\ w.alive = run[j].alive /\ w.exit = run[j].exit
           /\ w.leak = run[j].leak
        BY ToldFacts
      <3>2. Moves(j, step[j], jctx[j], "deadline", w, dirs[j], scanned[j], result[j]) /\ home' = home
        BY <2>2, <3>1, JobState DEF Moves, ScanTimesOut, shared
      <3>3. "deadline" \in Ctx
        BY DEF Ctx
      <3>4. QED
        BY <1>1, <3>1, <3>2, <3>3
    <2>3. QED
      BY <2>1, <2>2
  <1>3. At(j, step[j], jc, sc, w, dirs[j], scanned[j], result[j])
    BY <1>1, <1>2, JobStep
  <1>4. plan' = plan /\ ready' = ready /\ db' = db /\ home' = home
    BY <1>2 DEF Moves
  <1>5. FlowInv(j)' /\ CtxInv(j)' /\ DirInv(j)'
    BY <1>1, <1>2, <1>3, <1>4 DEF JobInv, FlowInv, CtxInv, DirInv, At, Fetched
  <1>6. RunInv(j)'
    BY <1>1, <1>2, <1>3, <1>4 DEF JobInv, RunInv, RunFit, At
  <1>7. HomeInv(j)'
    BY <1>1, <1>2, <1>3, <1>4 DEF JobInv, HomeInv, At
  <1>8. ScanInv(j)' /\ ResultInv(j)'
    BY <1>1, <1>2, <1>3, <1>4 DEF JobInv, ScanInv, ResultInv, Cause, Fit, At
  <1>9. JobInv(j)'
    BY <1>5, <1>6, <1>7, <1>8 DEF JobInv
  <1>10. QED
    BY <1>1, <1>2, <1>9, MoveOn

-----------------------------------------------------------------------------
(* The workspace, the checkout and the version *)

\* A job is past "idle" or about to be, and so it has an adapter and rules.
LEMMA JobIsOn ==
  ASSUME AdaptersInv, NEW j \in Jobs, step[j] \notin {"idle", "done"}
  PROVE  ready /\ plan[j] # "none"
  BY DEF AdaptersInv, JobInv, FlowInv

\* Nothing runs between two invocations.
LEMMA BetweenRuns ==
  ASSUME AdaptersInv, NEW j \in Jobs, step[j] \notin Subprocess \/ ~run[j].on
  PROVE  run[j] = NoRun
  BY DEF AdaptersInv, JobInv, RunInv, RunFit

\* What an early failure may leave as the error.
LEMMA EarlyFailure ==
  ASSUME AdaptersInv, NEW j \in Jobs, step[j] \in Early, ready, plan[j] # "none", home' # j,
         NEW d \in Dirs, "run" \notin d, NEW r \in ResultType, ~r.stored,
         r.status # "succeeded", r.error # "too_large",
         r.error = "cancelled" => jctx[j] = "canceled",
         Moves(j, "finish", jctx[j], sctx[j], NoRun, d, scanned[j], r)
  PROVE  AdaptersInv'
  <1>1. scanned[j] = NotScanned
    BY DEF AdaptersInv, JobInv, ScanInv
  <1>2. ~scanned[j].truncated
    BY <1>1, BlankFacts
  <1>3. QED
    BY <1>2, FailedStep

Fataled(r, reason) == [r EXCEPT !.error = reason]

LEMMA FataledFields ==
  ASSUME NEW r \in ResultType, NEW e \in Errors
  PROVE  LET w == Fataled(r, e)
         IN  w \in ResultType /\ w.stored = r.stored /\ w.status = r.status /\ w.error = e
  BY DEF Fataled, ResultType

LEMMA FatalFacts ==
  ASSUME AdaptersInv, NEW j \in Jobs, step[j] \notin Late,
         NEW reason \in {"workspace_unavailable", "fetch_failed", "target_too_large"}
  PROVE  LET r == Fataled(result[j], reason)
         IN  r \in ResultType /\ ~r.stored /\ r.status # "succeeded" /\ r.error = reason
  <1>1. result[j] = NoResult
    BY DEF AdaptersInv, JobInv, ResultInv
  <1>2. reason \in Errors
    BY DEF Errors
  <1>3. QED
    BY <1>1, <1>2, BlankFacts, FataledFields

LEMMA InvBegin ==
  ASSUME AdaptersInv, NEW j \in Jobs, Begin(j)
  PROVE  AdaptersInv'
  <1>1. ready /\ step[j] = "idle" /\ plan[j] # "none" /\ run[j] = NoRun /\ home' = home
    <2>1. ready /\ step[j] = "idle" /\ home' = home
      BY DEF Begin
    <2>2. plan[j] # "none" /\ run[j] = NoRun
      BY <2>1, BetweenRuns DEF AdaptersInv, JobInv, FlowInv, Subprocess
    <2>3. QED
      BY <2>1, <2>2
  <1>2. home # j /\ dirs[j] = {}
    BY <1>1 DEF AdaptersInv, JobInv, HomeInv, DirInv
  <1>3. sctx[j] \in Ctx /\ (sctx[j] = "canceled" => jctx[j] = "canceled")
    BY JobState DEF JobInv, CtxInv
  <1>4. step[j] \in Early /\ step[j] \notin Late
    BY <1>1 DEF Early, Late
  <1>5. CASE dirs' = [dirs EXCEPT ![j] = {"workspace"}] /\ UNCHANGED result
             /\ Goto(j, IF Fetched(j) THEN "clone" ELSE "version")
    <2> DEFINE s == IF Fetched(j) THEN "clone" ELSE "version"
    <2>1. s \in Early \ {"idle"} /\ (s \in {"clone", "measure", "head", "branch"} => Fetched(j))
      BY DEF Early
    <2>2. Moves(j, s, jctx[j], sctx[j], NoRun, {"workspace"}, scanned[j], result[j])
      BY <1>1, <1>5, JobState DEF Begin, Goto, Moves, shared
    <2>3. s \notin {"probe", "scan"}
      OBVIOUS
    <2>4. {"workspace"} \in Dirs /\ "run" \notin {"workspace"}
      BY DEF Dirs
    <2> HIDE DEF s
    <2>5. QED
      BY <1>1, <1>2, <1>3, <1>4, <2>1, <2>2, <2>3, <2>4, EarlyStep
  <1>6. CASE Fatal(j, "workspace_unavailable") /\ UNCHANGED dirs
    <2> DEFINE r == Fataled(result[j], "workspace_unavailable")
    <2>1. Moves(j, "finish", jctx[j], sctx[j], NoRun, dirs[j], scanned[j], r)
      BY <1>1, <1>6, JobState DEF Begin, Fatal, Goto, Moves, shared, Fataled
    <2>2. r \in ResultType /\ ~r.stored /\ r.status # "succeeded" /\ r.error = "workspace_unavailable"
      BY <1>4, FatalFacts
    <2>3. dirs[j] \in Dirs /\ "run" \notin dirs[j]
      BY <1>2, JobState
    <2> HIDE DEF r
    <2>4. QED
      BY <1>1, <1>2, <1>4, <2>1, <2>2, <2>3, EarlyFailure
  <1>7. QED
    BY <1>5, <1>6 DEF Begin

LEMMA InvClone ==
  ASSUME AdaptersInv, NEW j \in Jobs, CloneReturns(j) \/ Measure(j)
  PROVE  AdaptersInv'
  <1>1. step[j] \in {"clone", "measure"} /\ home' = home
    BY DEF CloneReturns, Measure
  <1>2. ready /\ plan[j] # "none" /\ Fetched(j) /\ home # j /\ "run" \notin dirs[j]
    BY <1>1, JobIsOn DEF AdaptersInv, JobInv, FlowInv, HomeInv, DirInv
  <1>3. sctx[j] \in Ctx /\ (sctx[j] = "canceled" => jctx[j] = "canceled") /\ dirs[j] \in Dirs
    BY JobState DEF JobInv, CtxInv
  <1>4. step[j] \in Early /\ step[j] \notin Late
    BY <1>1 DEF Early, Late
  <1>5. run' = [run EXCEPT ![j] = NoRun]
    BY ReturnFacts, BetweenRuns, JobState DEF CloneReturns, Measure, Subprocess
  <1>6. ASSUME NEW reason \in {"workspace_unavailable", "fetch_failed", "target_too_large"},
               Fatal(j, reason), NEW d \in Dirs, "run" \notin d, dirs' = [dirs EXCEPT ![j] = d]
        PROVE  AdaptersInv'
    <2> DEFINE r == Fataled(result[j], reason)
    <2>1. Moves(j, "finish", jctx[j], sctx[j], NoRun, d, scanned[j], r)
      BY <1>5, <1>6, JobState DEF CloneReturns, Measure, Fatal, Goto, Moves, shared, Fataled
    <2>2. r \in ResultType /\ ~r.stored /\ r.status # "succeeded" /\ r.error = reason
      BY <1>4, FatalFacts
    <2> HIDE DEF r
    <2>3. QED
      BY <1>1, <1>2, <1>4, <1>6, <2>1, <2>2, EarlyFailure
  <1>7. ASSUME NEW s \in {"measure", "head"}, Goto(j, s), UNCHANGED result,
               NEW d \in Dirs, "run" \notin d, dirs' = [dirs EXCEPT ![j] = d]
        PROVE  AdaptersInv'
    <2>1. Moves(j, s, jctx[j], sctx[j], NoRun, d, scanned[j], result[j])
      BY <1>5, <1>7, JobState DEF CloneReturns, Measure, Goto, Moves, shared
    <2>2. s \in Early \ {"idle"}
      BY DEF Early
    <2>3. QED
      BY <1>1, <1>2, <1>3, <1>4, <1>7, <2>1, <2>2, EarlyStep
  <1>8. /\ dirs[j] \union {"checkout"} \in Dirs /\ "run" \notin dirs[j] \union {"checkout"}
        /\ dirs[j] \ {"checkout"} \in Dirs /\ "run" \notin dirs[j] \ {"checkout"}
        /\ dirs = [dirs EXCEPT ![j] = dirs[j]]
    BY <1>2, <1>3, JobState DEF Dirs
  <1>9. CASE CloneReturns(j)
    BY <1>2, <1>3, <1>6, <1>7, <1>8, <1>9 DEF CloneReturns
  <1>10. CASE Measure(j)
    <2>1. CASE Goto(j, "head") /\ UNCHANGED <<dirs, result>>
      BY <1>2, <1>3, <1>7, <1>8, <2>1
    <2>2. CASE /\ dirs' = [dirs EXCEPT ![j] = dirs[j] \ {"checkout"}]
               /\ \E reason \in {"target_too_large", "fetch_failed"} : Fatal(j, reason)
      BY <1>6, <1>8, <2>2
    <2>3. QED
      BY <1>10, <2>1, <2>2 DEF Measure
  <1>11. QED
    BY <1>9, <1>10

LEMMA InvHead ==
  ASSUME AdaptersInv, NEW j \in Jobs, HeadReturns(j) \/ BranchReturns(j) \/ ProbeReturns(j)
  PROVE  AdaptersInv'
  <1> DEFINE s == CASE step[j] = "head" -> "branch"
                    [] step[j] = "branch" -> "version"
                    [] OTHER -> "scan"
  <1>1. step[j] \in {"head", "branch", "probe"} /\ home' = home
    BY DEF HeadReturns, BranchReturns, ProbeReturns
  <1>2. ready /\ plan[j] # "none"
    BY <1>1, JobIsOn
  <1>3. sctx[j] \in Ctx /\ (sctx[j] = "canceled" => jctx[j] = "canceled") /\ dirs[j] \in Dirs
    BY JobState DEF JobInv, CtxInv
  <1>4. step[j] \in Early /\ s \in Early \ {"idle"}
    BY <1>1 DEF Early
  <1>5. run' = [run EXCEPT ![j] = NoRun]
    BY ReturnFacts DEF HeadReturns, BranchReturns, ProbeReturns
  <1>6. Moves(j, s, jctx[j], sctx[j], NoRun, dirs[j], scanned[j], result[j])
    BY <1>1, <1>5, JobState DEF HeadReturns, BranchReturns, ProbeReturns, Goto, Moves, shared
  <1>7. /\ "run" \in dirs[j] => s \in {"probe", "scan"}
        /\ s \in {"clone", "measure", "head", "branch"} => Fetched(j)
    BY <1>1 DEF AdaptersInv, JobInv, DirInv, FlowInv
  <1>8. /\ home' = j => plan[j] = "zap" /\ s \in {"version", "prepare", "probe", "scan"}
        /\ plan[j] = "zap" /\ s \in {"probe", "scan"} => home' = j
    BY <1>1 DEF AdaptersInv, JobInv, HomeInv
  <1> HIDE DEF s
  <1>9. QED
    BY <1>2, <1>3, <1>4, <1>6, <1>7, <1>8, EarlyStep

-----------------------------------------------------------------------------
(* ZAP's home, and Scan up to the scanning invocation *)

LEMMA OutcomeFacts ==
  ASSUME NEW err \in RunErrors \ {"ok"}, NEW degr \in SUBSET Degradations
  PROVE  LET r == Outcome(err, degr)
         IN  /\ r \in ResultType /\ ~r.stored /\ r.status # "succeeded"
             /\ r.error = "too_large" <=> err = "too_large"
             /\ r.error = "cancelled" => err = "cancelled"
  <1>1. ASSUME NEW st \in {"failed", "skipped"}, NEW e \in Errors, NEW d \in SUBSET Degradations
        PROVE  /\ Unstored(st, e, d) \in ResultType /\ ~Unstored(st, e, d).stored
               /\ Unstored(st, e, d).status # "succeeded" /\ Unstored(st, e, d).error = e
    BY DEF Unstored, ResultType
  <1>2. PICK st \in {"failed", "skipped"}, e \in Errors, d \in SUBSET Degradations :
          /\ Outcome(err, degr) = Unstored(st, e, d)
          /\ e = "too_large" <=> err = "too_large"
          /\ e = "cancelled" => err = "cancelled"
    <2>1. {"output_truncated"} \in SUBSET Degradations
      BY DEF Degradations
    <2>2. {"not_installed", "too_large", "timeout", "cancelled", "failed"} \subseteq Errors
      BY DEF Errors
    <2>3. CASE err = "missing"
      BY <2>2, <2>3 DEF Outcome
    <2>4. CASE err = "too_large"
      BY <2>1, <2>2, <2>4 DEF Outcome
    <2>5. CASE err \in {"timeout", "cancelled"}
      BY <2>2, <2>5 DEF Outcome
    <2>6. CASE err = "exit"
      BY <2>2, <2>6 DEF Outcome
    <2>7. QED
      BY <2>3, <2>4, <2>5, <2>6 DEF RunErrors
  <1>3. QED
    BY <1>1, <1>2

\* Scan returns an error: the job ends, and the home is free.
LEMMA ScanFailsStep ==
  ASSUME AdaptersInv, NEW j \in Jobs, ready, plan[j] # "none", run[j] = NoRun,
         NEW err \in RunErrors \ {"ok"}, NEW degr \in SUBSET Degradations,
         err = "too_large" <=> scanned[j].truncated,
         err = "cancelled" => jctx[j] = "canceled" \/ scanned[j].interrupted,
         ScanFails(j, err, degr), UNCHANGED <<plan, ready, rules, db, jctx, sctx, run, scanned>>
  PROVE  AdaptersInv'
  <1> DEFINE r == Outcome(err, degr)
             d == dirs[j] \ {"report", "run"}
  <1>1. /\ r \in ResultType /\ ~r.stored /\ r.status # "succeeded"
        /\ r.error = "too_large" <=> err = "too_large"
        /\ r.error = "cancelled" => err = "cancelled"
    BY OutcomeFacts
  <1>2. d \in Dirs /\ "run" \notin d
    BY JobState DEF Dirs
  <1>3. home' # j /\ (home' = home \/ (home = j /\ home' = None))
    BY JobState DEF ScanFails, Released
  <1>4. Moves(j, "finish", jctx[j], sctx[j], NoRun, d, scanned[j], r)
    BY <1>3, JobState DEF ScanFails, Goto, Moves
  <1> HIDE DEF r, d
  <1>5. QED
    BY <1>1, <1>2, <1>3, <1>4, FailedStep

\* ZAP's home changes hands between two invocations of ZAP only.
LEMMA InvLock ==
  ASSUME AdaptersInv, NEW j \in Jobs, LockHome(j) \/ LockGivesUp(j)
  PROVE  AdaptersInv'
  <1>1. plan[j] = "zap" /\ step[j] \in {"version", "prepare"} /\ ready /\ step[j] \in Early \ {"idle"}
    <2>1. plan[j] = "zap" /\ step[j] \in {"version", "prepare"}
      BY DEF LockHome, LockGivesUp
    <2>2. QED
      BY <2>1, JobIsOn DEF Early
  <1>2. home # j /\ run[j] = NoRun
    <2>1. home # j
      BY JobState DEF LockHome, LockGivesUp
    <2>2. ~run[j].on
      BY <1>1, <2>1 DEF AdaptersInv, JobInv, HomeInv
    <2>3. QED
      BY <2>1, <2>2, BetweenRuns
  <1>3. /\ sctx[j] \in Ctx /\ jctx[j] \in Ctx /\ (sctx[j] = "canceled" => jctx[j] = "canceled")
        /\ dirs[j] \in Dirs /\ "run" \notin dirs[j]
    BY <1>1, JobState DEF JobInv, CtxInv, DirInv
  <1>4. CASE LockHome(j)
    <2>1. home' = j
      BY <1>4 DEF LockHome
    <2>2. Moves(j, step[j], jctx[j], sctx[j], NoRun, dirs[j], scanned[j], result[j])
      BY <1>2, <1>4, JobState DEF LockHome, Moves, shared
    <2>3. QED
      BY <1>1, <1>3, <2>1, <2>2, EarlyStep
  <1>5. CASE LockGivesUp(j)
    <2>1. CASE step[j] = "version" /\ sctx' = [sctx EXCEPT ![j] = jctx[j]] /\ Goto(j, "prepare")
               /\ UNCHANGED <<home, dirs, result>>
      <3>1. Moves(j, "prepare", jctx[j], jctx[j], NoRun, dirs[j], scanned[j], result[j])
        BY <1>2, <1>5, <2>1, JobState DEF LockGivesUp, Goto, Moves, shared
      <3>2. "prepare" \in Early \ {"idle"}
        BY DEF Early
      <3>3. QED
        BY <1>1, <1>2, <1>3, <2>1, <3>1, <3>2, EarlyStep
    <2>2. CASE /\ step[j] = "prepare" /\ sctx[j] # "live"
               /\ ScanFails(j, IF sctx[j] = "canceled" THEN "cancelled" ELSE "exit", {})
               /\ UNCHANGED sctx
      <3> DEFINE err == IF sctx[j] = "canceled" THEN "cancelled" ELSE "exit"
      <3>1. err \in RunErrors \ {"ok"} /\ err # "too_large" /\ {} \in SUBSET Degradations
        BY DEF RunErrors
      <3>2. err = "cancelled" => jctx[j] = "canceled"
        BY <1>3
      <3>3. ~scanned[j].truncated
        BY <1>1, BlankFacts DEF AdaptersInv, JobInv, ScanInv
      <3>4. ScanFails(j, err, {}) /\ UNCHANGED <<plan, ready, rules, db, jctx, sctx, run, scanned>>
        BY <1>5, <2>2 DEF LockGivesUp, shared
      <3> HIDE DEF err
      <3>5. QED
        BY <1>1, <1>2, <3>1, <3>2, <3>3, <3>4, ScanFailsStep
    <2>3. QED
      BY <1>5, <2>1, <2>2 DEF LockGivesUp
  <1>6. QED
    BY <1>4, <1>5

LEMMA InvVersion ==
  ASSUME AdaptersInv, NEW j \in Jobs, VersionReturns(j)
  PROVE  AdaptersInv'
  <1>1. step[j] = "version" /\ step[j] \in Early /\ ready /\ plan[j] # "none"
    BY JobIsOn DEF VersionReturns, Early
  <1>2. run' = [run EXCEPT ![j] = NoRun]
    BY ReturnFacts DEF VersionReturns
  <1>3. home' # j /\ (home' = home \/ (home = j /\ home' = None))
    BY JobState DEF VersionReturns, Released
  <1>4. jctx[j] \in Ctx /\ dirs[j] \in Dirs /\ "run" \notin dirs[j]
    BY <1>1, JobState DEF JobInv, DirInv
  <1>5. CASE RunError(j) = "missing"
    <2> DEFINE r == Outcome("missing", {})
    <2>1. Moves(j, "finish", jctx[j], sctx[j], NoRun, dirs[j], scanned[j], r)
      BY <1>2, <1>3, <1>5, JobState DEF VersionReturns, Goto, Moves, shared
    <2>2. "missing" \in RunErrors \ {"ok"} /\ {} \in SUBSET Degradations
      BY DEF RunErrors
    <2>3. /\ r \in ResultType /\ ~r.stored /\ r.status # "succeeded"
          /\ r.error # "too_large" /\ r.error # "cancelled"
      BY <2>2, OutcomeFacts
    <2> HIDE DEF r
    <2>4. QED
      BY <1>1, <1>3, <1>4, <2>1, <2>3, EarlyFailure
  <1>6. CASE RunError(j) # "missing"
    <2>1. Moves(j, "prepare", jctx[j], jctx[j], NoRun, dirs[j], scanned[j], result[j])
      BY <1>2, <1>3, <1>6, JobState DEF VersionReturns, Goto, Moves, shared
    <2>2. "prepare" \in Early \ {"idle"}
      BY DEF Early
    <2>3. QED
      BY <1>1, <1>3, <1>4, <2>1, <2>2, EarlyStep
  <1>7. QED
    BY <1>5, <1>6

LEMMA InvPrepare ==
  ASSUME AdaptersInv, NEW j \in Jobs, Prepare(j)
  PROVE  AdaptersInv'
  <1>1. step[j] = "prepare" /\ step[j] \in Early /\ ready /\ plan[j] # "none" /\ (plan[j] = "zap" => home = j)
    BY JobIsOn DEF Prepare, Early
  <1>2. run[j] = NoRun
    BY <1>1, BetweenRuns DEF Subprocess
  <1>3. sctx[j] \in Ctx /\ (sctx[j] = "canceled" => jctx[j] = "canceled") /\ dirs[j] \in Dirs
    BY JobState DEF JobInv, CtxInv
  <1>4. CASE /\ dirs' = [dirs EXCEPT ![j] = dirs[j] \union NewDir(plan[j])]
             /\ Goto(j, "probe") /\ UNCHANGED <<home, result>>
    <2> DEFINE d == dirs[j] \union NewDir(plan[j])
    <2>1. d \in Dirs
      BY <1>3 DEF Dirs, NewDir
    <2>2. Moves(j, "probe", jctx[j], sctx[j], NoRun, d, scanned[j], result[j])
      BY <1>2, <1>4, JobState DEF Prepare, Goto, Moves, shared
    <2>3. "probe" \in Early \ {"idle"}
      BY DEF Early
    <2>4. home' = j => plan[j] = "zap"
      BY <1>4 DEF AdaptersInv, JobInv, HomeInv
    <2> HIDE DEF d
    <2>5. QED
      BY <1>1, <1>3, <1>4, <2>1, <2>2, <2>3, <2>4, EarlyStep
  <1>5. CASE plan[j] \in WritesToDisk /\ ScanFails(j, "exit", {})
    <2>1. "exit" \in RunErrors \ {"ok"} /\ {} \in SUBSET Degradations
      BY DEF RunErrors
    <2>2. ~scanned[j].truncated
      BY <1>1, BlankFacts DEF AdaptersInv, JobInv, ScanInv
    <2>3. UNCHANGED <<plan, ready, rules, db, jctx, sctx, run, scanned>>
      BY DEF Prepare, shared
    <2>4. QED
      BY <1>1, <1>2, <1>5, <2>1, <2>2, <2>3, ScanFailsStep
  <1>6. QED
    BY <1>4, <1>5 DEF Prepare

-----------------------------------------------------------------------------
(* The scanning invocation and what is made of it *)

LEMMA DatabaseRead ==
  ASSUME AdaptersInv, NEW j \in Jobs, plan[j] \in Tools
  PROVE  Database(plan[j]) \in Consulted /\ db[Database(plan[j])] \in DBStates
  <1>1. Database(plan[j]) \in Consulted
    BY DEF Consulted, Tools
  <1>2. QED
    BY <1>1 DEF AdaptersInv, TypeOK

LEMMA AssessFacts ==
  \A state \in DBStates :
    Assess(state) \subseteq Degradations /\ (Assess(state) = {} => state \in {"fresh", "invalid"})
  BY DEF Assess, DBStates, Degradations

\* What the scanning invocation is summed up as.
Summary(err, rp, lk, tr, int, basis, rs, degr) ==
    [err |-> err, report |-> rp, leak |-> lk, truncated |-> tr, interrupted |-> int,
     basis |-> basis, rules |-> rs, degr |-> degr]

LEMMA SummaryFacts ==
  ASSUME NEW err \in RunErrors, NEW rp \in Reports, NEW lk \in SUBSET Leaks, NEW tr \in BOOLEAN,
         NEW int \in BOOLEAN, NEW basis \in DBStates \union {"none"},
         NEW rs \in SUBSET {Rulesets[i] : i \in DOMAIN Rulesets}, NEW degr \in SUBSET Degradations
  PROVE  LET o == Summary(err, rp, lk, tr, int, basis, rs, degr)
         IN  /\ o \in ScannedType /\ o.err = err /\ o.leak = lk /\ o.truncated = tr
             /\ o.interrupted = int /\ o.basis = basis
  BY DEF Summary, ScannedType

LEMMA InvScanner ==
  ASSUME AdaptersInv, NEW j \in Jobs, ScannerReturns(j)
  PROVE  AdaptersInv'
  <1> DEFINE err == RunError(j)
             rp == IF err = "ok" THEN run[j].report ELSE "none"
             lk == IF err = "ok" THEN run[j].leak ELSE {}
             int == run[j].exit = "interrupted"
             basis == IF plan[j] \in Tools THEN db[Database(plan[j])] ELSE "none"
             rs == IF plan[j] = "semgrep" THEN rules ELSE {}
             degr == IF run[j].truncated THEN {"output_truncated"} ELSE {}
             o == Summary(err, rp, lk, run[j].truncated, int, basis, rs, degr)
             s == IF plan[j] = "trivy_image" THEN "dbage" ELSE "accept"
  <1>1. step[j] = "scan" /\ Returned(j) /\ ready /\ plan[j] # "none" /\ home' = home
    BY JobIsOn DEF ScannerReturns
  <1>2. /\ jctx[j] \in Ctx /\ sctx[j] \in Ctx /\ dirs[j] \in Dirs /\ result[j] \in ResultType
        /\ run[j] \in RunType /\ JobInv(j)
    BY JobState
  <1>3. /\ err \in RunErrors /\ (err = "too_large" <=> run[j].truncated)
        /\ err = "cancelled" => jctx[j] = "canceled" \/ int
    BY <1>1, RunErrorFacts
  <1>4. /\ rp \in Reports /\ lk \in SUBSET Leaks /\ run[j].truncated \in BOOLEAN /\ int \in BOOLEAN
    BY <1>2 DEF RunType, Reports
  <1>5. basis \in DBStates \union {"none"}
    BY DatabaseRead
  <1>6. rs \in SUBSET {Rulesets[i] : i \in DOMAIN Rulesets} /\ degr \in SUBSET Degradations
    BY DEF AdaptersInv, TypeOK, Degradations
  <1>7. lk \subseteq LeakOf(plan[j])
    BY <1>1, <1>2 DEF JobInv, RunInv, RunFit
  <1>8. plan[j] \in Tools => basis = db[Database(plan[j])]
    OBVIOUS
  <1>9. Moves(j, s, jctx[j], sctx[j], NoRun, dirs[j], o, result[j])
    <2>1. run' = [run EXCEPT ![j] = NoRun]
      BY ReturnFacts DEF ScannerReturns
    <2>2. scanned' = [scanned EXCEPT ![j] = o]
      BY DEF ScannerReturns, Summary, Tools
    <2>3. QED
      BY <2>1, <2>2, JobState DEF ScannerReturns, Goto, Moves, shared
  <1>10. /\ s \in Steps /\ s \notin Early /\ s \notin Late /\ s \in {"dbage", "accept"}
         /\ s = "dbage" <=> plan[j] = "trivy_image"
    BY DEF Steps, Subprocess, Early, Late
  <1> HIDE DEF err, rp, lk, int, basis, rs, degr, s
  <1>11. /\ o \in ScannedType /\ o.err = err /\ o.leak = lk /\ o.truncated = run[j].truncated
         /\ o.interrupted = int /\ o.basis = basis
    BY <1>3, <1>4, <1>5, <1>6, SummaryFacts
  <1> HIDE DEF o
  <1>12. At(j, s, jctx[j], sctx[j], NoRun, dirs[j], o, result[j])
    BY <1>2, <1>9, <1>10, <1>11, NoRunFacts, JobStep
  <1>13. plan' = plan /\ ready' = ready /\ db' = db
    BY <1>9 DEF Moves
  <1>14. FlowInv(j)' /\ CtxInv(j)' /\ DirInv(j)'
    BY <1>1, <1>2, <1>10, <1>12, <1>13 DEF JobInv, FlowInv, CtxInv, DirInv, At, Fetched
  <1>15. RunInv(j)'
    BY <1>12, <1>13, NoRunFacts DEF RunInv, RunFit, At
  <1>16. HomeInv(j)'
    BY <1>1, <1>2, <1>10, <1>12, <1>13, NoRunFacts DEF JobInv, HomeInv, At
  <1>17. ScanInv(j)'
    BY <1>3, <1>7, <1>8, <1>10, <1>11, <1>12, <1>13 DEF ScanInv, At
  <1>18. ResultInv(j)'
    <2>1. result[j] = NoResult
      BY <1>1, <1>2 DEF JobInv, ResultInv, Late
    <2>2. QED
      BY <1>10, <1>12, <1>13, <2>1, BlankFacts DEF ResultInv, Fit, At
  <1>19. JobInv(j)'
    BY <1>14, <1>15, <1>16, <1>17, <1>18 DEF JobInv
  <1>20. QED
    BY <1>2, <1>9, <1>10, <1>11, <1>19, NoRunFacts, MoveOn

Flagged(o, degr) == [o EXCEPT !.degr = degr]

LEMMA FlaggedFields ==
  ASSUME NEW o \in ScannedType, NEW degr \in SUBSET Degradations
  PROVE  LET w == Flagged(o, degr)
         IN  /\ w \in ScannedType /\ w.err = o.err /\ w.leak = o.leak
             /\ w.truncated = o.truncated /\ w.interrupted = o.interrupted /\ w.basis = o.basis
             /\ w.degr = degr
  BY DEF Flagged, ScannedType

LEMMA InvDBAge ==
  ASSUME AdaptersInv, NEW j \in Jobs, DBAgeReturns(j)
  PROVE  AdaptersInv'
  <1> DEFINE more == IF RunError(j) # "ok" \/ run[j].report = "bad" THEN {"unknown_db"}
                     ELSE Assess(db["trivy"])
             degr == scanned[j].degr \union more
             o == Flagged(scanned[j], degr)
  <1>1. step[j] = "dbage" /\ Returned(j) /\ ready /\ plan[j] # "none" /\ home' = home
    BY JobIsOn DEF DBAgeReturns
  <1>2. /\ jctx[j] \in Ctx /\ sctx[j] \in Ctx /\ dirs[j] \in Dirs /\ result[j] \in ResultType
        /\ scanned[j] \in ScannedType /\ JobInv(j)
    BY JobState
  <1>3. plan[j] = "trivy_image" /\ plan[j] \in Tools /\ Database(plan[j]) = "trivy"
    BY <1>1, <1>2 DEF JobInv, FlowInv, Tools, Database
  <1>4. db["trivy"] \in DBStates /\ db["trivy"] # "invalid"
    BY <1>3, DatabaseRead DEF AdaptersInv, DBInv
  <1>5. degr \in SUBSET Degradations
    BY <1>2, <1>4, AssessFacts DEF ScannedType, Degradations
  <1>6. degr = {} => scanned[j].basis = "fresh"
    <2>1. degr = {} => db["trivy"] = "fresh"
      BY <1>4, AssessFacts
    <2>2. QED
      BY <1>1, <1>2, <1>3, <2>1 DEF JobInv, ScanInv
  <1>7. Moves(j, "accept", jctx[j], sctx[j], NoRun, dirs[j], o, result[j])
    BY ReturnFacts, JobState DEF DBAgeReturns, Goto, Moves, shared, Flagged
  <1> HIDE DEF degr
  <1>8. /\ o \in ScannedType /\ o.err = scanned[j].err /\ o.leak = scanned[j].leak
        /\ o.truncated = scanned[j].truncated /\ o.interrupted = scanned[j].interrupted
        /\ o.basis = scanned[j].basis /\ o.degr = degr
    BY <1>2, <1>5, FlaggedFields
  <1> HIDE DEF o
  <1>9. "accept" \in Steps /\ "accept" \notin Early /\ "accept" \notin Late
    BY DEF Steps, Early, Late
  <1>10. At(j, "accept", jctx[j], sctx[j], NoRun, dirs[j], o, result[j])
    BY <1>2, <1>7, <1>8, <1>9, NoRunFacts, JobStep
  <1>11. plan' = plan /\ ready' = ready /\ db' = db
    BY <1>7 DEF Moves
  <1>12. FlowInv(j)' /\ CtxInv(j)' /\ DirInv(j)'
    BY <1>1, <1>2, <1>10, <1>11 DEF JobInv, FlowInv, CtxInv, DirInv, At, Fetched
  <1>13. RunInv(j)'
    BY <1>10, <1>11, NoRunFacts DEF RunInv, RunFit, At
  <1>14. HomeInv(j)'
    BY <1>1, <1>2, <1>3, <1>10, <1>11, NoRunFacts DEF JobInv, HomeInv, At
  <1>15. ScanInv(j)'
    BY <1>1, <1>2, <1>3, <1>6, <1>8, <1>9, <1>10, <1>11 DEF JobInv, ScanInv, At
  <1>16. ResultInv(j)'
    <2>1. result[j] = NoResult
      BY <1>1, <1>2 DEF JobInv, ResultInv, Late
    <2>2. QED
      BY <1>9, <1>10, <1>11, <2>1, BlankFacts DEF ResultInv, Fit, At
  <1>17. JobInv(j)'
    BY <1>12, <1>13, <1>14, <1>15, <1>16 DEF JobInv
  <1>18. QED
    BY <1>2, <1>7, <1>8, <1>9, <1>17, NoRunFacts, MoveOn

\* An adapter's Scan refuses a report or keeps one that is whole and carries
\* nothing of the target's; a database it calls invalid is not kept.
ScanFit(a, o, r) ==
    /\ r.err \in {"ok", "exit"} /\ r.degr \in SUBSET Degradations
    /\ r.err = "ok" => /\ r.leak = {}
                       /\ o.report = "whole" \/ (o.report = "empty" /\ a = "gitleaks")
                       /\ o.degr \subseteq r.degr
                       /\ a = "grype" => o.basis # "invalid" /\ Assess(db["grype"]) \subseteq r.degr

LEMMA ScanFacts ==
  ASSUME NEW a \in Adapters, NEW o \in ScannedType, o.leak \subseteq LeakOf(a),
         a = "grype" => Assess(db["grype"]) \subseteq Degradations
  PROVE  ScanFit(a, o, Scan(a, o))
  <1>1. /\ o.degr \in SUBSET Degradations /\ {} \in SUBSET Degradations
        /\ o.degr \union {"output_truncated"} \in SUBSET Degradations
    BY DEF ScannedType, Degradations
  <1>2. ASSUME NEW degr \in SUBSET Degradations
        PROVE  ScanFit(a, o, Refuse(degr))
    BY DEF ScanFit, Refuse, FailWith
  <1>3. CASE a = "gitleaks"
    <2>1. Scan(a, o) = GitleaksScan(o)
      BY <1>3 DEF Scan
    <2>2. ParseReport(o) /\ AssertRedacted(o.leak) => ScanFit(a, o, Keep(o.degr, o.leak))
      BY <1>1, <1>3 DEF ParseReport, AssertRedacted, ScanFit, Keep, LeakOf
    <2>3. QED
      BY <1>1, <1>2, <2>1, <2>2 DEF GitleaksScan, Discard
  <1>4. CASE a = "grype"
    <2> DEFINE degr == o.degr \union Assess(db["grype"])
    <2>1. Scan(a, o) = GrypeScan(o)
      BY <1>4 DEF Scan
    <2>2. degr \in SUBSET Degradations
      BY <1>1, <1>4
    <2>3. Valid(o) /\ ~InvalidDatabase(o) => ScanFit(a, o, Keep(degr, o.leak))
      BY <1>1, <1>4, <2>2 DEF Valid, InvalidDatabase, ScanFit, Keep, LeakOf
    <2>4. QED
      BY <1>1, <1>2, <2>1, <2>2, <2>3 DEF GrypeScan
  <1>5. CASE a = "semgrep"
    <2>1. Scan(a, o) = SemgrepScan(o)
      BY <1>5 DEF Scan
    <2>2. Valid(o) /\ AssertNoMatchedSource(o.leak) /\ AssertNoWorkspacePaths(o.leak) =>
            ScanFit(a, o, Keep(o.degr, o.leak))
      BY <1>1, <1>5 DEF Valid, AssertNoMatchedSource, AssertNoWorkspacePaths, ScanFit, Keep, LeakOf
    <2>3. QED
      BY <1>1, <1>2, <2>1, <2>2 DEF SemgrepScan, Discard
  <1>6. CASE a = "syft"
    <2>1. Scan(a, o) = SyftScan(o)
      BY <1>6 DEF Scan
    <2>2. Valid(o) /\ AssertNoWorkspacePaths(o.leak) => ScanFit(a, o, Keep(o.degr, o.leak))
      BY <1>1, <1>6 DEF Valid, AssertNoWorkspacePaths, ScanFit, Keep, LeakOf
    <2>3. QED
      BY <1>1, <1>2, <2>1, <2>2 DEF SyftScan, Discard
  <1>7. CASE a \in {"trivy_fs", "trivy_image"}
    <2> DEFINE left == RedactSourceContent(o.leak)
    <2>1. Scan(a, o) = TrivyScan(o)
      BY <1>7 DEF Scan
    <2>2. Valid(o) /\ AssertNoSourceContent(left) /\ AssertNoWorkspacePaths(left) =>
            ScanFit(a, o, Keep(o.degr, left))
      BY <1>1, <1>7 DEF Valid, AssertNoSourceContent, AssertNoWorkspacePaths, ScanFit, Keep, LeakOf,
         RedactSourceContent
    <2>3. QED
      BY <1>1, <1>2, <2>1, <2>2 DEF TrivyScan, Discard
  <1>8. CASE a = "zap"
    <2> DEFINE left == RedactTargetContent(o.leak)
    <2>1. Scan(a, o) = ZapScan(o)
      BY <1>8 DEF Scan
    <2>2. Valid(o) /\ AssertNoTargetContent(left) => ScanFit(a, o, Keep(o.degr, left))
      BY <1>1, <1>8 DEF Valid, AssertNoTargetContent, ScanFit, Keep, LeakOf, RedactTargetContent
    <2>3. QED
      BY <1>1, <1>2, <2>1, <2>2 DEF ZapScan, Discard
  <1>9. QED
    BY <1>3, <1>4, <1>5, <1>6, <1>7, <1>8 DEF Adapters

LEMMA StoredFacts ==
  ASSUME NEW degr \in SUBSET Degradations, NEW r, r.degr = degr, r.leak = {}
  PROVE  /\ Stored(r) \in ResultType /\ Stored(r).stored /\ Stored(r).status = "succeeded"
         /\ Stored(r).error = "" /\ Stored(r).leak = {} /\ Stored(r).degr = degr
  BY DEF Stored, ResultType, Errors

LEMMA InvAccept ==
  ASSUME AdaptersInv, NEW j \in Jobs, Accept(j)
  PROVE  AdaptersInv'
  <1> DEFINE o == scanned[j]
             r == IF o.err = "ok" THEN Scan(plan[j], o) ELSE FailWith(o.err, o.degr)
  <1>1. step[j] = "accept" /\ ready /\ plan[j] # "none"
    BY JobIsOn DEF Accept
  <1>2. /\ jctx[j] \in Ctx /\ sctx[j] \in Ctx /\ dirs[j] \in Dirs /\ o \in ScannedType
        /\ JobInv(j) /\ plan[j] \in Adapters /\ j # None
    BY <1>1, JobState
  <1>3. run[j] = NoRun
    BY <1>1, BetweenRuns DEF Subprocess
  <1>4. /\ o.truncated <=> o.err = "too_large"
        /\ o.err = "cancelled" => jctx[j] = "canceled" \/ o.interrupted
        /\ o.leak \subseteq LeakOf(plan[j])
    BY <1>2 DEF JobInv, ScanInv
  <1>5. plan[j] = "grype" => db["grype"] \in DBStates
    BY DatabaseRead DEF Tools, Database
  <1>6. ScanFit(plan[j], o, Scan(plan[j], o))
    BY <1>2, <1>4, <1>5, AssessFacts, ScanFacts
  <1>7. UNCHANGED <<plan, ready, rules, db, jctx, sctx, run, scanned>>
    BY DEF Accept, shared
  <1>8. CASE r.err # "ok" /\ ScanFails(j, r.err, r.degr)
    <2>1. /\ r.err \in RunErrors /\ r.degr \in SUBSET Degradations
          /\ r.err = "too_large" <=> o.truncated
          /\ r.err = "cancelled" => jctx[j] = "canceled" \/ o.interrupted
      <3>1. CASE o.err = "ok"
        BY <1>4, <1>6, <1>8, <3>1 DEF ScanFit, RunErrors
      <3>2. CASE o.err # "ok"
        <4>1. r.err = o.err /\ r.degr = o.degr
          BY <3>2 DEF FailWith
        <4>2. o.err \in RunErrors /\ o.degr \in SUBSET Degradations
          BY <1>2 DEF ScannedType
        <4>3. QED
          BY <1>4, <4>1, <4>2
      <3>3. QED
        BY <3>1, <3>2
    <2> HIDE DEF r
    <2>2. QED
      BY <1>1, <1>3, <1>7, <1>8, <2>1, ScanFailsStep
  <1>9. CASE /\ r.err = "ok" /\ result' = [result EXCEPT ![j] = Stored(r)]
             /\ dirs' = [dirs EXCEPT ![j] = dirs[j] \ {"report", "run"}]
             /\ home' = Released(j)
             /\ Goto(j, IF plan[j] = "trivy_image" THEN "inventory" ELSE "finish")
    <2> DEFINE s == IF plan[j] = "trivy_image" THEN "inventory" ELSE "finish"
               d == dirs[j] \ {"report", "run"}
               res == Stored(r)
    <2>1. o.err = "ok" /\ r = Scan(plan[j], o)
      BY <1>9 DEF FailWith
    <2>2. /\ r.degr \in SUBSET Degradations /\ r.leak = {} /\ o.degr \subseteq r.degr
          /\ o.report = "whole" \/ (o.report = "empty" /\ plan[j] = "gitleaks")
          /\ plan[j] = "grype" => o.basis # "invalid" /\ Assess(db["grype"]) \subseteq r.degr
      BY <1>6, <1>9, <2>1 DEF ScanFit
    <2>3. plan[j] \in Tools /\ r.degr = {} => o.basis = "fresh"
      <3>1. CASE plan[j] = "grype"
        <4>1. r.degr = {} => db["grype"] \in {"fresh", "invalid"}
          BY <1>5, <2>2, <3>1, AssessFacts
        <4>2. \/ o.basis = db["grype"]
              \/ o.basis = "fresh" /\ db["grype"] = "stale"
          BY <1>1, <1>2, <3>1 DEF JobInv, ScanInv, Tools, Database
        <4>3. QED
          BY <2>2, <3>1, <4>1, <4>2
      <3>2. CASE plan[j] = "trivy_image"
        BY <1>1, <1>2, <2>2, <3>2 DEF JobInv, ScanInv
      <3>3. QED
        BY <3>1, <3>2 DEF Tools
    <2>4. /\ s \in Steps /\ s \notin Early /\ s \in Late
          /\ s \in {"inventory", "finish"} /\ (s = "inventory" => plan[j] = "trivy_image")
      BY DEF Steps, Subprocess, Early, Late
    <2>5. d \in Dirs /\ "run" \notin d
      BY <1>2 DEF Dirs
    <2>6. home' # j /\ (home' = home \/ (home = j /\ home' = None))
      BY <1>2, <1>9 DEF Released
    <2>7. Moves(j, s, jctx[j], sctx[j], NoRun, d, o, res)
      BY <1>3, <1>7, <1>9, <2>6, JobState DEF Goto, Moves
    <2> HIDE DEF r, s, d
    <2>8. /\ res \in ResultType /\ res.stored /\ res.status = "succeeded" /\ res.error = ""
          /\ res.leak = {} /\ res.degr = r.degr
      BY <2>2, StoredFacts
    <2> HIDE DEF res
    <2>9. At(j, s, jctx[j], sctx[j], NoRun, d, o, res)
      BY <1>2, <2>4, <2>5, <2>7, <2>8, NoRunFacts, JobStep
    <2>10. plan' = plan /\ ready' = ready /\ db' = db
      BY <1>7
    <2>11. FlowInv(j)' /\ CtxInv(j)' /\ DirInv(j)'
      BY <1>1, <1>2, <2>4, <2>5, <2>9, <2>10 DEF JobInv, FlowInv, CtxInv, DirInv, At, Fetched
    <2>12. RunInv(j)'
      BY <2>9, <2>10, NoRunFacts DEF RunInv, RunFit, At
    <2>13. HomeInv(j)'
      BY <2>4, <2>6, <2>9, <2>10, NoRunFacts DEF HomeInv, At
    <2>14. ScanInv(j)'
      BY <1>2, <2>4, <2>9, <2>10 DEF JobInv, ScanInv, At
    <2>15. ResultInv(j)'
      BY <1>4, <2>1, <2>2, <2>3, <2>4, <2>8, <2>9, <2>10 DEF ResultInv, Cause, Fit, At
    <2>16. JobInv(j)'
      BY <2>11, <2>12, <2>13, <2>14, <2>15 DEF JobInv
    <2>17. QED
      BY <1>2, <2>4, <2>5, <2>7, <2>8, <2>16, NoRunFacts, MoveOn
  <1>10. QED
    BY <1>8, <1>9 DEF Accept

Inventoried(r, ok) == [r EXCEPT !.inventory = ok]

LEMMA InventoriedFields ==
  ASSUME NEW r \in ResultType, NEW ok \in BOOLEAN
  PROVE  LET w == Inventoried(r, ok)
         IN  /\ w \in ResultType /\ w.stored = r.stored /\ w.status = r.status
             /\ w.error = r.error /\ w.degr = r.degr /\ w.leak = r.leak
  BY DEF Inventoried, ResultType

\* The two last steps of a job keep what it has to report.
LEMMA LastStep ==
  ASSUME AdaptersInv, NEW j \in Jobs, step[j] \in {"inventory", "finish"},
         NEW s \in {"finish", "done"}, NEW d \in Dirs, "run" \notin d, s = "done" => d = {},
         NEW r \in ResultType, r.stored = result[j].stored, r.status = result[j].status,
         r.error = result[j].error, r.degr = result[j].degr, r.leak = result[j].leak,
         home' = home, Moves(j, s, jctx[j], sctx[j], NoRun, d, scanned[j], r)
  PROVE  AdaptersInv'
  <1>1. JobInv(j) /\ jctx[j] \in Ctx /\ sctx[j] \in Ctx /\ scanned[j] \in ScannedType
        /\ ready /\ plan[j] # "none"
    BY JobState, JobIsOn
  <1>2. s \in Steps /\ s \in Late /\ s \notin Early /\ step[j] \in Late
    BY DEF Early, Late, Steps, Subprocess
  <1>3. At(j, s, jctx[j], sctx[j], NoRun, d, scanned[j], r)
    BY <1>1, <1>2, NoRunFacts, JobStep
  <1>4. plan' = plan /\ ready' = ready /\ db' = db
    BY DEF Moves
  <1>5. FlowInv(j)' /\ CtxInv(j)' /\ DirInv(j)'
    BY <1>1, <1>3, <1>4 DEF JobInv, FlowInv, CtxInv, DirInv, At, Fetched
  <1>6. RunInv(j)'
    BY <1>3, <1>4, NoRunFacts DEF RunInv, RunFit, At
  <1>7. HomeInv(j)'
    BY <1>1, <1>3, <1>4, NoRunFacts DEF JobInv, HomeInv, At
  <1>8. ScanInv(j)'
    BY <1>1, <1>2, <1>3, <1>4 DEF JobInv, ScanInv, At
  <1>9. ResultInv(j)'
    BY <1>1, <1>2, <1>3, <1>4 DEF JobInv, ResultInv, Fit, Cause, At
  <1>10. JobInv(j)'
    BY <1>5, <1>6, <1>7, <1>8, <1>9 DEF JobInv
  <1>11. QED
    BY <1>1, <1>2, <1>10, NoRunFacts, MoveOn

LEMMA InvInventory ==
  ASSUME AdaptersInv, NEW j \in Jobs, InventoryReturns(j)
  PROVE  AdaptersInv'
  <1> DEFINE ok == RunError(j) = "ok"
             r == Inventoried(result[j], ok)
  <1>1. step[j] = "inventory" /\ home' = home /\ ok \in BOOLEAN
    BY DEF InventoryReturns
  <1>2. result[j] \in ResultType /\ dirs[j] \in Dirs /\ "run" \notin dirs[j]
    BY <1>1, JobState DEF JobInv, DirInv
  <1>3. Moves(j, "finish", jctx[j], sctx[j], NoRun, dirs[j], scanned[j], r)
    BY ReturnFacts, JobState DEF InventoryReturns, Goto, Moves, shared, Inventoried
  <1> HIDE DEF ok
  <1>4. /\ r \in ResultType /\ r.stored = result[j].stored /\ r.status = result[j].status
        /\ r.error = result[j].error /\ r.degr = result[j].degr /\ r.leak = result[j].leak
    BY <1>1, <1>2, InventoriedFields
  <1> HIDE DEF r
  <1>5. QED
    BY <1>1, <1>2, <1>3, <1>4, LastStep

LEMMA InvFinish ==
  ASSUME AdaptersInv, NEW j \in Jobs, Finish(j)
  PROVE  AdaptersInv'
  <1> DEFINE d == dirs[j] \ {"workspace", "checkout", "report"}
  <1>1. step[j] = "finish" /\ home' = home
    BY DEF Finish
  <1>2. result[j] \in ResultType /\ d = {} /\ d \in Dirs
    BY <1>1, JobState DEF JobInv, DirInv, Dirs
  <1>3. run[j] = NoRun
    BY <1>1, BetweenRuns DEF Subprocess
  <1>4. Moves(j, "done", jctx[j], sctx[j], NoRun, d, scanned[j], result[j])
    BY <1>3, JobState DEF Finish, Goto, Moves, shared
  <1> HIDE DEF d
  <1>5. QED
    BY <1>1, <1>2, <1>4, LastStep

-----------------------------------------------------------------------------
(* What the jobs share *)

\* A step that leaves every job alone.
JobsKept == UNCHANGED <<plan, step, jctx, sctx, run, home, dirs, scanned, result>>

LEMMA InvProvision ==
  ASSUME AdaptersInv, Provision
  PROVE  AdaptersInv'
  <1>1. ~ready /\ ready' = TRUE /\ JobsKept
    BY DEF Provision, JobsKept
  <1>2. plan' = plan /\ Consulted' = Consulted
    BY <1>1 DEF JobsKept, Consulted
  <1>3. db' \in [Consulted -> DBStates]
    BY DEF Provision
  <1>4. rules' \subseteq {Rulesets[i] : i \in DOMAIN Rulesets}
    <2>1. PICK n \in 0..Len(Wanted) : rules' = rules \union FetchRuleset(n)
      BY DEF Provision, SemgrepProvision
    <2>2. FetchRuleset(n) \subseteq {Rulesets[i] : i \in DOMAIN Rulesets}
      <3>1. CASE Wanted = Rulesets
        BY <2>1, <3>1, AdaptersAssumption DEF FetchRuleset
      <3>2. CASE Wanted = <<>>
        BY <2>1, <3>2 DEF FetchRuleset
      <3>3. QED
        BY <3>1, <3>2 DEF Wanted
    <2>3. QED
      BY <2>1, <2>2 DEF AdaptersInv, TypeOK
  <1>5. TypeOK'
    BY <1>1, <1>2, <1>3, <1>4 DEF AdaptersInv, TypeOK, JobsKept
  <1>6. DBInv'
    <2>1. SUFFICES ASSUME NEW a \in Consulted, a # "grype"
                   PROVE  db'[a] # "invalid"
      BY <1>2 DEF DBInv
    <2>2. a = "trivy" /\ db[a] # "invalid"
      BY <2>1 DEF AdaptersInv, DBInv, Consulted, Database
    <2>3. db'[a] \in TrivyProvision
      BY <2>1 DEF Provision
    <2>4. QED
      BY <2>2, <2>3 DEF TrivyProvision
  <1>7. ASSUME NEW j \in Jobs
        PROVE  JobInv(j)'
    <2>1. JobInv(j) /\ step[j] \in {"idle", "done"}
      BY <1>1 DEF AdaptersInv, JobInv, FlowInv
    <2>2. FlowInv(j)' /\ CtxInv(j)' /\ DirInv(j)'
      BY <1>1, <2>1 DEF JobInv, FlowInv, CtxInv, DirInv, Fetched, JobsKept
    <2>3. RunInv(j)' /\ HomeInv(j)'
      BY <1>1, <2>1 DEF JobInv, RunInv, RunFit, HomeInv, JobsKept
    <2>4. ScanInv(j)'
      BY <1>1, <2>1 DEF JobInv, ScanInv, JobsKept
    <2>5. ResultInv(j)'
      BY <1>1, <2>1 DEF JobInv, ResultInv, Cause, Fit, JobsKept
    <2>6. QED
      BY <2>2, <2>3, <2>4, <2>5 DEF JobInv
  <1>8. QED
    BY <1>5, <1>6, <1>7 DEF AdaptersInv

LEMMA InvAge ==
  ASSUME AdaptersInv, Age
  PROVE  AdaptersInv'
  <1>1. JobsKept /\ ready' = ready /\ rules' = rules
    BY DEF Age, JobsKept
  <1>2. Consulted' = Consulted /\ db \in [Consulted -> DBStates]
    BY <1>1 DEF JobsKept, Consulted, AdaptersInv, TypeOK
  <1>3. PICK a \in Consulted : db[a] = "fresh" /\ db' = [db EXCEPT ![a] = "stale"]
    BY <1>2 DEF Age
  <1>4. /\ db' \in [Consulted -> DBStates]
        /\ \A b \in Consulted : db'[b] = db[b] \/ (db[b] = "fresh" /\ db'[b] = "stale")
    BY <1>2, <1>3 DEF DBStates
  <1>5. TypeOK'
    BY <1>1, <1>2, <1>4 DEF AdaptersInv, TypeOK, JobsKept
  <1>6. DBInv'
    BY <1>2, <1>4 DEF AdaptersInv, DBInv
  <1>7. ASSUME NEW j \in Jobs
        PROVE  JobInv(j)'
    <2>1. JobInv(j)
      BY DEF AdaptersInv
    <2>2. FlowInv(j)' /\ CtxInv(j)' /\ DirInv(j)'
      BY <1>1, <2>1 DEF JobInv, FlowInv, CtxInv, DirInv, Fetched, JobsKept
    <2>3. RunInv(j)' /\ HomeInv(j)'
      BY <1>1, <2>1 DEF JobInv, RunInv, RunFit, HomeInv, JobsKept
    <2>4. ScanInv(j)'
      <3>1. plan[j] \in Tools => Database(plan[j]) \in Consulted
        BY DatabaseRead
      <3>2. QED
        BY <1>1, <1>4, <2>1, <3>1 DEF JobInv, ScanInv, JobsKept
    <2>5. ResultInv(j)'
      BY <1>1, <2>1 DEF JobInv, ResultInv, Cause, Fit, JobsKept
    <2>6. QED
      BY <2>2, <2>3, <2>4, <2>5 DEF JobInv
  <1>8. QED
    BY <1>5, <1>6, <1>7 DEF AdaptersInv

-----------------------------------------------------------------------------
(* The invariant *)

LEMMA InitInv == Init => AdaptersInv
  <1> SUFFICES ASSUME Init
               PROVE  AdaptersInv
    OBVIOUS
  <1>1. TypeOK
    <2>1. {Wanted[i] : i \in DOMAIN Wanted} \subseteq {Rulesets[i] : i \in DOMAIN Rulesets}
      <3>1. CASE Wanted = Rulesets
        BY <3>1
      <3>2. CASE Wanted = <<>>
        BY <3>2
      <3>3. QED
        BY <3>1, <3>2 DEF Wanted
    <2>2. rules \subseteq {Rulesets[i] : i \in DOMAIN Rulesets}
      BY <2>1 DEF Init
    <2>3. step \in [Jobs -> Steps] /\ jctx \in [Jobs -> Ctx] /\ sctx \in [Jobs -> Ctx]
      BY DEF Init, Steps, Ctx
    <2>4. run \in [Jobs -> RunType] /\ scanned \in [Jobs -> ScannedType] /\ result \in [Jobs -> ResultType]
      BY NoRunFacts, BlankFacts DEF Init
    <2>5. QED
      BY <2>2, <2>3, <2>4 DEF Init, TypeOK
  <1>2. DBInv
    BY DEF Init, DBInv
  <1>3. ASSUME NEW j \in Jobs
        PROVE  JobInv(j)
    <2>1. /\ step[j] \in {"idle", "done"} /\ (plan[j] = "none" => step[j] = "done")
          /\ sctx[j] = "live" /\ run[j] = NoRun /\ home = None /\ dirs[j] = {}
          /\ scanned[j] = NotScanned /\ result[j] = NoResult /\ home # j
      BY AdaptersAssumption DEF Init
    <2>2. FlowInv(j) /\ CtxInv(j) /\ DirInv(j)
      BY <2>1 DEF FlowInv, CtxInv, DirInv
    <2>3. RunInv(j) /\ HomeInv(j)
      BY <2>1, NoRunFacts DEF RunInv, HomeInv
    <2>4. ScanInv(j) /\ ResultInv(j)
      BY <2>1, BlankFacts DEF ScanInv, ResultInv, Cause, Fit
    <2>5. QED
      BY <2>2, <2>3, <2>4 DEF JobInv
  <1>4. QED
    BY <1>1, <1>2, <1>3 DEF AdaptersInv

LEMMA NextInv == AdaptersInv /\ [Next]_vars => AdaptersInv'
  <1> SUFFICES ASSUME AdaptersInv, [Next]_vars
               PROVE  AdaptersInv'
    OBVIOUS
  <1>1. CASE Provision \/ Age
    BY <1>1, InvProvision, InvAge
  <1>2. ASSUME NEW j \in Jobs,
               Tool(j) \/ Code(j) \/ LockHome(j) \/ JobContextEnds(j) \/ ScanTimesOut(j)
        PROVE  AdaptersInv'
    <2>1. CASE Tool(j) \/ KillGroup(j) \/ RunTimesOut(j)
      BY <2>1, InvRun DEF Tool
    <2>2. CASE LockHome(j) \/ LockGivesUp(j) \/ JobContextEnds(j) \/ ScanTimesOut(j)
      BY <2>2, InvLock, InvContext
    <2>3. CASE Begin(j) \/ Launch(j) \/ CloneReturns(j) \/ Measure(j)
      BY <2>3, InvBegin, InvLaunch, InvClone
    <2>4. CASE HeadReturns(j) \/ BranchReturns(j) \/ ProbeReturns(j) \/ VersionReturns(j) \/ Prepare(j)
      BY <2>4, InvHead, InvVersion, InvPrepare
    <2>5. CASE \/ ScannerReturns(j) \/ DBAgeReturns(j) \/ Accept(j) \/ InventoryReturns(j)
               \/ Finish(j)
      BY <2>5, InvScanner, InvDBAge, InvAccept, InvInventory, InvFinish
    <2>6. QED
      BY <1>2, <2>1, <2>2, <2>3, <2>4, <2>5 DEF Code
  <1>3. CASE UNCHANGED vars
    <2>1. TypeOK' /\ DBInv'
      BY <1>3 DEF vars, AdaptersInv, TypeOK, DBInv, Consulted
    <2>2. ASSUME NEW j \in Jobs
          PROVE  JobInv(j)'
      <3>1. JobInv(j)
        BY DEF AdaptersInv
      <3>2. FlowInv(j)' /\ CtxInv(j)' /\ DirInv(j)' /\ HomeInv(j)'
        BY <1>3, <3>1 DEF vars, JobInv, FlowInv, CtxInv, DirInv, HomeInv, Fetched
      <3>3. RunInv(j)'
        BY <1>3, <3>1 DEF vars, JobInv, RunInv, RunFit
      <3>4. ScanInv(j)' /\ ResultInv(j)'
        BY <1>3, <3>1 DEF vars, JobInv, ScanInv, ResultInv, Cause, Fit
      <3>5. QED
        BY <3>2, <3>3, <3>4 DEF JobInv
    <2>3. QED
      BY <2>1, <2>2 DEF AdaptersInv
  <1>4. QED
    BY <1>1, <1>2, <1>3 DEF Next

\* The inductive invariant holds in every reachable state of the adapters.
THEOREM AdaptersInvHolds == Spec => []AdaptersInv
  BY InitInv, NextInv, PTL DEF Spec

-----------------------------------------------------------------------------
(* The properties *)

\* Whatever is running ZAP holds the one home there is.
LEMMA OneAtHome == AdaptersInv => HomeIsExclusive
  <1> SUFFICES ASSUME AdaptersInv
               PROVE  HomeIsExclusive
    OBVIOUS
  <1> DEFINE S == {j \in Jobs : plan[j] = "zap" /\ run[j].alive # {}}
  <1>1. S \subseteq {home}
    <2>1. SUFFICES ASSUME NEW j \in S
                   PROVE  j = home
      OBVIOUS
    <2>2. run[j].on
      BY <2>1, NoRunFacts DEF AdaptersInv, JobInv, RunInv, RunFit
    <2>3. QED
      BY <2>1, <2>2 DEF AdaptersInv, JobInv, HomeInv
  <1>2. S = {} \/ S = {home}
    BY <1>1
  <1>3. Cardinality(S) = 0 \/ Cardinality(S) = 1
    BY <1>2, FS_EmptySet, FS_Singleton
  <1>4. Cardinality(S) <= 1
    BY <1>3
  <1>5. QED
    BY <1>4 DEF HomeIsExclusive

\* NothingLingers (scanners.Run, lockHome, and the deferred cleanups): for any
\* number of jobs, at most one of them has a ZAP alive, helpers included, and
\* a job that is over left no directory, no process and not ZAP's home.
THEOREM NothingLingersHolds == Spec => []NothingLingers
  <1>1. AdaptersInv => NothingLingers
    <2> SUFFICES ASSUME AdaptersInv
                 PROVE  NothingLingers
      OBVIOUS
    <2>1. ASSUME NEW j \in Jobs, step[j] = "done"
          PROVE  dirs[j] = {} /\ run[j].alive = {} /\ home # j
      <3>1. run[j] = NoRun
        BY <2>1, BetweenRuns DEF Subprocess
      <3>2. dirs[j] = {} /\ home # j
        BY <2>1 DEF AdaptersInv, JobInv, DirInv, HomeInv
      <3>3. QED
        BY <3>1, <3>2, NoRunFacts
    <2>2. QED
      BY <2>1, OneAtHome DEF NothingLingers, NothingLeft, AdaptersInv
  <1>2. QED
    BY <1>1, AdaptersInvHolds, PTL

\* ResultsAreFit (each adapter's Scan and runScanner): for any number of jobs,
\* a stored result comes from a report written in full, checked after its
\* redaction, and one without a degradation from a fresh database.
THEOREM ResultsAreFitHolds == Spec => []ResultsAreFit
  <1>1. AdaptersInv => ResultsAreFit
    <2> SUFFICES ASSUME AdaptersInv, NEW j \in Jobs
                 PROVE  Fit(j)
      BY DEF ResultsAreFit, StoredIsFit, FreshOrFlagged, Fit, Tools
    <2>1. QED
      BY DEF AdaptersInv, JobInv, ResultInv
  <1>2. QED
    BY <1>1, AdaptersInvHolds, PTL

\* CauseIsTrue (scanners.Run's classification and runScanner's switch): the
\* cause a job reports is the cause, however timeouts, cancellation, truncation
\* and the tool's own exit raced.
THEOREM CauseIsTrueHolds == Spec => []CauseIsTrue
  <1>1. AdaptersInv => CauseIsTrue
    <2> SUFFICES ASSUME AdaptersInv, NEW j \in Jobs, step[j] \in Late
                 PROVE  Cause(j)
      BY DEF CauseIsTrue, Cause, Late
    <2>1. QED
      BY DEF AdaptersInv, JobInv, ResultInv
  <1>2. QED
    BY <1>1, AdaptersInvHolds, PTL

===============================================================================
