------------------------ MODULE ScanLifecycleProofs ------------------------
(***************************************************************************)
(* Theorems about ScanLifecycle, for every set of scans, scanners, workers *)
(* and slots, every assignment of kinds and requests and any number of     *)
(* faults of every kind.                                                   *)
(***************************************************************************)
EXTENDS ScanLifecycle, TLAPS

-----------------------------------------------------------------------------
(* Type correctness. *)

LEMMA IdleType == Idle \in Jobs
  BY ConstantsAssumption
  DEF Idle, Jobs, PCs, Outcomes, Usable, Results, NoResults, Statuses, Reasons

LEMMA ResolveType == ASSUME NEW s \in Scans PROVE Resolve(s) \in SUBSET Scanners
  <1>1. EffectiveKind(KindOf[s]) \in EffectiveKinds
    BY ConstantsAssumption DEF EffectiveKind, EffectiveKinds, Kinds
  <1>2. QED
    BY <1>1, ConstantsAssumption DEF Resolve

\* A loop that holds a job and a slot that is not free have a scan in hand,
\* and a slot that ingests has the scanner it ran and its outcome.
HandsFull ==
    /\ \A w \in Workers : loop[w] = "holding" => held[w] \in Scans
    /\ \A j \in Slots :
         /\ jobs[j].pc # "free" => jobs[j].scan \in Scans
         /\ jobs[j].pc = "ingest" => jobs[j].cur \in Scanners /\ jobs[j].out \in Outcomes

TypeInv == TypeOK /\ HandsFull

LEMMA TypeInit == Init => TypeInv
  <1>1. Init => TypeOK
    BY IdleType, ConstantsAssumption
    DEF Init, TypeOK, Rows, Results, NoResults, Levels, Statuses, ActiveStatuses,
        Reasons
  <1>2. Init => HandsFull
    BY DEF Init, HandsFull, Idle
  <1>3. QED
    BY <1>1, <1>2 DEF TypeInv

\* The steps of POST /scans.
LEMMA TypeHandler ==
  ASSUME TypeOK, NEW s \in Scans, CreateScan(s) \/ HandlerStep(s) \/ HandlerFault(s)
  PROVE  TypeOK'
  <1> USE DEF dbVars, loopVars, NoFault
  <1>0. faults' \in 0..MaxFaults
    BY ConstantsAssumption DEF TypeOK, CreateScan, HandlerStep, HandlerFault, EnqueueOK, EnqueueError,
           FailUnqueued, Disconnect, APICrash, Fault
  <1>t. row \in [Scans -> Rows] /\ queue \in Seq(Scans)
    BY DEF TypeOK
  <1>1. CASE CreateScan(s)
    <2>1. row' \in [Scans -> Rows]
      BY <1>1, <1>t DEF CreateScan, Rows, Statuses, ActiveStatuses
    <2>2. QED
      BY <1>0, <1>1, <2>1 DEF CreateScan, TypeOK
  <1>2. CASE EnqueueOK(s)
    <2>0. Append(queue, s) \in Seq(Scans) /\ Append(Append(queue, s), s) \in Seq(Scans)
      BY <1>t
    <2>1. queue' \in Seq(Scans)
      BY <1>2, <2>0 DEF EnqueueOK
    <2>2. QED
      BY <1>0, <1>2, <2>1 DEF EnqueueOK, TypeOK
  <1>3. CASE FailUnqueued(s)
    <2>1. row' \in [Scans -> Rows]
      BY <1>3, <1>t DEF FailUnqueued, FinalizeRow, Rows, Statuses,
                  TerminalStatuses, Reasons
    <2>2. QED
      BY <1>0, <1>3, <2>1 DEF FailUnqueued, TypeOK
  <1>4. CASE EnqueueError(s)
    <2>1. queue' \in Seq(Scans)
      BY <1>4, <1>t DEF EnqueueError
    <2>2. QED
      BY <1>0, <1>4, <2>1 DEF EnqueueError, TypeOK
  <1>5. CASE Disconnect(s)
    BY <1>0, <1>5 DEF Disconnect, TypeOK
  <1>6. CASE APICrash(s)
    BY <1>0, <1>6 DEF APICrash, TypeOK
  <1>7. QED
    BY <1>1, <1>2, <1>3, <1>4, <1>5, <1>6 DEF HandlerStep, HandlerFault

\* No step of POST /scans touches a worker.
LEMMA HandlerFrame ==
  ASSUME NEW s \in Scans, CreateScan(s) \/ HandlerStep(s) \/ HandlerFault(s)
  PROVE  UNCHANGED <<results, stored, recorded, risk, verdict, ctx, loop, held, jobs>>
  BY DEF CreateScan, HandlerStep, HandlerFault, EnqueueOK, EnqueueError,
         FailUnqueued, Disconnect, APICrash, dbVars, loopVars

\* The steps of Runner.Run.
LEMMA TypeLoop ==
  ASSUME TypeInv, NEW w \in Workers, LoopStep(w) \/ LoopFault(w)
  PROVE  TypeInv'
  <1>. TypeOK /\ HandsFull
    BY DEF TypeInv
  <1> USE DEF dbVars, loopVars, NoFault
  <1>0. faults' \in 0..MaxFaults
    BY ConstantsAssumption
    DEF TypeOK, LoopStep, LoopFault, Dequeue, StartJob, DropJob, StopConsuming,
        Drained, Restart, Shutdown, Crash, Fault
  <1>t. /\ queue \in Seq(Scans)
        /\ held \in [Workers -> Scans \union {NoScan}]
        /\ loop \in [Workers -> {"consume", "holding", "drain", "down"}]
        /\ jobs \in [Slots -> Jobs]
    BY DEF TypeOK
  <1>1. CASE Dequeue(w)
    <2>1. queue' \in Seq(Scans) /\ held' \in [Workers -> Scans \union {NoScan}]
      BY <1>1, <1>t DEF Dequeue
    <2>2. HandsFull'
      <3>1. Head(queue) \in Scans
        BY <1>1, <1>t DEF Dequeue
      <3>2. QED
        BY <1>1, <1>t, <3>1 DEF Dequeue, HandsFull
    <2>3. QED
      BY <1>0, <1>1, <2>1, <2>2 DEF Dequeue, TypeInv, TypeOK
  <1>2. ASSUME NEW j \in Slots, StartJob(w, j) PROVE TypeInv'
    <2>1. /\ jobs' \in [Slots -> Jobs]
          /\ jobs'[j].pc = "validate"
          /\ jobs'[j].scan = held[w]
          /\ \A i \in Slots \ {j} : jobs'[i] = jobs[i]
      <3>1. [Idle EXCEPT !.pc = "validate", !.scan = held[w]] \in Jobs
        BY <1>t, IdleType DEF Jobs, PCs
      <3>2. QED
        BY <1>2, <1>t, <3>1, Zenon DEF StartJob, Idle
    <2>2. HandsFull'
      <3>1. loop'[w] # "holding" /\ \A v \in Workers \ {w} : loop'[v] = loop[v] /\ held'[v] = held[v]
        BY <1>2, <1>t DEF StartJob
      <3>2. held[w] \in Scans
        BY <1>2 DEF StartJob, HandsFull
      <3>3. QED
        BY <2>1, <3>1, <3>2 DEF HandsFull
    <2>3. QED
      BY <1>0, <1>2, <2>1, <2>2 DEF StartJob, TypeInv, TypeOK
  <1>3. CASE DropJob(w)
    BY <1>0, <1>3 DEF DropJob, TypeInv, TypeOK, HandsFull
  <1>4. CASE StopConsuming(w)
    BY <1>0, <1>4 DEF StopConsuming, TypeInv, TypeOK, HandsFull
  <1>5. CASE Drained(w)
    BY <1>0, <1>5 DEF Drained, TypeInv, TypeOK, HandsFull
  <1>6. CASE Restart(w)
    BY <1>0, <1>6 DEF Restart, TypeInv, TypeOK, HandsFull
  <1>7. CASE Shutdown(w)
    BY <1>0, <1>7 DEF Shutdown, TypeInv, TypeOK, HandsFull
  <1>8. CASE Crash(w)
    <2>1. jobs' \in [Slots -> Jobs]
      BY <1>8, <1>t, IdleType DEF Crash
    <2>2. HandsFull'
      BY <1>8, <1>t DEF Crash, HandsFull, Idle, TypeOK
    <2>3. QED
      BY <1>0, <1>8, <2>1, <2>2 DEF Crash, TypeInv, TypeOK
  <1>9. QED
    BY <1>1, <1>2, <1>3, <1>4, <1>5, <1>6, <1>7, <1>8 DEF LoopStep, LoopFault

\* What a step of the job in slot j does to the slots: it works on the scan it
\* has or frees the slot, and it leaves every other slot alone.
SlotStep(j) ==
    /\ jobs' \in [Slots -> Jobs]
    /\ \A i \in Slots \ {j} : jobs'[i] = jobs[i]
    /\ jobs'[j].pc # "free" => jobs[j].pc # "free" /\ jobs'[j].scan = jobs[j].scan
    /\ jobs'[j].pc = "ingest" => jobs'[j].cur \in Scanners /\ jobs'[j].out \in Outcomes

LEMMA JobSlotStep ==
  ASSUME TypeInv, NEW j \in Slots, JobStep(j) \/ JobFault(j)
  PROVE  SlotStep(j)
  <1>t. /\ jobs \in [Slots -> Jobs]
        /\ jobs[j] \in Jobs
        /\ jobs[j].pc # "free" => jobs[j].scan \in Scans
        /\ jobs[j].pc = "ingest" => jobs[j].cur \in Scanners /\ jobs[j].out \in Outcomes
    BY DEF TypeInv, TypeOK, HandsFull
  <1>f. ASSUME jobs' = [jobs EXCEPT ![j] = Idle] PROVE SlotStep(j)
    BY <1>f, <1>t, IdleType DEF SlotStep, Idle
  <1>s. ASSUME NEW reason \in Reasons, jobs[j].pc # "free", FailJob(j, reason)
        PROVE  SlotStep(j)
    BY <1>s, <1>t, ZenonT(60) DEF SlotStep, FailJob, Jobs, PCs, Statuses, TerminalStatuses
  <1>1. CASE Validate(j)
    <2>1. Resolve(jobs[j].scan) \in SUBSET Scanners
      BY <1>1, <1>t, ResolveType DEF Validate
    <2>2. CASE jobs' = [jobs EXCEPT ![j].pc = "mark", ![j].todo = Resolve(jobs[j].scan)]
      BY <1>1, <1>t, <2>1, <2>2 DEF Validate, SlotStep, Jobs, PCs
    <2>3. CASE \E reason \in {"target_invalid", "no_scanner", "not_registered"} : FailJob(j, reason)
      BY <1>1, <1>s, <2>3 DEF Validate, Reasons
    <2>4. QED
      BY <1>1, <2>2, <2>3 DEF Validate
  <1>2. CASE MarkRunning(j)
    BY <1>2, <1>t DEF MarkRunning, SlotStep, Jobs, PCs
  <1>3. CASE NotMarked(j) \/ Finalize(j) \/ Panic(j)
    BY <1>3, <1>f DEF NotMarked, Finalize, Panic
  <1>4. CASE FetchFailed(j)
    BY <1>4, <1>s DEF FetchFailed, Reasons
  <1>5. CASE Fetched(j)
    BY <1>5, <1>t DEF Fetched, SlotStep, Jobs, PCs
  <1>6. ASSUME NEW n \in Scanners, RunScanner(j, n) PROVE SlotStep(j)
    BY <1>6, <1>t DEF RunScanner, SlotStep, Jobs, PCs
  <1>7. CASE BreakLoop(j)
    BY <1>7, <1>t DEF BreakLoop, SlotStep, Jobs, PCs
  <1>8. CASE Ingest(j)
    <2>0. jobs[j].pc = "ingest" /\ jobs[j].cur \in Scanners
      BY <1>8, <1>t DEF Ingest
    <2>1. PICK lands : \E out \in IngestOutcomes(jobs[j].out, lands) :
            jobs' = [jobs EXCEPT ![j] = Ingested(jobs[j], out, lands)]
      BY <1>8 DEF Ingest
    <2>a. PICK out \in Outcomes :
            jobs' = [jobs EXCEPT ![j] = Ingested(jobs[j], out, lands)]
      BY <1>t, <2>0, <2>1 DEF IngestOutcomes, Outcomes, Usable
    <2>2. [jobs[j].res EXCEPT ![jobs[j].cur] = out] \in Results
      BY <1>t DEF Jobs, Results
    <2>3. /\ Ingested(jobs[j], out, lands) \in Jobs
          /\ Ingested(jobs[j], out, lands).pc \notin {"free", "ingest"}
          /\ Ingested(jobs[j], out, lands).scan = jobs[j].scan
      BY <1>t, <2>0, <2>2 DEF Ingested, Jobs, PCs
    <2>4. QED
      BY <1>t, <2>0, <2>a, <2>3 DEF SlotStep
  <1>9. CASE PersistFindings(j) \/ NotPersisted(j)
    BY <1>9, <1>t DEF PersistFindings, NotPersisted, SlotStep, Jobs, PCs
  <1>10. CASE Score(j)
    BY <1>10, <1>t DEF Score, SlotStep, Jobs, PCs
  <1>11. CASE Settle(j)
    BY <1>11, <1>t, ZenonT(60) DEF Settle, SlotStep, Jobs, PCs, TerminalStatus, Statuses, TerminalStatuses, Reasons
  <1>12. CASE Gate(j) \/ NoGate(j)
    BY <1>12, <1>t DEF Gate, NoGate, SlotStep, Jobs, PCs
  <1>13. CASE JobDeadline(j)
    BY <1>13, <1>t DEF JobDeadline, SlotStep, Jobs
  <1>14. QED
    BY <1>1, <1>2, <1>3, <1>4, <1>5, <1>6, <1>7, <1>8, <1>9, <1>10, <1>11, <1>12, <1>13
    DEF JobStep, JobFault

\* What a step of executeJob leaves to others.
LEMMA JobFrame ==
  ASSUME NEW j \in Slots, JobStep(j) \/ JobFault(j)
  PROVE  UNCHANGED <<api, queue, ctx, loop, held>>
  BY DEF JobStep, JobFault, Validate, MarkRunning, NotMarked, FetchFailed, Fetched,
         RunScanner, BreakLoop, Ingest, PersistFindings, NotPersisted, Score, Settle, Gate,
         NoGate, Finalize, JobDeadline, Panic, dbVars, loopVars

\* The steps of executeJob.
LEMMA TypeJob ==
  ASSUME TypeInv, NEW j \in Slots, JobStep(j) \/ JobFault(j)
  PROVE  TypeInv'
  <1> DEFINE s == jobs[j].scan
  <1>0. SlotStep(j) /\ UNCHANGED <<api, queue, ctx, loop, held>>
    BY JobSlotStep, JobFrame
  <1>1. HandsFull'
    BY <1>0 DEF SlotStep, TypeInv, HandsFull
  <1>2. faults' \in 0..MaxFaults
    <2>1. faults' = faults \/ (faults < MaxFaults /\ faults' = faults + 1)
      BY DEF JobStep, JobFault, Validate, MarkRunning, NotMarked, FetchFailed, Fetched,
             RunScanner, BreakLoop, Ingest, Lands, PersistFindings, NotPersisted, Score,
             Settle, Gate, NoGate, Finalize, JobDeadline, Panic, Fault, NoFault
    <2>2. faults \in 0..MaxFaults /\ MaxFaults \in Nat
      BY ConstantsAssumption DEF TypeInv, TypeOK
    <2>3. QED
      BY <2>1, <2>2
  <1>t. jobs[j] \in Jobs
    BY DEF TypeInv, TypeOK
  <1>3. row' \in [Scans -> Rows]
    <2>1. row \in [Scans -> Rows]
      BY DEF TypeInv, TypeOK
    <2>2. CASE MarkRunning(j)
      BY <2>1, <2>2 DEF MarkRunning, Rows, Statuses, ActiveStatuses
    <2>3. CASE Fetched(j)
      BY <2>1, <2>3 DEF Fetched, CheckoutRow, Rows
    <2>4. CASE Finalize(j)
      BY <1>t, <2>1, <2>4 DEF Finalize, FinalizeRow, Rows, Jobs
    <2>5. QED
      BY <2>1, <2>2, <2>3, <2>4
      DEF JobStep, JobFault, Validate, NotMarked, FetchFailed, RunScanner, BreakLoop, Ingest,
          PersistFindings, NotPersisted, Score, Settle, Gate, NoGate, JobDeadline, Panic, dbVars
  <1>4. /\ results' \in [Scans -> Results]
        /\ stored' \in [Scans -> [raw : SUBSET Scanners, sbom : SUBSET Scanners]]
    <2>1. /\ results \in [Scans -> Results]
          /\ stored \in [Scans -> [raw : SUBSET Scanners, sbom : SUBSET Scanners]]
      BY DEF TypeInv, TypeOK
    <2>2. CASE Ingest(j)
      <3>1. jobs[j].cur \in Scanners /\ jobs[j].out \in Outcomes
        BY <2>2 DEF Ingest, TypeInv, HandsFull
      <3>2. PICK lands \in SUBSET Effects(jobs[j].cur, jobs[j].out) :
              /\ stored' = [stored EXCEPT ![s] =
                   [raw |-> IF "raw" \in lands THEN @.raw \union {jobs[j].cur} ELSE @.raw,
                    sbom |-> IF "inventory" \in lands THEN @.sbom \union {jobs[j].cur} ELSE @.sbom]]
              /\ \E out \in IngestOutcomes(jobs[j].out, lands) :
                   results' = IF "row" \in lands
                              THEN [results EXCEPT ![s] = [@ EXCEPT ![jobs[j].cur] = out]]
                              ELSE results
        BY <2>2 DEF Ingest
      <3>3. stored' \in [Scans -> [raw : SUBSET Scanners, sbom : SUBSET Scanners]]
        <4>1. ASSUME s \in Scans
              PROVE  [raw |-> IF "raw" \in lands THEN stored[s].raw \union {jobs[j].cur} ELSE stored[s].raw,
                      sbom |-> IF "inventory" \in lands THEN stored[s].sbom \union {jobs[j].cur} ELSE stored[s].sbom]
                     \in [raw : SUBSET Scanners, sbom : SUBSET Scanners]
          BY <2>1, <3>1, <4>1
        <4>2. QED
          BY <2>1, <3>2, <4>1
      <3>4. results' \in [Scans -> Results]
        <4>1. PICK out \in Outcomes :
                results' = IF "row" \in lands
                           THEN [results EXCEPT ![s] = [@ EXCEPT ![jobs[j].cur] = out]]
                           ELSE results
          BY <3>1, <3>2 DEF IngestOutcomes, Outcomes, Usable
        <4>2. ASSUME s \in Scans PROVE [results[s] EXCEPT ![jobs[j].cur] = out] \in Results
          BY <2>1, <4>2 DEF Results
        <4>3. QED
          BY <2>1, <4>1, <4>2
      <3>5. QED
        BY <3>3, <3>4
    <2>3. QED
      BY <2>1, <2>2
      DEF JobStep, JobFault, Validate, MarkRunning, NotMarked, FetchFailed, Fetched, RunScanner,
          BreakLoop, PersistFindings, NotPersisted, Score, Settle, Gate, NoGate, Finalize,
          JobDeadline, Panic, dbVars
  <1>5. recorded' \in [Scans -> [done : BOOLEAN, resolvers : SUBSET Scanners]]
    <2>1. recorded \in [Scans -> [done : BOOLEAN, resolvers : SUBSET Scanners]]
      BY DEF TypeInv, TypeOK
    <2>2. CASE PersistFindings(j)
      BY <2>1, <2>2 DEF PersistFindings, CompleteScanners
    <2>3. QED
      BY <2>1, <2>2
      DEF JobStep, JobFault, Validate, MarkRunning, NotMarked, FetchFailed, Fetched, RunScanner,
          BreakLoop, Ingest, NotPersisted, Score, Settle, Gate, NoGate, Finalize,
          JobDeadline, Panic, dbVars
  <1>6. risk' \in [Scans -> BOOLEAN]
    <2>1. risk \in [Scans -> BOOLEAN]
      BY DEF TypeInv, TypeOK
    <2>2. CASE Score(j)
      BY <2>1, <2>2 DEF Score
    <2>3. QED
      BY <2>1, <2>2
      DEF JobStep, JobFault, Validate, MarkRunning, NotMarked, FetchFailed, Fetched, RunScanner,
          BreakLoop, Ingest, PersistFindings, NotPersisted, Settle, Gate, NoGate, Finalize,
          JobDeadline, Panic, dbVars
  <1>7. verdict' \in [Scans -> [verdict : Levels, complete : BOOLEAN]]
    <2>1. verdict \in [Scans -> [verdict : Levels, complete : BOOLEAN]]
      BY DEF TypeInv, TypeOK
    <2>2. CASE Gate(j)
      <3>1. \A rule \in {"pass", "warn", "fail"}, c \in BOOLEAN : Evaluate(rule, c) \in Levels
        BY ConstantsAssumption DEF Evaluate, Levels
      <3>2. PICK rule \in {"pass", "warn", "fail"} :
              verdict' = [verdict EXCEPT ![s] =
                [verdict |-> Evaluate(rule, jobs[j].status = "completed"),
                 complete |-> jobs[j].status = "completed"]]
        BY <2>2 DEF Gate
      <3>3. [verdict |-> Evaluate(rule, jobs[j].status = "completed"),
             complete |-> jobs[j].status = "completed"] \in [verdict : Levels, complete : BOOLEAN]
        BY <3>1
      <3>4. QED
        BY <2>1, <3>2, <3>3
    <2>3. QED
      BY <2>1, <2>2
      DEF JobStep, JobFault, Validate, MarkRunning, NotMarked, FetchFailed, Fetched, RunScanner,
          BreakLoop, Ingest, PersistFindings, NotPersisted, Score, Settle, NoGate, Finalize,
          JobDeadline, Panic, dbVars
  <1>8. QED
    BY <1>0, <1>1, <1>2, <1>3, <1>4, <1>5, <1>6, <1>7 DEF TypeInv, TypeOK, SlotStep

LEMMA TypeNext == TypeInv /\ [Next]_vars => TypeInv'
  <1> SUFFICES ASSUME TypeInv, [Next]_vars PROVE TypeInv'
    OBVIOUS
  <1>1. ASSUME NEW s \in Scans, CreateScan(s) \/ HandlerStep(s) \/ HandlerFault(s)
        PROVE  TypeInv'
    BY <1>1, TypeHandler, HandlerFrame DEF TypeInv, HandsFull
  <1>2. CASE UNCHANGED vars
    BY <1>2 DEF vars, dbVars, loopVars, TypeInv, TypeOK, HandsFull
  <1>3. QED
    BY <1>1, <1>2, TypeLoop, TypeJob DEF Next

\* The state of the API, the queue, the workers and the database keeps its
\* type, through every fault (the types are those of package scans and of the
\* schema's CHECK constraints).
THEOREM TypeCorrect == Spec => []TypeOK
  <1>1. Spec => []TypeInv
    BY TypeInit, TypeNext, PTL DEF Spec
  <1>2. QED
    BY <1>1, PTL DEF TypeInv

-----------------------------------------------------------------------------
(* Ownership: MarkRunning hands a scan to one delivery for good, and only    *)
(* that delivery writes results, findings, score and verdict.  This is what  *)
(* makes the safety properties inductive.                                    *)

\* The reasons executeJob gives before it marks the scan.
Refusals == {"target_invalid", "no_scanner", "not_registered"}

\* The delivery in slot j took its scan with MarkRunning.
Marked(j) ==
    \/ jobs[j].pc \in OwnerPCs
    \/ jobs[j].pc = "finalize" /\ jobs[j].reason \notin Refusals

Owns(j, s) == Marked(j) /\ jobs[j].scan = s

Whole(res) == \A n \in Scanners : res[n] \in {"none", "succeeded"}

\* A scan has at most one owner.
OneOwner == \A i, j \in Slots : Marked(i) /\ Marked(j) /\ jobs[i].scan = jobs[j].scan => i = j

\* A scan that nobody took has nothing stored for it, and no owner.
UntakenIsFresh ==
    \A s \in Scans :
        /\ api[s] = "idle" => row[s].status = "none"
        /\ row[s].status \in {"none", "queued"} =>
             /\ \A n \in Scanners : results[s][n] = "none"
             /\ ~recorded[s].done
             /\ recorded[s].resolvers = {}
             /\ verdict[s].verdict = "none"
             /\ \A j \in Slots : ~Owns(j, s)

\* What a job is about to finalize: a terminal status, with a reason exactly
\* when it failed, and always when the scan was refused.
VerdictOfJob(j) ==
    /\ jobs[j].pc \in {"gate", "finalize"} =>
         /\ jobs[j].status \in TerminalStatuses
         /\ jobs[j].status = "failed" <=> jobs[j].reason # "none"
    /\ jobs[j].pc = "gate" => jobs[j].reason \notin Refusals
    /\ jobs[j].pc = "ingest" => jobs[j].cur \notin jobs[j].todo
    /\ Marked(j) /\ jobs[j].pc \in {"gate", "finalize"} /\ jobs[j].status = "completed"
         => Whole(jobs[j].res)
    /\ jobs[j].pc = "score" => recorded[jobs[j].scan].done
    /\ jobs[j].scored => jobs[j].scan \in Scans /\ risk[jobs[j].scan]

\* A stored outcome is the one the owner remembers, and of a scanner that it
\* will not run again.
MemoryAgrees(j) ==
    Marked(j) => \A n \in Scanners :
        \/ results[jobs[j].scan][n] = "none"
        \/ /\ results[jobs[j].scan][n] = jobs[j].res[n]
           /\ n \notin jobs[j].todo
           /\ n # jobs[j].cur

\* How far the owner is, given what is stored.
StoredInOrder(s) ==
    /\ recorded[s].done => \A j \in Slots :
         Owns(j, s) => jobs[j].pc \in {"score", "settle", "gate", "finalize"}
    /\ recorded[s].resolvers # {} => recorded[s].done
    /\ \A n \in recorded[s].resolvers : results[s][n] \in {"none", "succeeded"}
    /\ risk[s] => recorded[s].done
    /\ verdict[s].verdict # "none" =>
         risk[s] /\ \A j \in Slots : Owns(j, s) => jobs[j].pc = "finalize"
    /\ verdict[s].verdict = "pass" => Whole(results[s])
    /\ row[s].status = "completed" => Whole(results[s]) /\ \A j \in Slots : ~Owns(j, s)
    /\ row[s].status = "failed" <=> row[s].reason # "none"

Ownership ==
    /\ OneOwner
    /\ UntakenIsFresh
    /\ \A j \in Slots : VerdictOfJob(j) /\ MemoryAgrees(j)
    /\ \A s \in Scans : StoredInOrder(s)

LEMMA OwnershipInit == Init => Ownership
  BY DEF Init, Ownership, OneOwner, UntakenIsFresh, VerdictOfJob, MemoryAgrees, StoredInOrder,
         Owns, Marked, Whole, OwnerPCs, Idle, NoResults

\* What the handler for s does to the scan's row.
HandlerRow(s) ==
    /\ \A t \in Scans \ {s} : row'[t] = row[t] /\ api'[t] = api[t]
    /\ api'[s] # "idle"
    /\ \/ row'[s] = row[s] /\ api[s] # "idle"
       \/ /\ row[s].status = "none" /\ row'[s].status = "queued"
          /\ row'[s].reason = row[s].reason
       \/ row'[s].status = "failed" /\ row'[s].reason = "not_enqueued"

LEMMA HandlerRowStep ==
  ASSUME TypeInv, Ownership, NEW s \in Scans,
         CreateScan(s) \/ HandlerStep(s) \/ HandlerFault(s)
  PROVE  HandlerRow(s)
  <1>1. row \in [Scans -> Rows] /\ api \in [Scans -> {"idle", "created", "failing", "accepted", "rejected", "dead"}]
    BY DEF TypeInv, TypeOK
  <1>2. QED
    BY <1>1
    DEF CreateScan, HandlerStep, HandlerFault, EnqueueOK, EnqueueError, FailUnqueued,
        FinalizeRow, Disconnect, APICrash, Rows, Ownership, UntakenIsFresh, dbVars, HandlerRow

\* POST /scans touches no job; it queues a scan nobody knew or fails one.
LEMMA OwnershipHandler ==
  ASSUME TypeInv, Ownership, NEW s \in Scans,
         CreateScan(s) \/ HandlerStep(s) \/ HandlerFault(s)
  PROVE  Ownership'
  <1>1. UNCHANGED <<results, recorded, risk, verdict, jobs>>
    BY HandlerFrame
  <1>2. OneOwner' /\ \A j \in Slots : (VerdictOfJob(j) /\ MemoryAgrees(j))'
    BY <1>1 DEF Ownership, OneOwner, VerdictOfJob, MemoryAgrees, Marked, Whole
  <1>3. \A t \in Scans, j \in Slots : Owns(j, t)' <=> Owns(j, t)
    BY <1>1 DEF Owns, Marked
  <1>5. HandlerRow(s)
    BY HandlerRowStep
  <1>6. UntakenIsFresh'
    BY <1>1, <1>3, <1>5 DEF Ownership, UntakenIsFresh, HandlerRow
  <1>7. \A t \in Scans : StoredInOrder(t)'
    BY <1>1, <1>3, <1>5 DEF Ownership, StoredInOrder, Whole, HandlerRow
  <1>8. QED
    BY <1>2, <1>6, <1>7 DEF Ownership

\* Steps that store nothing and make nobody an owner: slots are emptied, or
\* filled with a job that has not taken its scan.
LEMMA OwnershipReleased ==
  ASSUME TypeInv, Ownership,
         UNCHANGED <<row, results, recorded, risk, verdict, api>>,
         \A i \in Slots : \/ jobs'[i] = jobs[i]
                          \/ jobs'[i].pc \in {"free", "validate"} /\ ~jobs'[i].scored
  PROVE  Ownership'
  <1>1. \A i \in Slots : Marked(i)' => jobs'[i] = jobs[i]
    BY DEF Marked, OwnerPCs
  <1>2. OneOwner'
    BY <1>1 DEF Ownership, OneOwner, Marked
  <1>3. \A t \in Scans, i \in Slots : Owns(i, t)' => Owns(i, t) /\ jobs'[i] = jobs[i]
    BY <1>1 DEF Owns, Marked
  <1>4. \A i \in Slots : VerdictOfJob(i)' /\ MemoryAgrees(i)'
    BY <1>1 DEF Ownership, VerdictOfJob, MemoryAgrees, Marked, OwnerPCs, Whole
  <1>5. UntakenIsFresh' /\ \A t \in Scans : StoredInOrder(t)'
    BY <1>3 DEF Ownership, UntakenIsFresh, StoredInOrder, Whole
  <1>6. QED
    BY <1>2, <1>4, <1>5 DEF Ownership

LEMMA OwnershipLoop ==
  ASSUME TypeInv, Ownership, NEW w \in Workers, LoopStep(w) \/ LoopFault(w)
  PROVE  Ownership'
  <1>1. UNCHANGED <<row, results, recorded, risk, verdict, api>>
    BY DEF LoopStep, LoopFault, Dequeue, StartJob, DropJob, StopConsuming, Drained, Restart,
           Shutdown, Crash, dbVars
  <1>2. \A i \in Slots : \/ jobs'[i] = jobs[i]
                         \/ jobs'[i].pc \in {"free", "validate"} /\ ~jobs'[i].scored
    <2>1. jobs \in [Slots -> Jobs] /\ Idle \in Jobs
      BY IdleType DEF TypeInv, TypeOK
    <2>2. ASSUME NEW j \in Slots, StartJob(w, j)
          PROVE  \A i \in Slots : \/ jobs'[i] = jobs[i]
                                  \/ jobs'[i].pc \in {"free", "validate"} /\ ~jobs'[i].scored
      BY <2>1, <2>2 DEF StartJob, Idle
    <2>3. CASE Crash(w)
      BY <2>1, <2>3 DEF Crash, Idle
    <2>4. QED
      BY <2>2, <2>3
      DEF LoopStep, LoopFault, Dequeue, DropJob, StopConsuming, Drained, Restart, Shutdown
  <1>3. QED
    BY <1>1, <1>2, OwnershipReleased

\* The stages after findings are recorded.
Late == {"score", "settle", "gate", "finalize"}

\* Steps of a job that store nothing: they keep or give up ownership, and
\* never go back to a stage before what is stored.
LEMMA OwnershipMoves ==
  ASSUME TypeInv, Ownership, NEW j \in Slots, SlotStep(j),
         UNCHANGED <<results, recorded, risk, verdict, api>>,
         \A s \in Scans : row'[s].status = row[s].status /\ row'[s].reason = row[s].reason,
         Marked(j)' => Marked(j),
         Marked(j)' /\ jobs[j].pc \in Late => jobs'[j].pc \in Late,
         Marked(j)' /\ jobs[j].pc = "finalize" => jobs'[j].pc = "finalize",
         VerdictOfJob(j)', MemoryAgrees(j)'
  PROVE  Ownership'
  <1>0. jobs'[j].pc # "free" => jobs'[j].scan = jobs[j].scan
    BY DEF SlotStep
  <1>1. \A i \in Slots : Marked(i)' => Marked(i) /\ jobs'[i].scan = jobs[i].scan
    BY <1>0 DEF Marked, OwnerPCs, SlotStep
  <1>2. OneOwner'
    BY <1>1 DEF Ownership, OneOwner
  <1>3. \A i \in Slots : VerdictOfJob(i)' /\ MemoryAgrees(i)'
    <2>1. ASSUME NEW i \in Slots \ {j} PROVE VerdictOfJob(i)' /\ MemoryAgrees(i)'
      BY <2>1 DEF Ownership, SlotStep, VerdictOfJob, MemoryAgrees, Marked, Whole
    <2>2. QED
      BY <2>1
  <1>4. \A s \in Scans, i \in Slots : Owns(i, s)' =>
          /\ Owns(i, s)
          /\ jobs[i].pc \in Late => jobs'[i].pc \in Late
          /\ jobs[i].pc = "finalize" => jobs'[i].pc = "finalize"
    BY <1>1 DEF Owns, SlotStep
  <1>5. UntakenIsFresh' /\ \A s \in Scans : StoredInOrder(s)'
    BY <1>4 DEF Ownership, UntakenIsFresh, StoredInOrder, Whole, Late
  <1>6. QED
    BY <1>2, <1>3, <1>5 DEF Ownership

\* The stages of executeJob that store nothing.
LEMMA OwnershipQuiet ==
  ASSUME TypeInv, Ownership, NEW j \in Slots, SlotStep(j),
         UNCHANGED api,
         \/ Validate(j) \/ FetchFailed(j) \/ Fetched(j) \/ BreakLoop(j) \/ NotPersisted(j)
         \/ (\E n \in Scanners : RunScanner(j, n)) \/ Settle(j) \/ NoGate(j) \/ JobDeadline(j)
  PROVE  Ownership'
  <1> USE DEF dbVars
  <1>t. /\ jobs \in [Slots -> Jobs]
        /\ jobs[j] \in Jobs
        /\ jobs[j].scan \in Scans \/ jobs[j].pc = "free"
        /\ row \in [Scans -> Rows]
    BY DEF TypeInv, TypeOK, HandsFull
  <1>v. VerdictOfJob(j) /\ MemoryAgrees(j)
    BY DEF Ownership
  <1>r. /\ \A s \in Scans : row'[s].status = row[s].status /\ row'[s].reason = row[s].reason
        /\ UNCHANGED <<results, recorded, risk, verdict>>
    <2>1. row' = row \/ CheckoutRow(jobs[j].scan)
      BY DEF Validate, FetchFailed, Fetched, BreakLoop, NotPersisted, RunScanner, Settle,
             NoGate, JobDeadline
    <2>2. UNCHANGED <<results, recorded, risk, verdict>>
      BY DEF Validate, FetchFailed, Fetched, BreakLoop, NotPersisted, RunScanner, Settle,
             NoGate, JobDeadline
    <2>3. QED
      BY <1>t, <2>1, <2>2 DEF CheckoutRow, Rows
  <1>f. ASSUME NEW reason \in Reasons \ {"none"}, FailJob(j, reason)
        PROVE  /\ jobs'[j] = [jobs[j] EXCEPT !.pc = "finalize", !.status = "failed", !.reason = reason]
               /\ VerdictOfJob(j)'
    <2>1. /\ jobs'[j] = [jobs[j] EXCEPT !.pc = "finalize", !.status = "failed", !.reason = reason]
          /\ jobs'[j].pc = "finalize" /\ jobs'[j].status = "failed" /\ jobs'[j].reason = reason
          /\ jobs'[j].scan = jobs[j].scan /\ jobs'[j].scored = jobs[j].scored
      BY <1>t, <1>f DEF FailJob, Jobs
    <2>2. jobs[j].scored => jobs[j].scan \in Scans /\ risk'[jobs[j].scan]
      BY <1>v, <1>r DEF VerdictOfJob
    <2>3. VerdictOfJob(j)'
      BY <1>f, <2>1, <2>2 DEF VerdictOfJob, TerminalStatuses
    <2>4. QED
      BY <2>1, <2>3
  <1>1. CASE Validate(j)
    <2>1. CASE \E reason \in Refusals : FailJob(j, reason)
      <3>0. PICK reason \in Refusals : FailJob(j, reason)
        BY <2>1
      <3>1. /\ jobs'[j] = [jobs[j] EXCEPT !.pc = "finalize", !.status = "failed", !.reason = reason]
            /\ VerdictOfJob(j)'
        BY <1>f, <3>0 DEF Refusals, Reasons
      <3>2. ~Marked(j)'
        BY <1>t, <3>1 DEF Marked, OwnerPCs, Jobs
      <3>3. QED
        BY <1>r, <3>1, <3>2, OwnershipMoves DEF MemoryAgrees
    <2>2. CASE jobs' = [jobs EXCEPT ![j].pc = "mark", ![j].todo = Resolve(jobs[j].scan)]
      <3>1. ~Marked(j)' /\ VerdictOfJob(j)'
        BY <1>t, <1>v, <1>r, <2>2 DEF Marked, OwnerPCs, Jobs, VerdictOfJob
      <3>2. QED
        BY <1>r, <3>1, OwnershipMoves DEF MemoryAgrees
    <2>3. QED
      BY <1>1, <2>1, <2>2 DEF Validate, Refusals
  <1>2. CASE FetchFailed(j)
    <2>1. PICK reason \in {"workspace", "fetch_failed", "too_large"} : FailJob(j, reason)
      BY <1>2 DEF FetchFailed
    <2>2. /\ jobs'[j] = [jobs[j] EXCEPT !.pc = "finalize", !.status = "failed", !.reason = reason]
          /\ VerdictOfJob(j)'
      BY <1>f, <2>1 DEF Reasons
    <2>3. jobs[j].pc = "fetch" /\ Marked(j)
      BY <1>2 DEF FetchFailed, Marked, OwnerPCs
    <2>4. MemoryAgrees(j)' /\ jobs'[j].pc = "finalize"
      BY <1>t, <1>v, <1>r, <2>2, <2>3 DEF MemoryAgrees, Jobs
    <2>5. QED
      BY <1>r, <2>2, <2>3, <2>4, OwnershipMoves DEF Late
  <1>3. CASE Fetched(j)
    <2>1. jobs' = [jobs EXCEPT ![j].pc = "scan"] /\ jobs[j].pc = "fetch"
      BY <1>3 DEF Fetched
    <2>2. VerdictOfJob(j)' /\ MemoryAgrees(j)' /\ Marked(j)
      BY <1>t, <1>v, <1>r, <2>1 DEF Jobs, VerdictOfJob, MemoryAgrees, Marked, OwnerPCs
    <2>3. QED
      BY <1>t, <1>r, <2>1, <2>2, OwnershipMoves DEF Late
  <1>4. CASE BreakLoop(j)
    <2>1. jobs' = [jobs EXCEPT ![j].pc = "persist"] /\ jobs[j].pc = "scan"
      BY <1>4 DEF BreakLoop
    <2>2. VerdictOfJob(j)' /\ MemoryAgrees(j)' /\ Marked(j)
      BY <1>t, <1>v, <1>r, <2>1 DEF Jobs, VerdictOfJob, MemoryAgrees, Marked, OwnerPCs
    <2>3. QED
      BY <1>t, <1>r, <2>1, <2>2, OwnershipMoves DEF Late
  <1>5. CASE NotPersisted(j)
    <2>1. jobs' = [jobs EXCEPT ![j].pc = "settle"] /\ jobs[j].pc = "persist"
      BY <1>5 DEF NotPersisted
    <2>2. VerdictOfJob(j)' /\ MemoryAgrees(j)' /\ Marked(j)
      BY <1>t, <1>v, <1>r, <2>1 DEF Jobs, VerdictOfJob, MemoryAgrees, Marked, OwnerPCs
    <2>3. QED
      BY <1>t, <1>r, <2>1, <2>2, OwnershipMoves DEF Late
  <1>6. CASE NoGate(j)
    <2>1. jobs' = [jobs EXCEPT ![j].pc = "finalize"] /\ jobs[j].pc = "gate"
      BY <1>6 DEF NoGate
    <2>2. VerdictOfJob(j)' /\ MemoryAgrees(j)' /\ Marked(j)
      BY <1>t, <1>v, <1>r, <2>1 DEF Jobs, VerdictOfJob, MemoryAgrees, Marked, OwnerPCs, Whole
    <2>3. QED
      BY <1>t, <1>r, <2>1, <2>2, OwnershipMoves DEF Late
  <1>7. ASSUME NEW n \in Scanners, RunScanner(j, n) PROVE Ownership'
    <2>1. PICK out \in Outcomes :
            jobs' = [jobs EXCEPT ![j].pc = "ingest", ![j].cur = n, ![j].out = out,
                                 ![j].todo = @ \ {n}]
      BY <1>7 DEF RunScanner
    <2>2. jobs[j].pc = "scan" /\ n \in jobs[j].todo /\ Marked(j)
      BY <1>7 DEF RunScanner, Marked, OwnerPCs
    <2>3. VerdictOfJob(j)'
      BY <1>t, <1>v, <1>r, <2>1, <2>2 DEF Jobs, VerdictOfJob
    <2>4. MemoryAgrees(j)'
      BY <1>t, <1>v, <1>r, <2>1, <2>2 DEF Jobs, MemoryAgrees
    <2>5. QED
      BY <1>t, <1>r, <2>1, <2>2, <2>3, <2>4, OwnershipMoves DEF Late
  <1>8. CASE Settle(j)
    <2> DEFINE status == IF Live(j) THEN TerminalStatus(jobs[j].res) ELSE "cancelled"
    <2>1. /\ jobs' = [jobs EXCEPT ![j].pc = "gate", ![j].status = status,
                         ![j].reason = IF status = "failed" THEN "all_degraded" ELSE "none"]
          /\ jobs[j].pc = "settle"
          /\ Marked(j)
      BY <1>8 DEF Settle, Marked, OwnerPCs
    <2>2. /\ status \in TerminalStatuses
          /\ status = "completed" => Whole(jobs[j].res)
      BY DEF TerminalStatus, TerminalStatuses, Whole
    <2> HIDE DEF status
    <2>3. VerdictOfJob(j)'
      BY <1>t, <1>v, <1>r, <2>1, <2>2 DEF Jobs, VerdictOfJob, Whole, Refusals
    <2>4. MemoryAgrees(j)'
      BY <1>t, <1>v, <1>r, <2>1 DEF Jobs, MemoryAgrees
    <2>5. QED
      BY <1>t, <1>r, <2>1, <2>3, <2>4, OwnershipMoves DEF Late
  <1>9. CASE JobDeadline(j)
    <2>1. jobs' = [jobs EXCEPT ![j].expired = TRUE]
      BY <1>9 DEF JobDeadline
    <2>2. /\ VerdictOfJob(j)' /\ MemoryAgrees(j)'
          /\ Marked(j)' => Marked(j)
          /\ jobs'[j].pc = jobs[j].pc
      BY <1>t, <1>v, <1>r, <2>1 DEF Jobs, VerdictOfJob, MemoryAgrees, Marked, OwnerPCs, Whole
    <2>3. QED
      BY <1>t, <1>r, <2>2, OwnershipMoves
  <1>10. QED
    BY <1>1, <1>2, <1>3, <1>4, <1>5, <1>6, <1>7, <1>8, <1>9

\* MarkRunning makes an owner, of a scan that had none.
LEMMA OwnershipMarkRunning ==
  ASSUME TypeInv, Ownership, NEW j \in Slots, SlotStep(j), MarkRunning(j)
  PROVE  Ownership'
  <1>s. PICK s \in Scans : s = jobs[j].scan
    BY DEF MarkRunning, TypeInv, HandsFull
  <1>0. jobs[j].scan = s /\ jobs \in [Slots -> Jobs] /\ row \in [Scans -> Rows]
    BY <1>s DEF TypeInv, TypeOK
  <1>1. /\ row[s].status = "queued" /\ row'[s].status = "running" /\ row'[s].reason = row[s].reason
        /\ \A t \in Scans \ {s} : row'[t] = row[t]
        /\ UNCHANGED <<results, recorded, risk, verdict, api>>
    BY <1>0 DEF MarkRunning, CanMarkRunning, Rows
  <1>2. jobs'[j] = [jobs[j] EXCEPT !.pc = "fetch"] /\ jobs[j].pc = "mark"
    BY <1>0 DEF MarkRunning
  <1>3. jobs'[j].pc = "fetch" /\ jobs'[j].scan = s /\ jobs'[j].scored = jobs[j].scored
    BY <1>0, <1>2 DEF Jobs
  <1>4. \A i \in Slots : ~Owns(i, s)
    BY <1>0, <1>1 DEF Ownership, UntakenIsFresh
  <1>5. \A i \in Slots \ {j} : jobs'[i] = jobs[i]
    BY DEF SlotStep
  <1>6. \A i \in Slots, t \in Scans \ {s} :
          /\ Owns(i, t)' <=> Owns(i, t)
          /\ Owns(i, t)' => jobs'[i] = jobs[i]
    BY <1>0, <1>3, <1>5 DEF Owns, Marked
  <1>7. OneOwner'
    BY <1>3, <1>4, <1>5 DEF Ownership, OneOwner, Owns, Marked
  <1>8. UntakenIsFresh'
    BY <1>0, <1>1, <1>6 DEF Ownership, UntakenIsFresh
  <1>9. \A i \in Slots : VerdictOfJob(i)' /\ MemoryAgrees(i)'
    <2>1. ASSUME NEW i \in Slots \ {j} PROVE VerdictOfJob(i)' /\ MemoryAgrees(i)'
      BY <1>1, <1>5, <2>1 DEF Ownership, VerdictOfJob, MemoryAgrees, Marked, Whole
    <2>2. VerdictOfJob(j)'
      <3>1. jobs[j].scored => risk[s]
        BY <1>0 DEF Ownership, VerdictOfJob
      <3>2. QED
        BY <1>0, <1>1, <1>3, <3>1 DEF VerdictOfJob
    <2>3. MemoryAgrees(j)'
      BY <1>0, <1>1, <1>3 DEF Ownership, UntakenIsFresh, MemoryAgrees
    <2>4. QED
      BY <2>1, <2>2, <2>3
  <1>10. \A t \in Scans : StoredInOrder(t)'
    <2>1. ASSUME NEW t \in Scans \ {s} PROVE StoredInOrder(t)'
      BY <1>1, <1>6, <2>1 DEF Ownership, StoredInOrder, Whole
    <2>2. StoredInOrder(s)'
      BY <1>0, <1>1 DEF Ownership, UntakenIsFresh, StoredInOrder
    <2>3. QED
      BY <2>1, <2>2
  <1>11. QED
    BY <1>7, <1>8, <1>9, <1>10 DEF Ownership

\* A step of the owner of scan s that stores something, for s alone.
LEMMA OwnershipStores ==
  ASSUME TypeInv, Ownership, NEW j \in Slots, NEW s \in Scans, SlotStep(j),
         Owns(j, s), Marked(j)' => Owns(j, s)',
         UNCHANGED api,
         \A t \in Scans \ {s} :
            /\ row'[t] = row[t] /\ results'[t] = results[t] /\ recorded'[t] = recorded[t]
            /\ risk'[t] = risk[t] /\ verdict'[t] = verdict[t],
         row'[s].status \notin {"none", "queued"},
         risk[s] => risk'[s],
         VerdictOfJob(j)', MemoryAgrees(j)', StoredInOrder(s)'
  PROVE  Ownership'
  <1>1. \A i \in Slots \ {j} : jobs'[i] = jobs[i] /\ ~Owns(i, s) /\ (Marked(i)' <=> Marked(i))
    BY DEF SlotStep, Ownership, OneOwner, Owns, Marked
  <1>2. OneOwner'
    BY <1>1 DEF Ownership, OneOwner, Owns
  <1>3. \A i \in Slots, t \in Scans \ {s} :
          (Owns(i, t)' <=> Owns(i, t)) /\ (Owns(i, t)' => jobs'[i] = jobs[i])
    BY <1>1 DEF Owns
  <1>4. api[s] # "idle"
    BY DEF Ownership, UntakenIsFresh
  <1>5. UntakenIsFresh'
    BY <1>3, <1>4 DEF Ownership, UntakenIsFresh
  <1>6. ASSUME NEW i \in Slots \ {j} PROVE VerdictOfJob(i)' /\ MemoryAgrees(i)'
    <2>1. Marked(i) => jobs[i].scan \in Scans \ {s}
      BY <1>1, <1>6 DEF Owns, Marked, OwnerPCs, TypeInv, HandsFull
    <2>2. MemoryAgrees(i)'
      BY <1>1, <1>6, <2>1 DEF Ownership, MemoryAgrees
    <2>3. jobs[i].scored => jobs[i].scan \in Scans /\ risk'[jobs[i].scan]
      BY <1>6 DEF Ownership, VerdictOfJob
    <2>4. jobs[i].pc = "score" => recorded'[jobs[i].scan].done
      BY <1>6, <2>1 DEF Ownership, VerdictOfJob, Marked, OwnerPCs
    <2>5. VerdictOfJob(i)'
      BY <1>1, <1>6, <2>3, <2>4 DEF Ownership, VerdictOfJob, Whole
    <2>6. QED
      BY <2>2, <2>5
  <1>7. ASSUME NEW t \in Scans \ {s} PROVE StoredInOrder(t)'
    BY <1>3, <1>7 DEF Ownership, StoredInOrder, Whole
  <1>8. QED
    BY <1>2, <1>5, <1>6, <1>7 DEF Ownership

\* Ingest stores the outcome the owner also remembers.
LEMMA OwnershipIngest ==
  ASSUME TypeInv, Ownership, NEW j \in Slots, SlotStep(j), UNCHANGED api, Ingest(j)
  PROVE  Ownership'
  <1>s. PICK s \in Scans, n \in Scanners : s = jobs[j].scan /\ n = jobs[j].cur
    BY DEF Ingest, TypeInv, HandsFull
  <1>0. /\ jobs \in [Slots -> Jobs] /\ jobs[j] \in Jobs
        /\ results \in [Scans -> Results] /\ NoScanner \notin Scanners
    BY ConstantsAssumption DEF TypeInv, TypeOK
  <1>1. PICK lands, out :
          /\ results' = IF "row" \in lands
                        THEN [results EXCEPT ![s] = [@ EXCEPT ![n] = out]] ELSE results
          /\ jobs' = [jobs EXCEPT ![j] = Ingested(jobs[j], out, lands)]
    BY <1>s DEF Ingest
  <1>2. /\ jobs[j].pc = "ingest" /\ Owns(j, s) /\ n \notin jobs[j].todo
        /\ UNCHANGED <<row, recorded, risk, verdict>>
    BY <1>s DEF Ingest, Owns, Marked, OwnerPCs, Ownership, VerdictOfJob
  <1>3. /\ jobs'[j].pc \in {"scan", "persist"} /\ jobs'[j].scan = s
        /\ jobs'[j].todo = jobs[j].todo /\ jobs'[j].cur = NoScanner
        /\ jobs'[j].scored = jobs[j].scored
        /\ jobs'[j].res = [jobs[j].res EXCEPT ![n] = out]
    BY <1>s, <1>0, <1>1 DEF Ingested, Jobs
  <1>4. /\ \A t \in Scans \ {s} : results'[t] = results[t]
        /\ \A m \in Scanners : results'[s][m] = results[s][m] \/ (m = n /\ results'[s][m] = out)
    BY <1>0, <1>1 DEF Results
  <1>5. /\ \A m \in Scanners \ {n} : jobs'[j].res[m] = jobs[j].res[m]
        /\ jobs'[j].res[n] = out
    BY <1>0, <1>3 DEF Jobs, Results
  <1>6. VerdictOfJob(j)'
    BY <1>s, <1>2, <1>3 DEF Ownership, VerdictOfJob
  <1>7. MemoryAgrees(j)'
    BY <1>0, <1>s, <1>2, <1>3, <1>4, <1>5 DEF Ownership, MemoryAgrees, Owns
  <1>8. ~recorded[s].done /\ row[s].status \notin {"none", "queued", "completed"}
    BY <1>2 DEF Ownership, UntakenIsFresh, StoredInOrder
  <1>9. StoredInOrder(s)'
    BY <1>2, <1>8 DEF Ownership, StoredInOrder
  <1>10. Owns(j, s)'
    BY <1>3 DEF Owns, Marked, OwnerPCs
  <1>11. QED
    BY <1>2, <1>4, <1>6, <1>7, <1>8, <1>9, <1>10, OwnershipStores

\* RecordScan is given the scanners that the owner remembers as whole.
LEMMA OwnershipPersist ==
  ASSUME TypeInv, Ownership, NEW j \in Slots, SlotStep(j), UNCHANGED api, PersistFindings(j)
  PROVE  Ownership'
  <1>s. PICK s \in Scans : s = jobs[j].scan
    BY DEF PersistFindings, TypeInv, HandsFull
  <1>0. /\ jobs \in [Slots -> Jobs] /\ jobs[j] \in Jobs
        /\ recorded \in [Scans -> [done : BOOLEAN, resolvers : SUBSET Scanners]]
    BY DEF TypeInv, TypeOK
  <1>1. /\ recorded'[s].done /\ recorded'[s].resolvers = CompleteScanners(jobs[j].res)
        /\ \A t \in Scans \ {s} : recorded'[t] = recorded[t]
        /\ UNCHANGED <<row, results, risk, verdict>>
    BY <1>s, <1>0 DEF PersistFindings
  <1>2. jobs[j].pc = "persist" /\ Owns(j, s)
    BY <1>s DEF PersistFindings, Owns, Marked, OwnerPCs
  <1>3. /\ jobs'[j].pc = "score" /\ jobs'[j].scan = s
        /\ jobs'[j].todo = jobs[j].todo /\ jobs'[j].cur = jobs[j].cur
        /\ jobs'[j].scored = jobs[j].scored /\ jobs'[j].res = jobs[j].res
    BY <1>s, <1>0 DEF PersistFindings, Jobs
  <1>4. VerdictOfJob(j)'
    BY <1>s, <1>1, <1>3 DEF Ownership, VerdictOfJob
  <1>5. MemoryAgrees(j)'
    BY <1>s, <1>1, <1>2, <1>3 DEF Ownership, MemoryAgrees, Owns
  <1>6. Owns(j, s)' /\ \A i \in Slots \ {j} : ~Owns(i, s)'
    BY <1>2, <1>3 DEF Ownership, OneOwner, SlotStep, Owns, Marked, OwnerPCs
  <1>7. row[s].status \notin {"none", "queued", "completed"} /\ verdict[s].verdict = "none"
    BY <1>2 DEF Ownership, UntakenIsFresh, StoredInOrder
  <1>8. \A n \in CompleteScanners(jobs[j].res) : results[s][n] \in {"none", "succeeded"}
    BY <1>s, <1>2 DEF Ownership, MemoryAgrees, Owns, CompleteScanners
  <1>9. StoredInOrder(s)'
    BY <1>1, <1>3, <1>6, <1>7, <1>8 DEF Ownership, StoredInOrder
  <1>10. QED
    BY <1>1, <1>2, <1>4, <1>5, <1>6, <1>7, <1>9, OwnershipStores

LEMMA OwnershipScore ==
  ASSUME TypeInv, Ownership, NEW j \in Slots, SlotStep(j), UNCHANGED api, Score(j)
  PROVE  Ownership'
  <1>s. PICK s \in Scans : s = jobs[j].scan
    BY DEF Score, TypeInv, HandsFull
  <1>0. jobs \in [Slots -> Jobs] /\ jobs[j] \in Jobs /\ risk \in [Scans -> BOOLEAN]
    BY DEF TypeInv, TypeOK
  <1>1. /\ risk[s] => risk'[s]
        /\ jobs'[j].scored => jobs[j].scored \/ risk'[s]
        /\ \A t \in Scans \ {s} : risk'[t] = risk[t]
        /\ UNCHANGED <<row, results, recorded, verdict>>
    BY <1>s, <1>0 DEF Score, Jobs
  <1>2. jobs[j].pc = "score" /\ Owns(j, s)
    BY <1>s DEF Score, Owns, Marked, OwnerPCs
  <1>3. /\ jobs'[j].pc = "settle" /\ jobs'[j].scan = s
        /\ jobs'[j].todo = jobs[j].todo /\ jobs'[j].cur = jobs[j].cur
        /\ jobs'[j].res = jobs[j].res
    BY <1>s, <1>0 DEF Score, Jobs
  <1>4. VerdictOfJob(j)'
    BY <1>s, <1>1, <1>3 DEF Ownership, VerdictOfJob
  <1>5. MemoryAgrees(j)'
    BY <1>s, <1>1, <1>2, <1>3 DEF Ownership, MemoryAgrees, Owns
  <1>6. Owns(j, s)' /\ \A i \in Slots \ {j} : ~Owns(i, s)'
    BY <1>2, <1>3 DEF Ownership, OneOwner, SlotStep, Owns, Marked, OwnerPCs
  <1>7. /\ row[s].status \notin {"none", "queued", "completed"}
        /\ verdict[s].verdict = "none" /\ recorded[s].done
    BY <1>s, <1>2 DEF Ownership, UntakenIsFresh, StoredInOrder, VerdictOfJob
  <1>8. StoredInOrder(s)'
    BY <1>1, <1>3, <1>6, <1>7 DEF Ownership, StoredInOrder
  <1>9. QED
    BY <1>1, <1>2, <1>4, <1>5, <1>6, <1>7, <1>8, OwnershipStores

\* Evaluate never passes an incomplete scan.
LEMMA IncompleteNeverPasses ==
  ASSUME NEW rule \in {"pass", "warn", "fail"}, NEW complete \in BOOLEAN
  PROVE  /\ Evaluate(rule, complete) \in Levels \ {"none"}
         /\ Evaluate(rule, complete) = "pass" => complete
  BY ConstantsAssumption DEF Evaluate, Rank, Levels

\* The gate passes only what the owner remembers as whole.
LEMMA OwnershipGate ==
  ASSUME TypeInv, Ownership, NEW j \in Slots, SlotStep(j), UNCHANGED api, Gate(j)
  PROVE  Ownership'
  <1>s. PICK s \in Scans : s = jobs[j].scan
    BY DEF Gate, TypeInv, HandsFull
  <1>0. /\ jobs \in [Slots -> Jobs] /\ jobs[j] \in Jobs
        /\ verdict \in [Scans -> [verdict : Levels, complete : BOOLEAN]]
    BY DEF TypeInv, TypeOK
  <1>1. /\ verdict'[s].verdict = "pass" => jobs[j].status = "completed"
        /\ \A t \in Scans \ {s} : verdict'[t] = verdict[t]
        /\ UNCHANGED <<row, results, recorded, risk>>
    <2>1. PICK rule \in {"pass", "warn", "fail"} :
            verdict' = [verdict EXCEPT ![s] =
              [verdict |-> Evaluate(rule, jobs[j].status = "completed"),
               complete |-> jobs[j].status = "completed"]]
      BY <1>s DEF Gate
    <2>2. Evaluate(rule, jobs[j].status = "completed") = "pass" => jobs[j].status = "completed"
      BY IncompleteNeverPasses
    <2>3. verdict'[s].verdict = Evaluate(rule, jobs[j].status = "completed")
      BY <1>0, <2>1
    <2>4. QED
      BY <1>0, <2>1, <2>2, <2>3 DEF Gate
  <1>2. jobs[j].pc = "gate" /\ Owns(j, s) /\ risk[s]
    BY <1>s DEF Gate, Owns, Marked, OwnerPCs, Ownership, VerdictOfJob
  <1>3. /\ jobs'[j].pc = "finalize" /\ jobs'[j].scan = s
        /\ jobs'[j].todo = jobs[j].todo /\ jobs'[j].cur = jobs[j].cur
        /\ jobs'[j].status = jobs[j].status /\ jobs'[j].reason = jobs[j].reason
        /\ jobs'[j].scored = jobs[j].scored /\ jobs'[j].res = jobs[j].res
    BY <1>s, <1>0 DEF Gate, Jobs
  <1>4. VerdictOfJob(j)'
    BY <1>s, <1>1, <1>2, <1>3 DEF Ownership, VerdictOfJob, Owns, Whole
  <1>5. MemoryAgrees(j)'
    BY <1>s, <1>1, <1>2, <1>3 DEF Ownership, MemoryAgrees, Owns
  <1>6. Owns(j, s)' /\ \A i \in Slots \ {j} : ~Owns(i, s)'
    BY <1>2, <1>3 DEF Ownership, OneOwner, SlotStep, Owns, Marked, OwnerPCs, VerdictOfJob
  <1>7. row[s].status \notin {"none", "queued", "completed"}
    BY <1>2 DEF Ownership, UntakenIsFresh, StoredInOrder
  <1>8. jobs[j].status = "completed" => Whole(results[s])
    BY <1>s, <1>2 DEF Ownership, VerdictOfJob, MemoryAgrees, Owns, Whole
  <1>9. StoredInOrder(s)'
    BY <1>1, <1>2, <1>3, <1>6, <1>7, <1>8 DEF Ownership, StoredInOrder, Whole
  <1>10. QED
    BY <1>1, <1>2, <1>4, <1>5, <1>6, <1>7, <1>9, OwnershipStores

\* Finalize ends the ownership, or fails a scan on behalf of a refused job.
LEMMA OwnershipFinalize ==
  ASSUME TypeInv, Ownership, NEW j \in Slots, SlotStep(j), UNCHANGED api, Finalize(j)
  PROVE  Ownership'
  <1>s. PICK s \in Scans : s = jobs[j].scan
    BY DEF Finalize, TypeInv, HandsFull
  <1>0. jobs \in [Slots -> Jobs] /\ jobs[j] \in Jobs /\ row \in [Scans -> Rows] /\ Idle \in Jobs
    BY IdleType DEF TypeInv, TypeOK
  <1>1. /\ \/ row'[s] = row[s]
           \/ /\ row[s].status \in ActiveStatuses
              /\ row'[s].status = jobs[j].status /\ row'[s].reason = jobs[j].reason
        /\ \A t \in Scans \ {s} : row'[t] = row[t]
        /\ UNCHANGED <<results, recorded, risk, verdict>>
    BY <1>s, <1>0 DEF Finalize, FinalizeRow, Rows
  <1>2. jobs'[j].pc = "free" /\ ~jobs'[j].scored /\ ~Marked(j)'
    BY <1>0 DEF Finalize, Idle, Marked, OwnerPCs
  <1>3. /\ jobs[j].pc = "finalize" /\ jobs[j].status \in TerminalStatuses
        /\ jobs[j].status = "failed" <=> jobs[j].reason # "none"
    BY DEF Finalize, Ownership, VerdictOfJob
  <1>4. VerdictOfJob(j)' /\ MemoryAgrees(j)'
    BY <1>2 DEF VerdictOfJob, MemoryAgrees
  <1>5. CASE Marked(j)
    <2>1. Owns(j, s) /\ \A i \in Slots : ~Owns(i, s)'
      BY <1>s, <1>2, <1>5 DEF Ownership, OneOwner, SlotStep, Owns, Marked
    <2>2. row[s].status \notin {"none", "queued", "completed"}
      BY <2>1 DEF Ownership, UntakenIsFresh, StoredInOrder
    <2>3. jobs[j].status = "completed" => Whole(results[s])
      BY <1>s, <1>3, <1>5 DEF Ownership, VerdictOfJob, MemoryAgrees, Whole
    <2>4. StoredInOrder(s)'
      BY <1>1, <1>3, <2>1, <2>2, <2>3 DEF Ownership, StoredInOrder, Whole
    <2>5. row'[s].status \notin {"none", "queued"}
      BY <1>1, <1>3, <2>2 DEF TerminalStatuses
    <2>6. QED
      BY <1>1, <1>2, <1>4, <2>1, <2>4, <2>5, OwnershipStores
  <1>6. CASE ~Marked(j)
    <2>1. jobs[j].status = "failed" /\ jobs[j].reason # "none"
      BY <1>3, <1>6 DEF Marked, Refusals
    <2>2. \A i \in Slots \ {j} : jobs'[i] = jobs[i]
      BY DEF SlotStep
    <2>3. \A i \in Slots : Marked(i)' => jobs'[i] = jobs[i] /\ Marked(i)
      BY <1>2, <2>2 DEF Marked
    <2>4. OneOwner'
      BY <2>3 DEF Ownership, OneOwner
    <2>5. \A t \in Scans, i \in Slots : Owns(i, t)' => Owns(i, t) /\ jobs'[i] = jobs[i]
      BY <2>3 DEF Owns
    <2>6. \A i \in Slots : VerdictOfJob(i)' /\ MemoryAgrees(i)'
      <3>1. ASSUME NEW i \in Slots \ {j} PROVE VerdictOfJob(i)' /\ MemoryAgrees(i)'
        BY <1>1, <2>2, <3>1 DEF Ownership, VerdictOfJob, MemoryAgrees, Marked, Whole
      <3>2. QED
        BY <1>4, <3>1
    <2>7. UntakenIsFresh'
      BY <1>1, <2>1, <2>5 DEF Ownership, UntakenIsFresh, ActiveStatuses
    <2>8. \A t \in Scans : StoredInOrder(t)'
      BY <1>1, <2>1, <2>5 DEF Ownership, StoredInOrder, Whole
    <2>9. QED
      BY <2>4, <2>6, <2>7, <2>8 DEF Ownership
  <1>7. QED
    BY <1>5, <1>6

LEMMA OwnershipJob ==
  ASSUME TypeInv, Ownership, NEW j \in Slots, JobStep(j) \/ JobFault(j)
  PROVE  Ownership'
  <1>1. SlotStep(j) /\ UNCHANGED api
    BY JobSlotStep, JobFrame
  <1>2. CASE NotMarked(j) \/ Panic(j)
    <2>1. jobs' = [jobs EXCEPT ![j] = Idle] /\ UNCHANGED <<row, results, recorded, risk, verdict>>
      BY <1>2 DEF NotMarked, Panic, dbVars
    <2>2. \A i \in Slots : jobs'[i] = jobs[i] \/ (jobs'[i].pc = "free" /\ ~jobs'[i].scored)
      BY <2>1 DEF Idle, TypeInv, TypeOK
    <2>3. QED
      BY <1>1, <2>1, <2>2, OwnershipReleased
  <1>3. QED
    BY <1>1, <1>2, OwnershipQuiet, OwnershipMarkRunning, OwnershipIngest, OwnershipPersist,
       OwnershipScore, OwnershipGate, OwnershipFinalize
    DEF JobStep, JobFault

LEMMA OwnershipNext == TypeInv /\ Ownership /\ [Next]_vars => Ownership'
  <1> SUFFICES ASSUME TypeInv, Ownership, [Next]_vars PROVE Ownership'
    OBVIOUS
  <1>1. CASE UNCHANGED vars
    BY <1>1, OwnershipReleased DEF vars, dbVars
  <1>2. QED
    BY <1>1, OwnershipHandler, OwnershipLoop, OwnershipJob DEF Next

\* MarkRunning gives every scan to at most one delivery, for good, however
\* often Redis delivers the job and whatever crashes (the inductive invariant
\* on which the theorems below rest).
THEOREM OwnershipHolds == Spec => [](TypeInv /\ Ownership)
  BY TypeInit, TypeNext, OwnershipInit, OwnershipNext, PTL DEF Spec

-----------------------------------------------------------------------------
(* The safety properties, for every instance. *)

\* At most one delivery of a scan is between MarkRunning and its finalize call
\* (executeJob), with any number of workers, slots and duplicate deliveries.
THEOREM SingleOwnerHolds == Spec => []SingleOwner
  <1>1. TypeInv /\ Ownership => SingleOwner
    BY DEF Ownership, OneOwner, SingleOwner, Marked
  <1>2. QED
    BY <1>1, OwnershipHolds, PTL

\* A scan reported COMPLETED has no scanner on record as failed, skipped or
\* degraded (Scan.TerminalStatus, runner.finalize).
THEOREM CompletedIsWholeHolds == Spec => []CompletedIsWhole
  <1>1. TypeInv /\ Ownership => CompletedIsWhole
    BY DEF Ownership, StoredInOrder, CompletedIsWhole, Whole
  <1>2. QED
    BY <1>1, OwnershipHolds, PTL

\* Nor has a scan with a stored PASS (policies.Evaluate, runner.gate), whatever
\* the level the policy gives to an incomplete scan.
THEOREM PassIsWholeHolds == Spec => []PassIsWhole
  <1>1. TypeInv /\ Ownership => PassIsWhole
    BY DEF Ownership, StoredInOrder, PassIsWhole, Whole
  <1>2. QED
    BY <1>1, OwnershipHolds, PTL

\* No scanner on record as failed, skipped or degraded may resolve findings
\* (runner.persistFindings).
THEOREM ResolversSucceededHolds == Spec => []ResolversSucceeded
  <1>1. TypeInv /\ Ownership => ResolversSucceeded
    BY DEF Ownership, StoredInOrder, ResolversSucceeded
  <1>2. QED
    BY <1>1, OwnershipHolds, PTL

\* What is judged was scored, and what is scored was recorded (runner.score).
THEOREM JudgedWasScoredHolds == Spec => []JudgedWasScored
  <1>1. TypeInv /\ Ownership => JudgedWasScored
    BY DEF Ownership, StoredInOrder, JudgedWasScored
  <1>2. QED
    BY <1>1, OwnershipHolds, PTL

\* The failed scans are exactly those with a reason (executeJob,
\* failUnqueuedScan).
THEOREM FailedHasReasonHolds == Spec => []FailedHasReason
  <1>1. TypeInv /\ Ownership => FailedHasReason
    BY DEF Ownership, StoredInOrder, FailedHasReason
  <1>2. QED
    BY <1>1, OwnershipHolds, PTL

-----------------------------------------------------------------------------
(* The verdict and the row: what the owner stored as its verdict agrees with *)
(* the status it is about to give, or has given, the scan.                   *)

\* The refusals that depend on the scan alone, and are the same every time.
Unresolved == {"no_scanner", "not_registered"}

\* A delivery that goes on has scanners to run, one refused for want of them
\* has none.
ResolvedJob(j) ==
    /\ jobs[j].pc = "mark" \/ Marked(j) => Resolve(jobs[j].scan) # {}
    /\ jobs[j].pc = "finalize" /\ jobs[j].reason \in Unresolved => Resolve(jobs[j].scan) = {}

\* The reasons for which a scan may be failed under its owner: the API lost an
\* enqueue's reply, or another delivery could not validate the target.
Foreign == {"not_enqueued", "target_invalid"}

\* The stored verdict knows how the owner settles the scan.
VerdictStands(s) ==
    /\ row[s].reason \in Unresolved => Resolve(s) = {}
    /\ row[s].status \in TerminalStatuses =>
         \A j \in Slots : Owns(j, s) => row[s].reason \in Foreign
    /\ verdict[s].verdict # "none" =>
         /\ Resolve(s) # {}
         /\ verdict[s].verdict = "pass" => verdict[s].complete
         /\ \A j \in Slots : Owns(j, s) => (verdict[s].complete <=> jobs[j].status = "completed")
         /\ row[s].status = "completed" => verdict[s].complete
         /\ verdict[s].complete /\ row[s].status \in TerminalStatuses =>
              row[s].status = "completed" \/ row[s].reason \in Foreign

Standing ==
    /\ \A j \in Slots : ResolvedJob(j)
    /\ \A s \in Scans : VerdictStands(s)

LEMMA StandingInit == Init => Standing
  BY DEF Init, Standing, ResolvedJob, VerdictStands, Owns, Marked, OwnerPCs, Idle, Unresolved

\* POST /scans fails a scan with a reason of its own.
LEMMA StandingHandler ==
  ASSUME TypeInv, Ownership, Standing, NEW s \in Scans,
         CreateScan(s) \/ HandlerStep(s) \/ HandlerFault(s)
  PROVE  Standing'
  <1>1. UNCHANGED <<verdict, jobs>> /\ HandlerRow(s)
    BY HandlerFrame, HandlerRowStep
  <1>2. \A j \in Slots : ResolvedJob(j)' /\ \A t \in Scans : Owns(j, t)' <=> Owns(j, t)
    BY <1>1 DEF Standing, ResolvedJob, Owns, Marked
  <1>3. ASSUME NEW t \in Scans PROVE VerdictStands(t)'
    <2>1. CASE row'[t] = row[t]
      BY <1>1, <1>2, <2>1 DEF Standing, VerdictStands
    <2>2. CASE row'[t] # row[t]
      <3>1. \/ row'[t].status = "queued" /\ row'[t].reason = row[t].reason /\ verdict[t].verdict = "none"
            \/ row'[t].status = "failed" /\ row'[t].reason = "not_enqueued"
        BY <1>1, <1>3, <2>2 DEF HandlerRow, Ownership, UntakenIsFresh
      <3>2. QED
        BY <1>1, <1>2, <3>1 DEF Standing, VerdictStands, Unresolved, Foreign, TerminalStatuses
    <2>3. QED
      BY <2>1, <2>2
  <1>4. QED
    BY <1>2, <1>3 DEF Standing

\* Slots are emptied, or filled with a job that has not been validated.
LEMMA StandingReleased ==
  ASSUME TypeInv, Ownership, Standing, UNCHANGED <<row, verdict>>,
         \A i \in Slots : jobs'[i] = jobs[i] \/ jobs'[i].pc \in {"free", "validate"}
  PROVE  Standing'
  <1>1. \A i \in Slots : Marked(i)' => jobs'[i] = jobs[i] /\ Marked(i)
    BY DEF Marked, OwnerPCs
  <1>2. \A i \in Slots : ResolvedJob(i)'
    BY <1>1 DEF Standing, ResolvedJob
  <1>3. \A t \in Scans, i \in Slots : Owns(i, t)' => Owns(i, t) /\ jobs'[i] = jobs[i]
    BY <1>1 DEF Owns
  <1>4. \A t \in Scans : VerdictStands(t)'
    BY <1>3 DEF Standing, VerdictStands
  <1>5. QED
    BY <1>2, <1>4 DEF Standing

\* Steps of a job before it has a verdict, that leave status and reason alone.
LEMMA StandingMoves ==
  ASSUME TypeInv, Ownership, Standing, NEW j \in Slots, SlotStep(j), UNCHANGED verdict,
         \A s \in Scans : row'[s].status = row[s].status /\ row'[s].reason = row[s].reason,
         Marked(j)' => Marked(j) /\ jobs[j].pc # "finalize",
         ResolvedJob(j)'
  PROVE  Standing'
  <1>1. \A i \in Slots \ {j} : jobs'[i] = jobs[i] /\ (Marked(i)' <=> Marked(i))
    BY DEF SlotStep, Marked
  <1>2. \A i \in Slots : ResolvedJob(i)'
    BY <1>1 DEF Standing, ResolvedJob
  <1>3. jobs'[j].pc # "free" => jobs'[j].scan = jobs[j].scan
    BY DEF SlotStep
  <1>4. \A s \in Scans : Owns(j, s)' => Owns(j, s) /\ jobs[j].pc # "finalize"
    BY <1>3 DEF Owns, Marked, OwnerPCs
  <1>5. ASSUME NEW s \in Scans PROVE VerdictStands(s)'
    <2>1. \A i \in Slots : Owns(i, s)' => Owns(i, s)
      BY <1>1, <1>4 DEF Owns
    <2>2. verdict[s].verdict # "none" => ~Owns(j, s)'
      BY <1>4 DEF Ownership, StoredInOrder
    <2>3. verdict[s].verdict # "none" => \A i \in Slots : Owns(i, s)' => Owns(i, s) /\ jobs'[i] = jobs[i]
      BY <1>1, <2>1, <2>2
    <2>4. QED
      BY <2>1, <2>3 DEF Standing, VerdictStands
  <1>6. QED
    BY <1>2, <1>5 DEF Standing

\* The stages of executeJob that store neither a verdict nor a status.
LEMMA StandingQuiet ==
  ASSUME TypeInv, Ownership, Standing, NEW j \in Slots, SlotStep(j),
         \/ Validate(j) \/ FetchFailed(j) \/ Fetched(j) \/ BreakLoop(j) \/ NotPersisted(j)
         \/ (\E n \in Scanners : RunScanner(j, n)) \/ Settle(j) \/ NoGate(j) \/ JobDeadline(j)
         \/ Ingest(j) \/ PersistFindings(j) \/ Score(j)
  PROVE  Standing'
  <1> USE DEF dbVars
  <1>t. jobs \in [Slots -> Jobs] /\ jobs[j] \in Jobs /\ row \in [Scans -> Rows]
    BY DEF TypeInv, TypeOK
  <1>r. /\ \A s \in Scans : row'[s].status = row[s].status /\ row'[s].reason = row[s].reason
        /\ UNCHANGED verdict
    <2>1. row' = row \/ CheckoutRow(jobs[j].scan)
      BY DEF Validate, FetchFailed, Fetched, BreakLoop, NotPersisted, RunScanner, Settle,
             NoGate, JobDeadline, Ingest, PersistFindings, Score
    <2>2. UNCHANGED verdict
      BY DEF Validate, FetchFailed, Fetched, BreakLoop, NotPersisted, RunScanner, Settle,
             NoGate, JobDeadline, Ingest, PersistFindings, Score
    <2>3. QED
      BY <1>t, <2>1, <2>2 DEF CheckoutRow, Rows
  <1>v. ResolvedJob(j) /\ VerdictOfJob(j)
    BY DEF Standing, Ownership
  <1>f. ASSUME NEW reason \in Reasons, FailJob(j, reason)
        PROVE  /\ jobs'[j].pc = "finalize" /\ jobs'[j].reason = reason /\ jobs'[j].scan = jobs[j].scan
    BY <1>t, <1>f DEF FailJob, Jobs
  <1>1. CASE Validate(j)
    <2> DEFINE s == jobs[j].scan
    <2>1. CASE FailJob(j, "target_invalid")
      <3>1. jobs'[j].pc = "finalize" /\ jobs'[j].reason = "target_invalid"
        BY <1>f, <2>1 DEF Reasons
      <3>2. ~Marked(j)' /\ ResolvedJob(j)'
        BY <3>1 DEF Marked, OwnerPCs, Refusals, ResolvedJob, Unresolved
      <3>3. QED
        BY <1>r, <3>2, StandingMoves
    <2>2. CASE Resolve(s) = {} /\ FailJob(j, IF RequestOf[s] = {} THEN "no_scanner" ELSE "not_registered")
      <3>1. /\ jobs'[j].pc = "finalize" /\ jobs'[j].reason \in Unresolved /\ jobs'[j].scan = s
        BY <1>f, <2>2 DEF Reasons, Unresolved
      <3>2. ~Marked(j)' /\ ResolvedJob(j)'
        BY <2>2, <3>1 DEF Marked, OwnerPCs, Refusals, ResolvedJob, Unresolved
      <3>3. QED
        BY <1>r, <3>2, StandingMoves
    <2>3. CASE Resolve(s) # {} /\ jobs' = [jobs EXCEPT ![j].pc = "mark", ![j].todo = Resolve(s)]
      <3>1. jobs'[j].pc = "mark" /\ jobs'[j].scan = s
        BY <1>t, <2>3 DEF Jobs
      <3>2. ~Marked(j)' /\ ResolvedJob(j)'
        BY <2>3, <3>1 DEF Marked, OwnerPCs, ResolvedJob
      <3>3. QED
        BY <1>r, <3>2, StandingMoves
    <2>4. QED
      BY <1>1, <2>1, <2>2, <2>3 DEF Validate
  <1>2. CASE FetchFailed(j)
    <2>1. PICK reason \in {"workspace", "fetch_failed", "too_large"} : FailJob(j, reason)
      BY <1>2 DEF FetchFailed
    <2>2. jobs'[j].pc = "finalize" /\ jobs'[j].reason = reason /\ jobs'[j].scan = jobs[j].scan
      BY <1>f, <2>1 DEF Reasons
    <2>3. jobs[j].pc = "fetch" /\ Marked(j)
      BY <1>2 DEF FetchFailed, Marked, OwnerPCs
    <2>4. ResolvedJob(j)'
      BY <1>v, <2>2, <2>3 DEF ResolvedJob, Unresolved
    <2>5. QED
      BY <1>r, <2>3, <2>4, StandingMoves
  <1>3. CASE JobDeadline(j)
    <2>1. jobs' = [jobs EXCEPT ![j].expired = TRUE] /\ jobs[j].pc # "finalize"
      BY <1>3 DEF JobDeadline
    <2>2. jobs'[j].pc = jobs[j].pc /\ jobs'[j].scan = jobs[j].scan /\ jobs'[j].reason = jobs[j].reason
      BY <1>t, <2>1 DEF Jobs
    <2>3. ResolvedJob(j)' /\ (Marked(j)' => Marked(j))
      BY <1>v, <2>2 DEF ResolvedJob, Marked
    <2>4. QED
      BY <1>r, <2>1, <2>3, StandingMoves
  <1>4. ASSUME jobs[j].pc \in OwnerPCs,
               jobs'[j].scan = jobs[j].scan,
               \/ jobs'[j].pc \in OwnerPCs
               \/ jobs'[j].pc = "finalize" /\ jobs'[j].reason \notin Unresolved
        PROVE  Standing'
    <2>1. Marked(j) /\ jobs[j].pc # "finalize" /\ jobs'[j].pc # "mark"
      BY <1>4 DEF Marked, OwnerPCs
    <2>2. ResolvedJob(j)'
      BY <1>v, <1>4, <2>1 DEF ResolvedJob, OwnerPCs
    <2>3. QED
      BY <1>r, <2>1, <2>2, StandingMoves
  <1>5. CASE \/ Fetched(j) \/ BreakLoop(j) \/ NotPersisted(j) \/ PersistFindings(j) \/ Score(j)
    BY <1>t, <1>4, <1>5 DEF Fetched, BreakLoop, NotPersisted, PersistFindings, Score, OwnerPCs, Jobs
  <1>6. ASSUME NEW n \in Scanners, RunScanner(j, n) PROVE Standing'
    <2>1. PICK out \in Outcomes :
            jobs' = [jobs EXCEPT ![j].pc = "ingest", ![j].cur = n, ![j].out = out,
                                 ![j].todo = @ \ {n}]
      BY <1>6 DEF RunScanner
    <2>2. jobs'[j].pc = "ingest" /\ jobs'[j].scan = jobs[j].scan /\ jobs[j].pc = "scan"
      BY <1>t, <1>6, <2>1 DEF RunScanner, Jobs
    <2>3. QED
      BY <1>4, <2>2 DEF OwnerPCs
  <1>7. CASE Settle(j)
    BY <1>t, <1>4, <1>7 DEF Settle, OwnerPCs, Jobs
  <1>8. CASE NoGate(j)
    <2>1. jobs' = [jobs EXCEPT ![j].pc = "finalize"] /\ jobs[j].pc = "gate"
      BY <1>8 DEF NoGate
    <2>2. jobs[j].reason \notin Unresolved
      BY <1>v, <2>1 DEF VerdictOfJob, Refusals, Unresolved
    <2>3. jobs'[j].pc = "finalize" /\ jobs'[j].scan = jobs[j].scan /\ jobs'[j].reason = jobs[j].reason
      BY <1>t, <2>1 DEF Jobs
    <2>4. QED
      BY <1>4, <2>1, <2>2, <2>3 DEF OwnerPCs
  <1>9. CASE Ingest(j)
    <2>1. PICK lands, out : jobs' = [jobs EXCEPT ![j] = Ingested(jobs[j], out, lands)]
      BY <1>9 DEF Ingest
    <2>2. jobs'[j].pc \in {"scan", "persist"} /\ jobs'[j].scan = jobs[j].scan
      BY <1>t, <2>1 DEF Ingested, Jobs
    <2>3. QED
      BY <1>4, <1>9, <2>2 DEF Ingest, OwnerPCs
  <1>10. QED
    BY <1>1, <1>2, <1>3, <1>5, <1>6, <1>7, <1>8, <1>9

\* MarkRunning takes a scan that has neither a verdict nor an owner.
LEMMA StandingMarkRunning ==
  ASSUME TypeInv, Ownership, Standing, NEW j \in Slots, SlotStep(j), MarkRunning(j)
  PROVE  Standing'
  <1>s. PICK s \in Scans : s = jobs[j].scan
    BY DEF MarkRunning, TypeInv, HandsFull
  <1>0. jobs \in [Slots -> Jobs] /\ jobs[j] \in Jobs /\ row \in [Scans -> Rows]
    BY DEF TypeInv, TypeOK
  <1>1. /\ row[s].status = "queued" /\ row'[s].status = "running" /\ row'[s].reason = row[s].reason
        /\ \A t \in Scans \ {s} : row'[t] = row[t]
        /\ UNCHANGED verdict /\ jobs[j].pc = "mark"
    BY <1>s, <1>0 DEF MarkRunning, CanMarkRunning, Rows
  <1>2. jobs'[j].pc = "fetch" /\ jobs'[j].scan = s
    BY <1>s, <1>0 DEF MarkRunning, Jobs
  <1>3. \A i \in Slots \ {j} : jobs'[i] = jobs[i] /\ (Marked(i)' <=> Marked(i))
    BY DEF SlotStep, Marked
  <1>4. \A i \in Slots : ResolvedJob(i)'
    BY <1>s, <1>1, <1>2, <1>3 DEF Standing, ResolvedJob
  <1>5. verdict[s].verdict = "none"
    BY <1>1 DEF Ownership, UntakenIsFresh
  <1>6. \A i \in Slots, t \in Scans \ {s} : Owns(i, t)' => Owns(i, t) /\ jobs'[i] = jobs[i]
    BY <1>2, <1>3 DEF Owns
  <1>7. ASSUME NEW t \in Scans \ {s} PROVE VerdictStands(t)'
    BY <1>1, <1>6, <1>7 DEF Standing, VerdictStands
  <1>8. VerdictStands(s)'
    BY <1>1, <1>5 DEF Standing, VerdictStands, TerminalStatuses
  <1>9. QED
    BY <1>4, <1>7, <1>8 DEF Standing

\* The gate judges as complete exactly what its owner settles as completed.
LEMMA StandingGate ==
  ASSUME TypeInv, Ownership, Standing, NEW j \in Slots, SlotStep(j), Gate(j)
  PROVE  Standing'
  <1>s. PICK s \in Scans : s = jobs[j].scan
    BY DEF Gate, TypeInv, HandsFull
  <1>0. /\ jobs \in [Slots -> Jobs] /\ jobs[j] \in Jobs
        /\ verdict \in [Scans -> [verdict : Levels, complete : BOOLEAN]]
    BY DEF TypeInv, TypeOK
  <1> DEFINE complete == jobs[j].status = "completed"
  <1>1. /\ verdict'[s].verdict = "pass" => verdict'[s].complete
        /\ verdict'[s].complete <=> complete
        /\ \A t \in Scans \ {s} : verdict'[t] = verdict[t]
    <2>1. PICK rule \in {"pass", "warn", "fail"} :
            verdict' = [verdict EXCEPT ![s] =
              [verdict |-> Evaluate(rule, complete), complete |-> complete]]
      BY <1>s DEF Gate
    <2>2. Evaluate(rule, complete) = "pass" => complete
      BY IncompleteNeverPasses
    <2>3. complete \in BOOLEAN
      OBVIOUS
    <2> HIDE DEF complete
    <2>4. verdict'[s] = [verdict |-> Evaluate(rule, complete), complete |-> complete]
      BY <1>0, <2>1
    <2>5. verdict'[s].verdict = Evaluate(rule, complete) /\ verdict'[s].complete = complete
      BY <2>4
    <2>6. QED
      BY <1>0, <2>1, <2>2, <2>3, <2>5
  <1>2. jobs[j].pc = "gate" /\ Owns(j, s) /\ Marked(j) /\ row' = row
    BY <1>s DEF Gate, Owns, Marked, OwnerPCs
  <1>3. /\ jobs'[j].pc = "finalize" /\ jobs'[j].scan = s
        /\ jobs'[j].status = jobs[j].status /\ jobs'[j].reason = jobs[j].reason
    BY <1>s, <1>0 DEF Gate, Jobs
  <1>4. jobs[j].reason \notin Unresolved /\ Resolve(s) # {}
    BY <1>s, <1>2 DEF Ownership, VerdictOfJob, Refusals, Unresolved, Standing, ResolvedJob
  <1>5. \A i \in Slots \ {j} : jobs'[i] = jobs[i] /\ (Marked(i)' <=> Marked(i)) /\ ~Owns(i, s)
    BY <1>2 DEF SlotStep, Marked, Ownership, OneOwner, Owns
  <1>6. \A i \in Slots : ResolvedJob(i)'
    BY <1>3, <1>4, <1>5 DEF Standing, ResolvedJob
  <1>7. \A i \in Slots, t \in Scans \ {s} : Owns(i, t)' => Owns(i, t) /\ jobs'[i] = jobs[i]
    BY <1>3, <1>5 DEF Owns
  <1>8. ASSUME NEW t \in Scans \ {s} PROVE VerdictStands(t)'
    BY <1>1, <1>2, <1>7, <1>8 DEF Standing, VerdictStands
  <1>9. VerdictStands(s)'
    <2>1. row[s].status # "completed"
      BY <1>2 DEF Ownership, StoredInOrder
    <2>2. \A i \in Slots : Owns(i, s)' => i = j
      BY <1>5 DEF Owns
    <2>3. \A i \in Slots : Owns(i, s)' => (verdict'[s].complete <=> jobs'[i].status = "completed")
      BY <1>1, <1>3, <2>2
    <2>4. row[s].status \in TerminalStatuses => row[s].reason \in Foreign
      BY <1>2 DEF Standing, VerdictStands
    <2>5. QED
      BY <1>1, <1>2, <1>4, <2>1, <2>3, <2>4 DEF Standing, VerdictStands
  <1>10. QED
    BY <1>6, <1>8, <1>9 DEF Standing

\* Finalize gives the row the status the verdict was computed for, or a refused
\* delivery fails it.
LEMMA StandingFinalize ==
  ASSUME TypeInv, Ownership, Standing, NEW j \in Slots, SlotStep(j), Finalize(j)
  PROVE  Standing'
  <1>s. PICK s \in Scans : s = jobs[j].scan
    BY DEF Finalize, TypeInv, HandsFull
  <1>0. jobs \in [Slots -> Jobs] /\ jobs[j] \in Jobs /\ row \in [Scans -> Rows]
    BY DEF TypeInv, TypeOK
  <1>1. /\ \/ row'[s] = row[s]
           \/ row'[s].status = jobs[j].status /\ row'[s].reason = jobs[j].reason
        /\ \A t \in Scans \ {s} : row'[t] = row[t]
        /\ UNCHANGED verdict /\ jobs[j].pc = "finalize"
    BY <1>s, <1>0 DEF Finalize, FinalizeRow, Rows
  <1>2. jobs'[j].pc = "free" /\ ~Marked(j)'
    BY <1>0 DEF Finalize, Idle, Marked, OwnerPCs
  <1>3. \A i \in Slots : Marked(i)' => jobs'[i] = jobs[i] /\ Marked(i)
    BY <1>2 DEF SlotStep, Marked
  <1>4. \A i \in Slots : ResolvedJob(i)'
    BY <1>2, <1>3 DEF Standing, ResolvedJob, SlotStep
  <1>5. \A i \in Slots, t \in Scans : Owns(i, t)' => Owns(i, t) /\ jobs'[i] = jobs[i]
    BY <1>3 DEF Owns
  <1>6. ASSUME NEW t \in Scans, row'[t] = row[t] PROVE VerdictStands(t)'
    BY <1>1, <1>5, <1>6 DEF Standing, VerdictStands
  <1>7. ASSUME row'[s].status = jobs[j].status, row'[s].reason = jobs[j].reason
        PROVE  VerdictStands(s)'
    <2>0. /\ jobs[j].status \in TerminalStatuses
          /\ jobs[j].status = "failed" <=> jobs[j].reason # "none"
          /\ jobs[j].reason \in Unresolved => Resolve(s) = {}
      BY <1>s, <1>1 DEF Ownership, VerdictOfJob, Standing, ResolvedJob
    <2>1. CASE Marked(j)
      <3>1. Owns(j, s) /\ \A i \in Slots : ~Owns(i, s)'
        BY <1>s, <1>2, <1>5, <2>1 DEF Ownership, OneOwner, Owns
      <3>2. verdict[s].verdict # "none" => (verdict[s].complete <=> jobs[j].status = "completed")
        BY <3>1 DEF Standing, VerdictStands
      <3>3. QED
        BY <1>1, <1>7, <2>0, <3>1, <3>2 DEF Standing, VerdictStands
    <2>2. CASE ~Marked(j)
      <3>1. jobs[j].reason \in Refusals /\ jobs[j].status = "failed"
        BY <1>1, <2>0, <2>2 DEF Marked, Refusals
      <3>2. jobs[j].reason \in Unresolved => verdict[s].verdict = "none"
        BY <2>0 DEF Standing, VerdictStands
      <3>3. \A i \in Slots : Owns(i, s)' => Resolve(s) # {}
        BY <1>5 DEF Standing, ResolvedJob, Owns
      <3>4. jobs[j].reason \in Unresolved \/ jobs[j].reason \in Foreign
        BY <3>1 DEF Refusals, Unresolved, Foreign
      <3>5. QED
        BY <1>1, <1>5, <1>7, <2>0, <3>1, <3>2, <3>3, <3>4 DEF Standing, VerdictStands
    <2>3. QED
      BY <2>1, <2>2
  <1>8. \A t \in Scans : VerdictStands(t)'
    BY <1>1, <1>6, <1>7
  <1>9. QED
    BY <1>4, <1>8 DEF Standing

LEMMA StandingNext ==
  ASSUME TypeInv, Ownership, Standing, [Next]_vars
  PROVE  Standing'
  <1>1. ASSUME NEW w \in Workers, LoopStep(w) \/ LoopFault(w) PROVE Standing'
    <2>1. UNCHANGED <<row, verdict>>
      BY <1>1 DEF LoopStep, LoopFault, Dequeue, StartJob, DropJob, StopConsuming, Drained, Restart,
                  Shutdown, Crash, dbVars
    <2>2. jobs \in [Slots -> Jobs] /\ Idle \in Jobs
      BY IdleType DEF TypeInv, TypeOK
    <2>3. ASSUME NEW j \in Slots, StartJob(w, j)
          PROVE  \A i \in Slots : jobs'[i] = jobs[i] \/ jobs'[i].pc \in {"free", "validate"}
      BY <2>2, <2>3 DEF StartJob, Idle
    <2>4. CASE Crash(w)
      BY <2>1, <2>2, <2>4, StandingReleased DEF Crash, Idle
    <2>5. CASE \E j \in Slots : StartJob(w, j)
      BY <2>1, <2>3, <2>5, StandingReleased
    <2>6. CASE jobs' = jobs
      BY <2>1, <2>6, StandingReleased
    <2>7. QED
      BY <1>1, <2>4, <2>5, <2>6
      DEF LoopStep, LoopFault, Dequeue, DropJob, StopConsuming, Drained, Restart, Shutdown
  <1>2. ASSUME NEW j \in Slots, JobStep(j) \/ JobFault(j) PROVE Standing'
    <2>1. SlotStep(j)
      BY <1>2, JobSlotStep
    <2>2. CASE NotMarked(j) \/ Panic(j)
      <3>1. jobs' = [jobs EXCEPT ![j] = Idle] /\ UNCHANGED <<row, verdict>>
        BY <2>2 DEF NotMarked, Panic, dbVars
      <3>2. \A i \in Slots : jobs'[i] = jobs[i] \/ jobs'[i].pc = "free"
        BY <3>1 DEF Idle, TypeInv, TypeOK
      <3>3. QED
        BY <3>1, <3>2, StandingReleased
    <2>3. QED
      BY <1>2, <2>1, <2>2, StandingQuiet, StandingMarkRunning, StandingGate, StandingFinalize
      DEF JobStep, JobFault
  <1>3. CASE UNCHANGED vars
    BY <1>3, StandingReleased DEF vars, dbVars
  <1>4. QED
    BY <1>1, <1>2, <1>3, StandingHandler DEF Next

\* The verdict a scan has stored agrees with the status its owner gives it.
THEOREM StandingHolds == Spec => [](TypeInv /\ Ownership /\ Standing)
  BY StandingInit, StandingNext, OwnershipHolds, PTL DEF Spec

\* A terminal scan with a stored PASS is completed, unless somebody other than
\* the delivery that owns it failed it: failUnqueuedScan after an enqueue whose
\* reply was lost, or a second delivery's target validation.
THEOREM PassOutlivedHolds == Spec => []PassOutlived
  <1>1. Standing => PassOutlived
    BY DEF Standing, VerdictStands, Foreign, PassOutlived
  <1>2. QED
    BY <1>1, StandingHolds, PTL

\* The row of s moves along allowedTransitions, or keeps its status and changes
\* only while the scan is active; no other row changes.
RowMove(s) ==
    /\ \A t \in Scans \ {s} : row'[t] = row[t]
    /\ \/ row'[s] = row[s]
       \/ row'[s].status = row[s].status /\ row[s].status \in ActiveStatuses
       \/ row[s].status = "none" /\ row'[s].status = "queued"
       \/ row[s].status = "queued" /\ row'[s].status \in {"running", "failed"}
       \/ row[s].status = "running" /\ row'[s].status \in TerminalStatuses

\* Every step changes at most the row of one scan, and moves it legally.
LEMMA RowStep ==
  ASSUME TypeInv, Ownership, [Next]_vars
  PROVE  row' = row \/ \E s \in Scans : RowMove(s)
  <1>t. row \in [Scans -> Rows] /\ jobs \in [Slots -> Jobs]
    BY DEF TypeInv, TypeOK
  <1>1. ASSUME NEW s \in Scans, CreateScan(s) PROVE RowMove(s)
    BY <1>t, <1>1 DEF CreateScan, RowMove, Rows, Ownership, UntakenIsFresh
  <1>2. ASSUME NEW s \in Scans, FailUnqueued(s) PROVE RowMove(s)
    BY <1>t, <1>2 DEF FailUnqueued, FinalizeRow, RowMove, Rows, ActiveStatuses, TerminalStatuses
  <1>3. ASSUME NEW j \in Slots, MarkRunning(j) PROVE \E s \in Scans : RowMove(s)
    <2>1. PICK s \in Scans : s = jobs[j].scan
      BY <1>3 DEF MarkRunning, TypeInv, HandsFull
    <2>2. RowMove(s)
      BY <1>t, <1>3, <2>1 DEF MarkRunning, CanMarkRunning, RowMove, Rows
    <2>3. QED
      BY <2>2
  <1>4. ASSUME NEW j \in Slots, Fetched(j) PROVE row' = row \/ \E s \in Scans : RowMove(s)
    <2>1. PICK s \in Scans : s = jobs[j].scan
      BY <1>4 DEF Fetched, TypeInv, HandsFull
    <2>2. row' = row \/ CheckoutRow(s)
      BY <1>4, <2>1 DEF Fetched
    <2>3. CheckoutRow(s) => row' = row \/ RowMove(s)
      BY <1>t DEF CheckoutRow, RowMove, Rows
    <2>4. QED
      BY <2>2, <2>3
  <1>5. ASSUME NEW j \in Slots, Finalize(j) PROVE row' = row \/ \E s \in Scans : RowMove(s)
    <2>1. PICK s \in Scans : s = jobs[j].scan
      BY <1>5 DEF Finalize, TypeInv, HandsFull
    <2>2. row' = row \/ FinalizeRow(s, jobs[j].status, jobs[j].reason)
      BY <1>5, <2>1 DEF Finalize
    <2>3. /\ jobs[j].pc = "finalize" /\ jobs[j].status \in TerminalStatuses
          /\ jobs[j].status = "failed" <=> jobs[j].reason # "none"
      BY <1>5 DEF Finalize, Ownership, VerdictOfJob
    <2>4. row[s].status = "queued" => jobs[j].status = "failed"
      BY <2>1, <2>3 DEF Ownership, UntakenIsFresh, Owns, Marked, Refusals
    <2>5. FinalizeRow(s, jobs[j].status, jobs[j].reason) => row' = row \/ RowMove(s)
      BY <1>t, <2>3, <2>4 DEF FinalizeRow, RowMove, Rows, ActiveStatuses
    <2>6. QED
      BY <2>2, <2>5
  <1>6. CASE UNCHANGED vars
    BY <1>6 DEF vars, dbVars
  <1>7. ASSUME NEW w \in Workers, LoopStep(w) \/ LoopFault(w) PROVE row' = row
    BY <1>7 DEF LoopStep, LoopFault, Dequeue, StartJob, DropJob, StopConsuming, Drained,
                Restart, Shutdown, Crash, dbVars
  <1>8. ASSUME NEW s \in Scans, HandlerStep(s) \/ HandlerFault(s)
        PROVE  row' = row \/ RowMove(s)
    BY <1>2, <1>8 DEF HandlerStep, HandlerFault, EnqueueOK, EnqueueError, Disconnect, APICrash, dbVars
  <1>9. ASSUME NEW j \in Slots, JobStep(j) \/ JobFault(j)
        PROVE  row' = row \/ \E s \in Scans : RowMove(s)
    BY <1>3, <1>4, <1>5, <1>9
    DEF JobStep, JobFault, Validate, NotMarked, FetchFailed, RunScanner, BreakLoop, Ingest,
        PersistFindings, NotPersisted, Score, Settle, Gate, NoGate, JobDeadline, Panic, dbVars
  <1>10. QED
    BY <1>1, <1>6, <1>7, <1>8, <1>9 DEF Next

LEMMA FrozenStep ==
  ASSUME TypeInv, Ownership, [Next]_vars, NEW s \in Scans, row[s].status \in TerminalStatuses
  PROVE  row'[s] = row[s]
  <1>1. CASE row' = row
    BY <1>1
  <1>2. ASSUME NEW t \in Scans, RowMove(t) PROVE row'[s] = row[s]
    BY <1>2 DEF RowMove, TerminalStatuses, ActiveStatuses
  <1>3. QED
    BY <1>1, <1>2, RowStep

\* No step rewrites the row of a terminal scan: not a duplicate delivery, a late
\* checkout or a second finalize (the WHERE clauses of scans/store).
THEOREM TerminalFrozenHolds == Spec => TerminalFrozen
  <1>1. TypeInv /\ Ownership /\ [Next]_vars
          => [\A s \in Scans : row[s].status \in TerminalStatuses => row'[s] = row[s]]_vars
    BY FrozenStep
  <1>2. QED
    BY <1>1, OwnershipHolds, PTL DEF Spec, TerminalFrozen

\* The API and the workers together implement the state machine of package
\* scans: each change of scans.status is one that allowedTransitions permits.
THEOREM Refinement == Spec => ImplementsContract
  <1>1. Init => Contract!Init
    BY DEF Init, Contract!Init
  <1>2. TypeInv /\ Ownership /\ [Next]_vars => [Contract!Next]_([s \in Scans |-> row[s].status])
    <2> SUFFICES ASSUME TypeInv, Ownership, [Next]_vars
                 PROVE  [Contract!Next]_([s \in Scans |-> row[s].status])
      OBVIOUS
    <2>1. CASE row' = row
      BY <2>1
    <2>2. ASSUME NEW s \in Scans, RowMove(s)
          PROVE  [Contract!Next]_([t \in Scans |-> row[t].status])
      <3>1. CASE row'[s].status = row[s].status
        BY <2>2, <3>1 DEF RowMove
      <3>2. CASE row'[s].status # row[s].status
        <4>1. row'[s].status \in Contract!AllowedTransitions[row[s].status]
          BY <2>2, <3>2 DEF RowMove, Contract!AllowedTransitions, Contract!Terminal, TerminalStatuses
        <4>2. [t \in Scans |-> row[t].status]'
                = [[t \in Scans |-> row[t].status] EXCEPT ![s] = row'[s].status]
          BY <2>2 DEF RowMove
        <4>3. Contract!Transition(s)
          BY <4>1, <4>2 DEF Contract!Transition
        <4>4. QED
          BY <4>3 DEF Contract!Next
      <3>3. QED
        BY <3>1, <3>2
    <2>3. QED
      BY <2>1, <2>2, RowStep
  <1>3. QED
    BY <1>1, <1>2, OwnershipHolds, PTL DEF Spec, ImplementsContract, Contract!Spec
=============================================================================
