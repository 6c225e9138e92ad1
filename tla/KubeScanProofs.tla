--------------------------- MODULE KubeScanProofs ---------------------------
(***************************************************************************)
(* Theorems about KubeScan, for every selection of scanners, every set of  *)
(* target kinds and any number of faults.                                  *)
(***************************************************************************)
EXTENDS KubeScan, TLAPS

-----------------------------------------------------------------------------
(* The inductive invariant. *)

Working == {"volume", "policy", "job", "wait"}

\* Nothing of the scan phase has happened, the fetch phase has succeeded.
Untouched ==
    /\ job["scan"] = "none"
    /\ pod["scan"].pc = "none"
    /\ \A n \in Scanners : post[n] = "none" /\ n \notin heard
FetchDone == pod["fetch"].pc = "exit0"

\* Before it starts Execute owns nothing; while it works it has no outcome.
Idle ==
    exec.pc = "idle" =>
        /\ ~pvc
        /\ \A p \in Phases : policy[p] = "none" /\ job[p] = "none" /\ pod[p].pc = "none"
        /\ \A r \in Reports : post[r] = "none"
        /\ heard = {}
ExecInv ==
    /\ Idle
    /\ exec.pc \in {"idle"} \union Working => exec.outcome = "none"
    /\ exec.pc # "returned" => late = {}
    /\ exec.outcome = "fetch_failed" => exec.phase = "fetch"

\* The phases in their order: the scan phase of a repository begins only after
\* the fetch pod succeeded, and other targets have no fetch phase.
PhaseInv ==
    /\ exec.phase = "fetch" => Untouched
    /\ kind = "repository" => Untouched \/ FetchDone
    /\ kind = "repository" /\ exec.pc \in Working /\ exec.phase = "scan" => FetchDone
    /\ kind # "repository" =>
         /\ exec.phase = "scan"
         /\ job["fetch"] = "none"
         /\ pod["fetch"].pc = "none"
         /\ post["checkout"] = "none"

\* A pod that has not met an error has delivered what it has reported, and only
\* the report it waits for is on its way.
InFlight(r) == post[r] \in {"sent", "authorized", "read"}
Good(p) == ~pod[p].err /\ pod[p].pc # "exit1"
PodInv ==
    /\ \A p \in Phases : job[p] = "complete" => pod[p].pc = "exit0"
    /\ \A p \in Phases : pod[p].pc \in {"none", "exit0"} => ~pod[p].err
    /\ \A r \in Reports : post[r] = "answered" => r \in heard
FetchInv ==
    /\ pod["fetch"].pc \in {"run", "exit0"} /\ ~pod["fetch"].err => "checkout" \in heard
    /\ Good("fetch") /\ InFlight("checkout") => pod["fetch"].pc = "posting"
ScanInv ==
    /\ pod["scan"].pc = "posting" => pod["scan"].next <= Len(Selected)
    /\ pod["scan"].pc = "exit0" => pod["scan"].next > Len(Selected)
    /\ ~pod["scan"].err /\ pod["scan"].next > 1 => Selected[1] \in heard
    /\ ~pod["scan"].err /\ ~pod["scan"].told =>
         \A i \in 1..(pod["scan"].next - 1) : Selected[i] \in heard
    /\ Good("scan") =>
         \A i \in 1..Len(Selected) :
             InFlight(Selected[i]) => pod["scan"].pc = "posting" /\ i = pod["scan"].next

\* What cleanup has deleted stays deleted, if no delete failed, and a pod that
\* nobody told to stop has its policy.
After(pcs) == exec.pc \in pcs /\ faults.delete = 0
CleanInv ==
    /\ After({"del_policies", "del_volume", "close", "returned"}) =>
         \A p \in Phases : job[p] = "none" /\ (pod[p].pc \in Alive => pod[p].told)
    /\ After({"del_volume", "close", "returned"}) => \A p \in Phases : policy[p] = "none"
    /\ After({"close", "returned"}) => ~pvc
PolicyInv ==
    /\ policy["scan"] = "egress" => kind # "repository"
    /\ exec.pc \in {"job", "wait"} => policy[exec.phase] # "none"
    /\ \A p \in Phases : job[p] # "none" \/ (pod[p].pc \in Alive /\ ~pod[p].told) =>
         policy[p] # "none" \/ faults.delete > 0

\* What a successful Execute leaves for the runner to judge.
JudgeInv ==
    /\ \A p \in Phases : pod[p].told /\ faults.pod = 0 =>
         exec.pc \in {"del_policies", "del_volume", "close", "returned"}
    /\ raced => ~Good("fetch") \/ ~Good("scan")
    /\ exec.outcome = "ok" =>
         /\ pod["scan"].pc = "exit0"
         /\ kind = "repository" => FetchDone
         /\ late = {}
         /\ faults.pod = 0 => ~pod["scan"].told

KubeInv ==
    /\ ExecInv /\ PhaseInv /\ PodInv /\ FetchInv /\ ScanInv /\ CleanInv /\ PolicyInv /\ JudgeInv

-----------------------------------------------------------------------------
(* Type correctness, and what the helpers do. *)

Pods == [pc : PodPCs, next : 1..(Len(Selected) + 1), told : BOOLEAN, err : BOOLEAN]
Counts == [create : 0..MaxFaults, delete : 0..MaxFaults, pod : 0..MaxFaults, net : 0..MaxFaults]

\* The counts of faults only grow.
Grown ==
    /\ faults' \in Counts
    /\ faults'.delete = 0 => faults.delete = 0
    /\ faults.delete > 0 => faults'.delete > 0
    /\ faults'.pod = 0 => faults.pod = 0

LEMMA FaultEffect ==
  ASSUME TypeOK, NEW what \in {"create", "delete", "pod", "net"}, Fault(what)
  PROVE  /\ Grown
         /\ what = "delete" => faults'.delete > 0
         /\ what = "pod" => faults'.pod > 0
  <1>1. faults \in Counts /\ MaxFaults \in Nat
    BY ConstantsAssumption DEF TypeOK, Counts
  <1>2. /\ faults' = [faults EXCEPT ![what] = @ + 1]
        /\ faults.create + faults.delete + faults.pod + faults.net < MaxFaults
    BY DEF Fault, MayFail
  <1>3. CASE what = "create"
    BY <1>1, <1>2, <1>3 DEF Counts, Grown
  <1>4. CASE what = "delete"
    BY <1>1, <1>2, <1>4 DEF Counts, Grown
  <1>5. CASE what = "pod"
    BY <1>1, <1>2, <1>5 DEF Counts, Grown
  <1>6. CASE what = "net"
    BY <1>1, <1>2, <1>6 DEF Counts, Grown
  <1>7. QED
    BY <1>3, <1>4, <1>5, <1>6

LEMMA NoFault == ASSUME TypeOK, UNCHANGED faults PROVE Grown
  BY DEF TypeOK, Grown, Counts

\* PodAt moves one pod and changes nothing else of any.
LEMMA PodAtEffect ==
  ASSUME pod \in [Phases -> Pods], NEW p \in Phases, NEW pc \in PodPCs, PodAt(p, pc)
  PROVE  /\ pod' \in [Phases -> Pods]
         /\ \A q \in Phases : /\ pod'[q].pc = IF q = p THEN pc ELSE pod[q].pc
                              /\ pod'[q].next = pod[q].next
                              /\ pod'[q].told = pod[q].told
                              /\ pod'[q].err = pod[q].err
  <1> DEFINE w == [pod[p] EXCEPT !.pc = pc]
  <1>1. pod' = [pod EXCEPT ![p] = w]
    BY Zenon DEF PodAt
  <1>2. w \in Pods /\ w.pc = pc /\ w.next = pod[p].next /\ w.told = pod[p].told /\ w.err = pod[p].err
    BY DEF Pods
  <1> HIDE DEF w
  <1>3. QED
    BY <1>1, <1>2

LEMMA AfterPostEffect ==
  ASSUME pod \in [Phases -> Pods], NEW p \in Phases, NEW failed \in BOOLEAN, AfterPost(p, failed),
         p = "scan" => pod["scan"].next <= Len(Selected)
  PROVE  /\ pod' \in [Phases -> Pods]
         /\ \A q \in Phases : q # p => pod'[q] = pod[q]
         /\ pod'[p].pc = "run"
         /\ pod'[p].told = pod[p].told
         /\ pod'[p].err = (pod[p].err \/ failed)
         /\ p = "scan" => pod'[p].next = IF pod[p].told THEN Len(Selected) + 1 ELSE pod[p].next + 1
  <1> DEFINE err == pod[p].err \/ failed
             next == IF p = "fetch" THEN pod[p].next
                     ELSE IF pod[p].told THEN Len(Selected) + 1 ELSE pod[p].next + 1
             w == [pod[p] EXCEPT !.err = err, !.next = next, !.pc = "run"]
  <1>1. pod' = [pod EXCEPT ![p].err = err, ![p].next = next, ![p].pc = "run"]
    BY DEF AfterPost
  <1>2. next \in 1..(Len(Selected) + 1) /\ err \in BOOLEAN
    BY ConstantsAssumption DEF Phases, Pods
  <1>3. next = IF p = "fetch" THEN pod[p].next
               ELSE IF pod[p].told THEN Len(Selected) + 1 ELSE pod[p].next + 1
    OBVIOUS
  <1>4. err = (pod[p].err \/ failed)
    OBVIOUS
  <1> HIDE DEF err, next
  <1>5. pod' = [pod EXCEPT ![p] = w]
    BY <1>1
  <1>6. w \in Pods /\ w.pc = "run" /\ w.next = next /\ w.told = pod[p].told /\ w.err = err
    BY <1>2 DEF Pods, PodPCs, Alive
  <1> HIDE DEF w
  <1>7. /\ pod' \in [Phases -> Pods] /\ pod'[p] = w
        /\ \A q \in Phases : q # p => pod'[q] = pod[q]
    BY <1>5, <1>6
  <1>8. QED
    BY <1>3, <1>4, <1>6, <1>7

LEMMA DeleteJobsEffect ==
  ASSUME pod \in [Phases -> Pods], DeleteJobs
  PROVE  /\ pod' \in [Phases -> Pods]
         /\ job' = [p \in Phases |-> "none"]
         /\ \A q \in Phases : /\ pod'[q].pc = pod[q].pc
                              /\ pod'[q].next = pod[q].next
                              /\ pod'[q].told = (pod[q].told \/ pod[q].pc \in Alive)
                              /\ pod'[q].err = pod[q].err
  <1>1. \A q \in Phases : pod'[q] = [pod[q] EXCEPT !.told = @ \/ pod[q].pc \in Alive]
    BY DEF DeleteJobs
  <1>2. \A q \in Phases : pod[q] \in Pods
    OBVIOUS
  <1>3. \A q \in Phases : pod'[q] \in Pods
    BY <1>1, <1>2 DEF Pods
  <1>4. pod' \in [Phases -> Pods]
    BY <1>3 DEF DeleteJobs
  <1>5. QED
    BY <1>1, <1>2, <1>4 DEF DeleteJobs, Pods

LEMMA ScannerFacts ==
  /\ Len(Selected) \in Nat /\ Len(Selected) > 0
  /\ \A i \in 1..Len(Selected) : Selected[i] \in Scanners /\ Selected[i] \in Reports
  /\ \A n \in Scanners : \E i \in 1..Len(Selected) : n = Selected[i]
  /\ \A n \in Scanners : n \in Reports /\ n # "checkout"
  /\ "checkout" \in Reports
  BY ConstantsAssumption DEF Scanners, Reports

\* The report a pod waits for is its own.
LEMMA PostedFacts ==
  ASSUME TypeOK, NEW p \in Phases, pod[p].pc = "posting", ScanInv
  PROVE  /\ Posted(p) \in Reports
         /\ p = "fetch" => Posted(p) = "checkout"
         /\ p = "scan" => pod[p].next \in 1..Len(Selected) /\ Posted(p) = Selected[pod[p].next]
  <1>1. pod[p].next \in 1..(Len(Selected) + 1)
    BY DEF TypeOK
  <1>2. p = "scan" => pod[p].next \in 1..Len(Selected)
    BY <1>1, ConstantsAssumption DEF ScanInv
  <1>3. QED
    BY <1>2, ScannerFacts DEF Posted, Phases

-----------------------------------------------------------------------------
(* The steps of Execute that leave the cluster and the pods alone. *)

\* Everything but Execute's own place and outcome, and the session.
Around == UNCHANGED <<kind, pvc, policy, job, pod, post, heard, late, raced>>

LEMMA AroundPods == ASSUME Around PROVE /\ PodInv => PodInv'
                                        /\ FetchInv => FetchInv'
                                        /\ ScanInv => ScanInv'
  BY DEF Around, PodInv, FetchInv, ScanInv, Good, InFlight

LEMMA ExecMoves ==
  ASSUME TypeOK, KubeInv,
         \/ OpenSession \/ OpenFails \/ PhaseDone \/ JobLost \/ StopWaiting \/ CloseSession
         \/ Deadline
  PROVE  TypeOK' /\ KubeInv'
  <1>0. /\ ExecInv /\ PhaseInv /\ PodInv /\ FetchInv /\ ScanInv /\ CleanInv /\ PolicyInv /\ JudgeInv
        /\ Around /\ Idle
    BY DEF KubeInv, OpenSession, OpenFails, PhaseDone, JobLost, StopWaiting, CloseSession, Deadline,
       cluster, intake, Around, ExecInv
  <1>p. PodInv' /\ FetchInv' /\ ScanInv'
    BY <1>0, AroundPods
  <1>q. \A p \in {"fetch", "scan"} : p \in Phases
    BY DEF Phases
  <1>1. CASE OpenSession
    <2>1. /\ exec.pc = "idle" /\ exec'.pc = "volume"
          /\ exec'.phase = FirstPhase /\ exec'.outcome = exec.outcome
      BY <1>1 DEF TypeOK, OpenSession, FirstPhase
    <2>2. Grown
      BY <1>1, NoFault DEF OpenSession
    <2>3. TypeOK'
      <3>1. exec' \in [pc : ExecPCs, phase : Phases, outcome : Outcomes]
        BY <1>1 DEF TypeOK, OpenSession, FirstPhase, Outcomes, ExecPCs, Phases
      <3>2. session' \in BOOLEAN /\ deadline' \in BOOLEAN
        BY <1>1 DEF TypeOK, OpenSession
      <3>3. QED
        BY <1>0, <2>2, <3>1, <3>2 DEF TypeOK, Grown, Counts, Around
    <2>4. ExecInv'
      BY <1>0, <2>1 DEF Around, ExecInv, Idle, Working
    <2>5. PhaseInv'
      BY <1>0, <1>q, <2>1 DEF Around, ExecInv, Idle, PhaseInv, PodInv, Untouched, FetchDone, Working,
         FirstPhase, Reports
    <2>6. CleanInv'
      BY <1>0, <2>1, <2>2 DEF Around, ExecInv, Idle, CleanInv, After, Grown, Alive
    <2>7. PolicyInv'
      BY <1>0, <2>1, <2>2 DEF Around, PolicyInv, Grown
    <2>8. JudgeInv'
      BY <1>0, <1>q, <2>1, <2>2 DEF Around, ExecInv, PhaseInv, PodInv, JudgeInv, Good, FetchDone, Working, Idle,
         Grown
    <2>9. QED
      BY <1>p, <2>3, <2>4, <2>5, <2>6, <2>7, <2>8 DEF KubeInv
  <1>2. CASE OpenFails
    <2>1. /\ exec.pc = "idle" /\ exec'.pc = "returned"
          /\ exec'.phase = exec.phase /\ exec'.outcome = "workspace_unavailable"
      BY <1>2 DEF TypeOK, OpenFails
    <2>2. Grown
      BY <1>2, FaultEffect DEF OpenFails
    <2>3. TypeOK'
      <3>1. exec' \in [pc : ExecPCs, phase : Phases, outcome : Outcomes]
        BY <1>2 DEF TypeOK, OpenFails, Outcomes, ExecPCs, Phases
      <3>2. session' \in BOOLEAN /\ deadline' \in BOOLEAN
        BY <1>2 DEF TypeOK, OpenFails, intake
      <3>3. QED
        BY <1>0, <2>2, <3>1, <3>2 DEF TypeOK, Grown, Counts, Around
    <2>4. ExecInv'
      BY <1>0, <2>1 DEF Around, ExecInv, Idle, Working
    <2>5. PhaseInv'
      BY <1>0, <1>q, <2>1 DEF Around, ExecInv, Idle, PhaseInv, PodInv, Untouched, FetchDone, Working,
         FirstPhase, Reports
    <2>6. CleanInv'
      BY <1>0, <2>1, <2>2 DEF Around, ExecInv, Idle, CleanInv, After, Grown, Alive
    <2>7. PolicyInv'
      BY <1>0, <2>1, <2>2 DEF Around, PolicyInv, Grown
    <2>8. JudgeInv'
      BY <1>0, <1>q, <2>1, <2>2 DEF Around, ExecInv, PhaseInv, PodInv, JudgeInv, Good, FetchDone, Working, Idle,
         Grown
    <2>9. QED
      BY <1>p, <2>3, <2>4, <2>5, <2>6, <2>7, <2>8 DEF KubeInv
  <1>3. CASE PhaseDone
    <2>1. /\ exec.pc = "wait" /\ job[exec.phase] = "complete" /\ exec.phase \in Phases
          /\ exec.phase = "fetch" => exec'.pc = "policy" /\ exec'.phase = "scan" /\ exec'.outcome = exec.outcome
          /\ exec.phase # "fetch" => exec'.pc = "del_jobs" /\ exec'.phase = "scan" /\ exec'.outcome = "ok"
          /\ exec.phase # "fetch" => exec.phase = "scan"
      BY <1>3 DEF TypeOK, PhaseDone, Leave, Phases
    <2>2. Grown
      BY <1>3, NoFault DEF PhaseDone
    <2>3. TypeOK'
      <3>1. exec' \in [pc : ExecPCs, phase : Phases, outcome : Outcomes]
        BY <1>3 DEF TypeOK, PhaseDone, Leave, Outcomes, ExecPCs, Phases
      <3>2. session' \in BOOLEAN /\ deadline' \in BOOLEAN
        BY <1>3 DEF TypeOK, PhaseDone, intake
      <3>3. QED
        BY <1>0, <2>2, <3>1, <3>2 DEF TypeOK, Grown, Counts, Around
    <2>4. ExecInv'
      BY <1>0, <2>1 DEF Around, ExecInv, Idle, Working
    <2>5. PhaseInv'
      BY <1>0, <1>q, <2>1 DEF Around, ExecInv, Idle, PhaseInv, PodInv, Untouched, FetchDone, Working,
         FirstPhase, Reports
    <2>6. CleanInv'
      BY <1>0, <2>1, <2>2 DEF Around, ExecInv, Idle, CleanInv, After, Grown, Alive
    <2>7. PolicyInv'
      BY <1>0, <2>1, <2>2 DEF Around, PolicyInv, Grown
    <2>8. JudgeInv'
      <3>1. CASE exec.phase = "fetch"
        BY <1>0, <2>1, <2>2, <3>1 DEF Around, ExecInv, JudgeInv, Good, FetchDone, Working, Grown
      <3>2. CASE exec.phase # "fetch"
        <4>1. pod["scan"].pc = "exit0" /\ (kind = "repository" => FetchDone) /\ late = {}
          BY <1>0, <1>q, <2>1, <3>2 DEF ExecInv, PhaseInv, PodInv, Working
        <4>2. faults.pod = 0 => ~pod["fetch"].told /\ ~pod["scan"].told
          BY <1>0, <1>q, <2>1 DEF JudgeInv
        <4>3. \A p \in Phases : p = "fetch" \/ p = "scan"
          BY DEF Phases
        <4>4. QED
          BY <1>0, <2>1, <2>2, <3>2, <4>1, <4>2, <4>3 DEF Around, JudgeInv, Good, FetchDone, Grown
      <3>3. QED
        BY <3>1, <3>2
    <2>9. QED
      BY <1>p, <2>3, <2>4, <2>5, <2>6, <2>7, <2>8 DEF KubeInv
  <1>4. CASE JobLost
    <2>1. /\ exec.pc = "wait" /\ exec'.pc = "del_jobs" /\ exec'.phase = exec.phase
          /\ exec'.outcome \in {"fetch_failed", "all_degraded"}
          /\ exec'.outcome = "fetch_failed" => exec.phase = "fetch"
      BY <1>4 DEF TypeOK, JobLost, Leave
    <2>2. Grown
      BY <1>4, NoFault DEF JobLost
    <2>3. TypeOK'
      <3>1. exec' \in [pc : ExecPCs, phase : Phases, outcome : Outcomes]
        BY <1>4 DEF TypeOK, JobLost, Leave, Outcomes, ExecPCs, Phases
      <3>2. session' \in BOOLEAN /\ deadline' \in BOOLEAN
        BY <1>4 DEF TypeOK, JobLost, intake
      <3>3. QED
        BY <1>0, <2>2, <3>1, <3>2 DEF TypeOK, Grown, Counts, Around
    <2>4. ExecInv'
      BY <1>0, <2>1 DEF Around, ExecInv, Idle, Working
    <2>5. PhaseInv'
      BY <1>0, <1>q, <2>1 DEF Around, ExecInv, Idle, PhaseInv, PodInv, Untouched, FetchDone, Working,
         FirstPhase, Reports
    <2>6. CleanInv'
      BY <1>0, <2>1, <2>2 DEF Around, ExecInv, Idle, CleanInv, After, Grown, Alive
    <2>7. PolicyInv'
      BY <1>0, <2>1, <2>2 DEF Around, PolicyInv, Grown
    <2>8. JudgeInv'
      BY <1>0, <1>q, <2>1, <2>2 DEF Around, ExecInv, PhaseInv, PodInv, JudgeInv, Good, FetchDone, Working, Idle,
         Grown
    <2>9. QED
      BY <1>p, <2>3, <2>4, <2>5, <2>6, <2>7, <2>8 DEF KubeInv
  <1>5. CASE StopWaiting
    <2>1. /\ exec.pc = "wait" /\ exec'.pc = "del_jobs"
          /\ exec'.phase = exec.phase /\ exec'.outcome = "all_degraded"
      BY <1>5 DEF TypeOK, StopWaiting, Leave
    <2>2. Grown
      BY <1>5, FaultEffect, NoFault DEF StopWaiting
    <2>3. TypeOK'
      <3>1. exec' \in [pc : ExecPCs, phase : Phases, outcome : Outcomes]
        BY <1>5 DEF TypeOK, StopWaiting, Leave, Outcomes, ExecPCs, Phases
      <3>2. session' \in BOOLEAN /\ deadline' \in BOOLEAN
        BY <1>5 DEF TypeOK, StopWaiting, intake
      <3>3. QED
        BY <1>0, <2>2, <3>1, <3>2 DEF TypeOK, Grown, Counts, Around
    <2>4. ExecInv'
      BY <1>0, <2>1 DEF Around, ExecInv, Idle, Working
    <2>5. PhaseInv'
      BY <1>0, <1>q, <2>1 DEF Around, ExecInv, Idle, PhaseInv, PodInv, Untouched, FetchDone, Working,
         FirstPhase, Reports
    <2>6. CleanInv'
      BY <1>0, <2>1, <2>2 DEF Around, ExecInv, Idle, CleanInv, After, Grown, Alive
    <2>7. PolicyInv'
      BY <1>0, <2>1, <2>2 DEF Around, PolicyInv, Grown
    <2>8. JudgeInv'
      BY <1>0, <1>q, <2>1, <2>2 DEF Around, ExecInv, PhaseInv, PodInv, JudgeInv, Good, FetchDone, Working, Idle,
         Grown
    <2>9. QED
      BY <1>p, <2>3, <2>4, <2>5, <2>6, <2>7, <2>8 DEF KubeInv
  <1>6. CASE CloseSession
    <2>1. /\ exec.pc = "close" /\ exec'.pc = "returned"
          /\ exec'.phase = exec.phase /\ exec'.outcome = exec.outcome
      BY <1>6 DEF TypeOK, CloseSession
    <2>2. Grown
      BY <1>6, NoFault DEF CloseSession
    <2>3. TypeOK'
      <3>1. exec' \in [pc : ExecPCs, phase : Phases, outcome : Outcomes]
        BY <1>6 DEF TypeOK, CloseSession, Outcomes, ExecPCs, Phases
      <3>2. session' \in BOOLEAN /\ deadline' \in BOOLEAN
        BY <1>6 DEF TypeOK, CloseSession
      <3>3. QED
        BY <1>0, <2>2, <3>1, <3>2 DEF TypeOK, Grown, Counts, Around
    <2>4. ExecInv'
      BY <1>0, <2>1 DEF Around, ExecInv, Idle, Working
    <2>5. PhaseInv'
      BY <1>0, <1>q, <2>1 DEF Around, ExecInv, Idle, PhaseInv, PodInv, Untouched, FetchDone, Working,
         FirstPhase, Reports
    <2>6. CleanInv'
      BY <1>0, <2>1, <2>2 DEF Around, ExecInv, Idle, CleanInv, After, Grown, Alive
    <2>7. PolicyInv'
      BY <1>0, <2>1, <2>2 DEF Around, PolicyInv, Grown
    <2>8. JudgeInv'
      BY <1>0, <1>q, <2>1, <2>2 DEF Around, ExecInv, PhaseInv, PodInv, JudgeInv, Good, FetchDone, Working, Idle,
         Grown
    <2>9. QED
      BY <1>p, <2>3, <2>4, <2>5, <2>6, <2>7, <2>8 DEF KubeInv
  <1>7. CASE Deadline
    <2>1. /\ exec' = exec
      BY <1>7 DEF TypeOK, Deadline
    <2>2. Grown
      BY <1>7, NoFault DEF Deadline
    <2>3. TypeOK'
      <3>1. exec' \in [pc : ExecPCs, phase : Phases, outcome : Outcomes]
        BY <1>7 DEF TypeOK, Deadline, Outcomes, ExecPCs, Phases
      <3>2. session' \in BOOLEAN /\ deadline' \in BOOLEAN
        BY <1>7 DEF TypeOK, Deadline, intake
      <3>3. QED
        BY <1>0, <2>2, <3>1, <3>2 DEF TypeOK, Grown, Counts, Around
    <2>4. ExecInv'
      BY <1>0, <2>1 DEF Around, ExecInv, Idle, Working
    <2>5. PhaseInv'
      BY <1>0, <1>q, <2>1 DEF Around, ExecInv, Idle, PhaseInv, PodInv, Untouched, FetchDone, Working,
         FirstPhase, Reports
    <2>6. CleanInv'
      BY <1>0, <2>1, <2>2 DEF Around, ExecInv, Idle, CleanInv, After, Grown, Alive
    <2>7. PolicyInv'
      BY <1>0, <2>1, <2>2 DEF Around, PolicyInv, Grown
    <2>8. JudgeInv'
      BY <1>0, <1>q, <2>1, <2>2 DEF Around, ExecInv, PhaseInv, PodInv, JudgeInv, Good, FetchDone, Working, Idle,
         Grown
    <2>9. QED
      BY <1>p, <2>3, <2>4, <2>5, <2>6, <2>7, <2>8 DEF KubeInv
  <1>8. QED
    BY <1>1, <1>2, <1>3, <1>4, <1>5, <1>6, <1>7

-----------------------------------------------------------------------------
(* Creating and deleting. *)

\* What a create leaves, whether it took effect or not.
Made ==
    /\ pvc' \in BOOLEAN
    /\ policy' \in [Phases -> {"none", "closed", "egress"}]
    /\ job' \in [Phases -> {"none", "active", "complete", "failed"}]
    /\ \A p \in Phases : policy[p] # "none" => policy'[p] # "none"
    /\ policy'["scan"] = "egress" => policy["scan"] = "egress" \/ kind # "repository"
    /\ \A p \in Phases :
         \/ job'[p] = job[p]
         \/ exec.pc = "job" /\ p = exec.phase /\ job'[p] = "active"

LEMMA MakeEffect ==
  ASSUME TypeOK, exec.pc \in {"volume", "policy", "job"}, Make \/ UNCHANGED cluster
  PROVE  Made /\ (exec.pc = "policy" /\ Make => policy'[exec.phase] # "none")
  <1>0. exec.phase \in Phases /\ "scan" \in Phases
    BY DEF TypeOK, Phases
  <1>1. Rendered(exec.phase) \in {"closed", "egress"}
    BY DEF Rendered
  <1>2. exec.phase = "scan" /\ Rendered(exec.phase) = "egress" => kind # "repository"
    BY DEF Rendered, Egress
  <1>3. CASE UNCHANGED cluster
    <2>1. Made
      BY <1>3 DEF Made, TypeOK, cluster
    <2>2. exec.pc = "policy" /\ Make => policy'[exec.phase] = Rendered(exec.phase)
      BY <1>0 DEF Make, TypeOK
    <2>3. QED
      BY <1>1, <2>1, <2>2
  <1>4. CASE Make
    <2>1. CASE exec.pc = "volume"
      BY <1>4, <2>1 DEF Make, Made, TypeOK
    <2>2. CASE exec.pc = "policy"
      <3>1. policy' = [policy EXCEPT ![exec.phase] = Rendered(exec.phase)] /\ pvc' = pvc /\ job' = job
        BY <1>4, <2>2 DEF Make
      <3> HIDE DEF Rendered
      <3>2. QED
        BY <1>0, <1>1, <1>2, <3>1 DEF Made, TypeOK
    <2>3. CASE exec.pc = "job"
      <3>1. job' = [job EXCEPT ![exec.phase] = "active"] /\ pvc' = pvc /\ policy' = policy
        BY <1>4, <2>3 DEF Make
      <3>2. QED
        BY <1>0, <2>3, <3>1 DEF Made, TypeOK
    <2>4. QED
      BY <2>1, <2>2, <2>3
  <1>5. QED
    BY <1>3, <1>4

LEMMA Creates ==
  ASSUME TypeOK, KubeInv, Create \/ CreateFails
  PROVE  TypeOK' /\ KubeInv'
  <1>0. /\ ExecInv /\ PhaseInv /\ PodInv /\ FetchInv /\ ScanInv /\ CleanInv /\ PolicyInv /\ JudgeInv
        /\ UNCHANGED <<kind, pod, post, heard, late, raced, session, deadline>>
    BY DEF KubeInv, Create, CreateFails, intake
  <1>q. "fetch" \in Phases /\ "scan" \in Phases /\ \A p \in Phases : p = "fetch" \/ p = "scan"
    BY DEF Phases
  <1>1. exec.pc \in {"volume", "policy", "job"} /\ exec.outcome = "none" /\ exec.phase \in Phases
    BY <1>0 DEF Create, CreateFails, ExecInv, Working, TypeOK
  <1>2. Made /\ (exec.pc = "policy" /\ Make => policy'[exec.phase] # "none")
    BY <1>1, MakeEffect DEF Create, CreateFails
  <1>3. /\ exec'.phase = exec.phase
        /\ \/ /\ Create /\ exec'.outcome = exec.outcome
              /\ exec.pc = "volume" => exec'.pc = "policy"
              /\ exec.pc = "policy" => exec'.pc = "job"
              /\ exec.pc = "job" => exec'.pc = "wait"
           \/ exec'.pc = "del_jobs" /\ exec'.outcome = "workspace_unavailable"
    BY <1>1 DEF Create, CreateFails, Leave, TypeOK
  <1>4. exec'.pc \in {"policy", "job", "wait", "del_jobs"}
    BY <1>1, <1>3
  <1>5. Grown
    BY NoFault, FaultEffect DEF Create, CreateFails
  <1>6. TypeOK'
    <2>1. exec' \in [pc : ExecPCs, phase : Phases, outcome : Outcomes]
      BY DEF TypeOK, Create, CreateFails, Leave, ExecPCs, Outcomes
    <2>2. QED
      BY <1>0, <1>2, <1>5, <2>1 DEF TypeOK, Made, Grown, Counts
  <1>7. ExecInv'
    BY <1>0, <1>1, <1>3, <1>4 DEF ExecInv, Idle, Working
  <1>8. PhaseInv'
    <2>1. exec'.phase = "fetch" => Untouched'
      BY <1>0, <1>2, <1>3, <1>q DEF PhaseInv, Untouched, Made
    <2>2. kind' = "repository" => Untouched' \/ FetchDone'
      BY <1>0, <1>1, <1>2, <1>q DEF PhaseInv, Untouched, FetchDone, Made, Working
    <2>3. kind' = "repository" /\ exec'.pc \in Working /\ exec'.phase = "scan" => FetchDone'
      BY <1>0, <1>1, <1>3 DEF PhaseInv, FetchDone, Working
    <2>4. kind' # "repository" => /\ exec'.phase = "scan"
                                  /\ job'["fetch"] = "none"
                                  /\ pod'["fetch"].pc = "none"
                                  /\ post'["checkout"] = "none"
      BY <1>0, <1>2, <1>3, <1>q DEF PhaseInv, Made
    <2>5. QED
      BY <2>1, <2>2, <2>3, <2>4 DEF PhaseInv
  <1>9. PodInv' /\ FetchInv' /\ ScanInv'
    <2>1. PodInv'
      BY <1>0, <1>2 DEF PodInv, Made
    <2>2. FetchInv' /\ ScanInv'
      BY <1>0 DEF FetchInv, ScanInv, Good, InFlight
    <2>3. QED
      BY <2>1, <2>2
  <1>10. CleanInv'
    BY <1>4 DEF CleanInv, After
  <1>11. PolicyInv'
    <2>1. policy'["scan"] = "egress" => kind' # "repository"
      BY <1>0, <1>2 DEF PolicyInv, Made
    <2>2. exec'.pc \in {"job", "wait"} => policy'[exec'.phase] # "none"
      <3>1. CASE exec.pc = "job"
        BY <1>0, <1>1, <1>2, <1>3, <3>1 DEF PolicyInv, Made
      <3>2. CASE exec.pc = "policy"
        BY <1>1, <1>2, <1>3, <3>2 DEF Create
      <3>3. CASE exec.pc = "volume"
        BY <1>3, <3>3
      <3>4. QED
        BY <1>1, <3>1, <3>2, <3>3
    <2>3. \A p \in Phases : job'[p] # "none" \/ (pod'[p].pc \in Alive /\ ~pod'[p].told) =>
            policy'[p] # "none" \/ faults'.delete > 0
      BY <1>0, <1>1, <1>2, <1>5 DEF PolicyInv, Made, Grown
    <2>4. QED
      BY <2>1, <2>2, <2>3 DEF PolicyInv
  <1>12. JudgeInv'
    BY <1>0, <1>1, <1>3, <1>4, <1>5 DEF JudgeInv, Good, FetchDone, Grown
  <1>13. QED
    BY <1>6, <1>7, <1>8, <1>9, <1>10, <1>11, <1>12 DEF KubeInv

\* A delete of cleanup took effect, or failed and is counted.
LEMMA CleanupEffect ==
  ASSUME TypeOK, Cleanup
  PROVE  /\ Grown
         /\ exec' \in [pc : ExecPCs, phase : Phases, outcome : Outcomes]
         /\ exec'.phase = exec.phase /\ exec'.outcome = exec.outcome
         /\ exec.pc = "del_jobs" => exec'.pc = "del_policies" /\ UNCHANGED <<pvc, policy>>
         /\ exec.pc = "del_policies" => exec'.pc = "del_volume" /\ UNCHANGED <<pvc, job, pod>>
         /\ exec.pc = "del_volume" => exec'.pc = "close" /\ UNCHANGED <<policy, job, pod>>
         /\ exec.pc \in {"del_jobs", "del_policies", "del_volume"}
         /\ \/ faults'.delete > 0 /\ UNCHANGED <<cluster, pod>>
            \/ /\ exec.pc = "del_jobs" => DeleteJobs
               /\ exec.pc = "del_policies" => policy' = [p \in Phases |-> "none"]
               /\ exec.pc = "del_volume" => ~pvc'
         /\ pvc' \in BOOLEAN
         /\ policy' = policy \/ policy' = [p \in Phases |-> "none"]
         /\ (job' = job /\ pod' = pod) \/ DeleteJobs
  <1>1. exec.pc \in {"del_jobs", "del_policies", "del_volume"}
    BY DEF Cleanup
  <1>2. Grown
    BY FaultEffect, NoFault DEF Cleanup
  <1>3. /\ exec' \in [pc : ExecPCs, phase : Phases, outcome : Outcomes]
        /\ exec'.phase = exec.phase /\ exec'.outcome = exec.outcome
        /\ exec.pc = "del_jobs" => exec'.pc = "del_policies"
        /\ exec.pc = "del_policies" => exec'.pc = "del_volume"
        /\ exec.pc = "del_volume" => exec'.pc = "close"
    BY DEF Cleanup, TypeOK, ExecPCs
  <1>4. CASE Fault("delete") /\ UNCHANGED <<cluster, pod>>
    <2>1. faults'.delete > 0
      BY <1>4, FaultEffect
    <2>2. QED
      BY <1>1, <1>2, <1>3, <1>4, <2>1 DEF cluster, TypeOK
  <1>5. CASE ~(Fault("delete") /\ UNCHANGED <<cluster, pod>>)
    <2>1. CASE exec.pc = "del_jobs"
      BY <1>2, <1>3, <1>5, <2>1 DEF Cleanup, TypeOK
    <2>2. CASE exec.pc = "del_policies"
      BY <1>2, <1>3, <1>5, <2>2 DEF Cleanup, TypeOK
    <2>3. CASE exec.pc = "del_volume"
      BY <1>2, <1>3, <1>5, <2>3 DEF Cleanup, TypeOK
    <2>4. QED
      BY <1>1, <2>1, <2>2, <2>3
  <1>6. QED
    BY <1>4, <1>5

LEMMA Cleans ==
  ASSUME TypeOK, KubeInv, Cleanup
  PROVE  TypeOK' /\ KubeInv'
  <1>0. /\ ExecInv /\ PhaseInv /\ PodInv /\ FetchInv /\ ScanInv /\ CleanInv /\ PolicyInv /\ JudgeInv
        /\ UNCHANGED <<kind, post, heard, late, raced, session, deadline>>
    BY DEF KubeInv, Cleanup, intake
  <1>q. "fetch" \in Phases /\ "scan" \in Phases /\ \A p \in Phases : p = "fetch" \/ p = "scan"
    BY DEF Phases
  <1>t. pod \in [Phases -> Pods]
    BY DEF TypeOK, Pods
  <1>1. /\ Grown
        /\ exec' \in [pc : ExecPCs, phase : Phases, outcome : Outcomes]
        /\ exec'.phase = exec.phase /\ exec'.outcome = exec.outcome
        /\ exec.pc \in {"del_jobs", "del_policies", "del_volume"}
        /\ exec'.pc \in {"del_policies", "del_volume", "close"}
        /\ pvc' \in BOOLEAN
        /\ policy' = policy \/ policy' = [p \in Phases |-> "none"]
        /\ (job' = job /\ pod' = pod) \/ DeleteJobs
    BY CleanupEffect
  <1>2. /\ pod' \in [Phases -> Pods]
        /\ \A p \in Phases : /\ pod'[p].pc = pod[p].pc
                             /\ pod'[p].next = pod[p].next
                             /\ pod'[p].err = pod[p].err
                             /\ pod[p].told => pod'[p].told
                             /\ pod'[p].told => pod[p].told \/ pod[p].pc \in Alive
        /\ \A p \in Phases : job'[p] \in {job[p], "none"}
        /\ job' \in [Phases -> {"none", "active", "complete", "failed"}]
    <2>1. CASE job' = job /\ pod' = pod
      BY <1>t, <2>1 DEF TypeOK
    <2>2. CASE DeleteJobs
      BY <1>t, <2>2, DeleteJobsEffect
    <2>3. QED
      BY <1>1, <2>1, <2>2
  <1>3. TypeOK'
    BY <1>0, <1>1, <1>2 DEF TypeOK, Grown, Counts, Pods
  <1>4. ExecInv'
    BY <1>0, <1>1 DEF ExecInv, Idle, Working
  <1>5. PhaseInv'
    BY <1>0, <1>1, <1>2, <1>q DEF PhaseInv, Untouched, FetchDone, Working
  <1>6. PodInv' /\ FetchInv'
    BY <1>0, <1>2, <1>q DEF PodInv, FetchInv, Good, InFlight
  <1>7. ScanInv'
    <2>1. /\ pod'["scan"].pc = pod["scan"].pc /\ pod'["scan"].next = pod["scan"].next
          /\ pod'["scan"].err = pod["scan"].err /\ (pod["scan"].told => pod'["scan"].told)
      BY <1>2, <1>q
    <2>2. QED
      BY <1>0, <2>1 DEF ScanInv, Good, InFlight
  <1>8. CleanInv'
    <2>0. ASSUME faults'.delete = 0
          PROVE  /\ exec.pc = "del_jobs" => DeleteJobs /\ exec'.pc = "del_policies"
                 /\ exec.pc = "del_policies" =>
                      /\ policy' = [p \in Phases |-> "none"] /\ exec'.pc = "del_volume"
                      /\ job' = job /\ pod' = pod
                 /\ exec.pc = "del_volume" =>
                      ~pvc' /\ exec'.pc = "close" /\ policy' = policy /\ job' = job /\ pod' = pod
                 /\ faults.delete = 0
      BY <1>1, <2>0, CleanupEffect DEF Grown
    <2>1. ASSUME faults'.delete = 0
          PROVE  \A p \in Phases : job'[p] = "none" /\ (pod'[p].pc \in Alive => pod'[p].told)
      <3>1. CASE exec.pc = "del_jobs"
        BY <1>t, <2>0, <2>1, <3>1, DeleteJobsEffect
      <3>2. CASE exec.pc \in {"del_policies", "del_volume"}
        BY <1>0, <2>0, <2>1, <3>2 DEF CleanInv, After
      <3>3. QED
        BY <1>1, <3>1, <3>2
    <2>2. ASSUME faults'.delete = 0, exec'.pc \in {"del_volume", "close", "returned"}
          PROVE  \A p \in Phases : policy'[p] = "none"
      BY <1>0, <1>1, <2>0, <2>2 DEF CleanInv, After
    <2>3. ASSUME faults'.delete = 0, exec'.pc \in {"close", "returned"} PROVE ~pvc'
      BY <1>1, <2>0, <2>3
    <2>4. QED
      BY <2>1, <2>2, <2>3 DEF CleanInv, After
  <1>9. PolicyInv'
    <2>1. policy'["scan"] = "egress" => kind' # "repository"
      BY <1>0, <1>1, <1>q DEF PolicyInv
    <2>2. exec'.pc \notin {"job", "wait"}
      BY <1>1
    <2>3. \A p \in Phases : job'[p] # "none" \/ (pod'[p].pc \in Alive /\ ~pod'[p].told) =>
            policy'[p] # "none" \/ faults'.delete > 0
      <3>1. CASE policy' = policy
        BY <1>0, <1>1, <1>2, <3>1 DEF PolicyInv, Grown
      <3>2. CASE policy' # policy
        <4>1. exec.pc = "del_policies" /\ job' = job /\ pod' = pod
          BY <1>1, <3>2, CleanupEffect
        <4>2. CASE faults'.delete = 0
          <5>1. faults.delete = 0
            BY <1>1, <4>2 DEF Grown
          <5>2. QED
            BY <1>0, <4>1, <5>1 DEF CleanInv, After
        <4>3. CASE faults'.delete # 0
          <5>1. faults'.delete > 0
            BY <1>1, <4>3, ConstantsAssumption DEF Grown, Counts
          <5>2. QED
            BY <5>1
        <4>4. QED
          BY <4>2, <4>3
      <3>3. QED
        BY <3>1, <3>2
    <2>4. QED
      BY <2>1, <2>2, <2>3 DEF PolicyInv
  <1>10. JudgeInv'
    <2>1. raced' => ~Good("fetch")' \/ ~Good("scan")'
      BY <1>0, <1>2, <1>q DEF JudgeInv, Good
    <2>2. exec'.outcome = "ok" => /\ pod'["scan"].pc = "exit0"
                                  /\ kind' = "repository" => FetchDone'
                                  /\ late' = {}
                                  /\ faults'.pod = 0 => ~pod'["scan"].told
      BY <1>0, <1>1, <1>2, <1>q DEF JudgeInv, FetchDone, Grown, Alive
    <2>3. QED
      BY <1>1, <2>1, <2>2 DEF JudgeInv
  <1>11. QED
    BY <1>3, <1>4, <1>5, <1>6, <1>7, <1>8, <1>9, <1>10 DEF KubeInv

-----------------------------------------------------------------------------
(* The intake's handlers. *)

\* A successful Execute leaves nothing on its way: both pods have succeeded, and
\* a pod that succeeded waits for no report.
LEMMA NothingInFlight ==
  ASSUME TypeOK, KubeInv, exec.outcome = "ok", NEW r \in Reports
  PROVE  ~InFlight(r)
  <1>0. PhaseInv /\ PodInv /\ FetchInv /\ ScanInv /\ JudgeInv
    BY DEF KubeInv
  <1>q. "fetch" \in Phases /\ "scan" \in Phases
    BY DEF Phases
  <1>1. pod["scan"].pc = "exit0" /\ (kind = "repository" => pod["fetch"].pc = "exit0")
    BY <1>0 DEF JudgeInv, FetchDone
  <1>2. Good("scan")
    BY <1>0, <1>q, <1>1 DEF PodInv, Good
  <1>3. CASE r \in Scanners
    BY <1>0, <1>1, <1>2, <1>3, ScannerFacts DEF ScanInv
  <1>4. CASE r = "checkout" /\ kind = "repository"
    <2>1. Good("fetch")
      BY <1>0, <1>q, <1>1, <1>4 DEF PodInv, Good
    <2>2. QED
      BY <1>0, <1>1, <1>4, <2>1 DEF FetchInv
  <1>5. CASE r = "checkout" /\ kind # "repository"
    BY <1>0, <1>5 DEF PhaseInv, InFlight
  <1>6. QED
    BY <1>3, <1>4, <1>5 DEF Reports

\* A report moves from being on its way to on its way, or is settled.
LEMMA Handles ==
  ASSUME TypeOK, KubeInv, NEW r \in Reports, Handle(r)
  PROVE  TypeOK' /\ KubeInv'
  <1>0. /\ ExecInv /\ PhaseInv /\ PodInv /\ FetchInv /\ ScanInv /\ CleanInv /\ PolicyInv /\ JudgeInv
        /\ UNCHANGED <<kind, exec, pvc, policy, job, pod, session, deadline, faults>>
    BY DEF KubeInv, Handle, Authorize, ReadBody, Callback, cluster
  <1>q. "fetch" \in Phases /\ "scan" \in Phases /\ \A p \in Phases : p = "fetch" \/ p = "scan"
    BY DEF Phases
  <1>1. /\ post' \in [Reports -> PostStates] /\ InFlight(r) /\ post[r] # "none"
        /\ \A q \in Reports : q # r => post'[q] = post[q]
        /\ post'[r] # "none"
        /\ post'[r] = "answered" => r \in heard'
        /\ heard' = heard \/ heard' = heard \union {r}
    <2>1. CASE Authorize(r)
      BY <2>1 DEF Authorize, TypeOK, PostStates, InFlight
    <2>2. CASE ReadBody(r)
      BY <2>2 DEF ReadBody, TypeOK, PostStates, InFlight
    <2>3. CASE Callback(r)
      BY <2>3 DEF Callback, TypeOK, PostStates, InFlight
    <2>4. QED
      BY <2>1, <2>2, <2>3 DEF Handle
  <1>2. /\ late' = late \/ (exec.pc = "returned" /\ post[r] = "read")
        /\ late' \in SUBSET heard'
    BY DEF Handle, Authorize, ReadBody, Callback, TypeOK
  <1>3. /\ raced' \in BOOLEAN
        /\ raced' => raced \/ (post[r] = "authorized" /\ \E q \in Reports : post[q] = "read")
    <2>1. \/ raced' = raced
          \/ post[r] = "authorized" /\ raced' = (raced \/ \E q \in Reports : post[q] = "read")
      BY DEF Handle, Authorize, ReadBody, Callback
    <2>2. raced \in BOOLEAN
      BY DEF TypeOK
    <2> DEFINE other == \E q \in Reports : post[q] = "read"
    <2>3. ASSUME raced' = (raced \/ other) PROVE raced' \in BOOLEAN /\ (raced' => raced \/ other)
      BY <2>3
    <2>4. QED
      BY <2>1, <2>2, <2>3
  <1>4. \A q \in Reports : InFlight(q)' => InFlight(q)
    BY <1>1 DEF InFlight
  <1>5. \A q : q \in heard => q \in heard'
    BY <1>1
  <1>6. TypeOK'
    BY <1>0, <1>1, <1>2, <1>3 DEF TypeOK
  <1>7. ExecInv'
    <2>1. exec.pc # "idle"
      BY <1>0, <1>1 DEF ExecInv, Idle
    <2>2. QED
      BY <1>0, <1>2, <2>1 DEF ExecInv, Idle
  <1>8. PhaseInv'
    <2>1. Untouched => Untouched'
      BY <1>0, <1>1, ScannerFacts DEF Untouched
    <2>2. post["checkout"] = "none" => post'["checkout"] = "none"
      BY <1>1, ScannerFacts
    <2>3. QED
      BY <1>0, <2>1, <2>2 DEF PhaseInv, FetchDone
  <1>9. PodInv'
    BY <1>0, <1>1, <1>5 DEF PodInv
  <1>10. FetchInv'
    BY <1>0, <1>4, <1>5, ScannerFacts DEF FetchInv, Good
  <1>11. ScanInv'
    <2>1. \A i \in 1..Len(Selected) : InFlight(Selected[i])' => InFlight(Selected[i])
      BY <1>4, ScannerFacts
    <2>2. QED
      BY <1>0, <1>5, <2>1 DEF ScanInv, Good
  <1>12. CleanInv' /\ PolicyInv'
    BY <1>0 DEF CleanInv, PolicyInv, After
  <1>13. JudgeInv'
    <2>1. ASSUME NEW q \in Reports, post[r] = "authorized", post[q] = "read",
                 Good("fetch"), Good("scan")
          PROVE  FALSE
      <3>1. q # r /\ InFlight(q) /\ InFlight(r)
        BY <2>1 DEF InFlight
      <3>2. \A n \in Scanners : InFlight(n) => n = Selected[pod["scan"].next]
        BY <1>0, <2>1, ScannerFacts DEF ScanInv
      <3>3. \A x \in Reports : x \in Scanners \/ x = "checkout"
        BY DEF Reports
      <3>4. (q = "checkout" /\ r \in Scanners) \/ (r = "checkout" /\ q \in Scanners)
        BY <3>1, <3>2, <3>3
      <3>5. InFlight("checkout") /\ \E n \in Scanners : post[n] # "none"
        BY <3>1, <3>4 DEF InFlight
      <3>6. pod["fetch"].pc = "posting"
        BY <1>0, <2>1, <3>5 DEF FetchInv
      <3>7. kind = "repository" /\ ~Untouched
        BY <1>0, <3>5 DEF PhaseInv, Untouched, InFlight
      <3>8. QED
        BY <1>0, <3>6, <3>7 DEF PhaseInv, FetchDone
    <2>2. raced' => ~Good("fetch") \/ ~Good("scan")
      BY <1>0, <1>3, <2>1 DEF JudgeInv
    <2>3. exec.outcome = "ok" => ~InFlight(r)
      BY NothingInFlight
    <2>4. exec.outcome # "ok"
      BY <1>1, <2>3
    <2>5. QED
      BY <1>0, <2>2, <2>4 DEF JudgeInv, Good
  <1>14. QED
    BY <1>6, <1>7, <1>8, <1>9, <1>10, <1>11, <1>12, <1>13 DEF KubeInv

-----------------------------------------------------------------------------
(* The pods. *)

\* What no step of a pod, of the Job controller or of the node does.
PodFrame ==
    /\ UNCHANGED <<kind, exec, pvc, policy, session, heard, late, raced, deadline>>
    /\ Grown
    /\ pod' \in [Phases -> Pods]
    /\ post' \in [Reports -> PostStates]
    /\ job' \in [Phases -> {"none", "active", "complete", "failed"}]
    /\ \A p \in Phases :
         /\ pod[p].pc = "exit0" => pod'[p].pc = "exit0" /\ pod'[p].told = pod[p].told
         /\ pod'[p].pc # "none" => pod[p].pc # "none" \/ job[p] # "none"
         /\ pod'[p].pc \in Alive => pod[p].pc \in Alive \/ job[p] # "none"
         /\ pod[p].told => pod'[p].told
         /\ pod'[p].told /\ ~pod[p].told => faults'.pod # 0
         /\ ~Good(p) => ~Good(p)'
         /\ job'[p] # "none" => job[p] # "none"
    /\ \A n \in Scanners : post'[n] # "none" => post[n] # "none" \/ pod["scan"].pc # "none"
    /\ post'["checkout"] # "none" => post["checkout"] # "none" \/ pod["fetch"].pc # "none"

LEMMA PodFramed ==
  ASSUME TypeOK, KubeInv, PodFrame
  PROVE  TypeOK' /\ ExecInv' /\ PhaseInv' /\ CleanInv' /\ PolicyInv' /\ JudgeInv'
  <1>0. /\ ExecInv /\ PhaseInv /\ CleanInv /\ PolicyInv /\ JudgeInv
        /\ UNCHANGED <<kind, exec, pvc, policy, session, heard, late, raced, deadline>>
        /\ Grown
    BY DEF KubeInv, PodFrame
  <1>q. "fetch" \in Phases /\ "scan" \in Phases /\ \A p \in Phases : p = "fetch" \/ p = "scan"
    BY DEF Phases
  <1>1. TypeOK'
    BY DEF PodFrame, TypeOK, Grown, Counts, Pods
  <1>2. ExecInv'
    <2>1. Idle'
      <3>1. SUFFICES ASSUME exec.pc = "idle"
                     PROVE  /\ \A p \in Phases : job'[p] = "none" /\ pod'[p].pc = "none"
                            /\ \A r \in Reports : post'[r] = "none"
        BY <1>0 DEF ExecInv, Idle
      <3>2. /\ \A p \in Phases : job[p] = "none" /\ pod[p].pc = "none"
            /\ \A r \in Reports : post[r] = "none"
        BY <1>0, <3>1 DEF ExecInv, Idle
      <3>3. \A r \in Reports : r \in Scanners \/ r = "checkout"
        BY DEF Reports
      <3>4. QED
        BY <1>q, <3>2, <3>3, ScannerFacts DEF PodFrame
    <2>2. QED
      BY <1>0, <2>1 DEF ExecInv
  <1>3. PhaseInv'
    <2>1. Untouched => Untouched'
      BY <1>0, <1>q DEF Untouched, PodFrame
    <2>2. FetchDone => FetchDone'
      BY <1>q DEF FetchDone, PodFrame
    <2>3. kind # "repository" => /\ job'["fetch"] = "none"
                                 /\ pod'["fetch"].pc = "none"
                                 /\ post'["checkout"] = "none"
      BY <1>0, <1>q DEF PhaseInv, PodFrame
    <2>4. QED
      BY <1>0, <2>1, <2>2, <2>3 DEF PhaseInv
  <1>4. CleanInv'
    BY <1>0 DEF CleanInv, After, PodFrame, Grown
  <1>5. PolicyInv'
    BY <1>0 DEF PolicyInv, PodFrame, Grown
  <1>6. JudgeInv'
    <2>1. raced' => ~Good("fetch")' \/ ~Good("scan")'
      BY <1>0, <1>q DEF JudgeInv, PodFrame
    <2>2. \A p \in Phases : pod'[p].told /\ faults'.pod = 0 =>
            exec'.pc \in {"del_policies", "del_volume", "close", "returned"}
      BY <1>0 DEF JudgeInv, PodFrame, Grown
    <2>3. exec'.outcome = "ok" => /\ pod'["scan"].pc = "exit0"
                                  /\ kind' = "repository" => FetchDone'
                                  /\ late' = {}
                                  /\ faults'.pod = 0 => ~pod'["scan"].told
      BY <1>0, <1>q DEF JudgeInv, PodFrame, FetchDone, Grown
    <2>4. QED
      BY <2>1, <2>2, <2>3 DEF JudgeInv
  <1>7. QED
    BY <1>1, <1>2, <1>3, <1>4, <1>5, <1>6

\* The steps that only move a pod along.
LEMMA PodMoves ==
  ASSUME TypeOK, KubeInv,
         \/ FetchFails \/ BeginScanning
         \/ \E p \in Phases : StartPod(p) \/ BadStart(p) \/ Exit(p)
  PROVE  TypeOK' /\ KubeInv'
  <1>0. PodInv /\ FetchInv /\ ScanInv
    BY DEF KubeInv
  <1>q. "fetch" \in Phases /\ "scan" \in Phases /\ \A p \in Phases : p = "fetch" \/ p = "scan"
    BY DEF Phases
  <1>t. pod \in [Phases -> Pods] /\ post \in [Reports -> PostStates]
          /\ job \in [Phases -> {"none", "active", "complete", "failed"}]
    BY DEF TypeOK, Pods
  <1>1. PICK p \in Phases, pc \in PodPCs :
          /\ PodAt(p, pc)
          /\ \/ pod[p].pc = "none" /\ pc = "start" /\ job[p] # "none"
             \/ pod[p].pc = "start" /\ pc = "exit1"
             \/ pod[p].pc = "start" /\ pc = "run" /\ p = "scan"
             \/ /\ pod[p].pc = "run" /\ pc = IF pod[p].err THEN "exit1" ELSE "exit0"
                /\ p = "fetch" \/ pod[p].next > Len(Selected)
    <2>1. CASE FetchFails
      <3>1. PodAt("fetch", "exit1") /\ pod["fetch"].pc = "start" /\ "exit1" \in PodPCs
        BY <2>1 DEF FetchFails, PodPCs
      <3>2. QED
        BY <1>q, <3>1
    <2>2. CASE BeginScanning
      <3>1. PodAt("scan", "run") /\ pod["scan"].pc = "start" /\ "run" \in PodPCs
        BY <2>2 DEF BeginScanning, PodPCs, Alive
      <3>2. QED
        BY <1>q, <3>1
    <2>3. ASSUME NEW p \in Phases, StartPod(p) \/ BadStart(p) \/ Exit(p)
          PROVE  \E pc \in PodPCs :
                   /\ PodAt(p, pc)
                   /\ \/ pod[p].pc = "none" /\ pc = "start" /\ job[p] # "none"
                      \/ pod[p].pc = "start" /\ pc = "exit1"
                      \/ /\ pod[p].pc = "run" /\ pc = IF pod[p].err THEN "exit1" ELSE "exit0"
                         /\ p = "fetch" \/ pod[p].next > Len(Selected)
      BY <2>3 DEF StartPod, BadStart, Exit, PodPCs, Alive
    <2>4. QED
      BY <2>1, <2>2, <2>3
  <1>2. /\ UNCHANGED <<kind, exec, pvc, policy, job, session, post, heard, late, raced, deadline>>
        /\ Grown
    BY NoFault, FaultEffect DEF FetchFails, BeginScanning, StartPod, BadStart, Exit, cluster, intake
  <1>3. /\ pod' \in [Phases -> Pods]
        /\ \A q \in Phases : /\ pod'[q].pc = IF q = p THEN pc ELSE pod[q].pc
                             /\ pod'[q].next = pod[q].next
                             /\ pod'[q].told = pod[q].told
                             /\ pod'[q].err = pod[q].err
    BY <1>1, <1>t, PodAtEffect
  <1>4. PodFrame
    <2>1. \A x \in Phases :
            /\ pod[x].pc = "exit0" => pod'[x].pc = "exit0" /\ pod'[x].told = pod[x].told
            /\ pod'[x].pc # "none" => pod[x].pc # "none" \/ job[x] # "none"
            /\ pod'[x].pc \in Alive => pod[x].pc \in Alive \/ job[x] # "none"
            /\ pod[x].told => pod'[x].told
            /\ ~(pod'[x].told /\ ~pod[x].told)
            /\ ~Good(x) => ~Good(x)'
      BY <1>1, <1>3 DEF Alive, Good
    <2>2. QED
      BY <1>2, <1>3, <1>t, <2>1 DEF PodFrame
  <1>5. PodInv'
    BY <1>0, <1>1, <1>2, <1>3 DEF PodInv
  <1>6. FetchInv'
    BY <1>0, <1>1, <1>2, <1>3, <1>q DEF FetchInv, Good, InFlight
  <1>7. ScanInv'
    BY <1>0, <1>1, <1>2, <1>3, <1>q DEF ScanInv, Good, InFlight
  <1>8. QED
    BY <1>4, <1>5, <1>6, <1>7, PodFramed DEF KubeInv

\* A pod sends a report.
LEMMA Posts ==
  ASSUME TypeOK, KubeInv, FetchAndPost \/ ScanAndPost
  PROVE  TypeOK' /\ KubeInv'
  <1>0. PodInv /\ FetchInv /\ ScanInv
    BY DEF KubeInv
  <1>q. "fetch" \in Phases /\ "scan" \in Phases /\ \A x \in Phases : x = "fetch" \/ x = "scan"
    BY DEF Phases
  <1>t. pod \in [Phases -> Pods] /\ post \in [Reports -> PostStates]
          /\ job \in [Phases -> {"none", "active", "complete", "failed"}]
    BY DEF TypeOK, Pods
  <1>1. PICK p \in Phases, r \in Reports :
          /\ PodAt(p, "posting")
          /\ post' = [post EXCEPT ![r] = "sent"]
          /\ p = "fetch" => pod["fetch"].pc = "start" /\ r = "checkout"
          /\ p = "scan" => /\ pod["scan"].pc = "run" /\ pod["scan"].next \in 1..Len(Selected)
                           /\ r = Selected[pod["scan"].next] /\ r \in Scanners
    <2>1. CASE FetchAndPost
      <3>1. /\ PodAt("fetch", "posting") /\ post' = [post EXCEPT !["checkout"] = "sent"]
            /\ pod["fetch"].pc = "start"
        BY <2>1 DEF FetchAndPost
      <3>2. QED
        BY <1>q, <3>1, ScannerFacts
    <2>2. CASE ScanAndPost
      <3>1. /\ PodAt("scan", "posting") /\ post' = [post EXCEPT ![Selected[pod["scan"].next]] = "sent"]
            /\ pod["scan"].pc = "run" /\ pod["scan"].next <= Len(Selected)
        BY <2>2 DEF ScanAndPost
      <3>2. pod["scan"].next \in 1..Len(Selected)
        BY <1>q, <1>t, <3>1, ScannerFacts DEF Pods
      <3>3. QED
        BY <1>q, <3>1, <3>2, ScannerFacts
    <2>3. QED
      BY <2>1, <2>2
  <1>2. /\ UNCHANGED <<kind, exec, pvc, policy, job, session, heard, late, raced, deadline>>
        /\ Grown
    BY NoFault DEF FetchAndPost, ScanAndPost, cluster
  <1>3. /\ pod' \in [Phases -> Pods]
        /\ \A q \in Phases : /\ pod'[q].pc = IF q = p THEN "posting" ELSE pod[q].pc
                             /\ pod'[q].next = pod[q].next
                             /\ pod'[q].told = pod[q].told
                             /\ pod'[q].err = pod[q].err
    BY <1>1, <1>t, PodAtEffect DEF PodPCs, Alive
  <1>4. post' \in [Reports -> PostStates] /\ \A x \in Reports : post'[x] = IF x = r THEN "sent" ELSE post[x]
    BY <1>1, <1>t DEF PostStates
  <1>5. PodFrame
    <2>1. \A x \in Phases :
            /\ pod[x].pc = "exit0" => pod'[x].pc = "exit0" /\ pod'[x].told = pod[x].told
            /\ pod'[x].pc # "none" => pod[x].pc # "none" \/ job[x] # "none"
            /\ pod'[x].pc \in Alive => pod[x].pc \in Alive \/ job[x] # "none"
            /\ pod[x].told => pod'[x].told
            /\ ~(pod'[x].told /\ ~pod[x].told)
            /\ ~Good(x) => ~Good(x)'
      BY <1>1, <1>3, <1>q DEF Alive, Good
    <2>2. /\ \A n \in Scanners : post'[n] # "none" => post[n] # "none" \/ pod["scan"].pc # "none"
          /\ post'["checkout"] # "none" => post["checkout"] # "none" \/ pod["fetch"].pc # "none"
      BY <1>1, <1>4, <1>q, ScannerFacts
    <2>3. QED
      BY <1>2, <1>3, <1>4, <1>t, <2>1, <2>2 DEF PodFrame
  <1>6. PodInv'
    BY <1>0, <1>1, <1>2, <1>3, <1>4, <1>q DEF PodInv
  <1>7. FetchInv'
    BY <1>0, <1>1, <1>2, <1>3, <1>4, <1>q, ScannerFacts DEF FetchInv, Good, InFlight
  <1>8. ScanInv'
    <2>1. CASE p = "fetch"
      <3>1. \A j \in 1..Len(Selected) : post'[Selected[j]] = post[Selected[j]]
        BY <1>1, <1>4, <2>1, ScannerFacts
      <3>2. QED
        BY <1>0, <1>2, <1>3, <1>q, <2>1, <3>1 DEF ScanInv, Good, InFlight
    <2>2. CASE p = "scan"
      <3> DEFINE k == pod["scan"].next
      <3>1. \A j \in 1..Len(Selected) : j # k => post'[Selected[j]] = post[Selected[j]]
        BY <1>1, <1>4, <2>2, ScannerFacts, ConstantsAssumption
      <3>2. Good("scan")' => \A j \in 1..Len(Selected) : ~InFlight(Selected[j])
        BY <1>0, <1>1, <1>3, <1>q, <2>2 DEF ScanInv, Good
      <3>3. Good("scan")' => \A j \in 1..Len(Selected) : InFlight(Selected[j])' => j = k
        BY <3>1, <3>2 DEF InFlight
      <3>4. /\ pod'["scan"].pc = "posting" /\ pod'["scan"].next = k
            /\ pod'["scan"].told = pod["scan"].told /\ pod'["scan"].err = pod["scan"].err
        BY <1>3, <1>q, <2>2
      <3>5. k <= Len(Selected)
        BY <1>1, <2>2, ScannerFacts
      <3>6. QED
        BY <1>0, <1>2, <3>3, <3>4, <3>5 DEF ScanInv
    <2>3. QED
      BY <1>q, <2>1, <2>2
  <1>9. QED
    BY <1>5, <1>6, <1>7, <1>8, PodFramed DEF KubeInv

\* The report is answered, or given up.
LEMMA PostReturns ==
  ASSUME TypeOK, KubeInv, NEW p \in Phases, Answered(p) \/ PostTimesOut(p)
  PROVE  TypeOK' /\ KubeInv'
  <1>0. PodInv /\ FetchInv /\ ScanInv
    BY DEF KubeInv
  <1>q. "fetch" \in Phases /\ "scan" \in Phases /\ \A x \in Phases : x = "fetch" \/ x = "scan"
    BY DEF Phases
  <1>t. pod \in [Phases -> Pods] /\ post \in [Reports -> PostStates]
          /\ job \in [Phases -> {"none", "active", "complete", "failed"}]
    BY DEF TypeOK, Pods
  <1> DEFINE r == Posted(p)
  <1>1. /\ r \in Reports /\ pod[p].pc = "posting"
        /\ p = "fetch" => r = "checkout"
        /\ p = "scan" => pod[p].next \in 1..Len(Selected) /\ r = Selected[pod[p].next]
    BY <1>0, PostedFacts DEF Answered, PostTimesOut
  <1>2. /\ UNCHANGED <<kind, exec, pvc, policy, job, session, heard, late, raced, deadline>>
        /\ Grown
    BY NoFault, FaultEffect DEF Answered, PostTimesOut, cluster, intake
  <1>3. /\ post[r] # "none"
        /\ post' = post \/ post' = [post EXCEPT ![r] = "dropped"]
    BY DEF Answered, PostTimesOut, intake
  <1>4. PICK failed \in BOOLEAN :
          AfterPost(p, failed) /\ (~failed => post' = post /\ post[r] = "answered")
    <2>1. CASE Answered(p)
      <3>1. AfterPost(p, post[r] # "answered") /\ post' = post
        BY <2>1 DEF Answered, intake
      <3>2. QED
        BY <3>1
    <2>2. CASE PostTimesOut(p)
      <3>1. AfterPost(p, TRUE)
        BY <2>2 DEF PostTimesOut
      <3>2. QED
        BY <3>1
    <2>3. QED
      BY <2>1, <2>2
  <1> HIDE DEF r
  <1>5. /\ pod' \in [Phases -> Pods]
        /\ \A q \in Phases : q # p => pod'[q] = pod[q]
        /\ pod'[p].pc = "run" /\ pod'[p].told = pod[p].told
        /\ pod'[p].err = (pod[p].err \/ failed)
        /\ p = "scan" => pod'[p].next = IF pod[p].told THEN Len(Selected) + 1 ELSE pod[p].next + 1
    <2>1. p = "scan" => pod["scan"].next <= Len(Selected)
      BY <1>1, ScannerFacts
    <2>2. QED
      BY <1>4, <1>t, <2>1, AfterPostEffect
  <1>e. (~pod'[p].err) => ~pod[p].err /\ ~failed
    BY <1>5
  <1>6. /\ post' \in [Reports -> PostStates]
        /\ \A x \in Reports : x # r => post'[x] = post[x]
        /\ post'[r] \in {post[r], "dropped"}
    BY <1>1, <1>3, <1>t DEF PostStates
  <1>7. \A x \in Reports : /\ InFlight(x)' => InFlight(x)
                           /\ post'[x] # "none" => post[x] # "none"
                           /\ post'[x] = "answered" => post[x] = "answered"
    BY <1>3, <1>6 DEF InFlight
  <1>8. PodFrame
    <2>1. \A x \in Phases :
            /\ pod[x].pc = "exit0" => pod'[x].pc = "exit0" /\ pod'[x].told = pod[x].told
            /\ pod'[x].pc # "none" => pod[x].pc # "none" \/ job[x] # "none"
            /\ pod'[x].pc \in Alive => pod[x].pc \in Alive \/ job[x] # "none"
            /\ pod[x].told => pod'[x].told
            /\ ~(pod'[x].told /\ ~pod[x].told)
      BY <1>1, <1>5 DEF Alive
    <2>2. \A x \in Phases : ~Good(x) => ~Good(x)'
      BY <1>1, <1>5, <1>e DEF Good
    <2>3. QED
      BY <1>2, <1>5, <1>6, <1>7, <1>t, <2>1, <2>2, ScannerFacts DEF PodFrame
  <1>9. PodInv'
    BY <1>0, <1>1, <1>2, <1>5, <1>7 DEF PodInv
  <1>10. ~pod'[p].err => r \in heard
    BY <1>0, <1>1, <1>4, <1>e DEF PodInv
  <1>10a. \A x \in Reports : x = r /\ ~pod'[p].err => ~InFlight(x)'
    <2>1. (~pod'[p].err) => post'[r] = "answered"
      BY <1>4, <1>e
    <2>2. QED
      BY <2>1 DEF InFlight
  <1>11. FetchInv'
    <2>1. CASE p = "fetch"
      <3>1. ~pod'["fetch"].err => "checkout" \in heard
        BY <1>1, <1>10, <2>1
      <3>2. ~pod'["fetch"].err => ~InFlight("checkout")'
        BY <1>1, <1>10a, <2>1, ScannerFacts
      <3>3. QED
        BY <1>2, <3>1, <3>2 DEF FetchInv, Good
    <2>2. CASE p # "fetch"
      <3>1. pod'["fetch"] = pod["fetch"] /\ (InFlight("checkout")' => InFlight("checkout"))
        BY <1>5, <1>7, <1>q, <2>2, ScannerFacts
      <3>2. QED
        BY <1>0, <1>2, <3>1 DEF FetchInv, Good
    <2>3. QED
      BY <2>1, <2>2
  <1>12. ScanInv'
    <2>0. \A j \in 1..Len(Selected) : InFlight(Selected[j])' => InFlight(Selected[j])
      BY <1>7, ScannerFacts
    <2>1. CASE p # "scan"
      <3>1. pod'["scan"] = pod["scan"]
        BY <1>5, <1>q, <2>1
      <3>2. QED
        BY <1>0, <1>2, <2>0, <3>1 DEF ScanInv, Good
    <2>2. CASE p = "scan"
      <3> DEFINE k == pod["scan"].next
      <3>1. /\ k \in 1..Len(Selected) /\ pod'["scan"].pc = "run"
            /\ pod'["scan"].next = IF pod["scan"].told THEN Len(Selected) + 1 ELSE k + 1
            /\ pod'["scan"].told = pod["scan"].told
        BY <1>1, <1>5, <2>2
      <3>2. /\ (~pod'["scan"].err) => ~pod["scan"].err /\ Selected[k] \in heard
            /\ \A j \in 1..Len(Selected) : (~pod'["scan"].err) /\ j = k => ~InFlight(Selected[j])'
        <4>1. (~pod'["scan"].err) => ~pod["scan"].err /\ Selected[k] \in heard
          BY <1>1, <1>10, <1>e, <2>2
        <4>2. ASSUME NEW j \in 1..Len(Selected), ~pod'["scan"].err, j = k
              PROVE  ~InFlight(Selected[j])'
          <5>1. Selected[j] \in Reports /\ Selected[j] = r
            BY <1>1, <2>2, <4>2, ScannerFacts
          <5>2. QED
            BY <1>10a, <2>2, <4>2, <5>1
        <4>3. QED
          BY <4>1, <4>2
      <3>3. ~pod'["scan"].err => Selected[1] \in heard
        <4>1. CASE k = 1
          BY <3>2, <4>1
        <4>2. CASE k # 1
          <5>1. k > 1
            BY <3>1, <4>2, ScannerFacts
          <5>2. QED
            BY <1>0, <3>2, <5>1 DEF ScanInv
        <4>3. QED
          BY <4>1, <4>2
      <3>4. ~pod'["scan"].err /\ ~pod'["scan"].told =>
              \A j \in 1..(pod'["scan"].next - 1) : Selected[j] \in heard
        <4>1. SUFFICES ASSUME ~pod'["scan"].err, ~pod'["scan"].told,
                              NEW j \in 1..(pod'["scan"].next - 1)
                       PROVE  Selected[j] \in heard
          OBVIOUS
        <4>2. j \in 1..k
          BY <3>1, <4>1, ScannerFacts
        <4>3. CASE j = k
          BY <3>2, <4>1, <4>3
        <4>4. CASE j # k
          <5>1. j \in 1..(k - 1)
            BY <3>1, <4>2, <4>4, ScannerFacts
          <5>2. QED
            BY <1>0, <3>1, <3>2, <4>1, <5>1 DEF ScanInv
        <4>5. QED
          BY <4>3, <4>4
      <3>5. Good("scan")' => \A j \in 1..Len(Selected) : ~InFlight(Selected[j])'
        <4>1. SUFFICES ASSUME Good("scan")', NEW j \in 1..Len(Selected), InFlight(Selected[j])'
                       PROVE  FALSE
          OBVIOUS
        <4>2. ~pod'["scan"].err /\ ~pod["scan"].err /\ InFlight(Selected[j])
          BY <2>0, <3>2, <4>1 DEF Good
        <4>3. Good("scan")
          BY <1>1, <2>2, <4>2 DEF Good
        <4>4. j = k
          BY <1>0, <4>2, <4>3 DEF ScanInv
        <4>5. QED
          BY <3>2, <4>1, <4>2, <4>4
      <3>6. QED
        BY <1>2, <3>1, <3>3, <3>4, <3>5 DEF ScanInv
    <2>3. QED
      BY <2>1, <2>2
  <1>13. QED
    BY <1>8, <1>9, <1>11, <1>12, PodFramed DEF KubeInv

\* A pod is told to stop by its node.
LEMMA Evicts ==
  ASSUME TypeOK, KubeInv, NEW p \in Phases, Evict(p)
  PROVE  TypeOK' /\ KubeInv'
  <1>0. PodInv /\ FetchInv /\ ScanInv
    BY DEF KubeInv
  <1>q. "fetch" \in Phases /\ "scan" \in Phases /\ \A x \in Phases : x = "fetch" \/ x = "scan"
    BY DEF Phases
  <1>t. /\ pod \in [Phases -> Pods] /\ post \in [Reports -> PostStates]
        /\ job \in [Phases -> {"none", "active", "complete", "failed"}]
    BY DEF TypeOK, Pods
  <1>1. /\ UNCHANGED <<kind, exec, pvc, policy, job, session, post, heard, late, raced, deadline>>
        /\ pod[p].pc \in Alive
    BY DEF Evict, cluster, intake
  <1>2. Grown /\ faults'.pod > 0
    BY FaultEffect DEF Evict
  <1> DEFINE w == [pod[p] EXCEPT !.told = TRUE]
  <1>3. pod' = [pod EXCEPT ![p] = w]
    BY Zenon DEF Evict
  <1>4. w \in Pods /\ w.pc = pod[p].pc /\ w.next = pod[p].next /\ w.told = TRUE /\ w.err = pod[p].err
    BY <1>t DEF Pods
  <1> HIDE DEF w
  <1>5. /\ pod' \in [Phases -> Pods]
        /\ \A q \in Phases : /\ pod'[q].pc = pod[q].pc
                             /\ pod'[q].next = pod[q].next
                             /\ pod'[q].err = pod[q].err
        /\ \A q \in Phases : q # p => pod'[q].told = pod[q].told
        /\ pod'[p].told
    BY <1>3, <1>4, <1>t
  <1>6. PodFrame
    <2>1. \A x \in Phases :
            /\ pod[x].pc = "exit0" => pod'[x].pc = "exit0" /\ pod'[x].told = pod[x].told
            /\ pod[x].told => pod'[x].told
            /\ ~Good(x) => ~Good(x)'
      BY <1>1, <1>5 DEF Alive, Good
    <2>2. QED
      BY <1>1, <1>2, <1>5, <1>t, <2>1 DEF PodFrame
  <1>7. PodInv'
    BY <1>0, <1>1, <1>5 DEF PodInv
  <1>8. FetchInv'
    BY <1>0, <1>1, <1>5, <1>q DEF FetchInv, Good, InFlight
  <1>9. ScanInv'
    <2>1. ~pod'["scan"].told => ~pod["scan"].told
      BY <1>5, <1>q
    <2>2. QED
      BY <1>0, <1>1, <1>5, <1>q, <2>1 DEF ScanInv, Good, InFlight
  <1>10. QED
    BY <1>6, <1>7, <1>8, <1>9, PodFramed DEF KubeInv

\* A pod is killed, and a report it was sending is lost.
LEMMA Kills ==
  ASSUME TypeOK, KubeInv, NEW p \in Phases, Kill(p)
  PROVE  TypeOK' /\ KubeInv'
  <1>0. PodInv /\ FetchInv /\ ScanInv
    BY DEF KubeInv
  <1>q. "fetch" \in Phases /\ "scan" \in Phases /\ \A x \in Phases : x = "fetch" \/ x = "scan"
    BY DEF Phases
  <1>t. /\ pod \in [Phases -> Pods] /\ post \in [Reports -> PostStates]
        /\ job \in [Phases -> {"none", "active", "complete", "failed"}]
    BY DEF TypeOK, Pods
  <1>1. /\ UNCHANGED <<kind, exec, pvc, policy, job, session, heard, late, raced, deadline>>
        /\ pod[p].pc \in Alive
        /\ PodAt(p, "exit1")
    BY DEF Kill, cluster, intake
  <1>2. Grown
    BY NoFault, FaultEffect DEF Kill
  <1>3. /\ pod' \in [Phases -> Pods]
        /\ \A q \in Phases : /\ pod'[q].pc = IF q = p THEN "exit1" ELSE pod[q].pc
                             /\ pod'[q].next = pod[q].next
                             /\ pod'[q].told = pod[q].told
                             /\ pod'[q].err = pod[q].err
    BY <1>1, <1>t, PodAtEffect DEF PodPCs
  <1>4. /\ post' \in [Reports -> PostStates]
        /\ \A x \in Reports : /\ InFlight(x)' => InFlight(x)
                              /\ post'[x] # "none" => post[x] # "none"
                              /\ post'[x] = "answered" => post[x] = "answered"
    <2>1. CASE post' = post
      BY <1>t, <2>1 DEF InFlight
    <2>2. CASE post' # post
      <3> DEFINE r == Posted(p)
      <3>1. /\ post' = [post EXCEPT ![r] = "dropped"] /\ pod[p].pc = "posting"
            /\ post[r] \in {"sent", "authorized"}
        BY <2>2 DEF Kill
      <3>2. r \in Reports
        BY <1>0, <3>1, PostedFacts
      <3> HIDE DEF r
      <3>3. /\ post' \in [Reports -> PostStates] /\ post'[r] = "dropped"
            /\ \A x \in Reports : x # r => post'[x] = post[x]
        BY <1>t, <3>1, <3>2 DEF PostStates
      <3>4. QED
        BY <3>1, <3>3 DEF InFlight
    <2>3. QED
      BY <2>1, <2>2
  <1>5. PodFrame
    <2>1. \A x \in Phases :
            /\ pod[x].pc = "exit0" => pod'[x].pc = "exit0" /\ pod'[x].told = pod[x].told
            /\ pod'[x].pc # "none" => pod[x].pc # "none" \/ job[x] # "none"
            /\ pod'[x].pc \in Alive => pod[x].pc \in Alive \/ job[x] # "none"
            /\ pod[x].told => pod'[x].told
            /\ ~(pod'[x].told /\ ~pod[x].told)
            /\ ~Good(x) => ~Good(x)'
      BY <1>1, <1>3 DEF Alive, Good
    <2>2. QED
      BY <1>1, <1>2, <1>3, <1>4, <1>t, <2>1, ScannerFacts DEF PodFrame
  <1>6. PodInv'
    BY <1>0, <1>1, <1>3, <1>4 DEF PodInv, Alive
  <1>7. FetchInv'
    BY <1>0, <1>1, <1>3, <1>4, <1>q, ScannerFacts DEF FetchInv, Good
  <1>8. ScanInv'
    <2>1. \A j \in 1..Len(Selected) : InFlight(Selected[j])' => InFlight(Selected[j])
      BY <1>4, ScannerFacts
    <2>2. QED
      BY <1>0, <1>1, <1>3, <1>q, <2>1 DEF ScanInv, Good
  <1>9. QED
    BY <1>5, <1>6, <1>7, <1>8, PodFramed DEF KubeInv

\* A Job ends as its pod did, and is removed some time later.
LEMMA JobMoves ==
  ASSUME TypeOK, KubeInv, NEW p \in Phases, JobEnds(p) \/ Expire(p)
  PROVE  TypeOK' /\ KubeInv'
  <1>0. PodInv /\ FetchInv /\ ScanInv
    BY DEF KubeInv
  <1>q. "fetch" \in Phases /\ "scan" \in Phases /\ \A x \in Phases : x = "fetch" \/ x = "scan"
    BY DEF Phases
  <1>t. /\ pod \in [Phases -> Pods] /\ post \in [Reports -> PostStates]
        /\ job \in [Phases -> {"none", "active", "complete", "failed"}]
    BY DEF TypeOK, Pods
  <1>1. UNCHANGED <<kind, exec, pvc, policy, pod, session, post, heard, late, raced, deadline>>
    BY DEF JobEnds, Expire, intake
  <1>2. /\ job' \in [Phases -> {"none", "active", "complete", "failed"}]
        /\ \A x \in Phases : job'[x] # "none" => job[x] # "none"
        /\ \A x \in Phases : job'[x] = "complete" => job[x] = "complete" \/ pod[x].pc = "exit0"
    <2>1. CASE JobEnds(p)
      BY <1>t, <2>1 DEF JobEnds
    <2>2. CASE Expire(p)
      BY <1>t, <2>2 DEF Expire
    <2>3. QED
      BY <2>1, <2>2
  <1>3. Grown
    <2>1. CASE UNCHANGED faults
      BY <2>1, NoFault
    <2>2. CASE ~UNCHANGED faults
      <3>1. Fault("net")
        BY <2>2 DEF JobEnds, Expire, Fault
      <3>2. QED
        BY <3>1, FaultEffect
    <2>3. QED
      BY <2>1, <2>2
  <1>4. PodFrame
    BY <1>1, <1>2, <1>3, <1>t DEF PodFrame, Good
  <1>5. PodInv'
    BY <1>0, <1>1, <1>2 DEF PodInv
  <1>6. FetchInv' /\ ScanInv'
    BY <1>0, <1>1 DEF FetchInv, ScanInv, Good, InFlight
  <1>7. QED
    BY <1>4, <1>5, <1>6, PodFramed DEF KubeInv

-----------------------------------------------------------------------------
(* The theorems. *)

LEMMA KubeInit == Init => TypeOK /\ KubeInv
  <1>1. SUFFICES ASSUME Init PROVE TypeOK /\ KubeInv
    OBVIOUS
  <1>0. Len(Selected) \in Nat /\ Len(Selected) > 0 /\ MaxFaults \in Nat
    BY ConstantsAssumption
  <1>q. "fetch" \in Phases /\ "scan" \in Phases /\ \A x \in Phases : x = "fetch" \/ x = "scan"
    BY DEF Phases
  <1>2. \A p \in Phases : /\ pod[p].pc = "none" /\ pod[p].next = 1
                          /\ pod[p].told = FALSE /\ pod[p].err = FALSE
                          /\ job[p] = "none" /\ policy[p] = "none"
    BY <1>1 DEF Init
  <1>3. \A r \in Reports : post[r] = "none"
    BY <1>1 DEF Init
  <1>4. heard = {} /\ late = {} /\ raced = FALSE /\ pvc = FALSE
        /\ exec.pc = "idle" /\ exec.outcome = "none" /\ exec.phase = "scan"
    BY <1>1 DEF Init
  <1>5. TypeOK
    <2>1. exec \in [pc : ExecPCs, phase : Phases, outcome : Outcomes]
      BY <1>1, <1>q DEF Init, ExecPCs, Outcomes
    <2>2. pod \in [Phases -> Pods]
      BY <1>0, <1>1 DEF Init, Pods, PodPCs
    <2>3. faults \in Counts
      BY <1>0, <1>1 DEF Init, Counts
    <2>4. post \in [Reports -> PostStates]
      BY <1>1 DEF Init, PostStates
    <2>5. QED
      BY <1>1, <2>1, <2>2, <2>3, <2>4 DEF Init, TypeOK, Pods, Counts
  <1>6. ExecInv
    BY <1>2, <1>3, <1>4 DEF ExecInv, Idle
  <1>7. Untouched
    BY <1>2, <1>3, <1>4, <1>q, ScannerFacts DEF Untouched
  <1>8. PhaseInv
    BY <1>2, <1>3, <1>4, <1>7, <1>q, ScannerFacts DEF PhaseInv, Working
  <1>9. PodInv /\ FetchInv
    BY <1>2, <1>3, <1>q, ScannerFacts DEF PodInv, FetchInv, InFlight
  <1>10. ScanInv
    BY <1>2, <1>3, <1>q, ScannerFacts DEF ScanInv, InFlight
  <1>11. CleanInv /\ PolicyInv /\ JudgeInv
    BY <1>2, <1>4, <1>q DEF CleanInv, After, PolicyInv, JudgeInv, Alive
  <1>12. QED
    BY <1>5, <1>6, <1>8, <1>9, <1>10, <1>11 DEF KubeInv

LEMMA KubeNext ==
  ASSUME TypeOK, KubeInv, [Next]_vars
  PROVE  TypeOK' /\ KubeInv'
  <1>1. CASE ExecStep \/ Deadline
    <2>1. CASE Create \/ CreateFails
      BY <2>1, Creates
    <2>2. CASE Cleanup
      BY <2>2, Cleans
    <2>3. CASE \/ OpenSession \/ OpenFails \/ PhaseDone \/ JobLost \/ StopWaiting \/ CloseSession
               \/ Deadline
      BY <2>3, ExecMoves
    <2>4. QED
      BY <1>1, <2>1, <2>2, <2>3 DEF ExecStep
  <1>2. CASE PodStep
    <2>1. CASE FetchAndPost \/ ScanAndPost
      BY <2>1, Posts
    <2>2. CASE FetchFails \/ BeginScanning
      BY <2>2, PodMoves
    <2>3. ASSUME NEW p \in Phases, \/ StartPod(p) \/ BadStart(p) \/ Answered(p) \/ PostTimesOut(p)
                                   \/ Exit(p) \/ Evict(p) \/ Kill(p) \/ JobEnds(p) \/ Expire(p)
          PROVE  TypeOK' /\ KubeInv'
      <3>1. CASE StartPod(p) \/ BadStart(p) \/ Exit(p)
        BY <3>1, PodMoves
      <3>2. CASE Answered(p) \/ PostTimesOut(p)
        BY <3>2, PostReturns
      <3>3. CASE Evict(p)
        BY <3>3, Evicts
      <3>4. CASE Kill(p)
        BY <3>4, Kills
      <3>5. CASE JobEnds(p) \/ Expire(p)
        BY <3>5, JobMoves
      <3>6. QED
        BY <2>3, <3>1, <3>2, <3>3, <3>4, <3>5
    <2>4. QED
      BY <1>2, <2>1, <2>2, <2>3 DEF PodStep
  <1>3. CASE \E r \in Reports : Handle(r)
    BY <1>3, Handles
  <1>4. CASE UNCHANGED vars
    <2>1. UNCHANGED <<kind, exec, pvc, policy, job, pod, session, post, heard, late, raced, deadline, faults>>
      BY <1>4 DEF vars, cluster, intake
    <2>2. TypeOK' /\ ExecInv' /\ PhaseInv' /\ PodInv'
      BY <2>1 DEF TypeOK, KubeInv, ExecInv, Idle, PhaseInv, Untouched, FetchDone, PodInv
    <2>3. FetchInv' /\ ScanInv'
      BY <2>1 DEF KubeInv, FetchInv, ScanInv, Good, InFlight
    <2>4. CleanInv' /\ PolicyInv' /\ JudgeInv'
      BY <2>1 DEF KubeInv, CleanInv, After, PolicyInv, JudgeInv, Good, FetchDone
    <2>5. QED
      BY <2>2, <2>3, <2>4 DEF KubeInv
  <1>5. QED
    BY <1>1, <1>2, <1>3, <1>4 DEF Next

\* The invariant the theorems below rest on holds in every reachable state.
LEMMA KubeInvariant == Spec => [](TypeOK /\ KubeInv)
  <1>1. Init => TypeOK /\ KubeInv
    BY KubeInit
  <1>2. TypeOK /\ KubeInv /\ [Next]_vars => (TypeOK /\ KubeInv)'
    BY KubeNext
  <1>3. QED
    BY <1>1, <1>2, PTL DEF Spec

\* When kube.Executor.Execute returns without an error, the runner judges
\* everything the pods had to report and nothing that still moves: at least one
\* scanner was heard, all of them unless a pod was evicted, no report is still
\* in a callback or came in late, and no two callbacks ran at once.
THEOREM JudgedInFullHolds == Spec => []JudgedInFull
  <1>1. ASSUME TypeOK, KubeInv PROVE JudgedInFull
    <2>0. PhaseInv /\ PodInv /\ FetchInv /\ ScanInv /\ JudgeInv
      BY <1>1 DEF KubeInv
    <2>q. "fetch" \in Phases /\ "scan" \in Phases
      BY DEF Phases
    <2>1. SUFFICES ASSUME exec.outcome = "ok"
                   PROVE  /\ heard \intersect Scanners # {}
                          /\ faults.pod = 0 => Scanners \subseteq heard
                          /\ late = {} /\ ~raced /\ \A r \in Reports : post[r] # "read"
      BY <1>1 DEF JudgedInFull, SuccessIsHeard, JudgedAtRest
    <2>2. /\ pod["scan"].pc = "exit0" /\ ~pod["scan"].err
          /\ pod["scan"].next > Len(Selected)
          /\ pod["scan"].next \in 1..(Len(Selected) + 1)
      BY <1>1, <2>0, <2>1, <2>q DEF JudgeInv, PodInv, ScanInv, TypeOK
    <2>3. Selected[1] \in heard /\ Selected[1] \in Scanners
      BY <2>0, <2>2, ScannerFacts DEF ScanInv
    <2>4. ASSUME faults.pod = 0, NEW n \in Scanners PROVE n \in heard
      <3>1. PICK i \in 1..Len(Selected) : n = Selected[i]
        BY ScannerFacts
      <3>2. ~pod["scan"].told
        BY <2>0, <2>1, <2>4 DEF JudgeInv
      <3>3. i \in 1..(pod["scan"].next - 1)
        BY <2>2, ScannerFacts
      <3>4. QED
        BY <2>0, <2>2, <3>1, <3>2, <3>3 DEF ScanInv
    <2>5. late = {}
      BY <2>0, <2>1 DEF JudgeInv
    <2>6. \A r \in Reports : post[r] # "read"
      BY <1>1, <2>1, NothingInFlight DEF InFlight
    <2>7. ~raced
      <3>1. Good("scan")
        BY <2>2 DEF Good
      <3>2. Good("fetch")
        <4>1. pod["fetch"].pc \in {"none", "exit0"}
          BY <2>0, <2>1 DEF JudgeInv, PhaseInv, FetchDone
        <4>2. QED
          BY <2>0, <2>q, <4>1 DEF PodInv, Good
      <3>3. QED
        BY <2>0, <3>1, <3>2 DEF JudgeInv
    <2>8. QED
      BY <2>3, <2>4, <2>5, <2>6, <2>7
  <1>2. QED
    BY <1>1, KubeInvariant, PTL

\* runPhase creates the NetworkPolicy before the Job: a pod nobody asked to stop
\* runs under its phase's policy unless a delete failed, and the pod that reads
\* a repository's contents never has egress.
THEOREM ConfinedHolds == Spec => []Confined
  <1>1. TypeOK /\ KubeInv => Confined
    BY DEF KubeInv, PolicyInv, Confined
  <1>2. QED
    BY <1>1, KubeInvariant, PTL

\* "We could not get the code" never reads as "we scanned it": no scanner of a
\* repository is heard before the checkout was, and none when the fetch failed.
THEOREM FetchedBeforeScannedHolds == Spec => []FetchedBeforeScanned
  <1>1. ASSUME TypeOK, KubeInv PROVE FetchedBeforeScanned
    <2>0. ExecInv /\ PhaseInv /\ PodInv /\ FetchInv /\ "fetch" \in Phases
      BY <1>1 DEF KubeInv, Phases
    <2>1. Untouched => heard \intersect Scanners = {}
      BY DEF Untouched
    <2>2. FetchDone => "checkout" \in heard
      BY <2>0 DEF FetchDone, PodInv, FetchInv
    <2>3. QED
      BY <2>0, <2>1, <2>2 DEF FetchedBeforeScanned, ExecInv, PhaseInv
  <1>2. QED
    BY <1>1, KubeInvariant, PTL

\* However Execute ends, its deferred cleanup has left neither the volume nor a
\* policy nor a Job of the scan in the cluster, unless a delete failed.
THEOREM CleanedUpHolds == Spec => []CleanedUp
  <1>1. TypeOK /\ KubeInv => CleanedUp
    BY DEF KubeInv, CleanInv, After, CleanedUp
  <1>2. QED
    BY <1>1, KubeInvariant, PTL

=============================================================================
