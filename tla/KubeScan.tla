------------------------------ MODULE KubeScan ------------------------------
(***************************************************************************)
(* One scan on the Kubernetes executor: kube.Executor.Execute creates a    *)
(* volume and, per phase, a NetworkPolicy and a Job, waits for the Job and *)
(* deletes everything; the Job's pod (cmd/scanjob) runs the scanners and   *)
(* posts what they produced to the worker's intake, whose handlers call    *)
(* back into the runner.  Three parties run concurrently: the executor,    *)
(* the pods and the intake's request handlers.  MarkRunning lets a scan be *)
(* executed once (ScanLifecycle), so one Execute is all there is to it.    *)
(*                                                                         *)
(* The cluster is modelled by what the code relies on: a pod starts only   *)
(* with its Job and its volume, a Job ends as its pod did and is not       *)
(* retried (BackoffLimit 0), and deleting a Job asks its pod to stop.      *)
(***************************************************************************)
EXTENDS Naturals, Sequences, FiniteSets

CONSTANTS
    Selected,      \* the selected scanners, in dispatch order, each once: names
                   \* are deduplicated and a registry has one adapter per name
    Kinds,         \* the kinds of target the scan may have
    NeedsNetwork,  \* kind -> scanners whose Capabilities name it in NetworkKinds
    TooBig,        \* scanners whose output the intake's cap may refuse
    MaxFaults      \* bound: failures of the cluster and of the network

ASSUME ConstantsAssumption ==
    /\ Len(Selected) \in Nat \ {0}
    /\ \A i, j \in 1..Len(Selected) : Selected[i] = Selected[j] => i = j
    /\ \A i \in 1..Len(Selected) : Selected[i] # "checkout"
    /\ Kinds \subseteq {"repository", "image", "endpoint"}
    /\ MaxFaults \in Nat

VARIABLES
    kind,      \* the target's kind
    exec,      \* Execute: where it is, in which phase, what it returned
    session,   \* the intake holds a session (and a token) for this scan
    pvc,       \* the workspace volume claim exists
    policy,    \* per phase: no NetworkPolicy, or one with or without egress
    job,       \* per phase: the Job as the API server shows it
    pod,       \* per phase: the process in the Job's pod
    post,      \* the report of each scanner, and of the checkout
    heard,     \* reports the runner's callbacks have taken in
    late,      \* those taken in after Execute returned
    raced,     \* two callbacks have run at once
    deadline,  \* jobCtx has ended
    faults     \* what failed so far, outside the scan itself

cluster == <<pvc, policy, job>>
intake == <<session, post, heard, late, raced>>
vars == <<kind, exec, cluster, pod, intake, deadline, faults>>

Phases == {"fetch", "scan"}
Scanners == {Selected[i] : i \in 1..Len(Selected)}
Reports == Scanners \union {"checkout"}
Outcomes == {"none", "ok", "workspace_unavailable", "fetch_failed", "all_degraded"}

ExecPCs == {"idle", "volume", "policy", "job", "wait", "del_jobs", "del_policies",
            "del_volume", "close", "returned"}
Alive == {"start", "run", "posting"}
PodPCs == Alive \union {"none", "exit0", "exit1"}

\* A report: not made, on its way, authorized, in the callback, then answered
\* or refused; "dropped" if its connection went away before it was read.
PostStates == {"none", "sent", "authorized", "read", "answered", "refused", "dropped"}

TypeOK ==
    /\ kind \in Kinds
    /\ exec \in [pc : ExecPCs, phase : Phases, outcome : Outcomes]
    /\ session \in BOOLEAN
    /\ pvc \in BOOLEAN
    /\ policy \in [Phases -> {"none", "closed", "egress"}]
    /\ job \in [Phases -> {"none", "active", "complete", "failed"}]
    /\ pod \in [Phases -> [pc : PodPCs, next : 1..(Len(Selected) + 1), told : BOOLEAN,
                           err : BOOLEAN]]
    /\ post \in [Reports -> PostStates]
    /\ heard \in SUBSET Reports
    /\ late \in SUBSET heard
    /\ raced \in BOOLEAN
    /\ deadline \in BOOLEAN
    /\ faults \in [create : 0..MaxFaults, delete : 0..MaxFaults, pod : 0..MaxFaults,
                   net : 0..MaxFaults]

Init ==
    /\ kind \in Kinds
    /\ exec = [pc |-> "idle", phase |-> "scan", outcome |-> "none"]
    /\ session = FALSE
    /\ pvc = FALSE
    /\ policy = [p \in Phases |-> "none"]
    /\ job = [p \in Phases |-> "none"]
    /\ pod = [p \in Phases |-> [pc |-> "none", next |-> 1, told |-> FALSE, err |-> FALSE]]
    /\ post = [r \in Reports |-> "none"]
    /\ heard = {}
    /\ late = {}
    /\ raced = FALSE
    /\ deadline = FALSE
    /\ faults = [create |-> 0, delete |-> 0, pod |-> 0, net |-> 0]

MayFail == faults.create + faults.delete + faults.pod + faults.net < MaxFaults
Fault(what) == MayFail /\ faults' = [faults EXCEPT ![what] = @ + 1]

-----------------------------------------------------------------------------
(* Execute *)

\* PlanFor: a repository is fetched by a pod of its own.
FirstPhase == IF kind = "repository" THEN "fetch" ELSE "scan"

\* PlanFor and adaptersNeedNetwork: the pod that touches a repository's
\* contents gets no egress, any other what its adapters declared.
Egress(phase) ==
    \/ phase = "fetch"
    \/ kind # "repository" /\ \E n \in Scanners : n \in NeedsNetwork[kind]

\* networkPolicy: DNS and the intake always, the public internet with egress.
Rendered(phase) == IF Egress(phase) THEN "egress" ELSE "closed"

\* Every return runs the deferred cleanup and Close.
Leave(outcome) ==
    exec' = [exec EXCEPT !.pc = "del_jobs", !.outcome = outcome]

\* Intake.Open: from here on the pod's token is accepted.
OpenSession ==
    /\ exec.pc = "idle"
    /\ session' = TRUE
    /\ exec' = [exec EXCEPT !.pc = "volume", !.phase = FirstPhase]
    /\ UNCHANGED <<kind, cluster, pod, post, heard, late, raced, deadline, faults>>

\* Open fails before there is anything to clean up.
OpenFails ==
    /\ exec.pc = "idle"
    /\ Fault("create")
    /\ exec' = [exec EXCEPT !.pc = "returned", !.outcome = "workspace_unavailable"]
    /\ UNCHANGED <<kind, cluster, pod, intake, deadline>>

\* The three kinds of object Execute creates, volume first and a phase's
\* policy before its Job.
Make ==
    CASE exec.pc = "volume" -> pvc' = TRUE /\ UNCHANGED <<policy, job>>
      [] exec.pc = "policy" -> /\ policy' = [policy EXCEPT ![exec.phase] = Rendered(exec.phase)]
                               /\ UNCHANGED <<pvc, job>>
      [] exec.pc = "job" -> job' = [job EXCEPT ![exec.phase] = "active"] /\ UNCHANGED <<pvc, policy>>

\* Mutant: the Job first, its policy afterwards.
CreateJobFirst ==
    /\ exec.pc \in {"volume", "policy", "job"}
    /\ ~deadline
    /\ CASE exec.pc = "volume" -> pvc' = TRUE /\ UNCHANGED <<policy, job>>
         [] exec.pc = "job" -> /\ policy' = [policy EXCEPT ![exec.phase] = Rendered(exec.phase)]
                               /\ UNCHANGED <<pvc, job>>
         [] OTHER -> job' = [job EXCEPT ![exec.phase] = "active"] /\ UNCHANGED <<pvc, policy>>
    /\ exec' = [exec EXCEPT !.pc = CASE exec.pc = "volume" -> "policy"
                                     [] exec.pc = "policy" -> "job"
                                     [] OTHER -> "wait"]
    /\ UNCHANGED <<kind, pod, intake, deadline, faults>>

\* The object is created, or already exists.
Create ==
    /\ exec.pc \in {"volume", "policy", "job"}
    /\ ~deadline
    /\ Make
    /\ exec' = [exec EXCEPT !.pc = CASE exec.pc = "volume" -> "policy"
                                     [] exec.pc = "policy" -> "job"
                                     [] OTHER -> "wait"]
    /\ UNCHANGED <<kind, pod, intake, deadline, faults>>

\* Mutant: a failed create returns before the cleanup is deferred.
CreateFailsEarly ==
    /\ exec.pc \in {"volume", "policy", "job"}
    /\ \/ UNCHANGED cluster
       \/ Make
    /\ IF deadline THEN UNCHANGED faults ELSE Fault("create")
    /\ exec' = [exec EXCEPT !.pc = "close", !.outcome = "workspace_unavailable"]
    /\ UNCHANGED <<kind, pod, intake, deadline>>

\* The create is refused, or its context ends: it may have taken effect.
CreateFails ==
    /\ exec.pc \in {"volume", "policy", "job"}
    /\ \/ UNCHANGED cluster
       \/ Make
    /\ IF deadline THEN UNCHANGED faults ELSE Fault("create")
    /\ Leave("workspace_unavailable")
    /\ UNCHANGED <<kind, pod, intake, deadline>>

\* Mutant: the phase is over when the Job is, however it ended.
PhaseDoneAnyhow ==
    /\ exec.pc = "wait"
    /\ ~deadline
    /\ job[exec.phase] \in {"complete", "failed"}
    /\ IF exec.phase = "fetch"
       THEN exec' = [exec EXCEPT !.pc = "policy", !.phase = "scan"]
       ELSE Leave("ok")
    /\ UNCHANGED <<kind, cluster, pod, intake, deadline, faults>>

\* wait: one poll of the Job, under jobCtx.  Complete ends the phase.
PhaseDone ==
    /\ exec.pc = "wait"
    /\ ~deadline
    /\ job[exec.phase] = "complete"
    /\ IF exec.phase = "fetch"
       THEN exec' = [exec EXCEPT !.pc = "policy", !.phase = "scan"]
       ELSE Leave("ok")
    /\ UNCHANGED <<kind, cluster, pod, intake, deadline, faults>>

\* Failed, or deleted underneath the executor.
JobLost ==
    /\ exec.pc = "wait"
    /\ ~deadline
    /\ job[exec.phase] \in {"failed", "none"}
    /\ Leave(IF exec.phase = "fetch" /\ job["fetch"] = "failed"
             THEN "fetch_failed" ELSE "all_degraded")
    /\ UNCHANGED <<kind, cluster, pod, intake, deadline, faults>>

\* Mutant: the wait goes on whatever the context says.
StopWaitingNever ==
    /\ exec.pc = "wait"
    /\ Fault("net")
    /\ Leave("all_degraded")
    /\ UNCHANGED <<kind, cluster, pod, intake, deadline>>

\* Any other error of Get, or the end of the context.
StopWaiting ==
    /\ exec.pc = "wait"
    /\ IF deadline THEN UNCHANGED faults ELSE Fault("net")
    /\ Leave("all_degraded")
    /\ UNCHANGED <<kind, cluster, pod, intake, deadline>>

\* Deleting a Job (background propagation) asks its pod to stop: SIGTERM now,
\* SIGKILL after the grace period.
DeleteJobs ==
    /\ job' = [p \in Phases |-> "none"]
    /\ pod' = [p \in Phases |-> [pod[p] EXCEPT !.told = @ \/ pod[p].pc \in Alive]]

\* cleanup: three deletes by label, each with its own budget, none retried.
Cleanup ==
    /\ exec.pc \in {"del_jobs", "del_policies", "del_volume"}
    /\ exec' = [exec EXCEPT !.pc = CASE exec.pc = "del_jobs" -> "del_policies"
                                     [] exec.pc = "del_policies" -> "del_volume"
                                     [] OTHER -> "close"]
    /\ \/ /\ CASE exec.pc = "del_jobs" -> DeleteJobs /\ UNCHANGED <<pvc, policy>>
               [] exec.pc = "del_policies" -> /\ policy' = [p \in Phases |-> "none"]
                                              /\ UNCHANGED <<pvc, job, pod>>
               [] OTHER -> pvc' = FALSE /\ UNCHANGED <<policy, job, pod>>
          /\ UNCHANGED faults
       \/ Fault("delete") /\ UNCHANGED <<cluster, pod>>
    /\ UNCHANGED <<kind, intake, deadline>>

\* Intake.Close, the last of the deferred calls; the runner judges the scan.
CloseSession ==
    /\ exec.pc = "close"
    /\ session' = FALSE
    /\ exec' = [exec EXCEPT !.pc = "returned"]
    /\ UNCHANGED <<kind, cluster, pod, post, heard, late, raced, deadline, faults>>

\* jobCtx ends: its timeout, or the worker's shutdown.
Deadline ==
    /\ ~deadline
    /\ exec.pc # "returned"
    /\ deadline' = TRUE
    /\ UNCHANGED <<kind, exec, cluster, pod, intake, faults>>

-----------------------------------------------------------------------------
(* The pod: cmd/scanjob, whose Run drives the in-process executor. *)

PodAt(p, pc) == pod' = [pod EXCEPT ![p].pc = pc]

StartPod(p) ==
    /\ job[p] = "active"
    /\ pod[p].pc = "none"
    /\ pvc
    /\ PodAt(p, "start")
    /\ UNCHANGED <<kind, exec, cluster, intake, deadline, faults>>

\* jobConfig, LoadScanJob or Resolve refuse: exit 1 before any work.
BadStart(p) ==
    /\ pod[p].pc = "start"
    /\ Fault("pod")
    /\ PodAt(p, "exit1")
    /\ UNCHANGED <<kind, exec, cluster, intake, deadline>>

\* fetchIfNeeded in the fetch pod: cloned, and the revision is posted.
FetchAndPost ==
    /\ pod["fetch"].pc = "start"
    /\ ~pod["fetch"].told
    /\ PodAt("fetch", "posting")
    /\ post' = [post EXCEPT !["checkout"] = "sent"]
    /\ UNCHANGED <<kind, exec, cluster, session, heard, late, raced, deadline, faults>>

\* The clone fails, runs into a limit, or is cancelled.
FetchFails ==
    /\ pod["fetch"].pc = "start"
    /\ PodAt("fetch", "exit1")
    /\ UNCHANGED <<kind, exec, cluster, intake, deadline, faults>>

\* The scan pod finds the checkout on the volume, or needs none.
BeginScanning ==
    /\ pod["scan"].pc = "start"
    /\ PodAt("scan", "run")
    /\ UNCHANGED <<kind, exec, cluster, intake, deadline, faults>>

\* runScanner turns every outcome into a result, and Reporter.Result posts it.
ScanAndPost ==
    LET n == Selected[pod["scan"].next] IN
    /\ pod["scan"].pc = "run"
    /\ pod["scan"].next <= Len(Selected)
    /\ PodAt("scan", "posting")
    /\ post' = [post EXCEPT ![n] = "sent"]
    /\ UNCHANGED <<kind, exec, cluster, session, heard, late, raced, deadline, faults>>

Posted(p) == IF p = "fetch" THEN "checkout" ELSE Selected[pod[p].next]

\* Mutant: the cancelled loop steps over its end.
AfterPostPastEnd(p, failed) ==
    pod' = [pod EXCEPT
        ![p].err = @ \/ failed,
        ![p].next = IF p = "fetch" THEN @
                    ELSE IF pod[p].told THEN Len(Selected) + 2 ELSE @ + 1,
        ![p].pc = "run"]

\* After a report the loop goes on, unless SIGTERM cancelled the context.
AfterPost(p, failed) ==
    pod' = [pod EXCEPT
        ![p].err = @ \/ failed,
        ![p].next = IF p = "fetch" THEN @
                    ELSE IF pod[p].told THEN Len(Selected) + 1 ELSE @ + 1,
        ![p].pc = "run"]

\* Mutant: a report that could not be delivered is only logged.
AnsweredForgiven(p) ==
    /\ pod[p].pc = "posting"
    /\ post[Posted(p)] \in {"answered", "refused", "dropped"}
    /\ AfterPost(p, FALSE)
    /\ UNCHANGED <<kind, exec, cluster, intake, deadline, faults>>

\* post returns: 204 is delivered, anything else is a report error.
Answered(p) ==
    /\ pod[p].pc = "posting"
    /\ post[Posted(p)] \in {"answered", "refused", "dropped"}
    /\ AfterPost(p, post[Posted(p)] # "answered")
    /\ UNCHANGED <<kind, exec, cluster, intake, deadline, faults>>

\* Mutant: the client's timeout counts as delivered.
PostTimesOutForgiven(p) ==
    /\ pod[p].pc = "posting"
    /\ post[Posted(p)] \in {"sent", "authorized", "read"}
    /\ Fault("net")
    /\ post' = IF post[Posted(p)] = "read" THEN post
               ELSE [post EXCEPT ![Posted(p)] = "dropped"]
    /\ AfterPost(p, FALSE)
    /\ UNCHANGED <<kind, exec, cluster, session, heard, late, raced, deadline>>

\* The client's timeout or a broken connection; a report already read is
\* taken in all the same.
PostTimesOut(p) ==
    /\ pod[p].pc = "posting"
    /\ post[Posted(p)] \in {"sent", "authorized", "read"}
    /\ Fault("net")
    /\ post' = IF post[Posted(p)] = "read" THEN post
               ELSE [post EXCEPT ![Posted(p)] = "dropped"]
    /\ AfterPost(p, TRUE)
    /\ UNCHANGED <<kind, exec, cluster, session, heard, late, raced, deadline>>

\* Run returns the executor's error or the first report error.
Exit(p) ==
    /\ pod[p].pc = "run"
    /\ p = "fetch" \/ pod[p].next > Len(Selected)
    /\ PodAt(p, IF pod[p].err THEN "exit1" ELSE "exit0")
    /\ UNCHANGED <<kind, exec, cluster, intake, deadline, faults>>

\* An eviction: SIGTERM without the Job being deleted.
Evict(p) ==
    /\ pod[p].pc \in Alive
    /\ ~pod[p].told
    /\ Fault("pod")
    /\ pod' = [pod EXCEPT ![p].told = TRUE]
    /\ UNCHANGED <<kind, exec, cluster, intake, deadline>>

\* SIGKILL: the grace period is over, the limits are exceeded, the node dies.
\* A report not yet read is lost with its connection.
Kill(p) ==
    /\ pod[p].pc \in Alive
    /\ IF pod[p].told THEN UNCHANGED faults ELSE Fault("pod")
    /\ PodAt(p, "exit1")
    /\ post' = IF pod[p].pc = "posting" /\ post[Posted(p)] \in {"sent", "authorized"}
               THEN [post EXCEPT ![Posted(p)] = "dropped"] ELSE post
    /\ UNCHANGED <<kind, exec, cluster, session, heard, late, raced, deadline>>

\* The Job controller, and the TTL that removes a finished Job.
JobEnds(p) ==
    /\ job[p] = "active"
    /\ pod[p].pc \in {"exit0", "exit1"}
    /\ job' = [job EXCEPT ![p] = IF pod[p].pc = "exit0" THEN "complete" ELSE "failed"]
    /\ UNCHANGED <<kind, exec, pvc, policy, pod, intake, deadline, faults>>

Expire(p) ==
    /\ job[p] \in {"complete", "failed"}
    /\ exec.pc = "wait" /\ exec.phase = p => MayFail
    /\ job' = [job EXCEPT ![p] = "none"]
    /\ faults' = IF exec.pc = "wait" /\ exec.phase = p
                 THEN [faults EXCEPT !.net = @ + 1] ELSE faults
    /\ UNCHANGED <<kind, exec, pvc, policy, pod, intake, deadline>>

-----------------------------------------------------------------------------
(* The intake's handlers, one per report. *)

\* authorize: the session is looked up under the lock, which is then released.
Authorize(r) ==
    /\ post[r] = "sent"
    /\ post' = [post EXCEPT ![r] = IF session THEN "authorized" ELSE "refused"]
    /\ UNCHANGED <<kind, exec, cluster, pod, session, heard, late, raced, deadline, faults>>

\* The body is read and decoded, part by part and each below its cap; then
\* the session's callback is called.
ReadBody(r) ==
    /\ post[r] = "authorized"
    /\ \/ /\ post' = [post EXCEPT ![r] = "read"]
          /\ raced' = (raced \/ \E q \in Reports : post[q] = "read")
       \/ r \in TooBig /\ post' = [post EXCEPT ![r] = "refused"] /\ UNCHANGED raced
    /\ UNCHANGED <<kind, exec, cluster, pod, session, heard, late, deadline, faults>>

\* The runner's callback: ingest and record, whoever waits for it or not.
Callback(r) ==
    /\ post[r] = "read"
    /\ post' = [post EXCEPT ![r] = "answered"]
    /\ heard' = heard \union {r}
    /\ late' = IF exec.pc = "returned" THEN late \union {r} ELSE late
    /\ UNCHANGED <<kind, exec, cluster, pod, session, raced, deadline, faults>>

-----------------------------------------------------------------------------

ExecStep ==
    \/ OpenSession \/ OpenFails \/ Create \/ CreateFails \/ PhaseDone \/ JobLost
    \/ StopWaiting \/ Cleanup \/ CloseSession

Handle(r) == Authorize(r) \/ ReadBody(r) \/ Callback(r)

PodStep ==
    \/ FetchAndPost \/ FetchFails \/ BeginScanning \/ ScanAndPost
    \/ \E p \in Phases : StartPod(p) \/ BadStart(p) \/ Answered(p) \/ PostTimesOut(p)
                         \/ Exit(p) \/ Evict(p) \/ Kill(p) \/ JobEnds(p) \/ Expire(p)

Next ==
    \/ ExecStep \/ Deadline
    \/ PodStep
    \/ \E r \in Reports : Handle(r)

Spec == Init /\ [][Next]_vars

\* The worker's goroutine runs, and context.WithTimeout ends the job's context
\* even if the cluster never starts or ends a pod.
FairSpec == Spec /\ WF_vars(ExecStep) /\ WF_vars(Deadline)

-----------------------------------------------------------------------------

\* "The policy is created BEFORE the Job" (runPhase): a pod that was not asked
\* to stop runs under its phase's policy, and the pod that reads a repository
\* has no egress at all.  Only cleanup may take the policy of a running pod
\* away: when deleting its Job failed, the policy is deleted all the same.
Confined ==
    \A p \in Phases : pod[p].pc \in Alive /\ ~pod[p].told =>
        /\ policy[p] # "none" \/ faults.delete > 0
        /\ policy[p] = "egress" /\ p = "scan" => kind # "repository"

\* When Execute returns without an error, every selected scanner reported;
\* only an eviction cuts the list short, and even then one has reported.
SuccessIsHeard ==
    exec.pc = "returned" /\ exec.outcome = "ok" =>
        /\ heard \intersect Scanners # {}
        /\ faults.pod = 0 => Scanners \subseteq heard

\* What the runner judges has come to rest: after a successful Execute no
\* report is still to be taken in, and no two callbacks, which append to the
\* same slices without a lock, ever ran at once.
JudgedAtRest ==
    exec.pc = "returned" /\ exec.outcome = "ok" =>
        late = {} /\ ~raced /\ \A r \in Reports : post[r] # "read"

\* The runner judges a successful Execute on everything the pods had to report,
\* and on nothing that still moves, whatever was lost, late or refused.
JudgedInFull == TypeOK /\ SuccessIsHeard /\ JudgedAtRest

\* "We could not get the code must never read as we scanned it" (wait): a
\* scanner of a repository reports only after the checkout was reported, and
\* a scan that failed as fetch_failed has no scanner's report.
FetchedBeforeScanned ==
    /\ kind = "repository" /\ heard \intersect Scanners # {} => "checkout" \in heard
    /\ exec.outcome = "fetch_failed" => heard \intersect Scanners = {}

\* However Execute ends, nothing the scan created is left in the cluster,
\* unless a delete failed.
CleanedUp ==
    exec.pc = "returned" /\ faults.delete = 0 =>
        ~pvc /\ \A p \in Phases : policy[p] = "none" /\ job[p] = "none"

\* Execute returns, with its token revoked, whatever the cluster does.
ExecuteReturns == <>(exec.pc = "returned" /\ ~session)

=============================================================================
