--------------------------- MODULE CIClientProofs ---------------------------
(***************************************************************************)
(* Theorems about the CI client, whatever the system behind it does: any   *)
(* number of scans, workers, duplicate deliveries and faults.              *)
(***************************************************************************)
EXTENDS CIClient, ScanLifecycleProofs

ClientNext == ClientStep \/ SystemStep

\* The client's own steps leave the system alone; the others are the system's.
LEMMA ClientStepIsSystemStep ==
  ASSUME [ClientNext]_clientVars
  PROVE  /\ [Next]_vars
         /\ \/ client' = client
            \/ UNCHANGED vars /\ (NotSubmitted \/ Submitted \/ Poll \/ GetGate \/ GiveUp \/ Report)
            \/ client.pc = "start" /\ client' = [client EXCEPT !.pc = "submit"]
            \/ client.pc = "submit" /\ client' = Exited(ExitCouldNotEvaluate)
  <1>1. CASE UNCHANGED clientVars
    BY <1>1 DEF clientVars
  <1>2. CASE NotSubmitted \/ Submitted \/ Poll \/ GetGate \/ GiveUp \/ Report
    BY <1>2 DEF NotSubmitted, Submitted, Poll, GetGate, GiveUp, Report
  <1>3. ASSUME NEW s \in Scans, Submit(s)
        PROVE  /\ Next
               /\ \/ client' = client
                  \/ client.pc = "start" /\ client' = [client EXCEPT !.pc = "submit"]
    BY <1>3 DEF Submit, Next
  <1>4. ASSUME NEW s \in Scans, HangUp(s)
        PROVE  /\ Next
               /\ \/ client' = client
                  \/ client.pc = "submit" /\ client' = Exited(ExitCouldNotEvaluate)
    BY <1>4 DEF HangUp, Next, HandlerFault
  <1>5. CASE SystemStep
    BY <1>5 DEF SystemStep, Next, HandlerStep, HandlerFault, LoopFault, JobFault
  <1>6. QED
    BY <1>1, <1>2, <1>3, <1>4, <1>5 DEF ClientNext, ClientStep

\* The CI client is an observer: beside it the API and the workers behave as
\* they do without it (cmd/cli talks to the system only through its requests).
THEOREM ClientObserves == ClientSpec => Spec
  <1>1. [ClientNext]_clientVars => [Next]_vars
    BY ClientStepIsSystemStep
  <1>2. QED
    BY <1>1, PTL DEF ClientSpec, Spec, ClientNext

-----------------------------------------------------------------------------
(* What the client has read stays true. *)

\* What the client knows once its scan has settled, and once it has the verdict.
Settling == client.pc \in {"gate", "render"} \/ client.exit \in {ExitOK, ExitGateFailed}
Judging == client.pc = "render" \/ client.exit \in {ExitOK, ExitGateFailed}

ClientInv ==
    /\ ClientTypeOK
    /\ Settling => row[ClientScan].status \in {"completed", "partial"}
    /\ Judging => /\ client.verdict = verdict[ClientScan].verdict
                  /\ client.verdict # "none"
    /\ client.exit = ExitOK => client.verdict # "fail"
    /\ client.exit = ExitGateFailed => client.verdict = "fail"

\* A verdict is stored only by the scan's owner.
LEMMA VerdictStep ==
  ASSUME TypeInv, Ownership, [Next]_vars, NEW s \in Scans, \A j \in Slots : ~Owns(j, s)
  PROVE  verdict'[s] = verdict[s]
  <1>1. ASSUME NEW j \in Slots, Gate(j) PROVE verdict'[s] = verdict[s]
    <2>1. jobs[j].scan # s
      BY <1>1 DEF Gate, Owns, Marked, OwnerPCs
    <2>2. verdict \in [Scans -> [verdict : Levels, complete : BOOLEAN]]
      BY DEF TypeInv, TypeOK
    <2>3. PICK v : verdict' = [verdict EXCEPT ![jobs[j].scan] = v]
      BY <1>1 DEF Gate
    <2>4. QED
      BY <2>1, <2>2, <2>3
  <1>2. ASSUME NEW j \in Slots, JobStep(j) \/ JobFault(j), ~Gate(j) PROVE verdict' = verdict
    BY <1>2 DEF JobStep, JobFault, Validate, MarkRunning, NotMarked, FetchFailed, Fetched,
        RunScanner, BreakLoop, Ingest, PersistFindings, NotPersisted, Score, Settle, NoGate,
        Finalize, JobDeadline, Panic, dbVars
  <1>3. ASSUME NEW w \in Workers, LoopStep(w) \/ LoopFault(w) PROVE verdict' = verdict
    BY <1>3 DEF LoopStep, LoopFault, Dequeue, StartJob, DropJob, StopConsuming, Drained,
                Restart, Shutdown, Crash, dbVars
  <1>4. CASE UNCHANGED vars
    BY <1>4 DEF vars, dbVars
  <1>5. QED
    BY <1>1, <1>2, <1>3, <1>4, HandlerFrame DEF Next

\* Once the scan is completed or partial, its row and its verdict are final.
LEMMA SettledIsFinal ==
  ASSUME TypeInv, Ownership, Standing, [Next]_vars,
         row[ClientScan].status \in {"completed", "partial"}
  PROVE  row'[ClientScan] = row[ClientScan] /\ verdict'[ClientScan] = verdict[ClientScan]
  <1>1. ClientScan \in Scans
    BY ClientAssumption
  <1>2. row'[ClientScan] = row[ClientScan]
    BY <1>1, FrozenStep DEF TerminalStatuses
  <1>3. row[ClientScan].reason = "none"
    BY <1>1 DEF Ownership, StoredInOrder
  <1>4. \A j \in Slots : ~Owns(j, ClientScan)
    BY <1>1, <1>3 DEF Standing, VerdictStands, Foreign, TerminalStatuses
  <1>5. QED
    BY <1>1, <1>2, <1>4, VerdictStep

LEMMA ClientInvInit == ClientInit => ClientInv
  BY DEF ClientInit, ClientInv, ClientTypeOK, Settling, Judging, ExitOK, ExitGateFailed,
         ExitCouldNotEvaluate, Running, Levels

LEMMA ClientInvNext ==
  ASSUME TypeInv, Ownership, Standing, ClientInv, [ClientNext]_clientVars
  PROVE  ClientInv'
  <1> USE DEF ExitOK, ExitGateFailed, ExitCouldNotEvaluate, Running
  <1>t. /\ client \in [pc : {"start", "submit", "wait", "gate", "render", "exited"},
                       verdict : Levels, exit : {0, 1, 2, 3}]
        /\ client.pc = "exited" <=> client.exit # 3
    BY DEF ClientInv, ClientTypeOK
  <1>0. [Next]_vars
    BY ClientStepIsSystemStep
  <1>e. ASSUME NEW code \in {0, 1, 2}, client' = Exited(code)
        PROVE  /\ client'.pc = "exited" /\ client'.exit = code /\ client'.verdict = client.verdict
               /\ ClientTypeOK'
    <2>1. client' = [client EXCEPT !.pc = "exited", !.exit = code]
      BY <1>e DEF Exited
    <2>2. /\ client'.pc = "exited" /\ client'.exit = code /\ client'.verdict = client.verdict
          /\ client' \in [pc : {"start", "submit", "wait", "gate", "render", "exited"},
                         verdict : Levels, exit : {0, 1, 2, 3}]
      BY <1>t, <1>e, <2>1
    <2>3. client'.exit # 3
      BY <1>e, <2>2
    <2>4. QED
      BY <2>2, <2>3 DEF ClientTypeOK
  <1>x. ASSUME client' = Exited(ExitCouldNotEvaluate) PROVE ClientInv'
    <2>1. client'.pc = "exited" /\ client'.exit = 2 /\ ClientTypeOK'
      BY <1>e, <1>x
    <2>2. QED
      BY <2>1 DEF ClientInv, Settling, Judging
  <1>p. ASSUME NEW pc \in {"submit", "wait", "gate"}, client' = [client EXCEPT !.pc = pc],
               client.pc # "exited", pc = "gate" => row'[ClientScan].status \in {"completed", "partial"}
        PROVE  ClientInv'
    <2>1. /\ client'.pc = pc /\ client'.exit = 3 /\ client'.verdict = client.verdict
          /\ ClientTypeOK'
      BY <1>t, <1>p DEF ClientTypeOK
    <2>2. QED
      BY <1>p, <2>1 DEF ClientInv, Settling, Judging
  <1>1. CASE client' = client
    <2>1. Settling => row'[ClientScan] = row[ClientScan] /\ verdict'[ClientScan] = verdict[ClientScan]
      BY <1>0, SettledIsFinal DEF ClientInv
    <2>2. QED
      BY <1>1, <2>1 DEF ClientInv, ClientTypeOK, Settling, Judging
  <1>2. CASE client.pc = "start" /\ client' = [client EXCEPT !.pc = "submit"]
    BY <1>2, <1>p
  <1>3. CASE client' = Exited(ExitCouldNotEvaluate)
    BY <1>3, <1>x
  <1>4. CASE UNCHANGED vars /\ (NotSubmitted \/ Submitted \/ Poll \/ GetGate \/ GiveUp \/ Report)
    <2>0. row' = row /\ verdict' = verdict
      BY <1>4 DEF vars, dbVars
    <2>1. CASE NotSubmitted \/ GiveUp
      BY <2>1, <1>x DEF NotSubmitted, GiveUp
    <2>2. CASE Submitted
      BY <2>2, <1>x, <1>p DEF Submitted
    <2>3. CASE Poll
      BY <2>0, <2>3, <1>x, <1>p DEF Poll, SettledForClient
    <2>4. CASE GetGate
      <3> DEFINE found == verdict[ClientScan].verdict
      <3>1. CASE found = "none"
        BY <2>4, <3>1, <1>x DEF GetGate
      <3>2. CASE found # "none"
        <4>1. client' = [client EXCEPT !.pc = "render", !.verdict = found] /\ client.pc = "gate"
          BY <2>4, <3>2 DEF GetGate
        <4>2. found \in Levels
          BY ClientAssumption DEF TypeInv, TypeOK
        <4>3. /\ client'.pc = "render" /\ client'.verdict = found /\ client'.exit = 3
              /\ ClientTypeOK'
          BY <1>t, <4>1, <4>2 DEF ClientTypeOK
        <4>4. row[ClientScan].status \in {"completed", "partial"}
          BY <4>1 DEF ClientInv, Settling
        <4>5. QED
          BY <2>0, <3>2, <4>3, <4>4 DEF ClientInv, Settling, Judging
      <3>3. QED
        BY <3>1, <3>2
    <2>5. CASE Report
      <3>1. client' = Exited(ExitCode(client.verdict)) \/ client' = Exited(ExitCouldNotEvaluate)
        BY <2>5 DEF Report
      <3>2. CASE client' = Exited(ExitCode(client.verdict))
        <4>1. /\ client'.pc = "exited" /\ client'.exit = ExitCode(client.verdict)
              /\ client'.verdict = client.verdict /\ ClientTypeOK'
          BY <1>e, <3>2 DEF ExitCode
        <4>2. /\ row[ClientScan].status \in {"completed", "partial"}
              /\ client.verdict = verdict[ClientScan].verdict /\ client.verdict # "none"
          BY <2>5 DEF Report, ClientInv, Settling, Judging
        <4>3. QED
          BY <2>0, <4>1, <4>2 DEF ClientInv, Settling, Judging, ExitCode
      <3>3. QED
        BY <1>x, <3>1, <3>2
    <2>6. QED
      BY <1>4, <2>1, <2>2, <2>3, <2>4, <2>5
  <1>5. QED
    BY <1>1, <1>2, <1>3, <1>4, ClientStepIsSystemStep

\* The exit code of the CI client says what the gate said: 0 only for a stored
\* verdict that still stands beside a completed scan, or a warning about a
\* partial one, 1 only for a stored FAIL, and 2 for all other trouble (ADR 036,
\* Result.ExitCode), whatever else happens to the scan meanwhile and afterwards.
THEOREM ExitIsEarnedHolds == ClientSpec => []ExitIsEarned
  <1>1. ClientSpec => [](TypeInv /\ Ownership /\ Standing)
    BY ClientObserves, StandingHolds, PTL
  <1>2. Init /\ ClientInit => ClientInv
    BY ClientInvInit
  <1>3. TypeInv /\ Ownership /\ Standing /\ ClientInv /\ [ClientNext]_clientVars => ClientInv'
    BY ClientInvNext
  <1>4. TypeInv /\ Ownership /\ Standing /\ ClientInv => ExitIsEarned
    <2> SUFFICES ASSUME TypeInv, Ownership, Standing, ClientInv PROVE ExitIsEarned
      OBVIOUS
    <2>0. ClientScan \in Scans
      BY ClientAssumption
    <2>1. GreenIsEarned
      <3>1. SUFFICES ASSUME client.exit = ExitOK
                     PROVE  /\ verdict[ClientScan].verdict = client.verdict
                            /\ \/ row[ClientScan].status = "completed" /\ verdict[ClientScan].complete
                               \/ row[ClientScan].status = "partial" /\ client.verdict = "warn"
        BY DEF GreenIsEarned
      <3>2. /\ row[ClientScan].status \in {"completed", "partial"}
            /\ client.verdict = verdict[ClientScan].verdict
            /\ client.verdict \in {"pass", "warn"}
        BY <3>1 DEF ClientInv, ClientTypeOK, Settling, Judging, Levels
      <3>3. row[ClientScan].status = "completed" => verdict[ClientScan].complete
        BY <2>0, <3>2 DEF Standing, VerdictStands
      <3>4. CASE row[ClientScan].status = "partial"
        <4>1. row[ClientScan].reason \notin Foreign
          BY <2>0, <3>4 DEF Ownership, StoredInOrder, Foreign
        <4>2. client.verdict # "pass"
          BY <2>0, <3>2, <3>4, <4>1 DEF Standing, VerdictStands, TerminalStatuses
        <4>3. QED
          BY <3>2, <3>4, <4>2
      <3>5. QED
        BY <3>2, <3>3, <3>4
    <2>2. BlockedByTheGate
      BY DEF ClientInv, Judging, BlockedByTheGate
    <2>3. QED
      BY <2>1, <2>2 DEF ExitIsEarned, ClientInv
  <1>5. QED
    BY <1>1, <1>2, <1>3, <1>4, PTL DEF ClientSpec, ClientNext

=============================================================================
