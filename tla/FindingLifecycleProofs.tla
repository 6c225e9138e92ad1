----------------------- MODULE FindingLifecycleProofs -----------------------
(***************************************************************************)
(* Theorems about FindingLifecycle, for every set of findings and scanners,*)
(* every finite set of scans and every number of recordings open at once   *)
(* and of status changes people make.                                      *)
(***************************************************************************)
EXTENDS FindingLifecycle, FiniteSetTheorems, TLAPS

-----------------------------------------------------------------------------
(* Type correctness. *)

LEMMA IdleTxType == IdleTx \in Txs
  BY DEF IdleTx, Txs, Runs, Rows, Changes, NoChange, Statuses, Reasons, OpenPCs, EndedPCs

\* An ended recording keeps only its place in the order and what it had seen end.
EndedTx(t, how) ==
    [IdleTx EXCEPT !.pc = how, !.begun = t.begun, !.before = t.before]

LEMMA EndedTxType ==
  ASSUME NEW t \in Txs, NEW how \in EndedPCs PROVE EndedTx(t, how) \in Txs
  BY IdleTxType DEF EndedTx, Txs

LEMMA WriteType ==
  ASSUME NEW t \in Txs, NEW f \in Findings, NEW row \in Rows, NEW change \in Changes
  PROVE  Write(t, f, row, change) \in Txs
  <1>1. Write(t, f, row, change) =
          [t EXCEPT !.todo = @ \ {f}, !.rows = [@ EXCEPT ![f] = row],
                    !.log = [@ EXCEPT ![f] = change]]
    BY DEF Write
  <1>2. /\ t.todo \ {f} \in SUBSET Findings
        /\ [t.rows EXCEPT ![f] = row] \in [Findings -> Rows]
        /\ [t.log EXCEPT ![f] = change] \in [Findings -> Changes]
    BY DEF Txs
  <1>3. QED
    BY <1>1, <1>2, Zenon DEF Txs

LEMMA UpsertTypes ==
  ASSUME NEW row \in Rows, NEW n \in Scanners, NEW snap \in Statuses
  PROVE  UpsertRow(row, n) \in Rows /\ UpsertChange(snap) \in Changes
  BY DEF UpsertRow, UpsertChange, NoChange, Rows, Changes, Statuses, Open, Judged, Reasons

LEMMA BegunFinite ==
  ASSUME NEW S \in SUBSET Scans
  PROVE  IsFiniteSet(S) /\ Cardinality(S) \in Nat
  BY ConstantsAssumption, FS_Subset, FS_CardinalityType

LEMMA TypeInit == Init => TypeOK
  BY IdleTxType, ConstantsAssumption DEF Init, TypeOK, Rows, Statuses

LEMMA TypeRecord ==
  ASSUME TypeOK, NEW s \in Scans, Begin(s) \/ RecordStep(s) \/ Abort(s)
  PROVE  TypeOK'
  <1>t. /\ tx \in [Scans -> Txs] /\ fnd \in [Findings -> Rows]
        /\ lock \in [Findings -> Scans \union {NoScan}]
        /\ tx[s] \in Txs
    BY DEF TypeOK
  <1>1. CASE Begin(s)
    <2>1. PICK runs \in [Scanners -> Runs] :
            tx' = [tx EXCEPT
              ![s].pc = "upsert", ![s].runs = runs,
              ![s].before = {t \in Scans : tx[t].pc \in EndedPCs},
              ![s].begun = Cardinality({t \in Scans : tx[t].pc # "idle"}) + 1,
              ![s].todo = {f \in Findings : \E n \in Scanners : f \in Reported(runs[n])}]
      BY <1>1 DEF Begin
    <2>2. Cardinality({t \in Scans : tx[t].pc # "idle"}) + 1 \in Nat
      <3>1. {t \in Scans : tx[t].pc # "idle"} \in SUBSET Scans
        OBVIOUS
      <3>2. Cardinality({t \in Scans : tx[t].pc # "idle"}) \in Nat
        BY ONLY <3>1, BegunFinite
      <3>3. QED
        BY <3>2
    <2>3. tx' \in [Scans -> Txs]
      BY <1>t, <2>1, <2>2 DEF Txs, OpenPCs
    <2>4. QED
      BY <1>1, <2>3 DEF Begin, TypeOK
  <1>2. ASSUME NEW f \in Findings, ReadPrevious(s, f) PROVE TypeOK'
    <2>1. fnd[f].status \in Statuses
      BY <1>t DEF Rows
    <2>2. tx' \in [Scans -> Txs]
      BY <1>t, <1>2, <2>1 DEF ReadPrevious, Txs
    <2>3. QED
      BY <1>2, <2>2 DEF ReadPrevious, TypeOK
  <1>3. ASSUME NEW f \in Findings, ResolveRow(s, f) PROVE TypeOK'
    <2>1. [fnd[f] EXCEPT !.status = "resolved"] \in Rows
      BY <1>t DEF Rows, Statuses
    <2>2. ResolveChange \in Changes
      BY DEF ResolveChange, Changes, Statuses, Reasons
    <2>3. tx' \in [Scans -> Txs]
      <3>1. Write(tx[s], f, [fnd[f] EXCEPT !.status = "resolved"], ResolveChange) \in Txs
        BY <1>t, <2>1, <2>2, WriteType, Zenon
      <3>2. [tx[s] EXCEPT !.todo = @ \ {f}] \in Txs
        BY <1>t DEF Txs
      <3>3. QED
        BY <1>t, <1>3, <3>1, <3>2 DEF ResolveRow
    <2>4. lock' \in [Findings -> Scans \union {NoScan}]
      BY <1>t, <1>3 DEF ResolveRow
    <2>5. QED
      BY <1>3, <2>3, <2>4 DEF ResolveRow, TypeOK
  <1>4. CASE Upsert(s)
    <2>1. tx[s].cur \in Findings /\ tx[s].snap \in Statuses
      BY <1>t, <1>4 DEF Upsert, Txs
    <2>2. PICK n \in Scanners :
            tx' = [tx EXCEPT ![s] =
              [Write(@, tx[s].cur, UpsertRow(fnd[tx[s].cur], n), UpsertChange(@.snap))
                 EXCEPT !.cur = NoFinding, !.snap = "none"]]
      BY <1>4 DEF Upsert, Reporters
    <2>3. UpsertRow(fnd[tx[s].cur], n) \in Rows /\ UpsertChange(tx[s].snap) \in Changes
      BY <1>t, <2>1, UpsertTypes
    <2>4. tx' \in [Scans -> Txs]
      <3> DEFINE w == Write(tx[s], tx[s].cur, UpsertRow(fnd[tx[s].cur], n),
                            UpsertChange(tx[s].snap))
      <3>1. w \in Txs
        BY <1>t, <2>1, <2>3, WriteType, Zenon
      <3>2. tx' = [tx EXCEPT ![s] = [w EXCEPT !.cur = NoFinding, !.snap = "none"]]
        BY <2>2
      <3> HIDE DEF w
      <3>3. [w EXCEPT !.cur = NoFinding, !.snap = "none"] \in Txs
        BY <3>1 DEF Txs, Statuses
      <3>4. QED
        BY <1>t, <3>2, <3>3
    <2>5. lock' \in [Findings -> Scans \union {NoScan}]
      BY <1>t, <1>4 DEF Upsert
    <2>6. QED
      BY <1>4, <2>4, <2>5 DEF Upsert, TypeOK
  <1>5. CASE ReadLookedAt(s)
    <2>1. tx' \in [Scans -> Txs]
      BY <1>t, <1>5 DEF ReadLookedAt, Txs, OpenPCs
    <2>2. QED
      BY <1>5, <2>1 DEF ReadLookedAt, TypeOK
  <1>6. CASE StartResolve(s)
    <2>1. tx' \in [Scans -> Txs]
      BY <1>t, <1>6 DEF StartResolve, Txs, OpenPCs
    <2>2. QED
      BY <1>6, <2>1 DEF StartResolve, TypeOK
  <1>7. CASE Commit(s)
    <2>1. tx' \in [Scans -> Txs]
      <3>1. tx' = [tx EXCEPT ![s] = EndedTx(tx[s], "done")]
        BY <1>7 DEF Commit, EndedTx
      <3>2. QED
        BY <1>t, <3>1, EndedTxType DEF EndedPCs
    <2>2. fnd' \in [Findings -> Rows]
      BY <1>t, <1>7 DEF Commit, Txs
    <2>3. occ' \in [Findings -> SUBSET (Scans \X Scanners)]
      BY <1>7 DEF Commit, TypeOK, Reporters
    <2>4. hist' \in [Findings -> Seq(Changes)]
      <3>1. ASSUME NEW f \in Findings PROVE hist[f] \in Seq(Changes) /\ tx[s].log[f] \in Changes
        BY <1>t DEF TypeOK, Txs
      <3>2. ASSUME NEW f \in Findings PROVE Append(hist[f], tx[s].log[f]) \in Seq(Changes)
        BY <3>1
      <3>3. QED
        BY <1>7, <3>1, <3>2 DEF Commit
    <2>5. lock' \in [Findings -> Scans \union {NoScan}]
      BY <1>t, <1>7 DEF Commit
    <2>6. QED
      BY <1>7, <2>1, <2>2, <2>3, <2>4, <2>5 DEF Commit, TypeOK
  <1>8. CASE Abort(s)
    <2>1. tx' \in [Scans -> Txs]
      <3>1. tx' = [tx EXCEPT ![s] = EndedTx(tx[s], "aborted")]
        BY <1>8 DEF Abort, EndedTx
      <3>2. QED
        BY <1>t, <3>1, EndedTxType DEF EndedPCs
    <2>2. lock' \in [Findings -> Scans \union {NoScan}]
      BY <1>t, <1>8 DEF Abort
    <2>3. QED
      BY <1>8, <2>1, <2>2 DEF Abort, TypeOK
  <1>9. QED
    BY <1>1, <1>2, <1>3, <1>4, <1>5, <1>6, <1>7, <1>8 DEF RecordStep

LEMMA TypeTransition ==
  ASSUME TypeOK, NEW f \in Findings, NEW to, Transition(f, to)
  PROVE  TypeOK'
  <1>1. to \in Statuses /\ fnd[f].status \in Statuses
    BY DEF Transition, HumanSettable, Statuses, Judged, Open, TypeOK, Rows
  <1>2. fnd' \in [Findings -> Rows]
    BY <1>1 DEF Transition, TypeOK, Rows
  <1>3. hist' \in [Findings -> Seq(Changes)]
    <2>1. [from |-> fnd[f].status, to |-> to, reason |-> "human"] \in Changes
      BY <1>1 DEF Changes, Reasons
    <2>2. hist[f] \in Seq(Changes)
      BY DEF TypeOK
    <2>3. Append(hist[f], [from |-> fnd[f].status, to |-> to, reason |-> "human"])
            \in Seq(Changes)
      BY <2>1, <2>2
    <2>4. QED
      BY <2>3 DEF Transition, TypeOK
  <1>4. humans' \in 0..MaxHuman
    BY ConstantsAssumption DEF Transition, TypeOK
  <1>5. QED
    BY <1>2, <1>3, <1>4 DEF Transition, TypeOK

LEMMA TypeNext == TypeOK /\ [Next]_vars => TypeOK'
  <1>1. TypeOK /\ UNCHANGED vars => TypeOK'
    BY DEF TypeOK, vars
  <1>2. QED
    BY <1>1, TypeRecord, TypeTransition DEF Next

\* Type correctness: findings, occurrences, history, row locks and recordings
\* keep their types whatever recordings, people and failures do.
THEOREM TypeCorrect == Spec => []TypeOK
  BY TypeInit, TypeNext, PTL DEF Spec

-----------------------------------------------------------------------------
(* The inductive invariant. *)

Begun == {t \in Scans : tx[t].pc # "idle"}

\* Every recording has a place of its own in the order of creation.
BegunInOrder ==
    /\ \A s \in Begun : tx[s].begun <= Cardinality(Begun)
    /\ \A s, t \in Begun : s # t => tx[s].begun # tx[t].begun

\* The recordings a scan found ended stay ended.
BeforeEnded == \A s \in Scans : \A t \in tx[s].before : tx[t].pc \in EndedPCs

\* Occurrences are visible only of recordings that were committed.
OccurrencesCommitted ==
    \A f \in Findings : \A o \in occ[f] : tx[o[1]].pc = "done"

\* A statement of upsertFinding is under way only in a recording's upserts, and
\* what its snapshot read is still the status unless somebody interfered.
SnapshotFresh ==
    \A s \in Scans : tx[s].cur # NoFinding =>
        /\ tx[s].pc = "upsert"
        /\ Alone => tx[s].snap = fnd[tx[s].cur].status

\* What findingsThisScanLookedAt established, against the recordings that had
\* ended when this one began.
LooksRight(s, f) ==
    Path[s] # "none" =>
        \A t \in LastReporters(s, f) : t \in tx[s].before => Path[t] = Path[s]

\* What the subqueries of resolveUnreported established, likewise.
Entitled(s, f) ==
    /\ \A o \in occ[f] : o[1] \in tx[s].before => o[2] \in Complete(s)
    /\ LooksRight(s, f)
    /\ Reporters(s, f) = {}

CandidatesEntitled ==
    \A s \in Scans : \A f \in tx[s].todo :
        /\ tx[s].pc = "looked" => LooksRight(s, f)
        /\ tx[s].pc = "resolving" => Entitled(s, f)

\* The write a locked row waits to have committed: an upsert of the row as it
\* is committed now ...
UpsertPending(s, f) ==
    /\ \E n \in Reporters(s, f) : tx[s].rows[f] = UpsertRow(fnd[f], n)
    /\ Alone => tx[s].log[f] = UpsertChange(fnd[f].status)

\* ... or its resolution.
ResolvePending(s, f) ==
    /\ tx[s].pc = "resolving"
    /\ fnd[f].status \in Open
    /\ tx[s].rows[f] = [fnd[f] EXCEPT !.status = "resolved"]
    /\ tx[s].log[f] = ResolveChange
    /\ Entitled(s, f)

LocksHeld ==
    \A f \in Findings : lock[f] # NoScan =>
        /\ tx[lock[f]].pc \in OpenPCs
        /\ UpsertPending(lock[f], f) \/ ResolvePending(lock[f], f)

Isolation ==
    /\ BegunInOrder
    /\ BeforeEnded
    /\ OccurrencesCommitted
    /\ SnapshotFresh
    /\ CandidatesEntitled
    /\ LocksHeld

-----------------------------------------------------------------------------
(* What the steps of a recording leave alone. *)

LEMMA WriteEffect ==
  ASSUME NEW t \in Txs, NEW f \in Findings, NEW row, NEW change
  PROVE  LET w == Write(t, f, row, change)
         IN  /\ w.pc = t.pc /\ w.runs = t.runs /\ w.before = t.before /\ w.begun = t.begun
             /\ w.cur = t.cur /\ w.snap = t.snap /\ w.todo = t.todo \ {f}
             /\ w.rows[f] = row /\ w.log[f] = change
             /\ \A g \in Findings \ {f} : w.rows[g] = t.rows[g] /\ w.log[g] = t.log[g]
  BY DEF Write, Txs

LEMMA EndedEffect ==
  ASSUME NEW t \in Txs, NEW how
  PROVE  /\ EndedTx(t, how).pc = how
         /\ EndedTx(t, how).begun = t.begun
         /\ EndedTx(t, how).before = t.before
         /\ EndedTx(t, how).todo = {}
         /\ EndedTx(t, how).cur = NoFinding
  BY IdleTxType DEF EndedTx, IdleTx

LEMMA BeginEffect ==
  ASSUME TypeOK, NEW s \in Scans, Begin(s)
  PROVE  /\ tx[s].pc = "idle"
         /\ tx'[s].pc = "upsert"
         /\ tx'[s].before = {t \in Scans : tx[t].pc \in EndedPCs}
         /\ tx'[s].begun = Cardinality(Begun) + 1
         /\ tx'[s].cur = tx[s].cur
  <1> DEFINE Ended == {t \in Scans : tx[t].pc \in EndedPCs}
             Todo(runs) == {f \in Findings : \E n \in Scanners : f \in Reported(runs[n])}
  <1>1. tx[s] \in Txs /\ tx \in [Scans -> Txs]
    BY DEF TypeOK
  <1>2. PICK runs \in [Scanners -> Runs] :
          tx' = [tx EXCEPT ![s].pc = "upsert", ![s].runs = runs, ![s].before = Ended,
                           ![s].begun = Cardinality(Begun) + 1, ![s].todo = Todo(runs)]
    BY DEF Begin, Begun
  <1>3. tx[s].pc = "idle"
    BY DEF Begin
  <1> HIDE DEF Ended, Todo
  <1>4. /\ tx'[s].pc = "upsert" /\ tx'[s].before = Ended
        /\ tx'[s].begun = Cardinality(Begun) + 1 /\ tx'[s].cur = tx[s].cur
    BY <1>1, <1>2 DEF Txs
  <1>5. QED
    BY <1>3, <1>4 DEF Ended

\* A recording keeps its place and what it found ended; an open one keeps its
\* results, and one that ended is left alone.
Keeps(t) ==
    /\ tx[t].pc # "idle" =>
         /\ tx'[t].pc # "idle"
         /\ tx'[t].before = tx[t].before
         /\ tx'[t].begun = tx[t].begun
    /\ tx[t].pc # "idle" /\ tx'[t].pc \in OpenPCs => tx'[t].runs = tx[t].runs
    /\ tx[t].pc \in EndedPCs => tx'[t] = tx[t]

LEMMA Frame ==
  ASSUME TypeOK, NEW s \in Scans, Begin(s) \/ RecordStep(s) \/ Abort(s), NEW t \in Scans
  PROVE  /\ t # s => tx'[t] = tx[t]
         /\ Keeps(t)
  <1>t. tx \in [Scans -> Txs] /\ tx[s] \in Txs /\ tx[t] \in Txs
    BY DEF TypeOK
  <1>r. t # s => tx'[t] = tx[t]
    <2> SUFFICES ASSUME t # s, tx'[t] # tx[t] PROVE FALSE
      OBVIOUS
    <2>1. CASE Begin(s)
      BY <1>t, <2>1 DEF Begin
    <2>2. CASE Upsert(s)
      BY <1>t, <2>2 DEF Upsert
    <2>3. ASSUME NEW f \in Findings, ReadPrevious(s, f) \/ ResolveRow(s, f) PROVE FALSE
      BY <1>t, <2>3 DEF ReadPrevious, ResolveRow
    <2>4. CASE ReadLookedAt(s) \/ StartResolve(s)
      BY <1>t, <2>4 DEF ReadLookedAt, StartResolve
    <2>5. CASE Commit(s) \/ Abort(s)
      BY <1>t, <2>5 DEF Commit, Abort
    <2>6. QED
      BY <2>1, <2>2, <2>3, <2>4, <2>5 DEF RecordStep
  <1>k. Keeps(s)
    <2>1. CASE Begin(s)
      BY <1>t, <2>1 DEF Begin, Keeps, EndedPCs
    <2>2. CASE Upsert(s)
      <3>1. tx[s].cur \in Findings
        BY <1>t, <2>2 DEF Upsert, Txs
      <3>2. PICK n \in Reporters(s, tx[s].cur) :
              tx' = [tx EXCEPT ![s] =
                [Write(@, tx[s].cur, UpsertRow(fnd[tx[s].cur], n), UpsertChange(@.snap))
                   EXCEPT !.cur = NoFinding, !.snap = "none"]]
        BY <2>2 DEF Upsert
      <3> DEFINE w == Write(tx[s], tx[s].cur, UpsertRow(fnd[tx[s].cur], n),
                            UpsertChange(tx[s].snap))
      <3>3. w.pc = tx[s].pc /\ w.runs = tx[s].runs /\ w.before = tx[s].before
              /\ w.begun = tx[s].begun
        BY <1>t, <3>1, WriteEffect
      <3>4. tx'[s] = [w EXCEPT !.cur = NoFinding, !.snap = "none"]
        BY <1>t, <3>2
      <3> HIDE DEF w
      <3>5. tx'[s].pc = w.pc /\ tx'[s].runs = w.runs /\ tx'[s].before = w.before
              /\ tx'[s].begun = w.begun
        BY <3>4
      <3>6. tx[s].pc = "upsert"
        BY <2>2 DEF Upsert
      <3>7. QED
        BY <3>3, <3>5, <3>6 DEF Keeps, EndedPCs
    <2>3. ASSUME NEW f \in Findings, ReadPrevious(s, f) PROVE Keeps(s)
      BY <1>t, <2>3 DEF ReadPrevious, Keeps, EndedPCs, Txs
    <2>4. ASSUME NEW f \in Findings, ResolveRow(s, f) PROVE Keeps(s)
      <3> DEFINE w == Write(tx[s], f, [fnd[f] EXCEPT !.status = "resolved"], ResolveChange)
      <3>1. w.pc = tx[s].pc /\ w.runs = tx[s].runs /\ w.before = tx[s].before
              /\ w.begun = tx[s].begun
        BY <1>t, WriteEffect
      <3>2. tx'[s] = w \/ tx'[s] = [tx[s] EXCEPT !.todo = @ \ {f}]
        BY <1>t, <2>4 DEF ResolveRow
      <3> HIDE DEF w
      <3>3. tx[s].pc = "resolving"
        BY <2>4 DEF ResolveRow
      <3>4. QED
        BY <1>t, <3>1, <3>2, <3>3 DEF Keeps, EndedPCs, Txs
    <2>5. CASE ReadLookedAt(s) \/ StartResolve(s)
      BY <1>t, <2>5 DEF ReadLookedAt, StartResolve, Keeps, EndedPCs, Txs
    <2>6. CASE Commit(s) \/ Abort(s)
      <3>1. tx'[s] = EndedTx(tx[s], "done") \/ tx'[s] = EndedTx(tx[s], "aborted")
        BY <1>t, <2>6 DEF Commit, Abort, EndedTx
      <3>2. tx[s].pc \in OpenPCs
        BY <2>6 DEF Commit, Abort, OpenPCs
      <3>3. QED
        BY <1>t, <3>1, <3>2, EndedEffect DEF Keeps, EndedPCs, OpenPCs
    <2>7. QED
      BY <2>1, <2>2, <2>3, <2>4, <2>5, <2>6 DEF RecordStep
  <1>2. QED
    BY <1>r, <1>k DEF Keeps

\* Once somebody has interfered, somebody has interfered for good.
LEMMA AloneBefore ==
  ASSUME TypeOK, [Next]_vars, Alone'
  PROVE  Alone
  <1>1. CASE UNCHANGED vars
    BY <1>1 DEF Alone, vars
  <1>2. ASSUME NEW s \in Scans, Begin(s) \/ RecordStep(s) \/ Abort(s) PROVE Alone
    <2>1. humans = 0
      BY <1>2 DEF Alone, Begin, RecordStep, ReadPrevious, ResolveRow, Upsert, ReadLookedAt,
         StartResolve, Commit, Abort
    <2>2. \A t \in Scans : Keeps(t)
      BY <1>2, Frame
    <2>3. ASSUME NEW t \in Scans, NEW u \in Scans, t # u, tx[t].pc # "idle", tx[u].pc # "idle"
          PROVE  t \in tx[u].before \/ u \in tx[t].before
      BY <2>2, <2>3 DEF Alone, Keeps
    <2>4. QED
      BY <2>1, <2>3 DEF Alone
  <1>3. ASSUME NEW f \in Findings, NEW to, Transition(f, to) PROVE Alone
    BY <1>3 DEF Alone, Transition, TypeOK
  <1>4. QED
    BY <1>1, <1>2, <1>3 DEF Next

-----------------------------------------------------------------------------
(* The order of recordings. *)

LEMMA OccurrencesOfStep ==
  ASSUME NEW s \in Scans, Begin(s) \/ RecordStep(s) \/ Abort(s)
  PROVE  occ' = occ \/ Commit(s)
  BY DEF Begin, RecordStep, ReadPrevious, ResolveRow, Upsert, ReadLookedAt, StartResolve, Abort

LEMMA OrderRecord ==
  ASSUME TypeOK, BegunInOrder, BeforeEnded, OccurrencesCommitted,
         NEW s \in Scans, Begin(s) \/ RecordStep(s) \/ Abort(s)
  PROVE  BegunInOrder' /\ BeforeEnded' /\ OccurrencesCommitted'
  <1>t. tx \in [Scans -> Txs] /\ tx[s] \in Txs
    BY DEF TypeOK
  <1>f. \A t \in Scans : (t # s => tx'[t] = tx[t]) /\ Keeps(t)
    BY Frame
  <1>n. ~Begin(s) => tx[s].pc \in OpenPCs
    BY DEF RecordStep, ReadPrevious, ResolveRow, Upsert, ReadLookedAt, StartResolve, Commit,
       Abort, OpenPCs
  <1>b. Begin(s) =>
          /\ tx[s].pc = "idle"
          /\ tx'[s].pc = "upsert"
          /\ tx'[s].before = {t \in Scans : tx[t].pc \in EndedPCs}
          /\ tx'[s].begun = Cardinality(Begun) + 1
    BY BeginEffect
  <1>1. BegunInOrder'
    <2>1. CASE Begin(s)
      <3>1. Begun' = Begun \union {s} /\ s \notin Begun
        BY <1>f, <1>b, <2>1 DEF Begun, Keeps
      <3>2. Begun \in SUBSET Scans
        BY DEF Begun
      <3>3. IsFiniteSet(Begun) /\ Cardinality(Begun) \in Nat
        BY <3>2, BegunFinite
      <3>4. Cardinality(Begun') = Cardinality(Begun) + 1
        BY <3>1, <3>3, FS_AddElement
      <3>5. \A t \in Begun : t # s /\ tx'[t].begun = tx[t].begun /\ tx[t].begun \in Nat
        BY <1>t, <1>f, <3>1, <3>2 DEF Txs
      <3>6. QED
        BY <1>b, <2>1, <3>1, <3>3, <3>4, <3>5 DEF BegunInOrder
    <2>2. CASE ~Begin(s)
      <3>1. Begun' = Begun
        BY <1>f, <1>n, <2>2 DEF Begun, Keeps, OpenPCs
      <3>2. \A t \in Begun : tx'[t].begun = tx[t].begun
        BY <1>f DEF Begun, Keeps
      <3>3. QED
        BY <3>1, <3>2 DEF BegunInOrder
    <2>3. QED
      BY <2>1, <2>2
  <1>2. BeforeEnded'
    <2>1. ASSUME NEW t \in Scans, tx[t].pc \in EndedPCs PROVE tx'[t].pc \in EndedPCs
      BY <1>f, <2>1 DEF Keeps
    <2>2. ASSUME NEW t \in Scans, NEW u \in tx'[t].before PROVE tx'[u].pc \in EndedPCs
      <3>1. tx'[t].before \subseteq Scans
        BY TypeRecord DEF TypeOK, Txs
      <3>2. CASE t = s /\ Begin(s)
        BY <1>b, <2>1, <2>2, <3>2
      <3>3. CASE ~(t = s /\ Begin(s))
        <4>1. tx'[t].before = tx[t].before
          BY <1>f, <1>n, <3>3 DEF Keeps, OpenPCs
        <4>2. QED
          BY <2>1, <2>2, <3>1, <4>1 DEF BeforeEnded
      <3>4. QED
        BY <3>2, <3>3
    <2>3. QED
      BY <2>2 DEF BeforeEnded
  <1>3. OccurrencesCommitted'
    <2>1. ASSUME NEW t \in Scans, tx[t].pc = "done" PROVE tx'[t].pc = "done"
      BY <1>f, <2>1 DEF Keeps, EndedPCs
    <2>2. ASSUME NEW f \in Findings, NEW o \in occ[f] PROVE tx'[o[1]].pc = "done"
      <3>1. o[1] \in Scans
        BY <2>2 DEF TypeOK
      <3>2. QED
        BY <2>1, <2>2, <3>1 DEF OccurrencesCommitted
    <2>3. CASE occ' = occ
      BY <2>2, <2>3 DEF OccurrencesCommitted
    <2>4. CASE Commit(s)
      <3>1. tx'[s].pc = "done"
        BY <1>t, <2>4, EndedEffect DEF Commit, EndedTx
      <3>2. ASSUME NEW f \in Findings, NEW o \in occ'[f] PROVE tx'[o[1]].pc = "done"
        <4>1. o \in occ[f] \/ o[1] = s
          BY <2>4, <3>2 DEF Commit
        <4>2. QED
          BY <2>2, <3>1, <4>1
      <3>3. QED
        BY <3>2 DEF OccurrencesCommitted
    <2>5. QED
      BY <2>3, <2>4, OccurrencesOfStep
  <1>4. QED
    BY <1>1, <1>2, <1>3

-----------------------------------------------------------------------------
(* What a recording established stays established. *)

\* findingsThisScanLookedAt: with an order of creation there is one last report.
LEMMA LookedAtIsRight ==
  ASSUME TypeOK, BegunInOrder, OccurrencesCommitted, NEW s \in Scans, NEW f \in Findings,
         LookedAt(s, f)
  PROVE  LooksRight(s, f)
  <1>1. ASSUME NEW t \in LastReporters(s, f), NEW u \in LastReporters(s, f) PROVE t = u
    <2>1. t \in Scans /\ u \in Scans
      BY DEF LastReporters
    <2>2. tx[t].begun <= tx[u].begun /\ tx[u].begun <= tx[t].begun
      BY DEF LastReporters
    <2>3. tx[t].begun \in Nat /\ tx[u].begun \in Nat
      BY <2>1 DEF TypeOK, Txs
    <2>4. tx[t].pc = "done" /\ tx[u].pc = "done"
      BY DEF LastReporters, OccurrencesCommitted
    <2>5. QED
      BY <2>1, <2>2, <2>3, <2>4 DEF BegunInOrder, Begun
  <1>2. QED
    BY <1>1 DEF LookedAt, LooksRight

LEMMA LooksRightStays ==
  ASSUME TypeOK, BeforeEnded, OccurrencesCommitted,
         NEW s \in Scans, Begin(s) \/ RecordStep(s) \/ Abort(s),
         NEW t \in Scans, tx[t].pc # "idle", NEW f \in Findings, LooksRight(t, f)
  PROVE  LooksRight(t, f)'
  <1>f. \A u \in Scans : Keeps(u)
    BY Frame
  <1>1. tx'[t].before = tx[t].before
    BY <1>f DEF Keeps
  <1>2. \A u \in Scans : (\E n \in Scanners : <<u, n>> \in occ[f]) => tx[u].pc = "done"
    BY DEF OccurrencesCommitted
  <1>3. \A u \in Scans : (\E n \in Scanners : <<u, n>> \in occ[f]) => tx'[u].begun = tx[u].begun
    BY <1>2, <1>f DEF Keeps, EndedPCs
  <1>4. \A o : o \in occ[f] => o \in occ'[f]
    <2>1. CASE occ' = occ
      BY <2>1
    <2>2. CASE Commit(s)
      BY <2>2 DEF Commit
    <2>3. QED
      BY <2>1, <2>2, OccurrencesOfStep
  <1>5. \A u \in tx[t].before, n \in Scanners : <<u, n>> \in occ'[f] => <<u, n>> \in occ[f]
    <2>1. CASE occ' = occ
      BY <2>1
    <2>2. CASE Commit(s)
      <3>1. s \notin tx[t].before
        BY <2>2 DEF BeforeEnded, Commit, EndedPCs
      <3>2. QED
        BY <2>2, <3>1 DEF Commit
    <2>3. QED
      BY <2>1, <2>2, OccurrencesOfStep
  <1>6. ASSUME NEW u \in LastReporters(t, f)', u \in tx'[t].before
        PROVE  u \in LastReporters(t, f)
    <2>1. u \in Scans \ {t} /\ \E n \in Scanners : <<u, n>> \in occ'[f]
      BY <1>6 DEF LastReporters
    <2>2. \E n \in Scanners : <<u, n>> \in occ[f]
      BY <1>1, <1>5, <1>6, <2>1
    <2>3. ASSUME NEW v \in Scans \ {t}, \E n \in Scanners : <<v, n>> \in occ[f]
          PROVE  tx[v].begun <= tx[u].begun
      <3>1. tx'[v].begun <= tx'[u].begun
        BY <1>4, <1>6, <2>3 DEF LastReporters
      <3>2. QED
        BY <1>3, <2>1, <2>2, <2>3, <3>1
    <2>4. QED
      BY <2>1, <2>2, <2>3 DEF LastReporters
  <1>7. QED
    BY <1>1, <1>6 DEF LooksRight

LEMMA EntitledStays ==
  ASSUME TypeOK, BeforeEnded, OccurrencesCommitted,
         NEW s \in Scans, Begin(s) \/ RecordStep(s) \/ Abort(s),
         NEW t \in Scans, tx[t].pc # "idle", tx'[t].pc \in OpenPCs,
         NEW f \in Findings, Entitled(t, f)
  PROVE  Entitled(t, f)'
  <1>1. tx'[t].before = tx[t].before /\ tx'[t].runs = tx[t].runs
    BY Frame DEF Keeps
  <1>2. LooksRight(t, f)'
    BY LooksRightStays DEF Entitled
  <1>3. Reporters(t, f)' = {} /\ Complete(t)' = Complete(t)
    BY <1>1 DEF Entitled, Reporters, Complete, Reported
  <1>4. \A o \in occ'[f] : o[1] \in tx'[t].before => o[2] \in Complete(t)'
    <2>1. CASE occ' = occ
      BY <1>1, <1>3, <2>1 DEF Entitled
    <2>2. CASE Commit(s)
      <3>1. s \notin tx[t].before
        BY <2>2 DEF BeforeEnded, Commit, EndedPCs
      <3>2. QED
        BY <1>1, <1>3, <2>2, <3>1 DEF Commit, Entitled
    <2>3. QED
      BY <2>1, <2>2, OccurrencesOfStep
  <1>5. QED
    BY <1>2, <1>3, <1>4 DEF Entitled

-----------------------------------------------------------------------------
(* Row locks and the writes behind them. *)

LEMMA UpsertEffect ==
  ASSUME TypeOK, NEW s \in Scans, Upsert(s)
  PROVE  /\ tx[s].cur \in Findings
         /\ tx'[s].pc = "upsert" /\ tx'[s].cur = NoFinding
         /\ tx'[s].log[tx[s].cur] = UpsertChange(tx[s].snap)
         /\ \E n \in Reporters(s, tx[s].cur) :
              tx'[s].rows[tx[s].cur] = UpsertRow(fnd[tx[s].cur], n)
         /\ \A g \in Findings \ {tx[s].cur} :
              tx'[s].rows[g] = tx[s].rows[g] /\ tx'[s].log[g] = tx[s].log[g]
  <1> DEFINE f == tx[s].cur
  <1>1. tx[s] \in Txs /\ tx \in [Scans -> Txs] /\ f \in Findings /\ tx[s].pc = "upsert"
    BY DEF TypeOK, Txs, Upsert
  <1>2. PICK n \in Reporters(s, f) :
          tx' = [tx EXCEPT ![s] =
            [Write(@, f, UpsertRow(fnd[f], n), UpsertChange(@.snap))
               EXCEPT !.cur = NoFinding, !.snap = "none"]]
    BY DEF Upsert
  <1> DEFINE w == Write(tx[s], f, UpsertRow(fnd[f], n), UpsertChange(tx[s].snap))
  <1>3. /\ w.pc = tx[s].pc /\ w.rows[f] = UpsertRow(fnd[f], n)
        /\ w.log[f] = UpsertChange(tx[s].snap)
        /\ \A g \in Findings \ {f} : w.rows[g] = tx[s].rows[g] /\ w.log[g] = tx[s].log[g]
    BY <1>1, WriteEffect
  <1>4. w.cur = tx[s].cur
    BY <1>1, WriteEffect
  <1>w. UpsertRow(fnd[f], n) \in Rows /\ UpsertChange(tx[s].snap) \in Changes
    BY <1>1, UpsertTypes DEF TypeOK, Txs, Reporters
  <1>x. w \in Txs
    BY <1>1, <1>w, WriteType, Zenon
  <1>5. tx'[s] = [w EXCEPT !.cur = NoFinding, !.snap = "none"]
    BY <1>1, <1>2
  <1> HIDE DEF w
  <1>6. tx'[s].pc = w.pc /\ tx'[s].cur = NoFinding /\ tx'[s].rows = w.rows /\ tx'[s].log = w.log
    BY <1>5, <1>x DEF Txs
  <1>7. QED
    BY <1>1, <1>3, <1>6

LEMMA ResolveEffect ==
  ASSUME TypeOK, NEW s \in Scans, NEW f \in Findings, ResolveRow(s, f)
  PROVE  /\ tx'[s].pc = "resolving" /\ tx'[s].cur = tx[s].cur
         /\ tx'[s].todo = tx[s].todo \ {f}
         /\ fnd[f].status \in Open =>
              /\ tx'[s].rows[f] = [fnd[f] EXCEPT !.status = "resolved"]
              /\ tx'[s].log[f] = ResolveChange
         /\ \A g \in Findings \ {f} :
              tx'[s].rows[g] = tx[s].rows[g] /\ tx'[s].log[g] = tx[s].log[g]
  <1>1. tx[s] \in Txs /\ tx \in [Scans -> Txs] /\ tx[s].pc = "resolving"
    BY DEF TypeOK, ResolveRow
  <1>2. CASE fnd[f].status \in Open
    <2> DEFINE w == Write(tx[s], f, [fnd[f] EXCEPT !.status = "resolved"], ResolveChange)
    <2>1. tx'[s] = w
      BY <1>1, <1>2 DEF ResolveRow
    <2>2. /\ w.pc = tx[s].pc /\ w.cur = tx[s].cur /\ w.todo = tx[s].todo \ {f}
          /\ w.rows[f] = [fnd[f] EXCEPT !.status = "resolved"] /\ w.log[f] = ResolveChange
          /\ \A g \in Findings \ {f} : w.rows[g] = tx[s].rows[g] /\ w.log[g] = tx[s].log[g]
      BY <1>1, WriteEffect
    <2> HIDE DEF w
    <2>3. QED
      BY <1>1, <2>1, <2>2
  <1>3. CASE fnd[f].status \notin Open
    <2>1. tx'[s] = [tx[s] EXCEPT !.todo = @ \ {f}]
      BY <1>1, <1>3 DEF ResolveRow
    <2>2. QED
      BY <1>1, <1>3, <2>1 DEF Txs
  <1>4. QED
    BY <1>2, <1>3

\* A row that stays locked keeps its committed version and the pending write.
LEMMA LockedRowKept ==
  ASSUME TypeOK, NEW s \in Scans, Begin(s) \/ RecordStep(s) \/ Abort(s),
         NEW g \in Findings, NEW t \in Scans, lock[g] = t, lock'[g] = t,
         tx[t].pc \in OpenPCs
  PROVE  /\ fnd'[g] = fnd[g]
         /\ tx'[t].pc \in OpenPCs
         /\ tx[t].pc = "resolving" => tx'[t].pc = "resolving"
         /\ tx'[t].rows[g] = tx[t].rows[g] /\ tx'[t].log[g] = tx[t].log[g]
  <1>t. tx \in [Scans -> Txs] /\ tx[s] \in Txs /\ t # NoScan
    BY ConstantsAssumption DEF TypeOK
  <1>1. CASE t # s
    <2>1. tx'[t] = tx[t]
      BY <1>1, Frame
    <2>2. fnd'[g] = fnd[g]
      BY <1>1 DEF Begin, RecordStep, ReadPrevious, ResolveRow, Upsert, ReadLookedAt,
         StartResolve, Commit, Abort, Mine, TypeOK
    <2>3. QED
      BY <2>1, <2>2
  <1>2. CASE t = s
    <2>1. CASE Begin(s) \/ Commit(s) \/ Abort(s)
      BY <1>t, <1>2, <2>1 DEF Begin, Commit, Abort, Mine, OpenPCs
    <2>2. CASE Upsert(s)
      <3>1. g # tx[s].cur /\ fnd' = fnd /\ tx[s].pc = "upsert"
        BY <1>t, <1>2, <2>2 DEF Upsert
      <3>2. QED
        BY <1>2, <2>2, <3>1, UpsertEffect DEF OpenPCs
    <2>3. ASSUME NEW f \in Findings, ReadPrevious(s, f) PROVE
            /\ fnd'[g] = fnd[g]
            /\ tx'[t].pc \in OpenPCs
            /\ tx[t].pc = "resolving" => tx'[t].pc = "resolving"
            /\ tx'[t].rows[g] = tx[t].rows[g] /\ tx'[t].log[g] = tx[t].log[g]
      BY <1>t, <1>2, <2>3 DEF ReadPrevious, Txs, OpenPCs
    <2>4. ASSUME NEW f \in Findings, ResolveRow(s, f) PROVE
            /\ fnd'[g] = fnd[g]
            /\ tx'[t].pc \in OpenPCs
            /\ tx[t].pc = "resolving" => tx'[t].pc = "resolving"
            /\ tx'[t].rows[g] = tx[t].rows[g] /\ tx'[t].log[g] = tx[t].log[g]
      <3>1. g # f /\ fnd' = fnd
        BY <1>t, <1>2, <2>4 DEF ResolveRow
      <3>2. /\ tx'[s].pc = "resolving"
            /\ \A h \in Findings \ {f} :
                 tx'[s].rows[h] = tx[s].rows[h] /\ tx'[s].log[h] = tx[s].log[h]
        BY <2>4, ResolveEffect, Zenon
      <3>3. QED
        BY <1>2, <3>1, <3>2 DEF OpenPCs
    <2>5. CASE ReadLookedAt(s) \/ StartResolve(s)
      BY <1>t, <1>2, <2>5 DEF ReadLookedAt, StartResolve, Txs, OpenPCs
    <2>6. QED
      BY <2>1, <2>2, <2>3, <2>4, <2>5 DEF RecordStep
  <1>3. QED
    BY <1>1, <1>2

-----------------------------------------------------------------------------
(* The invariant is preserved. *)

LEMMA SnapshotRecord ==
  ASSUME TypeOK, BeforeEnded, SnapshotFresh, [Next]_vars,
         NEW s \in Scans, Begin(s) \/ RecordStep(s) \/ Abort(s)
  PROVE  SnapshotFresh'
  <1>t. tx \in [Scans -> Txs] /\ tx[s] \in Txs
    BY DEF TypeOK
  <1>a. Alone' => Alone
    BY AloneBefore
  \* A recording that commits beside an open one is not alone.
  <1>c. ASSUME Commit(s), NEW t \in Scans, t # s, tx[t].pc = "upsert" PROVE ~Alone
    BY <1>c DEF Commit, Alone, BeforeEnded, EndedPCs
  <1>1. ASSUME NEW t \in Scans, t # s, tx'[t].cur # NoFinding
        PROVE  tx'[t].pc = "upsert" /\ (Alone' => tx'[t].snap = fnd'[tx'[t].cur].status)
    <2>1. tx'[t] = tx[t]
      BY <1>1, Frame
    <2>2. tx[t].pc = "upsert" /\ (Alone => tx[t].snap = fnd[tx[t].cur].status)
      BY <1>1, <2>1 DEF SnapshotFresh
    <2>3. fnd' = fnd \/ Commit(s)
      BY DEF Begin, RecordStep, ReadPrevious, ResolveRow, Upsert, ReadLookedAt, StartResolve,
         Abort
    <2>4. QED
      BY <1>a, <1>c, <1>1, <2>1, <2>2, <2>3
  <1>2. ASSUME tx'[s].cur # NoFinding
        PROVE  tx'[s].pc = "upsert" /\ (Alone' => tx'[s].snap = fnd'[tx'[s].cur].status)
    <2>1. CASE Begin(s)
      BY <1>2, <2>1, BeginEffect DEF SnapshotFresh
    <2>2. CASE Upsert(s)
      BY <1>2, <2>2, UpsertEffect
    <2>3. ASSUME NEW f \in Findings, ReadPrevious(s, f)
          PROVE  tx'[s].pc = "upsert" /\ (Alone' => tx'[s].snap = fnd'[tx'[s].cur].status)
      BY <1>t, <2>3 DEF ReadPrevious, Txs
    <2>4. ASSUME NEW f \in Findings, ResolveRow(s, f) PROVE FALSE
      <3>1. tx'[s].cur = tx[s].cur
        BY <2>4, ResolveEffect, Zenon
      <3>2. QED
        BY <1>2, <2>4, <3>1 DEF SnapshotFresh, ResolveRow
    <2>5. CASE ReadLookedAt(s) \/ StartResolve(s)
      BY <1>t, <1>2, <2>5 DEF ReadLookedAt, StartResolve, Txs, SnapshotFresh
    <2>6. CASE Commit(s) \/ Abort(s)
      <3>1. tx'[s] = EndedTx(tx[s], "done") \/ tx'[s] = EndedTx(tx[s], "aborted")
        BY <1>t, <2>6 DEF Commit, Abort, EndedTx
      <3>2. QED
        BY <1>t, <1>2, <3>1, EndedEffect
    <2>7. QED
      BY <2>1, <2>2, <2>3, <2>4, <2>5, <2>6 DEF RecordStep
  <1>3. QED
    BY <1>1, <1>2 DEF SnapshotFresh

LEMMA CandidatesRecord ==
  ASSUME TypeOK, BegunInOrder, BeforeEnded, OccurrencesCommitted, CandidatesEntitled,
         NEW s \in Scans, Begin(s) \/ RecordStep(s) \/ Abort(s)
  PROVE  CandidatesEntitled'
  <1>t. tx \in [Scans -> Txs] /\ tx[s] \in Txs
    BY DEF TypeOK
  <1>0. ASSUME NEW t \in Scans, tx[t].pc # "idle", NEW f \in Findings
        PROVE  /\ LooksRight(t, f) => LooksRight(t, f)'
               /\ tx'[t].pc \in OpenPCs /\ Entitled(t, f) => Entitled(t, f)'
    BY <1>0, LooksRightStays, EntitledStays
  <1>1. ASSUME NEW t \in Scans, tx'[t].pc \in OpenPCs, tx[t].pc = tx'[t].pc,
               NEW f \in Findings, f \in tx[t].todo
        PROVE  /\ tx'[t].pc = "looked" => LooksRight(t, f)'
               /\ tx'[t].pc = "resolving" => Entitled(t, f)'
    BY <1>0, <1>1 DEF CandidatesEntitled, OpenPCs
  <1>2. ASSUME NEW t \in Scans, NEW f \in tx'[t].todo,
               tx'[t].pc \in {"looked", "resolving"}
        PROVE  /\ tx'[t].pc = "looked" => LooksRight(t, f)'
               /\ tx'[t].pc = "resolving" => Entitled(t, f)'
    <2>0. f \in Findings /\ tx'[t].pc \in OpenPCs
      BY <1>2, TypeRecord DEF TypeOK, Txs, OpenPCs
    <2>1. CASE t # s
      BY <1>1, <1>2, <2>0, <2>1, Frame
    <2>2. CASE t = s
      <3>1. CASE Begin(s) \/ Upsert(s)
        BY <1>2, <2>2, <3>1, BeginEffect, UpsertEffect
      <3>2. ASSUME NEW g \in Findings, ReadPrevious(s, g) PROVE FALSE
        BY <1>t, <1>2, <2>2, <3>2 DEF ReadPrevious, Txs
      <3>3. ASSUME NEW g \in Findings, ResolveRow(s, g)
            PROVE  tx[s].pc = "resolving" /\ tx'[s].pc = "resolving" /\ f \in tx[s].todo
        <4>1. tx'[s].pc = "resolving" /\ tx'[s].todo = tx[s].todo \ {g}
          BY <3>3, ResolveEffect, Zenon
        <4>2. QED
          BY <1>2, <2>2, <3>3, <4>1 DEF ResolveRow
      <3>4. CASE ReadLookedAt(s)
        <4>1. tx'[s].pc = "looked" /\ tx'[s].todo = {h \in Findings : LookedAt(s, h)}
          BY <1>t, <3>4 DEF ReadLookedAt, Txs
        <4>2. LooksRight(s, f)
          BY <1>2, <2>2, <4>1, LookedAtIsRight
        <4>3. tx[s].pc = "upsert"
          BY <3>4 DEF ReadLookedAt
        <4>4. QED
          BY <1>0, <2>0, <2>2, <4>1, <4>2, <4>3
      <3>5. CASE StartResolve(s)
        <4>1. /\ tx[s].pc = "looked" /\ tx'[s].pc = "resolving"
              /\ tx'[s].todo = {h \in tx[s].todo : Unreported(s, h)}
          BY <1>t, <3>5 DEF StartResolve, Txs
        <4>2. f \in tx[s].todo /\ Unreported(s, f)
          BY <1>2, <2>2, <4>1
        <4>3. LooksRight(s, f)
          BY <4>1, <4>2 DEF CandidatesEntitled
        <4>4. Reporters(s, f) = {}
          BY <2>0, <4>2 DEF Unreported, ReportedBy
        <4>5. Entitled(s, f)
          BY <4>2, <4>3, <4>4 DEF Unreported, Entitled
        <4>6. QED
          BY <1>0, <2>0, <2>2, <4>1, <4>5
      <3>6. CASE Commit(s) \/ Abort(s)
        <4>1. tx'[s] = EndedTx(tx[s], "done") \/ tx'[s] = EndedTx(tx[s], "aborted")
          BY <1>t, <3>6 DEF Commit, Abort, EndedTx
        <4>2. QED
          BY <1>t, <1>2, <2>2, <4>1, EndedEffect
      <3>7. QED
        BY <1>1, <2>0, <2>2, <3>1, <3>2, <3>3, <3>4, <3>5, <3>6 DEF RecordStep
    <2>3. QED
      BY <2>1, <2>2
  <1>3. QED
    BY <1>2 DEF CandidatesEntitled

\* LocksHeld', one holder at a time.
LEMMA LocksHeldBy ==
  ASSUME \A g \in Findings : lock'[g] \in Scans \union {NoScan},
         \A g \in Findings, t \in Scans : lock'[g] = t =>
             tx'[t].pc \in OpenPCs /\ (UpsertPending(t, g)' \/ ResolvePending(t, g)')
  PROVE  LocksHeld'
  BY DEF LocksHeld, UpsertPending, ResolvePending, Reporters, Entitled, LooksRight,
     LastReporters, Complete

LEMMA LocksRecord ==
  ASSUME TypeOK, Isolation, [Next]_vars,
         NEW s \in Scans, Begin(s) \/ RecordStep(s) \/ Abort(s)
  PROVE  LocksHeld'
  <1>t. tx \in [Scans -> Txs] /\ tx[s] \in Txs /\ s # NoScan
    BY ConstantsAssumption DEF TypeOK
  <1>a. Alone' => Alone
    BY AloneBefore
  <1>i. BeforeEnded /\ OccurrencesCommitted /\ SnapshotFresh /\ CandidatesEntitled /\ LocksHeld
    BY DEF Isolation
  <1>1. ASSUME NEW g \in Findings, NEW t \in Scans, lock[g] = t, lock'[g] = t
        PROVE  /\ tx'[t].pc \in OpenPCs
               /\ UpsertPending(t, g)' \/ ResolvePending(t, g)'
    <2>1. tx[t].pc \in OpenPCs /\ (UpsertPending(t, g) \/ ResolvePending(t, g))
      BY <1>1, <1>i, ConstantsAssumption DEF LocksHeld
    <2>2. /\ fnd'[g] = fnd[g] /\ tx'[t].pc \in OpenPCs
          /\ tx[t].pc = "resolving" => tx'[t].pc = "resolving"
          /\ tx'[t].rows[g] = tx[t].rows[g] /\ tx'[t].log[g] = tx[t].log[g]
      BY <1>1, <2>1, LockedRowKept
    <2>3. tx[t].pc # "idle" /\ tx'[t].runs = tx[t].runs
      BY <2>1, <2>2, Frame DEF Keeps, OpenPCs
    <2>4. CASE UpsertPending(t, g)
      <3>1. Reporters(t, g)' = Reporters(t, g)
        BY <2>3 DEF Reporters, Reported
      <3>2. UpsertPending(t, g)'
        BY <1>a, <2>2, <2>4, <3>1 DEF UpsertPending
      <3>3. QED
        BY <2>2, <3>2
    <2>5. CASE ResolvePending(t, g)
      <3>1. Entitled(t, g)'
        BY <1>i, <2>1, <2>2, <2>3, <2>5, EntitledStays DEF ResolvePending
      <3>2. ResolvePending(t, g)'
        BY <2>2, <2>5, <3>1 DEF ResolvePending
      <3>3. QED
        BY <2>2, <3>2
    <2>6. QED
      BY <2>1, <2>4, <2>5
  <1>2. ASSUME NEW g \in Findings, lock'[g] # NoScan, lock'[g] # lock[g]
        PROVE  /\ lock'[g] = s /\ tx'[s].pc \in OpenPCs
               /\ UpsertPending(s, g)' \/ ResolvePending(s, g)'
    <2>1. Upsert(s) \/ \E f \in Findings : ResolveRow(s, f)
      BY <1>2 DEF Begin, RecordStep, ReadPrevious, ReadLookedAt, StartResolve, Commit, Abort
    <2>2. CASE Upsert(s)
      <3>1. /\ g = tx[s].cur /\ lock'[g] = s /\ fnd' = fnd /\ tx[s].pc = "upsert"
            /\ tx[s].cur # NoFinding
        BY <1>2, <2>2 DEF Upsert, TypeOK
      <3>2. /\ tx'[s].pc = "upsert"
            /\ tx'[s].log[g] = UpsertChange(tx[s].snap)
            /\ \E n \in Reporters(s, g) : tx'[s].rows[g] = UpsertRow(fnd[g], n)
        BY <2>2, <3>1, UpsertEffect
      <3>3. tx'[s].runs = tx[s].runs
        BY <3>1, <3>2, Frame DEF Keeps, OpenPCs
      <3>4. Reporters(s, g)' = Reporters(s, g)
        BY <3>3 DEF Reporters, Reported
      <3>5. Alone => tx[s].snap = fnd[g].status
        BY <1>i, <3>1 DEF SnapshotFresh
      <3>6. UpsertPending(s, g)'
        BY <1>a, <3>1, <3>2, <3>4, <3>5 DEF UpsertPending
      <3>7. QED
        BY <3>1, <3>2, <3>6 DEF OpenPCs
    <2>3. ASSUME NEW f \in Findings, ResolveRow(s, f)
          PROVE  lock'[g] = s /\ tx'[s].pc \in OpenPCs /\ ResolvePending(s, g)'
      <3>1. /\ g = f /\ lock'[g] = s /\ fnd' = fnd /\ tx[s].pc = "resolving"
            /\ fnd[g].status \in Open /\ g \in tx[s].todo
        BY <1>2, <2>3 DEF ResolveRow, TypeOK
      <3>2. /\ tx'[s].pc = "resolving"
            /\ tx'[s].rows[g] = [fnd[g] EXCEPT !.status = "resolved"]
            /\ tx'[s].log[g] = ResolveChange
        BY <2>3, <3>1, ResolveEffect, Zenon
      <3>3. Entitled(s, g)
        BY <1>i, <3>1 DEF CandidatesEntitled
      <3>4. Entitled(s, g)'
        BY <1>i, <3>1, <3>2, <3>3, EntitledStays DEF OpenPCs
      <3>5. QED
        BY <3>1, <3>2, <3>4 DEF ResolvePending, OpenPCs
    <2>4. QED
      BY <2>1, <2>2, <2>3
  <1>3. ASSUME NEW g \in Findings, NEW t \in Scans, lock'[g] = t
        PROVE  /\ tx'[t].pc \in OpenPCs
               /\ UpsertPending(t, g)' \/ ResolvePending(t, g)'
    BY <1>1, <1>2, <1>3, ConstantsAssumption
  <1>4. \A g \in Findings : lock'[g] \in Scans \union {NoScan}
    BY TypeRecord DEF TypeOK
  <1>5. QED
    BY <1>3, <1>4, LocksHeldBy

LEMMA IsolationInit == Init => Isolation
  <1> SUFFICES ASSUME Init PROVE Isolation
    OBVIOUS
  <1>1. /\ \A s \in Scans : tx[s].pc = "idle" /\ tx[s].before = {} /\ tx[s].todo = {}
                              /\ tx[s].cur = NoFinding
        /\ \A f \in Findings : occ[f] = {} /\ lock[f] = NoScan
    BY DEF Init, IdleTx
  <1>2. Begun = {}
    BY <1>1 DEF Begun
  <1>3. QED
    BY <1>1, <1>2 DEF Isolation, BegunInOrder, BeforeEnded, OccurrencesCommitted, SnapshotFresh,
       CandidatesEntitled, LocksHeld

\* What is established of recordings and occurrences does not depend on the rest.
LEMMA OrderUnchanged ==
  ASSUME BegunInOrder, BeforeEnded, OccurrencesCommitted, CandidatesEntitled,
         tx' = tx, occ' = occ
  PROVE  /\ BegunInOrder' /\ BeforeEnded' /\ OccurrencesCommitted' /\ CandidatesEntitled'
         /\ \A t, g : Reporters(t, g)' = Reporters(t, g) /\ (Entitled(t, g) => Entitled(t, g)')
  <1>1. BegunInOrder' /\ BeforeEnded' /\ OccurrencesCommitted'
    BY DEF BegunInOrder, Begun, BeforeEnded, OccurrencesCommitted
  <1>2. ASSUME NEW t, NEW g
        PROVE  LastReporters(t, g)' = LastReporters(t, g) /\ Complete(t)' = Complete(t)
                 /\ Reporters(t, g)' = Reporters(t, g)
    BY DEF LastReporters, Complete, Reporters
  <1>3. ASSUME NEW t, NEW g PROVE LooksRight(t, g) => LooksRight(t, g)'
    BY <1>2 DEF LooksRight
  <1>4. ASSUME NEW t, NEW g PROVE Entitled(t, g) => Entitled(t, g)'
    BY <1>2, <1>3 DEF Entitled
  <1>5. QED
    BY <1>1, <1>2, <1>3, <1>4 DEF CandidatesEntitled

\* A person's change of status touches no locked row, and recordings that run
\* beside it are no longer alone.
LEMMA IsolationTransition ==
  ASSUME TypeOK, Isolation, NEW f \in Findings, NEW to, Transition(f, to)
  PROVE  Isolation'
  <1>1. tx' = tx /\ lock' = lock /\ occ' = occ /\ lock[f] = NoScan
        /\ \A g \in Findings : g # f => fnd'[g] = fnd[g]
    BY DEF Transition, TypeOK
  <1>2. ~Alone'
    BY DEF Transition, TypeOK, Alone
  <1>3. /\ BegunInOrder' /\ BeforeEnded' /\ OccurrencesCommitted' /\ CandidatesEntitled'
        /\ \A t, g : Reporters(t, g)' = Reporters(t, g) /\ (Entitled(t, g) => Entitled(t, g)')
    BY <1>1, OrderUnchanged DEF Isolation
  <1>4. SnapshotFresh'
    BY <1>1, <1>2 DEF Isolation, SnapshotFresh
  <1>5. LocksHeld'
    <2>1. ASSUME NEW g \in Findings, NEW t \in Scans, lock'[g] = t
          PROVE  tx'[t].pc \in OpenPCs /\ (UpsertPending(t, g)' \/ ResolvePending(t, g)')
      <3>1. tx[t].pc \in OpenPCs /\ (UpsertPending(t, g) \/ ResolvePending(t, g)) /\ fnd'[g] = fnd[g]
        BY <1>1, <2>1, ConstantsAssumption DEF Isolation, LocksHeld
      <3>2. UpsertPending(t, g) => UpsertPending(t, g)'
        BY <1>1, <1>2, <1>3, <3>1 DEF UpsertPending
      <3>3. ResolvePending(t, g) => ResolvePending(t, g)'
        BY <1>1, <1>3, <3>1 DEF ResolvePending
      <3>4. QED
        BY <1>1, <3>1, <3>2, <3>3
    <2>2. QED
      BY <1>1, <2>1, LocksHeldBy DEF TypeOK
  <1>6. QED
    BY <1>3, <1>4, <1>5 DEF Isolation

LEMMA IsolationNext == TypeOK /\ Isolation /\ [Next]_vars => Isolation'
  <1> SUFFICES ASSUME TypeOK, Isolation, [Next]_vars PROVE Isolation'
    OBVIOUS
  <1>1. CASE UNCHANGED vars
    <2>1. /\ tx' = tx /\ lock' = lock /\ occ' = occ /\ fnd' = fnd
          /\ Alone' = Alone
      BY <1>1 DEF vars, Alone
    <2>2. /\ BegunInOrder' /\ BeforeEnded' /\ OccurrencesCommitted' /\ CandidatesEntitled'
          /\ \A t, g : Reporters(t, g)' = Reporters(t, g) /\ (Entitled(t, g) => Entitled(t, g)')
      BY <2>1, OrderUnchanged DEF Isolation
    <2>3. SnapshotFresh'
      BY <2>1 DEF Isolation, SnapshotFresh
    <2>4. ASSUME NEW g \in Findings, NEW t \in Scans, lock'[g] = t
          PROVE  tx'[t].pc \in OpenPCs /\ (UpsertPending(t, g)' \/ ResolvePending(t, g)')
      <3>1. tx[t].pc \in OpenPCs /\ (UpsertPending(t, g) \/ ResolvePending(t, g))
        BY <2>1, <2>4, ConstantsAssumption DEF Isolation, LocksHeld
      <3>2. UpsertPending(t, g) => UpsertPending(t, g)'
        BY <2>1, <2>2 DEF UpsertPending
      <3>3. ResolvePending(t, g) => ResolvePending(t, g)'
        BY <2>1, <2>2 DEF ResolvePending
      <3>4. QED
        BY <2>1, <3>1, <3>2, <3>3
    <2>5. QED
      BY <2>1, <2>2, <2>3, <2>4, LocksHeldBy DEF Isolation, TypeOK
  <1>2. ASSUME NEW s \in Scans, Begin(s) \/ RecordStep(s) \/ Abort(s) PROVE Isolation'
    <2>1. BegunInOrder' /\ BeforeEnded' /\ OccurrencesCommitted'
      BY <1>2, OrderRecord DEF Isolation
    <2>2. SnapshotFresh'
      BY <1>2, SnapshotRecord DEF Isolation
    <2>3. CandidatesEntitled'
      BY <1>2, CandidatesRecord DEF Isolation
    <2>4. LocksHeld'
      BY <1>2, LocksRecord
    <2>5. QED
      BY <2>1, <2>2, <2>3, <2>4 DEF Isolation
  <1>3. ASSUME NEW f \in Findings, NEW to, Transition(f, to) PROVE Isolation'
    BY <1>3, IsolationTransition
  <1>4. QED
    BY <1>1, <1>2, <1>3 DEF Next

\* Recordings that overlap, commit, roll back or meet a person's change are
\* isolated: a locked row has exactly the write its holder will commit, made of
\* the version that is committed now, and what a recording established about
\* the recordings before it stays true until it ends.
THEOREM IsolationHolds == Spec => [](TypeOK /\ Isolation)
  <1>1. Init => TypeOK /\ Isolation
    BY TypeInit, IsolationInit
  <1>2. TypeOK /\ Isolation /\ [Next]_vars => (TypeOK /\ Isolation)'
    BY TypeNext, IsolationNext
  <1>3. QED
    BY <1>1, <1>2, PTL DEF Spec

-----------------------------------------------------------------------------
(* The theorems. *)

\* What a commit does to a finding: nothing, the upsert or the resolution that
\* was pending, each with its history.
LEMMA CommitEffect ==
  ASSUME TypeOK, Isolation, NEW s \in Scans, Commit(s), NEW f \in Findings
  PROVE  \/ fnd'[f] = fnd[f] /\ hist'[f] = hist[f]
         \/ /\ UpsertPending(s, f)
            /\ fnd'[f] = tx[s].rows[f]
            /\ hist'[f] = IF tx[s].log[f] # NoChange
                          THEN Append(hist[f], tx[s].log[f]) ELSE hist[f]
         \/ /\ ResolvePending(s, f)
            /\ fnd'[f] = [fnd[f] EXCEPT !.status = "resolved"]
            /\ hist'[f] = Append(hist[f], ResolveChange)
  <1>1. CASE lock[f] = s
    <2>1. UpsertPending(s, f) \/ ResolvePending(s, f)
      BY <1>1, ConstantsAssumption DEF Isolation, LocksHeld
    <2>2. /\ fnd'[f] = tx[s].rows[f]
          /\ hist'[f] = IF tx[s].log[f] # NoChange
                        THEN Append(hist[f], tx[s].log[f]) ELSE hist[f]
      BY <1>1 DEF Commit, Mine
    <2>3. ResolveChange # NoChange
      BY DEF ResolveChange, NoChange
    <2>4. QED
      BY <2>1, <2>2, <2>3 DEF ResolvePending
  <1>2. CASE lock[f] # s
    BY <1>2 DEF Commit, Mine
  <1>3. QED
    BY <1>1, <1>2

\* Only a commit and a person change a finding.
LEMMA OnlyCommitsWrite ==
  ASSUME [Next]_vars
  PROVE  \/ fnd' = fnd /\ hist' = hist /\ occ' = occ
         \/ \E s \in Scans : Commit(s)
         \/ \E f \in Findings, to \in Chosen : Transition(f, to)
  BY ZenonT(60) DEF Next, vars, Begin, RecordStep, ReadPrevious, ResolveRow, Upsert, ReadLookedAt,
     StartResolve, Abort

LEMMA LastAppend ==
  ASSUME NEW h \in Seq(Changes), NEW c \in Changes
  PROVE  Append(h, c) # <<>> /\ Last(Append(h, c)) = c
  BY DEF Last

\* An upsert never resolves a finding and never moves one a person judged.
LEMMA UpsertRowStatus ==
  ASSUME NEW row \in Rows, NEW n
  PROVE  /\ UpsertRow(row, n).status # "resolved"
         /\ row.status \in Judged => UpsertRow(row, n) = row
         /\ row.status # "none" => UpsertRow(row, n).scanner = row.scanner
         /\ row.status = "none" => UpsertRow(row, n).scanner = n
         /\ row.status \in {"none", "resolved"} =>
              /\ UpsertChange(row.status) # NoChange
              /\ UpsertChange(row.status).to = UpsertRow(row, n).status
         /\ row.status \notin {"none", "resolved"} =>
              UpsertChange(row.status) = NoChange /\ UpsertRow(row, n) = row
  BY DEF UpsertRow, UpsertChange, NoChange, Rows, Judged

LEMMA HistoryNext ==
  ASSUME TypeOK, Isolation, HistoryExplains, [Next]_vars
  PROVE  HistoryExplains'
  <1>t. TypeOK' /\ (Alone' => Alone)
    BY TypeNext, AloneBefore
  <1>r. ASSUME NEW f \in Findings
        PROVE  fnd[f] \in Rows /\ hist[f] \in Seq(Changes) /\ ResolveChange \in Changes
    BY DEF TypeOK, ResolveChange, Changes, Statuses, Reasons
  <1>1. CASE fnd' = fnd /\ hist' = hist
    BY <1>t, <1>1 DEF HistoryExplains, ResolvedIsExplained, HistoryIsAccurate
  <1>2. ASSUME NEW s \in Scans, Commit(s), NEW f \in Findings
        PROVE  /\ fnd'[f].status = "resolved" =>
                    hist'[f] # <<>> /\ Last(hist'[f]).reason = "not_reported"
               /\ fnd'[f].status # "none" => Last(hist'[f]).to = fnd'[f].status \/ ~Alone'
    <2>1. CASE fnd'[f] = fnd[f] /\ hist'[f] = hist[f]
      BY <1>t, <2>1 DEF HistoryExplains, ResolvedIsExplained, HistoryIsAccurate
    <2>2. CASE /\ UpsertPending(s, f)
               /\ fnd'[f] = tx[s].rows[f]
               /\ hist'[f] = IF tx[s].log[f] # NoChange
                             THEN Append(hist[f], tx[s].log[f]) ELSE hist[f]
      <3>1. PICK n \in Reporters(s, f) : fnd'[f] = UpsertRow(fnd[f], n)
        BY <2>2 DEF UpsertPending
      <3>2. fnd'[f].status # "resolved"
        BY <1>r, <3>1, UpsertRowStatus
      <3>3. ASSUME Alone', fnd'[f].status # "none" PROVE Last(hist'[f]).to = fnd'[f].status
        <4>1. tx[s].log[f] = UpsertChange(fnd[f].status) /\ tx[s].log[f] \in Changes
          BY <1>t, <2>2, <3>3 DEF UpsertPending, TypeOK, Txs
        <4>2. CASE fnd[f].status \in {"none", "resolved"}
          <5>1. hist'[f] = Append(hist[f], tx[s].log[f])
            BY <1>r, <2>2, <4>1, <4>2, UpsertRowStatus
          <5>2. Last(hist'[f]) = tx[s].log[f]
            BY <1>r, <4>1, <5>1, LastAppend
          <5>3. QED
            BY <1>r, <3>1, <4>1, <4>2, <5>2, UpsertRowStatus
        <4>3. CASE fnd[f].status \notin {"none", "resolved"}
          <5>1. hist'[f] = hist[f] /\ fnd'[f] = fnd[f]
            BY <1>r, <2>2, <3>1, <4>1, <4>3, UpsertRowStatus
          <5>2. QED
            BY <1>t, <3>3, <4>3, <5>1 DEF HistoryExplains, HistoryIsAccurate
        <4>4. QED
          BY <4>2, <4>3
      <3>4. QED
        BY <3>2, <3>3
    <2>3. CASE /\ ResolvePending(s, f)
               /\ fnd'[f] = [fnd[f] EXCEPT !.status = "resolved"]
               /\ hist'[f] = Append(hist[f], ResolveChange)
      <3>1. hist'[f] # <<>> /\ Last(hist'[f]) = ResolveChange
        BY <1>r, <2>3, LastAppend
      <3>2. fnd'[f].status = "resolved"
        BY <1>r, <2>3 DEF Rows
      <3>3. QED
        BY <3>1, <3>2 DEF ResolveChange
    <2>4. QED
      BY <1>2, <2>1, <2>2, <2>3, CommitEffect
  <1>3. ASSUME NEW f \in Findings, NEW to \in Chosen, Transition(f, to) PROVE HistoryExplains'
    <2>1. ~Alone'
      BY <1>3 DEF Transition, TypeOK, Alone
    <2>2. \A g \in Findings : g # f => fnd'[g] = fnd[g] /\ hist'[g] = hist[g]
      BY <1>3 DEF Transition, TypeOK
    <2>3. fnd'[f].status # "resolved"
      BY <1>3, <1>r DEF Transition, TypeOK, HumanSettable, Judged, Rows
    <2>4. QED
      BY <2>1, <2>2, <2>3 DEF HistoryExplains, ResolvedIsExplained, HistoryIsAccurate
  <1>4. QED
    BY <1>1, <1>2, <1>3, OnlyCommitsWrite
    DEF HistoryExplains, ResolvedIsExplained, HistoryIsAccurate

\* However recordings and people interleave, the newest history row of a
\* resolved finding says a scan resolved it; and as long as nothing overlapped
\* the newest row is how the finding got its status.
THEOREM HistoryExplainsHolds == Spec => []HistoryExplains
  <1>1. Init => HistoryExplains
    BY DEF Init, HistoryExplains, ResolvedIsExplained, HistoryIsAccurate
  <1>2. TypeOK /\ Isolation /\ HistoryExplains /\ [Next]_vars => HistoryExplains'
    BY HistoryNext
  <1>3. QED
    BY <1>1, <1>2, IsolationHolds, PTL DEF Spec

LEMMA SeenNext ==
  ASSUME TypeOK, Isolation, SeenSomewhere, [Next]_vars
  PROVE  SeenSomewhere'
  <1>d. ASSUME NEW t \in Scans, tx[t].pc = "done" PROVE tx'[t].pc = "done"
    <2>1. ASSUME NEW s \in Scans, Begin(s) \/ RecordStep(s) \/ Abort(s) PROVE tx'[t].pc = "done"
      BY <1>d, <2>1, Frame DEF Keeps, EndedPCs
    <2>2. QED
      BY <1>d, <2>1 DEF Next, vars, Transition
  <1>1. ASSUME NEW f \in Findings, fnd'[f].status # "none", fnd[f].status # "none",
               fnd'[f].scanner = fnd[f].scanner, \A o \in occ[f] : o \in occ'[f]
        PROVE  \E t \in Scans : <<t, fnd'[f].scanner>> \in occ'[f] /\ tx'[t].pc = "done"
    BY <1>d, <1>1 DEF SeenSomewhere
  <1>2. CASE fnd' = fnd /\ occ' = occ
    BY <1>1, <1>2 DEF SeenSomewhere
  <1>3. ASSUME NEW s \in Scans, Commit(s), NEW f \in Findings, fnd'[f].status # "none"
        PROVE  \E t \in Scans : <<t, fnd'[f].scanner>> \in occ'[f] /\ tx'[t].pc = "done"
    <2>t. fnd[f] \in Rows /\ tx[s] \in Txs /\ tx \in [Scans -> Txs]
      BY DEF TypeOK
    <2>o. occ'[f] = occ[f] \union ({s} \X Reporters(s, f))
      BY <1>3 DEF Commit
    <2>1. CASE fnd'[f] = fnd[f]
      BY <1>1, <1>3, <2>o, <2>1
    <2>2. CASE UpsertPending(s, f) /\ fnd'[f] = tx[s].rows[f]
      <3>1. PICK n \in Reporters(s, f) : fnd'[f] = UpsertRow(fnd[f], n)
        BY <2>2 DEF UpsertPending
      <3>2. CASE fnd[f].status # "none"
        <4>1. fnd'[f].scanner = fnd[f].scanner
          BY <2>t, <3>1, <3>2, UpsertRowStatus
        <4>2. QED
          BY <1>1, <1>3, <2>o, <3>2, <4>1
      <3>3. CASE fnd[f].status = "none"
        <4>1. fnd'[f].scanner = n
          BY <2>t, <3>1, <3>3, UpsertRowStatus
        <4>2. tx'[s].pc = "done"
          BY <1>3, <2>t, EndedEffect DEF Commit, EndedTx
        <4>3. <<s, n>> \in occ'[f]
          BY <2>o
        <4>4. QED
          BY <4>1, <4>2, <4>3
      <3>4. QED
        BY <3>2, <3>3
    <2>3. CASE ResolvePending(s, f) /\ fnd'[f] = [fnd[f] EXCEPT !.status = "resolved"]
      <3>1. fnd[f].status # "none" /\ fnd'[f].scanner = fnd[f].scanner
        BY <2>t, <2>3 DEF ResolvePending, Open, Rows
      <3>2. QED
        BY <1>1, <1>3, <2>o, <3>1
    <2>4. QED
      BY <1>3, <2>1, <2>2, <2>3, CommitEffect
  <1>4. ASSUME NEW f \in Findings, NEW to \in Chosen, Transition(f, to) PROVE SeenSomewhere'
    <2>1. \A g \in Findings : fnd'[g].scanner = fnd[g].scanner /\ (g # f => fnd'[g] = fnd[g])
      BY <1>4 DEF Transition, TypeOK, Rows
    <2>2. occ' = occ /\ fnd[f].status # "none"
      BY <1>4 DEF Transition
    <2>3. QED
      BY <1>1, <2>1, <2>2 DEF SeenSomewhere
  <1>5. QED
    BY <1>2, <1>3, <1>4, OnlyCommitsWrite DEF SeenSomewhere

\* No finding is "seen but nowhere": the reporter its row names has an
\* occurrence of a committed recording, whoever raced to insert the row.
THEOREM SeenSomewhereHolds == Spec => []SeenSomewhere
  <1>1. Init => SeenSomewhere
    BY DEF Init, SeenSomewhere
  <1>2. TypeOK /\ Isolation /\ SeenSomewhere /\ [Next]_vars => SeenSomewhere'
    BY SeenNext
  <1>3. QED
    BY <1>1, <1>2, IsolationHolds, PTL DEF Spec

\* A scan never overrules a human judgement, also one that lands between the
\* statement's snapshot and its write.
THEOREM JudgementRespected == Spec => ScansRespectJudgement
  <1> DEFINE Respects == \A f \in Findings :
               fnd[f].status \in Judged /\ fnd'[f].status # fnd[f].status => humans' # humans
  <1>1. ASSUME TypeOK, Isolation, [Next]_vars PROVE Respects
    <2>1. CASE fnd' = fnd
      BY <2>1
    <2>2. ASSUME NEW s \in Scans, Commit(s), NEW f \in Findings, fnd[f].status \in Judged
          PROVE  fnd'[f].status = fnd[f].status
      <3>1. fnd[f] \in Rows
        BY <1>1 DEF TypeOK
      <3>2. UpsertPending(s, f) /\ fnd'[f] = tx[s].rows[f] => fnd'[f] = fnd[f]
        BY <2>2, <3>1, UpsertRowStatus DEF UpsertPending
      <3>3. ~ResolvePending(s, f)
        BY <2>2 DEF ResolvePending, Open, Judged
      <3>4. QED
        BY <1>1, <2>2, <3>2, <3>3, CommitEffect
    <2>3. ASSUME NEW f \in Findings, NEW to \in Chosen, Transition(f, to) PROVE humans' # humans
      BY <1>1, <2>3 DEF Transition, TypeOK
    <2>4. QED
      BY <1>1, <2>1, <2>2, <2>3, OnlyCommitsWrite
  <1>2. TypeOK /\ Isolation /\ [Next]_vars => [Respects]_vars
    BY <1>1
  <1>3. QED
    BY <1>2, IsolationHolds, PTL DEF Spec, ScansRespectJudgement

\* A scan resolves only what it could know was gone: every report recorded
\* before it began was by a scanner it ran to completion, a website finding was
\* last reported from its own path, and none of its own scanners reported it.
THEOREM EntitledAsOfStartHolds == Spec => EntitledAsOfStart
  <1> DEFINE Right(s, f) ==
               /\ \A o \in occ[f] : o[1] \in tx[s].before => o[2] \in Complete(s)
               /\ Path[s] # "none" =>
                    \A t \in LastReporters(s, f) : t \in tx[s].before => Path[t] = Path[s]
               /\ \A n \in Scanners : f \in tx[s].runs[n].saw => ~tx[s].runs[n].parsed
             AllRight == \A s \in Scans, f \in Findings : Resolves(s, f) => Right(s, f)
  <1>1. ASSUME TypeOK, Isolation, [Next]_vars, NEW s \in Scans, NEW f \in Findings,
               Resolves(s, f)
        PROVE  Right(s, f)
    <2>1. Commit(s)
      <3>1. tx' # tx /\ fnd' # fnd
        BY <1>1 DEF Resolves
      <3>2. PICK t \in Scans : Commit(t)
        BY <1>1, <3>1, OnlyCommitsWrite DEF Transition
      <3>3. t = s
        BY <1>1, <3>2, Frame DEF Resolves, RecordStep
      <3>4. QED
        BY <3>2, <3>3
    <2>2. fnd[f] \in Rows
      BY <1>1 DEF TypeOK
    <2>3. ~(UpsertPending(s, f) /\ fnd'[f] = tx[s].rows[f])
      BY <1>1, <2>2, UpsertRowStatus DEF UpsertPending, Resolves
    <2>4. Entitled(s, f)
      BY <1>1, <2>1, <2>3, CommitEffect DEF Resolves, ResolvePending
    <2>5. \A n \in Scanners : f \in tx[s].runs[n].saw => ~tx[s].runs[n].parsed
      BY <2>4 DEF Entitled, Reporters, Reported
    <2>6. QED
      BY <2>4, <2>5 DEF Entitled, LooksRight
  <1>2. TypeOK /\ Isolation /\ [Next]_vars => [AllRight]_vars
    BY <1>1
  <1>3. QED
    BY <1>2, IsolationHolds, PTL DEF Spec, EntitledAsOfStart

=============================================================================
