------------------------------- MODULE CIClient -------------------------------
(***************************************************************************)
(* The CI client (cmd/cli, internal/cli) beside the system it talks to: it *)
(* submits a scan, polls it, reads the gate's verdict and turns it into an *)
(* exit code.  It sees the system only through three requests, any of      *)
(* which may fail, time out or come back unreadable, while the API and the *)
(* workers go on without it.                                               *)
(***************************************************************************)
EXTENDS ScanLifecycle

CONSTANT ClientScan    \* the scan this client's submission creates

ASSUME ClientAssumption == ClientScan \in Scans

VARIABLE client    \* where Run is, what it has read, and the exit code

clientVars == <<vars, client>>

ExitOK == 0
ExitGateFailed == 1
ExitCouldNotEvaluate == 2
Running == 3    \* no exit code yet

ClientTypeOK ==
    /\ client \in [pc : {"start", "submit", "wait", "gate", "render", "exited"}, verdict : Levels,
                   exit : {Running, ExitOK, ExitGateFailed, ExitCouldNotEvaluate}]
    /\ client.pc = "exited" <=> client.exit # Running

ClientInit ==
    client = [pc |-> "start", verdict |-> "none", exit |-> Running]

Exited(code) == [client EXCEPT !.pc = "exited", !.exit = code]

-----------------------------------------------------------------------------

\* Run refuses its options, or the API refuses the request: no scan is made.
NotSubmitted ==
    /\ client.pc = "start"
    /\ client' = Exited(ExitCouldNotEvaluate)
    /\ UNCHANGED vars

\* submit: the handler has created the scan's row.  Other scans come from
\* elsewhere.
Submit(s) ==
    /\ s = ClientScan => client.pc = "start"
    /\ CreateScan(s)
    /\ client' = IF s = ClientScan THEN [client EXCEPT !.pc = "submit"] ELSE client

\* The handler's answer: 202 with the scan's id, 500, or a lost connection.
Submitted ==
    /\ client.pc = "submit"
    /\ api[ClientScan] \in {"accepted", "rejected", "dead"}
    /\ client' = IF api[ClientScan] = "accepted" THEN [client EXCEPT !.pc = "wait"]
                 ELSE Exited(ExitCouldNotEvaluate)
    /\ UNCHANGED vars

\* Mutant: a failed scan has settled too, and the gate will say so.
SettledForClientAny(status) == status \in TerminalStatuses

\* The statuses after which wait returns without an error.
SettledForClient(status) == status \in {"completed", "partial"}

\* wait: a GET that finds the scan terminal; one still in flight is asked for
\* again, which changes nothing.
Poll ==
    LET status == row[ClientScan].status IN
    /\ client.pc = "wait"
    /\ status \in TerminalStatuses
    /\ client' = IF SettledForClient(status) THEN [client EXCEPT !.pc = "gate"]
                 ELSE Exited(ExitCouldNotEvaluate)
    /\ UNCHANGED vars

\* gate: a scan without a stored verdict is a 404, never a pass.
GetGate ==
    LET found == verdict[ClientScan].verdict IN
    /\ client.pc = "gate"
    /\ client' = IF found = "none" THEN Exited(ExitCouldNotEvaluate)
                 ELSE [client EXCEPT !.pc = "render", !.verdict = found]
    /\ UNCHANGED vars

\* Mutant: main ends without an exit code of its own.
GiveUpSilently ==
    /\ client.pc \in {"submit", "wait", "gate"}
    /\ client' = Exited(Running)
    /\ UNCHANGED vars

\* do: the request fails, is refused or cannot be read, the client's timeout
\* passes, or the pipeline interrupts it.  The handler is not told.
GiveUp ==
    /\ client.pc \in {"submit", "wait", "gate"}
    /\ client' = Exited(ExitCouldNotEvaluate)
    /\ UNCHANGED vars

\* Mutant: a warning stops the build.
ExitCodePassOnly(v) == IF v = "pass" THEN ExitOK ELSE ExitGateFailed

\* Result.ExitCode.
ExitCode(v) == IF v = "fail" THEN ExitGateFailed ELSE ExitOK

\* main: a verdict that could not be written out was not delivered.
Report ==
    /\ client.pc = "render"
    /\ \E code \in {ExitCode(client.verdict), ExitCouldNotEvaluate} : client' = Exited(code)
    /\ UNCHANGED vars

-----------------------------------------------------------------------------

\* A connection that ends under the handler ends for its client as well.
HangUp(s) ==
    /\ Disconnect(s)
    /\ client' = IF s = ClientScan /\ client.pc = "submit" THEN Exited(ExitCouldNotEvaluate)
                 ELSE client

ClientStep ==
    \/ NotSubmitted \/ Submitted \/ Poll \/ GetGate \/ GiveUp \/ Report
    \/ \E s \in Scans : Submit(s) \/ HangUp(s)

\* Everything else goes on as before.
SystemStep ==
    \/ \E s \in Scans : \/ EnqueueOK(s) /\ UNCHANGED client
                        \/ FailUnqueued(s) /\ UNCHANGED client
                        \/ EnqueueError(s) /\ UNCHANGED client
                        \/ APICrash(s) /\ UNCHANGED client
    \/ \E w \in Workers : \/ LoopStep(w) /\ UNCHANGED client
                          \/ Shutdown(w) /\ UNCHANGED client
                          \/ Crash(w) /\ UNCHANGED client
    \/ \E j \in Slots : \/ JobStep(j) /\ UNCHANGED client
                        \/ JobDeadline(j) /\ UNCHANGED client
                        \/ Panic(j) /\ UNCHANGED client

ClientSpec == Init /\ ClientInit /\ [][ClientStep \/ SystemStep]_clientVars

-----------------------------------------------------------------------------

\* A build is let through only by a verdict the gate stored for its own scan,
\* and that verdict and the scan's status still say so, whatever duplicate
\* deliveries, failed submissions or restarts came later: a complete scan, or
\* an incomplete one that the policy chose to warn about.
GreenIsEarned ==
    client.exit = ExitOK =>
        /\ verdict[ClientScan].verdict = client.verdict
        /\ \/ row[ClientScan].status = "completed" /\ verdict[ClientScan].complete
           \/ row[ClientScan].status = "partial" /\ client.verdict = "warn"

\* A build is stopped as "the code has a problem" only by a stored FAIL; every
\* other trouble is "could not evaluate" (ADR 036).
BlockedByTheGate ==
    client.exit = ExitGateFailed => verdict[ClientScan].verdict = "fail"

\* The exit code says what the gate said: Run ends with one of the three codes
\* (ADR 036), 0 only if it was earned and 1 only if the gate failed the scan.
ExitIsEarned == ClientTypeOK /\ GreenIsEarned /\ BlockedByTheGate
=============================================================================
