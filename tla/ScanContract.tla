---------------------------- MODULE ScanContract ----------------------------
(***************************************************************************)
(* What package scans promises about a scan's status: the state machine    *)
(* allowedTransitions, one scan at a time, and nothing else.               *)
(***************************************************************************)
CONSTANT Scans
VARIABLE status

Terminal == {"partial", "completed", "failed", "cancelled"}

\* allowedTransitions; "none" is the scan before its row exists.
AllowedTransitions == [
    none      |-> {"queued"},
    queued    |-> {"running", "cancelled", "failed"},
    running   |-> Terminal,
    partial   |-> {},
    completed |-> {},
    failed    |-> {},
    cancelled |-> {}]

Init == status = [s \in Scans |-> "none"]

\* Scan.Transition.
Transition(s) ==
    \E next \in AllowedTransitions[status[s]] :
        status' = [status EXCEPT ![s] = next]

Next == \E s \in Scans : Transition(s)

Spec == Init /\ [][Next]_status
=============================================================================
