------------------------- MODULE MCFindingLifecycle -------------------------
(* Small instances of FindingLifecycle for TLC. *)
EXTENDS FindingLifecycle, TLC

CONSTANTS x1, x2, x3

\* No scan is of a website.
MCNoPath == [s \in Scans |-> "none"]

\* Without paths every scan is like every other; with them, the first two are.
MCSymmetry == Permutations(Scans)
MCPairSymmetry == Permutations({x1, x2})

\* Two scans of one page of a website and one of another.
MCPath == [s \in Scans |-> IF s = x3 THEN "account" ELSE "login"]
=============================================================================
