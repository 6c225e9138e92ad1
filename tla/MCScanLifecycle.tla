-------------------------- MODULE MCScanLifecycle --------------------------
(* Small instances of ScanLifecycle for TLC. *)
EXTENDS ScanLifecycle

CONSTANTS s1, s2, a1, b1, sast, syft, ghost

\* One adapter that normalizes and one that only inventories, both run on a
\* checkout; only the first can look at an image.
MCSupports == [filesystem |-> {sast, syft}, image |-> {sast}, endpoint |-> {}]

\* One slot per worker, or both slots with the only worker.
MCWorkerOf == [j \in Slots |-> IF j = a1 \/ "B" \notin Workers THEN "A" ELSE "B"]

\* s1 asks for every scanner of a repository; s2 is an image and names an
\* adapter nobody registered.
MCKindOf == [s \in Scans |-> IF s = s1 THEN "repository" ELSE "image"]
MCRequestOf == [s \in Scans |-> IF s = s2 THEN {ghost} ELSE {}]
=============================================================================
