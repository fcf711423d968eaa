----------------------------- MODULE MCRegistry -----------------------------
(* CFRunLoopRegistry instantiated for TLC. *)
EXTENDS CFRunLoopRegistry, TLC

CONSTANTS t0, t1, t2

\* Run loops are interchangeable, and so are the threads other than main.
Symmetry == Permutations(Loop) \cup Permutations({t1, t2})
=============================================================================
