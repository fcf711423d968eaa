-------------------------- MODULE MCRunLoopTimers --------------------------
(* CFRunLoopTimers instantiated for TLC. *)
EXTENDS CFRunLoopTimers

CONSTANTS a, b, c

ThreeTimers == {a, b, c}

\* a repeats every three ticks, the others fire once.
MixedInterval == [t \in Timer |-> IF t = a THEN 3 ELSE 0]

\* The one-shot timers are interchangeable.
Symmetry == Permutations({b, c})
=============================================================================
