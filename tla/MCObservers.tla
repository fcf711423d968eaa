---------------------------- MODULE MCObservers ----------------------------
(* CFRunLoopObservers instantiated for TLC. *)
EXTENDS CFRunLoopObservers, TLC

CONSTANTS once, often, m1, m2

MCObserver == {once, often}
MCOrder == [o \in Observer |-> IF o = once THEN 1 ELSE 0]
MCWatches == [o \in Observer |-> Activity]

Symmetry == Permutations(Thread)
=============================================================================
