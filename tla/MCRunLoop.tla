----------------------------- MODULE MCRunLoop -----------------------------
(* CFRunLoop instantiated for TLC. *)
EXTENDS CFRunLoop, TLC

CONSTANTS s1, m1, m2

OneMode == {m1}
TwoModes == {m1, m2}
SecondMode == {m2}
OneSource == {s1}

FlatOrder == [s \in Source |-> 0]
FirstHome == [s \in Source |-> {m1}]

ObserveAll == [m \in Mode |-> Activity]
ObserveWait ==
    [m \in Mode |-> IF m = m1 THEN {"beforeWaiting", "afterWaiting"} ELSE {}]
=============================================================================
