---------------------------- MODULE MCBasicHash ----------------------------
(* CFBasicHash instantiated for TLC: four small primes for the sizes, the  *)
(* primitive roots of the source for them, and the three ways of probing.  *)
EXTENDS CFBasicHash, Sequences, TLC

CONSTANTS Hash,  \* the hash codes, which stand for the keys
          v1, v2 \* the values

\* A table does not look at its values.
Symmetry == Permutations({v1, v2})

MCSizes == [t \in 0..3 |-> <<0, 2, 3, 5>>[t + 1]]
MCCapacities == [t \in 0..3 |-> <<0, 2, 3, 4>>[t + 1]]
Root == <<1, 2, 2>>
MCCountMax == [w \in 0..1 |-> w + 2]

Linear(n, h, i) == (h + i) % n
Second(n, h) == IF (h \div n) % n = 0 THEN n - 1 ELSE (h \div n) % n
Double(n, h, i) == ((h % n) + i * Second(n, h)) % n
Exponential(n, r, h, i) ==
    IF i = 0 THEN h % n ELSE ((h % n) + r^i * Second(n, h)) % n

MCProbe ==
    [s \in {"linear", "double", "exponential"} |->
      [t \in 0..3 |->
        [h \in Hash |->
          [i \in 0..MCSizes[t] - 1 |->
            CASE s = "linear" -> Linear(MCSizes[t], h, i)
              [] s = "double" -> Double(MCSizes[t], h, i)
              [] s = "exponential" ->
                    Exponential(MCSizes[t], Root[t], h, i)]]]]
=============================================================================
