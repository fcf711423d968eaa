------------------------------- MODULE MCUUID -------------------------------
(* CFUUID instantiated for TLC. *)
EXTENDS CFUUID, TLC

CONSTANTS t1, t2, o1, o2, o3, b1

Symmetry == Permutations(Thread)
=============================================================================
