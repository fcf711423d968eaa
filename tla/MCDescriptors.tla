--------------------------- MODULE MCDescriptors ---------------------------
(***************************************************************************)
(* Two objects that are given the same native number one after the other,  *)
(* and close it when they are invalidated.                                 *)
(***************************************************************************)
EXTENDS CFFileDescriptor, TLC

CONSTANTS f1, f2, A

OneNative == [f \in Object |-> 3]

Alike == Permutations(Object)
=============================================================================
