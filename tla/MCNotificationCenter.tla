------------------------ MODULE MCNotificationCenter ------------------------
(***************************************************************************)
(* Threads, and the observers' identities, can be exchanged for one        *)
(* another: the model treats all of them alike.                            *)
(***************************************************************************)
EXTENDS CFNotificationCenter, TLC

Alike == Permutations(Thread) \cup Permutations(Observer)
=============================================================================
