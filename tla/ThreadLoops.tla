---------------------------- MODULE ThreadLoops ----------------------------
(***************************************************************************)
(* What the registry of run loops promises: a thread has at most one run   *)
(* loop, no two threads share one, a living thread keeps the one it has,   *)
(* and a thread that starts has none left over from an earlier thread with *)
(* the same pthread_t.                                                     *)
(***************************************************************************)
CONSTANTS Thread, Loop, None

VARIABLES loopOf,  \* loopOf[t]: the run loop of thread t, or None
          living   \* the threads that have not begun to exit

Init == loopOf = [t \in Thread |-> None] /\ living = Thread

Assign(t) ==
    /\ t \in living
    /\ loopOf[t] = None
    /\ \E l \in Loop : /\ \A u \in Thread : loopOf[u] # l
                       /\ loopOf' = [loopOf EXCEPT ![t] = l]
    /\ UNCHANGED living

Die(t) == t \in living /\ living' = living \ {t} /\ UNCHANGED loopOf

Retire(t) ==
    /\ t \notin living
    /\ loopOf' = [loopOf EXCEPT ![t] = None]
    /\ UNCHANGED living

Start(t) ==
    /\ t \notin living
    /\ loopOf[t] = None
    /\ living' = living \cup {t}
    /\ UNCHANGED loopOf

\* The process ends.
Shutdown == loopOf' = [t \in Thread |-> None] /\ UNCHANGED living

Next ==
    \/ \E t \in Thread : Assign(t) \/ Die(t) \/ Retire(t) \/ Start(t)
    \/ Shutdown

Spec == Init /\ [][Next]_<<loopOf, living>>
=============================================================================
