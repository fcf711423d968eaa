------------------------- MODULE CFRunLoopRegistry -------------------------
(***************************************************************************)
(* The table from threads to run loops, __CFRunLoops: its creation and     *)
(* that of a thread's run loop on demand in _CFRunLoopGet0, both outside   *)
(* the spin lock loopsLock, the caches in thread-specific data and in      *)
(* CFRunLoopGetMain, and the release of a run loop by the destructor of    *)
(* the thread-specific data of its thread.                                 *)
(*                                                                         *)
(* A critical section of loopsLock is one action.  As in the library,      *)
(* _CFRunLoopGet0 is called for the calling thread and for the main thread *)
(* only.  A thread uses run loops before its destructors run, not for the  *)
(* first time in one.                                                      *)
(***************************************************************************)
EXTENDS Naturals, FiniteSets

CONSTANTS
    Thread, Main, \* threads, by their pthread_t; _CFMainPThread
    Exiting,      \* the threads that exit
    Loop,         \* the run loops that can be created: a bound
    Iterations,   \* PTHREAD_DESTRUCTOR_ITERATIONS
    None

ASSUME ThreadAssumption ==
    IsFiniteSet(Thread) /\ Main \in Thread /\ Exiting \subseteq Thread
ASSUME NoneAssumption == None \notin Loop
ASSUME IterationsAssumption == Iterations \in Nat /\ Iterations > 1

VARIABLES
    table,     \* __CFRunLoops is not NULL
    loopOf,    \* loopOf[t]: the value of t in __CFRunLoops, or None
    born,      \* the run loops created so far
    refs,      \* refs[l]: the retain count; a born loop without any is gone
    main,      \* __main of CFRunLoopGetMain
    tsd,       \* tsd[t]: __CFTSDKeyRunLoop
    cntr,      \* cntr[t]: __CFTSDKeyRunLoopCntr, 0 for NULL
    pass,      \* pass[t]: 0, then the run of the destructors that t is in
    pc, why,   \* where a thread is, and which caller its _CFRunLoopGet0 has
    mine,      \* mine[t]: mainLoop or newLoop, or the result until it is stored
    rl,        \* rl[t]: the run loop __CFFinalizeRunLoop retains
    ended      \* the process is past its destructors

vars == <<table, loopOf, born, refs, main, tsd, cntr, pass, pc, why, mine, rl,
          ended>>

objects == <<born, refs>>
thread  == <<tsd, cntr>>

MaybeLoop == Loop \cup {None}

PC == {"idle", "get", "newTable", "casTable", "dropMain", "newLoop", "insert",
       "store", "askMain", "purge"}

(***************************************************************************)
(* The type invariant: in particular no retain count drops below zero,     *)
(* whatever creators, losers of a creation race and finalizers release.    *)
(***************************************************************************)
TypeOK ==
    /\ table \in BOOLEAN
    /\ loopOf \in [Thread -> MaybeLoop]
    /\ born \subseteq Loop
    /\ refs \in [Loop -> Nat]
    /\ main \in MaybeLoop
    /\ tsd \in [Thread -> MaybeLoop]
    /\ cntr \in [Thread -> 0..Iterations]
    /\ pass \in [Thread -> 0..Iterations]
    /\ pc \in [Thread -> PC]
    /\ why \in [Thread -> {"current", "main", "finalize"}]
    /\ mine \in [Thread -> MaybeLoop]
    /\ rl \in [Thread -> MaybeLoop]
    /\ ended \in BOOLEAN

Init ==
    /\ table = FALSE
    /\ loopOf = [t \in Thread |-> None]
    /\ born = {}
    /\ refs = [l \in Loop |-> 0]
    /\ main = None
    /\ tsd = [t \in Thread |-> None]
    /\ cntr = [t \in Thread |-> 0]
    /\ pass = [t \in Thread |-> 0]
    /\ pc = [t \in Thread |-> "idle"]
    /\ why = [t \in Thread |-> "current"]
    /\ mine = [t \in Thread |-> None]
    /\ rl = [t \in Thread |-> None]
    /\ ended = FALSE

-----------------------------------------------------------------------------

Goto(c, where) == pc' = [pc EXCEPT ![c] = where]
Release(l) == refs' = [refs EXCEPT ![l] = @ - 1]

\* The thread whose run loop c is asking for.
Target(c) == IF why[c] = "current" THEN c ELSE Main

\* CFRunLoopGetCurrent and CFRunLoopGetMain when they have nothing cached.
GetCurrent(c) ==
    /\ pc[c] = "idle" /\ pass[c] = 0
    /\ tsd[c] = None
    /\ Goto(c, "get")
    /\ why' = [why EXCEPT ![c] = "current"]
    /\ UNCHANGED <<table, loopOf, objects, main, thread, pass, mine, rl, ended>>

GetMain(c) ==
    /\ pc[c] = "idle" /\ pass[c] = 0
    /\ main = None
    /\ Goto(c, "get")
    /\ why' = [why EXCEPT ![c] = "main"]
    /\ UNCHANGED <<table, loopOf, objects, main, thread, pass, mine, rl, ended>>

\* The end of _CFRunLoopGet0 in the critical section that found loop l: it is
\* cached if it is the caller's own.
Found(c, l) ==
    /\ IF Target(c) = c
         THEN /\ tsd' = [tsd EXCEPT ![c] = l]
              /\ cntr' = [cntr EXCEPT ![c] = IF @ = 0 THEN Iterations - 1 ELSE @]
         ELSE UNCHANGED thread
    /\ mine' = [mine EXCEPT ![c] = IF why[c] = "current" THEN None ELSE l]
    /\ Goto(c, IF why[c] = "current" THEN "idle" ELSE "store")

\* _CFRunLoopGet0 looks the target up.
Get0(c) ==
    /\ pc[c] = "get"
    /\ IF table /\ loopOf[Target(c)] # None
         THEN Found(c, loopOf[Target(c)])
         ELSE /\ Goto(c, IF table THEN "newLoop" ELSE "newTable")
              /\ UNCHANGED <<thread, mine>>
    /\ UNCHANGED <<table, loopOf, objects, main, pass, why, rl, ended>>

\* A new table with a new run loop for the main thread, which the table and
\* the creator retain.
NewTable(c) ==
    /\ pc[c] = "newTable"
    /\ \E l \in Loop \ born :
         /\ born' = born \cup {l}
         /\ refs' = [refs EXCEPT ![l] = 2]
         /\ mine' = [mine EXCEPT ![c] = l]
    /\ Goto(c, "casTable")
    /\ UNCHANGED <<table, loopOf, main, thread, pass, why, rl, ended>>

\* Mutant of CasTable: the table that lost the race is not released.
CasTableLeaks(c) ==
    /\ pc[c] = "casTable"
    /\ table' = TRUE
    /\ loopOf' = IF table THEN loopOf ELSE [loopOf EXCEPT ![Main] = mine[c]]
    /\ Goto(c, "dropMain")
    /\ UNCHANGED <<objects, main, thread, pass, why, mine, rl, ended>>

\* Mutant of CasTable: a plain store, so that a later table replaces the first.
CasTableStores(c) ==
    /\ pc[c] = "casTable"
    /\ table' = TRUE
    /\ loopOf' = [loopOf EXCEPT ![Main] = mine[c]]
    /\ Goto(c, "dropMain")
    /\ UNCHANGED <<objects, main, thread, pass, why, mine, rl, ended>>

\* The compare-and-swap; a table that comes too late is released.
CasTable(c) ==
    /\ pc[c] = "casTable"
    /\ table' = TRUE
    /\ IF table THEN Release(mine[c]) /\ UNCHANGED loopOf
       ELSE loopOf' = [loopOf EXCEPT ![Main] = mine[c]] /\ UNCHANGED refs
    /\ Goto(c, "dropMain")
    /\ UNCHANGED <<born, main, thread, pass, why, mine, rl, ended>>

\* Mutant of DropMain: the retain count of the table is dropped as well.
DropMainTwice(c) ==
    /\ pc[c] = "dropMain"
    /\ refs' = [refs EXCEPT ![mine[c]] = @ - 2]
    /\ mine' = [mine EXCEPT ![c] = None]
    /\ Goto(c, "get")
    /\ UNCHANGED <<table, loopOf, born, main, thread, pass, why, rl, ended>>

DropMain(c) ==
    /\ pc[c] = "dropMain"
    /\ Release(mine[c])
    /\ mine' = [mine EXCEPT ![c] = None]
    /\ Goto(c, "get")
    /\ UNCHANGED <<table, loopOf, born, main, thread, pass, why, rl, ended>>

NewLoop(c) ==
    /\ pc[c] = "newLoop"
    /\ \E l \in Loop \ born :
         /\ born' = born \cup {l}
         /\ refs' = [refs EXCEPT ![l] = 1]
         /\ mine' = [mine EXCEPT ![c] = l]
    /\ Goto(c, "insert")
    /\ UNCHANGED <<table, loopOf, main, thread, pass, why, rl, ended>>

\* The lock is taken again: unless somebody else was faster, the table takes
\* over the new loop; otherwise the new one is given up.  Nobody else is while
\* the main thread stays, as its loop comes with the table.
Insert(c) ==
    /\ pc[c] = "insert"
    /\ IF loopOf[Target(c)] = None
         THEN /\ loopOf' = [loopOf EXCEPT ![Target(c)] = mine[c]]
              /\ Found(c, mine[c])
              /\ UNCHANGED refs
         ELSE /\ Found(c, loopOf[Target(c)])
              /\ Release(mine[c])
              /\ UNCHANGED loopOf
    /\ UNCHANGED <<table, born, main, pass, why, rl, ended>>

\* CFRunLoopGetMain keeps the result for everybody.
StoreMain(c) ==
    /\ pc[c] = "store"
    /\ main' = mine[c]
    /\ mine' = [mine EXCEPT ![c] = None]
    /\ Goto(c, IF why[c] = "finalize" THEN "purge" ELSE "idle")
    /\ UNCHANGED <<table, loopOf, objects, thread, pass, why, rl, ended>>

-----------------------------------------------------------------------------

Exit(c) ==
    /\ c \in Exiting
    /\ pc[c] = "idle" /\ pass[c] = 0
    /\ pass' = [pass EXCEPT ![c] = 1]
    /\ UNCHANGED <<table, loopOf, objects, main, thread, pc, why, mine, rl, ended>>

\* __CFTSDFinalize at its end, with n the value the counter slot has then: the
\* last run that pthreads guarantees, less one, frees the slots.
EndPass(c, n) ==
    /\ pass' = [pass EXCEPT ![c] = @ + 1]
    /\ cntr' = [cntr EXCEPT ![c] = IF pass[c] = Iterations - 1 THEN 0 ELSE n]
    /\ tsd' = [tsd EXCEPT ![c] = IF pass[c] = Iterations - 1 THEN None ELSE @]

\* Mutant of Destructors: the loop is released one run too late.
DestructorsLate(c) ==
    /\ pc[c] = "idle" /\ pass[c] \in 1..Iterations - 1
    /\ EndPass(c, IF cntr[c] = 0 THEN 0 ELSE cntr[c] - 1)
    /\ UNCHANGED <<table, loopOf, objects, main, pc, why, mine, rl, ended>>

\* One run of the destructors: the counter slot is counted down, and the run
\* that finds it at one takes the thread's run loop out of the table.
Destructors(c) ==
    /\ pc[c] = "idle" /\ pass[c] \in 1..Iterations - 1
    /\ IF cntr[c] = 1 /\ loopOf[c] # None
         THEN /\ loopOf' = [loopOf EXCEPT ![c] = None]
              /\ rl' = [rl EXCEPT ![c] = loopOf[c]]
              /\ cntr' = [cntr EXCEPT ![c] = 0]
              /\ why' = [why EXCEPT ![c] = "finalize"]
              /\ Goto(c, "askMain")
              /\ UNCHANGED <<tsd, pass>>
         ELSE /\ EndPass(c, IF cntr[c] = 0 THEN 0 ELSE cntr[c] - 1)
              /\ UNCHANGED <<loopOf, rl, why, pc>>
    /\ UNCHANGED <<table, objects, main, mine, ended>>

\* Is it the main run loop?  CFRunLoopGetMain may have to create that one.
AskMain(c) ==
    /\ pc[c] = "askMain"
    /\ Goto(c, IF main = None THEN "get" ELSE "purge")
    /\ UNCHANGED <<table, loopOf, objects, main, thread, pass, why, mine, rl, ended>>

\* The rest of __CFFinalizeRunLoop (the sources it removes are not in this
\* model) and of the run of the destructors.
Purge(c) ==
    /\ pc[c] = "purge"
    /\ Release(rl[c])
    /\ rl' = [rl EXCEPT ![c] = None]
    /\ Goto(c, "idle")
    /\ EndPass(c, cntr[c])
    /\ UNCHANGED <<table, loopOf, born, main, why, mine, ended>>

\* A new thread gets the pthread_t of one that is gone.
Start(c) ==
    /\ pass[c] = Iterations
    /\ pass' = [pass EXCEPT ![c] = 0]
    /\ UNCHANGED <<table, loopOf, objects, main, thread, pc, why, mine, rl, ended>>

\* __CFRunLoopDestroyRunLoops when the process exits, no thread being inside
\* the functions above.
Destroy ==
    /\ \A t \in Thread : pc[t] = "idle"
    /\ ended' = TRUE
    /\ table' = FALSE
    /\ loopOf' = [t \in Thread |-> None]
    /\ refs' = [l \in Loop |-> IF \E t \in Thread : loopOf[t] = l
                                 THEN refs[l] - 1 ELSE refs[l]]
    /\ UNCHANGED <<born, main, thread, pass, pc, why, mine, rl>>

-----------------------------------------------------------------------------

Step(c) ==
    \/ GetCurrent(c) \/ GetMain(c) \/ Get0(c)
    \/ NewTable(c) \/ CasTable(c) \/ DropMain(c)
    \/ NewLoop(c) \/ Insert(c) \/ StoreMain(c)
    \/ Exit(c) \/ Destructors(c) \/ AskMain(c) \/ Purge(c) \/ Start(c)

Next == ~ended /\ (Destroy \/ \E c \in Thread : Step(c))

Spec == Init /\ [][Next]_vars

-----------------------------------------------------------------------------
(* Properties.                                                             *)

Holders(l) == {c \in Thread : /\ mine[c] = l
                              /\ pc[c] \in {"casTable", "dropMain", "insert"}}
Finalizers(l) == {c \in Thread : rl[c] = l}

(***************************************************************************)
(* No run loop leaks and none is freed too early: its retain count is the  *)
(* number of places that hold a reference, which are its entry in the      *)
(* table, a table still private to its creator, the creator itself and     *)
(* __CFFinalizeRunLoop.  After the process' destructors none is left.      *)
(***************************************************************************)
RetainsExact ==
    \A l \in Loop :
        refs[l] = Cardinality({t \in Thread : loopOf[t] = l})
                + Cardinality({c \in Holders(l) : pc[c] = "casTable"})
                + Cardinality(Holders(l)) + Cardinality(Finalizers(l))

(***************************************************************************)
(* The caches are right: what CFRunLoopGetCurrent finds in a thread's data *)
(* and CFRunLoopGetMain in its static variable is the table's entry, until *)
(* the thread is finalized, although neither cache retains it and several  *)
(* threads may have created loops for the same thread at once.             *)
(***************************************************************************)
CachesAgree ==
    ~ended => /\ \A t \in Thread : tsd[t] # None /\ pass[t] = 0 => loopOf[t] = tsd[t]
              /\ main # None => loopOf[Main] = main

Abstract == INSTANCE ThreadLoops WITH living <- {t \in Thread : pass[t] = 0}

(***************************************************************************)
(* The registry implements the promise of ThreadLoops: one loop for each   *)
(* thread, for its life.                                                   *)
(***************************************************************************)
ImplementsThreadLoops == Abstract!Spec
=============================================================================
