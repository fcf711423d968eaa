---------------------- MODULE CFRunLoopRegistryProofs ----------------------
(***************************************************************************)
(* Theorems about the registry of run loops, for any number of threads,    *)
(* run loops and destructor runs: the retain counts are exact; and if the  *)
(* main thread does not exit, the caches agree with the table, and the     *)
(* registry implements ThreadLoops.                                        *)
(***************************************************************************)
EXTENDS CFRunLoopRegistry, FiniteSetTheorems, TLAPS

\* The type invariant without the retain counts, which the argument does not
\* need.
Shape ==
    /\ table \in BOOLEAN
    /\ loopOf \in [Thread -> MaybeLoop]
    /\ born \subseteq Loop
    /\ main \in MaybeLoop
    /\ tsd \in [Thread -> MaybeLoop]
    /\ cntr \in [Thread -> 0..Iterations]
    /\ pass \in [Thread -> 0..Iterations]
    /\ pc \in [Thread -> PC]
    /\ why \in [Thread -> {"current", "main", "finalize"}]
    /\ mine \in [Thread -> MaybeLoop]
    /\ rl \in [Thread -> MaybeLoop]

\* Only living threads ask for themselves; a dying one asks for the main loop
\* while it finalizes its own.
Phases ==
    \A c \in Thread :
        /\ pass[c] # 0 => c \in Exiting
        /\ pc[c] # "idle" => /\ pass[c] < Iterations
                             /\ pass[c] = 0 <=> why[c] # "finalize"
        /\ pc[c] \in {"askMain", "purge"} => why[c] = "finalize"

\* A run loop not yet handed over is known to its creator alone.
Private(c) == pc[c] \in {"casTable", "insert"}

Owned ==
    /\ \A c \in Thread : loopOf[c] \in born \cup {None} /\ mine[c] \in born \cup {None}
    /\ \A c, t \in Thread : Private(c) => mine[c] # None /\ loopOf[t] # mine[c]
    /\ \A c, d \in Thread : Private(c) /\ Private(d) /\ c # d => mine[c] # mine[d]

\* Entries need the table, and whoever is past creating one relies on it.
NoTableNoLoop ==
    ~table => \A t \in Thread : loopOf[t] = None /\ pc[t] \notin {"newLoop", "insert"}

\* The counter slot reaches one in the last run of the destructors that still
\* has the slots.
Countdown ==
    \A c \in Thread \ {Main} :
        /\ pass[c] = 0 => cntr[c] \in {0, Iterations - 1}
        /\ pass[c] = 0 /\ loopOf[c] # None => cntr[c] = Iterations - 1
        /\ pass[c] # 0 /\ loopOf[c] # None =>
               cntr[c] + pass[c] = Iterations /\ pass[c] < Iterations
        /\ pass[c] = Iterations => cntr[c] = 0 /\ tsd[c] = None
        /\ pc[c] # "idle" /\ why[c] = "finalize" => loopOf[c] = None

\* What CFRunLoopGetMain is about to store is the table's entry.
Caches ==
    /\ CachesAgree
    /\ \A c \in Thread : pc[c] = "store" => mine[c] # None /\ mine[c] = loopOf[Main]

\* What holds whichever threads exit, the main thread included.
BaseInv == Shape /\ Phases /\ Owned /\ NoTableNoLoop

RegistryInv == BaseInv /\ Countdown /\ Caches

USE DEF MaybeLoop

\* The initial state satisfies the invariant.
LEMMA InitInv == Init => RegistryInv
<1> SUFFICES ASSUME Init PROVE RegistryInv
  OBVIOUS
<1> USE ThreadAssumption, NoneAssumption, IterationsAssumption DEF Init
<1>1. Shape
  <2>1. 0 \in 0..Iterations /\ "idle" \in PC
    BY DEF PC
  <2>2. cntr \in [Thread -> 0..Iterations] /\ pass \in [Thread -> 0..Iterations]
    BY <2>1
  <2>3. pc \in [Thread -> PC] /\ why \in [Thread -> {"current", "main", "finalize"}]
    BY <2>1
  <2>4. /\ table \in BOOLEAN /\ born \subseteq Loop /\ main \in MaybeLoop
        /\ \A f \in {loopOf, tsd, mine, rl} : f \in [Thread -> MaybeLoop]
    BY Zenon
  <2> QED BY <2>2, <2>3, <2>4 DEF Shape
<1>2. Phases
  BY DEF Phases
<1>3. Owned
  BY DEF Owned, Private
<1>4. NoTableNoLoop
  BY DEF NoTableNoLoop
<1>5. Countdown
  BY DEF Countdown
<1>6. Caches
  BY DEF Caches, CachesAgree
<1> QED BY <1>1, <1>2, <1>3, <1>4, <1>5, <1>6 DEF RegistryInv, BaseInv

\* Every step keeps the types.
LEMMA NextShape ==
  ASSUME BaseInv, [Next]_vars
  PROVE  Shape'
<1> USE ThreadAssumption, NoneAssumption, IterationsAssumption DEF BaseInv, Shape, PC
<1>1. CASE UNCHANGED vars
  BY <1>1 DEF vars, Shape, PC
<1>2. CASE ~ended /\ Destroy
  BY <1>2 DEF Destroy, thread, Shape, PC
<1>3. ASSUME NEW c \in Thread, ~ended, Step(c) PROVE Shape'
  <2>1. CASE GetCurrent(c)
    BY <1>3, <2>1 DEF GetCurrent, Goto, objects, thread
  <2>2. CASE GetMain(c)
    BY <1>3, <2>2 DEF GetMain, Goto, objects, thread
  <2>3. CASE Get0(c)
    BY <1>3, <2>3 DEF Get0, Goto, Target, Found, objects, thread
  <2>4. CASE NewTable(c)
    BY <1>3, <2>4 DEF NewTable, Goto, thread
  <2>5. CASE CasTable(c)
    BY <1>3, <2>5 DEF CasTable, Goto, Release, thread
  <2>6. CASE DropMain(c)
    BY <1>3, <2>6 DEF DropMain, Goto, Release, thread
  <2>7. CASE NewLoop(c)
    BY <1>3, <2>7 DEF NewLoop, Goto, thread
  <2>8. CASE Insert(c)
    BY <1>3, <2>8 DEF Insert, Goto, Target, Found, Release, thread
  <2>9. CASE StoreMain(c)
    BY <1>3, <2>9 DEF StoreMain, Goto, objects, thread
  <2>10. CASE Exit(c)
    BY <1>3, <2>10 DEF Exit, objects, thread
  <2>11. CASE Destructors(c)
    BY <1>3, <2>11 DEF Destructors, Goto, EndPass, objects
  <2>12. CASE AskMain(c)
    BY <1>3, <2>12 DEF AskMain, Goto, objects, thread
  <2>13. CASE Purge(c)
    BY <1>3, <2>13 DEF Purge, Phases, Goto, Release, EndPass
  <2>14. CASE Start(c)
    BY <1>3, <2>14 DEF Start, objects, thread
  <2> QED BY <1>3, <2>1, <2>2, <2>3, <2>4, <2>5, <2>6, <2>7, <2>8, <2>9, <2>10, <2>11, <2>12, <2>13, <2>14 DEF Step
<1> QED BY <1>1, <1>2, <1>3 DEF Next

\* Every step keeps the phases of a thread's life apart.
LEMMA NextPhases ==
  ASSUME BaseInv, [Next]_vars
  PROVE  Phases'
<1> USE ThreadAssumption, NoneAssumption, IterationsAssumption DEF BaseInv, Shape, PC
<1>1. CASE UNCHANGED vars
  BY <1>1 DEF vars, Phases
<1>2. CASE ~ended /\ Destroy
  BY <1>2 DEF Destroy, thread, Phases
<1>3. ASSUME NEW c \in Thread, ~ended, Step(c) PROVE Phases'
  <2>1. CASE GetCurrent(c)
    BY <1>3, <2>1 DEF GetCurrent, Phases, Goto, objects, thread
  <2>2. CASE GetMain(c)
    BY <1>3, <2>2 DEF GetMain, Phases, Goto, objects, thread
  <2>3. CASE Get0(c)
    BY <1>3, <2>3 DEF Get0, Phases, Goto, Target, Found, objects, thread
  <2>4. CASE NewTable(c)
    BY <1>3, <2>4 DEF NewTable, Phases, Goto, thread
  <2>5. CASE CasTable(c)
    BY <1>3, <2>5 DEF CasTable, Phases, Goto, Release, thread
  <2>6. CASE DropMain(c)
    BY <1>3, <2>6 DEF DropMain, Phases, Goto, Release, thread
  <2>7. CASE NewLoop(c)
    BY <1>3, <2>7 DEF NewLoop, Phases, Goto, thread
  <2>8. CASE Insert(c)
    BY <1>3, <2>8 DEF Insert, Phases, Goto, Target, Found, Release, thread
  <2>9. CASE StoreMain(c)
    BY <1>3, <2>9 DEF StoreMain, Phases, Goto, objects, thread
  <2>10. CASE Exit(c)
    BY <1>3, <2>10 DEF Exit, Phases, objects, thread
  <2>11. CASE Destructors(c)
    BY <1>3, <2>11 DEF Destructors, Phases, Goto, EndPass, objects
  <2>12. CASE AskMain(c)
    BY <1>3, <2>12 DEF AskMain, Phases, Goto, objects, thread
  <2>13. CASE Purge(c)
    BY <1>3, <2>13 DEF Purge, Phases, Goto, Release, EndPass
  <2>14. CASE Start(c)
    BY <1>3, <2>14 DEF Start, Phases, objects, thread
  <2> QED BY <1>3, <2>1, <2>2, <2>3, <2>4, <2>5, <2>6, <2>7, <2>8, <2>9, <2>10, <2>11, <2>12, <2>13, <2>14 DEF Step
<1> QED BY <1>1, <1>2, <1>3 DEF Next

\* No step shares a loop that is not handed over, or gives one away twice.
LEMMA NextOwned ==
  ASSUME BaseInv, [Next]_vars
  PROVE  Owned'
<1> USE ThreadAssumption, NoneAssumption, IterationsAssumption DEF BaseInv, Shape, PC
<1>1. CASE UNCHANGED vars
  BY <1>1 DEF vars, Owned, Private
<1>2. CASE ~ended /\ Destroy
  BY <1>2 DEF Destroy, thread, Owned, Private
<1>3. ASSUME NEW c \in Thread, ~ended, Step(c) PROVE Owned'
  <2>1. CASE GetCurrent(c)
    BY <1>3, <2>1 DEF GetCurrent, Owned, Private, Goto, objects, thread
  <2>2. CASE GetMain(c)
    BY <1>3, <2>2 DEF GetMain, Owned, Private, Goto, objects, thread
  <2>3. CASE Get0(c)
    BY <1>3, <2>3 DEF Get0, Owned, Private, Goto, Target, Found, objects, thread
  <2>4. CASE NewTable(c)
    BY <1>3, <2>4 DEF NewTable, Owned, Private, Goto, thread
  <2>5. CASE CasTable(c)
    BY <1>3, <2>5 DEF CasTable, Owned, Private, Goto, Release, thread
  <2>6. CASE DropMain(c)
    BY <1>3, <2>6 DEF DropMain, Owned, Private, Goto, Release, thread
  <2>7. CASE NewLoop(c)
    BY <1>3, <2>7 DEF NewLoop, Owned, Private, Goto, thread
  <2>8. CASE Insert(c)
    BY <1>3, <2>8 DEF Insert, Owned, Private, Goto, Target, Found, Release, thread
  <2>9. CASE StoreMain(c)
    BY <1>3, <2>9 DEF StoreMain, Owned, Private, Goto, objects, thread
  <2>10. CASE Exit(c)
    BY <1>3, <2>10 DEF Exit, Owned, Private, objects, thread
  <2>11. CASE Destructors(c)
    BY <1>3, <2>11 DEF Destructors, Owned, Private, Goto, EndPass, objects
  <2>12. CASE AskMain(c)
    BY <1>3, <2>12 DEF AskMain, Owned, Private, Goto, objects, thread
  <2>13. CASE Purge(c)
    BY <1>3, <2>13 DEF Purge, Owned, Private, Goto, Release, EndPass
  <2>14. CASE Start(c)
    BY <1>3, <2>14 DEF Start, Owned, Private, objects, thread
  <2> QED BY <1>3, <2>1, <2>2, <2>3, <2>4, <2>5, <2>6, <2>7, <2>8, <2>9, <2>10, <2>11, <2>12, <2>13, <2>14 DEF Step
<1> QED BY <1>1, <1>2, <1>3 DEF Next

\* Entries appear with the table or after it.
LEMMA NextNoTableNoLoop ==
  ASSUME BaseInv, [Next]_vars
  PROVE  NoTableNoLoop'
<1> USE ThreadAssumption, NoneAssumption, IterationsAssumption DEF BaseInv, Shape, PC
<1>1. CASE UNCHANGED vars
  BY <1>1 DEF vars, NoTableNoLoop
<1>2. CASE ~ended /\ Destroy
  BY <1>2 DEF Destroy, thread, NoTableNoLoop
<1>3. ASSUME NEW c \in Thread, ~ended, Step(c) PROVE NoTableNoLoop'
  <2>1. CASE GetCurrent(c)
    BY <1>3, <2>1 DEF GetCurrent, NoTableNoLoop, Goto, objects, thread
  <2>2. CASE GetMain(c)
    BY <1>3, <2>2 DEF GetMain, NoTableNoLoop, Goto, objects, thread
  <2>3. CASE Get0(c)
    BY <1>3, <2>3 DEF Get0, NoTableNoLoop, Goto, Target, Found, objects, thread
  <2>4. CASE NewTable(c)
    BY <1>3, <2>4 DEF NewTable, NoTableNoLoop, Goto, thread
  <2>5. CASE CasTable(c)
    BY <1>3, <2>5 DEF CasTable, NoTableNoLoop, Goto, Release, thread
  <2>6. CASE DropMain(c)
    BY <1>3, <2>6 DEF DropMain, NoTableNoLoop, Goto, Release, thread
  <2>7. CASE NewLoop(c)
    BY <1>3, <2>7 DEF NewLoop, NoTableNoLoop, Goto, thread
  <2>8. CASE Insert(c)
    BY <1>3, <2>8 DEF Insert, NoTableNoLoop, Goto, Target, Found, Release, thread
  <2>9. CASE StoreMain(c)
    BY <1>3, <2>9 DEF StoreMain, NoTableNoLoop, Goto, objects, thread
  <2>10. CASE Exit(c)
    BY <1>3, <2>10 DEF Exit, NoTableNoLoop, objects, thread
  <2>11. CASE Destructors(c)
    BY <1>3, <2>11 DEF Destructors, NoTableNoLoop, Goto, EndPass, objects
  <2>12. CASE AskMain(c)
    BY <1>3, <2>12 DEF AskMain, NoTableNoLoop, Goto, objects, thread
  <2>13. CASE Purge(c)
    BY <1>3, <2>13 DEF Purge, NoTableNoLoop, Goto, Release, EndPass
  <2>14. CASE Start(c)
    BY <1>3, <2>14 DEF Start, NoTableNoLoop, objects, thread
  <2> QED BY <1>3, <2>1, <2>2, <2>3, <2>4, <2>5, <2>6, <2>7, <2>8, <2>9, <2>10, <2>11, <2>12, <2>13, <2>14 DEF Step
<1> QED BY <1>1, <1>2, <1>3 DEF Next

\* Every step keeps the four together.
LEMMA NextBase == BaseInv /\ [Next]_vars => BaseInv'
<1> SUFFICES ASSUME BaseInv, [Next]_vars PROVE BaseInv' OBVIOUS
<1>1. Shape' /\ Phases' BY NextShape, NextPhases
<1>2. Owned' /\ NoTableNoLoop' BY NextOwned, NextNoTableNoLoop
<1> QED BY <1>1, <1>2 DEF BaseInv

\* The countdown and the runs of the destructors keep in step.
LEMMA NextCountdown ==
  ASSUME Main \notin Exiting, RegistryInv, [Next]_vars
  PROVE  Countdown'
<1> USE ThreadAssumption, NoneAssumption, IterationsAssumption DEF RegistryInv, BaseInv, Shape, PC
<1>1. CASE UNCHANGED vars
  BY <1>1 DEF vars, Countdown
<1>2. CASE ~ended /\ Destroy
  BY <1>2 DEF Destroy, thread, Countdown
<1>3. ASSUME NEW c \in Thread, ~ended, Step(c) PROVE Countdown'
  <2>1. CASE GetCurrent(c)
    BY <1>3, <2>1 DEF GetCurrent, Phases, Countdown, Goto, objects, thread
  <2>2. CASE GetMain(c)
    BY <1>3, <2>2 DEF GetMain, Phases, Countdown, Goto, objects, thread
  <2>3. CASE Get0(c)
    BY <1>3, <2>3 DEF Get0, Phases, Countdown, Goto, Target, Found, objects, thread
  <2>4. CASE NewTable(c)
    BY <1>3, <2>4 DEF NewTable, Phases, Countdown, Goto, thread
  <2>5. CASE CasTable(c)
    BY <1>3, <2>5 DEF CasTable, Phases, Countdown, Goto, Release, thread
  <2>6. CASE DropMain(c)
    BY <1>3, <2>6 DEF DropMain, Phases, Countdown, Goto, Release, thread
  <2>7. CASE NewLoop(c)
    BY <1>3, <2>7 DEF NewLoop, Phases, Countdown, Goto, thread
  <2>8. CASE Insert(c)
    BY <1>3, <2>8 DEF Insert, Phases, Countdown, Goto, Target, Found, Release, thread
  <2>9. CASE StoreMain(c)
    BY <1>3, <2>9 DEF StoreMain, Phases, Countdown, Goto, objects, thread
  <2>10. CASE Exit(c)
    BY <1>3, <2>10 DEF Exit, Phases, Countdown, objects, thread
  <2>11. CASE Destructors(c)
    BY <1>3, <2>11 DEF Destructors, Phases, Countdown, Goto, EndPass, objects
  <2>12. CASE AskMain(c)
    BY <1>3, <2>12 DEF AskMain, Phases, Countdown, Goto, objects, thread
  <2>13. CASE Purge(c)
    BY <1>3, <2>13 DEF Purge, Phases, Countdown, Goto, Release, EndPass
  <2>14. CASE Start(c)
    BY <1>3, <2>14 DEF Start, Phases, Countdown, objects, thread
  <2> QED BY <1>3, <2>1, <2>2, <2>3, <2>4, <2>5, <2>6, <2>7, <2>8, <2>9, <2>10, <2>11, <2>12, <2>13, <2>14 DEF Step
<1> QED BY <1>1, <1>2, <1>3 DEF Next

\* No step parts a cache from the table.
LEMMA NextCaches ==
  ASSUME Main \notin Exiting, RegistryInv, [Next]_vars
  PROVE  Caches'
<1> USE ThreadAssumption, NoneAssumption, IterationsAssumption DEF RegistryInv, BaseInv, Shape, PC
<1>1. CASE UNCHANGED vars
  BY <1>1 DEF vars, Caches, CachesAgree
<1>2. CASE ~ended /\ Destroy
  BY <1>2 DEF Destroy, thread, Caches, CachesAgree
<1>3. ASSUME NEW c \in Thread, ~ended, Step(c) PROVE Caches'
  <2>1. CASE GetCurrent(c)
    BY <1>3, <2>1 DEF GetCurrent, Phases, Owned, Private, NoTableNoLoop, Countdown, Caches, CachesAgree, Goto, objects, thread
  <2>2. CASE GetMain(c)
    BY <1>3, <2>2 DEF GetMain, Phases, Owned, Private, NoTableNoLoop, Countdown, Caches, CachesAgree, Goto, objects, thread
  <2>3. CASE Get0(c)
    BY <1>3, <2>3 DEF Get0, Phases, Owned, Private, NoTableNoLoop, Countdown, Caches, CachesAgree, Goto, Target, Found, objects, thread
  <2>4. CASE NewTable(c)
    BY <1>3, <2>4 DEF NewTable, Phases, Owned, Private, NoTableNoLoop, Countdown, Caches, CachesAgree, Goto, thread
  <2>5. CASE CasTable(c)
    BY <1>3, <2>5 DEF CasTable, Phases, Owned, Private, NoTableNoLoop, Countdown, Caches, CachesAgree, Goto, Release, thread
  <2>6. CASE DropMain(c)
    BY <1>3, <2>6 DEF DropMain, Phases, Owned, Private, NoTableNoLoop, Countdown, Caches, CachesAgree, Goto, Release, thread
  <2>7. CASE NewLoop(c)
    BY <1>3, <2>7 DEF NewLoop, Phases, Owned, Private, NoTableNoLoop, Countdown, Caches, CachesAgree, Goto, thread
  <2>8. CASE Insert(c)
    BY <1>3, <2>8, SMTT(30) DEF Insert, Phases, Owned, Private, NoTableNoLoop, Countdown, Caches, CachesAgree, Goto, Target, Found, Release, thread
  <2>9. CASE StoreMain(c)
    BY <1>3, <2>9 DEF StoreMain, Phases, Owned, Private, NoTableNoLoop, Countdown, Caches, CachesAgree, Goto, objects, thread
  <2>10. CASE Exit(c)
    BY <1>3, <2>10 DEF Exit, Phases, Owned, Private, NoTableNoLoop, Countdown, Caches, CachesAgree, objects, thread
  <2>11. CASE Destructors(c)
    BY <1>3, <2>11 DEF Destructors, Phases, Owned, Private, NoTableNoLoop, Countdown, Caches, CachesAgree, Goto, EndPass, objects
  <2>12. CASE AskMain(c)
    BY <1>3, <2>12 DEF AskMain, Phases, Owned, Private, NoTableNoLoop, Countdown, Caches, CachesAgree, Goto, objects, thread
  <2>13. CASE Purge(c)
    BY <1>3, <2>13 DEF Purge, Phases, Owned, Private, NoTableNoLoop, Countdown, Caches, CachesAgree, Goto, Release, EndPass
  <2>14. CASE Start(c)
    BY <1>3, <2>14 DEF Start, Phases, Owned, Private, NoTableNoLoop, Countdown, Caches, CachesAgree, objects, thread
  <2> QED BY <1>3, <2>1, <2>2, <2>3, <2>4, <2>5, <2>6, <2>7, <2>8, <2>9, <2>10, <2>11, <2>12, <2>13, <2>14 DEF Step
<1> QED BY <1>1, <1>2, <1>3 DEF Next

\* The invariant is inductive.
THEOREM RegistryInductive ==
  ASSUME Main \notin Exiting
  PROVE  Spec => []RegistryInv
<1>1. RegistryInv /\ [Next]_vars => RegistryInv'
  <2> SUFFICES ASSUME RegistryInv, [Next]_vars PROVE RegistryInv' OBVIOUS
  <2>1. BaseInv' BY NextBase DEF RegistryInv
  <2>2. Countdown' /\ Caches' BY NextCountdown, NextCaches
  <2> QED BY <2>1, <2>2 DEF RegistryInv
<1> QED BY InitInv, <1>1, PTL DEF Spec

(***************************************************************************)
(* While the main thread stays, the two unretained caches of               *)
(* CFRunLoopGetCurrent and CFRunLoopGetMain hold the table's entry.        *)
(***************************************************************************)
THEOREM CachesAreRight ==
  ASSUME Main \notin Exiting
  PROVE  Spec => []CachesAgree
<1>1. RegistryInv => CachesAgree BY DEF RegistryInv, Caches
<1> QED BY RegistryInductive, <1>1, PTL

\* A step of the registry is a step of ThreadLoops or changes nothing there.
LEMMA StepRefines ==
  ASSUME Main \notin Exiting, RegistryInv, [Next]_vars
  PROVE  [Abstract!Next]_<<loopOf, {t \in Thread : pass[t] = 0}>>
<1> DEFINE living == {t \in Thread : pass[t] = 0}
<1> USE ThreadAssumption, NoneAssumption, IterationsAssumption DEF RegistryInv, BaseInv, Shape
<1>1. CASE UNCHANGED vars
  BY <1>1 DEF vars
<1>2. CASE ~ended /\ Destroy
  BY <1>2 DEF Destroy, Abstract!Next, Abstract!Shutdown
<1>3. ASSUME NEW c \in Thread, ~ended, Step(c)
      PROVE  [Abstract!Next]_<<loopOf, living>>
  <2>1. CASE GetCurrent(c)
    BY <2>1 DEF GetCurrent, thread
  <2>2. CASE GetMain(c)
    BY <2>2 DEF GetMain, thread
  <2>3. CASE Get0(c)
    BY <2>3 DEF Get0, thread
  <2>4. CASE NewTable(c)
    BY <2>4 DEF NewTable, thread
  <2>5. CASE CasTable(c)
    <3>1. CASE table
      BY <2>5, <3>1 DEF CasTable, thread
    <3>2. CASE ~table
      <4>1. Abstract!Assign(Main)
        BY <2>5, <3>2 DEF CasTable, thread, Phases, Owned, Private, NoTableNoLoop, Abstract!Assign
      <4> QED BY <4>1 DEF Abstract!Next
    <3> QED BY <3>1, <3>2
  <2>6. CASE DropMain(c)
    BY <2>6 DEF DropMain, thread
  <2>7. CASE NewLoop(c)
    BY <2>7 DEF NewLoop, thread
  <2>8. CASE Insert(c)
    <3>1. CASE loopOf[Target(c)] # None
      BY <2>8, <3>1 DEF Insert, thread
    <3>2. CASE loopOf[Target(c)] = None
      <4>1. Target(c) \in Thread /\ pass[Target(c)] = 0
        BY <2>8 DEF Insert, Target, Phases
      <4>2. Abstract!Assign(Target(c))
        BY <2>8, <3>2, <4>1 DEF Insert, thread, Owned, Private, Abstract!Assign
      <4> QED BY <4>1, <4>2 DEF Abstract!Next
    <3> QED BY <3>1, <3>2
  <2>9. CASE StoreMain(c)
    BY <2>9 DEF StoreMain, thread
  <2>10. CASE Exit(c)
    <3>1. Abstract!Die(c)
      BY <2>10 DEF Exit, Abstract!Die
    <3> QED BY <3>1 DEF Abstract!Next
  <2>11. CASE Destructors(c)
    <3>1. CASE cntr[c] = 1 /\ loopOf[c] # None
      <4>1. Abstract!Retire(c)
        BY <2>11, <3>1 DEF Destructors, Abstract!Retire
      <4> QED BY <4>1 DEF Abstract!Next
    <3>2. CASE ~(cntr[c] = 1 /\ loopOf[c] # None)
      BY <2>11, <3>2 DEF Destructors, EndPass
    <3> QED BY <3>1, <3>2
  <2>12. CASE AskMain(c)
    BY <2>12 DEF AskMain, thread
  <2>13. CASE Purge(c)
    BY <2>13 DEF Purge, EndPass, Phases
  <2>14. CASE Start(c)
    <3>1. c # Main /\ loopOf[c] = None
      BY <2>14 DEF Start, Phases, Countdown
    <3>2. Abstract!Start(c)
      BY <2>14, <3>1 DEF Start, Abstract!Start
    <3> QED BY <3>2 DEF Abstract!Next
  <2> QED BY <1>3, <2>1, <2>2, <2>3, <2>4, <2>5, <2>6, <2>7, <2>8, <2>9, <2>10, <2>11, <2>12, <2>13, <2>14 DEF Step
<1> QED BY <1>1, <1>2, <1>3 DEF Next

(***************************************************************************)
(* While the main thread stays, _CFRunLoopGet0 and __CFFinalizeRunLoop     *)
(* implement ThreadLoops: one run loop for each thread, for its life, and  *)
(* none left for a later thread with the same pthread_t.                   *)
(***************************************************************************)
THEOREM RegistryRefines ==
  ASSUME Main \notin Exiting
  PROVE  Spec => ImplementsThreadLoops
<1>1. Init => Abstract!Init
  BY DEF Init, Abstract!Init
<1>2. RegistryInv /\ [Next]_vars => [Abstract!Next]_<<loopOf, {t \in Thread : pass[t] = 0}>>
  BY StepRefines
<1> QED BY RegistryInductive, <1>1, <1>2, PTL DEF Spec, ImplementsThreadLoops, Abstract!Spec
-----------------------------------------------------------------------------
(***************************************************************************)
(* The retain counts.                                                       *)
(***************************************************************************)

Entries(l) == {t \in Thread : loopOf[t] = l}
Casters(l) == {c \in Holders(l) : pc[c] = "casTable"}

Exact(l) == refs[l] = Cardinality(Entries(l)) + Cardinality(Casters(l))
                    + Cardinality(Holders(l)) + Cardinality(Finalizers(l))

\* A thread has a run loop to release from when it takes its own out of the
\* table until it has released it.
Finalizing ==
    \A c \in Thread :
        /\ rl[c] # None <=> pc[c] # "idle" /\ why[c] = "finalize"
        /\ rl[c] \in born \cup {None}
        /\ pc[c] = "dropMain" => mine[c] # None

\* A run loop has one entry at most.
Single ==
    \A t, u \in Thread : loopOf[t] = loopOf[u] /\ loopOf[t] # None => t = u

Counted == refs \in [Loop -> Nat] /\ \A l \in Loop : Exact(l)

RetainInv == BaseInv /\ Finalizing /\ Single /\ Counted

\* Every step keeps what is being finalized.
LEMMA NextFinalizing ==
  ASSUME BaseInv, Finalizing, [Next]_vars
  PROVE  Finalizing'
<1> USE ThreadAssumption, NoneAssumption, IterationsAssumption DEF BaseInv, Shape, PC
<1>1. CASE UNCHANGED vars
  BY <1>1 DEF vars, Finalizing
<1>2. CASE ~ended /\ Destroy
  BY <1>2 DEF Destroy, thread, Finalizing
<1>3. ASSUME NEW c \in Thread, ~ended, Step(c) PROVE Finalizing'
  <2>1. CASE GetCurrent(c)
    BY <1>3, <2>1 DEF GetCurrent, Finalizing, Phases, Owned, Private, Goto, objects, thread
  <2>2. CASE GetMain(c)
    BY <1>3, <2>2 DEF GetMain, Finalizing, Phases, Owned, Private, Goto, objects, thread
  <2>3. CASE Get0(c)
    BY <1>3, <2>3 DEF Get0, Finalizing, Phases, Owned, Private, Goto, Target, Found, objects, thread
  <2>4. CASE NewTable(c)
    BY <1>3, <2>4 DEF NewTable, Finalizing, Phases, Owned, Private, Goto, thread
  <2>5. CASE CasTable(c)
    BY <1>3, <2>5 DEF CasTable, Finalizing, Phases, Owned, Private, Goto, Release, thread
  <2>6. CASE DropMain(c)
    BY <1>3, <2>6 DEF DropMain, Finalizing, Phases, Owned, Private, Goto, Release, thread
  <2>7. CASE NewLoop(c)
    BY <1>3, <2>7 DEF NewLoop, Finalizing, Phases, Owned, Private, Goto, thread
  <2>8. CASE Insert(c)
    BY <1>3, <2>8 DEF Insert, Finalizing, Phases, Owned, Private, Goto, Target, Found, Release, thread
  <2>9. CASE StoreMain(c)
    BY <1>3, <2>9 DEF StoreMain, Finalizing, Phases, Owned, Private, Goto, objects, thread
  <2>10. CASE Exit(c)
    BY <1>3, <2>10 DEF Exit, Finalizing, Phases, Owned, Private, objects, thread
  <2>11. CASE Destructors(c)
    BY <1>3, <2>11 DEF Destructors, Finalizing, Phases, Owned, Private, Goto, EndPass, objects
  <2>12. CASE AskMain(c)
    BY <1>3, <2>12 DEF AskMain, Finalizing, Phases, Owned, Private, Goto, objects, thread
  <2>13. CASE Purge(c)
    BY <1>3, <2>13 DEF Purge, Finalizing, Phases, Owned, Private, Goto, Release, EndPass
  <2>14. CASE Start(c)
    BY <1>3, <2>14 DEF Start, Finalizing, Phases, Owned, Private, objects, thread
  <2> QED BY <1>3, <2>1, <2>2, <2>3, <2>4, <2>5, <2>6, <2>7, <2>8, <2>9, <2>10, <2>11, <2>12, <2>13, <2>14 DEF Step
<1> QED BY <1>1, <1>2, <1>3 DEF Next

\* Every step keeps entries single.
LEMMA NextSingle ==
  ASSUME BaseInv, Single, [Next]_vars
  PROVE  Single'
<1> USE ThreadAssumption, NoneAssumption, IterationsAssumption DEF BaseInv, Shape, PC
<1>1. CASE UNCHANGED vars
  BY <1>1 DEF vars, Single
<1>2. CASE ~ended /\ Destroy
  BY <1>2 DEF Destroy, thread, Single
<1>3. ASSUME NEW c \in Thread, ~ended, Step(c) PROVE Single'
  <2>1. CASE GetCurrent(c)
    BY <1>3, <2>1 DEF GetCurrent, Single, Owned, Private, Goto, objects, thread
  <2>2. CASE GetMain(c)
    BY <1>3, <2>2 DEF GetMain, Single, Owned, Private, Goto, objects, thread
  <2>3. CASE Get0(c)
    BY <1>3, <2>3 DEF Get0, Single, Owned, Private, Goto, Target, Found, objects, thread
  <2>4. CASE NewTable(c)
    BY <1>3, <2>4 DEF NewTable, Single, Owned, Private, Goto, thread
  <2>5. CASE CasTable(c)
    BY <1>3, <2>5 DEF CasTable, Single, Owned, Private, Goto, Release, thread
  <2>6. CASE DropMain(c)
    BY <1>3, <2>6 DEF DropMain, Single, Owned, Private, Goto, Release, thread
  <2>7. CASE NewLoop(c)
    BY <1>3, <2>7 DEF NewLoop, Single, Owned, Private, Goto, thread
  <2>8. CASE Insert(c)
    BY <1>3, <2>8 DEF Insert, Single, Owned, Private, Goto, Target, Found, Release, thread
  <2>9. CASE StoreMain(c)
    BY <1>3, <2>9 DEF StoreMain, Single, Owned, Private, Goto, objects, thread
  <2>10. CASE Exit(c)
    BY <1>3, <2>10 DEF Exit, Single, Owned, Private, objects, thread
  <2>11. CASE Destructors(c)
    BY <1>3, <2>11 DEF Destructors, Single, Owned, Private, Goto, EndPass, objects
  <2>12. CASE AskMain(c)
    BY <1>3, <2>12 DEF AskMain, Single, Owned, Private, Goto, objects, thread
  <2>13. CASE Purge(c)
    BY <1>3, <2>13 DEF Purge, Single, Owned, Private, Goto, Release, EndPass
  <2>14. CASE Start(c)
    BY <1>3, <2>14 DEF Start, Single, Owned, Private, objects, thread
  <2> QED BY <1>3, <2>1, <2>2, <2>3, <2>4, <2>5, <2>6, <2>7, <2>8, <2>9, <2>10, <2>11, <2>12, <2>13, <2>14 DEF Step
<1> QED BY <1>1, <1>2, <1>3 DEF Next

Bit(x, S) == IF x \in S THEN 1 ELSE 0

\* Sets of threads that agree on all threads but one.
LEMMA OneMember ==
  ASSUME NEW S \in SUBSET Thread, NEW T \in SUBSET Thread, NEW c \in Thread,
         S \ {c} = T \ {c}
  PROVE  /\ Cardinality(S) \in Nat /\ Cardinality(T) \in Nat
         /\ Cardinality(T) = Cardinality(S) + Bit(c, T) - Bit(c, S)
<1> DEFINE U == S \ {c}
<1>1. IsFiniteSet(U)
  BY ThreadAssumption, FS_Subset
<1>2. Cardinality(U) \in Nat
  BY <1>1, FS_CardinalityType
<1>3. c \notin U /\ Cardinality(U \cup {c}) = Cardinality(U) + 1
  BY <1>1, FS_AddElement
<1>4. c \in S => S = U \cup {c}
  OBVIOUS
<1>5. c \notin S => S = U
  OBVIOUS
<1>6. c \in T => T = U \cup {c}
  OBVIOUS
<1>7. c \notin T => T = U
  OBVIOUS
<1> HIDE DEF U
<1>8. Cardinality(S) = Cardinality(U) + Bit(c, S)
  <2>1. CASE c \in S
    <3>1. Cardinality(S) = Cardinality(U) + 1
      BY <1>3, <1>4, <2>1, Zenon
    <3> QED BY <2>1, <3>1 DEF Bit
  <2>2. CASE c \notin S
    <3>1. Cardinality(S) = Cardinality(U)
      BY <1>5, <2>2, Zenon
    <3> QED BY <1>2, <2>2, <3>1 DEF Bit
  <2> QED BY <2>1, <2>2
<1>9. Cardinality(T) = Cardinality(U) + Bit(c, T)
  <2>1. CASE c \in T
    <3>1. Cardinality(T) = Cardinality(U) + 1
      BY <1>3, <1>6, <2>1, Zenon
    <3> QED BY <2>1, <3>1 DEF Bit
  <2>2. CASE c \notin T
    <3>1. Cardinality(T) = Cardinality(U)
      BY <1>7, <2>2, Zenon
    <3> QED BY <1>2, <2>2, <3>1 DEF Bit
  <2> QED BY <2>1, <2>2
<1> QED BY <1>2, <1>8, <1>9 DEF Bit

\* A step touches the entry of thread d and what thread c holds.
Elsewhere(l, c, d) ==
    /\ Entries(l) \ {d} = Entries(l)' \ {d}
    /\ Casters(l) \ {c} = Casters(l)' \ {c}
    /\ Holders(l) \ {c} = Holders(l)' \ {c}
    /\ Finalizers(l) \ {c} = Finalizers(l)' \ {c}

Held(l, c, d) == Bit(d, Entries(l)) + Bit(c, Casters(l))
               + Bit(c, Holders(l)) + Bit(c, Finalizers(l))

\* If the count of a loop changes by as much as that, it stays exact.
LEMMA CountKeeps ==
  ASSUME NEW l \in Loop, NEW c \in Thread, NEW d \in Thread,
         Exact(l), Elsewhere(l, c, d),
         refs'[l] = refs[l] + Held(l, c, d)' - Held(l, c, d)
  PROVE  Exact(l)' /\ refs'[l] \in Nat
<1>1. /\ Entries(l) \in SUBSET Thread /\ Casters(l) \in SUBSET Thread
      /\ Holders(l) \in SUBSET Thread /\ Finalizers(l) \in SUBSET Thread
  BY DEF Entries, Casters, Holders, Finalizers
<1>2. /\ Entries(l)' \in SUBSET Thread /\ Casters(l)' \in SUBSET Thread
      /\ Holders(l)' \in SUBSET Thread /\ Finalizers(l)' \in SUBSET Thread
  BY DEF Entries, Casters, Holders, Finalizers
<1>3. PICK e, e1 : e = Entries(l) /\ e1 = Entries(l)' OBVIOUS
<1>4. PICK k, k1 : k = Casters(l) /\ k1 = Casters(l)' OBVIOUS
<1>5. PICK h, h1 : h = Holders(l) /\ h1 = Holders(l)' OBVIOUS
<1>6. PICK f, f1 : f = Finalizers(l) /\ f1 = Finalizers(l)' OBVIOUS
<1>7. /\ Cardinality(e) \in Nat /\ Cardinality(e1) \in Nat
      /\ Cardinality(e1) = Cardinality(e) + Bit(d, e1) - Bit(d, e)
  BY <1>1, <1>2, <1>3, OneMember DEF Elsewhere
<1>8. /\ Cardinality(k) \in Nat /\ Cardinality(k1) \in Nat
      /\ Cardinality(k1) = Cardinality(k) + Bit(c, k1) - Bit(c, k)
  BY <1>1, <1>2, <1>4, OneMember DEF Elsewhere
<1>9. /\ Cardinality(h) \in Nat /\ Cardinality(h1) \in Nat
      /\ Cardinality(h1) = Cardinality(h) + Bit(c, h1) - Bit(c, h)
  BY <1>1, <1>2, <1>5, OneMember DEF Elsewhere
<1>10. /\ Cardinality(f) \in Nat /\ Cardinality(f1) \in Nat
       /\ Cardinality(f1) = Cardinality(f) + Bit(c, f1) - Bit(c, f)
  BY <1>1, <1>2, <1>6, OneMember DEF Elsewhere
<1>11. refs[l] = Cardinality(e) + Cardinality(k) + Cardinality(h) + Cardinality(f)
  BY <1>3, <1>4, <1>5, <1>6 DEF Exact
<1>12. refs'[l] = refs[l] + (Bit(d, e1) + Bit(c, k1) + Bit(c, h1) + Bit(c, f1))
                          - (Bit(d, e) + Bit(c, k) + Bit(c, h) + Bit(c, f))
  BY <1>3, <1>4, <1>5, <1>6 DEF Held, Bit
<1>13. refs'[l] = Cardinality(e1) + Cardinality(k1) + Cardinality(h1) + Cardinality(f1)
  BY <1>7, <1>8, <1>9, <1>10, <1>11, <1>12 DEF Bit
<1>14. refs'[l] \in Nat
  BY <1>7, <1>8, <1>9, <1>10, <1>13
<1> QED BY <1>3, <1>4, <1>5, <1>6, <1>13, <1>14 DEF Exact

\* A run loop that is not born yet has no references.
LEMMA Unborn ==
  ASSUME RetainInv, NEW l \in Loop \ born
  PROVE  /\ refs[l] = 0 /\ Entries(l) = {} /\ Casters(l) = {}
         /\ Holders(l) = {} /\ Finalizers(l) = {}
<1>1. Entries(l) = {} /\ Holders(l) = {}
  BY NoneAssumption DEF RetainInv, BaseInv, Owned, Entries, Holders
<1>2. Casters(l) = {}
  BY <1>1 DEF Casters
<1>3. Finalizers(l) = {}
  BY NoneAssumption DEF RetainInv, Finalizing, Finalizers
<1>4. Cardinality({}) = 0
  BY FS_EmptySet
<1> QED BY <1>1, <1>2, <1>3, <1>4 DEF RetainInv, Counted, Exact

\* A step of thread c that neither takes, gives nor moves a reference.
LEMMA CalmCounts ==
  ASSUME RetainInv, NEW c \in Thread, UNCHANGED <<refs, loopOf, rl>>,
         \A x \in Thread \ {c} : pc'[x] = pc[x] /\ mine'[x] = mine[x],
         pc[c] \notin {"casTable", "dropMain", "insert"},
         pc'[c] \notin {"casTable", "dropMain", "insert"}
  PROVE  Counted'
<1>1. ASSUME NEW l \in Loop PROVE Exact(l)'
  <2>1. Entries(l)' = Entries(l) /\ Finalizers(l)' = Finalizers(l)
    BY DEF Entries, Finalizers
  <2>2. Holders(l)' = Holders(l)
    BY DEF Holders
  <2>3. Casters(l)' = Casters(l)
    BY <2>2 DEF Casters, Holders
  <2> QED BY <2>1, <2>2, <2>3 DEF RetainInv, Counted, Exact
<1> QED BY <1>1 DEF RetainInv, Counted

\* NewTable keeps the counts exact.
LEMMA NewTableCounts ==
  ASSUME RetainInv, NEW c \in Thread, NewTable(c)
  PROVE  Counted'
<1> USE ThreadAssumption, NoneAssumption, IterationsAssumption
    DEF RetainInv, BaseInv, Shape, NewTable, Goto, thread
<1>0. PICK n \in Loop \ born :
          /\ refs' = [refs EXCEPT ![n] = 2]
          /\ mine' = [mine EXCEPT ![c] = n]
  OBVIOUS
<1>n. /\ refs[n] = 0 /\ Entries(n) = {} /\ Casters(n) = {}
      /\ Holders(n) = {} /\ Finalizers(n) = {}
  BY Unborn
<1>1. ASSUME NEW l \in Loop
      PROVE  Elsewhere(l, c, c) /\ refs'[l] = refs[l] + Held(l, c, c)' - Held(l, c, c)
  <2>1. c \in Thread /\ refs[l] \in Nat
    BY DEF Counted
  <2>2. Entries(l) \ {c} = Entries(l)' \ {c}
    BY <2>1 DEF Entries
  <2>3. \A x \in Thread \ {c} : pc'[x] = pc[x] /\ mine'[x] = mine[x]
    BY <1>0, <1>n, SMT
  <2>4. Holders(l) \ {c} = Holders(l)' \ {c}
    BY <2>3 DEF Holders
  <2>5. Casters(l) \ {c} = Casters(l)' \ {c}
    BY <2>3, <2>4 DEF Casters, Holders
  <2>6. Finalizers(l) \ {c} = Finalizers(l)' \ {c}
    BY DEF Finalizers
  <2>7. Elsewhere(l, c, c)
    BY <2>2, <2>4, <2>5, <2>6 DEF Elsewhere
  <2>8. refs'[l] = refs[l] + Held(l, c, c)' - Held(l, c, c)
    BY <1>0, <1>n, <2>1 DEF Held, Bit, Counted, Finalizing, Phases, Owned, Private, NoTableNoLoop,
       Entries, Casters, Holders, Finalizers
  <2> QED BY <2>7, <2>8
<1>2. ASSUME NEW l \in Loop PROVE Exact(l)' /\ refs'[l] \in Nat
  BY <1>1, CountKeeps DEF Counted
<1>3. refs' \in [Loop -> Nat]
  BY <1>0, <1>n, <1>2 DEF Counted
<1> QED BY <1>2, <1>3 DEF Counted

\* CasTable keeps the counts exact.
LEMMA CasTableCounts ==
  ASSUME RetainInv, NEW c \in Thread, CasTable(c)
  PROVE  Counted'
<1> USE ThreadAssumption, NoneAssumption, IterationsAssumption
    DEF RetainInv, BaseInv, Shape, CasTable, Goto, Release, thread
<1>1. ASSUME NEW l \in Loop
      PROVE  Elsewhere(l, c, Main) /\ refs'[l] = refs[l] + Held(l, c, Main)' - Held(l, c, Main)
  <2>1. Main \in Thread /\ refs[l] \in Nat
    BY DEF Counted
  <2>2. Entries(l) \ {Main} = Entries(l)' \ {Main}
    BY <2>1 DEF Entries
  <2>3. \A x \in Thread \ {c} : pc'[x] = pc[x] /\ mine'[x] = mine[x]
    BY SMT
  <2>4. Holders(l) \ {c} = Holders(l)' \ {c}
    BY <2>3 DEF Holders
  <2>5. Casters(l) \ {c} = Casters(l)' \ {c}
    BY <2>3, <2>4 DEF Casters, Holders
  <2>6. Finalizers(l) \ {c} = Finalizers(l)' \ {c}
    BY DEF Finalizers
  <2>7. Elsewhere(l, c, Main)
    BY <2>2, <2>4, <2>5, <2>6 DEF Elsewhere
  <2>8. refs'[l] = refs[l] + Held(l, c, Main)' - Held(l, c, Main)
    BY <2>1 DEF Held, Bit, Counted, Finalizing, Phases, Owned, Private, NoTableNoLoop,
       Entries, Casters, Holders, Finalizers
  <2> QED BY <2>7, <2>8
<1>2. ASSUME NEW l \in Loop PROVE Exact(l)' /\ refs'[l] \in Nat
  BY <1>1, CountKeeps DEF Counted
<1>3. refs' \in [Loop -> Nat]
  BY <1>2 DEF Counted
<1> QED BY <1>2, <1>3 DEF Counted

\* DropMain keeps the counts exact.
LEMMA DropMainCounts ==
  ASSUME RetainInv, NEW c \in Thread, DropMain(c)
  PROVE  Counted'
<1> USE ThreadAssumption, NoneAssumption, IterationsAssumption
    DEF RetainInv, BaseInv, Shape, DropMain, Goto, Release, thread
<1>1. ASSUME NEW l \in Loop
      PROVE  Elsewhere(l, c, c) /\ refs'[l] = refs[l] + Held(l, c, c)' - Held(l, c, c)
  <2>1. c \in Thread /\ refs[l] \in Nat
    BY DEF Counted
  <2>2. Entries(l) \ {c} = Entries(l)' \ {c}
    BY <2>1 DEF Entries
  <2>3. \A x \in Thread \ {c} : pc'[x] = pc[x] /\ mine'[x] = mine[x]
    BY SMT
  <2>4. Holders(l) \ {c} = Holders(l)' \ {c}
    BY <2>3 DEF Holders
  <2>5. Casters(l) \ {c} = Casters(l)' \ {c}
    BY <2>3, <2>4 DEF Casters, Holders
  <2>6. Finalizers(l) \ {c} = Finalizers(l)' \ {c}
    BY DEF Finalizers
  <2>7. Elsewhere(l, c, c)
    BY <2>2, <2>4, <2>5, <2>6 DEF Elsewhere
  <2>8. refs'[l] = refs[l] + Held(l, c, c)' - Held(l, c, c)
    BY <2>1 DEF Held, Bit, Counted, Finalizing, Phases, Owned, Private, NoTableNoLoop,
       Entries, Casters, Holders, Finalizers
  <2> QED BY <2>7, <2>8
<1>2. ASSUME NEW l \in Loop PROVE Exact(l)' /\ refs'[l] \in Nat
  BY <1>1, CountKeeps DEF Counted
<1>3. refs' \in [Loop -> Nat]
  BY <1>2 DEF Counted
<1> QED BY <1>2, <1>3 DEF Counted

\* NewLoop keeps the counts exact.
LEMMA NewLoopCounts ==
  ASSUME RetainInv, NEW c \in Thread, NewLoop(c)
  PROVE  Counted'
<1> USE ThreadAssumption, NoneAssumption, IterationsAssumption
    DEF RetainInv, BaseInv, Shape, NewLoop, Goto, thread
<1>0. PICK n \in Loop \ born :
          /\ refs' = [refs EXCEPT ![n] = 1]
          /\ mine' = [mine EXCEPT ![c] = n]
  OBVIOUS
<1>n. /\ refs[n] = 0 /\ Entries(n) = {} /\ Casters(n) = {}
      /\ Holders(n) = {} /\ Finalizers(n) = {}
  BY Unborn
<1>1. ASSUME NEW l \in Loop
      PROVE  Elsewhere(l, c, c) /\ refs'[l] = refs[l] + Held(l, c, c)' - Held(l, c, c)
  <2>1. c \in Thread /\ refs[l] \in Nat
    BY DEF Counted
  <2>2. Entries(l) \ {c} = Entries(l)' \ {c}
    BY <2>1 DEF Entries
  <2>3. \A x \in Thread \ {c} : pc'[x] = pc[x] /\ mine'[x] = mine[x]
    BY <1>0, <1>n, SMT
  <2>4. Holders(l) \ {c} = Holders(l)' \ {c}
    BY <2>3 DEF Holders
  <2>5. Casters(l) \ {c} = Casters(l)' \ {c}
    BY <2>3, <2>4 DEF Casters, Holders
  <2>6. Finalizers(l) \ {c} = Finalizers(l)' \ {c}
    BY DEF Finalizers
  <2>7. Elsewhere(l, c, c)
    BY <2>2, <2>4, <2>5, <2>6 DEF Elsewhere
  <2>8. refs'[l] = refs[l] + Held(l, c, c)' - Held(l, c, c)
    BY <1>0, <1>n, <2>1 DEF Held, Bit, Counted, Finalizing, Phases, Owned, Private, NoTableNoLoop,
       Entries, Casters, Holders, Finalizers
  <2> QED BY <2>7, <2>8
<1>2. ASSUME NEW l \in Loop PROVE Exact(l)' /\ refs'[l] \in Nat
  BY <1>1, CountKeeps DEF Counted
<1>3. refs' \in [Loop -> Nat]
  BY <1>0, <1>n, <1>2 DEF Counted
<1> QED BY <1>2, <1>3 DEF Counted

\* Insert keeps the counts exact.
LEMMA InsertCounts ==
  ASSUME RetainInv, NEW c \in Thread, Insert(c)
  PROVE  Counted'
<1> USE ThreadAssumption, NoneAssumption, IterationsAssumption
    DEF RetainInv, BaseInv, Shape, Insert, Goto, Target, Found, Release, thread
<1>1. ASSUME NEW l \in Loop
      PROVE  Elsewhere(l, c, Target(c)) /\ refs'[l] = refs[l] + Held(l, c, Target(c))' - Held(l, c, Target(c))
  <2>1. Target(c) \in Thread /\ refs[l] \in Nat
    BY DEF Counted
  <2>2. Entries(l) \ {Target(c)} = Entries(l)' \ {Target(c)}
    BY <2>1 DEF Entries
  <2>3. \A x \in Thread \ {c} : pc'[x] = pc[x] /\ mine'[x] = mine[x]
    BY SMT
  <2>4. Holders(l) \ {c} = Holders(l)' \ {c}
    BY <2>3 DEF Holders
  <2>5. Casters(l) \ {c} = Casters(l)' \ {c}
    BY <2>3, <2>4 DEF Casters, Holders
  <2>6. Finalizers(l) \ {c} = Finalizers(l)' \ {c}
    BY DEF Finalizers
  <2>7. Elsewhere(l, c, Target(c))
    BY <2>2, <2>4, <2>5, <2>6 DEF Elsewhere
  <2>8. refs'[l] = refs[l] + Held(l, c, Target(c))' - Held(l, c, Target(c))
    BY <2>1 DEF Held, Bit, Counted, Finalizing, Phases, Owned, Private, NoTableNoLoop,
       Entries, Casters, Holders, Finalizers
  <2> QED BY <2>7, <2>8
<1>2. ASSUME NEW l \in Loop PROVE Exact(l)' /\ refs'[l] \in Nat
  BY <1>1, CountKeeps DEF Counted
<1>3. refs' \in [Loop -> Nat]
  BY <1>2 DEF Counted
<1> QED BY <1>2, <1>3 DEF Counted

\* Destructors keeps the counts exact.
LEMMA DestructorsCounts ==
  ASSUME RetainInv, NEW c \in Thread, Destructors(c)
  PROVE  Counted'
<1> USE ThreadAssumption, NoneAssumption, IterationsAssumption
    DEF RetainInv, BaseInv, Shape, Destructors, Goto, EndPass, objects
<1>1. ASSUME NEW l \in Loop
      PROVE  Elsewhere(l, c, c) /\ refs'[l] = refs[l] + Held(l, c, c)' - Held(l, c, c)
  <2>1. c \in Thread /\ refs[l] \in Nat
    BY DEF Counted
  <2>2. Entries(l) \ {c} = Entries(l)' \ {c}
    BY <2>1 DEF Entries
  <2>3. \A x \in Thread \ {c} : pc'[x] = pc[x] /\ mine'[x] = mine[x]
    BY SMT
  <2>4. Holders(l) \ {c} = Holders(l)' \ {c}
    BY <2>3 DEF Holders
  <2>5. Casters(l) \ {c} = Casters(l)' \ {c}
    BY <2>3, <2>4 DEF Casters, Holders
  <2>6. Finalizers(l) \ {c} = Finalizers(l)' \ {c}
    BY DEF Finalizers
  <2>7. Elsewhere(l, c, c)
    BY <2>2, <2>4, <2>5, <2>6 DEF Elsewhere
  <2>8. refs'[l] = refs[l] + Held(l, c, c)' - Held(l, c, c)
    BY <2>1 DEF Held, Bit, Counted, Finalizing, Phases, Owned, Private, NoTableNoLoop,
       Entries, Casters, Holders, Finalizers
  <2> QED BY <2>7, <2>8
<1>2. ASSUME NEW l \in Loop PROVE Exact(l)' /\ refs'[l] \in Nat
  BY <1>1, CountKeeps DEF Counted
<1>3. refs' \in [Loop -> Nat]
  BY <1>2 DEF Counted
<1> QED BY <1>2, <1>3 DEF Counted

\* Purge keeps the counts exact.
LEMMA PurgeCounts ==
  ASSUME RetainInv, NEW c \in Thread, Purge(c)
  PROVE  Counted'
<1> USE ThreadAssumption, NoneAssumption, IterationsAssumption
    DEF RetainInv, BaseInv, Shape, Purge, Goto, Release, EndPass
<1>1. ASSUME NEW l \in Loop
      PROVE  Elsewhere(l, c, c) /\ refs'[l] = refs[l] + Held(l, c, c)' - Held(l, c, c)
  <2>1. c \in Thread /\ refs[l] \in Nat
    BY DEF Counted
  <2>2. Entries(l) \ {c} = Entries(l)' \ {c}
    BY <2>1 DEF Entries
  <2>3. \A x \in Thread \ {c} : pc'[x] = pc[x] /\ mine'[x] = mine[x]
    BY SMT
  <2>4. Holders(l) \ {c} = Holders(l)' \ {c}
    BY <2>3 DEF Holders
  <2>5. Casters(l) \ {c} = Casters(l)' \ {c}
    BY <2>3, <2>4 DEF Casters, Holders
  <2>6. Finalizers(l) \ {c} = Finalizers(l)' \ {c}
    BY DEF Finalizers
  <2>7. Elsewhere(l, c, c)
    BY <2>2, <2>4, <2>5, <2>6 DEF Elsewhere
  <2>8. refs'[l] = refs[l] + Held(l, c, c)' - Held(l, c, c)
    BY <2>1 DEF Held, Bit, Counted, Finalizing, Phases, Owned, Private, NoTableNoLoop,
       Entries, Casters, Holders, Finalizers
  <2> QED BY <2>7, <2>8
<1>2. ASSUME NEW l \in Loop PROVE Exact(l)' /\ refs'[l] \in Nat
  BY <1>1, CountKeeps DEF Counted
<1>3. refs' \in [Loop -> Nat]
  BY <1>2 DEF Counted
<1> QED BY <1>2, <1>3 DEF Counted

\* The destructor of the process releases every entry once, and nobody holds
\* anything besides.
LEMMA DestroyCounts ==
  ASSUME RetainInv, Destroy
  PROVE  Counted'
<1> USE NoneAssumption DEF RetainInv, BaseInv, Shape, Destroy
<1>1. Cardinality({}) = 0
  BY FS_EmptySet
<1>2. ASSUME NEW l \in Loop PROVE Exact(l)' /\ refs'[l] \in Nat
  <2>1. Holders(l) = {} /\ Casters(l) = {} /\ Finalizers(l) = {}
    BY DEF Holders, Casters, Finalizers, Finalizing
  <2>2. Holders(l)' = {} /\ Casters(l)' = {} /\ Finalizers(l)' = {} /\ Entries(l)' = {}
    BY <2>1 DEF Holders, Casters, Finalizers, Entries
  <2>3. refs[l] \in Nat /\ refs[l] = Cardinality(Entries(l))
    <3>1. Cardinality(Casters(l)) = 0 /\ Cardinality(Holders(l)) = 0
          /\ Cardinality(Finalizers(l)) = 0
      BY <1>1, <2>1
    <3>2. refs[l] \in Nat /\ Exact(l)
      BY DEF Counted
    <3>3. IsFiniteSet(Entries(l))
      BY ThreadAssumption, FS_Subset DEF Entries
    <3>4. Cardinality(Entries(l)) \in Nat
      BY <3>3, FS_CardinalityType
    <3> QED BY <3>1, <3>2, <3>4 DEF Exact
  <2>4. CASE \E t \in Thread : loopOf[t] = l
    <3>1. PICK t \in Thread : loopOf[t] = l
      BY <2>4
    <3>2. Entries(l) = {t}
      BY <3>1 DEF Entries, Single
    <3>3. Cardinality({t}) = 1
      BY FS_Singleton
    <3>4. refs'[l] = 0
      BY <2>3, <2>4, <3>2, <3>3 DEF Counted
    <3> QED BY <1>1, <2>2, <3>4 DEF Exact
  <2>5. CASE ~ \E t \in Thread : loopOf[t] = l
    <3>1. Entries(l) = {}
      BY <2>5 DEF Entries
    <3>2. refs'[l] = 0
      BY <1>1, <2>3, <2>5, <3>1 DEF Counted
    <3> QED BY <1>1, <2>2, <3>2 DEF Exact
  <2> QED BY <2>4, <2>5
<1>3. refs' \in [Loop -> Nat]
  <2>1. refs' = [l \in Loop |-> refs'[l]]
    OBVIOUS
  <2> QED BY <1>2, <2>1
<1> QED BY <1>2, <1>3 DEF Counted

\* Every step keeps the counts exact.
LEMMA NextCounted ==
  ASSUME RetainInv, [Next]_vars
  PROVE  Counted'
<1>1. CASE UNCHANGED vars
  BY <1>1 DEF vars, RetainInv, Counted, Exact, Entries, Casters, Holders, Finalizers
<1>2. CASE Destroy
  BY <1>2, DestroyCounts
<1>3. ASSUME NEW c \in Thread, Step(c) PROVE Counted'
  <2> USE DEF RetainInv, BaseInv, Shape, PC
  <2>1. CASE GetCurrent(c)
    BY <2>1, CalmCounts DEF GetCurrent, Goto, objects, thread
  <2>2. CASE GetMain(c)
    BY <2>2, CalmCounts DEF GetMain, Goto, objects, thread
  <2>3. CASE Get0(c)
    BY <2>3, CalmCounts DEF Get0, Goto, Target, Found, objects, thread
  <2>4. CASE NewTable(c)
    BY <2>4, NewTableCounts
  <2>5. CASE CasTable(c)
    BY <2>5, CasTableCounts
  <2>6. CASE DropMain(c)
    BY <2>6, DropMainCounts
  <2>7. CASE NewLoop(c)
    BY <2>7, NewLoopCounts
  <2>8. CASE Insert(c)
    BY <2>8, InsertCounts
  <2>9. CASE StoreMain(c)
    BY <2>9, CalmCounts DEF StoreMain, Goto, objects, thread
  <2>10. CASE Exit(c)
    BY <2>10, CalmCounts DEF Exit, objects, thread
  <2>11. CASE Destructors(c)
    BY <2>11, DestructorsCounts
  <2>12. CASE AskMain(c)
    BY <2>12, CalmCounts DEF AskMain, Goto, objects, thread
  <2>13. CASE Purge(c)
    BY <2>13, PurgeCounts
  <2>14. CASE Start(c)
    BY <2>14, CalmCounts, IterationsAssumption DEF Start, Phases, objects, thread
  <2> QED BY <1>3, <2>1, <2>2, <2>3, <2>4, <2>5, <2>6, <2>7, <2>8, <2>9, <2>10, <2>11, <2>12, <2>13, <2>14 DEF Step
<1> QED BY <1>1, <1>2, <1>3 DEF Next

\* The invariant holds at first and is kept.
LEMMA RetainInductive == Spec => []RetainInv
<1>1. Init => RetainInv
  <2> SUFFICES ASSUME Init PROVE RetainInv OBVIOUS
  <2>1. BaseInv
    BY InitInv DEF RegistryInv
  <2>2. Finalizing /\ Single
    BY DEF Init, Finalizing, Single
  <2>3. refs \in [Loop -> Nat]
    BY DEF Init
  <2>4. ASSUME NEW l \in Loop PROVE Exact(l)
    <3>1. Entries(l) = {} /\ Holders(l) = {} /\ Casters(l) = {} /\ Finalizers(l) = {}
      BY NoneAssumption DEF Init, Entries, Holders, Casters, Finalizers
    <3>2. Cardinality({}) = 0
      BY FS_EmptySet
    <3> QED BY <3>1, <3>2 DEF Init, Exact
  <2> QED BY <2>1, <2>2, <2>3, <2>4 DEF RetainInv, Counted
<1>2. RetainInv /\ [Next]_vars => RetainInv'
  <2> SUFFICES ASSUME RetainInv, [Next]_vars PROVE RetainInv' OBVIOUS
  <2>1. BaseInv' /\ Finalizing' /\ Single'
    BY NextBase, NextFinalizing, NextSingle DEF RetainInv
  <2>2. Counted'
    BY NextCounted
  <2> QED BY <2>1, <2>2 DEF RetainInv
<1> QED BY <1>1, <1>2, PTL DEF Spec

(***************************************************************************)
(* No run loop leaks and none is freed too early, whichever threads exit,  *)
(* the main thread included: through lost races for the table and for an   *)
(* entry, destructors and the end of the process, each retain count is the *)
(* number of places that hold a reference.                                 *)
(***************************************************************************)
THEOREM RetainsAreExact == Spec => []RetainsExact
<1>1. RetainInv => RetainsExact
  BY DEF RetainInv, Counted, Exact, RetainsExact, Entries, Casters
<1> QED BY <1>1, RetainInductive, PTL

(***************************************************************************)
(* Every reachable state of the registry is well typed: in particular no   *)
(* retain count drops below zero.                                          *)
(***************************************************************************)
THEOREM Typed == Spec => []TypeOK
<1>1. RetainInv /\ ended \in BOOLEAN => TypeOK
  BY DEF RetainInv, BaseInv, Shape, Counted, TypeOK
<1>2. Init => ended \in BOOLEAN
  BY DEF Init
<1>3. [Next]_vars => UNCHANGED ended \/ ended' = TRUE
  BY Zenon DEF Next, Step, vars, Destroy, GetCurrent, GetMain, Get0, NewTable, CasTable,
     DropMain, NewLoop, Insert, StoreMain, Exit, Destructors, AskMain, Purge, Start
<1>4. ended \in BOOLEAN /\ [Next]_vars => (ended \in BOOLEAN)'
  BY <1>3
<1> QED BY <1>1, <1>2, <1>4, RetainInductive, PTL DEF Spec
=============================================================================
