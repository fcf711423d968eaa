-------------------------- MODULE CFRunLoopProofs --------------------------
(***************************************************************************)
(* Theorems about CFRunLoop for every value of its constants: any sets of  *)
(* modes, sources and threads, any observers and any depth of nesting.     *)
(***************************************************************************)
EXTENDS CFRunLoop, TLAPS

\* The placeholder above the stack is a well-typed activation.
LEMMA UnusedType == Unused \in Activation
  <1>1. (CHOOSE m \in Mode : TRUE) \in Mode
    BY ModeAssumption
  <1>2. 0 \in Place
    BY DEF Place
  <1> QED BY <1>1, <1>2 DEF Unused, Activation, PC, Callout, Activity, Term

\* Both ports of a mode are in its port set, in either order.
LEMMA PlaceOfPort ==
  ASSUME TypeOK, Top.mode \in Mode, NEW p \in Port
  PROVE  PlaceOf(p) \in 1..2 /\ ports[Top.mode][PlaceOf(p)] = p
  <1>1. ports[Top.mode] \in PortOrder
    BY DEF TypeOK
  <1>2. \E i \in 1..2 : ports[Top.mode][i] = p
    BY <1>1 DEF PortOrder, Port
  <1> QED BY <1>2 DEF PlaceOf

\* The initial state is well typed.
LEMMA InitTypeOK == Init => TypeOK
  <1> SUFFICES ASSUME Init PROVE TypeOK
    OBVIOUS
  <1>1. Unused \in Activation
    BY UnusedType
  <1>2. ports \in [Mode -> PortOrder]
    BY DEF Init, Port, PortOrder
  <1>3. op \in [Thread -> Op]
    BY DEF Init, Op
  <1>4. act \in [Level -> Activation]
    BY <1>1 DEF Init
  <1>5. depth \in 0..MaxDepth
    BY DepthAssumption DEF Init
  <1>6. /\ modeStopped \in [Mode -> BOOLEAN]
        /\ expired \in [Mode -> BOOLEAN]
        /\ sources0 \in [Mode -> SUBSET Source]
        /\ signaled \in [Source -> BOOLEAN]
        /\ valid \in [Source -> BOOLEAN]
    BY DEF Init
  <1> QED BY <1>2, <1>3, <1>4, <1>5, <1>6 DEF Init, TypeOK

\* Replacing the running activation by a well-typed one keeps the stack typed.
LEMMA SetTopType ==
  ASSUME TypeOK, depth > 0, NEW a \in Activation, SetTop(a)
  PROVE  act' \in [Level -> Activation]
  BY DepthAssumption DEF TypeOK, SetTop, Level

\* The running activation is well typed, and its level is one of the stack.
LEMMA TopType == TypeOK /\ depth > 0 => Top \in Activation /\ depth \in Level
  BY DepthAssumption DEF TypeOK, Top, Level

\* Every step keeps the types.
LEMMA NextTypeOK == TypeOK /\ [Next]_vars => TypeOK'
  <1> SUFFICES ASSUME TypeOK, [Next]_vars PROVE TypeOK'
    OBVIOUS
  <1> USE DepthAssumption
  <1>a. ASSUME depth > 0, NEW p \in PC, Goto(p)
        PROVE  act' \in [Level -> Activation]
    BY <1>a, SetTopType, TopType DEF Goto, Activation
  <1>b. ASSUME depth > 0, Top.pc \in Activity, PassObservers
        PROVE  act' \in [Level -> Activation]
    <2>1. Top \in Activation
      BY <1>b, TopType
    <2>2. AfterObservers[Top.pc] \in PC
      BY <1>b DEF AfterObservers, Activity, Callout, PC
    <2>3. sources0[Top.mode] \in SUBSET Source
      BY <2>1 DEF TypeOK, Activation
    <2> QED BY <1>b, <2>1, <2>2, <2>3, SetTopType DEF PassObservers, Activation
  <1>c. ASSUME depth > 0, BeginIteration
        PROVE  act' \in [Level -> Activation] /\ ignoreWakeUps' \in BOOLEAN
    BY <1>c, SetTopType, TopType DEF BeginIteration, Activation, PC, Callout, Activity
  <1>1. CASE \E m \in Mode, t \in Timeout, sa \in StopAfter : RunSpecific(m, t, sa)
    <2> PICK m \in Mode, t \in Timeout, sa \in StopAfter : RunSpecific(m, t, sa)
      BY <1>1
    <2>1. NewActivation(m, t, sa) \in Activation
      BY TimeoutAssumption DEF NewActivation, TypeOK, Place, Activation, PC, Callout, Activity
    <2>2. act' \in [Level -> Activation] /\ depth' \in 0..MaxDepth
      BY <2>1 DEF RunSpecific, TypeOK, Level
    <2> QED BY <2>2 DEF RunSpecific, TypeOK, kqueue, items
  <1>2. CASE DoObservers
    <2>1. act' \in [Level -> Activation] /\ locked' \in BOOLEAN
      BY <1>2, <1>b DEF DoObservers, TypeOK
    <2> QED BY <1>2, <2>1 DEF DoObservers, TypeOK, flags, kqueue, items
  <1>3. CASE ObserversReturn
    <2>1. act' \in [Level -> Activation]
      BY <1>3, <1>b DEF ObserversReturn
    <2> QED BY <1>3, <2>1 DEF ObserversReturn, TypeOK, flags, kqueue, items
  <1>4. CASE Start
    <2>1. Top.mode \in Mode
      BY <1>4, TopType DEF Start, At, Activation
    <2>2. act' \in [Level -> Activation] /\ ignoreWakeUps' \in BOOLEAN
      BY <1>4, <1>a, <1>c DEF Start, At, PC, Callout, Activity, TypeOK
    <2>3. stopped' \in BOOLEAN /\ modeStopped' \in [Mode -> BOOLEAN]
      BY <1>4, <2>1 DEF Start, ConsumeStop, flags, TypeOK
    <2> QED BY <1>4, <2>2, <2>3 DEF Start, TypeOK, kqueue, items
  <1>5. ASSUME NEW s \in Source, CollectSource0(s)
        PROVE  TypeOK'
    <2>1. act' \in [Level -> Activation]
      BY <1>5, SetTopType, TopType DEF CollectSource0, At, Activation
    <2> QED BY <1>5, <2>1 DEF CollectSource0, TypeOK, flags, kqueue, items
  <1>6. ASSUME NEW s \in Source, PerformSource0(s)
        PROVE  TypeOK'
    <2>1. act' \in [Level -> Activation]
      BY <1>6, SetTopType, TopType DEF PerformSource0, At, Activation, PC, Callout
    <2>2. signaled' \in [Source -> BOOLEAN]
      BY <1>6 DEF PerformSource0, TypeOK
    <2> QED BY <1>6, <2>1, <2>2 DEF PerformSource0, TypeOK, flags, kqueue
  <1>7. CASE CollectedSources0
    <2>1. act' \in [Level -> Activation]
      BY <1>7, <1>a DEF CollectedSources0, At, PC, Callout, Activity
    <2>2. locked' \in BOOLEAN
      BY <1>7 DEF CollectedSources0
    <2> QED BY <1>7, <2>1, <2>2 DEF CollectedSources0, TypeOK, flags, kqueue, items
  <1>8. CASE Source0Returns
    <2>1. act' \in [Level -> Activation]
      BY <1>8, SetTopType, TopType DEF Source0Returns, At, Activation, PC
    <2> QED BY <1>8, <2>1 DEF Source0Returns, TypeOK, flags, kqueue, items
  <1>9. CASE DoneSources0
    <2>1. act' \in [Level -> Activation]
      BY <1>9, <1>a DEF DoneSources0, At, PC, Callout, Activity
    <2> QED BY <1>9, <2>1 DEF DoneSources0, TypeOK, flags, kqueue, items
  <1>10. CASE Sleep
    <2>1. act' \in [Level -> Activation]
      BY <1>10, <1>a DEF Sleep, At, PC
    <2>2. ports' \in [Mode -> PortOrder]
      <3>1. Top.mode \in Mode
        BY <1>10, TopType DEF Sleep, At, Activation
      <3>2. Rotate(ports[Top.mode]) \in PortOrder
        BY <3>1 DEF Rotate, TypeOK, PortOrder
      <3> QED BY <1>10, <3>2 DEF Sleep, TypeOK
    <2> QED BY <1>10, <2>1, <2>2 DEF Sleep, TypeOK, flags, items
  <1>d. ASSUME NEW e \in Port \cup {"none"}, Returns(e)
        PROVE  act' \in [Level -> Activation]
    <2>1. depth > 0 /\ Top \in Activation
      BY <1>d, TopType DEF Returns, At
    <2>2. e # "none" => PlaceOf(e) \in 1..2
      BY <2>1, PlaceOfPort DEF Activation
    <2>3. [Top EXCEPT !.pc = "woken",
             !.live = IF e = "none" THEN 0 ELSE PlaceOf(e)] \in Activation
      <3>1. (IF e = "none" THEN 0 ELSE PlaceOf(e)) \in Place
        BY <2>2 DEF Place
      <3> QED BY <2>1, <3>1 DEF Activation, PC
    <2> QED BY <1>d, <2>1, <2>3, SetTopType DEF Returns
  <1>e. ASSUME ClearEvents
        PROVE  wakePort' \in BOOLEAN /\ expired' \in [Mode -> BOOLEAN]
    BY <1>e DEF ClearEvents
  <1>11. CASE WaitWake
    <2>1. Returns("wake") /\ act' \in [Level -> Activation]
      BY <1>11, <1>d DEF WaitWake, Port
    <2> QED BY <1>11, <1>e, <2>1 DEF WaitWake, Returns, TypeOK, flags, items
  <1>12. ASSUME NEW m \in Mode, WaitTimer(m)
         PROVE  TypeOK'
    <2> DEFINE e == IF m = Top.mode THEN "timer" ELSE "none"
    <2>1. Returns(e) /\ act' \in [Level -> Activation]
      BY <1>12, <1>d DEF WaitTimer, Port
    <2> QED BY <1>12, <1>e, <2>1 DEF WaitTimer, Returns, TypeOK, flags, items
  <1>13. CASE WaitPolled \/ WaitFails
    <2>1. Returns("none") /\ act' \in [Level -> Activation]
      BY <1>13, <1>d DEF WaitPolled, WaitFails
    <2> QED BY <1>13, <2>1 DEF WaitPolled, WaitFails, Returns, TypeOK, flags, items
  <1>14. CASE Woken
    <2>1. act' \in [Level -> Activation]
      BY <1>14, <1>a DEF Woken, At, PC, Callout, Activity
    <2> QED BY <1>14, <2>1 DEF Woken, TypeOK, flags, kqueue, items
  <1>15. CASE Handle
    <2>1. ASSUME NEW p \in PC, depth > 0, Leave(p)
          PROVE  act' \in [Level -> Activation]
      <3>1. 0 \in Place
        BY DEF Place
      <3> QED BY <2>1, <3>1, SetTopType, TopType DEF Leave, Activation
    <2>2. act' \in [Level -> Activation]
      BY <1>15, <2>1 DEF Handle, At, PC, Callout
    <2>3. wakePort' \in BOOLEAN /\ locked' \in BOOLEAN
      BY <1>15 DEF Handle, TypeOK
    <2> QED BY <1>15, <2>2, <2>3 DEF Handle, TypeOK, flags, items
  <1>16. CASE TimersReturn
    <2>1. act' \in [Level -> Activation]
      BY <1>16, <1>a DEF TimersReturn, At, PC
    <2> QED BY <1>16, <2>1 DEF TimersReturn, TypeOK, flags, kqueue, items
  <1>17. CASE Decide
    <2>1. Top.mode \in Mode
      BY <1>17, TopType DEF Decide, At, Activation
    <2>2. act' \in [Level -> Activation] /\ ignoreWakeUps' \in BOOLEAN
      BY <1>17, <1>a, <1>c DEF Decide, StopOrGoOn, At, PC, Callout, Activity, TypeOK
    <2>3. stopped' \in BOOLEAN /\ modeStopped' \in [Mode -> BOOLEAN]
      BY <1>17, <2>1 DEF Decide, StopOrGoOn, ConsumeStop, flags, TypeOK
    <2> QED BY <1>17, <2>2, <2>3 DEF Decide, TypeOK, kqueue, items
  <1>18. CASE Return
    <2>1. depth > 0 /\ Top \in Activation
      BY <1>18, TopType DEF Return, At
    <2>2. act' \in [Level -> Activation]
      BY <1>18, <2>1, UnusedType, SetTopType DEF Return
    <2>3. depth' \in 0..MaxDepth
      BY <1>18, <2>1 DEF Return, TypeOK
    <2>4. stopped' \in BOOLEAN
      BY <1>18, <2>1 DEF Return, Activation
    <2> QED BY <1>18, <2>2, <2>3, <2>4 DEF Return, TypeOK, kqueue, items
  <1>19. ASSUME NEW t \in Thread, ThreadStep(t)
         PROVE  TypeOK'
    <2>1. CASE WakeUp(t)
      <3>1. op' \in [Thread -> Op]
        BY <2>1 DEF WakeUp, TypeOK, Op
      <3>2. wakePort' \in BOOLEAN
        BY <2>1 DEF WakeUp
      <3> QED BY <2>1, <3>1, <3>2 DEF WakeUp, TypeOK, flags, items
    <2>2. CASE Stop(t)
      <3>1. op' \in [Thread -> Op]
        BY <2>2 DEF Stop, TypeOK, Op
      <3> QED BY <2>2, <3>1 DEF Stop, TypeOK, kqueue, items
    <2>3. ASSUME NEW m \in Mode, StopMode(t, m)
          PROVE  TypeOK'
      <3>1. op' \in [Thread -> Op]
        BY <2>3 DEF StopMode, TypeOK, Op
      <3>2. modeStopped' \in [Mode -> BOOLEAN]
        BY <2>3 DEF StopMode, TypeOK
      <3> QED BY <2>3, <3>1, <3>2 DEF StopMode, TypeOK, kqueue, items
    <2>4. ASSUME NEW s \in Source, SourceSignal(t, s)
          PROVE  TypeOK'
      <3>1. op' \in [Thread -> Op]
        BY <2>4 DEF SourceSignal, TypeOK, Op
      <3>2. signaled' \in [Source -> BOOLEAN]
        BY <2>4 DEF SourceSignal, TypeOK
      <3> QED BY <2>4, <3>1, <3>2 DEF SourceSignal, TypeOK, flags, kqueue
    <2>5. ASSUME NEW s \in Source, SourceInvalidate(t, s)
          PROVE  TypeOK'
      <3>1. op' \in [Thread -> Op]
        BY <2>5 DEF SourceInvalidate, TypeOK, Op
      <3>2. signaled' \in [Source -> BOOLEAN] /\ valid' \in [Source -> BOOLEAN]
        BY <2>5 DEF SourceInvalidate, TypeOK
      <3> QED BY <2>5, <3>1, <3>2 DEF SourceInvalidate, TypeOK, flags, kqueue
    <2>6. ASSUME NEW s \in Source, RemoveFromRunLoop(t, s)
          PROVE  TypeOK'
      <3>1. op' \in [Thread -> Op]
        BY <2>6 DEF RemoveFromRunLoop, TypeOK, Op
      <3>2. sources0' \in [Mode -> SUBSET Source]
        BY <2>6 DEF RemoveFromRunLoop, TypeOK
      <3> QED BY <2>6, <3>1, <3>2 DEF RemoveFromRunLoop, TypeOK, flags, kqueue
    <2>7. ASSUME NEW s \in Source, NEW m \in Mode, AddSource(t, s, m)
          PROVE  TypeOK'
      <3>1. op' \in [Thread -> Op]
        BY <2>7 DEF AddSource, TypeOK, Op
      <3> QED BY <2>7, <3>1 DEF AddSource, TypeOK, flags, kqueue, items
    <2>8. ASSUME NEW s \in Source, NEW m \in Mode, AddSourceLocked(t, s, m)
          PROVE  TypeOK'
      <3>1. op' \in [Thread -> Op]
        BY <2>8 DEF AddSourceLocked, TypeOK, Op
      <3>2. sources0' \in [Mode -> SUBSET Source]
        BY <2>8 DEF AddSourceLocked, TypeOK
      <3> QED BY <2>8, <3>1, <3>2 DEF AddSourceLocked, TypeOK, flags, kqueue
    <2>9. ASSUME NEW s \in Source, NEW m \in Mode, RemoveSource(t, s, m)
          PROVE  TypeOK'
      <3>1. sources0' \in [Mode -> SUBSET Source]
        BY <2>9 DEF RemoveSource, TypeOK
      <3> QED BY <2>9, <3>1 DEF RemoveSource, TypeOK, flags, kqueue
    <2>10. \A s \in Source : Home[s] \subseteq Mode
      BY HomeAssumption
    <2> QED BY <1>19, <2>1, <2>2, <2>3, <2>4, <2>5, <2>6, <2>7, <2>8, <2>9, <2>10
            DEF ThreadStep
  <1>21. ASSUME NEW m \in Mode, TimerExpires(m)
         PROVE  TypeOK'
    <2>1. expired' \in [Mode -> BOOLEAN]
      BY <1>21 DEF TimerExpires, TypeOK
    <2> QED BY <1>21, <2>1 DEF TimerExpires, TypeOK, flags, items
  <1>22. CASE UNCHANGED vars
    BY <1>22 DEF vars, TypeOK
  <1>23. CASE LoopStep
    BY <1>23, <1>2, <1>3, <1>4, <1>5, <1>6, <1>7, <1>8, <1>9, <1>10, <1>11, <1>12,
       <1>13, <1>14, <1>15, <1>16, <1>17, <1>18 DEF LoopStep
  <1> QED BY <1>1, <1>13, <1>19, <1>21, <1>22, <1>23 DEF Next

(***************************************************************************)
(* Type correctness of the run loop for any number of modes, sources,      *)
(* threads and nested activations.                                         *)
(***************************************************************************)
THEOREM TypeCorrect == Spec => []TypeOK
  <1> QED BY InitTypeOK, NextTypeOK, PTL DEF Spec

-----------------------------------------------------------------------------
(***************************************************************************)
(* The stack of activations below the running one, and the sleeping bit.   *)
(***************************************************************************)

\* A suspended activation is in one of the callouts that may nest a run.
SuspendedAtNest == \A d \in Level : d < depth => act[d].pc \in NestAt

StackInv == TypeOK /\ SuspendedAtNest /\ SleepingIffWaiting

\* Every step changes the stack in one of four ways.
Runs   == depth > 0 /\ depth' = depth /\ \A d \in Level : d # depth => act'[d] = act[d]
Nests  == /\ depth' = depth + 1
          /\ depth > 0 => Top.pc \in NestAt
          /\ Top'.pc = "entry"
          /\ \A d \in Level : d # depth + 1 => act'[d] = act[d]
Leaves == /\ depth > 0 /\ Top.pc = "return" /\ depth' = depth - 1
          /\ \A d \in Level : d # depth => act'[d] = act[d]
Rests  == UNCHANGED <<act, depth>>

\* SetTop changes the running activation to its argument, and no other.
LEMMA SetTopEffect ==
  ASSUME TypeOK, depth > 0, depth' = depth, NEW a, SetTop(a)
  PROVE  Runs /\ Top' = a
  BY DepthAssumption DEF TypeOK, SetTop, Runs, Top, Level

\* The part of LoopStep that leaves the stack's height alone, and WaitFails.
TopStep ==
    \/ DoObservers \/ ObserversReturn \/ Start
    \/ \E s \in Source : CollectSource0(s) \/ PerformSource0(s)
    \/ CollectedSources0 \/ Source0Returns \/ DoneSources0
    \/ Sleep \/ WaitWake \/ (\E m \in Mode : WaitTimer(m)) \/ WaitPolled
    \/ WaitFails \/ Woken \/ Handle \/ TimersReturn \/ Decide

\* A step of the running activation keeps the sleeping bit exact.
LEMMA TopStepSleeping ==
  ASSUME TypeOK, SleepingIffWaiting, TopStep
  PROVE  Runs /\ SleepingIffWaiting'
  <1>a. ASSUME depth > 0, depth' = depth, UNCHANGED act
        PROVE  Runs /\ Top' = Top
    BY <1>a DEF Runs, Top
  <1>b. ASSUME NEW a, depth > 0, depth' = depth, SetTop(a), UNCHANGED sleeping,
               Top.pc \notin {"wait", "woken"}, a.pc \notin {"wait", "woken"}
        PROVE  Runs /\ SleepingIffWaiting'
    BY <1>b, SetTopEffect DEF SleepingIffWaiting
  <1>c. ASSUME depth > 0, Top.pc \in Activity, depth' = depth, PassObservers,
               UNCHANGED sleeping
        PROVE  Runs /\ SleepingIffWaiting'
    <2>1. AfterObservers[Top.pc] \notin {"wait", "woken"}
      BY <1>c DEF AfterObservers, Activity
    <2> DEFINE a == [Top EXCEPT !.pc = AfterObservers[@],
                       !.todo = IF Top.pc = "beforeSources"
                                  THEN sources0[Top.mode] ELSE {}]
    <2>2. a.pc \notin {"wait", "woken"}
      BY <2>1, <1>c, TopType DEF Activation
    <2>3. SetTop(a)
      BY <1>c DEF PassObservers
    <2>4. Top.pc \notin {"wait", "woken"}
      BY <1>c DEF Activity
    <2> HIDE DEF a
    <2> QED BY <1>b, <1>c, <2>2, <2>3, <2>4
  <1>1. CASE DoObservers
    <2>1. CASE UNCHANGED act
      BY <1>1, <2>1, <1>a DEF DoObservers, SleepingIffWaiting
    <2>2. CASE PassObservers
      BY <1>1, <2>2, <1>c DEF DoObservers
    <2> QED BY <1>1, <2>1, <2>2 DEF DoObservers
  <1>2. CASE ObserversReturn
    BY <1>2, <1>c DEF ObserversReturn
  <1>d. ASSUME NEW q, depth > 0, depth' = depth, Goto(q), UNCHANGED sleeping,
               Top.pc \notin {"wait", "woken"}, q \notin {"wait", "woken"}
        PROVE  Runs /\ SleepingIffWaiting'
    BY <1>d, <1>b, TopType DEF Goto, Activation
  <1>e. ASSUME depth > 0, depth' = depth, BeginIteration, UNCHANGED sleeping,
               Top.pc \notin {"wait", "woken"}
        PROVE  Runs /\ SleepingIffWaiting'
    BY <1>e, <1>b, TopType DEF BeginIteration, Activation
  <1>3. CASE Start
    BY <1>3, <1>d, <1>e DEF Start, At
  <1>4. ASSUME NEW s \in Source, CollectSource0(s)
        PROVE  Runs /\ SleepingIffWaiting'
    BY <1>4, <1>b, TopType DEF CollectSource0, At, Activation
  <1>5. ASSUME NEW s \in Source, PerformSource0(s)
        PROVE  Runs /\ SleepingIffWaiting'
    BY <1>5, <1>b, TopType DEF PerformSource0, At, Activation
  <1>6. CASE CollectedSources0
    BY <1>6, <1>d DEF CollectedSources0, At
  <1>7. CASE Source0Returns
    BY <1>7, <1>b, TopType DEF Source0Returns, At, Activation
  <1>8. CASE DoneSources0
    BY <1>8, <1>d DEF DoneSources0, At
  <1>9. CASE Sleep
    <2>1. Runs /\ Top' = [Top EXCEPT !.pc = "wait"]
      BY <1>9, SetTopEffect DEF Sleep, Goto, At
    <2>2. Top'.pc = "wait" /\ depth' > 0 /\ sleeping'
      BY <1>9, <2>1, TopType DEF Sleep, At, Activation
    <2> QED BY <2>1, <2>2 DEF SleepingIffWaiting
  <1>f. ASSUME NEW e, Returns(e)
        PROVE  Runs /\ SleepingIffWaiting'
    <2> DEFINE a == [Top EXCEPT !.pc = "woken",
                       !.live = IF e = "none" THEN 0 ELSE PlaceOf(e)]
    <2>1. Runs /\ Top' = a
      BY <1>f, SetTopEffect DEF Returns, At
    <2>2. depth > 0 /\ depth' = depth /\ Top.pc = "wait" /\ sleeping' = sleeping
      BY <1>f DEF Returns, At
    <2>3. a.pc = "woken"
      BY <2>2, TopType DEF Activation
    <2> QED BY <2>1, <2>2, <2>3 DEF SleepingIffWaiting
  <1>10. CASE WaitWake
    BY <1>10, <1>f DEF WaitWake
  <1>11. ASSUME NEW m \in Mode, WaitTimer(m)
         PROVE  Runs /\ SleepingIffWaiting'
    BY <1>11, <1>f DEF WaitTimer
  <1>12. CASE WaitPolled \/ WaitFails
    BY <1>12, <1>f DEF WaitPolled, WaitFails
  <1>13. CASE Woken
    <2>1. Runs /\ Top' = [Top EXCEPT !.pc = "afterWaiting"]
      BY <1>13, SetTopEffect DEF Woken, Goto, At
    <2>2. Top'.pc = "afterWaiting" /\ ~sleeping'
      BY <1>13, <2>1, TopType DEF Woken, At, Activation
    <2> QED BY <2>1, <2>2 DEF SleepingIffWaiting
  <1>14. CASE Handle
    <2>1. ASSUME NEW q, q \notin {"wait", "woken"}, Leave(q)
          PROVE  Runs /\ SleepingIffWaiting'
      BY <1>14, <2>1, <1>b, TopType DEF Handle, At, Leave, Activation
    <2> QED BY <1>14, <2>1 DEF Handle
  <1>15. CASE TimersReturn
    BY <1>15, <1>d DEF TimersReturn, At
  <1>16. CASE Decide
    BY <1>16, <1>d, <1>e DEF Decide, StopOrGoOn, At
  <1> QED BY <1>1, <1>2, <1>3, <1>4, <1>5, <1>6, <1>7, <1>8, <1>9, <1>10, <1>11,
             <1>12, <1>13, <1>14, <1>15, <1>16 DEF TopStep

\* Other threads and the timers leave the stack as it is.
LEMMA OtherStepRests ==
  ASSUME \/ \E t \in Thread : ThreadStep(t)
         \/ \E m \in Mode : TimerExpires(m)
         \/ UNCHANGED vars
  PROVE  Rests /\ sleeping' = sleeping
  <1>1. ASSUME NEW t \in Thread, ThreadStep(t)
        PROVE  UNCHANGED <<act, depth, sleeping>>
    BY <1>1 DEF ThreadStep, WakeUp, Stop, StopMode, SourceSignal, SourceInvalidate,
       RemoveFromRunLoop, AddSource, AddSourceLocked, RemoveSource
  <1>2. ASSUME NEW m \in Mode, TimerExpires(m)
        PROVE  UNCHANGED <<act, depth, sleeping>>
    BY <1>2 DEF TimerExpires
  <1> QED BY <1>1, <1>2 DEF Rests, vars

\* An activation that returns uncovers one that is in a nesting callout.
LEMMA ReturnToNest ==
  ASSUME TypeOK, SuspendedAtNest, Return, depth' > 0
  PROVE  Top'.pc \in NestAt
  <1>1. /\ depth' = depth - 1 /\ depth - 1 \in Level
        /\ depth - 1 < depth /\ depth - 1 # depth
    BY DepthAssumption DEF Return, At, TypeOK, Level
  <1>2. act'[depth - 1] = act[depth - 1] /\ act[depth - 1].pc \in NestAt
    BY <1>1 DEF Return, SetTop, SuspendedAtNest, TypeOK
  <1> QED BY <1>1, <1>2 DEF Top

\* Every step keeps StackInv: what lies below the top is in a nesting callout.
LEMMA NextStack == StackInv /\ [Next]_vars => StackInv'
  <1> SUFFICES ASSUME StackInv, [Next]_vars PROVE StackInv'
    OBVIOUS
  <1> USE DEF StackInv
  <1>1. TypeOK'
    BY NextTypeOK
  <1>2. CASE TopStep
    <2>1. Runs /\ SleepingIffWaiting'
      BY <1>2, TopStepSleeping
    <2>2. SuspendedAtNest'
      BY <2>1 DEF Runs, SuspendedAtNest, TypeOK, Level
    <2> QED BY <1>1, <2>1, <2>2
  <1>3. ASSUME NEW m \in Mode, NEW t \in Timeout, NEW sa \in StopAfter,
               RunSpecific(m, t, sa)
        PROVE  StackInv'
    <2>1. Nests /\ sleeping' = sleeping
      BY <1>3, DepthAssumption
         DEF RunSpecific, Nests, Top, NewActivation, TypeOK, Level
    <2>2. SuspendedAtNest'
      BY <2>1 DEF Nests, SuspendedAtNest, Top, TypeOK, Level
    <2>3. ~sleeping
      BY <2>1, NestAssumption DEF Nests, SleepingIffWaiting, Callout, Activity
    <2>4. SleepingIffWaiting'
      BY <2>1, <2>3 DEF Nests, SleepingIffWaiting
    <2> QED BY <1>1, <2>2, <2>4
  <1>4. CASE Return
    <2>1. Leaves /\ sleeping' = sleeping
      BY <1>4, DepthAssumption DEF Return, At, SetTop, Leaves, TypeOK, Level
    <2>2. SuspendedAtNest'
      BY <2>1 DEF Leaves, SuspendedAtNest, TypeOK, Level
    <2>3. ~sleeping
      BY <2>1 DEF Leaves, SleepingIffWaiting
    <2>4. depth' > 0 => Top'.pc \in NestAt
      BY <1>4, ReturnToNest
    <2>5. SleepingIffWaiting'
      BY <2>1, <2>3, <2>4, NestAssumption DEF SleepingIffWaiting, Callout, Activity
    <2> QED BY <1>1, <2>2, <2>5
  <1>5. CASE \/ \E t \in Thread : ThreadStep(t)
             \/ \E m \in Mode : TimerExpires(m)
             \/ UNCHANGED vars
    <2>1. Rests /\ sleeping' = sleeping
      BY <1>5, OtherStepRests
    <2>2. SuspendedAtNest'
      BY <2>1 DEF Rests, SuspendedAtNest
    <2>3. Top' = Top
      BY <2>1 DEF Rests, Top
    <2>4. SleepingIffWaiting'
      BY <2>1, <2>3 DEF Rests, SleepingIffWaiting
    <2> QED BY <1>1, <2>2, <2>4
  <1>6. \/ TopStep \/ Return
        \/ \E m \in Mode, t \in Timeout, sa \in StopAfter : RunSpecific(m, t, sa)
        \/ \E t \in Thread : ThreadStep(t)
        \/ \E m \in Mode : TimerExpires(m)
        \/ UNCHANGED vars
    BY DEF Next, LoopStep, TopStep
  <1> QED BY <1>2, <1>3, <1>4, <1>5, <1>6

\* The initial state satisfies StackInv.
LEMMA InitStack == Init => StackInv
  <1>1. Init => SuspendedAtNest /\ SleepingIffWaiting
    BY DEF Init, SuspendedAtNest, SleepingIffWaiting, Level
  <1> QED BY <1>1, InitTypeOK DEF StackInv

(***************************************************************************)
(* CFRunLoopIsWaiting tells the truth however deep runs are nested: the    *)
(* sleeping bit is set exactly while the running activation waits.         *)
(***************************************************************************)
THEOREM SleepingBitIsExact == Spec => []SleepingIffWaiting
  <1>1. StackInv => SleepingIffWaiting
    BY DEF StackInv
  <1> QED BY <1>1, InitStack, NextStack, PTL DEF Spec

-----------------------------------------------------------------------------
(***************************************************************************)
(* No lost wake-up.  While the running activation is between the top of an *)
(* iteration and its wait and has handled no source (so that it may block),*)
(* wake-ups are heard, and whatever the rest of the iteration will not look*)
(* at any more is announced: the port is raised or a wake-up is coming.    *)
(***************************************************************************)

Armed == {"beforeTimers", "beforeSources", "sources", "perform",
          "beforeWaiting", "sleep", "wait"}

Open == depth > 0 /\ Top.pc \in Armed /\ ~Top.handled

\* __CFRunLoopDoSources0 of this iteration will not perform s any more.
Inspected(s) ==
    /\ Top.pc \notin {"beforeTimers", "beforeSources"}
    /\ Top.pc = "sources" => s \notin Top.todo
    /\ Top.pc \in {"sources", "perform"} => s \notin Top.batch

Announced == wakePort \/ WakeUpComing

WakeUpsHeard == Open => ~ignoreWakeUps

SignalAnnounced ==
    Open => \A s \in sources0[Top.mode] :
              valid[s] /\ signaled[s] /\ Inspected(s) => Announced

StopAnnounced == Open => (stopped \/ modeStopped[Top.mode] => Announced)

WakeInv == WakeUpsHeard /\ SignalAnnounced /\ StopAnnounced

\* Before the wait nothing but the running activation's progress changes.
Progress ==
    /\ depth' = depth
    /\ Top'.mode = Top.mode
    /\ UNCHANGED <<stopped, modeStopped, ignoreWakeUps, wakePort, op, sources0, valid>>
    /\ \A s \in sources0[Top.mode] :
         valid[s] /\ signaled'[s] /\ Inspected(s)' => signaled[s] /\ Inspected(s)

\* A step inside the armed part that keeps the requests announced keeps WakeInv.
LEMMA ProgressKeeps ==
  ASSUME WakeInv, Progress, Open' => Open
  PROVE  WakeInv'
  <1>1. Announced' = Announced
    BY DEF Progress, Announced, WakeUpComing
  <1>2. WakeUpsHeard'
    BY DEF WakeInv, WakeUpsHeard, Progress
  <1>3. SignalAnnounced'
    BY <1>1 DEF WakeInv, SignalAnnounced, Progress
  <1>4. StopAnnounced'
    BY <1>1 DEF WakeInv, StopAnnounced, Progress
  <1> QED BY <1>2, <1>3, <1>4 DEF WakeInv

\* Outside the part that WakeInv speaks of, it holds trivially.
LEMMA ClosedKeeps == ASSUME ~Open' PROVE WakeInv'
  BY DEF WakeInv, WakeUpsHeard, SignalAnnounced, StopAnnounced

\* A new iteration starts with no stop request and nothing inspected.
LEMMA BeginKeeps ==
  ASSUME TypeOK, depth > 0, depth' = depth, BeginIteration,
         ~stopped, ~modeStopped[Top.mode], UNCHANGED flags
  PROVE  WakeInv'
  <1>1. Top' = [Top EXCEPT !.pc = "beforeTimers", !.handled = FALSE]
    BY SetTopEffect DEF BeginIteration
  <1>2. Top'.pc = "beforeTimers" /\ Top'.mode = Top.mode
    BY <1>1, TopType DEF Activation
  <1>3. WakeUpsHeard'
    BY DEF WakeUpsHeard, BeginIteration
  <1>4. SignalAnnounced'
    BY <1>2 DEF SignalAnnounced, Inspected
  <1>5. StopAnnounced'
    BY <1>2 DEF StopAnnounced, flags
  <1> QED BY <1>3, <1>4, <1>5 DEF WakeInv

\* A step to a point outside the armed part, or one that has handled a source.
LEMMA DisarmKeeps ==
  ASSUME TypeOK, depth > 0, depth' = depth, NEW a, SetTop(a),
         a.pc \notin Armed \/ a.handled
  PROVE  WakeInv'
  BY SetTopEffect, ClosedKeeps DEF Open

\* A jump out of the armed part keeps WakeInv.
LEMMA GotoDisarms ==
  ASSUME TypeOK, depth > 0, depth' = depth, NEW q, Goto(q), q \notin Armed
  PROVE  WakeInv'
  BY TopType, DisarmKeeps DEF Goto, Activation

\* The callouts of observers keep WakeInv.
LEMMA ObserversKeepWake ==
  ASSUME TypeOK, WakeInv, DoObservers \/ ObserversReturn
  PROVE  WakeInv'
  <1>1. /\ depth > 0 /\ depth' = depth /\ Top.pc \in Activity
        /\ UNCHANGED act \/ PassObservers
        /\ UNCHANGED <<stopped, modeStopped, ignoreWakeUps, wakePort, op,
                       sources0, signaled, valid>>
    BY DEF DoObservers, ObserversReturn, flags, kqueue, items
  <1>2. Top \in Activation
    BY <1>1, TopType
  <1>3. CASE UNCHANGED act
    <2>1. Top' = Top
      BY <1>1, <1>3 DEF Top
    <2>2. Progress /\ Open' = Open
      BY <1>1, <2>1 DEF Progress, Open, Inspected
    <2> QED BY <2>2, ProgressKeeps
  <1>4. CASE PassObservers
    <2> DEFINE a == [Top EXCEPT !.pc = AfterObservers[@],
                       !.todo = IF Top.pc = "beforeSources"
                                  THEN sources0[Top.mode] ELSE {}]
    <2>1. Top' = a
      BY <1>1, <1>4, SetTopEffect DEF PassObservers
    <2>2. /\ Top'.pc = AfterObservers[Top.pc] /\ Top'.mode = Top.mode
          /\ Top'.handled = Top.handled /\ Top'.batch = Top.batch
          /\ Top.pc = "beforeSources" => Top'.todo = sources0[Top.mode]
      BY <1>2, <2>1 DEF Activation
    <2>3. \/ Top.pc = "beforeTimers" /\ Top'.pc = "beforeSources"
          \/ Top.pc = "beforeSources" /\ Top'.pc = "sources"
          \/ Top.pc = "beforeWaiting" /\ Top'.pc = "sleep"
          \/ Top'.pc \notin Armed
      BY <1>1, <2>2 DEF AfterObservers, Activity, Armed
    <2>4. CASE Top'.pc \notin Armed
      BY <2>4, ClosedKeeps DEF Open
    <2>5. CASE Top'.pc \in Armed
      <3>1. Progress
        BY <1>1, <2>2, <2>3, <2>5 DEF Progress, Inspected
      <3>2. Open' => Open
        BY <1>1, <2>2, <2>3, <2>5 DEF Open, Armed
      <3> QED BY <3>1, <3>2, ProgressKeeps
    <2> QED BY <2>4, <2>5
  <1> QED BY <1>1, <1>3, <1>4

\* Collecting and performing sources keeps WakeInv.
LEMMA SourcesKeepWake ==
  ASSUME TypeOK, WakeInv,
         \/ \E s \in Source : CollectSource0(s) \/ PerformSource0(s)
         \/ CollectedSources0 \/ Source0Returns \/ DoneSources0
  PROVE  WakeInv'
  <1>1. ASSUME NEW s \in Source, CollectSource0(s)
        PROVE  WakeInv'
    <2>1. depth > 0 /\ Top \in Activation /\ Top.pc = "sources" /\ depth' = depth
      BY <1>1, TopType DEF CollectSource0, At
    <2> DEFINE a == [Top EXCEPT !.todo = @ \ {s},
                             !.batch = IF valid[s] /\ signaled[s]
                                         THEN @ \cup {s} ELSE @]
    <2>a. SetTop(a)
      BY <1>1 DEF CollectSource0
    <2>2. Top' = a
      <3> HIDE DEF a
      <3> QED BY <2>1, <2>a, SetTopEffect
    <2>3. /\ Top'.pc = "sources" /\ Top'.mode = Top.mode /\ Top'.handled = Top.handled
          /\ Top'.todo = Top.todo \ {s}
          /\ Top'.batch = IF valid[s] /\ signaled[s]
                            THEN Top.batch \cup {s} ELSE Top.batch
      BY <2>1, <2>2 DEF Activation
    <2>4. UNCHANGED <<stopped, modeStopped, ignoreWakeUps, wakePort, op,
                      sources0, signaled, valid>>
      BY <1>1 DEF CollectSource0, flags, kqueue, items
    <2>5. Progress
      BY <2>1, <2>3, <2>4 DEF Progress, Inspected
    <2>6. Open' => Open
      BY <2>1, <2>3 DEF Open
    <2> QED BY <2>5, <2>6, ProgressKeeps
  <1>2. ASSUME NEW s \in Source, PerformSource0(s)
        PROVE  WakeInv'
    <2>1. depth > 0 /\ Top \in Activation /\ Top.pc = "perform" /\ depth' = depth
      BY <1>2, TopType DEF PerformSource0, At
    <2> DEFINE a == [Top EXCEPT !.batch = @ \ {s},
                             !.pc = IF signaled[s] /\ valid[s]
                                      THEN "source0" ELSE "perform"]
    <2>a. SetTop(a)
      BY <1>2 DEF PerformSource0
    <2>2. Top' = a
      <3> HIDE DEF a
      <3> QED BY <2>1, <2>a, SetTopEffect
    <2>3. /\ Top'.pc = IF signaled[s] /\ valid[s] THEN "source0" ELSE "perform"
          /\ Top'.mode = Top.mode /\ Top'.handled = Top.handled
          /\ Top'.batch = Top.batch \ {s}
      BY <2>1, <2>2 DEF Activation
    <2>4. /\ signaled' = [signaled EXCEPT ![s] = FALSE]
          /\ UNCHANGED <<stopped, modeStopped, ignoreWakeUps, wakePort, op,
                         sources0, valid>>
      BY <1>2 DEF PerformSource0, flags, kqueue
    <2>5. CASE signaled[s] /\ valid[s]
      BY <2>3, <2>5, ClosedKeeps DEF Open, Armed
    <2>6. CASE ~(signaled[s] /\ valid[s])
      <3>1. \A r \in Source : signaled'[r] => r # s /\ signaled[r]
        BY <2>4 DEF TypeOK
      <3>2. sources0[Top.mode] \subseteq Source
        BY <2>1 DEF TypeOK, Activation
      <3>3. Progress
        BY <2>1, <2>3, <2>4, <2>6, <3>1, <3>2 DEF Progress, Inspected
      <3>4. Open' => Open
        BY <2>1, <2>3, <2>6 DEF Open
      <3> QED BY <3>3, <3>4, ProgressKeeps
    <2> QED BY <2>5, <2>6
  <1>3. CASE CollectedSources0
    <2> DEFINE q == IF Top.batch = {} THEN "beforeWaiting" ELSE "perform"
    <2>1. /\ depth > 0 /\ Top \in Activation /\ Top.pc = "sources" /\ depth' = depth
          /\ Top.todo = {}
      BY <1>3, TopType DEF CollectedSources0, At
    <2>2. Top' = [Top EXCEPT !.pc = q]
      BY <1>3, <2>1, SetTopEffect DEF CollectedSources0, Goto
    <2>3. /\ Top'.pc = q /\ Top'.mode = Top.mode /\ Top'.handled = Top.handled
          /\ Top'.batch = Top.batch
      BY <2>1, <2>2 DEF Activation
    <2>4. UNCHANGED <<stopped, modeStopped, ignoreWakeUps, wakePort, op,
                      sources0, signaled, valid>>
      BY <1>3 DEF CollectedSources0, flags, kqueue, items
    <2>5. Progress
      BY <2>1, <2>3, <2>4 DEF Progress, Inspected
    <2>6. Open' => Open
      BY <2>1, <2>3 DEF Open, Armed
    <2> QED BY <2>5, <2>6, ProgressKeeps
  <1>4. CASE Source0Returns
    BY <1>4, TopType, DisarmKeeps DEF Source0Returns, At, Activation
  <1>5. CASE DoneSources0
    <2>1. /\ depth > 0 /\ Top \in Activation /\ Top.pc = "perform" /\ depth' = depth
          /\ Top.batch = {}
      BY <1>5, TopType DEF DoneSources0, At
    <2>2. Top' = [Top EXCEPT !.pc = "beforeWaiting"]
      BY <1>5, <2>1, SetTopEffect DEF DoneSources0, Goto
    <2>3. /\ Top'.pc = "beforeWaiting" /\ Top'.mode = Top.mode
          /\ Top'.handled = Top.handled
      BY <2>1, <2>2 DEF Activation
    <2>4. UNCHANGED <<stopped, modeStopped, ignoreWakeUps, wakePort, op,
                      sources0, signaled, valid>>
      BY <1>5 DEF DoneSources0, flags, kqueue, items
    <2>5. Progress
      BY <2>1, <2>3, <2>4 DEF Progress, Inspected
    <2>6. Open' => Open
      BY <2>1, <2>3 DEF Open, Armed
    <2> QED BY <2>5, <2>6, ProgressKeeps
  <1> QED BY <1>1, <1>2, <1>3, <1>4, <1>5

\* Every step of the running activation keeps WakeInv.
LEMMA TopStepKeepsWake ==
  ASSUME TypeOK, WakeInv, TopStep
  PROVE  WakeInv'
  <1>1. CASE Start
    <2>1. CASE Goto("exit")
      BY <1>1, <2>1, GotoDisarms DEF Start, At, Armed
    <2>2. CASE BeginIteration /\ ~stopped /\ ~modeStopped[Top.mode] /\ UNCHANGED flags
      BY <1>1, <2>2, BeginKeeps DEF Start, At
    <2> QED BY <1>1, <2>1, <2>2 DEF Start, NoStopRequest
  <1>2. CASE Decide
    <2>1. CASE Goto("exit")
      BY <1>2, <2>1, GotoDisarms DEF Decide, At, Armed
    <2>2. CASE BeginIteration /\ ~stopped /\ ~modeStopped[Top.mode] /\ UNCHANGED flags
      BY <1>2, <2>2, BeginKeeps DEF Decide, At
    <2> QED BY <1>2, <2>1, <2>2 DEF Decide, StopOrGoOn, NoStopRequest
  <1>3. CASE Sleep
    <2>1. depth > 0 /\ Top \in Activation /\ Top.pc = "sleep" /\ depth' = depth
      BY <1>3, TopType DEF Sleep, At
    <2>2. Top' = [Top EXCEPT !.pc = "wait"]
      BY <1>3, <2>1, SetTopEffect DEF Sleep, Goto
    <2>3. Top'.pc = "wait" /\ Top'.mode = Top.mode /\ Top'.handled = Top.handled
      BY <2>1, <2>2 DEF Activation
    <2>4. UNCHANGED <<stopped, modeStopped, ignoreWakeUps, wakePort, op,
                      sources0, signaled, valid>>
      BY <1>3 DEF Sleep, flags, items
    <2>5. Progress
      BY <2>1, <2>3, <2>4 DEF Progress, Inspected
    <2>6. Open' => Open
      BY <2>1, <2>3 DEF Open, Armed
    <2> QED BY <2>5, <2>6, ProgressKeeps
  <1>4. ASSUME NEW e, Returns(e)
        PROVE  WakeInv'
    <2> DEFINE a == [Top EXCEPT !.pc = "woken",
                       !.live = IF e = "none" THEN 0 ELSE PlaceOf(e)]
    <2>1. depth > 0 /\ depth' = depth /\ SetTop(a)
      BY <1>4 DEF Returns, At
    <2>2. a.pc \notin Armed
      BY <2>1, TopType DEF Activation, Armed
    <2> HIDE DEF a
    <2> QED BY <2>1, <2>2, DisarmKeeps
  <1>5. CASE Handle
    <2>1. ASSUME NEW q, q \notin Armed, Leave(q)
          PROVE  WakeInv'
      BY <1>5, <2>1, DisarmKeeps, TopType DEF Handle, At, Leave, Activation
    <2> QED BY <1>5, <2>1 DEF Handle, Armed
  <1>6. CASE Woken
    BY <1>6, GotoDisarms DEF Woken, At, Armed
  <1>7. CASE TimersReturn
    BY <1>7, GotoDisarms DEF TimersReturn, At, Armed
  <1> QED BY <1>1, <1>2, <1>3, <1>4, <1>5, <1>6, <1>7, ObserversKeepWake,
             SourcesKeepWake
          DEF TopStep, WaitWake, WaitTimer, WaitPolled, WaitFails

\* Every step of another thread keeps WakeInv.
LEMMA OtherStepKeepsWake ==
  ASSUME TypeOK, WakeInv,
         \/ \E t \in Thread : ThreadStep(t)
         \/ \E m \in Mode : TimerExpires(m)
         \/ UNCHANGED vars
  PROVE  WakeInv'
  <1>1. Rests
    BY OtherStepRests
  <1>2. /\ Open' = Open
        /\ Open => /\ Top'.mode = Top.mode
                   /\ Top.mode \in Mode
                   /\ \A s : Inspected(s)' = Inspected(s)
    BY <1>1, TopType DEF Rests, Open, Top, Inspected, Activation
  \* The step announces whatever it does.
  <1>3. ASSUME NEW t \in Thread, op' = [op EXCEPT ![t] = OwesWakeUp],
               UNCHANGED ignoreWakeUps
        PROVE  WakeInv'
    <2>1. Announced'
      BY <1>3 DEF TypeOK, Announced, WakeUpComing
    <2>2. WakeUpsHeard'
      BY <1>2, <1>3 DEF WakeInv, WakeUpsHeard
    <2> QED BY <2>1, <2>2 DEF WakeInv, SignalAnnounced, StopAnnounced
  \* The step asks for nothing and withdraws no announcement.
  <1>4. ASSUME UNCHANGED <<stopped, modeStopped, ignoreWakeUps, wakePort>>,
               \A m \in Mode : \A s \in sources0'[m] :
                 valid'[s] /\ signaled'[s] =>
                   s \in sources0[m] /\ valid[s] /\ signaled[s],
               WakeUpComing => WakeUpComing'
        PROVE  WakeInv'
    <2>1. Announced => Announced'
      BY <1>4 DEF Announced
    <2>2. WakeUpsHeard'
      BY <1>2, <1>4 DEF WakeInv, WakeUpsHeard
    <2>3. SignalAnnounced'
      <3> SUFFICES ASSUME Open', NEW s \in sources0'[Top'.mode],
                          valid'[s], signaled'[s], Inspected(s)'
                   PROVE  Announced'
        BY DEF SignalAnnounced
      <3>1. Open /\ Top'.mode = Top.mode /\ Top.mode \in Mode /\ Inspected(s)
        BY <1>2
      <3>2. s \in sources0[Top.mode] /\ valid[s] /\ signaled[s]
        BY <1>4, <3>1
      <3> QED BY <1>4, <2>1, <3>1, <3>2 DEF WakeInv, SignalAnnounced
    <2>4. StopAnnounced'
      BY <1>2, <1>4, <2>1 DEF WakeInv, StopAnnounced
    <2> QED BY <2>2, <2>3, <2>4 DEF WakeInv
  <1>5. ASSUME NEW t \in Thread, NEW o, o # OwesWakeUp, op[t] = o,
               NEW n, op' = [op EXCEPT ![t] = n]
        PROVE  WakeUpComing => WakeUpComing'
    BY <1>5 DEF WakeUpComing, TypeOK
  <1>6. Idle # OwesWakeUp
    BY DEF Idle, OwesWakeUp
  <1>7. ASSUME NEW t \in Thread, WakeUp(t)
        PROVE  WakeInv'
    <2>1. WakeUpsHeard'
      BY <1>2, <1>7 DEF WakeUp, WakeInv, WakeUpsHeard
    <2>2. Open => Announced'
      BY <1>7 DEF WakeUp, WakeInv, WakeUpsHeard, Announced
    <2> QED BY <1>2, <2>1, <2>2 DEF WakeInv, SignalAnnounced, StopAnnounced
  <1>8. ASSUME NEW t \in Thread, NEW s \in Source, SourceInvalidate(t, s)
        PROVE  WakeInv'
    <2>1. WakeUpComing => WakeUpComing'
      BY <1>5, <1>6, <1>8 DEF SourceInvalidate
    <2>2. \A r \in Source : valid'[r] /\ signaled'[r] => valid[r] /\ signaled[r]
      BY <1>8 DEF SourceInvalidate, TypeOK
    <2>3. \A m \in Mode : sources0'[m] \subseteq sources0[m] /\ sources0[m] \subseteq Source
      BY <1>8 DEF SourceInvalidate, TypeOK
    <2>4. UNCHANGED <<stopped, modeStopped, ignoreWakeUps, wakePort>>
      BY <1>8 DEF SourceInvalidate, flags, kqueue
    <2> QED BY <1>4, <2>1, <2>2, <2>3, <2>4
  <1>9. ASSUME NEW t \in Thread, NEW s \in Source, RemoveFromRunLoop(t, s)
        PROVE  WakeInv'
    <2>1. WakeUpComing => WakeUpComing'
      <3>1. <<"remove", s>> # OwesWakeUp
        BY DEF OwesWakeUp
      <3> QED BY <1>5, <1>9, <3>1 DEF RemoveFromRunLoop
    <2> QED BY <1>4, <1>9, <2>1 DEF RemoveFromRunLoop, flags, kqueue, TypeOK
  <1>10. ASSUME NEW t \in Thread, NEW s \in Source, NEW m \in Mode, AddSource(t, s, m)
         PROVE  WakeInv'
    <2>1. WakeUpComing => WakeUpComing'
      BY <1>5, <1>6, <1>10 DEF AddSource
    <2> QED BY <1>4, <1>10, <2>1 DEF AddSource, flags, kqueue, items
  <1>11. ASSUME NEW t \in Thread, NEW s \in Source, NEW m \in Mode, RemoveSource(t, s, m)
         PROVE  WakeInv'
    <2>1. WakeUpComing => WakeUpComing'
      BY <1>11 DEF RemoveSource, WakeUpComing
    <2> QED BY <1>4, <1>11, <2>1 DEF RemoveSource, flags, kqueue, TypeOK
  <1>12. CASE              \/ \E m \in Mode : TimerExpires(m)
              \/ UNCHANGED vars
    <2>1. UNCHANGED <<stopped, modeStopped, ignoreWakeUps, wakePort, sources0, valid,
                      signaled, op>>
      BY <1>12 DEF TimerExpires, vars, flags, kqueue, items
    <2>2. WakeUpComing => WakeUpComing'
      BY <2>1 DEF WakeUpComing
    <2> QED BY <1>4, <2>1, <2>2
  \* A source that is added with its signal is announced, another asks nothing.
  <1>13. ASSUME NEW t \in Thread, NEW s \in Source, NEW m \in Mode,
                AddSourceLocked(t, s, m)
         PROVE  WakeInv'
    <2>1. CASE signaled[s]
      BY <1>3, <1>13, <2>1 DEF AddSourceLocked
    <2>2. CASE ~signaled[s]
      <3>1. WakeUpComing => WakeUpComing'
        <4>1. op[t] # OwesWakeUp
          BY <1>13 DEF AddSourceLocked, OwesWakeUp
        <4>2. op' = [op EXCEPT ![t] = Idle]
          BY <1>13, <2>2 DEF AddSourceLocked
        <4> QED BY <1>5, <4>1, <4>2
      <3>2. \A n \in Mode : \A r \in sources0'[n] :
              valid'[r] /\ signaled'[r] => r \in sources0[n] /\ valid[r] /\ signaled[r]
        BY <1>13, <2>2 DEF AddSourceLocked, TypeOK
      <3>3. UNCHANGED <<stopped, modeStopped, ignoreWakeUps, wakePort>>
        BY <1>13 DEF AddSourceLocked, flags, kqueue
      <3> QED BY <1>4, <3>1, <3>2, <3>3
    <2> QED BY <2>1, <2>2
  <1>14. ASSUME NEW t \in Thread, ThreadStep(t)
         PROVE  WakeInv'
    <2>1. \A s \in Source : Home[s] \subseteq Mode
      BY HomeAssumption
    <2>2. CASE \/ Stop(t)
               \/ \E m \in Mode : StopMode(t, m)
               \/ \E s \in Source : SourceSignal(t, s)
      BY <2>2, <1>3 DEF Stop, StopMode, SourceSignal
    <2> QED BY <1>7, <1>8, <1>9, <1>10, <1>11, <1>13, <1>14, <2>1, <2>2 DEF ThreadStep
  <1> QED BY <1>12, <1>14

\* Every step keeps WakeInv.
LEMMA NextWake ==
  ASSUME NestAt \cap PreWait = {}, StackInv, WakeInv, [Next]_vars
  PROVE  WakeInv'
  <1>1. TypeOK
    BY DEF StackInv
  <1>2. CASE TopStep
    BY <1>1, <1>2, TopStepKeepsWake
  <1>3. ASSUME NEW m \in Mode, NEW t \in Timeout, NEW sa \in StopAfter,
               RunSpecific(m, t, sa)
        PROVE  WakeInv'
    <2>1. Top'.pc = "entry"
      BY <1>1, <1>3, DepthAssumption DEF RunSpecific, Top, NewActivation, TypeOK, Level
    <2> QED BY <2>1, ClosedKeeps DEF Open, Armed
  <1>4. CASE Return
    <2>1. depth' > 0 => Top'.pc \in NestAt
      BY <1>1, <1>4, ReturnToNest DEF StackInv
    <2>2. Callout \cap Armed = PreWait
      BY DEF Callout, Activity, Armed, PreWait
    <2>3. ~Open'
      BY <2>1, <2>2, NestAssumption DEF Open
    <2> QED BY <2>3, ClosedKeeps
  <1>5. CASE \/ \E t \in Thread : ThreadStep(t)
             \/ \E m \in Mode : TimerExpires(m)
             \/ UNCHANGED vars
    BY <1>1, <1>5, OtherStepKeepsWake
  <1> QED BY <1>2, <1>3, <1>4, <1>5 DEF Next, LoopStep, TopStep

\* No activation runs at first.
LEMMA InitWake == Init => WakeInv
  BY DEF Init, WakeInv, WakeUpsHeard, SignalAnnounced, StopAnnounced, Open

\* WakeInv says what the two safety properties say, of a loop that waits.
LEMMA WakeInvSuffices == WakeInv => NoSignalSleptThrough /\ NoStopSleptThrough
  <1>1. Blocked => Open /\ ~wakePort /\ \A s : Inspected(s)
    BY DEF Blocked, At, Poll, Open, Armed, Inspected
  <1> QED BY <1>1 DEF WakeInv, SignalAnnounced, StopAnnounced, Announced,
               NoSignalSleptThrough, NoStopSleptThrough

\* The invariant of the stack and that of the announcements hold together.
LEMMA WakeInductive ==
  ASSUME NestAt \cap PreWait = {}
  PROVE  Spec => [](StackInv /\ WakeInv)
  <1>1. Init => StackInv /\ WakeInv
    BY InitStack, InitWake
  <1>2. StackInv /\ WakeInv /\ [Next]_vars => (StackInv /\ WakeInv)'
    BY NextStack, NextWake
  <1> QED BY <1>1, <1>2, PTL DEF Spec

(***************************************************************************)
(* No lost wake-up: as long as no observer called before the wait runs the *)
(* loop recursively, the thread never blocks in kevent with a signalled    *)
(* source of its mode and no wake-up to come, whatever else is nested and  *)
(* however threads interleave.                                             *)
(***************************************************************************)
THEOREM NoSignalIsLost ==
  ASSUME NestAt \cap PreWait = {}
  PROVE  Spec => []NoSignalSleptThrough
  BY WakeInductive, WakeInvSuffices, PTL

(***************************************************************************)
(* Under the same condition CFRunLoopStop is not slept through: the thread *)
(* does not block while the stop it is asked for is pending and no wake-up *)
(* is to come.                                                             *)
(***************************************************************************)
THEOREM NoStopIsLost ==
  ASSUME NestAt \cap PreWait = {}
  PROVE  Spec => []NoStopSleptThrough
  BY WakeInductive, WakeInvSuffices, PTL

-----------------------------------------------------------------------------
(***************************************************************************)
(* Stop requests through nested runs.                                      *)
(***************************************************************************)

\* A step of the running activation keeps the request it has put by, and its
\* own unless it consumes it and leaves.
LEMMA TopStepStops ==
  ASSUME TypeOK, TopStep
  PROVE  /\ Runs
         /\ Top'.saved = Top.saved
         /\ stopped => stopped' \/ Top'.pc = "exit"
  <1> DEFINE Kept == Runs /\ Top'.saved = Top.saved
             Asked == stopped => stopped' \/ Top'.pc = "exit"
  <1>a. ASSUME NEW a, depth > 0, depth' = depth, SetTop(a), a.saved = Top.saved
        PROVE  Kept /\ Top' = a
    BY <1>a, SetTopEffect
  <1>b. ASSUME NEW q, depth > 0, depth' = depth, Goto(q)
        PROVE  Kept /\ Top'.pc = q
    BY <1>b, <1>a, TopType DEF Goto, Activation
  <1>c. ASSUME depth > 0, depth' = depth, BeginIteration
        PROVE  Kept
    BY <1>c, <1>a, TopType DEF BeginIteration, Activation
  <1>1. CASE DoObservers \/ ObserversReturn
    <2>1. /\ depth > 0 /\ depth' = depth /\ UNCHANGED stopped
          /\ UNCHANGED act \/ PassObservers
      BY <1>1 DEF DoObservers, ObserversReturn, flags
    <2>2. CASE UNCHANGED act
      BY <2>1, <2>2 DEF Runs, Top
    <2>3. CASE PassObservers
      BY <2>1, <2>3, <1>a, TopType DEF PassObservers, Activation
    <2> QED BY <2>1, <2>2, <2>3
  <1>2. CASE Start
    <2>1. CASE Goto("exit")
      BY <1>2, <2>1, <1>b DEF Start, At
    <2>2. CASE BeginIteration /\ UNCHANGED flags
      BY <1>2, <2>2, <1>c DEF Start, At, flags
    <2> QED BY <1>2, <2>1, <2>2 DEF Start
  <1>3. CASE Decide
    <2>1. CASE Goto("exit")
      BY <1>3, <2>1, <1>b DEF Decide, At
    <2>2. CASE BeginIteration /\ UNCHANGED flags
      BY <1>3, <2>2, <1>c DEF Decide, At, flags
    <2> QED BY <1>3, <2>1, <2>2 DEF Decide, StopOrGoOn
  <1>4. ASSUME NEW s \in Source, CollectSource0(s)
        PROVE  Kept /\ Asked
    BY <1>4, <1>a, TopType DEF CollectSource0, At, Activation, flags
  <1>5. ASSUME NEW s \in Source, PerformSource0(s)
        PROVE  Kept /\ Asked
    BY <1>5, <1>a, TopType DEF PerformSource0, At, Activation, flags
  <1>6. CASE CollectedSources0 \/ DoneSources0 \/ Sleep \/ Woken \/ TimersReturn
    BY <1>6, <1>b DEF CollectedSources0, DoneSources0, Sleep, Woken, TimersReturn,
       At, flags
  <1>7. CASE Source0Returns
    BY <1>7, <1>a, TopType DEF Source0Returns, At, Activation, flags
  <1>8. ASSUME NEW e, Returns(e)
        PROVE  Kept /\ Asked
    BY <1>8, <1>a, TopType DEF Returns, At, Activation, flags
  <1>9. CASE \/ WaitWake \/ (\E m \in Mode : WaitTimer(m)) \/ WaitPolled
             \/ WaitFails
    BY <1>8, <1>9 DEF WaitWake, WaitTimer, WaitPolled, WaitFails
  <1>10. CASE Handle
    <2>1. ASSUME NEW q, Leave(q)
          PROVE  Kept
      BY <1>10, <2>1, <1>a, TopType DEF Handle, At, Leave, Activation
    <2>2. UNCHANGED stopped
      BY <1>10 DEF Handle, flags
    <2> QED BY <1>10, <2>1, <2>2 DEF Handle
  <1> QED BY <1>1, <1>2, <1>3, <1>4, <1>5, <1>6, <1>7, <1>9, <1>10 DEF TopStep

\* Every step leaves each activation its own request.
LEMMA NextStops == ASSUME TypeOK, Next PROVE StopsStay
  <1> SUFFICES ASSUME NEW d \in Level
               PROVE  /\ StopPending(d) => \/ StopPending(d)' \/ depth' < d
                                           \/ (depth = d /\ act'[d].pc = "exit")
                      /\ StopPending(d)' => StopPending(d) \/ (depth = d /\ depth' = d)
    BY DEF StopsStay
  <1>1. d \in Nat /\ d > 0 /\ depth \in 0..MaxDepth /\ MaxDepth \in Nat
    BY DepthAssumption DEF TypeOK, Level
  <1>2. CASE TopStep
    <2>1. /\ depth' = depth
          /\ depth > d => act'[d + 1].saved = act[d + 1].saved
      BY <1>1, <1>2, TopStepStops DEF Runs, Top, Level
    <2>2. depth = d => (stopped => stopped' \/ act'[d].pc = "exit")
      BY <1>2, <2>1, TopStepStops DEF Top
    <2> QED BY <1>1, <2>1, <2>2 DEF StopPending
  <1>3. ASSUME NEW m \in Mode, NEW t \in Timeout, NEW sa \in StopAfter,
               RunSpecific(m, t, sa)
        PROVE  StopPending(d)' <=> StopPending(d)
    <2>1. depth' = depth + 1 /\ ~stopped' /\ depth + 1 \in Level
      BY <1>1, <1>3 DEF RunSpecific, Level
    <2>2. CASE depth = d
      BY <1>1, <1>3, <2>1, <2>2 DEF RunSpecific, NewActivation, StopPending, TypeOK, Activation
    <2>3. CASE depth > d
      <3>1. act'[d + 1] = act[d + 1]
        BY <1>1, <1>3, <2>3 DEF RunSpecific, TypeOK, Level
      <3> QED BY <1>1, <2>1, <2>3, <3>1 DEF StopPending
    <2>4. CASE depth < d
      BY <1>1, <2>1, <2>4 DEF StopPending
    <2> QED BY <1>1, <2>2, <2>3, <2>4
  <1>4. CASE Return
    <2>1. depth' = depth - 1 /\ depth > 0 /\ stopped' = act[depth].saved
      BY <1>4 DEF Return, At, Top
    <2>2. CASE depth > d + 1
      <3>1. act'[d + 1] = act[d + 1]
        BY <1>1, <1>4, <2>2 DEF Return, SetTop, TypeOK, Level
      <3> QED BY <1>1, <2>1, <2>2, <3>1 DEF StopPending
    <2>3. CASE depth = d + 1
      BY <1>1, <2>1, <2>3 DEF StopPending
    <2>4. CASE depth < d + 1
      BY <1>1, <2>1, <2>4 DEF StopPending
    <2> QED BY <1>1, <2>2, <2>3, <2>4
  <1>5. CASE (\E t \in Thread : ThreadStep(t)) \/ (\E m \in Mode : TimerExpires(m))
    <2>1. Rests
      BY <1>5, OtherStepRests
    <2>2. stopped => stopped'
      BY <1>5 DEF ThreadStep, WakeUp, Stop, StopMode, SourceSignal, SourceInvalidate,
         RemoveFromRunLoop, AddSource, AddSourceLocked, RemoveSource, TimerExpires, flags
    <2> QED BY <1>1, <2>1, <2>2 DEF Rests, StopPending
  <1> QED BY <1>2, <1>3, <1>4, <1>5 DEF Next, LoopStep, TopStep

(***************************************************************************)
(* CFRunLoopRunSpecific's hiding and putting back of the stop request is   *)
(* right for every depth of nesting: no activation loses a request that    *)
(* was made to it before it leaves, and none gets another's.               *)
(***************************************************************************)
THEOREM StopsReachTheirRun == Spec => StopsStayWithTheirRun
  <1>1. TypeOK /\ [Next]_vars => [StopsStay]_vars
    BY NextStops
  <1> QED BY <1>1, TypeCorrect, PTL DEF Spec, StopsStayWithTheirRun
=============================================================================
