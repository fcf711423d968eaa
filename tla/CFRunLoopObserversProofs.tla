---------------------- MODULE CFRunLoopObserversProofs ----------------------
(***************************************************************************)
(* Theorems about the observers and the common modes of a run loop, for    *)
(* any number of observers, modes, threads and nested runs: no observer is *)
(* re-entered, one that does not repeat is called once, the count of an    *)
(* observer's modes is exact, and common items are in all common modes.    *)
(***************************************************************************)
EXTENDS CFRunLoopObservers, FiniteSetTheorems, TLAPS

\* The part of the type invariant that the argument needs.
Shape ==
    /\ valid \in [Observer -> BOOLEAN]
    /\ firing \in [Observer -> BOOLEAN]
    /\ frame \in [Level -> Frame]
    /\ depth \in 0..MaxDepth
    /\ called \subseteq Observer

\* Outer calls are in a callout, and the firing bit is set as long as a call has
\* a current observer.
Frames ==
    \A d \in Level : d <= depth =>
        /\ frame[d].pc = "next" <=> frame[d].cur = None
        /\ d < depth => frame[d].pc = "callout"
        /\ frame[d].cur # None => firing[frame[d].cur]

\* An inner call has collected none of the observers that outer ones are in.
Apart ==
    \A d, e \in Level : d < e /\ e <= depth =>
        frame[d].cur \notin frame[e].todo /\ frame[d].cur # frame[e].cur

\* An observer that does not repeat and was called is in its callout or invalid.
Spent ==
    \A o \in OneShot : o \in called /\ valid[o] =>
        \E d \in Level : d <= depth /\ frame[d].cur = o /\ frame[d].pc = "callout"

\* After the callout it is invalid, and the byte was loaded after that.
Retired ==
    \A d \in Level : d <= depth /\ frame[d].cur \in OneShot =>
        /\ frame[d].pc \in {"remove", "unset", "store"} => ~valid[frame[d].cur]
        /\ frame[d].pc = "store" => ~frame[d].saw

ObserversInv == Shape /\ Frames /\ Apart /\ Spent /\ Retired

\* The initial state satisfies the invariant.
LEMMA InitInv == Init => ObserversInv
<1> SUFFICES ASSUME Init PROVE ObserversInv
  OBVIOUS
<1> USE ObserverAssumption, NestingAssumption DEF Init
<1>1. Shape
  BY DEF Shape, Frame, FramePC, Level
<1>2. Frames /\ Apart /\ Spent /\ Retired
  BY DEF Frames, Apart, Spent, Retired, Level
<1> QED BY <1>1, <1>2 DEF ObserversInv

\* The running call is well formed.
LEMMA TopFrame ==
  ASSUME Shape, depth > 0
  PROVE  depth \in Level /\ Top \in Frame
  BY NestingAssumption DEF Shape, Level, Top

\* SetTop changes the running call to its argument, and no other.
LEMMA SetTopEffect ==
  ASSUME Shape, depth > 0, NEW f \in Frame, SetTop(f)
  PROVE  /\ frame' \in [Level -> Frame]
         /\ frame'[depth] = f
         /\ \A d \in Level : d # depth => frame'[d] = frame[d]
  BY TopFrame DEF Shape, SetTop

\* A step of another thread, but for an invalidation, changes nothing here.
Calm == UNCHANGED <<valid, firing, frame, depth, called>>

\* Those steps keep the invariant.
LEMMA CalmKeeps ==
  ASSUME ObserversInv, Calm
  PROVE  ObserversInv'
  BY DEF ObserversInv, Calm, Shape, Frames, Apart, Spent, Retired
\* An invalidation keeps the invariant.
LEMMA InvalidateKeeps ==
  ASSUME ObserversInv, NEW t \in Thread, NEW o \in Observer, ObserverInvalidate(t, o)
  PROVE  ObserversInv'
  BY ObserverAssumption
     DEF ObserversInv, ObserverInvalidate, loop, Shape, Frames, Apart, Spent, Retired, Frame
\* A new call collects none that is firing.
LEMMA DoObserversKeeps ==
  ASSUME ObserversInv, NEW m \in Mode, NEW a \in Activity, DoObservers(m, a)
  PROVE  ObserversInv'
<1> DEFINE new == frame'[depth + 1]
<1> USE NestingAssumption DEF ObserversInv
<1>1. /\ depth \in Nat /\ depth < MaxDepth /\ depth' = depth + 1 /\ depth' \in Level
      /\ UNCHANGED <<valid, firing, called>>
      /\ depth > 0 => Top.pc = "callout"
  BY DEF DoObservers, Shape, Level, past
<1>2. /\ frame' \in [Level -> Frame]
      /\ new.pc = "next" /\ new.cur = None
      /\ \A p \in new.todo : p \in Observer /\ ~firing[p]
      /\ \A d \in Level : d <= depth => frame'[d] = frame[d]
  BY <1>1 DEF DoObservers, Shape, Frame, FramePC, Level
<1> HIDE DEF new
<1>3. Shape'
  BY <1>1, <1>2 DEF Shape, Level
<1>4. Frames'
  BY <1>1, <1>2 DEF Frames, Level, Top, new
<1>5. Apart'
  BY <1>1, <1>2 DEF Apart, Frames, Level, Top, new
<1>6. Spent'
  BY <1>1, <1>2 DEF Spent, Level
<1>7. Retired'
  BY <1>1, <1>2, ObserverAssumption DEF Retired, Frames, Level, new
<1> QED BY <1>3, <1>4, <1>5, <1>6, <1>7

\* An observer that has become invalid is skipped.
LEMMA SkipKeeps ==
  ASSUME ObserversInv, NEW o \in Observer, CallObserver(o), ~valid[o]
  PROVE  ObserversInv'
<1> USE NestingAssumption, ObserverAssumption DEF ObserversInv
<1> DEFINE f == [Top EXCEPT !.todo = @ \ {o}]
<1>1. /\ depth > 0 /\ depth \in Level /\ Top \in Frame /\ depth' = depth
      /\ Level \subseteq Nat /\ \A d \in Level : frame[d].cur \in Observer \cup {None}
  BY TopFrame DEF CallObserver, Level, Shape, Frame
<1>2. f \in Frame /\ SetTop(f)
  BY <1>1 DEF CallObserver, Frame, FramePC
<1>a. f.pc = Top.pc /\ f.cur = Top.cur /\ f.todo = Top.todo \ {o} /\ f.saw = Top.saw
  BY <1>1 DEF Frame
<1> HIDE DEF f
<1>3. /\ frame' \in [Level -> Frame] /\ frame'[depth] = f
      /\ \A d \in Level : d # depth => frame'[d] = frame[d]
  BY <1>1, <1>2, SetTopEffect
<1>4. Top.pc = "next" /\ UNCHANGED <<valid, firing, called>>
  BY <1>1, <1>2 DEF CallObserver
<1>5. Shape'
  BY <1>1, <1>3, <1>4, <1>a DEF Shape, Top, Frame
<1>6. Frames'
  BY <1>1, <1>3, <1>4, <1>a DEF Shape, Frames, Apart, Top
<1>7. Apart'
  BY <1>1, <1>3, <1>4, <1>a DEF Frames, Apart, Top
<1>8. Spent'
  BY <1>1, <1>3, <1>4, <1>a DEF Shape, Frames, Apart, Spent, Retired, Top
<1>9. Retired'
  BY <1>1, <1>3, <1>4, <1>a DEF Shape, Frames, Apart, Retired, Top
<1> QED BY <1>5, <1>6, <1>7, <1>8, <1>9

\* A callout begins.
LEMMA CallKeeps ==
  ASSUME ObserversInv, NEW o \in Observer, CallObserver(o), valid[o]
  PROVE  ObserversInv'
<1> USE NestingAssumption, ObserverAssumption DEF ObserversInv
<1> DEFINE f == [Top EXCEPT !.pc = "callout", !.cur = o, !.todo = @ \ {o}]
<1>1. /\ depth > 0 /\ depth \in Level /\ Top \in Frame /\ depth' = depth
      /\ Level \subseteq Nat /\ \A d \in Level : frame[d].cur \in Observer \cup {None}
  BY TopFrame DEF CallObserver, Level, Shape, Frame
<1>2. f \in Frame /\ SetTop(f)
  BY <1>1 DEF CallObserver, Frame, FramePC
<1>a. f.pc = "callout" /\ f.cur = o /\ f.todo = Top.todo \ {o} /\ f.saw = Top.saw
  BY <1>1 DEF Frame
<1> HIDE DEF f
<1>3. /\ frame' \in [Level -> Frame] /\ frame'[depth] = f
      /\ \A d \in Level : d # depth => frame'[d] = frame[d]
  BY <1>1, <1>2, SetTopEffect
<1>4. /\ Top.pc = "next" /\ o \in Top.todo /\ UNCHANGED valid
      /\ firing' = [firing EXCEPT ![o] = TRUE] /\ called' = called \cup {o}
  BY <1>1, <1>2 DEF CallObserver
<1>5. Shape'
  BY <1>1, <1>3, <1>4, <1>a DEF Shape, Top, Frame
<1>6. Frames'
  <2>1. ASSUME NEW p \in Observer, firing[p] PROVE firing'[p]
    BY <1>4, <2>1 DEF Shape
  <2>2. firing'[o]
    BY <1>4 DEF Shape
  <2>3. ASSUME NEW d \in Level, d < depth
        PROVE  frame[d].pc = "callout" /\ frame[d].cur # None /\ firing'[frame[d].cur]
    <3>1. frame[d].pc = "callout" /\ frame[d].cur # None /\ firing[frame[d].cur]
      BY <1>1, <2>3 DEF Frames
    <3> QED BY <1>1, <2>1, <3>1
  <2> QED BY <1>1, <1>3, <1>a, <2>2, <2>3 DEF Frames
<1>7. Apart'
  BY <1>1, <1>3, <1>4, <1>a DEF Frames, Apart, Top
<1>8. Spent'
  BY <1>1, <1>3, <1>4, <1>a DEF Shape, Frames, Apart, Spent, Retired, Top
<1>9. Retired'
  BY <1>1, <1>3, <1>4, <1>a DEF Shape, Frames, Apart, Retired, Top
<1> QED BY <1>5, <1>6, <1>7, <1>8, <1>9

\* A callout ends.
LEMMA ReturnKeeps ==
  ASSUME ObserversInv, ObserverReturns
  PROVE  ObserversInv'
<1> USE NestingAssumption, ObserverAssumption DEF ObserversInv
<1> DEFINE f == [Top EXCEPT !.pc =
        IF Top.cur \in OneShot /\ valid[Top.cur] /\ rlCount[Top.cur] # 0
          THEN "remove" ELSE "unset"]
<1>1. /\ depth > 0 /\ depth \in Level /\ Top \in Frame /\ depth' = depth
      /\ Level \subseteq Nat /\ \A d \in Level : frame[d].cur \in Observer \cup {None}
  BY TopFrame DEF ObserverReturns, Level, Shape, Frame
<1>2. f \in Frame /\ SetTop(f)
  BY <1>1 DEF ObserverReturns, Frame, FramePC
<1>a. f.pc \in {"remove", "unset"} /\ f.cur = Top.cur /\ f.todo = Top.todo /\ f.saw = Top.saw
  BY <1>1 DEF Frame
<1> HIDE DEF f
<1>3. /\ frame' \in [Level -> Frame] /\ frame'[depth] = f
      /\ \A d \in Level : d # depth => frame'[d] = frame[d]
  BY <1>1, <1>2, SetTopEffect
<1>4. /\ Top.pc = "callout" /\ UNCHANGED <<firing, called>>
      /\ valid' = IF Top.cur \in OneShot /\ valid[Top.cur]
                    THEN [valid EXCEPT ![Top.cur] = FALSE] ELSE valid
  BY <1>1, <1>2 DEF ObserverReturns
<1>5. Shape'
  BY <1>1, <1>3, <1>4, <1>a DEF Shape, Top, Frame
<1>6. Frames'
  BY <1>1, <1>3, <1>4, <1>a DEF Shape, Frames, Apart, Top
<1>7. Apart'
  BY <1>1, <1>3, <1>4, <1>a DEF Frames, Apart, Top
<1>8. Spent'
  BY <1>1, <1>3, <1>4, <1>a DEF Shape, Frames, Apart, Spent, Retired, Top
<1>9. Retired'
  BY <1>1, <1>3, <1>4, <1>a DEF Shape, Frames, Apart, Retired, Top
<1> QED BY <1>5, <1>6, <1>7, <1>8, <1>9

\* An observer that does not repeat is removed.
LEMMA RemovedKeeps ==
  ASSUME ObserversInv, OneShotRemoved
  PROVE  ObserversInv'
<1> USE NestingAssumption, ObserverAssumption DEF ObserversInv
<1> DEFINE f == [Top EXCEPT !.pc = "unset"]
<1>1. /\ depth > 0 /\ depth \in Level /\ Top \in Frame /\ depth' = depth
      /\ Level \subseteq Nat /\ \A d \in Level : frame[d].cur \in Observer \cup {None}
  BY TopFrame DEF OneShotRemoved, Level, Shape, Frame
<1>2. f \in Frame /\ SetTop(f)
  BY <1>1 DEF OneShotRemoved, Frame, FramePC
<1>a. f.pc = "unset" /\ f.cur = Top.cur /\ f.todo = Top.todo /\ f.saw = Top.saw
  BY <1>1 DEF Frame
<1> HIDE DEF f
<1>3. /\ frame' \in [Level -> Frame] /\ frame'[depth] = f
      /\ \A d \in Level : d # depth => frame'[d] = frame[d]
  BY <1>1, <1>2, SetTopEffect
<1>4. Top.pc = "remove" /\ UNCHANGED <<valid, firing, called>>
  BY <1>1, <1>2 DEF OneShotRemoved, past
<1>5. Shape'
  BY <1>1, <1>3, <1>4, <1>a DEF Shape, Top, Frame
<1>6. Frames'
  BY <1>1, <1>3, <1>4, <1>a DEF Shape, Frames, Apart, Top
<1>7. Apart'
  BY <1>1, <1>3, <1>4, <1>a DEF Frames, Apart, Top
<1>8. Spent'
  BY <1>1, <1>3, <1>4, <1>a DEF Shape, Frames, Apart, Spent, Retired, Top
<1>9. Retired'
  BY <1>1, <1>3, <1>4, <1>a DEF Shape, Frames, Apart, Retired, Top
<1> QED BY <1>5, <1>6, <1>7, <1>8, <1>9

\* The byte with the two bits is loaded.
LEMMA LoadKeeps ==
  ASSUME ObserversInv, LoadBits
  PROVE  ObserversInv'
<1> USE NestingAssumption, ObserverAssumption DEF ObserversInv
<1> DEFINE f == [Top EXCEPT !.pc = "store", !.saw = valid[Top.cur]]
<1>1. /\ depth > 0 /\ depth \in Level /\ Top \in Frame /\ depth' = depth
      /\ Level \subseteq Nat /\ \A d \in Level : frame[d].cur \in Observer \cup {None}
  BY TopFrame DEF LoadBits, Level, Shape, Frame
<1>b. valid[Top.cur] \in BOOLEAN
  BY <1>1 DEF LoadBits, Shape, Frames, Top
<1>2. f \in Frame /\ SetTop(f)
  BY <1>1, <1>b DEF LoadBits, Frame, FramePC
<1>a. f.pc = "store" /\ f.cur = Top.cur /\ f.todo = Top.todo /\ f.saw = valid[Top.cur]
  BY <1>1 DEF Frame
<1> HIDE DEF f
<1>3. /\ frame' \in [Level -> Frame] /\ frame'[depth] = f
      /\ \A d \in Level : d # depth => frame'[d] = frame[d]
  BY <1>1, <1>2, SetTopEffect
<1>4. Top.pc = "unset" /\ UNCHANGED <<valid, firing, called>>
  BY <1>1, <1>2 DEF LoadBits, past
<1>5. Shape'
  BY <1>1, <1>3, <1>4, <1>a DEF Shape, Top, Frame
<1>6. Frames'
  BY <1>1, <1>3, <1>4, <1>a DEF Shape, Frames, Apart, Top
<1>7. Apart'
  BY <1>1, <1>3, <1>4, <1>a DEF Frames, Apart, Top
<1>8. Spent'
  BY <1>1, <1>3, <1>4, <1>a DEF Shape, Frames, Apart, Spent, Retired, Top
<1>9. Retired'
  BY <1>1, <1>3, <1>4, <1>a DEF Shape, Frames, Apart, Retired, Top
<1> QED BY <1>5, <1>6, <1>7, <1>8, <1>9

\* The byte with the two bits is stored.
LEMMA StoreKeeps ==
  ASSUME ObserversInv, StoreBits
  PROVE  ObserversInv'
<1> USE NestingAssumption, ObserverAssumption DEF ObserversInv
<1> DEFINE f == [Top EXCEPT !.pc = "next", !.cur = None]
<1>1. /\ depth > 0 /\ depth \in Level /\ Top \in Frame /\ depth' = depth
      /\ Level \subseteq Nat /\ \A d \in Level : frame[d].cur \in Observer \cup {None}
  BY TopFrame DEF StoreBits, Level, Shape, Frame
<1>2. f \in Frame /\ SetTop(f)
  BY <1>1 DEF StoreBits, Frame, FramePC
<1>a. f.pc = "next" /\ f.cur = None /\ f.todo = Top.todo /\ f.saw = Top.saw
  BY <1>1 DEF Frame
<1> HIDE DEF f
<1>3. /\ frame' \in [Level -> Frame] /\ frame'[depth] = f
      /\ \A d \in Level : d # depth => frame'[d] = frame[d]
  BY <1>1, <1>2, SetTopEffect
<1>4. /\ Top.pc = "store" /\ UNCHANGED called
      /\ firing' = [firing EXCEPT ![Top.cur] = FALSE]
      /\ valid' = [valid EXCEPT ![Top.cur] = Top.saw]
  BY <1>1, <1>2 DEF StoreBits, past
<1>5. Shape'
  BY <1>1, <1>3, <1>4, <1>a DEF Shape, Top, Frame
<1>6. Frames'
  BY <1>1, <1>3, <1>4, <1>a DEF Shape, Frames, Apart, Top
<1>7. Apart'
  BY <1>1, <1>3, <1>4, <1>a DEF Frames, Apart, Top
<1>8. Spent'
  BY <1>1, <1>3, <1>4, <1>a DEF Shape, Frames, Apart, Spent, Retired, Top
<1>9. Retired'
  BY <1>1, <1>3, <1>4, <1>a DEF Shape, Frames, Apart, Retired, Top
<1> QED BY <1>5, <1>6, <1>7, <1>8, <1>9

\* A call that ends was in no observer.
LEMMA DoneKeeps ==
  ASSUME ObserversInv, DoneObservers
  PROVE  ObserversInv'
<1> USE NestingAssumption, ObserverAssumption DEF ObserversInv
<1>1. /\ depth > 0 /\ depth \in Level /\ Top.pc = "next" /\ depth' = depth - 1
      /\ UNCHANGED <<valid, firing, frame, called>>
  BY TopFrame DEF DoneObservers, past
<1>2. Shape'
  BY <1>1 DEF Shape, Level
<1>3. Frames'
  BY <1>1 DEF Frames, Level
<1>4. Apart'
  BY <1>1 DEF Apart, Level
<1>5. Spent'
  BY <1>1 DEF Spent, Level, Top
<1>6. Retired'
  BY <1>1 DEF Retired, Level
<1> QED BY <1>2, <1>3, <1>4, <1>5, <1>6

\* Every step keeps the invariant.
LEMMA NextInv == ObserversInv /\ [Next]_vars => ObserversInv'
<1> SUFFICES ASSUME ObserversInv, [Next]_vars PROVE ObserversInv'
  OBVIOUS
<1>1. CASE UNCHANGED vars
  BY <1>1, CalmKeeps DEF vars, Calm
<1>2. ASSUME NEW t \in Thread, ThreadStep(t) PROVE ObserversInv'
  <2>1. CASE \E o \in Observer : ObserverInvalidate(t, o)
    BY <2>1, InvalidateKeeps
  <2>2. CASE ~\E o \in Observer : ObserverInvalidate(t, o)
    <3>1. Calm
      BY <1>2, <2>2
         DEF ThreadStep, Calm, loop, past, Each, Insert, AddCommonMode, AddToCommonModes,
             AddToCommonModesLocked, RemoveFromCommonModes, InvalidateRemoves,
             AddObserver, RemoveObserver
    <3> QED BY <3>1, CalmKeeps
  <2> QED BY <2>1, <2>2
<1>3. CASE LoopStep
  <2>1. ASSUME NEW o \in Observer, CallObserver(o) PROVE ObserversInv'
    BY <2>1, SkipKeeps, CallKeeps
  <2> QED BY <1>3, <2>1, DoObserversKeeps, ReturnKeeps, RemovedKeeps, LoadKeeps, StoreKeeps,
             DoneKeeps DEF LoopStep
<1> QED BY <1>1, <1>2, <1>3 DEF Next

(***************************************************************************)
(* However deep runs nest, no two calls of __CFRunLoopDoObservers are in   *)
(* the same observer.                                                      *)
(***************************************************************************)
THEOREM ObserverNotReentered == Spec => []NotReentered
<1>1. ObserversInv => NotReentered
  <2> SUFFICES ASSUME ObserversInv, NEW d \in Running, NEW e \in Running,
                      frame[d].cur = frame[e].cur
               PROVE  d = e
    BY DEF NotReentered
  <2> QED BY NestingAssumption DEF ObserversInv, Apart, Running, Level
<1> QED BY <1>1, InitInv, NextInv, PTL DEF Spec

(***************************************************************************)
(* An observer that does not repeat is called out to once, whatever nested *)
(* runs and other threads do.                                              *)
(***************************************************************************)
THEOREM OneShotCalledOnce == Spec => OneShotOnce
<1>1. ObserversInv /\ [Next]_vars =>
        [\A o \in OneShot : o \in called /\ ~firing[o] => ~firing'[o]]_vars
  <2> SUFFICES ASSUME ObserversInv, Next, NEW o \in OneShot, o \in called, ~firing[o]
               PROVE  ~firing'[o]
    BY DEF ObserversInv
  <2> USE ObserverAssumption, NestingAssumption DEF ObserversInv
  <2>1. ASSUME NEW p \in Observer, CallObserver(p) PROVE ~firing'[o]
    <3>1. CASE valid[p] /\ p = o
      <4>1. PICK d \in Level : d <= depth /\ frame[d].cur = o
        BY <3>1 DEF Spent
      <4>2. firing[o]
        BY <4>1 DEF Frames
      <4> QED BY <4>2
    <3>2. CASE ~(valid[p] /\ p = o)
      BY <2>1, <3>2 DEF CallObserver, Shape
    <3> QED BY <3>1, <3>2
  <2>2. CASE StoreBits
    BY <2>2 DEF StoreBits, Shape
  <2>3. CASE UNCHANGED firing
    BY <2>3
  <2>4. \/ \E p \in Observer : CallObserver(p)
        \/ StoreBits
        \/ UNCHANGED firing
    BY DEF Next, LoopStep, ThreadStep, DoObservers, ObserverReturns, OneShotRemoved, LoadBits,
           DoneObservers, Each, Insert, AddCommonMode, AddToCommonModes,
           AddToCommonModesLocked, RemoveFromCommonModes, ObserverInvalidate,
           InvalidateRemoves, AddObserver, RemoveObserver
  <2> QED BY <2>1, <2>2, <2>3, <2>4
<1> QED BY <1>1, InitInv, NextInv, PTL DEF Spec, OneShotOnce
-----------------------------------------------------------------------------
(***************************************************************************)
(* The lists of observers and the common modes.                             *)
(***************************************************************************)

\* The part of the type invariant that Shape leaves out.
Lists ==
    /\ observers \in [Mode -> SUBSET Observer]
    /\ commonModes \subseteq Mode
    /\ commonItems \subseteq Observer
    /\ rlCount \in [Observer -> Nat]
    /\ holder \in Thread \cup {None}
    /\ op \in [Thread -> Op]
    /\ dead \subseteq Observer

\* What a thread is in the middle of is a call's rest.
LEMMA OpForms ==
  /\ Idle \in Op
  /\ \A p \in Pair, S \in SUBSET Pair : <<"insert", p, S>> \in Op
  /\ \A S \in SUBSET Pair : <<"each", S>> \in Op
  /\ \A o \in Observer : <<"common", o>> \in Op /\ <<"remove", o>> \in Op
  BY DEF Op, Idle

\* What the rest of a call consists of.
LEMMA OpParts ==
  ASSUME NEW x \in Op
  PROVE  /\ x[1] = "insert" => x[2] \in Pair /\ x[3] \in SUBSET Pair
         /\ x[1] = "each" => x[2] \in SUBSET Pair
<1>1. CASE x = Idle
  BY <1>1 DEF Idle
<1>2. CASE x \in {"insert"} \X Pair \X SUBSET Pair
  BY <1>2
<1>3. CASE x \in {"each"} \X SUBSET Pair
  BY <1>3
<1>4. CASE x \in {"common", "remove"} \X Observer
  BY <1>4
<1> QED BY <1>1, <1>2, <1>3, <1>4 DEF Op

\* The modes that hold an observer.
Holding(o) == {m \in Mode : o \in observers[m]}

\* TakeOut takes the observer out of modes and counts those that had it.
LEMMA TakeOutCounts ==
  ASSUME Lists, CountIsExact, NEW o \in Observer, NEW ms \in SUBSET Mode, TakeOut(o, ms)
  PROVE  /\ observers' \in [Mode -> SUBSET Observer]
         /\ rlCount' \in [Observer -> Nat]
         /\ CountIsExact'
         /\ \A m \in Mode, q \in Observer :
              q \in observers[m] /\ ~(q = o /\ m \in ms) => q \in observers'[m]
<1> DEFINE Had == {m \in ms : o \in observers[m]}
           Kept == Holding(o) \ Had
<1>1. observers' \in [Mode -> SUBSET Observer]
  BY DEF Lists, TakeOut
<1>2. IsFiniteSet(Had) /\ IsFiniteSet(Kept)
  <2>1. Had \in SUBSET Mode /\ Kept \in SUBSET Mode
    BY DEF Holding
  <2> QED BY <2>1, ModeAssumption, FS_Subset
<1>3. Cardinality(Had) \in Nat /\ Cardinality(Kept) \in Nat
  BY <1>2, FS_CardinalityType
<1>4. Cardinality(Holding(o)) = Cardinality(Kept) + Cardinality(Had)
  <2>1. Holding(o) = Kept \cup Had /\ Kept \cap Had = {}
    BY DEF Holding
  <2>2. Cardinality(Kept \cup Had) = Cardinality(Kept) + Cardinality(Had)
                                        - Cardinality(Kept \cap Had)
    BY <1>2, FS_Union
  <2> HIDE DEF Kept, Had
  <2>3. Cardinality(Kept \cap Had) = 0
    BY <2>1, FS_EmptySet
  <2>4. Cardinality(Holding(o)) = Cardinality(Kept \cup Had)
    BY <2>1, Zenon
  <2> QED BY <1>3, <2>2, <2>3, <2>4
<1>5. rlCount' = [rlCount EXCEPT ![o] = @ - Cardinality(Had)]
  BY DEF TakeOut
<1>6. Holding(o)' = Kept /\ \A q \in Observer \ {o} : Holding(q)' = Holding(q)
  BY DEF TakeOut, Holding, Lists
<1>7. \A q \in Observer : rlCount[q] = Cardinality(Holding(q)) /\ rlCount[q] \in Nat
  BY DEF CountIsExact, Holding, Lists
<1>8. rlCount'[o] = Cardinality(Kept)
  <2>1. rlCount'[o] = rlCount[o] - Cardinality(Had)
    BY <1>5 DEF Lists
  <2> QED BY <1>3, <1>4, <1>7, <2>1
<1>9. \A q \in Observer \ {o} : rlCount'[q] = rlCount[q]
  BY <1>5 DEF Lists
<1>10. \A q \in Observer : rlCount'[q] = Cardinality(Holding(q)')
  BY <1>6, <1>7, <1>8, <1>9
<1>11. CountIsExact'
  BY <1>10 DEF CountIsExact, Holding
<1>12. rlCount' \in [Observer -> Nat]
  <2>1. \A q \in Observer : rlCount'[q] \in Nat
    BY <1>3, <1>7, <1>8, <1>9
  <2> QED BY <1>5, <2>1 DEF Lists
<1>13. \A m \in Mode, q \in Observer :
              q \in observers[m] /\ ~(q = o /\ m \in ms) => q \in observers'[m]
  BY DEF TakeOut, Lists
<1> QED BY <1>1, <1>11, <1>12, <1>13

\* The pairs that the thread with the lock has still to add.
Pending(t) == CASE op[t][1] = "each" -> op[t][2]
                [] op[t][1] = "insert" -> {op[t][2]} \cup op[t][3]
                [] OTHER -> {}

\* The lock is kept between steps by the thread that goes through the pairs.
Locks ==
    \A t \in Thread :
        /\ op[t][1] = "each" => holder = t
        /\ holder = t => op[t][1] \in {"each", "insert"}

\* The valid bit, and the copy of it that is about to be stored, is clear only
\* for observers that were invalidated.
Buried ==
    /\ \A o \in Observer : ~valid[o] => o \in dead
    /\ \A d \in Level : d <= depth /\ frame[d].pc = "store" /\ ~frame[d].saw =>
           frame[d].cur \in dead

\* What is missing in a common mode is still to be added by the thread that has
\* the lock.
Covered ==
    \A o \in commonItems \ dead, m \in commonModes \ Direct :
        \/ o \in observers[m]
        \/ \E t \in Thread : holder = t /\ <<o, m>> \in Pending(t)

CommonInv == Lists /\ CountIsExact /\ Locks /\ Buried /\ Covered

\* The initial state satisfies the invariant.
LEMMA InitCommon == Init => CommonInv
<1> SUFFICES ASSUME Init PROVE CommonInv
  OBVIOUS
<1> USE ObserverAssumption, ModeAssumption, NestingAssumption DEF Init
<1>1. Lists
  BY OpForms DEF Lists
<1>2. CountIsExact
  <2>1. \A o \in Observer : {m \in Mode : o \in observers[m]} = {}
    OBVIOUS
  <2> QED BY <2>1, FS_EmptySet DEF CountIsExact
<1>3. Locks /\ Buried /\ Covered
  BY DEF Locks, Buried, Covered, Idle
<1> QED BY <1>1, <1>2, <1>3 DEF CommonInv

\* The steps of the loop that touch no list.
LEMMA LoopKeepsCommon ==
  ASSUME CommonInv, UNCHANGED <<observers, rlCount, commonModes, commonItems, holder, op>>,
         dead \subseteq dead', dead' \subseteq Observer, Buried'
  PROVE  CommonInv'
<1>1. Lists' /\ CountIsExact'
  BY DEF CommonInv, Lists, CountIsExact
<1>2. Locks'
  BY DEF CommonInv, Locks
<1>3. Covered'
  <2>1. \A t \in Thread : Pending(t)' = Pending(t)
    BY DEF Pending
  <2> QED BY <2>1 DEF CommonInv, Covered
<1> QED BY <1>1, <1>2, <1>3 DEF CommonInv

\* An observer is removed from every mode and from the common items.
LEMMA RemoveKeepsCommon ==
  ASSUME CommonInv, NEW o \in Observer, RemoveEverywhere(o), UNCHANGED <<commonModes, holder, dead>>,
         op' \in [Thread -> Op], Locks', Buried'
  PROVE  CommonInv'
<1>1. Mode \in SUBSET Mode /\ TakeOut(o, Mode) /\ commonItems' = commonItems \ {o} /\ holder = None
  BY DEF RemoveEverywhere
<1>2. /\ observers' \in [Mode -> SUBSET Observer] /\ rlCount' \in [Observer -> Nat] /\ CountIsExact'
      /\ \A m \in Mode, q \in Observer : q \in observers[m] /\ q # o => q \in observers'[m]
  BY <1>1, TakeOutCounts DEF CommonInv
<1>3. Lists'
  BY <1>1, <1>2 DEF CommonInv, Lists
<1>4. \A q \in commonItems \ dead, m \in commonModes \ Direct : q \in observers[m]
  BY <1>1, ObserverAssumption DEF CommonInv, Covered
<1>5. Covered'
  BY <1>1, <1>2, <1>4 DEF CommonInv, Lists, Covered
<1> QED BY <1>2, <1>3, <1>5 DEF CommonInv

\* Each step of the loop keeps the invariant.
LEMMA LoopStepCommon ==
  ASSUME ObserversInv, CommonInv, LoopStep
  PROVE  CommonInv'
<1> USE NestingAssumption, ObserverAssumption
<1>0. /\ valid \in [Observer -> BOOLEAN] /\ frame \in [Level -> Frame]
      /\ depth \in 0..MaxDepth /\ Level = 1..MaxDepth /\ dead \subseteq Observer
  BY DEF ObserversInv, Shape, CommonInv, Lists, Level
<1>1. ASSUME NEW m \in Mode, NEW a \in Activity, DoObservers(m, a) PROVE CommonInv'
  <2>1. UNCHANGED <<observers, rlCount, commonModes, commonItems, holder, op, dead, valid>>
    BY <1>1 DEF DoObservers, lists, common, past
  <2>2. \A d \in Level : d <= depth' => (frame'[d] = frame[d] /\ d <= depth) \/ frame'[d].pc = "next"
    BY <1>0, <1>1 DEF DoObservers
  <2>3. Buried'
    BY <1>0, <2>1, <2>2 DEF CommonInv, Buried
  <2> QED BY <2>1, <2>3, LoopKeepsCommon DEF CommonInv, Lists
<1>2. ASSUME depth > 0, NEW f \in Frame, SetTop(f), UNCHANGED <<depth, valid, dead>>,
             f.pc = "store" => f.saw \/ f.cur \in dead
      PROVE  Buried'
  <2>1. /\ frame' \in [Level -> Frame] /\ frame'[depth] = f
        /\ \A d \in Level : d # depth => frame'[d] = frame[d]
    BY <1>2, SetTopEffect DEF ObserversInv
  <2> QED BY <1>0, <1>2, <2>1 DEF CommonInv, Buried
<1>3. depth > 0 => depth \in Level /\ Top \in Frame
  BY TopFrame DEF ObserversInv
<1>4. ASSUME NEW o \in Observer, CallObserver(o) PROVE CommonInv'
  <2> DEFINE g == [Top EXCEPT !.todo = @ \ {o}]
             h == [Top EXCEPT !.pc = "callout", !.cur = o, !.todo = @ \ {o}]
  <2>1. UNCHANGED <<observers, rlCount, commonModes, commonItems, holder, op, dead, valid, depth>>
    BY <1>4 DEF CallObserver, lists, common
  <2>2. depth > 0 /\ Top.pc = "next" /\ Top \in Frame
    BY <1>3, <1>4 DEF CallObserver
  <2>3. g \in Frame /\ g.pc = "next" /\ h \in Frame /\ h.pc = "callout"
    BY <2>2 DEF Frame, FramePC
  <2>4. SetTop(g) \/ SetTop(h)
    BY <1>4 DEF CallObserver
  <2> HIDE DEF g, h
  <2>5. Buried'
    BY <1>2, <2>1, <2>2, <2>3, <2>4
  <2> QED BY <2>1, <2>5, LoopKeepsCommon DEF CommonInv, Lists
<1>5. CASE LoadBits
  <2> DEFINE f == [Top EXCEPT !.pc = "store", !.saw = valid[Top.cur]]
  <2>1. UNCHANGED <<observers, rlCount, commonModes, commonItems, holder, op, dead, valid, depth>>
    BY <1>5 DEF LoadBits, lists, common, past
  <2>2. depth > 0 /\ Top \in Frame /\ Top.cur \in Observer /\ SetTop(f)
    BY <1>3, <1>5 DEF LoadBits, ObserversInv, Shape, Frames, Top, Frame
  <2>3. f \in Frame /\ f.cur = Top.cur /\ f.saw = valid[Top.cur]
    BY <1>0, <2>2 DEF Frame, FramePC
  <2> HIDE DEF f
  <2>4. f.saw \/ f.cur \in dead
    BY <2>2, <2>3 DEF CommonInv, Buried
  <2>5. Buried'
    BY <1>2, <2>1, <2>2, <2>3, <2>4
  <2> QED BY <2>1, <2>5, LoopKeepsCommon DEF CommonInv, Lists
<1>6. CASE DoneObservers
  <2>1. UNCHANGED <<observers, rlCount, commonModes, commonItems, holder, op, dead, valid, frame>>
        /\ depth' = depth - 1
    BY <1>6 DEF DoneObservers, lists, common, past
  <2>2. Buried'
    BY <1>0, <2>1 DEF CommonInv, Buried
  <2> QED BY <2>1, <2>2, LoopKeepsCommon DEF CommonInv, Lists
<1>7. CASE StoreBits
  <2> DEFINE f == [Top EXCEPT !.pc = "next", !.cur = None]
  <2>1. UNCHANGED <<observers, rlCount, commonModes, commonItems, holder, op, dead, depth>>
    BY <1>7 DEF StoreBits, lists, common, past
  <2>2. /\ depth > 0 /\ Top \in Frame /\ Top.cur \in Observer /\ SetTop(f)
        /\ Top.pc = "store" /\ valid' = [valid EXCEPT ![Top.cur] = Top.saw]
    BY <1>3, <1>7 DEF StoreBits, ObserversInv, Shape, Frames, Top, Frame
  <2>3. f \in Frame /\ f.pc = "next"
    BY <2>2 DEF Frame, FramePC
  <2> HIDE DEF f
  <2>4. /\ frame'[depth] = f
        /\ \A d \in Level : d # depth => frame'[d] = frame[d]
    BY <2>2, <2>3, SetTopEffect DEF ObserversInv
  <2>5. Top.saw \/ Top.cur \in dead
    BY <1>0, <1>3, <2>2 DEF CommonInv, Buried, Top
  <2>6. \A o \in Observer : ~valid'[o] => o \in dead
    BY <1>0, <2>2, <2>5 DEF CommonInv, Buried
  <2>7. Buried'
    BY <1>0, <2>1, <2>3, <2>4, <2>6 DEF CommonInv, Buried
  <2> QED BY <2>1, <2>7, LoopKeepsCommon DEF CommonInv, Lists
<1>8. CASE ObserverReturns
  <2>1. UNCHANGED <<observers, rlCount, commonModes, commonItems, holder, op, depth>>
    BY <1>8 DEF ObserverReturns, lists, common
  <2>2. depth > 0 /\ Top \in Frame /\ Top.cur \in Observer
    BY <1>3, <1>8 DEF ObserverReturns, ObserversInv, Shape, Frames, Top, Frame
  <2>3. PICK f \in Frame : f.pc # "store" /\ SetTop(f)
    <3> DEFINE g(c) == [Top EXCEPT !.pc = c]
    <3>1. g("unset") \in Frame /\ g("unset").pc = "unset" /\ g("remove") \in Frame /\ g("remove").pc = "remove"
      BY <2>2 DEF Frame, FramePC
    <3>2. SetTop(g("unset")) \/ SetTop(g("remove"))
      BY <1>8 DEF ObserverReturns
    <3> HIDE DEF g
    <3> QED BY <3>1, <3>2
  <2>4. /\ frame'[depth] = f
        /\ \A d \in Level : d # depth => frame'[d] = frame[d]
    BY <2>2, <2>3, SetTopEffect DEF ObserversInv
  <2>5. /\ dead \subseteq dead' /\ dead' \subseteq Observer
        /\ \A o \in Observer : ~valid'[o] => o \in dead'
    <3>1. CASE Top.cur \in OneShot /\ valid[Top.cur]
      BY <1>0, <1>8, <2>2, <3>1 DEF ObserverReturns, CommonInv, Buried
    <3>2. CASE ~(Top.cur \in OneShot /\ valid[Top.cur])
      BY <1>0, <1>8, <3>2 DEF ObserverReturns, CommonInv, Buried
    <3> QED BY <3>1, <3>2
  <2>6. Buried'
    BY <1>0, <2>1, <2>3, <2>4, <2>5 DEF CommonInv, Buried
  <2> QED BY <2>1, <2>5, <2>6, LoopKeepsCommon
<1>9. CASE OneShotRemoved
  <2>1. UNCHANGED <<commonModes, valid, holder, op, depth, dead>> /\ holder = None
    BY <1>9 DEF OneShotRemoved, RemoveEverywhere, past
  <2> DEFINE f == [Top EXCEPT !.pc = "unset"]
  <2>2. depth > 0 /\ Top \in Frame /\ Top.cur \in Observer /\ SetTop(f)
    BY <1>3, <1>9 DEF OneShotRemoved, ObserversInv, Shape, Frames, Top, Frame
  <2>3. f \in Frame /\ f.pc = "unset"
    BY <2>2 DEF Frame, FramePC
  <2> HIDE DEF f
  <2>4. Buried'
    BY <1>2, <2>1, <2>2, <2>3
  <2>5. op' \in [Thread -> Op] /\ Locks'
    BY <2>1 DEF CommonInv, Lists, Locks
  <2>6. PICK o \in Observer : o = Top.cur
    BY <2>2
  <2>7. RemoveEverywhere(o)
    BY <1>9, <2>6 DEF OneShotRemoved
  <2> QED BY <2>1, <2>4, <2>5, <2>7, RemoveKeepsCommon
<1> QED BY <1>1, <1>4, <1>5, <1>6, <1>7, <1>8, <1>9 DEF LoopStep

\* A thread's step from one part of a call to the next, nothing pending in it.
LEMMA CallKeepsCommon ==
  ASSUME CommonInv, UNCHANGED <<observers, rlCount, commonModes, commonItems, holder>>,
         NEW t \in Thread, NEW x \in Op, Does(t, x), holder # t, x[1] # "each",
         dead \subseteq dead', dead' \subseteq Observer, Buried'
  PROVE  CommonInv'
<1>1. /\ op' \in [Thread -> Op] /\ op'[t] = x
      /\ \A u \in Thread \ {t} : op'[u] = op[u]
  BY DEF CommonInv, Lists, Does
<1>2. Lists' /\ CountIsExact'
  BY <1>1 DEF CommonInv, Lists, CountIsExact
<1>3. Locks'
  BY <1>1 DEF CommonInv, Locks
<1>4. Covered'
  <2>1. \A u \in Thread \ {t} : Pending(u)' = Pending(u)
    BY <1>1 DEF Pending
  <2> QED BY <2>1 DEF CommonInv, Covered
<1> QED BY <1>2, <1>3, <1>4 DEF CommonInv

\* Going through the copied pairs.
LEMMA EachKeepsCommon ==
  ASSUME CommonInv, NEW t \in Thread, Each(t)
  PROVE  CommonInv'
<1> USE ObserverAssumption
<1>0. /\ op \in [Thread -> Op] /\ op[t] \in Op /\ op[t][1] = "each" /\ holder = t
      /\ op[t][2] \in SUBSET Pair /\ Pending(t) = op[t][2]
  BY OpParts DEF CommonInv, Lists, Locks, Each, Pending
<1>1. UNCHANGED <<observers, rlCount, commonModes, commonItems, dead, valid, frame, depth>>
  BY DEF Each, lists, common, loop, past
<1>2. Buried' /\ CountIsExact'
  BY <1>1 DEF CommonInv, Buried, CountIsExact
<1>3. CASE op[t][2] = {} /\ holder' = None /\ Does(t, Idle)
  <2>1. /\ op' \in [Thread -> Op] /\ op'[t] = Idle /\ Idle[1] = "idle"
        /\ \A u \in Thread \ {t} : op'[u] = op[u]
    BY <1>0, <1>3, OpForms DEF Does, Idle
  <2>2. Lists'
    BY <1>1, <1>3, <2>1 DEF CommonInv, Lists
  <2>3. Locks'
    BY <1>0, <1>3, <2>1 DEF CommonInv, Locks
  <2>4. Covered'
    BY <1>0, <1>1, <1>3 DEF CommonInv, Covered
  <2> QED BY <1>2, <2>2, <2>3, <2>4 DEF CommonInv
<1>4. ASSUME NEW p \in op[t][2], UNCHANGED holder,
             Does(t, IF valid[p[1]] THEN <<"insert", p, op[t][2] \ {p}>>
                                    ELSE <<"each", op[t][2] \ {p}>>)
      PROVE  CommonInv'
  <2> DEFINE rest == op[t][2] \ {p}
  <2>1. p \in Pair /\ rest \in SUBSET Pair /\ op[t][2] = {p} \cup rest
    BY <1>0
  <2>2. PICK x \in Op : /\ x = IF valid[p[1]] THEN <<"insert", p, rest>> ELSE <<"each", rest>>
                        /\ op' = [op EXCEPT ![t] = x]
    BY <1>4, <2>1, OpForms DEF Does
  <2>3. /\ op' \in [Thread -> Op] /\ op'[t] = x /\ \A u \in Thread \ {t} : op'[u] = op[u]
    BY <1>0, <2>2
  <2>4. /\ valid[p[1]] => x[1] = "insert" /\ x[2] = p /\ x[3] = rest
        /\ ~valid[p[1]] => x[1] = "each" /\ x[2] = rest
    BY <2>2
  <2> HIDE DEF rest
  <2>5. Lists'
    BY <1>1, <1>4, <2>3 DEF CommonInv, Lists
  <2>6. Locks'
    BY <1>0, <1>4, <2>3, <2>4 DEF CommonInv, Locks
  <2>7. Pending(t)' = IF valid[p[1]] THEN {p} \cup rest ELSE rest
    BY <2>3, <2>4 DEF Pending
  <2>8. ~valid[p[1]] => p[1] \in dead
    BY <2>1 DEF CommonInv, Buried, Pair
  <2>9. Covered'
    BY <1>0, <1>1, <1>4, <2>1, <2>7, <2>8 DEF CommonInv, Covered
  <2> QED BY <1>2, <2>5, <2>6, <2>9 DEF CommonInv
<1> QED BY <1>3, <1>4 DEF Each

\* An observer is put into a mode.
LEMMA InsertKeepsCommon ==
  ASSUME CommonInv, NEW t \in Thread, Insert(t)
  PROVE  CommonInv'
<1> USE ObserverAssumption
<1>0. /\ op \in [Thread -> Op] /\ op[t] \in Op /\ op[t][1] = "insert"
      /\ op[t][2] \in Pair /\ op[t][3] \in SUBSET Pair
      /\ Pending(t) = {op[t][2]} \cup op[t][3]
  BY OpParts DEF CommonInv, Lists, Insert, Pending
<1>1. UNCHANGED <<holder, commonModes, commonItems, dead, valid, frame, depth>>
  BY DEF Insert, common, loop, past
<1>2. Buried'
  BY <1>1 DEF CommonInv, Buried
<1>3. PICK p, o, m : p = op[t][2] /\ o = p[1] /\ m = p[2]
  OBVIOUS
<1>4. o \in Observer /\ m \in Mode /\ p = <<o, m>>
  BY <1>0, <1>3 DEF Pair
<1>5. /\ o \in observers[m] => UNCHANGED <<observers, rlCount>>
      /\ o \notin observers[m] => /\ observers' = [observers EXCEPT ![m] = @ \cup {o}]
                                  /\ rlCount' = [rlCount EXCEPT ![o] = @ + 1]
  BY <1>3 DEF Insert, lists
<1>6. /\ observers' \in [Mode -> SUBSET Observer] /\ o \in observers'[m]
      /\ \A n \in Mode, q \in Observer : q \in observers'[n] <=> q \in observers[n] \/ (q = o /\ n = m)
  BY <1>4, <1>5 DEF CommonInv, Lists
<1>7. CountIsExact' /\ rlCount' \in [Observer -> Nat]
  <2>1. CASE o \in observers[m]
    BY <1>5, <2>1 DEF CommonInv, CountIsExact, Lists
  <2>2. CASE o \notin observers[m]
    <3>1. IsFiniteSet(Holding(o))
      BY ModeAssumption, FS_Subset DEF Holding
    <3>2. Holding(o)' = Holding(o) \cup {m} /\ m \notin Holding(o)
      BY <1>4, <1>6, <2>2 DEF Holding
    <3>3. Cardinality(Holding(o) \cup {m}) = Cardinality(Holding(o)) + 1
      BY <3>1, <3>2, FS_AddElement
    <3>4. \A q \in Observer \ {o} : Holding(q)' = Holding(q)
      BY <1>6 DEF Holding
    <3>5. \A q \in Observer : rlCount[q] = Cardinality(Holding(q)) /\ rlCount[q] \in Nat
      BY DEF CommonInv, Lists, CountIsExact, Holding
    <3>6. rlCount'[o] = rlCount[o] + 1 /\ \A q \in Observer \ {o} : rlCount'[q] = rlCount[q]
      BY <1>4, <1>5, <2>2 DEF CommonInv, Lists
    <3>7. \A q \in Observer : rlCount'[q] = Cardinality(Holding(q)') /\ rlCount'[q] \in Nat
      <4>1. Cardinality(Holding(o)') = Cardinality(Holding(o)) + 1
        BY <3>2, <3>3, Zenon
      <4>2. rlCount'[o] = Cardinality(Holding(o)') /\ rlCount'[o] \in Nat
        BY <1>4, <3>5, <3>6, <4>1
      <4>3. ASSUME NEW q \in Observer \ {o}
            PROVE  rlCount'[q] = Cardinality(Holding(q)') /\ rlCount'[q] \in Nat
        BY <3>4, <3>5, <3>6
      <4> QED BY <4>2, <4>3
    <3>8. CountIsExact'
      BY <3>7 DEF CountIsExact, Holding
    <3>9. rlCount' \in [Observer -> Nat]
      BY <1>5, <2>2, <3>7 DEF CommonInv, Lists
    <3> QED BY <3>8, <3>9
  <2> QED BY <2>1, <2>2
<1>8. PICK x \in Op : /\ x = IF holder = t THEN <<"each", op[t][3]>> ELSE Idle
                      /\ op' = [op EXCEPT ![t] = x]
  BY <1>0, OpForms DEF Insert, Does
<1>9. /\ op' \in [Thread -> Op] /\ op'[t] = x /\ \A u \in Thread \ {t} : op'[u] = op[u]
  BY <1>0, <1>8
<1>10. /\ holder = t => x[1] = "each" /\ x[2] = op[t][3]
       /\ holder # t => x[1] = "idle"
  BY <1>8 DEF Idle
<1>11. Lists'
  BY <1>1, <1>6, <1>7, <1>9 DEF CommonInv, Lists
<1>12. Locks'
  BY <1>1, <1>9, <1>10 DEF CommonInv, Locks
<1>13. holder = t => Pending(t)' = op[t][3]
  BY <1>9, <1>10 DEF Pending
<1>14. \A u \in Thread \ {t} : Pending(u)' = Pending(u)
  BY <1>9 DEF Pending
<1>15. Covered'
  BY <1>0, <1>1, <1>3, <1>4, <1>6, <1>13, <1>14 DEF CommonInv, Covered, Lists
<1> QED BY <1>2, <1>7, <1>11, <1>12, <1>15 DEF CommonInv

\* Each step of a thread keeps the invariant.
LEMMA ThreadStepCommon ==
  ASSUME ObserversInv, CommonInv, NEW t \in Thread, ThreadStep(t)
  PROVE  CommonInv'
<1> USE ObserverAssumption, ModeAssumption
<1>0. /\ op \in [Thread -> Op] /\ Idle[1] = "idle" /\ t # None
      /\ \A u \in Thread : op[u][1] \notin {"each", "insert"} => holder # u
      /\ valid \in [Observer -> BOOLEAN]
  BY DEF CommonInv, Lists, Locks, Idle, ObserversInv, Shape
<1>b. UNCHANGED <<valid, frame, depth, dead>> => Buried'
  BY DEF CommonInv, Buried
<1>1. ASSUME NEW o \in Observer, AddToCommonModes(t, o) PROVE CommonInv'
  <2>1. PICK x \in Op : x = <<"common", o>>
    BY OpForms
  <2>2. x[1] = "common" /\ Does(t, x)
    BY <1>1, <2>1 DEF AddToCommonModes
  <2> QED BY <1>0, <1>b, <1>1, <2>2, CallKeepsCommon
          DEF AddToCommonModes, lists, common, loop, past, CommonInv, Lists
<1>2. ASSUME NEW o \in Observer, NEW m \in Direct, AddObserver(t, o, m) PROVE CommonInv'
  <2>1. PICK x \in Op : x = <<"insert", <<o, m>>, {}>>
    <3>1. <<o, m>> \in Pair /\ {} \in SUBSET Pair
      BY DEF Pair
    <3> QED BY <3>1, OpForms
  <2>2. x[1] = "insert" /\ Does(t, x)
    BY <1>2, <2>1 DEF AddObserver
  <2> QED BY <1>0, <1>b, <1>2, <2>2, CallKeepsCommon
          DEF AddObserver, lists, common, loop, past, CommonInv, Lists
<1>3. ASSUME NEW o \in Observer, ObserverInvalidate(t, o) PROVE CommonInv'
  <2>1. PICK x \in Op : /\ x = IF rlCount[o] = 0 THEN Idle ELSE <<"remove", o>>
                        /\ Does(t, x)
    BY <1>3, OpForms DEF ObserverInvalidate
  <2>2. x[1] \in {"idle", "remove"}
    BY <1>0, <2>1
  <2>3. dead' = dead \cup {o} /\ dead' \subseteq Observer
    BY <1>3 DEF ObserverInvalidate, CommonInv, Lists
  <2>4. Buried'
    BY <1>0, <1>3, <2>3 DEF ObserverInvalidate, loop, CommonInv, Buried
  <2> QED BY <1>0, <1>3, <2>1, <2>2, <2>3, <2>4, CallKeepsCommon
          DEF ObserverInvalidate, lists, common
<1>4. ASSUME NEW o \in Observer, InvalidateRemoves(t, o) PROVE CommonInv'
  <2>1. UNCHANGED <<commonModes, holder, dead, valid, frame, depth>> /\ RemoveEverywhere(o)
        /\ op' = [op EXCEPT ![t] = Idle] /\ holder = None
    BY <1>4 DEF InvalidateRemoves, RemoveEverywhere, loop, past, Does
  <2>2. op' \in [Thread -> Op]
    BY <1>0, <2>1, OpForms
  <2>3. Locks'
    BY <1>0, <2>1 DEF CommonInv, Locks
  <2> QED BY <1>b, <2>1, <2>2, <2>3, RemoveKeepsCommon
<1>5. ASSUME NEW o \in Observer, AddToCommonModesLocked(t, o) PROVE CommonInv'
  <2> DEFINE S == {o} \X commonModes
  <2>1. S \in SUBSET Pair /\ \A m \in commonModes : <<o, m>> \in S
    BY DEF CommonInv, Lists, Pair
  <2>2. /\ commonItems' = commonItems \cup {o} /\ holder = None /\ holder' = t
        /\ UNCHANGED <<observers, rlCount, commonModes, valid, frame, depth, dead>>
        /\ op' = [op EXCEPT ![t] = <<"each", S>>]
    BY <1>5 DEF AddToCommonModesLocked, lists, loop, past, Does
  <2> HIDE DEF S
  <2>3. PICK x \in Op : x = <<"each", S>>
    BY <2>1, OpForms
  <2>4. /\ x[1] = "each" /\ x[2] = S /\ op' \in [Thread -> Op] /\ op'[t] = x
        /\ \A u \in Thread \ {t} : op'[u] = op[u]
    BY <1>0, <2>2, <2>3
  <2>5. Lists' /\ CountIsExact'
    BY <2>2, <2>4 DEF CommonInv, Lists, CountIsExact
  <2>6. Locks'
    BY <1>0, <2>2, <2>4 DEF CommonInv, Locks
  <2>7. Pending(t)' = S
    BY <2>4 DEF Pending
  <2>8. Covered'
    BY <2>1, <2>2, <2>7 DEF CommonInv, Covered
  <2> QED BY <1>b, <2>2, <2>5, <2>6, <2>8 DEF CommonInv
<1>6. ASSUME NEW n \in Mode, AddCommonMode(t, n) PROVE CommonInv'
  <2> DEFINE S == commonItems \X {n}
  <2>1. S \in SUBSET Pair /\ \A o \in commonItems : <<o, n>> \in S
    BY DEF CommonInv, Lists, Pair
  <2>2. /\ commonModes' = commonModes \cup {n} /\ holder = None /\ holder' = t
        /\ UNCHANGED <<observers, rlCount, commonItems, valid, frame, depth, dead>>
        /\ op' = [op EXCEPT ![t] = <<"each", S>>]
    BY <1>6 DEF AddCommonMode, lists, loop, past, Does
  <2> HIDE DEF S
  <2>3. PICK x \in Op : x = <<"each", S>>
    BY <2>1, OpForms
  <2>4. /\ x[1] = "each" /\ x[2] = S /\ op' \in [Thread -> Op] /\ op'[t] = x
        /\ \A u \in Thread \ {t} : op'[u] = op[u]
    BY <1>0, <2>2, <2>3
  <2>5. Lists' /\ CountIsExact'
    BY <2>2, <2>4 DEF CommonInv, Lists, CountIsExact
  <2>6. Locks'
    BY <1>0, <2>2, <2>4 DEF CommonInv, Locks
  <2>7. Pending(t)' = S
    BY <2>4 DEF Pending
  <2>8. Covered'
    BY <2>1, <2>2, <2>7 DEF CommonInv, Covered
  <2> QED BY <1>b, <2>2, <2>5, <2>6, <2>8 DEF CommonInv
<1>7. ASSUME NEW o \in Observer, NEW m \in Direct, RemoveObserver(t, o, m) PROVE CommonInv'
  <2>1. /\ UNCHANGED <<commonModes, commonItems, holder, op, valid, frame, depth, dead>>
        /\ holder = None /\ TakeOut(o, {m}) /\ {m} \in SUBSET Mode
    BY <1>7 DEF RemoveObserver, common, loop, past
  <2>2. /\ observers' \in [Mode -> SUBSET Observer] /\ rlCount' \in [Observer -> Nat]
        /\ CountIsExact'
        /\ \A k \in Mode, q \in Observer :
             q \in observers[k] /\ ~(q = o /\ k \in {m}) => q \in observers'[k]
    BY <2>1, TakeOutCounts DEF CommonInv
  <2>3. Lists' /\ Locks'
    BY <2>1, <2>2 DEF CommonInv, Lists, Locks
  <2>4. Covered'
    BY <2>1, <2>2 DEF CommonInv, Covered, Lists
  <2> QED BY <1>b, <2>1, <2>2, <2>3, <2>4 DEF CommonInv
<1>8. ASSUME NEW o \in Observer, RemoveFromCommonModes(t, o) PROVE CommonInv'
  <2>1. /\ UNCHANGED <<commonModes, holder, op, valid, frame, depth, dead>>
        /\ commonItems' = commonItems \ {o}
        /\ holder = None /\ TakeOut(o, commonModes) /\ commonModes \in SUBSET Mode
    BY <1>8 DEF RemoveFromCommonModes, loop, past, CommonInv, Lists
  <2>2. PICK ms \in SUBSET Mode : ms = commonModes
    BY <2>1
  <2>3. /\ observers' \in [Mode -> SUBSET Observer] /\ rlCount' \in [Observer -> Nat]
        /\ CountIsExact'
        /\ \A k \in Mode, q \in Observer :
             q \in observers[k] /\ ~(q = o /\ k \in ms) => q \in observers'[k]
    BY <2>1, <2>2, TakeOutCounts DEF CommonInv
  <2>4. Lists' /\ Locks'
    BY <2>1, <2>3 DEF CommonInv, Lists, Locks
  <2>5. Covered'
    BY <2>1, <2>3 DEF CommonInv, Covered, Lists
  <2> QED BY <1>b, <2>1, <2>3, <2>4, <2>5 DEF CommonInv
<1> QED BY <1>1, <1>2, <1>3, <1>4, <1>5, <1>6, <1>7, <1>8, EachKeepsCommon, InsertKeepsCommon
        DEF ThreadStep

\* The two invariants hold at first and are kept.
LEMMA CommonInductive == Spec => [](ObserversInv /\ CommonInv)
<1>1. Init => ObserversInv /\ CommonInv
  BY InitInv, InitCommon
<1>2. ObserversInv /\ CommonInv /\ [Next]_vars => (ObserversInv /\ CommonInv)'
  <2> SUFFICES ASSUME ObserversInv, CommonInv, [Next]_vars PROVE CommonInv'
    BY NextInv
  <2>1. CASE UNCHANGED vars
    <3>1. /\ UNCHANGED <<observers, rlCount, commonModes, commonItems, holder, op>>
          /\ dead' = dead /\ dead' \subseteq Observer
      BY <2>1 DEF vars, CommonInv, Lists
    <3>2. Buried'
      BY <2>1 DEF vars, CommonInv, Buried
    <3> QED BY <3>1, <3>2, LoopKeepsCommon
  <2> QED BY <2>1, LoopStepCommon, ThreadStepCommon DEF Next
<1> QED BY <1>1, <1>2, PTL DEF Spec

(***************************************************************************)
(* _rlCount is the number of modes that hold the observer, for any number  *)
(* of modes and threads that add, remove and invalidate it: an             *)
(* invalidation that finds it at zero has nothing to remove.               *)
(***************************************************************************)
THEOREM CountStaysExact == Spec => []CountIsExact
<1>1. CommonInv => CountIsExact
  BY DEF CommonInv
<1> QED BY <1>1, CommonInductive, PTL

(***************************************************************************)
(* Every common item that was not invalidated is in every common mode that *)
(* nobody removes from by name, when the lock is free: the two copies that *)
(* CFRunLoopAddObserver and CFRunLoopAddCommonMode go through leave no     *)
(* pair out, whichever of item and mode came last.                         *)
(***************************************************************************)
THEOREM CommonItemsEverywhere == Spec => []CommonItemsInCommonModes
<1>1. CommonInv => CommonItemsInCommonModes
  BY ObserverAssumption DEF CommonInv, Covered, CommonItemsInCommonModes
<1> QED BY <1>1, CommonInductive, PTL

(***************************************************************************)
(* Every reachable state of the observers is well typed: in particular     *)
(* _rlCount never drops below zero.                                        *)
(***************************************************************************)
THEOREM Typed == Spec => []TypeOK
<1>1. ObserversInv /\ CommonInv => TypeOK
  BY DEF ObserversInv, Shape, CommonInv, Lists, TypeOK
<1> QED BY <1>1, CommonInductive, PTL
=============================================================================
