------------------------- MODULE CFRunLoopObservers -------------------------
(***************************************************************************)
(* The observers of one run loop, and its common modes with the observers  *)
(* as common items: adding and removing by name of a mode and by           *)
(* kCFRunLoopCommonModes, CFRunLoopAddCommonMode,                          *)
(* CFRunLoopObserverInvalidate, and __CFRunLoopDoObservers in runs nested  *)
(* to any depth.                                                           *)
(*                                                                         *)
(* The array rlm->_observers is ordered by _order: it is a set here, and   *)
(* observers of the same order may come in any order.                      *)
(*                                                                         *)
(* The firing bit and the valid bit of an observer share a byte.  The      *)
(* firing bit is cleared without the observer's lock, so that a valid bit  *)
(* cleared between the load and the store of that byte comes back.  (The   *)
(* reverse loss leaves the firing bit of an invalid observer set, which    *)
(* nothing reads.)                                                         *)
(***************************************************************************)
EXTENDS Naturals, FiniteSets

CONSTANTS
    Mode, Observer, Activity,
    DefaultMode, \* kCFRunLoopDefaultMode, common from the start
    Thread,      \* other threads; a callout's own calls are attributed to them
    Order,       \* Order[o]: _order
    Watches,     \* Watches[o]: _activities
    OneShot,     \* the observers created with repeats false
    Direct,      \* the modes callers add to and remove from by their own names
    MaxDepth,    \* bound on nested runs
    None

ASSUME ObserverAssumption ==
    /\ None \notin Observer /\ None \notin Thread
    /\ OneShot \subseteq Observer
    /\ Order \in [Observer -> Nat]
    /\ Watches \in [Observer -> SUBSET Activity]
ASSUME ModeAssumption ==
    IsFiniteSet(Mode) /\ Direct \subseteq Mode /\ DefaultMode \in Mode
ASSUME NestingAssumption == MaxDepth \in Nat

VARIABLES
    observers,   \* observers[m]: rlm->_observers
    commonModes, \* rl->_commonModes
    commonItems, \* the observers in rl->_commonModeItems
    rlCount,     \* rlCount[o]: _rlCount; _runLoop is NULL when it is zero
    valid,       \* valid[o]: __CFIsValid
    firing,      \* firing[o]: __CFRunLoopObserverIsFiring
    holder,      \* the thread that keeps rl->_lock between two steps, or None
    op,          \* op[t]: what thread t still has to do of its current call
    frame,       \* frame[1..depth]: the calls of __CFRunLoopDoObservers
    depth,
    called,      \* history: the observers that were called out to
    dead         \* history: the observers that were invalidated

vars == <<observers, commonModes, commonItems, rlCount, valid, firing, holder,
          op, frame, depth, called, dead>>

lists == <<observers, rlCount>>
common == <<commonModes, commonItems>>
loop  == <<frame, depth>>
past  == <<called, dead>>

Level == 1..MaxDepth
Pair  == Observer \X Mode

\* The locals of __CFRunLoopDoObservers: the collected observers still to be
\* called, the current one, and the valid bit in the byte that
\* __CFRunLoopObserverUnsetFiring has loaded.
FramePC == {"next", "callout", "remove", "unset", "store"}
Frame == [pc: FramePC, todo: SUBSET Observer, cur: Observer \cup {None}, saw: BOOLEAN]

Idle == <<"idle">>

Op == {Idle} \cup ({"insert"} \X Pair \X SUBSET Pair) \cup ({"each"} \X SUBSET Pair)
        \cup ({"common", "remove"} \X Observer)

(***************************************************************************)
(* The type invariant: in particular _rlCount never drops below zero.      *)
(***************************************************************************)
TypeOK ==
    /\ observers \in [Mode -> SUBSET Observer]
    /\ commonModes \subseteq Mode
    /\ commonItems \subseteq Observer
    /\ rlCount \in [Observer -> Nat]
    /\ valid \in [Observer -> BOOLEAN]
    /\ firing \in [Observer -> BOOLEAN]
    /\ holder \in Thread \cup {None}
    /\ op \in [Thread -> Op]
    /\ frame \in [Level -> Frame]
    /\ depth \in 0..MaxDepth
    /\ called \subseteq Observer
    /\ dead \subseteq Observer

Init ==
    /\ observers = [m \in Mode |-> {}]
    /\ commonModes = {DefaultMode}
    /\ commonItems = {}
    /\ rlCount = [o \in Observer |-> 0]
    /\ valid = [o \in Observer |-> TRUE]
    /\ firing = [o \in Observer |-> FALSE]
    /\ holder = None
    /\ op = [t \in Thread |-> Idle]
    /\ frame = [d \in Level |-> [pc |-> "next", todo |-> {}, cur |-> None, saw |-> FALSE]]
    /\ depth = 0
    /\ called = {}
    /\ dead = {}

-----------------------------------------------------------------------------

Does(t, what) == op' = [op EXCEPT ![t] = what]

\* CFRunLoopAddObserver tests the observer before it takes the lock.
AddObserver(t, o, m) ==
    /\ op[t] = Idle
    /\ valid[o]
    /\ Does(t, <<"insert", <<o, m>>, {}>>)
    /\ UNCHANGED <<lists, common, valid, firing, holder, loop, past>>

AddToCommonModes(t, o) ==
    /\ op[t] = Idle
    /\ valid[o]
    /\ Does(t, <<"common", o>>)
    /\ UNCHANGED <<lists, common, valid, firing, holder, loop, past>>

\* The new item is added to a copy of the set of common modes, one by one and
\* each by a CFRunLoopAddObserver of its own, under the lock.
AddToCommonModesLocked(t, o) ==
    /\ op[t] = <<"common", o>>
    /\ holder = None
    /\ commonItems' = commonItems \cup {o}
    /\ holder' = t
    /\ Does(t, <<"each", {o} \X commonModes>>)
    /\ UNCHANGED <<lists, commonModes, valid, firing, loop, past>>

\* Mutant of AddCommonMode: the items are forgotten.
AddCommonModeOnly(t, m) ==
    /\ op[t] = Idle
    /\ holder = None
    /\ m \notin commonModes
    /\ commonModes' = commonModes \cup {m}
    /\ UNCHANGED <<lists, commonItems, valid, firing, holder, op, loop, past>>

AddCommonMode(t, m) ==
    /\ op[t] = Idle
    /\ holder = None
    /\ m \notin commonModes
    /\ commonModes' = commonModes \cup {m}
    /\ holder' = t
    /\ Does(t, <<"each", commonItems \X {m}>>)
    /\ UNCHANGED <<lists, commonItems, valid, firing, loop, past>>

\* The next pair of the copied set: the inner CFRunLoopAddObserver makes its
\* test, or there is none left and the lock is released.
Each(t) ==
    /\ op[t][1] = "each"
    /\ \/ \E p \in op[t][2] :
            /\ Does(t, IF valid[p[1]] THEN <<"insert", p, op[t][2] \ {p}>>
                                      ELSE <<"each", op[t][2] \ {p}>>)
            /\ UNCHANGED holder
       \/ /\ op[t][2] = {}
          /\ holder' = None
          /\ Does(t, Idle)
    /\ UNCHANGED <<lists, common, valid, firing, loop, past>>

\* Mutant of Insert: an observer that is there already is scheduled again.
InsertCounts(t) ==
    /\ op[t][1] = "insert"
    /\ holder \in {None, t}
    /\ LET o == op[t][2][1]  m == op[t][2][2] IN
         /\ observers' = [observers EXCEPT ![m] = @ \cup {o}]
         /\ rlCount' = [rlCount EXCEPT ![o] = @ + 1]
    /\ Does(t, IF holder = t THEN <<"each", op[t][3]>> ELSE Idle)
    /\ UNCHANGED <<common, valid, firing, holder, loop, past>>

\* CFRunLoopAddObserver with the lock, and __CFRunLoopObserverSchedule.
Insert(t) ==
    /\ op[t][1] = "insert"
    /\ holder \in {None, t}
    /\ LET o == op[t][2][1]  m == op[t][2][2] IN
         IF o \in observers[m] THEN UNCHANGED lists
         ELSE /\ observers' = [observers EXCEPT ![m] = @ \cup {o}]
              /\ rlCount' = [rlCount EXCEPT ![o] = @ + 1]
    /\ Does(t, IF holder = t THEN <<"each", op[t][3]>> ELSE Idle)
    /\ UNCHANGED <<common, valid, firing, holder, loop, past>>

\* Mutant of TakeOut: the count is dropped once for each mode that is named.
TakeOutAll(o, ms) ==
    /\ observers' = [m \in Mode |-> IF m \in ms THEN observers[m] \ {o} ELSE observers[m]]
    /\ rlCount' = [rlCount EXCEPT ![o] = @ - Cardinality(ms)]

\* CFRunLoopRemoveObserver for each of the modes ms that holds the observer,
\* and __CFRunLoopObserverCancel.
TakeOut(o, ms) ==
    /\ observers' = [m \in Mode |-> IF m \in ms THEN observers[m] \ {o} ELSE observers[m]]
    /\ rlCount' = [rlCount EXCEPT ![o] = @ - Cardinality({m \in ms : o \in observers[m]})]

RemoveObserver(t, o, m) ==
    /\ op[t] = Idle
    /\ holder = None
    /\ TakeOut(o, {m})
    /\ UNCHANGED <<common, valid, firing, holder, op, loop, past>>

RemoveFromCommonModes(t, o) ==
    /\ op[t] = Idle
    /\ holder = None
    /\ o \in commonItems
    /\ commonItems' = commonItems \ {o}
    /\ TakeOut(o, commonModes)
    /\ UNCHANGED <<commonModes, valid, firing, holder, op, loop, past>>

\* CFRunLoopObserverInvalidate under the observer's lock, and the removal from
\* every mode under the loop's.
ObserverInvalidate(t, o) ==
    /\ op[t] = Idle
    /\ valid[o]
    /\ valid' = [valid EXCEPT ![o] = FALSE]
    /\ dead' = dead \cup {o}
    /\ Does(t, IF rlCount[o] = 0 THEN Idle ELSE <<"remove", o>>)
    /\ UNCHANGED <<lists, common, firing, holder, loop, called>>

RemoveEverywhere(o) ==
    /\ holder = None
    /\ TakeOut(o, Mode)
    /\ commonItems' = commonItems \ {o}

InvalidateRemoves(t, o) ==
    /\ op[t] = <<"remove", o>>
    /\ RemoveEverywhere(o)
    /\ Does(t, Idle)
    /\ UNCHANGED <<commonModes, valid, firing, holder, loop, past>>

-----------------------------------------------------------------------------

Top == frame[depth]
SetTop(f) == frame' = [frame EXCEPT ![depth] = f]

\* Mutant of DoObservers: an observer that is firing is collected.
DoObserversFiring(m, a) ==
    /\ depth < MaxDepth
    /\ depth > 0 => Top.pc = "callout"
    /\ holder = None
    /\ observers[m] # {}
    /\ depth' = depth + 1
    /\ frame' = [frame EXCEPT ![depth + 1] =
         [pc |-> "next", cur |-> None, saw |-> FALSE,
          todo |-> {o \in Observer : o \in observers[m] /\ a \in Watches[o] /\ valid[o]}]]
    /\ UNCHANGED <<lists, common, valid, firing, holder, op, past>>

\* A run, nested or not, gets to an activity: the observers are collected and
\* the lock is released.
DoObservers(m, a) ==
    /\ depth < MaxDepth
    /\ depth > 0 => Top.pc = "callout"
    /\ holder = None
    /\ observers[m] # {}
    /\ depth' = depth + 1
    /\ frame' = [frame EXCEPT ![depth + 1] =
         [pc |-> "next", cur |-> None, saw |-> FALSE,
          todo |-> {o \in Observer : /\ o \in observers[m]
                                     /\ a \in Watches[o]
                                     /\ valid[o] /\ ~firing[o]}]]
    /\ UNCHANGED <<lists, common, valid, firing, holder, op, past>>

\* Mutant of CallObserver: the valid bit is not looked at again.
CallObserverBlindly(o) ==
    /\ depth > 0 /\ Top.pc = "next"
    /\ o \in Top.todo
    /\ SetTop([Top EXCEPT !.pc = "callout", !.cur = o, !.todo = @ \ {o}])
    /\ firing' = [firing EXCEPT ![o] = TRUE]
    /\ called' = called \cup {o}
    /\ UNCHANGED <<lists, common, valid, holder, op, depth, dead>>

\* The next of the collected observers, looked at again under its own lock.
CallObserver(o) ==
    /\ depth > 0 /\ Top.pc = "next"
    /\ o \in Top.todo /\ \A p \in Top.todo : Order[o] <= Order[p]
    /\ IF valid[o]
         THEN /\ SetTop([Top EXCEPT !.pc = "callout", !.cur = o, !.todo = @ \ {o}])
              /\ firing' = [firing EXCEPT ![o] = TRUE]
              /\ called' = called \cup {o}
         ELSE /\ SetTop([Top EXCEPT !.todo = @ \ {o}])
              /\ UNCHANGED <<firing, called>>
    /\ UNCHANGED <<lists, common, valid, holder, op, depth, dead>>

\* The callout returns; an observer that does not repeat is invalidated.
ObserverReturns ==
    /\ depth > 0 /\ Top.pc = "callout"
    /\ IF Top.cur \in OneShot /\ valid[Top.cur]
         THEN /\ valid' = [valid EXCEPT ![Top.cur] = FALSE]
              /\ dead' = dead \cup {Top.cur}
              /\ SetTop([Top EXCEPT !.pc = IF rlCount[Top.cur] = 0 THEN "unset" ELSE "remove"])
         ELSE /\ SetTop([Top EXCEPT !.pc = "unset"])
              /\ UNCHANGED <<valid, dead>>
    /\ UNCHANGED <<lists, common, firing, holder, op, depth, called>>

OneShotRemoved ==
    /\ depth > 0 /\ Top.pc = "remove"
    /\ RemoveEverywhere(Top.cur)
    /\ SetTop([Top EXCEPT !.pc = "unset"])
    /\ UNCHANGED <<commonModes, valid, firing, holder, op, depth, past>>

\* __CFRunLoopObserverUnsetFiring loads the byte and stores it.
LoadBits ==
    /\ depth > 0 /\ Top.pc = "unset"
    /\ SetTop([Top EXCEPT !.pc = "store", !.saw = valid[Top.cur]])
    /\ UNCHANGED <<lists, common, valid, firing, holder, op, depth, past>>

StoreBits ==
    /\ depth > 0 /\ Top.pc = "store"
    /\ firing' = [firing EXCEPT ![Top.cur] = FALSE]
    /\ valid' = [valid EXCEPT ![Top.cur] = Top.saw]
    /\ SetTop([Top EXCEPT !.pc = "next", !.cur = None])
    /\ UNCHANGED <<lists, common, holder, op, depth, past>>

\* The lock is taken again.
DoneObservers ==
    /\ depth > 0 /\ Top.pc = "next" /\ Top.todo = {}
    /\ holder = None
    /\ depth' = depth - 1
    /\ UNCHANGED <<lists, common, valid, firing, holder, op, frame, past>>

-----------------------------------------------------------------------------

ThreadStep(t) ==
    \/ Each(t) \/ Insert(t)
    \/ \E m \in Mode : AddCommonMode(t, m)
    \/ \E o \in Observer :
         \/ AddToCommonModes(t, o) \/ AddToCommonModesLocked(t, o)
         \/ RemoveFromCommonModes(t, o)
         \/ ObserverInvalidate(t, o) \/ InvalidateRemoves(t, o)
         \/ \E m \in Direct : AddObserver(t, o, m) \/ RemoveObserver(t, o, m)

LoopStep ==
    \/ \E m \in Mode, a \in Activity : DoObservers(m, a)
    \/ \E o \in Observer : CallObserver(o)
    \/ ObserverReturns \/ OneShotRemoved \/ LoadBits \/ StoreBits \/ DoneObservers

Next == LoopStep \/ \E t \in Thread : ThreadStep(t)

Spec == Init /\ [][Next]_vars

-----------------------------------------------------------------------------
(* Properties.                                                             *)

Running == {d \in Level : d <= depth /\ frame[d].cur # None}

(***************************************************************************)
(* No observer is re-entered: however deep __CFRunLoopDoObservers nests    *)
(* through callouts that run the loop, and although it works on lists      *)
(* collected earlier, no two of its calls are in the same observer.        *)
(***************************************************************************)
NotReentered ==
    \A d, e \in Running : frame[d].cur = frame[e].cur => d = e

(***************************************************************************)
(* An observer that does not repeat is called once, although the lists of  *)
(* outer calls may still hold it when a nested one has called it, and      *)
(* although its valid bit is rewritten without a lock.                     *)
(***************************************************************************)
OneShotOnce ==
    [][\A o \in OneShot : o \in called /\ ~firing[o] => ~firing'[o]]_vars

(***************************************************************************)
(* _rlCount is the number of modes that hold the observer, so that         *)
(* CFRunLoopObserverInvalidate knows whether there is a run loop to remove *)
(* it from, whoever adds and removes it at the same time.                  *)
(***************************************************************************)
CountIsExact ==
    \A o \in Observer : rlCount[o] = Cardinality({m \in Mode : o \in observers[m]})

(***************************************************************************)
(* Every common item is in every common mode when the lock is free, be the *)
(* item or the mode the later one ("add new item to all common-modes",     *)
(* "add all common-modes items to new mode"), if it was not invalidated    *)
(* and nobody removes it from a single mode.                               *)
(***************************************************************************)
CommonItemsInCommonModes ==
    holder = None =>
      \A o \in commonItems \ dead, m \in commonModes \ Direct : o \in observers[m]
=============================================================================
