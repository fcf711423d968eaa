----------------------------- MODULE CFRunLoop -----------------------------
(***************************************************************************)
(* One run loop of CFRunLoop.c as the Linux build compiles it (kqueue      *)
(* ports, no libdispatch, no blocks): the activations the loop's own       *)
(* thread nests on its stack, the version-0 sources it performs, the stop  *)
(* flags, and the wake-up port that other threads raise.                   *)
(*                                                                         *)
(* The run loop lock (rl->_lock, always taken together with the mode lock) *)
(* is held by the loop thread except in callouts, between two sources of a *)
(* batch and in kevent; `locked' says so.  What other threads do under     *)
(* that lock is one step, enabled while it is free.  What they do under a  *)
(* source's own lock (CFRunLoopSourceSignal) can happen at any time.       *)
(***************************************************************************)
EXTENDS Naturals, FiniteSets

CONSTANTS
    Mode,        \* run loop modes (all created before the behaviour starts)
    Source,      \* version-0 run loop sources
    Thread,      \* other threads; a callout's own calls are attributed to them too
    Order,       \* Order[s]: the source's _order
    Observed,    \* Observed[m]: the activities the observers of mode m watch
    TimerModes,  \* the modes that hold a timer
    NestAt,      \* the callouts that may call CFRunLoopRunInMode
    Home,        \* Home[s]: the modes callers add source s to
    Timeout,     \* the kinds of `seconds' callers pass
    StopAfter,   \* the values of returnAfterSourceHandled callers pass
    MaxDepth     \* bound on nested activations

\* The activities, named by the point of __CFRunLoopRun that reports them.
Activity == {"entry", "beforeTimers", "beforeSources", "beforeWaiting",
             "afterWaiting", "exit"}

Callout == Activity \cup {"source0", "timers"}

PC == Callout \cup {"start", "sources", "perform", "sleep", "wait", "woken",
                    "handle", "decide", "return"}

\* termTSR: "zero" for an instant timeout, "never" for INT64_MAX.
Term == {"zero", "finite", "never"}

\* A mode's port set holds its timer port and the loop's wake-up port.
Port == {"timer", "wake"}
PortOrder == {ps \in [1..2 -> Port] : ps[1] # ps[2]}

ASSUME ModeAssumption   == Mode # {} /\ TimerModes \subseteq Mode
ASSUME OrderAssumption  == Order \in [Source -> Nat]
ASSUME ObservedAssumption == Observed \in [Mode -> SUBSET Activity]
ASSUME NestAssumption   == NestAt \subseteq Callout
ASSUME HomeAssumption   == Home \in [Source -> SUBSET Mode]
ASSUME TimeoutAssumption == Timeout \subseteq Term /\ StopAfter \subseteq BOOLEAN
ASSUME DepthAssumption  == MaxDepth \in Nat \ {0}

VARIABLES
    act,           \* act[1..depth]: the activations on the thread's stack
    depth,         \* how many there are; act[depth] is the running one
    locked,        \* the loop thread holds rl->_lock
    stopped,       \* __CFRunLoopIsStopped(rl)
    modeStopped,   \* modeStopped[m]: rlm->_stopped
    ignoreWakeUps, \* rl->_ignoreWakeUps
    sleeping,      \* __CFRunLoopIsSleeping(rl)
    wakePort,      \* the wake-up port's kqueue event is triggered
    expired,       \* expired[m]: the kqueue event of m's timer port is pending
    ports,         \* ports[m]: the order of the two ports in m's port set
    sources0,      \* sources0[m]: rlm->_sources0
    signaled,      \* signaled[s]: __CFRunLoopSourceIsSignaled
    valid,         \* valid[s]: __CFIsValid
    op             \* op[t]: what thread t still has to do of its current call

vars == <<act, depth, locked, stopped, modeStopped, ignoreWakeUps, sleeping,
          wakePort, expired, ports, sources0, signaled, valid, op>>

flags  == <<stopped, modeStopped>>
kqueue == <<wakePort, expired, ports>>
items  == <<sources0, signaled, valid>>

Level == 1..MaxDepth
Place == 0..2

\* The locals of one CFRunLoopRunSpecific and its __CFRunLoopRun.  `saved' is
\* the stop request that was there before, and `live' the place in the port
\* set that livePort points to (0 for __kCFPortNull).
Activation == [pc: PC, mode: Mode, stopAfter: BOOLEAN, term: Term,
               saved: BOOLEAN, handled: BOOLEAN, todo: SUBSET Source,
               batch: SUBSET Source, live: Place]

Idle       == <<"idle">>
OwesWakeUp == <<"wakeUp">>

Op == {Idle, OwesWakeUp} \cup ({"add"} \X Source \X Mode)
        \cup ({"remove"} \X Source)

Top == act[depth]

\* A source's perform function, an observer or a timer callback is running.
InCallout == ~locked /\ (depth = 0 \/ Top.pc \in Callout)

Poll == Top.handled \/ Top.term = "zero"

ModeIsEmpty(m) == sources0[m] = {} /\ m \notin TimerModes

-----------------------------------------------------------------------------

(***************************************************************************)
(* The type invariant: every field of the loop, its activations and the    *)
(* calls in progress holds a value the C type and its users allow.         *)
(***************************************************************************)
TypeOK ==
    /\ act \in [Level -> Activation]
    /\ depth \in 0..MaxDepth
    /\ locked \in BOOLEAN
    /\ stopped \in BOOLEAN
    /\ modeStopped \in [Mode -> BOOLEAN]
    /\ ignoreWakeUps \in BOOLEAN
    /\ sleeping \in BOOLEAN
    /\ wakePort \in BOOLEAN
    /\ expired \in [Mode -> BOOLEAN]
    /\ ports \in [Mode -> PortOrder]
    /\ sources0 \in [Mode -> SUBSET Source]
    /\ signaled \in [Source -> BOOLEAN]
    /\ valid \in [Source -> BOOLEAN]
    /\ op \in [Thread -> Op]

NewActivation(m, t, stopAfter) ==
    [pc |-> "entry", mode |-> m, stopAfter |-> stopAfter, term |-> t,
     saved |-> stopped, handled |-> FALSE, todo |-> {}, batch |-> {},
     live |-> 0]

\* A stack slot no activation uses.
Unused ==
    [pc |-> "return", mode |-> CHOOSE m \in Mode : TRUE, stopAfter |-> FALSE,
     term |-> "zero", saved |-> FALSE, handled |-> FALSE, todo |-> {},
     batch |-> {}, live |-> 0]

\* __CFRunLoopCreate and __CFRunLoopFindMode: the timer port is inserted into
\* a new mode's port set before the wake-up port.
Init ==
    /\ act = [d \in Level |-> Unused]
    /\ depth = 0
    /\ locked = FALSE
    /\ stopped = FALSE
    /\ modeStopped = [m \in Mode |-> FALSE]
    /\ ignoreWakeUps = TRUE
    /\ sleeping = FALSE
    /\ wakePort = FALSE
    /\ expired = [m \in Mode |-> FALSE]
    /\ ports = [m \in Mode |-> [i \in 1..2 |-> IF i = 1 THEN "timer" ELSE "wake"]]
    /\ sources0 = [m \in Mode |-> {}]
    /\ signaled = [s \in Source |-> FALSE]
    /\ valid = [s \in Source |-> TRUE]
    /\ op = [t \in Thread |-> Idle]

-----------------------------------------------------------------------------
(* The loop's own thread.                                                  *)

SetTop(a) == act' = [act EXCEPT ![depth] = a]
Goto(pc)  == SetTop([Top EXCEPT !.pc = pc])
At(pc)    == depth > 0 /\ Top.pc = pc

\* CFRunLoopRunSpecific up to the Entry observers, called by the idle thread or
\* by a callout.  (On an empty mode it returns at once and changes nothing.)
RunSpecific(m, t, stopAfter) ==
    /\ ~locked
    /\ depth < MaxDepth
    /\ depth > 0 => Top.pc \in NestAt
    /\ ~ModeIsEmpty(m)
    /\ act' = [act EXCEPT ![depth + 1] = NewActivation(m, t, stopAfter)]
    /\ depth' = depth + 1
    /\ locked' = TRUE
    /\ stopped' = FALSE
    /\ UNCHANGED <<modeStopped, ignoreWakeUps, sleeping, kqueue, items, op>>

\* Where __CFRunLoopRun continues after the observers of an activity.
AfterObservers ==
    [a \in Activity |-> CASE a = "entry"         -> "start"
                          [] a = "beforeTimers"  -> "beforeSources"
                          [] a = "beforeSources" -> "sources"
                          [] a = "beforeWaiting" -> "sleep"
                          [] a = "afterWaiting"  -> "handle"
                          [] a = "exit"          -> "return"]

\* Continue after the observers; a batch is collected from the sources the
\* mode holds then.
PassObservers ==
    SetTop([Top EXCEPT !.pc = AfterObservers[@],
                       !.todo = IF Top.pc = "beforeSources"
                                  THEN sources0[Top.mode] ELSE {}])

\* __CFRunLoopDoObservers: unlock and call out when somebody observes the
\* activity; the two around the wait are skipped when the loop only polls.
DoObservers ==
    /\ locked
    /\ depth > 0
    /\ Top.pc \in Activity
    /\ IF /\ Top.pc \in Observed[Top.mode]
          /\ Top.pc \in {"beforeWaiting", "afterWaiting"} => ~Poll
         THEN locked' = FALSE /\ UNCHANGED act
         ELSE PassObservers /\ UNCHANGED locked
    /\ UNCHANGED <<depth, flags, ignoreWakeUps, sleeping, kqueue, items, op>>

ObserversReturn ==
    /\ ~locked
    /\ depth > 0
    /\ Top.pc \in Activity
    /\ PassObservers
    /\ locked' = TRUE
    /\ UNCHANGED <<depth, flags, ignoreWakeUps, sleeping, kqueue, items, op>>

\* Mutant of BeginIteration: wake-ups stay ignored.
BeginIterationDeaf ==
    /\ SetTop([Top EXCEPT !.pc = "beforeTimers", !.handled = FALSE])
    /\ UNCHANGED ignoreWakeUps

\* The top of the do-while loop.
BeginIteration ==
    /\ SetTop([Top EXCEPT !.pc = "beforeTimers", !.handled = FALSE])
    /\ ignoreWakeUps' = FALSE

\* The two stop tests, of the loop and then of the mode; a request is consumed
\* by the test that finds it.
ConsumeStop ==
    \/ /\ stopped
       /\ stopped' = FALSE
       /\ UNCHANGED modeStopped
    \/ /\ ~stopped
       /\ modeStopped[Top.mode]
       /\ modeStopped' = [modeStopped EXCEPT ![Top.mode] = FALSE]
       /\ UNCHANGED stopped

\* Mutants of NoStopRequest: one of the two tests is missing.
ModeTestMissing == ~stopped
LoopTestMissing == ~modeStopped[Top.mode]

NoStopRequest == ~stopped /\ ~modeStopped[Top.mode]

\* __CFRunLoopRun before its first iteration.
Start ==
    /\ At("start")
    /\ \/ ConsumeStop /\ Goto("exit") /\ UNCHANGED ignoreWakeUps
       \/ NoStopRequest /\ BeginIteration /\ UNCHANGED flags
    /\ UNCHANGED <<depth, locked, sleeping, kqueue, items, op>>

\* __CFRunLoopCollectSources0 on one member of the mode's set.  Its flags are
\* read without the source's lock.
CollectSource0(s) ==
    /\ At("sources")
    /\ s \in Top.todo
    /\ SetTop([Top EXCEPT !.todo = @ \ {s},
                          !.batch = IF valid[s] /\ signaled[s]
                                      THEN @ \cup {s} ELSE @])
    /\ UNCHANGED <<depth, locked, flags, ignoreWakeUps, sleeping, kqueue,
                   items, op>>

\* The rest of __CFRunLoopDoSources0 unlocks only if something was collected.
CollectedSources0 ==
    /\ At("sources")
    /\ Top.todo = {}
    /\ Goto(IF Top.batch = {} THEN "beforeWaiting" ELSE "perform")
    /\ locked' = (Top.batch = {})
    /\ UNCHANGED <<depth, flags, ignoreWakeUps, sleeping, kqueue, items, op>>

\* The next source of the sorted batch: performed if it is still signalled and
\* valid, unsignalled in either case.
PerformSource0(s) ==
    /\ At("perform")
    /\ s \in Top.batch
    /\ \A r \in Top.batch : Order[s] <= Order[r]
    /\ SetTop([Top EXCEPT !.batch = @ \ {s},
                          !.pc = IF signaled[s] /\ valid[s]
                                   THEN "source0" ELSE "perform"])
    /\ signaled' = [signaled EXCEPT ![s] = FALSE]
    /\ UNCHANGED <<depth, locked, flags, ignoreWakeUps, sleeping, kqueue,
                   sources0, valid, op>>

Source0Returns ==
    /\ At("source0")
    /\ SetTop([Top EXCEPT !.pc = "perform", !.handled = TRUE,
                          !.batch = IF Top.stopAfter THEN {} ELSE @])
    /\ UNCHANGED <<depth, locked, flags, ignoreWakeUps, sleeping, kqueue,
                   items, op>>

DoneSources0 ==
    /\ At("perform")
    /\ Top.batch = {}
    /\ Goto("beforeWaiting")
    /\ locked' = TRUE
    /\ UNCHANGED <<depth, flags, ignoreWakeUps, sleeping, kqueue, items, op>>

\* Mutant of Rotate: the first port is overwritten before it is saved.
RotateOverwrites(ps) == [i \in 1..2 |-> ps[2]]

\* __CFPortSetMaybeRotatePortsLocked on the two ports of a mode.
Rotate(ps) == [i \in 1..2 |-> ps[3 - i]]

\* Set the sleeping bit, unlock, and let __CFRunLoopWait fetch the port set.
Sleep ==
    /\ At("sleep")
    /\ sleeping' = TRUE
    /\ locked' = FALSE
    /\ ports' = [ports EXCEPT ![Top.mode] = Rotate(@)]
    /\ Goto("wait")
    /\ UNCHANGED <<depth, flags, ignoreWakeUps, wakePort, expired, items, op>>

\* kevent returns every pending event of the loop's one kqueue, which all modes
\* share, and thereby clears them (EV_CLEAR).  __CFRunLoopWait looks at the
\* first only: livePort points at its place in the port set of this mode.
PlaceOf(p) == CHOOSE i \in 1..2 : ports[Top.mode][i] = p

Returns(e) ==
    /\ At("wait")
    /\ SetTop([Top EXCEPT !.pc = "woken",
                          !.live = IF e = "none" THEN 0 ELSE PlaceOf(e)])
    /\ UNCHANGED <<depth, locked, flags, ignoreWakeUps, sleeping, ports,
                   items, op>>

ClearEvents == wakePort' = FALSE /\ expired' = [m \in Mode |-> FALSE]

WaitWake == wakePort /\ Returns("wake") /\ ClearEvents

\* Another mode's timer port is not found in this mode's port set.
WaitTimer(m) ==
    /\ expired[m]
    /\ Returns(IF m = Top.mode THEN "timer" ELSE "none")
    /\ ClearEvents

WaitPolled ==
    /\ depth > 0 /\ Poll
    /\ ~wakePort /\ \A m \in Mode : ~expired[m]
    /\ Returns("none")
    /\ UNCHANGED <<wakePort, expired>>

\* kevent fails, for example interrupted by a signal.
WaitFails == Returns("none") /\ UNCHANGED <<wakePort, expired>>

\* Mutant of Woken: the sleeping bit stays set.
WokenAsleep ==
    /\ At("woken")
    /\ locked' = TRUE
    /\ ignoreWakeUps' = TRUE
    /\ Goto("afterWaiting")
    /\ UNCHANGED <<depth, flags, sleeping, kqueue, items, op>>

Woken ==
    /\ At("woken")
    /\ locked' = TRUE
    /\ ignoreWakeUps' = TRUE
    /\ sleeping' = FALSE
    /\ Goto("afterWaiting")
    /\ UNCHANGED <<depth, flags, kqueue, items, op>>

\* What livePort designates when it is finally looked at.
LivePort == IF Top.live = 0 THEN "none" ELSE ports[Top.mode][Top.live]

\* livePort is not looked at again after this step.
Leave(pc) == SetTop([Top EXCEPT !.pc = pc, !.live = 0])

\* handle_msg.  Resetting the wake-up port re-adds its event, which may or may
\* not lower a trigger that came since; __CFRunLoopDoTimers calls out only
\* when it finds a timer that is due.
Handle ==
    /\ At("handle")
    /\ ignoreWakeUps' = TRUE
    /\ \/ /\ LivePort = "none"
          /\ Leave("decide")
          /\ UNCHANGED <<locked, wakePort>>
       \/ /\ LivePort = "wake"
          /\ wakePort' \in {wakePort, FALSE}
          /\ Leave("decide")
          /\ UNCHANGED locked
       \/ /\ LivePort = "timer"
          /\ \/ Leave("timers") /\ locked' = FALSE
             \/ Leave("decide") /\ UNCHANGED locked
          /\ UNCHANGED wakePort
    /\ UNCHANGED <<depth, flags, sleeping, expired, ports, items, op>>

TimersReturn ==
    /\ At("timers")
    /\ Goto("decide")
    /\ locked' = TRUE
    /\ UNCHANGED <<depth, flags, ignoreWakeUps, sleeping, kqueue, items, op>>

\* What comparing termTSR with the clock may give.
TimedOut ==
    [t \in Term |-> CASE t = "zero"   -> {TRUE}
                      [] t = "finite" -> BOOLEAN
                      [] t = "never"  -> {FALSE}]

\* The first two tests at the end of the do-while loop: a source was handled
\* and the caller wants to know, or the time is up.
Done(timedOut) == (Top.handled /\ Top.stopAfter) \/ timedOut

\* The tests that follow, in their order.
StopOrGoOn ==
    \/ ConsumeStop /\ Goto("exit") /\ UNCHANGED ignoreWakeUps
    \/ /\ NoStopRequest /\ ModeIsEmpty(Top.mode)
       /\ Goto("exit") /\ UNCHANGED <<flags, ignoreWakeUps>>
    \/ /\ NoStopRequest /\ ~ModeIsEmpty(Top.mode)
       /\ BeginIteration /\ UNCHANGED flags

\* The end of an iteration.
Decide ==
    /\ At("decide")
    /\ \E timedOut \in TimedOut[Top.term] :
         \/ Done(timedOut) /\ Goto("exit") /\ UNCHANGED <<flags, ignoreWakeUps>>
         \/ ~Done(timedOut) /\ StopOrGoOn
    /\ UNCHANGED <<depth, locked, sleeping, kqueue, items, op>>

\* Mutant of Return: the caller's request is added to what is left, which lets
\* a request made to this activation stop the caller as well.
ReturnLeaking ==
    /\ At("return")
    /\ stopped' = (stopped \/ Top.saved)
    /\ depth' = depth - 1
    /\ SetTop(Unused)
    /\ locked' = FALSE
    /\ UNCHANGED <<modeStopped, ignoreWakeUps, sleeping, kqueue, items, op>>

\* The end of CFRunLoopRunSpecific: the stop request the caller's activation
\* had before is put back, one that this activation did not consume is freed.
Return ==
    /\ At("return")
    /\ stopped' = Top.saved
    /\ depth' = depth - 1
    /\ SetTop(Unused)
    /\ locked' = FALSE
    /\ UNCHANGED <<modeStopped, ignoreWakeUps, sleeping, kqueue, items, op>>

-----------------------------------------------------------------------------
(* The other threads and the timers' kqueue events.                        *)

\* CFRunLoopSourceSignal takes the source's lock only.  Callers wake the loop
\* up afterwards, as CFSocket and CFFileDescriptor do.
SourceSignal(t, s) ==
    /\ op[t] = Idle
    /\ valid[s]
    /\ signaled' = [signaled EXCEPT ![s] = TRUE]
    /\ op' = [op EXCEPT ![t] = OwesWakeUp]
    /\ UNCHANGED <<act, depth, locked, flags, ignoreWakeUps, sleeping, kqueue,
                   sources0, valid>>

\* Mutant of WakeUp: only a loop that already sleeps is woken.
WakeUpIfSleeping(t) ==
    /\ op[t] \in {Idle, OwesWakeUp}
    /\ ~locked
    /\ wakePort' = (wakePort \/ (~ignoreWakeUps /\ sleeping))
    /\ op' = [op EXCEPT ![t] = Idle]
    /\ UNCHANGED <<act, depth, locked, flags, ignoreWakeUps, sleeping, expired,
                   ports, items>>

\* CFRunLoopWakeUp, the end of another call or on its own.
WakeUp(t) ==
    /\ op[t] \in {Idle, OwesWakeUp}
    /\ ~locked
    /\ wakePort' = (wakePort \/ ~ignoreWakeUps)
    /\ op' = [op EXCEPT ![t] = Idle]
    /\ UNCHANGED <<act, depth, locked, flags, ignoreWakeUps, sleeping, expired,
                   ports, items>>

\* CFRunLoopStop does nothing when no activation runs.
Stop(t) ==
    /\ op[t] = Idle
    /\ ~locked
    /\ depth > 0
    /\ stopped' = TRUE
    /\ op' = [op EXCEPT ![t] = OwesWakeUp]
    /\ UNCHANGED <<act, depth, locked, modeStopped, ignoreWakeUps, sleeping,
                   kqueue, items>>

StopMode(t, m) ==
    /\ op[t] = Idle
    /\ ~locked
    /\ modeStopped' = [modeStopped EXCEPT ![m] = TRUE]
    /\ op' = [op EXCEPT ![t] = OwesWakeUp]
    /\ UNCHANGED <<act, depth, locked, stopped, ignoreWakeUps, sleeping,
                   kqueue, items>>

\* CFRunLoopAddSource tests the source's validity before it takes the lock.
AddSource(t, s, m) ==
    /\ op[t] = Idle
    /\ valid[s]
    /\ op' = [op EXCEPT ![t] = <<"add", s, m>>]
    /\ UNCHANGED <<act, depth, locked, flags, ignoreWakeUps, sleeping, kqueue,
                   items>>

\* CFRunLoopAddSource wakes nobody: who adds a source that has a signal from
\* before wakes the loop, like whoever signals.
AddSourceLocked(t, s, m) ==
    /\ op[t] = <<"add", s, m>>
    /\ ~locked
    /\ sources0' = [sources0 EXCEPT ![m] = @ \cup {s}]
    /\ op' = [op EXCEPT ![t] = IF signaled[s] THEN OwesWakeUp ELSE Idle]
    /\ UNCHANGED <<act, depth, locked, flags, ignoreWakeUps, sleeping, kqueue,
                   signaled, valid>>

RemoveSource(t, s, m) ==
    /\ op[t] = Idle
    /\ ~locked
    /\ s \in sources0[m]
    /\ sources0' = [sources0 EXCEPT ![m] = @ \ {s}]
    /\ UNCHANGED <<act, depth, locked, flags, ignoreWakeUps, sleeping, kqueue,
                   signaled, valid, op>>

\* CFRunLoopSourceInvalidate under the source's lock ...
SourceInvalidate(t, s) ==
    /\ op[t] = Idle
    /\ valid[s]
    /\ valid' = [valid EXCEPT ![s] = FALSE]
    /\ signaled' = [signaled EXCEPT ![s] = FALSE]
    /\ op' = [op EXCEPT ![t] = IF \E m \in Mode : s \in sources0[m]
                                 THEN <<"remove", s>> ELSE Idle]
    /\ UNCHANGED <<act, depth, locked, flags, ignoreWakeUps, sleeping, kqueue,
                   sources0>>

\* ... and its __CFRunLoopSourceRemoveFromRunLoop, from every mode of the loop
\* the source was in.
RemoveFromRunLoop(t, s) ==
    /\ op[t] = <<"remove", s>>
    /\ ~locked
    /\ sources0' = [m \in Mode |-> sources0[m] \ {s}]
    /\ op' = [op EXCEPT ![t] = Idle]
    /\ UNCHANGED <<act, depth, locked, flags, ignoreWakeUps, sleeping, kqueue,
                   signaled, valid>>

TimerExpires(m) ==
    /\ m \in TimerModes
    /\ expired' = [expired EXCEPT ![m] = TRUE]
    /\ UNCHANGED <<act, depth, locked, flags, ignoreWakeUps, sleeping, wakePort,
                   ports, items, op>>

-----------------------------------------------------------------------------

\* The loop thread inside an activation, every callout returning.
LoopStep ==
    \/ DoObservers \/ ObserversReturn \/ Start
    \/ \E s \in Source : CollectSource0(s) \/ PerformSource0(s)
    \/ CollectedSources0 \/ Source0Returns \/ DoneSources0
    \/ Sleep \/ WaitWake \/ (\E m \in Mode : WaitTimer(m)) \/ WaitPolled
    \/ Woken \/ Handle \/ TimersReturn \/ Decide \/ Return

\* The rest of a call that thread t has begun.
Finish(t) ==
    \/ op[t] = OwesWakeUp /\ WakeUp(t)
    \/ \E s \in Source : RemoveFromRunLoop(t, s)
    \/ \E s \in Source : \E m \in Home[s] : AddSourceLocked(t, s, m)

ThreadStep(t) ==
    \/ WakeUp(t) \/ Stop(t)
    \/ \E m \in Mode : StopMode(t, m)
    \/ \E s \in Source :
         \/ SourceSignal(t, s) \/ SourceInvalidate(t, s) \/ RemoveFromRunLoop(t, s)
         \/ \E m \in Home[s] : \/ AddSource(t, s, m) \/ AddSourceLocked(t, s, m)
                                \/ RemoveSource(t, s, m)

Next ==
    \/ LoopStep \/ WaitFails
    \/ \E m \in Mode, t \in Timeout, sa \in StopAfter : RunSpecific(m, t, sa)
    \/ \E t \in Thread : ThreadStep(t)
    \/ \E m \in Mode : TimerExpires(m)

Spec == Init /\ [][Next]_vars

\* The loop thread is scheduled and its callouts return; a thread finishes the
\* call it is in.  Nobody has to start a run, to signal, to stop or to expire.
Fairness == WF_vars(LoopStep) /\ \A t \in Thread : WF_vars(Finish(t))

FairSpec == Spec /\ Fairness

-----------------------------------------------------------------------------
(* Properties.                                                             *)

\* The loop thread is asleep in kevent and nothing in the kernel ends that.
Blocked ==
    /\ At("wait")
    /\ ~Poll
    /\ ~wakePort
    /\ \A m \in Mode : ~expired[m]

\* Some thread is about to call CFRunLoopWakeUp.
WakeUpComing == \E t \in Thread : op[t] = OwesWakeUp

(***************************************************************************)
(* No signal is slept through: when the thread blocks in kevent            *)
(* (CFRunLoop.c __CFRunLoopRun's wait), every valid source of its mode     *)
(* that is signalled has a CFRunLoopWakeUp still to come.  The signal may  *)
(* arrive at any point of an iteration: after its source was inspected,    *)
(* while _ignoreWakeUps was set, or between kevent's return and the lock.  *)
(***************************************************************************)
NoSignalSleptThrough ==
    Blocked => \A s \in sources0[Top.mode] :
                 valid[s] /\ signaled[s] => WakeUpComing

(***************************************************************************)
(* No stop request is slept through: CFRunLoopStop and _CFRunLoopStopMode  *)
(* set their flag and wake the loop in two separate critical sections, and *)
(* the loop tests the flags only at the end of an iteration; still it      *)
(* never blocks with a request pending unless the wake-up is to come.      *)
(***************************************************************************)
NoStopSleptThrough ==
    Blocked => (stopped \/ modeStopped[Top.mode] => WakeUpComing)

(***************************************************************************)
(* CFRunLoopIsWaiting tells the truth: the sleeping bit, one for all       *)
(* nested activations, is set exactly while the running activation is in   *)
(* its wait, so no callout ever runs with the bit set.                     *)
(***************************************************************************)
SleepingIffWaiting ==
    sleeping <=> (depth > 0 /\ Top.pc \in {"wait", "woken"})

\* A stop request waits for the activation at level d: it is set, or was put
\* by when d nested another.
StopPending(d) == IF depth = d THEN stopped ELSE depth > d /\ act[d + 1].saved

(***************************************************************************)
(* A stop request stays with the activation it was made to, through all    *)
(* that CFRunLoopRunSpecific hides and puts back around nested runs        *)
(* (CFRunLoop.c:3846): an outer activation loses none before it leaves for *)
(* its Exit observers, and gets none that was made to a nested one.        *)
(***************************************************************************)
StopsStay ==
    \A d \in Level :
        /\ StopPending(d) => \/ StopPending(d)'
                             \/ depth' < d
                             \/ depth = d /\ act'[d].pc = "exit"
        /\ StopPending(d)' => StopPending(d) \/ (depth = d /\ depth' = d)
StopsStayWithTheirRun == [][StopsStay]_vars

(***************************************************************************)
(* A signalled source is served: if its mode runs, the source is performed *)
(* (or invalidated or removed), or the activation ends or nests another.   *)
(***************************************************************************)
SignalIsServed ==
    \A s \in Source, d \in Level :
        depth = d /\ signaled[s] /\ s \in sources0[act[d].mode]
          ~> depth # d \/ ~signaled[s] \/ s \notin sources0[act[d].mode]

(***************************************************************************)
(* A stopped activation returns: after CFRunLoopStop the activation it hit *)
(* ends, unless one of its callouts first nests another.                   *)
(***************************************************************************)
StopReturns ==
    \A d \in Level : depth = d /\ stopped ~> depth # d

\* The points where a nested run would leave _ignoreWakeUps set for the rest of
\* the iteration and its wait: the observers called before the wait.
PreWait == {"beforeTimers", "beforeSources", "beforeWaiting"}
=============================================================================
