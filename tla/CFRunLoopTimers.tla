-------------------------- MODULE CFRunLoopTimers --------------------------
(***************************************************************************)
(* The timers of one run loop on Linux: each mode's array of timers, kept  *)
(* in firing order, the one kqueue timer per mode that is armed for the    *)
(* first of them, and the loop thread that waits for it and fires what is  *)
(* due.  Other threads, and callouts, add, remove, set and invalidate      *)
(* timers at any time the run loop lock is free.                           *)
(*                                                                         *)
(* Time is in ticks of mach_absolute_time (TSR).  A call that the code     *)
(* makes in two critical sections is two actions here.  Activations are    *)
(* not nested (CFRunLoop.tla has those): at most one timer is firing.      *)
(***************************************************************************)
EXTENDS Integers, SequencesExt, TimerArray

CONSTANTS
    Timer, Mode, Thread,
    Interval,   \* Interval[t]: the repeat interval in ticks, 0 for a one-shot timer
    FirstDate,  \* the fire dates timers are created with
    Date,       \* the dates callers pass to CFRunLoopTimerSetNextFireDate
    Tenus,      \* the grain, in ticks, that alarms are rounded up to
    TSRMax,     \* LLONG_MAX
    MaxTime     \* bound on the clock

ASSUME GrainAssumption == Tenus \in Nat \ {0} /\ MaxTime \in Nat /\ TSRMax \in Nat

\* TIMER_DATE_LIMIT and TIMER_INTERVAL_LIMIT leave room below LLONG_MAX for a date
\* and an interval ("for conservative arithmetic safety").
ASSUME DateAssumption == FirstDate \subseteq 0..TSRMax /\ Date \subseteq 0..TSRMax
ASSUME IntervalAssumption ==
    Interval \in [Timer -> Nat] /\ \A t \in Timer : MaxTime + Interval[t] <= TSRMax

VARIABLES
    now,      \* mach_absolute_time()
    fireTSR,  \* fireTSR[t]: rlt->_fireTSR
    valid,    \* valid[t]: __CFIsValid
    rlModes,  \* rlModes[t]: rlt->_rlModes; rlt->_runLoop is NULL iff it is empty
    timers,   \* timers[m]: rlm->_timers
    alarm,    \* alarm[m]: when the kqueue timer of m's timer port rings, or Off
    data,     \* data[m]: the delay in the port set's copy of that event, or Off
    pc, mode, \* the loop thread and the mode it runs in
    batch,    \* __CFRunLoopDoTimers' collected timers, by their places in the array
    cur,      \* the timer in __CFRunLoopDoTimer
    oldTSR,   \* its oldFireTSR
    leaving,  \* the modes CFRunLoopTimerInvalidate is to remove cur from
    op        \* op[th]: the rest of the call that thread th is in

vars == <<now, fireTSR, valid, rlModes, timers, alarm, data, pc, mode, batch,
          cur, oldTSR, leaving, op>>

kqueue == <<alarm, data>>
arrays == <<rlModes, timers>>
loop   == <<pc, mode, batch, cur, oldTSR, leaving>>

Off  == -1
Idle == <<"idle">>

\* The run loop lock is held while timers are collected and between callouts.
Locked == pc = "timers"

\* The timers with the firing bit set.
Firing == IF pc \in {"callout", "invalidate", "finish"} THEN {cur} ELSE {}

-----------------------------------------------------------------------------
(* The timer port.                                                         *)

\* __CFTimerRoundFireTSRToTenus
RoundFireTSR(tsr) == (tsr \div Tenus + 1) * Tenus

\* __CFArmTimerInMode on a port k: replaced by a timer that is relative to now,
\* or left alone when the date is past already.
Arm(k, tsr) ==
    LET fire == RoundFireTSR(tsr)
    IN IF fire >= now THEN [alarm |-> fire, data |-> fire - now] ELSE k

\* __CFDisarmTimerInMode
Disarmed == [alarm |-> Off, data |-> Off]

\* __CFArmNextTimerInMode: for the first timer that is not firing.
ArmNext(k, ts, tsr, firing) ==
    LET free == {i \in DOMAIN ts : ts[i] \notin firing}
    IN IF free = {} THEN k ELSE Arm(k, tsr[ts[Min(free)]])

PortOf(m) == [alarm |-> alarm[m], data |-> data[m]]

SetPorts(port) ==
    /\ alarm' = [m \in Mode |-> port[m].alarm]
    /\ data' = [m \in Mode |-> port[m].data]

-----------------------------------------------------------------------------
(* The array.                                                              *)

\* CFArrayGetFirstIndexOfValue and CFArrayRemoveValueAtIndex
Without(ts, t) == RemoveAt(ts, Min({i \in DOMAIN ts : ts[i] = t}))

Insert(ts, t, tsr) ==
    InsertAt(ts, InsertionIndex([i \in DOMAIN ts |-> tsr[ts[i]]], tsr[t]) + 1, t)

\* Mutant of Reposition: only the date changes.
RepositionNot(t, tsr, where, firing) ==
    /\ fireTSR' = [fireTSR EXCEPT ![t] = tsr]
    /\ UNCHANGED <<timers, kqueue>>

\* Set t's date and __CFRepositionTimerInMode it in the modes `where' that
\* still hold it.
Reposition(t, tsr, where, firing) ==
    LET dates == [fireTSR EXCEPT ![t] = tsr]
        hit   == {m \in where : Contains(timers[m], t)}
        moved == [m \in Mode |-> IF m \in hit THEN Insert(Without(timers[m], t), t, dates)
                                 ELSE timers[m]]
    IN /\ fireTSR' = dates
       /\ timers' = moved
       /\ SetPorts([m \in Mode |-> IF m \in hit
                                     THEN ArmNext(PortOf(m), moved[m], dates, firing)
                                     ELSE PortOf(m)])

\* Mutant of RemoveFrom: the next timer is not armed.
RemoveFromOnly(t, where) ==
    LET hit  == {m \in where : Contains(timers[m], t)}
        left == [m \in Mode |-> IF m \in hit THEN Without(timers[m], t) ELSE timers[m]]
    IN /\ timers' = left
       /\ rlModes' = [rlModes EXCEPT ![t] = @ \ hit]
       /\ SetPorts([m \in Mode |-> IF m \in hit /\ left[m] = <<>> THEN Disarmed
                                   ELSE PortOf(m)])

\* CFRunLoopRemoveTimer for each of the modes `where'.
RemoveFrom(t, where) ==
    LET hit  == {m \in where : Contains(timers[m], t)}
        left == [m \in Mode |-> IF m \in hit THEN Without(timers[m], t) ELSE timers[m]]
    IN /\ timers' = left
       /\ rlModes' = [rlModes EXCEPT ![t] = @ \ hit]
       /\ SetPorts([m \in Mode |->
              IF m \notin hit THEN PortOf(m)
              ELSE IF left[m] = <<>> THEN Disarmed
              ELSE IF Head(timers[m]) = t
                     THEN ArmNext(PortOf(m), left[m], fireTSR, Firing)
              ELSE PortOf(m)])

-----------------------------------------------------------------------------
(* Calls of other threads and of callouts.                                 *)

\* CFRunLoopAddTimer tests validity before it takes the lock ...
AddTimer(th, t, m) ==
    /\ op[th] = Idle
    /\ valid[t]
    /\ op' = [op EXCEPT ![th] = <<"add", t, m>>]
    /\ UNCHANGED <<now, fireTSR, valid, arrays, kqueue, loop>>

\* Mutant of AddTimerLocked: a timer that is there already is added again.
AddTimerTwice(th, t, m) ==
    /\ op[th] = <<"add", t, m>>
    /\ ~Locked
    /\ rlModes' = [rlModes EXCEPT ![t] = @ \cup {m}]
    /\ timers' = [timers EXCEPT ![m] = Insert(@, t, fireTSR)]
    /\ SetPorts([n \in Mode |->
           IF n = m THEN ArmNext(PortOf(m), timers'[m], fireTSR, Firing) ELSE PortOf(n)])
    /\ op' = [op EXCEPT ![th] = Idle]
    /\ UNCHANGED <<now, fireTSR, valid, loop>>

\* ... and then adds the timer unless the mode has it.
AddTimerLocked(th, t, m) ==
    /\ op[th] = <<"add", t, m>>
    /\ ~Locked
    /\ IF m \in rlModes[t]
         THEN UNCHANGED <<arrays, kqueue>>
         ELSE /\ rlModes' = [rlModes EXCEPT ![t] = @ \cup {m}]
              /\ timers' = [timers EXCEPT ![m] = Insert(@, t, fireTSR)]
              /\ SetPorts([n \in Mode |->
                     IF n = m THEN ArmNext(PortOf(m), timers'[m], fireTSR, Firing)
                     ELSE PortOf(n)])
    /\ op' = [op EXCEPT ![th] = Idle]
    /\ UNCHANGED <<now, fireTSR, valid, loop>>

RemoveTimer(th, t, m) ==
    /\ op[th] = Idle
    /\ ~Locked
    /\ Contains(timers[m], t)
    /\ RemoveFrom(t, {m})
    /\ UNCHANGED <<now, fireTSR, valid, loop, op>>

\* CFRunLoopTimerSetNextFireDate: a past date becomes now, and the timer's
\* modes are noted before its lock is given up for the run loop's.
SetNextFireDate(th, t, date) ==
    LET tsr == IF date < now THEN now ELSE date
    IN /\ op[th] = Idle
       /\ valid[t]
       /\ IF rlModes[t] = {}
            THEN fireTSR' = [fireTSR EXCEPT ![t] = tsr] /\ UNCHANGED op
            ELSE op' = [op EXCEPT ![th] = <<"set", t, tsr, rlModes[t]>>] /\ UNCHANGED fireTSR
       /\ UNCHANGED <<now, valid, arrays, kqueue, loop>>

SetNextFireDateLocked(th) ==
    /\ op[th][1] = "set"
    /\ ~Locked
    /\ Reposition(op[th][2], op[th][3], op[th][4], Firing)
    /\ op' = [op EXCEPT ![th] = Idle]
    /\ UNCHANGED <<now, valid, rlModes, loop>>

\* CFRunLoopTimerInvalidate, likewise in two critical sections.
TimerInvalidate(th, t) ==
    /\ op[th] = Idle
    /\ valid[t]
    /\ valid' = [valid EXCEPT ![t] = FALSE]
    /\ op' = [op EXCEPT ![th] = IF rlModes[t] = {} THEN Idle
                                ELSE <<"remove", t, rlModes[t]>>]
    /\ UNCHANGED <<now, fireTSR, arrays, kqueue, loop>>

TimerInvalidateLocked(th) ==
    /\ op[th][1] = "remove"
    /\ ~Locked
    /\ RemoveFrom(op[th][2], op[th][3])
    /\ op' = [op EXCEPT ![th] = Idle]
    /\ UNCHANGED <<now, fireTSR, valid, loop>>

-----------------------------------------------------------------------------
(* The loop thread.                                                        *)

Rung(m) == alarm[m] \in 0..now

\* An EV_DISPATCH timer that has been delivered is disabled; the change list
\* of the next wait in its mode enables the copy in the port set, relative to
\* that wait.  An enabled timer is not changed by it.
EnterWait(m) ==
    /\ pc = "idle"
    /\ pc' = "wait"
    /\ mode' = m
    /\ alarm' = [alarm EXCEPT ![m] = IF @ = Off /\ data[m] # Off
                                       THEN now + data[m] ELSE @]
    /\ UNCHANGED <<now, fireTSR, valid, arrays, data, batch, cur, oldTSR, leaving, op>>

\* kevent delivers, and disables, every timer of the shared queue that has rung.
Delivered == alarm' = [m \in Mode |-> IF Rung(m) THEN Off ELSE alarm[m]]

\* The mode's own timer port comes first: __CFRunLoopDoTimers collects what is
\* due now.
TimerRings ==
    /\ pc = "wait"
    /\ Rung(mode)
    /\ Delivered
    /\ pc' = "timers"
    /\ LET due == {i \in DOMAIN timers[mode] :
                     valid[timers[mode][i]] /\ fireTSR[timers[mode][i]] <= now}
       IN batch' = [i \in due |-> timers[mode][i]]
    /\ UNCHANGED <<now, fireTSR, valid, arrays, data, mode, cur, oldTSR, leaving, op>>

\* Another event comes first: a wake-up, or another mode's timer port.
OtherEvent ==
    /\ pc = "wait"
    /\ Delivered
    /\ pc' = "idle"
    /\ UNCHANGED <<now, fireTSR, valid, arrays, data, mode, batch, cur, oldTSR, leaving, op>>

\* __CFRunLoopDoTimer up to the callout, or all of it when the timer is no
\* longer to be fired.
DoTimer ==
    /\ Locked
    /\ DOMAIN batch # {}
    /\ batch' = [i \in DOMAIN batch \ {Min(DOMAIN batch)} |-> batch[i]]
    /\ LET t == batch[Min(DOMAIN batch)]
       IN IF valid[t] /\ fireTSR[t] <= now /\ rlModes[t] # {}
            THEN /\ pc' = "callout"
                 /\ cur' = t
                 /\ oldTSR' = fireTSR[t]
                 /\ SetPorts([m \in Mode |->
                        IF m = mode THEN ArmNext(PortOf(m), timers[m], fireTSR, {t})
                        ELSE PortOf(m)])
            ELSE UNCHANGED <<pc, cur, oldTSR, kqueue>>
    /\ UNCHANGED <<now, fireTSR, valid, arrays, mode, leaving, op>>

DoneTimers ==
    /\ Locked
    /\ DOMAIN batch = {}
    /\ pc' = "idle"
    /\ UNCHANGED <<now, fireTSR, valid, arrays, kqueue, mode, batch, cur, oldTSR,
                   leaving, op>>

\* The callback returns; a one-shot timer is invalidated.
CalloutReturns ==
    /\ pc = "callout"
    /\ IF Interval[cur] = 0 /\ valid[cur]
         THEN /\ valid' = [valid EXCEPT ![cur] = FALSE]
              /\ leaving' = rlModes[cur]
              /\ pc' = IF rlModes[cur] = {} THEN "finish" ELSE "invalidate"
         ELSE pc' = "finish" /\ UNCHANGED <<valid, leaving>>
    /\ UNCHANGED <<now, fireTSR, arrays, kqueue, mode, batch, cur, oldTSR, op>>

InvalidateLocked ==
    /\ pc = "invalidate"
    /\ RemoveFrom(cur, leaving)
    /\ leaving' = {}
    /\ pc' = "finish"
    /\ UNCHANGED <<now, fireTSR, valid, mode, batch, cur, oldTSR, op>>

\* The next multiple of the interval after now, counted from the old date.
NextFireTSR(old, interval) ==
    IF TSRMax - interval <= old THEN TSRMax
    ELSE IF old > now THEN old
    ELSE old + ((now - old) \div interval + 1) * interval

\* The rest of __CFRunLoopDoTimer: a later date set during the callout is
\* honoured, otherwise the timer is moved on by its interval.
FinishTimer ==
    /\ pc = "finish"
    /\ pc' = "timers"
    /\ IF ~valid[cur] THEN UNCHANGED <<fireTSR, timers, kqueue>>
       ELSE IF oldTSR < fireTSR[cur]
         THEN /\ SetPorts([m \in Mode |->
                     IF m = mode THEN ArmNext(PortOf(m), timers[m], fireTSR, {})
                     ELSE PortOf(m)])
              /\ UNCHANGED <<fireTSR, timers>>
       ELSE Reposition(cur, NextFireTSR(oldTSR, Interval[cur]), rlModes[cur], {})
    /\ UNCHANGED <<now, valid, rlModes, mode, batch, cur, oldTSR, leaving, op>>

\* The clock runs at all times.
Tick ==
    /\ now < MaxTime
    /\ now' = now + 1
    /\ UNCHANGED <<fireTSR, valid, arrays, kqueue, loop, op>>

-----------------------------------------------------------------------------

\* A new mode's timer event has never been armed.
Init ==
    /\ now = 0
    /\ fireTSR \in [Timer -> FirstDate]
    /\ valid = [t \in Timer |-> TRUE]
    /\ rlModes = [t \in Timer |-> {}]
    /\ timers = [m \in Mode |-> <<>>]
    /\ alarm = [m \in Mode |-> Off]
    /\ data = [m \in Mode |-> Off]
    /\ pc = "idle"
    /\ mode \in Mode
    /\ batch = <<>>
    /\ cur \in Timer
    /\ oldTSR = 0
    /\ leaving = {}
    /\ op = [th \in Thread |-> Idle]

ThreadStep(th) ==
    \/ SetNextFireDateLocked(th) \/ TimerInvalidateLocked(th)
    \/ \E t \in Timer :
         \/ TimerInvalidate(th, t)
         \/ \E m \in Mode : AddTimer(th, t, m) \/ AddTimerLocked(th, t, m)
                             \/ RemoveTimer(th, t, m)
         \/ \E date \in Date : SetNextFireDate(th, t, date)

LoopStep ==
    \/ \E m \in Mode : EnterWait(m)
    \/ TimerRings \/ OtherEvent \/ DoTimer \/ DoneTimers
    \/ CalloutReturns \/ InvalidateLocked \/ FinishTimer

Next == Tick \/ LoopStep \/ \E th \in Thread : ThreadStep(th)

Spec == Init /\ [][Next]_vars

-----------------------------------------------------------------------------
(* Properties.                                                             *)

Op == {Idle} \cup ({"add"} \X Timer \X Mode)
        \cup ({"set"} \X Timer \X (0..TSRMax) \X SUBSET Mode)
        \cup ({"remove"} \X Timer \X SUBSET Mode)

(***************************************************************************)
(* The type invariant.  Its second half says what CFRunLoopAddTimer and    *)
(* CFRunLoopRemoveTimer maintain together: a timer is in a mode's array    *)
(* once if its _rlModes names the mode, and not at all otherwise.          *)
(***************************************************************************)
TypeOK ==
    /\ now \in 0..MaxTime
    /\ fireTSR \in [Timer -> 0..TSRMax]
    /\ valid \in [Timer -> BOOLEAN]
    /\ rlModes \in [Timer -> SUBSET Mode]
    /\ alarm \in [Mode -> Nat \cup {Off}]
    /\ data \in [Mode -> Nat \cup {Off}]
    /\ pc \in {"idle", "wait", "timers", "callout", "invalidate", "finish"}
    /\ mode \in Mode /\ cur \in Timer /\ oldTSR \in Nat /\ leaving \subseteq Mode
    /\ DOMAIN batch \subseteq Nat /\ \A i \in DOMAIN batch : batch[i] \in Timer
    /\ op \in [Thread -> Op]
    /\ timers \in [Mode -> Seq(Timer)]
    /\ \A m \in Mode :
         /\ ToSet(timers[m]) = {t \in Timer : m \in rlModes[t]}
         /\ IsInjective(timers[m])

(***************************************************************************)
(* A mode's array stays in firing order, which the binary search for the   *)
(* insertion point, __CFArmNextTimerInMode and                             *)
(* CFRunLoopGetNextTimerFireDate all rely on, although dates change in     *)
(* callouts, in other threads and after timers were added and removed.     *)
(***************************************************************************)
TimersSorted ==
    \A m \in Mode : Sorted([i \in DOMAIN timers[m] |-> fireTSR[timers[m][i]]])

(***************************************************************************)
(* The search finds the upper bound, with and without its shortcut for     *)
(* long arrays (__CFRunLoopInsertionIndexInTimerArray): a timer that is    *)
(* added or repositioned goes behind exactly the timers that fire no       *)
(* later, so that timers with equal dates keep their order.  In every      *)
(* array up to MaxLen, and in every array of timers that is reached.       *)
(***************************************************************************)
InsertedAtUpperBound ==
    /\ UpperBoundInEach
    /\ \A m \in Mode, t \in Timer :
         UpperBound([i \in DOMAIN timers[m] |-> fireTSR[timers[m][i]]], fireTSR[t])

(***************************************************************************)
(* The alarm is never late: outside a timer's callout, if the first timer  *)
(* of a mode is valid and lies ahead, the mode's kqueue timer is armed and *)
(* rings no later than that timer's rounded date, whatever was added,      *)
(* removed, set or invalidated during callouts: every path calls           *)
(* __CFArmNextTimerInMode where it has to.                                 *)
(***************************************************************************)
ArmedForNext ==
    Firing = {} =>
        \A m \in Mode :
            LET fire == RoundFireTSR(fireTSR[Head(timers[m])])
            IN timers[m] # <<>> /\ valid[Head(timers[m])] /\ fire > now
                 => alarm[m] \in 0..fire
=============================================================================
