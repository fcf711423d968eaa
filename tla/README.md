# Verification of CoreFoundation Lite

This directory holds TLA+ modules that model the parts of CoreFoundation Lite
(opencflite) in which threads, callbacks, clocks and the kernel meet, and the
data structure under most of its collections: the run loop, file descriptors on
run loops, notification centers, reference counts, uniqued objects and the hash
table. TLC checks the models on small instances, and TLAPS proves the most
important properties for every value of the constants.

The code modelled is the **Linux build**: the run loop waits in `kevent` on
`__CFPort`s that are kqueue events and there is no libdispatch, so the branches
for Mach, Windows and `DISPATCH` are out. Neither `configure.ac` nor
`Makefile.am` nor the workflow passes `-fblocks`, so those for `__BLOCKS__` are
out too. Whether pointers have 64 bits is a variable of the model.
`PROJECT.json` maps every definition to the lines it stands for.

## 1. Inventory

| Component | State | Operations | What makes it correct |
|---|---|---|---|
| Run loop activations (`CFRunLoop.c`) | stack of `__CFRunLoopRun` frames; per loop: stopped flag, `_ignoreWakeUps`, sleeping bit, wake-up port; per mode: `_stopped`, port set, shared kqueue | `CFRunLoopRun`, `CFRunLoopRunInMode`, `CFRunLoopStop`, `_CFRunLoopStopMode`, `CFRunLoopWakeUp` | no request is slept through; a stopped activation returns, and only that one |
| Version-0 sources | `_signaled`, valid bit, the modes' `_sources0`, the source's `_runLoops` | add, remove, signal, invalidate, collect and perform | a signalled source is performed; none is performed after it was invalidated |
| Timers | `_timers`, one array per mode, sorted by `_fireTSR`; `_nextFireDate`, firing bit, the kqueue timer of the mode and its relative delay | add, remove, set next fire date, invalidate, arm, fire, reschedule | arrays stay sorted; the alarm is never later than the first date |
| Port sets | array of events of a mode, in rotating order | insert, remove, rotate, update, find | fairness between ports, no lost event |
| Run loop registry | `__CFRunLoops`, its lock, thread-specific slots `__CFTSDKeyRunLoop` and `...Cntr`, the static of `CFRunLoopGetMain` | `CFRunLoopGetCurrent`, `CFRunLoopGetMain`, `__CFFinalizeRunLoop`, `__CFRunLoopDestroyRunLoops` | one loop for each thread for its life, no leak, no dangling cache |
| Observers, common modes | observers of a mode, firing bits, `_commonModes`, `_commonModeItems` | add, remove, invalidate, `CFRunLoopAddCommonMode` | each common item is in each common mode; an observer is not re-entered |
| File descriptors (`CFFileDescriptor.c`) | per object: enabled and signalled types, schedule count, copy of its run loops, source; the manager's `fd_set`s, lists and wake-up pipe; the map of all objects | create, enable, disable, schedule, cancel, perform, invalidate; the manager's select loop | an enabled type is watched or about to be called out; nothing is watched for an object that does not want it; the manager neither misses a change nor spins |
| Notification center (`CFNotificationCenter.c`) | array of records with a counter of those in use, the center's lock | add, remove, remove all, post | a post calls every matching observer once and stays in the table |
| Hash table (`CFBasicHash.m`) | keys, values and counts in buckets, tombstones, `used_buckets`, `deleted`, table index, style | add, set, replace, remove, remove all, set capacity, rehash | an entry is found until it is removed; counters are exact |
| Reference counts (`CFRuntime.c`) | count word, or byte and table of external counts | create, retain, release, finalize | freed once, when nobody has a reference |
| UUIDs (`CFUUID.c`) | table of uniqued instances, which it does not retain, its lock | create with bytes, constant with bytes, finalizer | what the table gives out is live |
| Version-1 sources | ports of sources | dispatch by port | (not reachable on Linux, section 8) |
| `CFSocket` | as `CFFileDescriptor`, with queues of data and connections | create, enable, disable, invalidate, the manager's loop | as `CFFileDescriptor` |
| `CFStream` | client, scheduled loops, pending events | open, read, write, close, schedule | event order, no callback after removal |
| Other collections | deques, B-trees, heaps, trees | insert, remove, replace, sort | data structure invariants |
| Text, URLs, bundles, plists, locale | tables, parsed forms | parse, format | sequential data transformation |

How the parts meet:

* The loop's **own thread** runs activations. A callout (observer, source,
  timer) is called with every lock released and may run the loop again, so
  activations nest, and flags that belong to the loop are shared by all of
  them.
* **Other threads** signal sources (under the source's lock only), stop and wake
  the loop, add, remove and invalidate items (under the loop's and the mode's
  lock). The manager thread of `CFFileDescriptor` is one: it signals an object's
  version-0 source and then wakes one of the object's run loops, which performs
  the source, makes the callouts and enables what is still wanted again.
* The **kernel** reports events of the wake-up port and of the modes' timer
  ports, all in one kqueue, and readiness of native descriptors to `select`.
* **Thread exit** reaches the registry through destructors of thread-specific
  data (`src/CFPlatform.c`), which run several times and count down.
* Every object is **retained and released** through `CFRuntime`; the last
  release runs the class's finalizer while the count is still one. A class that
  looks its instances up in a table it does not retain (`CFUUID`) can find the
  object in that window.
* Sets, dictionaries and bags are **hash tables** of `CFBasicHash`, the maps of
  the run loop and of the descriptor manager among them.

What is hard here: a request that arrives between the last look at the flags
and `kevent`; state of the loop that a nested run changes under the outer one
(`_ignoreWakeUps`, the port set); validity tests made before a lock is taken
and used after it; several events delivered at once; relative kernel timers
against absolute dates; a descriptor that the manager took out of its set under
one lock and signals under another; walks of a table while callbacks change it;
a carry of a count that touches two words; a finalizer that loses its race;
long sequences of adds and removals that wear a table down. The list, with
lines, is under `hazards` in `PROJECT.json`.

## 2. Modules

| Module | Models |
|---|---|
| `CFRunLoop` | activations, version-0 sources, stop and wake-up, the wait, the port sets of one run loop |
| `CFRunLoopProofs` | theorems about `CFRunLoop` |
| `TimerArray` | `__CFRunLoopInsertionIndexInTimerArray` as a function |
| `CFRunLoopTimers` | the timers of one run loop, the kqueue timers and the part of the wait that concerns them; uses `TimerArray` |
| `CFRunLoopTimersProofs` | theorems about `CFRunLoopTimers` and the search of `TimerArray` |
| `ThreadLoops` | abstract specification of the registry: one loop for each thread, for its life |
| `CFRunLoopRegistry` | `_CFRunLoopGet0`, the caches, thread exit, process exit; implements `ThreadLoops` |
| `CFRunLoopRegistryProofs` | theorems about `CFRunLoopRegistry`, the refinement among them |
| `CFRunLoopObservers` | the observers of one run loop, the common modes with observers as common items, `__CFRunLoopDoObservers` in nested runs |
| `CFRunLoopObserversProofs` | theorems about `CFRunLoopObservers` |
| `CFFileDescriptor` | the objects, the manager thread with its select sets and pipe, and the run loops' side of their sources |
| `CFFileDescriptorProofs` | theorems about `CFFileDescriptor` |
| `CFNotificationCenter` | the local center: its table, and posts that unlock around callbacks |
| `CFNotificationCenterProofs` | theorems about `CFNotificationCenter` |
| `KeyedBag` | abstract specification of a hash table: a value and a count for each key that is in |
| `CFBasicHash` | the table with its probing, tombstones and rehashing; implements `KeyedBag` |
| `CFBasicHashProofs` | theorems about `CFBasicHash`, the refinement among them |
| `CFRuntime` | create, retain and release in the 64-bit and the 32-bit build |
| `CFUUID` | the uniquing table; EXTENDS `CFRuntime` and gives it a finalizer |
| `CFUUIDProofs` | theorems about `CFUUID` and `CFRuntime` |
| `MCRunLoop`, `MCRunLoopTimers`, `MCRegistry`, `MCObservers`, `MCDescriptors`, `MCNotificationCenter`, `MCBasicHash`, `MCUUID` | instances for TLC |

### CFRunLoop

`act[1..depth]` is the stack of activations; each is a record of the locals of
`CFRunLoopRunSpecific` and `__CFRunLoopRun` with a program counter named for
the point of the code (`beforeTimers`, `sources`, `wait`, ...). `locked` says
whether the loop's thread holds `rl->_lock`. An action is a stretch of code
between two points where a lock is given up or something else can interfere:

* `RunSpecific`, `Start`, `Return`: entry, the test for a stop request at the
  start, exit with the saved stop flag restored.
* `DoObservers`, `ObserversReturn`: a callout at one of the six activities. An
  activity nobody observes is passed through without unlocking.
* `CollectSource0`, `CollectedSources0`, `PerformSource0`, `Source0Returns`,
  `DoneSources0`: `__CFRunLoopDoSources0`. The code sorts what it collected
  and unlocks between two sources; with `returnAfterSourceHandled` one is
  enough.
* `Sleep`, `WaitWake`, `WaitTimer`, `WaitPolled`, `WaitFails`, `Woken`: the
  wait. `Sleep` rotates the port set and sets the sleeping bit; kevent clears
  all events it reports and the code uses the first; `Woken` takes the lock,
  clears the bit and sets `_ignoreWakeUps`.
* `Handle`, `TimersReturn`, `Decide`: what `livePort` selects, and the return
  code. `livePort` is a place in the port set and not a port, as in the code,
  where it is a pointer into the set's array. `Decide` makes the four tests in
  the code's order (`Done`, then `StopOrGoOn`) and compares `termTSR` with the
  clock once, which for a finite timeout may give either answer (`TimedOut`).
* `SourceSignal`, `WakeUp`, `Stop`, `StopMode`, `AddSource`,
  `AddSourceLocked`, `RemoveSource`, `SourceInvalidate`, `RemoveFromRunLoop`:
  calls of other threads (and of callouts). Calls with two critical sections
  have two actions, `op[t]` being what thread `t` still has to do.
  `CFRunLoopAddSource` wakes nobody; a thread that adds a source with a signal
  from before owes the loop a wake-up afterwards, as one that signals does.
* `TimerExpires`: the kernel reports a mode's timer.

### CFRunLoopTimers and TimerArray

`timers[m]` is the array of a mode; each timer has its `fireTSR`, its modes
and its valid bit, and fires if it is `cur`. The kernel's side is, for each
mode, `alarm[m]`, the time at which its timer event rings (`Off` when it is
disabled, as `EV_DISPATCH` does on delivery), and `data[m]`, the relative delay
with which the port set's copy re-enables it at the next wait (`__CFRunLoopWait`
passes the set as kevent's change list). `Arm`, `Disarmed`, `ArmNext`, `Reposition` are
translations of the functions of the same names, the rounding to *tenus*
included. `DoTimer`, `CalloutReturns`, `FinishTimer` are `__CFRunLoopDoTimer`
before, in and after the callout; the last one computes the next date of a
repeating timer by stepping over the missed ones, as the code does.

`batch` is what `__CFRunLoopDoTimers` collected, as a function from the places the
timers had in the array.

`TimerArray` is the halving search with the shortcut for arrays of more than
256 timers (a constant here, so that small arrays take it as well). `Halvings` has
the values of `idx`, one for each test of the loop; it is a recursive function,
so that it can be reasoned about. `Key` and `MaxLen` bound the arrays that TLC
tries one by one.

### CFRunLoopRegistry and ThreadLoops

A critical section of `loopsLock` is one action. `NewTable` and `NewLoop`
create objects outside it; `CasTable` and `Insert` decide who was first and
release what lost. `Destructors` is one run of `__CFTSDFinalize` as far as
run loops are concerned, `EndPass` its end, `AskMain` and `Purge` the rest of
`__CFFinalizeRunLoop`. `Start` gives a finished thread's `pthread_t` to a new
thread. `ThreadLoops` knows two variables, the loop of each thread and the
living threads, and three actions; the refinement mapping takes the table
itself and the threads outside their destructors.

### CFRunLoopObservers

`frame[1..depth]` are the calls of `__CFRunLoopDoObservers` that nested runs
stack up, each with the observers it collected and has not called yet and its
current one. `CallObserver` looks at the valid bit again under the observer's
lock; `ObserverReturns` and `OneShotRemoved` invalidate one that does not repeat;
`LoadBits` and `StoreBits` are `__CFRunLoopObserverUnsetFiring`, a
read-modify-write of the byte that also holds the valid bit, made without
the lock. `AddToCommonModesLocked`, `AddCommonMode` and `Each` hold the run loop
lock (`holder`) over several inner calls of `CFRunLoopAddObserver`, each of which
tests the observer again. The array of observers is a set with an order; the
context's info and retain counts are left out. `Direct` are the modes callers
name themselves, since removing a common item from a single common mode
by name takes it out of there, as asked.

### CFFileDescriptor

`obj[f]` is an object with its source: `types` are the enabled callback types,
`signaled` those reported and not performed, `setCount` the schedule count,
`rloops` the copied array of run loops, `pending` the signalled bit of the source
and `loops` the run loops the source really is on. `fds` are the manager's
`fd_set`s, of native numbers, and `listed` its lists of objects; `pipe` counts
the bytes of the wake-up pipe, one for each bit that changes.

* Clients: `Create`, `CreateRunLoopSource`, `Enable`, `Disable`, `Schedule`
  (`CFRunLoopAddSource` with the schedule callback), `Cancel`, `Invalidate` and
  its second half `FinishInvalidate` (the object's lock is given back before
  `CFRunLoopSourceInvalidate`), `Close` of the native descriptor behind the
  object's back.
* The manager: `PrepareWatches`, `Select` or `SelectError` (EBADF),
  `InvalidateBad` for each closed descriptor, `ProcessState` (the pipe),
  `HandleReadyDescriptors` (ready bits leave the sets under the active lock),
  `Handle` (each is signalled under its object's lock), `WakeupRunLoops` (one of
  the run loops is picked from a copy of the array, woken, and rotated to the
  end), `UnlockAgain` (a read unlocks its object a second time, 2313).
* Run loops: `Sleep`, `CollectSource`, `DoSource0`, `RunLoopPerform`,
  `DoCallBack` (the type is disabled before the callout), `PerformDone` (what was
  signalled and is enabled is enabled again, without force).

`EnableCallBacks`, `DisableCallBacks`, `RunLoopSchedule`, `RunLoopCancel` and
`ManagerRemove` are operators shared by these actions, as the functions are in
the code. The bytes a client may leave in the pipe (`ClientPipe`) and the length
of `rloops` (`MaxSchedules`) are bounds.

A section under an object's lock is one action, as long as the lock is one. The
second unlock of `HandleRead` comes after
`SignalSourceAndWakeupRunLoops_LockedAndUnlock` has unlocked (2573, 2594) and does
nothing if nobody has locked the object since; if somebody has, it
frees the lock under that section. `UnlockAgain` has both outcomes. In the second,
`late` keeps the section that lost its lock, with the object as it has read it;
other threads then make up to `MaxOverlap` steps, sections of the same object
included, before `LateSection` ends it: it decides by what it read, and writes
either over the whole object as it was (`AsRead`; the state, the types and the
signals share a byte, which a read-modify-write stores) or into what is there
now. `torn` is history and says that this has happened. A late section may be a
client's enable, disable, schedule or cancel, or any part of a run loop's
perform. The model follows the system until the late section has ended; what it
leaves may be anything the fields can hold. More than one late section, and one
of an invalidation or of the manager itself, are not in the model.

### CFNotificationCenter

`obs` is the array of records, `observers` the counter, `posts[t]` the stack of
`__CFInvokeCallBacks` of a thread: callbacks post again. A frame has the index to
look at `next` and the records `left`; `Walked` is the walk under the lock up to
the next record to call. A walk that reads past the table, in a table that
`realloc` moved, or calls through a cleared record ends in the phase `lost`,
and the model with it. Callbacks and other threads add, remove and post
without restriction. For the properties, a frame notes which records matched
when the post began and are still there and not called (`due`), and whether a
record it has not passed was removed (`removed`), one was added ahead of it
(`added`) or the table moved (`stale`).

### CFBasicHash and KeyedBag

`keys`, `values` and `counts` are the arrays; a hash code is abstracted to the
probing order it gives (`Probe`), which `MCBasicHash` computes with the source's
three formulas and primitive roots. `Found`, `BucketOf`, `FreeBucket`,
`NoCollision` are the three find functions. A `Rehash` swaps in empty arrays;
`MoveBucket` then moves one bucket of the old ones at a time and `FinishRehash`
adds what made the table grow. Removal leaves a tombstone and may shrink or
clean the table (`RemoveAt`); `deleted` wraps as its 16 bits do. The counts of a bag
have widths, and the one at the widest limit is stuck. `KeyedBag` has one
variable, a function from the keys that are in to value and count; the refinement
mapping joins both arrays while a rehash runs.

### CFRuntime and CFUUID

`lp64` chooses the build. `rc` is the word, or the byte whose flag says that there
are external counts in `ext`, under `extLock`. `Half` is the number of
references a carry moves (64 in the code). Each call reads, then swaps
(`RetainCAS`, `ReleaseCAS`) or carries and borrows (`RetainCarry`,
`RetainCarried`, `ReleaseBorrow`, `ReleaseBorrowed`: the byte is swapped, then
the table is changed under the lock). `Free` is the end of the release after the
finalizer. `CFUUID` adds the table `uniqued`, its `lock`, `FindUUID` (retain
under the lock), `CreateWithBytes`, `ConstantWithBytes`, `FindConstant` and the
finalizer `Deallocate`, which takes the instance out of the table without the
table's lock (CFUUID.c:224-226). `refs[t][o]` are the references that clients own;
they exist for the properties. With `Careful` clients ask for a constant before
an ordinary instance with its bytes; the run `immortal` has it off and shows
what happens then.

## 3. Runs

| Run | Instance | Shows |
|---|---|---|
| `nested` | 2 modes on one kqueue (one with observers around the wait, the other with timers), 1 source, 1 other thread, depth 2, runs of either mode nested in after-waiting observers, fair; 565 thousand states | `TypeOK`, `NoSignalSleptThrough`, `NoStopSleptThrough`, `SleepingIffWaiting`, `StopsStayWithTheirRun`, `SignalIsServed`, `StopReturns` |
| `timers` | 3 timers (one repeating), 1 mode, 1 thread, 3 ticks; and all sorted arrays up to length 8 over 4 dates, shortcut above length 4; 461 thousand states | `TypeOK`, `TimersSorted`, `ArmedForNext`, `InsertedAtUpperBound` |
| `registry` | 3 threads of which 2 exit and come back, 5 loops, 4 destructor runs; 43 thousand states | `TypeOK`, `RetainsExact`, `CachesAgree`, `ImplementsThreadLoops` |
| `observers` | 2 observers (one does not repeat), 2 modes, the default mode common, 2 threads, runs nested twice; 671 thousand states | `TypeOK`, `NotReentered`, `OneShotOnce`, `CountIsExact`, `CommonItemsInCommonModes` |
| `descriptors` | 2 objects that share a native number in turn, reads and writes, 1 run loop, closed on invalidation, the double unlock with one step of another thread in a section that lost its lock; 1.7 million states (symmetric objects) | `TypeOK`, `LostOnlyByDoubleUnlock`, `StrayOnlyByDoubleUnlock`, `SpinsOnlyByDoubleUnlock` |
| `notifications` | 2 threads, 1 observer registered any number of times, 2 posts at once (nested or concurrent), a table that grows from 1 to 3 records; 681 thousand states | `TypeOK`, `CountIsExact`, `AstrayOnlyByRemoval`, `MissedOnlyByAddition` |
| `hash` | tables of 0, 2, 3 and 5 buckets, 3 keys that collide, 2 values, 3 styles, counted or not, fast growing or not, `deleted` wrapping at 3, counts up to 3 in two widths; 101 thousand states | `TypeOK`, `EveryEntryIsFound`, `CountersAreExact`, `RehashHasRoom`, `ImplementsKeyedBag` |
| `uuids` | 2 threads, 3 instances, one value of the bytes, both layouts of the count, a byte whose lower part counts to 3 (`Half` = 2); 852 thousand states | `TypeOK`, `OwnedIsLive`, `TableIsLive`, `CountIsExact`, `FinalizedByOne` |

Four runs show that the code does something else than its own comments say.
TLC's counterexample is the shortest story:

| Run | Property violated | Story |
|---|---|---|
| `lost_wakeup` | `NoSignalSleptThrough` | A before-waiting observer runs the loop; the nested run sets `_ignoreWakeUps` after its wait and returns. The outer activation goes to sleep with wake-ups ignored. |
| `immortal` | `ConstantIsImmortal` | An ordinary UUID is created, then asked for as a constant: it is handed out without a retain, and the owner's release frees it. |
| `walk` | `NoneMissed` | A post walks as many records as were in use when it began. While a callback of it runs, an observer is added to a free record ahead; it uses up one of the turns, and the last observer is not looked at. |
| `freed` | `HeldIsLive` | A create holds the table's lock and has found an instance. Its last release runs the finalizer, which takes the instance out of the table without the lock; the count is still one, and the instance is freed under the create that is about to retain it. |

**Bounds.** One loop thread is what the code has; another thread in the middle of
its call is enough to meet it, since calls share nothing but the loop's flags,
and the theorems of section 5 hold for any number. Depth 2 gives an outer
activation and a nested one that changes the loop's state under it. Two modes
are needed for events of the wrong mode,
three timers for a removal in the middle of the array, five loops for two lost
creation races and two thread lives. In `nested` the other activities are
passed through without a callout: a callout that nests in any of them meets
the same code at its start and its return, the ones before the wait apart, which
`lost_wakeup` observes; an after-waiting observer is where the nested run finds
an event taken and not yet handled, and where it can move the port set. Two objects with one native number are the
case in which a late answer of the manager meets the wrong object. One step
of another thread in a late section is enough to lose an update
(section 7). `ReadMax` = 1 makes the pipe keep
bytes over a turn of the manager, which 256 would in larger instances only. A
table of one record that grows twice has every relation of walk, growth and
removal. Three keys overflow every table but the largest; the small values
of `Shrink`, `ScanFloor`, `ScanShare` and `DeletedMod` make a table of five
buckets shrink, be scanned and wrap. A lower part of the byte that
counts to 3 carries at the next reference, which two threads reach. Symmetry is used over threads, observers,
values, objects and one-shot timers, never in a run of a liveness property.
Every bound is a constant: `MaxDepth`, `MaxTime`, `Loop`, `MaxLen`,
`ClientPipe`, `MaxSchedules`, `MaxOverlap`, `MaxCapacity`, `MaxPosts`, `Last`,
`MaxRefs`.

`CHECK_DEADLOCK FALSE` is set where the system may stop: in `timers` the clock
ends at `MaxTime`, in `registry` the process ends, in `descriptors` every object
has been invalidated (objects are created once) or the late section has ended,
in `notifications` and `walk` a lost walk ends the model, in `uuids`, `immortal`
and `freed` all instances have been used up.

## 4. Fairness

`FairSpec` of `CFRunLoop` assumes weak fairness of the loop's own steps
(`LoopStep`: the thread is scheduled, callouts return, `kevent` returns when an
event is pending) and of each thread's *second half* of a call it has begun.
Nobody is forced to start a run, signal or stop, and `kevent` is not forced to
fail. That is what a scheduler guarantees, since no lock of the model is held
for ever. `SignalIsServed` says that a signalled source in the running mode is
performed, or the activation leaves or nests another, or the source goes;
`StopReturns` that a stopped activation returns or nests another.

The other modules have no liveness property and assume nothing.

## 5. Proofs

All proofs hold for any number of modes (three of the timers' excepted, which say
so), sources, threads, loops, objects, observers and any depth, from the named assumptions on constants in the modules
(constants have their types; threads and modes are finitely many; bounds are
positive; the pthread library runs destructors at least twice; a carry moves at
least two references to the external count; the clock, the dates and the intervals
of timers leave the room below `LLONG_MAX` that `TIMER_DATE_LIMIT` and
`TIMER_INTERVAL_LIMIT`, CFRunLoop.c:125, are there for).

The library states no induction that the provers can use. Where one is needed,
for the loop of a search or a first free place, the proofs take the least
counterexample: `LeastElement` says that a set of naturals that is not empty has
a least element.

### Run loop

**`TypeCorrect`**, `Spec => []TypeOK`, is inductive as it stands.

**`SleepingBitIsExact`**, `Spec => []SleepingIffWaiting`. The bit is one for the
whole stack, so the property alone is not inductive: when an activation returns
one must know that the one below is not in its wait. `StackInv` adds
`SuspendedAtNest`, that everything below the top is in a callout that may nest.

**`NoSignalIsLost`** and **`NoStopIsLost`**: if no run is nested in the observers
that are called before a wait (`NestAt \cap PreWait = {}`), then
`NoSignalSleptThrough` and `NoStopSleptThrough` always hold. This is where `lost_wakeup` draws the line:
with such nesting the property is false. The invariant `WakeInv` (`WakeInductive`) speaks of the
*open* part of an iteration, from the reset of `_ignoreWakeUps` to the wait,
as long as no source was handled:

* `WakeUpsHeard`: wake-ups are not ignored there;
* `SignalAnnounced`: a signalled source that this iteration will not look at
  any more has a wake-up raised or owed by a thread in its call;
* `StopAnnounced`: the same for stop requests.

Each step either leaves the open part, or moves forward in it without a
request becoming *inspected* while it is signalled, or is a thread's step that
raises the port or still owes to. A batch in which a source was performed is
not open: the wait then only polls.

**`StopsReachTheirRun`**, `Spec => StopsStayWithTheirRun`, for any nesting at all.
`CFRunLoopRunSpecific` hides the stop flag of the activation below in a local and
puts it back on its way out (3846-3858). `StopPending(d)` says where the request
for activation `d` is: in the flag, or in the local of `d + 1`. The action property
holds in every step from a well-typed state (`NextStops`).

### Registry

**`CachesAreRight`** and **`RegistryRefines`**: while the main thread does not
exit, the caches agree with the table, and `Spec => Abstract!Spec` for
`ThreadLoops`. `RegistryInv` adds to the types that a dying thread asks for the
main loop only (`Phases`), that a loop in the making is known to its creator
alone (`Owned`), that entries need the table (`NoTableNoLoop`) and, the
decisive part, that the counter slot and the number of destructor runs add up to
`PTHREAD_DESTRUCTOR_ITERATIONS` while the entry exists (`Countdown`). Hence the
entry is gone before the slots are, and before the `pthread_t` is used again.

**`RetainsAreExact`** and **`Typed`** hold without a condition on the main thread.
`RetainInv` needs of the above only what is true whichever threads exit
(`BaseInv`), and adds that a loop has one entry at most (`Single`), which threads
still have a loop to release (`Finalizing`), and the equation of each
loop's count. Each step then moves a loop from one of the four sets that are
counted to another, or retains or releases it as it enters or leaves one.

### Timers

**`SearchFindsUpperBound`**: `__CFRunLoopInsertionIndexInTimerArray` returns the
number of items that are not later than the key, in every array in firing order
and of any length. `HalvingReached` says that `idx` is zero or the place of such an
item, `HalvingBounds` that after each test all such items lie below `idx` plus the
weight that was tested; the first weight is beyond the array (`TopBit`), the last
is 1, and the test with `add` = 0 then tells an empty prefix from one item.
`FollowAll` shows that the recursive functions in this are the ones meant.

**`Typed`** holds for any number of modes. `TimersInv` is the type invariant with
one more fact, that a timer which is still valid behind its callout repeats, so
that the next date is computed from a positive interval (`NextDate`: it stays
below `LLONG_MAX`). There is one lemma for what each of `RemoveFrom`, `Reposition`
and `AddTimerLocked` does to one mode's array and port (`RemoveFromAt`,
`RepositionAt`, `AddAt`).

**`ArraysStaySorted`** (`TimersSorted`), **`PlacesAreUpperBounds`**
(`InsertedAtUpperBound`) and **`AlarmIsInTime`** (`ArmedForNext`) hold for a run loop
with one mode (`OneMode`), and any number of timers, threads and dates. `Ordered`
adds to `TimersInv`

* `Noted`: a call that waits to set a date has noted a mode, hence, with one mode,
  every mode the timer can be in when the call goes on;
* `InOrder`: the arrays are in firing order. A timer is taken out before its date
  changes and put back by the search, or has no mode;
* `InTime`: if the first timer of a mode is not firing, is valid and lies ahead,
  the alarm is set for its rounded date. It says more than `ArmedForNext` because
  a timer that is firing is passed over by `__CFArmNextTimerInMode` and is
  looked at again when it has been moved. `Delivered` turns off only what has
  rung, and `EnterWait` sets only what is off.

With two modes both properties fail, as section 7 says (2959 and 4974).

### Observers

**`ObserverNotReentered`** (`Spec => []NotReentered`) and **`OneShotCalledOnce`**
(`Spec => OneShotOnce`, an action property). `ObserversInv` says that outer
calls are in a callout with the firing bit of their observer set (`Frames`),
that an inner call therefore collected none of them (`Apart`), that an observer
that does not repeat and was called is either in that callout or
invalid (`Spent`), and that its byte is loaded only after it was invalidated by
the same thread (`Retired`), which is why the lost update cannot bring it back.

**`CountStaysExact`**, **`CommonItemsEverywhere`** and **`Typed`** are read from
`CommonInv`. Adding a common item, or a common mode, is a loop over pairs with
the lock held, during which the property is false: `Covered` says that an item
missing in a common mode is among the pairs the holder of the lock still has to
do, `Locks` that a thread in such a loop has the lock, and `Buried` that the
valid bit, and the copy of it that a callout is about to store back, is clear for
invalidated observers only, so that a pair is skipped for those alone.

### File descriptors

**`ArmedIsForgottenOnlyByDoubleUnlock`** (`Spec => []LostOnlyByDoubleUnlock`),
**`UnwantedIsWatchedOnlyByDoubleUnlock`** (`Spec => []StrayOnlyByDoubleUnlock`),
**`ManagerSpinsOnlyByDoubleUnlock`** (`Spec => []SpinsOnlyByDoubleUnlock`) and
**`Typed`** (`Spec => [](~torn => TypeOK)`) say that as long as no lock was freed
under a section, `NothingLost`, `WatchedIsArmed`, `ManagerNeverSpins` and the types
hold, for any number of objects, native numbers, run loops and bytes in the pipe,
with clients moving signalled sources or not. `torn` is never reset, so the
proof is that of one inductive invariant `DescriptorInv` along the steps before it
(`UntilTorn`). What follows a lost lock is model-checked only, where TLC also has
`TypeOK`.
To the three properties it adds

* `Shape`, the types (finite sets of loops, so that the schedule count stays an
  integer);
* `Owned`: a native number belongs to one valid object at a time, only valid
  objects are in the manager's lists, an object that is scheduled has a source.
  The code has this from the map of all objects, under its lock. It is
  what makes a bit of the set and an entry of the list speak of the same object,
  and a type the manager selects end as a *pending* source;
* `Phased`: selections and callouts to make exist in their phases only, so that
  a fresh select forgets nothing;
* `NoSpin`: while the manager is in `select`, what it was given is still set or
  the pipe has a byte (each clearing of a bit writes one); while it invalidates
  bad objects, the pipe has a byte or one of those objects still has a bit to
  clear. `WatchedIsArmed` supplies that object: a closed bit that is set
  has a listed owner, and that owner is among the bad ones.

There is one lemma for each operation (`SetEffect`, `ClearEffect`,
`EnableEffect`, `DisableEffect`, `RemoveEffect`) and one for each action or group
of actions.

### Notification center

**`CounterIsExact`** (`Spec => []CountIsExact`) and **`Typed`**. `Shape` contains
the counter's equation; the lemmas `Filled`, `Cleared` and `Grown` follow the
cardinality of the records in use through an add, a removal and growth.

**`OnlyRemovalsLeadAstray`** (`Spec => []AstrayOnlyByRemoval`) and
**`OnlyAdditionsMiss`** (`Spec => []MissedOnlyByAddition`). Of a walk that nobody has
removed a record from and whose table has not moved, the invariant says that
the records in use ahead are at least those `left`, so that it cannot run off the
table; of one that nobody has added a record to, that they are at most
those, so that it cannot stop before one of them. Each client action moves both
sides by the same amount or sets the history bit that ends the claim.

### Hash table

For any keys, values, styles, sizes, capacities that do not fall as the tables
grow, widths of counts and any probing orders that visit every bucket
(`ProbeAssumption`, `TableAssumption`, `CountAssumption`), one inductive invariant,
`HashInv`, gives **`Typed`**, **`EntriesAreFound`**, **`CountersStayExact`**,
**`RehashSucceeds`** and **`TableRefines`**. Its parts:

* `AllReached`: from the first bucket on its key's path up to an entry there is no
  empty bucket. A new key goes to the first bucket on its path that is free, and
  filling one makes none empty (`FillReached`); a removal leaves a tombstone
  (`ClearReached`);
* `Apart`: no key is twice in the table, in the old arrays of a rehash, or in one and
  the other, nor is the key to be added afterwards; and a table that is being
  filled has no tombstones;
* `Exact` and `Counted`: the counters, and which counts are zero;
* `Room`: the capacity is at least the entries plus the one to add. The
  capacity is at most the number of buckets, so that fewer than all are occupied and
  a search for a free one ends (`FreeExists`, `FirstExists`). Growth by one
  size more than needed keeps room because capacities do not fall.

`TableRefines` is `Spec => ImplementsKeyedBag`. `ContentsHeld` turns the contents
into a relation, `Holds(k, v, c)`, over both arrays. Each operation then either
leaves the relation alone (all of rehashing: an entry enters the new arrays as it
leaves the old ones), or changes it for one key (`PutContents`, `DropContents`).

### Reference counts and UUIDs

For any number of threads, instances, bytes and references, **`CountsAreExact`**,
**`NothingOwnedIsFreed`**, **`NothingFreedIsFound`**, **`NothingIsFinalizedTwice`**
and **`Typed`** hold although the finalizer does not take the lock of the table,
for clients that ask for a constant before anybody creates an ordinary instance of
its bytes (`Careful`; `immortal` shows that this is needed). The instance a create
has *found* may be freed under it (`freed`), so `HeldIsLive` is false;
`OwnedIsLive` is what is left of it, and it is no small rest: a create that was
quick enough has added a reference, and the release must see it. `UUIDInv` has
these parts:

* `Calls`: what a thread has read when it swaps (`SeenOK`), and what gives it the
  right to touch the object (`RightOK`): retains and releases have a reference of
  their own. A create has none until its retain has swapped; and what is
  behind its finalizer is in the table no more;
* `Locks`: which phases have which of the two locks;
* `HeldOK`: references, constants and entries are to live instances;
* `CountOK`: the count, in one word or split into the byte and the external
  count, is the number of references (one more for a constant). In the 32-bit layout
  the byte's flag is set exactly while the external count is positive, carries
  and borrows under way included (`Extern`); this is what lets a release whose
  byte says 1 conclude that it is the last, and keeps the byte in its range.

References are pairs of a thread and a number, and the number owned is their
cardinality (`OwnMore`, `OwnLess`). A swap succeeds only against the word that was
read, so that the last release frees an instance with one reference, its own;
`RightOK` then excludes every other retain and release, and leaves the creates
that have found it and have not retained it.
There is one lemma for each action, over lemmas about the byte (`Byte...`,
`Exact...`).

### Model-checked only

Liveness (`SignalIsServed`, `StopReturns`) is outside the prover's reach. Every
other property of the passing runs has a theorem; the descriptors' `TypeOK` is
proved up to the moment a lock is freed under a section, and model-checked beyond.

## 6. Assumptions about code outside the repository

* `kevent`: an `EV_DISPATCH` event is disabled when it is delivered; a change
  list entry with `EV_ENABLE` re-enables it with the data it carries; a zero or
  negative delay rings at once; several pending events may be delivered in any
  order. A timer that was never armed does not ring.
* `select`: returns when a watched descriptor or the pipe is ready, leaves its
  sets unchanged when it fails, and fails with EBADF if a watched number is
  closed. It is not interrupted (the code would abort).
* `pipe`: bytes are counted; a read of an empty pipe gives EAGAIN.
* pthreads: destructors run for non-null slots, up to
  `PTHREAD_DESTRUCTOR_ITERATIONS` times; a `pthread_t` may be reused afterwards.
* `realloc` moves the table; `OSAtomicCompareAndSwap32Barrier` is atomic.
* `CFTypes` used by the run loop and the descriptors (arrays, sets,
  dictionaries) do what their names say.

## 7. What the code does otherwise

Found while modelling, each at a line of the code. Four have a violation run,
named here, because a comment or a header says otherwise.

**Run loop**

* A run nested in a before-waiting observer loses wake-ups (`lost_wakeup`, 3642).
* A run nested in an after-waiting observer in the same mode rotates the port set
  that `livePort` points into (3394), and the outer activation serves another port:
  a wake-up is taken for a timer or a timer for a wake-up. `nested` has this case;
  its properties hold in spite of it, since the activation goes round its loop
  either way.
* Without libdispatch nothing wakes the loop when a finite timeout passes (3614): an
  activation with nothing to do sleeps past its date. Its timeout context also
  takes a `CFRetain` of the loop that nothing releases.
* A timer date that has just passed is not armed (2832); the loop may wait with an
  overdue timer at the head. A timer invalidated between the test and the lock of
  `CFRunLoopAddTimer` (4315) is added, and once its date is past it is a head that
  is never armed and hides those behind it.
* `kevent` may deliver a timer event behind a wake-up; `__CFRunLoopWait` uses the
  first and drops the other (3381), whose timer is then re-enabled with its whole
  old delay.
* A timer in two modes whose date is set in its own callout is armed again in
  the running mode only (2959), and `CFRunLoopTimerSetNextFireDate` copies the
  timer's modes before it locks (4974).
* The valid bit of a repeating observer can come back when another thread
  invalidates it while its firing bit is being cleared (2548).
* `CFRunLoopAddObserver` tests `_runLoop` before it locks (4213): two run loops
  may take the same observer. `CFRunLoopAddSource` (4025) has the same window; a
  dead source stays in the mode and is skipped by every batch.
* Removing or invalidating the last item of the running mode wakes nobody
  (4084): the activation notices the empty mode at its next wake-up only.
* With `seconds` = 0 all signalled version-0 sources are performed, although
  line 3549 speaks of one; `returnAfterSourceHandled` decides.

**File descriptors**

* A disable is ignored while the object is on no run loop (2053): if the source is
  taken off between the signal and the callout, the type stays enabled behind the
  callout although the documentation calls callbacks one-shot (2925).
* If a signalled source is taken off the run loop that was woken and stays on
  another one, that one is not woken (1793): what is enabled is not lost, but is
  called out only when something else wakes that loop. No property here says that
  an enabled type is called out eventually.
* A descriptor that is ready for reading is unlocked twice: by
  `__CFFileDescriptorSignalSourceAndWakeupRunLoops_LockedAndUnlock` and again at
  `unlock:` (2313). The second can free the lock under another thread, and then
  two sections overlap. In the model's shortest such run a client that enables
  "write" has read the enabled types when its lock is freed; the run loop
  disables "read" for a callout meanwhile, and the client's store puts "read" back:
  it is enabled, and nobody watches the descriptor (`NothingLost` is false there).
  The other way round a bit stays in the manager's sets that nobody wants
  (`WatchedIsArmed`). Neither the documentation nor a comment states
  either, so they have no run of their own; `LostOnlyByDoubleUnlock` and
  `StrayOnlyByDoubleUnlock` say that this unlock is the only way to get there.
* `select` interrupted by a signal (EINTR) aborts the process. One read takes up to
  256 bytes off the pipe, while line 1602 expects one.
* Writes to the wake-up pipe retry while it is full (1776), under locks the
  manager needs before it can read, and the manager writes too.

**Notification center**

* Line 815 says that a post processes each observer in the table. An observer
  that is added ahead of a walk uses up one of the turns of another (`walk`).
  A callback or another thread that removes a record the walk has not passed, or
  makes the table grow, lets the walk leave the table or read freed memory;
  `AstrayOnlyByRemoval` says that nothing else does.
* `CFNotificationCenterGetDistributedCenter` returns from its error paths with
  its lock held (1028 and the tests after it); that center is not usable on
  Linux.

**Object runtime and UUIDs**

* `CFUUIDGetConstantUUIDWithBytes` does not retain an instance that is in the table
  (`immortal`, 293).
* The build is without blocks, so the finalizer takes no lock (224-226), and the
  instance that a create has found can be freed under it (`freed`), although
  CFRuntime.c:1567 speaks of finalizers in that race. The table itself is also
  changed while a create reads it; the model takes each access of it as one step.
* When the 64-bit release loses the race after its finalizer, it goes on to the
  swap at the end of its loop with the 1 it has read before (1443-1448). If the
  other reference has gone by then, the count becomes 0, which means constant, and
  the object is never freed; if not, the finalizer runs twice for one object.
* A failing allocation in `__CFUUIDCreateWithBytesPrimitive` returns with the
  lock held (289).

**Hash table**

* A count that reached `LONG_MAX` is never decremented again.
* Tables of 20 buckets and more may have no empty bucket left between two
  clean-ups, so that an unsuccessful search visits all of them.
* Release callbacks of the collections run in the middle of a removal, when the
  arrays and counters disagree; a callback that uses the table then is not in
  the model.

## 8. Not modelled

* **Version-1 sources.** On Linux the map `portToV1SourceMap` is keyed by the
  port's address, while the lookup uses the address of the port set's copy: the
  branch that performs them is never taken.
* **Sources and timers as common items**: the same code as for observers.
* **libdispatch, Mach and Windows branches**: not compiled.
* **Schedule and cancel callouts** of sources in `CFRunLoop`, a source in several
  run loops: they add callouts at which the lock is free, and no state of the
  loop. `CFFileDescriptor` has them, for its own sources.
* **Creation of modes**: all modes exist from the start. A mode created while
  the wake-up port is raised copies the trigger (hazard at line 1540).
* **Timers fired by a nested activation**: `CFRunLoopTimers` has one activation;
  `CFRunLoop` abstracts from what the timers of a mode are.
* **First use of run loops inside a destructor**, `pthread_exit` in the main
  thread, threads inside the registry while the process exits.
* **CFFileDescriptor**: retain counts of the object and its context, a client that
  invalidates the source directly, process exit, EINTR; after a double unlock, more
  than one section that lost its lock, a late section of an invalidation or of
  the manager, and the array of run loops that two sections may release twice.
* **Distributed and Darwin notification centers**: a server, suspension queues;
  not usable on Linux.
* **CFBasicHash**: enumeration with its mutation count, weak and indirect keys,
  `CFBasicHashAddIntValueAndInc` and `...RemoveIntValueAndDec` (called by nobody
  here).
* **CFRuntime**: the class table, constant objects, classes with a count of their
  own, garbage collection.
* **CFSocket**: its manager thread has the structure of `CFFileDescriptor`'s, with
  queues of data and connections. **CFStream**: event delivery is in the plan; the
  concrete streams are I/O.
* **CFArray, CFStorage, CFBinaryHeap, CFTree, CFBitVector**: sequential
  containers, in the plan.
* Text, URLs, bundles, property lists, locale, dates: sequential, table- or
  ICU-driven. Vendored code: third-party.

## 9. Plan

Done: activations, registry, timers, observers, file descriptors, the notification
center, the hash table, reference counts and UUIDs, with their proofs.

1. `CFStream`'s event delivery (pending events, signalling, client change in a
   callback), and what `CFSocket` has beyond `CFFileDescriptor`.
2. Common items of all kinds with `CFRunLoopRemoveAllSources`, a source in several
   run loops, deallocation of a run loop and creation of modes.
3. `CFBinaryHeap` refining a priority queue; `CFStorage` and `CFTree` against
   reference definitions.
