-------------------------- MODULE CFFileDescriptor --------------------------
(***************************************************************************)
(* CFFileDescriptor with its own (select based) manager: the manager       *)
(* thread that watches the native descriptors of every object, the run     *)
(* loops that perform the objects' sources, and client threads that        *)
(* create, enable, disable, schedule and invalidate objects at any moment. *)
(*                                                                         *)
(* An object is handled under its own lock, the manager's sets under       *)
(* mActiveFileDescriptorsLock and the map of all objects under             *)
(* mAllFileDescriptorsLock.  One critical section of the outermost lock is *)
(* one step; what the code does between two sections are other steps.      *)
(* HandleRead unlocks an object twice.  The second unlock may free the     *)
(* lock under another thread, whose section then overlaps with others: it  *)
(* goes on with what it has read before and writes at a later step.        *)
(***************************************************************************)
EXTENDS Integers, Sequences, FiniteSets

CONSTANTS
    Object,            \* the CFFileDescriptors that may be created
    Types,             \* the callback types in use, "read" and "write"
    Native,            \* native descriptor numbers
    NativeOf,          \* NativeOf[f]: the number f is created with
    Loop,              \* the run loops that run with f's sources in their mode
    CloseOnInvalidate, \* the objects created with closeOnInvalidate
    ReadMax,           \* the size of ProcessState's buffer (256)
    ClientPipe,        \* bound: clients act while the pipe holds at most this
    MaxSchedules,      \* bound on the length of _rloops
    MaxOverlap,        \* bound on the steps of others that a late section sees
    None

ASSUME NativeAssumption ==
    NativeOf \in [Object -> Native] /\ CloseOnInvalidate \subseteq Object
ASSUME TypesAssumption == Types \subseteq {"read", "write"}
ASSUME NoneAssumption == None \notin Object \cup Loop /\ "client" \notin Loop
ASSUME BoundAssumption ==
    /\ ReadMax \in Nat \ {0} /\ ClientPipe \in Nat /\ MaxSchedules \in Nat
    /\ MaxOverlap \in Nat

VARIABLES
    obj,     \* obj[f]: the object and the state of its run loop source
    fds,     \* the native descriptors set in the manager's fd_sets
    listed,  \* mReadFileDescriptors and mWriteFileDescriptors
    pipe,    \* bytes in the wake-up pipe
    mapLock, \* mAllFileDescriptorsLock: the invalidation that keeps it
    mgr,     \* where the manager thread is, and its select state
    loop,    \* loop[l]: where run loop l is, and its call of perform
    open,    \* the native descriptors that are open
    late,    \* the section whose lock was freed under it, and what it read
    torn     \* history: was a lock freed under a section?

locks == <<late, torn>>
vars == <<obj, fds, listed, pipe, mapLock, mgr, loop, open, locks>>
sets == <<fds, listed, pipe>>

Absent == [state |-> "absent", types |-> {}, signaled |-> {}, setCount |-> 0,
           rloops |-> <<>>, source |-> FALSE, pending |-> FALSE, loops |-> {}]
Unlocked == [f |-> None, by |-> "client"]
Fresh == [at |-> "prepare", watch |-> {}, hits |-> {}, woken |-> FALSE,
          bad |-> {}, sel |-> {}, cur |-> None, copy |-> <<>>, same |-> FALSE,
          reading |-> FALSE]
Resting(awake) == [awake |-> awake, at |-> "none", f |-> None, sig |-> {},
                   todo |-> {}, out |-> FALSE]
Nobody == [f |-> None, by |-> None, o |-> Absent, room |-> 0]

Init ==
    /\ obj = [f \in Object |-> Absent]
    /\ fds = {} /\ listed = {} /\ pipe = 0
    /\ mapLock = Unlocked
    /\ mgr = Fresh
    /\ loop = [l \in Loop |-> Resting(TRUE)]
    /\ open = {}
    /\ late = Nobody /\ torn = FALSE

IsValid(f) == obj[f].state = "valid"
IsScheduled(o) == o.setCount > 0
Bits(f, ts) == {NativeOf[f]} \X ts

\* Every bit that changes costs one byte in the wake-up pipe.
SetBits(bs)   == fds' = fds \cup bs /\ pipe' = pipe + Cardinality(bs \ fds)
\* Mutant of ClearBits: the manager is not woken for a bit that is cleared.
ClearSilently(bs) == fds' = fds \ bs /\ UNCHANGED pipe
ClearBits(bs) == fds' = fds \ bs    /\ pipe' = pipe + Cardinality(bs \cap fds)

\* A step of a thread that is not the late one.  The model follows the
\* system until the late section has ended: what it leaves behind may be
\* anything its fields can hold.
PassTime ==
    /\ torn => late.room > 0
    /\ late' = IF torn THEN [late EXCEPT !.room = @ - 1] ELSE late
    /\ UNCHANGED torn

WakeUp(ls) == [l \in Loop |->
    IF l \in ls THEN [loop[l] EXCEPT !.awake = TRUE] ELSE loop[l]]

\* The array that the manager copied is no longer the object's.
Replaced(f) == IF mgr.cur = f THEN [mgr EXCEPT !.same = FALSE] ELSE mgr

-----------------------------------------------------------------------------
(***************************************************************************)
(* What the operations do under the object's lock: o is the object as the  *)
(* section has read it, and b what it writes its result into.  The two are *)
(* the same for a section that nobody disturbs.                            *)
(***************************************************************************)
EnableCallBacks(f, o, b, ts, force) ==
    LET more == IF force THEN ts ELSE ts \ o.types
        add  == IF o.state = "valid" /\ IsScheduled(o) THEN more ELSE {}
    IN  /\ obj' = [obj EXCEPT ![f] =
                      IF more = {} THEN b
                      ELSE [b EXCEPT !.types = o.types \cup more]]
        /\ listed' = IF force THEN listed \cup ({f} \X add) ELSE listed
        /\ SetBits(Bits(f, add))

\* Mutant of DisableCallBacks: the bits stay in the manager's sets.
DisableUnwatched(f, o, b, ts) ==
    LET off == IF o.state = "valid" /\ IsScheduled(o)
               THEN ts \cap o.types ELSE {}
    IN  /\ obj' = [obj EXCEPT ![f] = [b EXCEPT !.types = o.types \ off]]
        /\ UNCHANGED sets

DisableCallBacks(f, o, b, ts) ==
    LET off == IF o.state = "valid" /\ IsScheduled(o)
               THEN ts \cap o.types ELSE {}
    IN  /\ obj' = [obj EXCEPT ![f] =
                      IF off = {} THEN b ELSE [b EXCEPT !.types = o.types \ off]]
        /\ ClearBits(Bits(f, off))
        /\ UNCHANGED listed

ManagerRemove(f) ==
    LET ts == {t \in Types : <<f, t>> \in listed}
    IN  /\ listed' = listed \ ({f} \X ts)
        /\ ClearBits(Bits(f, ts))

\* Mutant of RunLoopSchedule: the types enabled so far count as enabled.
ScheduleUnforced(f, o, b, l) ==
    LET s == [b EXCEPT !.loops = @ \cup {l}, !.rloops = Append(o.rloops, l),
                       !.setCount = @ + 1]
    IN  /\ EnableCallBacks(f, s, s, s.types, FALSE)
        /\ mgr' = IF o.state = "valid" THEN Replaced(f) ELSE mgr

\* The schedule callback of the source, which run loop l now has.
RunLoopSchedule(f, o, b, l) ==
    LET s == [b EXCEPT !.loops = @ \cup {l}, !.rloops = Append(o.rloops, l),
                       !.setCount = @ + 1]
    IN  CASE o.state # "valid" ->
               /\ obj' = [obj EXCEPT ![f].loops = @ \cup {l}]
               /\ UNCHANGED <<sets, mgr>>
          [] o.state = "valid" /\ s.setCount = 1 ->
               EnableCallBacks(f, s, s, s.types, TRUE) /\ mgr' = Replaced(f)
          [] OTHER ->
               /\ obj' = [obj EXCEPT ![f] = s] /\ mgr' = Replaced(f)
               /\ UNCHANGED sets

\* The cancel callback.  The run loop is taken out of the array that is
\* released, and stays in the object's copy.
RunLoopCancel(f, o, b, l) ==
    /\ obj' = [obj EXCEPT ![f] = [b EXCEPT
         !.loops = @ \ {l}, !.rloops = o.rloops, !.setCount = @ - 1]]
    /\ IF obj'[f].setCount = 0 THEN ManagerRemove(f) ELSE UNCHANGED sets
    /\ mgr' = Replaced(f)

\* Invalidate_Retained up to the point where it gives the object's lock back
\* (the map's lock is kept).
InvalidateLocked(f, who) ==
    /\ mapLock = Unlocked /\ IsValid(f)
    /\ ManagerRemove(f)
    /\ obj' = [obj EXCEPT ![f].state = "invalid", ![f].signaled = {},
                          ![f].setCount = 0, ![f].rloops = <<>>]
    /\ open' = IF f \in CloseOnInvalidate THEN open \ {NativeOf[f]} ELSE open
    /\ loop' = WakeUp({obj[f].rloops[i] : i \in DOMAIN obj[f].rloops})
    /\ mapLock' = [f |-> f, by |-> who]

\* The rest: CFRunLoopSourceInvalidate takes the source off every run loop,
\* which cancels it there once more each.
InvalidateSource(who) ==
    LET f == mapLock.f
    IN  /\ f # None /\ mapLock.by = who
        /\ obj' = [obj EXCEPT ![f].setCount = @ - Cardinality(obj[f].loops),
                              ![f].loops = {}, ![f].source = FALSE,
                              ![f].pending = FALSE]
        /\ mapLock' = Unlocked
        /\ UNCHANGED <<sets, loop, open>>

-----------------------------------------------------------------------------
(***************************************************************************)
(* Clients, from any thread, callouts included.                            *)
(***************************************************************************)
Create(f) ==
    /\ obj[f].state = "absent" /\ mapLock = Unlocked
    /\ \A g \in Object : IsValid(g) => NativeOf[g] # NativeOf[f]
    /\ open' = open \cup {NativeOf[f]}
    /\ obj' = [obj EXCEPT ![f].state = "valid"]
    /\ UNCHANGED <<sets, mapLock, mgr, loop>>

CreateRunLoopSource(f) ==
    /\ IsValid(f) /\ ~obj[f].source
    /\ obj' = [obj EXCEPT ![f].source = TRUE]
    /\ UNCHANGED <<sets, mapLock, mgr, loop, open>>

Enable(f, ts) ==
    /\ IsValid(f) /\ pipe <= ClientPipe
    /\ EnableCallBacks(f, obj[f], obj[f], ts, TRUE)
    /\ UNCHANGED <<mapLock, mgr, loop, open>>

Disable(f, ts) ==
    /\ IsValid(f) /\ pipe <= ClientPipe
    /\ DisableCallBacks(f, obj[f], obj[f], ts)
    /\ UNCHANGED <<mapLock, mgr, loop, open>>

\* CFRunLoopAddSource and the schedule callback it makes.
Schedule(f, l) ==
    /\ obj[f].source /\ l \notin obj[f].loops
    /\ Len(obj[f].rloops) < MaxSchedules /\ pipe <= ClientPipe
    /\ RunLoopSchedule(f, obj[f], obj[f], l)
    /\ UNCHANGED <<mapLock, loop, open>>

\* CFRunLoopRemoveSource and the cancel callback it makes.
Cancel(f, l) ==
    /\ l \in obj[f].loops /\ IsValid(f) /\ pipe <= ClientPipe
    /\ RunLoopCancel(f, obj[f], obj[f], l)
    /\ UNCHANGED <<mapLock, loop, open>>

Invalidate(f) ==
    /\ pipe <= ClientPipe
    /\ InvalidateLocked(f, "client") /\ mgr' = Replaced(f)

FinishInvalidate == InvalidateSource("client") /\ UNCHANGED mgr

\* A client closes the native descriptor of an object that is still valid.
Close(n) ==
    /\ n \in open
    /\ open' = open \ {n}
    /\ UNCHANGED <<obj, sets, mapLock, mgr, loop>>

Client ==
    \/ \E f \in Object :
        \/ Create(f) \/ CreateRunLoopSource(f) \/ Invalidate(f)
        \/ \E ts \in SUBSET Types \ {{}} : Enable(f, ts) \/ Disable(f, ts)
        \/ \E l \in Loop : Schedule(f, l) \/ Cancel(f, l)
    \/ FinishInvalidate
    \/ \E n \in Native : Close(n)

-----------------------------------------------------------------------------
(***************************************************************************)
(* The manager thread.                                                     *)
(***************************************************************************)
PrepareWatches ==
    /\ mgr.at = "prepare"
    /\ mgr' = [mgr EXCEPT !.at = "select", !.watch = fds]
    /\ UNCHANGED <<obj, sets, mapLock, loop, open>>

\* select() waits without a timeout for a watched descriptor or the pipe;
\* hits is what happens to be ready.
Select(hits) ==
    /\ mgr.at = "select" /\ (hits # {} \/ pipe > 0)
    /\ hits \subseteq {b \in mgr.watch : b[1] \in open}
    /\ mgr' = [Fresh EXCEPT !.at = "process", !.hits = hits,
                            !.woken = pipe > 0]
    /\ UNCHANGED <<obj, sets, mapLock, loop, open>>

\* EBADF: the sets stay as they were passed, so that everything watched, the
\* pipe included, will be taken for ready.  The objects whose descriptors are
\* closed are found under the active lock ...
SelectError ==
    /\ mgr.at = "select" /\ \E b \in mgr.watch : b[1] \notin open
    /\ mgr' = [Fresh EXCEPT
         !.at = "invalidate", !.hits = mgr.watch, !.woken = TRUE,
         !.bad = {f \in Object : NativeOf[f] \notin open /\
                                 \E t \in Types : <<f, t>> \in listed}]
    /\ UNCHANGED <<obj, sets, mapLock, loop, open>>

\* ... and invalidated one by one.
InvalidateBad ==
    /\ mgr.at = "invalidate" /\ mapLock.by # "manager"
    /\ \E f \in mgr.bad :
        /\ mgr' = [mgr EXCEPT !.bad = @ \ {f}]
        /\ \/ InvalidateLocked(f, "manager")
           \/ /\ ~IsValid(f) /\ mapLock = Unlocked
              /\ UNCHANGED <<obj, sets, mapLock, loop, open>>

FinishInvalidateBad == InvalidateSource("manager") /\ UNCHANGED mgr

InvalidateDone ==
    /\ mgr.at = "invalidate" /\ mgr.bad = {} /\ mapLock.by # "manager"
    /\ mgr' = [mgr EXCEPT !.at = "process"]
    /\ UNCHANGED <<obj, sets, mapLock, loop, open>>

\* Mutant of ProcessState: the pipe is read whether or not it was reported.
ProcessUnreported ==
    /\ mgr.at = "process" /\ pipe' = pipe - ReadMax
    /\ mgr' = [mgr EXCEPT !.at = "collect"]
    /\ UNCHANGED <<obj, fds, listed, mapLock, loop, open>>

\* ProcessState reads the pipe, and would spin on EAGAIN if it were empty.
ProcessState ==
    /\ mgr.at = "process" /\ (mgr.woken => pipe > 0)
    /\ pipe' = IF ~mgr.woken THEN pipe
               ELSE IF pipe <= ReadMax THEN 0 ELSE pipe - ReadMax
    /\ mgr' = [mgr EXCEPT !.at = "collect"]
    /\ UNCHANGED <<obj, fds, listed, mapLock, loop, open>>

\* HandleReadyDescriptors under the active lock: what was hit is taken out of
\* the sets, without a byte in the pipe.
HandleReadyDescriptors ==
    LET sel == {p \in listed : <<NativeOf[p[1]], p[2]>> \in mgr.hits}
    IN  /\ mgr.at = "collect"
        /\ fds' = fds \ {<<NativeOf[p[1]], p[2]>> : p \in sel}
        /\ mgr' = [Fresh EXCEPT !.at = "handle", !.sel = sel]
        /\ UNCHANGED <<obj, listed, pipe, mapLock, loop, open>>

\* HandleWrite for the selected writes, then HandleRead for the reads, up to
\* the point where the object's lock is given back for the first time.
Handle ==
    /\ mgr.at = "handle" /\ mgr.cur = None
    /\ \E p \in mgr.sel :
        LET f == p[1]
            t == p[2]
            o == obj[f]
            m == [mgr EXCEPT !.sel = @ \ {p}]
        IN  /\ t = "write" \/ \A q \in mgr.sel : q[2] = "read"
            /\ IF o.state # "valid" \/ t \notin o.types
               THEN mgr' = m /\ UNCHANGED obj
               ELSE /\ obj' = [obj EXCEPT ![f].signaled = @ \cup {t},
                                          ![f].pending = o.source]
                    /\ mgr' = [m EXCEPT !.cur = f, !.same = TRUE,
                         !.reading = t = "read",
                         !.copy = IF o.source THEN o.rloops ELSE <<>>]
    /\ UNCHANGED <<sets, mapLock, loop, open>>

\* The index that CopyRunLoopToWakeUp picks in the array rs.
PickedIndex(f, rs) ==
    LET contains == {i \in DOMAIN rs : rs[i] \in obj[f].loops}
        waiting  == {i \in contains : ~loop[rs[i]].awake}
        First(S) == CHOOSE i \in S : \A j \in S : i <= j
    IN  IF waiting # {} THEN First(waiting)
        ELSE IF contains # {} THEN First(contains) ELSE 1

\* The rest of SignalSourceAndWakeupRunLoops: one run loop is woken, and goes
\* to the end of the object's array if that is still the one copied.
WakeupRunLoops ==
    LET f == mgr.cur
        rs == mgr.copy
        different == \E i, j \in DOMAIN rs : rs[i] # rs[j]
        i == PickedIndex(f, rs)
        rotated == SubSeq(rs, 1, i - 1) \o SubSeq(rs, i + 1, Len(rs))
                   \o <<rs[i]>>
    IN  /\ mgr.at = "handle" /\ f # None
        /\ IF rs # <<>>
           THEN loop' = WakeUp({IF different THEN rs[i] ELSE rs[1]})
           ELSE UNCHANGED loop
        /\ IF different /\ mgr.same
           THEN obj' = [obj EXCEPT ![f].rloops = rotated]
           ELSE UNCHANGED obj
        /\ mgr' = [mgr EXCEPT
             !.at = IF mgr.reading THEN "unlock" ELSE "handle",
             !.cur = IF mgr.reading THEN f ELSE None,
             !.copy = <<>>, !.same = FALSE, !.reading = FALSE]
        /\ UNCHANGED <<sets, mapLock, open>>

\* Who may be inside a section of f's lock: a client, or a run loop between
\* its call of perform and the end of it.
Inside(f) ==
    {p \in {"client"} : IsValid(f) /\ pipe <= ClientPipe} \cup
    {l \in Loop : loop[l].f = f /\ loop[l].at \in {"perform", "callout"}}

\* HandleRead unlocks the object that SignalSourceAndWakeupRunLoops has
\* unlocked already.  Nothing happens if nobody has locked it since; if p has,
\* which by now has read the object, its lock is free for others.
UnlockAgain ==
    LET f == mgr.cur
    IN  /\ mgr.at = "unlock"
        /\ mgr' = [mgr EXCEPT !.at = "handle", !.cur = None]
        /\ \/ PassTime
           \/ /\ ~torn /\ torn' = TRUE
              /\ \E p \in Inside(f) :
                    late' = [f |-> f, by |-> p, o |-> obj[f],
                             room |-> MaxOverlap]
        /\ UNCHANGED <<obj, sets, mapLock, loop, open>>

HandleDone ==
    /\ mgr.at = "handle" /\ mgr.cur = None /\ mgr.sel = {}
    /\ mgr' = Fresh
    /\ UNCHANGED <<obj, sets, mapLock, loop, open>>

Manager ==
    \/ PrepareWatches
    \/ \E hits \in SUBSET mgr.watch : Select(hits)
    \/ SelectError \/ InvalidateBad
    \/ FinishInvalidateBad \/ InvalidateDone \/ ProcessState
    \/ HandleReadyDescriptors \/ Handle \/ WakeupRunLoops \/ HandleDone

-----------------------------------------------------------------------------
(***************************************************************************)
(* A run loop: it sleeps when none of its sources is signalled, and        *)
(* performs those that are.                                                *)
(***************************************************************************)
Sleep(l) ==
    /\ loop[l] = Resting(TRUE)
    /\ \A f \in Object : l \in obj[f].loops => ~obj[f].pending
    /\ loop' = [loop EXCEPT ![l] = Resting(FALSE)]
    /\ UNCHANGED <<obj, sets, mapLock, mgr, open>>

\* __CFRunLoopDoSources0 collects a signalled source and lets its locks go ...
CollectSource(l) ==
    /\ loop[l] = Resting(TRUE)
    /\ \E f \in Object :
        /\ l \in obj[f].loops /\ obj[f].pending
        /\ loop' = [loop EXCEPT ![l].at = "collected", ![l].f = f]
    /\ UNCHANGED <<obj, sets, mapLock, mgr, open>>

\* ... and performs it if it still is valid and signalled.
DoSource0(l) ==
    LET f == loop[l].f
    IN  /\ loop[l].at = "collected"
        /\ obj' = [obj EXCEPT ![f].pending = FALSE]
        /\ loop' = [loop EXCEPT ![l] =
             IF obj[f].pending /\ obj[f].source
             THEN [@ EXCEPT !.at = "perform"] ELSE Resting(TRUE)]
        /\ UNCHANGED <<sets, mapLock, mgr, open>>

\* RunLoopPerform and DoCallBack under the object's lock.
RunLoopPerform(l, o, b) ==
    LET f == loop[l].f
    IN  /\ loop[l].at = "perform"
        /\ IF o.state # "valid"
           THEN loop' = [loop EXCEPT ![l] = Resting(TRUE)] /\ UNCHANGED obj
           ELSE /\ loop' = [loop EXCEPT ![l].at = "callout",
                              ![l].sig = o.signaled,
                              ![l].todo = o.signaled \cap o.types]
                /\ obj' = [obj EXCEPT ![f] = [b EXCEPT !.signaled = {}]]
        /\ UNCHANGED <<sets, mapLock, mgr, open>>

\* One callout, reads first; the type is disabled before it.  After a first
\* callout the object must still be valid.
DoCallBack(l, t, o, b) ==
    /\ loop[l].at = "callout" /\ t \in loop[l].todo
    /\ t = "read" \/ "read" \notin loop[l].todo
    /\ ~loop[l].out \/ o.state = "valid"
    /\ DisableCallBacks(loop[l].f, o, b, {t})
    /\ loop' = [loop EXCEPT ![l].todo = @ \ {t}, ![l].out = TRUE]
    /\ UNCHANGED <<mapLock, mgr, open>>

\* DoCallBack is through; perform enables again, without force, what was
\* signalled and is enabled.  The enabled types are read a second time there.
PerformDone(l, o) ==
    LET f == loop[l].f
    IN  /\ loop[l].at = "callout"
        /\ loop[l].todo = {} \/ (loop[l].out /\ o.state # "valid")
        /\ EnableCallBacks(f, obj[f], obj[f], loop[l].sig \cap o.types, FALSE)
        /\ loop' = [loop EXCEPT ![l] = Resting(TRUE)]
        /\ UNCHANGED <<mapLock, mgr, open>>

\* What a run loop does under the lock of the object it performs.
PerformStep(l, o, b) ==
    \/ RunLoopPerform(l, o, b) \/ PerformDone(l, o)
    \/ \E t \in Types : DoCallBack(l, t, o, b)

LoopStep(l) ==
    \/ Sleep(l) \/ CollectSource(l) \/ DoSource0(l)
    \/ PerformStep(l, obj[loop[l].f], obj[loop[l].f])

-----------------------------------------------------------------------------
(***************************************************************************)
(* A section whose lock was freed under it.                                *)
(***************************************************************************)
\* The object with what its lock protects as the section read it.
AsRead(f, o) == [obj[f] EXCEPT !.state = o.state, !.types = o.types,
    !.signaled = o.signaled, !.setCount = o.setCount, !.rloops = o.rloops]

\* It decides by what it read.  A field that is updated in place (the state,
\* the types and the signals share a byte) was read before, or is read now.
LateSection ==
    LET f == late.f
        o == late.o
    IN  /\ late # Nobody /\ late' = Nobody /\ UNCHANGED torn
        /\ \E b \in {obj[f], AsRead(f, o)} :
            \/ late.by \in Loop /\ PerformStep(late.by, o, b)
            \/ /\ late.by = "client" /\ UNCHANGED <<mapLock, loop, open>>
               /\ \/ \E ts \in SUBSET Types \ {{}} :
                        /\ \/ EnableCallBacks(f, o, b, ts, TRUE)
                           \/ DisableCallBacks(f, o, b, ts)
                        /\ UNCHANGED mgr
                  \/ \E l \in obj[f].loops : RunLoopCancel(f, o, b, l)
                  \/ /\ obj[f].source /\ Len(o.rloops) < MaxSchedules
                     /\ \E l \in Loop \ obj[f].loops :
                            RunLoopSchedule(f, o, b, l)

Next ==
    \/ Client /\ PassTime
    \/ Manager /\ PassTime
    \/ UnlockAgain
    \/ \E l \in Loop \ {late.by} : LoopStep(l) /\ PassTime
    \/ LateSection

Spec == Init /\ [][Next]_vars

-----------------------------------------------------------------------------
ObjectOK(o) ==
    /\ o.state \in {"absent", "valid", "invalid"}
    /\ o.types \subseteq Types /\ o.signaled \subseteq Types
    /\ o.setCount \in Int /\ o.rloops \in Seq(Loop)
    /\ o.source \in BOOLEAN /\ o.pending \in BOOLEAN
    /\ o.loops \subseteq Loop

TypeOK ==
    /\ \A f \in Object : ObjectOK(obj[f])
    /\ fds \subseteq Native \X Types /\ listed \subseteq Object \X Types
    /\ pipe \in Nat
    /\ mapLock \in [f : Object \cup {None}, by : {"client", "manager"}]
    /\ mgr.at \in {"prepare", "select", "invalidate", "process", "collect",
                   "handle", "unlock"}
    /\ mgr.watch \subseteq Native \X Types /\ mgr.hits \subseteq Native \X Types
    /\ mgr.sel \subseteq Object \X Types /\ mgr.bad \subseteq Object
    /\ mgr.cur \in Object \cup {None} /\ mgr.copy \in Seq(Loop)
    /\ mgr.woken \in BOOLEAN /\ mgr.same \in BOOLEAN
    /\ mgr.reading \in BOOLEAN
    /\ \A l \in Loop :
        /\ loop[l].at \in {"none", "collected", "perform", "callout"}
        /\ loop[l].f \in Object \cup {None}
        /\ loop[l].sig \subseteq Types /\ loop[l].todo \subseteq loop[l].sig
        /\ loop[l].awake \in BOOLEAN /\ loop[l].out \in BOOLEAN
    /\ open \subseteq Native
    /\ late.f \in Object \cup {None} /\ ObjectOK(late.o)
    /\ late.by \in Loop \cup {"client", None} /\ late.room \in Nat
    /\ torn \in BOOLEAN

\* Type t of f is enabled, and f is scheduled on a run loop.
Armed(f, t) == IsValid(f) /\ IsScheduled(obj[f]) /\ t \in obj[f].types

\* An armed type is never forgotten: the manager watches the descriptor, or
\* holds it as selected, or has signalled it and the source still is to be
\* performed, or a call of perform is about to make the callout.  The manager
\* takes a descriptor out of its set without a lock on the object, and only
\* the callout's re-enabling would put it back.
NothingLost ==
    \A f \in Object, t \in Types : Armed(f, t) =>
        \/ <<NativeOf[f], t>> \in fds
        \/ <<f, t>> \in mgr.sel
        \/ /\ t \in obj[f].signaled
           /\ obj[f].pending \/ \E l \in Loop :
                                   loop[l].f = f /\ loop[l].at = "perform"
        \/ \E l \in Loop : loop[l].f = f /\ t \in loop[l].todo

\* A bit in the manager's sets belongs to one object that wants it: nothing
\* is watched for an object that was disabled, cancelled or invalidated, even
\* when its number was given out again.
WatchedIsArmed ==
    \A b \in fds : \E f \in Object :
        /\ NativeOf[f] = b[1] /\ Armed(f, b[2]) /\ <<f, b[2]>> \in listed

\* When select() failed and the sets name the pipe as ready, a byte is there:
\* the manager does not spin in ProcessState reading an empty pipe.
ManagerNeverSpins == mgr.at = "process" /\ mgr.woken => pipe > 0

\* HandleRead's second unlock is the only thing that can make the manager
\* and the run loops forget an armed type between them.
LostOnlyByDoubleUnlock == ~torn => NothingLost

\* ... and the only thing that can leave a bit in the manager's sets that
\* nobody wants ...
StrayOnlyByDoubleUnlock == ~torn => WatchedIsArmed

\* ... and the only thing that can make the manager spin after EBADF.
SpinsOnlyByDoubleUnlock == ~torn => ManagerNeverSpins
=============================================================================
