----------------------- MODULE CFFileDescriptorProofs -----------------------
(***************************************************************************)
(* Theorems about CFFileDescriptor and its manager thread, for any number  *)
(* of objects, native descriptors, run loops and bytes in the pipe: as     *)
(* long as the second unlock of HandleRead frees no lock under a section,  *)
(* an armed type is not forgotten, nothing is watched that is not armed,   *)
(* and the manager does not read an empty pipe.                            *)
(***************************************************************************)
EXTENDS CFFileDescriptor, FiniteSetTheorems, SequenceTheorems, WellFoundedInduction, TLAPS

FileDescriptor ==
    [state : {"absent", "valid", "invalid"}, types : SUBSET Types,
     signaled : SUBSET Types, setCount : Int, rloops : Seq(Loop),
     source : BOOLEAN, pending : BOOLEAN,
     loops : {S \in SUBSET Loop : IsFiniteSet(S)}]

ManagerState ==
    [at : {"prepare", "select", "invalidate", "process", "collect", "handle",
           "unlock"},
     watch : SUBSET (Native \X Types), hits : SUBSET (Native \X Types),
     woken : BOOLEAN, bad : SUBSET Object, sel : SUBSET (Object \X Types),
     cur : Object \cup {None}, copy : Seq(Loop), same : BOOLEAN,
     reading : BOOLEAN]

LoopState ==
    [awake : BOOLEAN, at : {"none", "collected", "perform", "callout"},
     f : Object \cup {None}, sig : SUBSET Types, todo : SUBSET Types,
     out : BOOLEAN]

Shape ==
    /\ obj \in [Object -> FileDescriptor]
    /\ fds \subseteq Native \X Types /\ listed \subseteq Object \X Types
    /\ pipe \in Nat
    /\ mapLock \in [f : Object \cup {None}, by : {"client", "manager"}]
    /\ mgr \in ManagerState
    /\ loop \in [Loop -> LoopState]
    /\ \A l \in Loop : /\ loop[l].at # "none" => loop[l].f \in Object
                       /\ loop[l].todo \subseteq loop[l].sig
    /\ open \subseteq Native

\* A number belongs to one valid object at a time, and only valid objects are
\* in the manager's lists, scheduled with a source, or not being invalidated.
Owned ==
    /\ \A f, g \in Object :
          IsValid(f) /\ IsValid(g) /\ NativeOf[f] = NativeOf[g] => f = g
    /\ \A f \in Object, t \in Types : <<f, t>> \in listed => IsValid(f)
    /\ \A f \in Object :
          /\ obj[f].state = "absent" => obj[f].setCount = 0 /\ ~obj[f].source
          /\ IsValid(f) /\ IsScheduled(obj[f]) => obj[f].source
    /\ mapLock.f # None => obj[mapLock.f].state = "invalid"

\* Selections and callouts to make are kept in their phases only.
Phased ==
    /\ mgr.at \notin {"handle", "unlock"} => mgr.sel = {}
    /\ \A l \in Loop : loop[l].at # "callout" => loop[l].todo = {}

\* What select was given is still in the sets, or the pipe has a byte; when it
\* failed, the pipe has one or one of the objects that will be invalidated has
\* a bit to clear.
NoSpin ==
    /\ mgr.at = "select" => mgr.watch \subseteq fds \/ pipe > 0
    /\ mgr.at = "invalidate" =>
          pipe > 0 \/ \E f \in mgr.bad, t \in Types :
                         <<f, t>> \in listed /\ <<NativeOf[f], t>> \in fds
    /\ ManagerNeverSpins

\* The manager or a run loop is at work on type t of f.
Noticed(f, t) ==
    \/ <<f, t>> \in mgr.sel
    \/ /\ t \in obj[f].signaled
       /\ obj[f].pending \/ \E l \in Loop : loop[l].f = f /\ loop[l].at = "perform"
    \/ \E l \in Loop : loop[l].f = f /\ t \in loop[l].todo

DescriptorInv == Shape /\ Owned /\ Phased /\ WatchedIsArmed /\ NothingLost /\ NoSpin

-----------------------------------------------------------------------------
\* A set of naturals that is not empty has a least element.
LEMMA LeastElement ==
  ASSUME NEW S \in SUBSET Nat, S # {}
  PROVE  \E m \in S : \A x \in S : m <= x
<1> DEFINE R == OpToRel(<, Nat)
<1>1. IsWellFoundedOn(R, Nat)
  BY NatLessThanWellFounded
<1>2. \A x, y \in Nat : x < y => <<x, y>> \in R
  BY DEF OpToRel
<1> HIDE DEF R
<1>3. PICK m \in S : \A x \in S : ~(<<x, m>> \in R)
  BY <1>1, WFMin
<1>4. ASSUME NEW x \in S PROVE m <= x
  <2>1. x \in Nat /\ m \in Nat
    OBVIOUS
  <2>2. ~(x < m)
    BY <1>2, <1>3, <2>1
  <2> QED BY <2>1, <2>2
<1> QED BY <1>4

\* A few bits are finitely many.
LEMMA BitsAreFinite ==
  ASSUME NEW n, NEW ts \in SUBSET Types, NEW bs \in SUBSET ({n} \X ts)
  PROVE  IsFiniteSet(bs) /\ Cardinality(bs) \in Nat /\ (bs # {} => Cardinality(bs) > 0)
<1>1. IsFiniteSet({<<n, "read">>} \cup {<<n, "write">>})
  <2>1. IsFiniteSet({<<n, "read">>})
    BY FS_Singleton
  <2> QED BY <2>1, FS_AddElement
<1>2. bs \subseteq {<<n, "read">>} \cup {<<n, "write">>}
  <2> SUFFICES ASSUME NEW b \in bs PROVE b = <<n, "read">> \/ b = <<n, "write">>
    OBVIOUS
  <2>1. b = <<b[1], b[2]>> /\ b[1] = n /\ b[2] \in Types
    OBVIOUS
  <2> QED BY <2>1, TypesAssumption
<1>3. IsFiniteSet(bs)
  BY <1>1, <1>2, FS_Subset
<1> QED BY <1>3, FS_CardinalityType, FS_EmptySet

\* Setting bits.
LEMMA SetEffect ==
  ASSUME Shape, NEW f \in Object, NEW ts \in SUBSET Types, SetBits(Bits(f, ts))
  PROVE  /\ fds' = fds \cup ({NativeOf[f]} \X ts) /\ fds' \subseteq Native \X Types
         /\ pipe' \in Nat /\ pipe' >= pipe
<1>1. Bits(f, ts) \ fds \in SUBSET ({NativeOf[f]} \X ts)
  BY DEF Bits
<1>2. Cardinality(Bits(f, ts) \ fds) \in Nat
  BY <1>1, BitsAreFinite
<1>3. fds' = fds \cup ({NativeOf[f]} \X ts) /\ pipe' = pipe + Cardinality(Bits(f, ts) \ fds)
  BY DEF SetBits, Bits
<1> QED BY <1>2, <1>3, NativeAssumption DEF Shape

\* Clearing bits.
LEMMA ClearEffect ==
  ASSUME Shape, NEW f \in Object, NEW ts \in SUBSET Types, ClearBits(Bits(f, ts))
  PROVE  /\ fds' = fds \ ({NativeOf[f]} \X ts) /\ fds' \subseteq Native \X Types
         /\ pipe' \in Nat /\ pipe' >= pipe
         /\ fds \subseteq fds' \/ pipe' > 0
<1>1. Bits(f, ts) \cap fds \in SUBSET ({NativeOf[f]} \X ts)
  BY DEF Bits
<1>2. /\ Cardinality(Bits(f, ts) \cap fds) \in Nat
      /\ Bits(f, ts) \cap fds # {} => Cardinality(Bits(f, ts) \cap fds) > 0
  BY <1>1, BitsAreFinite
<1>3. /\ fds' = fds \ Bits(f, ts) /\ pipe' = pipe + Cardinality(Bits(f, ts) \cap fds)
      /\ Bits(f, ts) = {NativeOf[f]} \X ts
  BY DEF ClearBits, Bits
<1>4. pipe' \in Nat /\ pipe' >= pipe /\ (Bits(f, ts) \cap fds # {} => pipe' > 0)
  BY <1>2, <1>3 DEF Shape
<1>5. Bits(f, ts) \cap fds = {} => fds \subseteq fds'
  BY <1>3
<1> QED BY <1>3, <1>4, <1>5 DEF Shape

\* EnableCallBacks with force.
LEMMA EnableEffect ==
  ASSUME Shape, NEW f \in Object, NEW o \in FileDescriptor, NEW ts \in SUBSET Types,
         EnableCallBacks(f, o, o, ts, TRUE)
  PROVE  /\ obj' = [obj EXCEPT ![f] = [o EXCEPT !.types = @ \cup ts]]
         /\ o.state = "valid" /\ IsScheduled(o) =>
               /\ fds' = fds \cup ({NativeOf[f]} \X ts)
               /\ listed' = listed \cup ({f} \X ts)
         /\ ~(o.state = "valid" /\ IsScheduled(o)) => fds' = fds /\ listed' = listed
         /\ fds' \subseteq Native \X Types /\ listed' \subseteq Object \X Types
         /\ pipe' \in Nat /\ pipe' >= pipe
<1> DEFINE add == IF o.state = "valid" /\ IsScheduled(o) THEN ts ELSE {}
<1>1. /\ obj' = [obj EXCEPT ![f] = [o EXCEPT !.types = @ \cup ts]]
      /\ listed' = listed \cup ({f} \X add) /\ SetBits(Bits(f, add))
      /\ add \in SUBSET Types
  <2>1. /\ obj' = [obj EXCEPT ![f] = IF ts = {} THEN o
                                     ELSE [o EXCEPT !.types = o.types \cup ts]]
        /\ listed' = listed \cup ({f} \X add) /\ SetBits(Bits(f, add))
    BY DEF EnableCallBacks
  <2>2. o = [o EXCEPT !.types = @ \cup {}]
    BY DEF FileDescriptor
  <2> QED BY <2>1, <2>2
<1> HIDE DEF add
<1>2. /\ fds' = fds \cup ({NativeOf[f]} \X add) /\ fds' \subseteq Native \X Types
      /\ pipe' \in Nat /\ pipe' >= pipe
  BY <1>1, SetEffect
<1>3. listed' \subseteq Object \X Types
  BY <1>1 DEF Shape
<1>4. \A x : {x} \X {} = {}
  OBVIOUS
<1> QED BY <1>1, <1>2, <1>3, <1>4 DEF add

\* DisableCallBacks.
LEMMA DisableEffect ==
  ASSUME Shape, NEW f \in Object, NEW ts \in SUBSET Types,
         DisableCallBacks(f, obj[f], obj[f], ts)
  PROVE  \E off \in SUBSET Types :
           /\ off = IF IsValid(f) /\ IsScheduled(obj[f]) THEN ts \cap obj[f].types ELSE {}
           /\ obj' = [obj EXCEPT ![f].types = @ \ off]
           /\ fds' = fds \ ({NativeOf[f]} \X off) /\ fds' \subseteq Native \X Types
           /\ listed' = listed
           /\ pipe' \in Nat /\ pipe' >= pipe
           /\ fds \subseteq fds' \/ pipe' > 0
<1> DEFINE off == IF IsValid(f) /\ IsScheduled(obj[f]) THEN ts \cap obj[f].types ELSE {}
<1>1. /\ obj' = [obj EXCEPT ![f].types = @ \ off] /\ listed' = listed
      /\ ClearBits(Bits(f, off)) /\ off \in SUBSET Types
  <2> DEFINE o == obj[f]
  <2>1. /\ obj' = [obj EXCEPT ![f] = IF off = {} THEN o
                                     ELSE [o EXCEPT !.types = @ \ off]]
        /\ listed' = listed /\ ClearBits(Bits(f, off))
    BY DEF DisableCallBacks, IsValid
  <2>2. o \in FileDescriptor
    BY DEF Shape
  <2> HIDE DEF off, o
  <2>3. o = [o EXCEPT !.types = @ \ {}]
    BY <2>2 DEF FileDescriptor
  <2>4. obj' = [obj EXCEPT ![f] = [o EXCEPT !.types = @ \ off]]
    BY <2>1, <2>3
  <2> QED BY <2>1, <2>4 DEF o, off
<1>2. off = IF IsValid(f) /\ IsScheduled(obj[f]) THEN ts \cap obj[f].types ELSE {}
  OBVIOUS
<1> HIDE DEF off
<1> QED BY <1>1, <1>2, ClearEffect

\* __CFFileDescriptorManagerRemove.
LEMMA RemoveEffect ==
  ASSUME Shape, NEW f \in Object, ManagerRemove(f)
  PROVE  /\ \A g \in Object, t \in Types :
              <<g, t>> \in listed' <=> <<g, t>> \in listed /\ g # f
         /\ \A b \in fds : b \in fds' <=> ~(b[1] = NativeOf[f] /\ <<f, b[2]>> \in listed)
         /\ fds' \subseteq fds /\ fds' \subseteq Native \X Types
         /\ listed' \subseteq Object \X Types
         /\ pipe' \in Nat /\ pipe' >= pipe
         /\ fds \subseteq fds' \/ pipe' > 0
<1> DEFINE ts == {t \in Types : <<f, t>> \in listed}
<1>1. listed' = listed \ ({f} \X ts) /\ ClearBits(Bits(f, ts)) /\ ts \in SUBSET Types
  BY DEF ManagerRemove
<1>2. \A t : t \in ts <=> t \in Types /\ <<f, t>> \in listed
  OBVIOUS
<1> HIDE DEF ts
<1>3. /\ fds' = fds \ ({NativeOf[f]} \X ts) /\ fds' \subseteq Native \X Types
      /\ pipe' \in Nat /\ pipe' >= pipe
      /\ fds \subseteq fds' \/ pipe' > 0
  BY <1>1, ClearEffect
<1>4. \A g \in Object, t \in Types : <<g, t>> \in listed' <=> <<g, t>> \in listed /\ g # f
  BY <1>1, <1>2
<1>5. \A b \in fds : b \in fds' <=> ~(b[1] = NativeOf[f] /\ <<f, b[2]>> \in listed)
  BY <1>2, <1>3 DEF Shape
<1> QED BY <1>1, <1>3, <1>4, <1>5 DEF Shape

\* A state or a source for an object.
LEMMA ObjectFields ==
  /\ \A o \in FileDescriptor : [o EXCEPT !.state = "valid"] \in FileDescriptor
  /\ \A o \in FileDescriptor : [o EXCEPT !.source = TRUE] \in FileDescriptor
<1>1. \A o \in FileDescriptor : [o EXCEPT !.state = "valid"] \in FileDescriptor
  BY DEF FileDescriptor
<1>2. \A o \in FileDescriptor : [o EXCEPT !.source = TRUE] \in FileDescriptor
  BY DEF FileDescriptor
<1> QED BY <1>1, <1>2

\* One object changes.
LEMMA ObjectSet ==
  ASSUME Shape, NEW f \in Object, NEW o \in FileDescriptor, obj' = [obj EXCEPT ![f] = o]
  PROVE  /\ obj' \in [Object -> FileDescriptor] /\ obj'[f] = o
         /\ \A g \in Object : obj'[g] = IF g = f THEN o ELSE obj[g]
  BY DEF Shape

\* As long as no bit is cleared without a byte, the manager does not spin.
LEMMA NoSpinKept ==
  ASSUME NoSpin, pipe \in Nat, pipe' \in Nat, pipe' >= pipe,
         (fds \subseteq fds' /\ listed \subseteq listed') \/ pipe' > 0,
         mgr'.at = mgr.at, mgr'.watch = mgr.watch, mgr'.woken = mgr.woken,
         mgr.bad \subseteq mgr'.bad
  PROVE  NoSpin'
<1>1. pipe > 0 => pipe' > 0
  OBVIOUS
<1>2. CASE pipe' > 0
  BY <1>2 DEF NoSpin, ManagerNeverSpins
<1>3. CASE ~(pipe' > 0) /\ fds \subseteq fds' /\ listed \subseteq listed'
  BY <1>1, <1>3 DEF NoSpin, ManagerNeverSpins
<1> QED BY <1>2, <1>3

-----------------------------------------------------------------------------
\* The initial state.
LEMMA InitInv == Init => DescriptorInv
<1> SUFFICES ASSUME Init PROVE DescriptorInv
  OBVIOUS
<1>1. Absent \in FileDescriptor /\ Fresh \in ManagerState /\ Resting(TRUE) \in LoopState
  BY FS_EmptySet DEF Absent, Fresh, Resting, FileDescriptor, ManagerState, LoopState
<1>2. /\ Absent.state = "absent" /\ Absent.setCount = 0 /\ ~Absent.source
      /\ Fresh.at = "prepare" /\ Fresh.sel = {}
      /\ Resting(TRUE).at = "none" /\ Resting(TRUE).todo = {}
  BY DEF Absent, Fresh, Resting
<1> USE DEF Init
<1>3. Shape
  BY <1>1, <1>2 DEF Shape, Unlocked
<1>4. Owned /\ Phased
  BY <1>2 DEF Owned, Phased, IsValid, Unlocked
<1>5. WatchedIsArmed /\ NothingLost /\ NoSpin
  BY <1>2 DEF WatchedIsArmed, NothingLost, NoSpin, ManagerNeverSpins, Armed, IsValid
<1> QED BY <1>3, <1>4, <1>5 DEF DescriptorInv

-----------------------------------------------------------------------------
(***************************************************************************)
(* Clients                                                                 *)
(***************************************************************************)
\* A new object is armed for nothing.
LEMMA CreateKeeps ==
  ASSUME DescriptorInv, NEW f \in Object, Create(f)
  PROVE  DescriptorInv'
<1> USE DEF DescriptorInv
<1>1. /\ obj[f].state = "absent" /\ obj' = [obj EXCEPT ![f].state = "valid"]
      /\ UNCHANGED <<fds, listed, pipe, mapLock, mgr, loop>>
      /\ open' = open \cup {NativeOf[f]}
      /\ \A g \in Object : IsValid(g) => NativeOf[g] # NativeOf[f]
  BY DEF Create, sets
<1>2. /\ obj' \in [Object -> FileDescriptor] /\ obj'[f].state = "valid"
      /\ obj'[f].setCount = 0 /\ ~obj'[f].source
      /\ \A g \in Object \ {f} : obj'[g] = obj[g]
  <2> DEFINE o == obj[f]
             n == [o EXCEPT !.state = "valid"]
  <2>1. o \in FileDescriptor /\ o.setCount = 0 /\ ~o.source
    BY <1>1 DEF Shape, Owned, IsValid
  <2>2. obj' = [obj EXCEPT ![f] = n]
    BY <1>1
  <2> HIDE DEF o
  <2>3. n \in FileDescriptor
    BY <2>1, ObjectFields
  <2>4. n.state = "valid" /\ n.setCount = 0 /\ ~n.source
    BY <2>1 DEF FileDescriptor
  <2> HIDE DEF n
  <2> QED BY <2>2, <2>3, <2>4, ObjectSet
<1>3. Shape'
  BY <1>1, <1>2, NativeAssumption DEF Shape
<1>4. Owned'
  BY <1>1, <1>2 DEF Owned, IsValid, Shape, IsScheduled
<1>5. Phased' /\ NoSpin'
  BY <1>1 DEF Phased, NoSpin, ManagerNeverSpins
<1>6. \A g \in Object, t \in Types : Armed(g, t)' <=> Armed(g, t)
  BY <1>1, <1>2 DEF Armed, IsValid, IsScheduled
<1>7. WatchedIsArmed'
  BY <1>1, <1>6 DEF WatchedIsArmed, Shape
<1>8. NothingLost'
  BY <1>1, <1>2, <1>6 DEF NothingLost, Armed, IsValid
<1> QED BY <1>3, <1>4, <1>5, <1>7, <1>8

\* A run loop source makes no difference to what is armed.
LEMMA SourceKeeps ==
  ASSUME DescriptorInv, NEW f \in Object, CreateRunLoopSource(f)
  PROVE  DescriptorInv'
<1> USE DEF DescriptorInv
<1>1. /\ IsValid(f) /\ obj' = [obj EXCEPT ![f].source = TRUE]
      /\ UNCHANGED <<fds, listed, pipe, mapLock, mgr, loop, open>>
  BY DEF CreateRunLoopSource, sets
<1>2. /\ obj' \in [Object -> FileDescriptor]
      /\ \A g \in Object : /\ obj'[g].state = obj[g].state
                           /\ obj'[g].types = obj[g].types
                           /\ obj'[g].signaled = obj[g].signaled
                           /\ obj'[g].setCount = obj[g].setCount
                           /\ obj'[g].pending = obj[g].pending
                           /\ obj'[g].source = IF g = f THEN TRUE ELSE obj[g].source
  <2> DEFINE o == obj[f]
             n == [o EXCEPT !.source = TRUE]
  <2>1. /\ n \in FileDescriptor /\ n.state = o.state /\ n.types = o.types
        /\ n.signaled = o.signaled /\ n.setCount = o.setCount
        /\ n.pending = o.pending /\ n.source
    <3>1. o \in FileDescriptor
      BY DEF Shape
    <3> HIDE DEF o
    <3>2. n \in FileDescriptor
      BY <3>1, ObjectFields
    <3> QED BY <3>1, <3>2 DEF FileDescriptor
  <2>2. obj' = [obj EXCEPT ![f] = n]
    BY <1>1
  <2> HIDE DEF n
  <2> QED BY <2>1, <2>2, ObjectSet
<1>3. Shape'
  BY <1>1, <1>2 DEF Shape
<1>4. Owned'
  BY <1>1, <1>2 DEF Owned, IsValid, Shape, IsScheduled
<1>5. Phased' /\ NoSpin'
  BY <1>1 DEF Phased, NoSpin, ManagerNeverSpins
<1>6. \A g \in Object, t \in Types : Armed(g, t)' <=> Armed(g, t)
  BY <1>2 DEF Armed, IsValid, IsScheduled
<1>7. WatchedIsArmed'
  BY <1>1, <1>6 DEF WatchedIsArmed, Shape
<1>8. NothingLost'
  BY <1>1, <1>2, <1>6 DEF NothingLost
<1> QED BY <1>3, <1>4, <1>5, <1>7, <1>8

\* What is enabled is watched at once, if the object is scheduled.
LEMMA EnableKeeps ==
  ASSUME DescriptorInv, NEW f \in Object, NEW ts \in SUBSET Types, Enable(f, ts)
  PROVE  DescriptorInv'
<1> USE DEF DescriptorInv
<1> DEFINE o == obj[f]
<1>0. o \in FileDescriptor /\ IsValid(f)
  BY DEF Shape, Enable
<1>1. /\ obj' = [obj EXCEPT ![f] = [o EXCEPT !.types = @ \cup ts]]
      /\ IsScheduled(o) => /\ fds' = fds \cup ({NativeOf[f]} \X ts)
                           /\ listed' = listed \cup ({f} \X ts)
      /\ ~IsScheduled(o) => fds' = fds /\ listed' = listed
      /\ fds' \subseteq Native \X Types /\ listed' \subseteq Object \X Types
      /\ pipe' \in Nat /\ pipe' >= pipe
      /\ UNCHANGED <<mapLock, mgr, loop, open>>
  <2>1. /\ EnableCallBacks(f, o, o, ts, TRUE) /\ o.state = "valid"
        /\ UNCHANGED <<mapLock, mgr, loop, open>>
    BY <1>0 DEF Enable, IsValid
  <2> HIDE DEF o
  <2>2. /\ obj' = [obj EXCEPT ![f] = [o EXCEPT !.types = @ \cup ts]]
        /\ o.state = "valid" /\ IsScheduled(o) =>
               /\ fds' = fds \cup ({NativeOf[f]} \X ts)
               /\ listed' = listed \cup ({f} \X ts)
        /\ ~(o.state = "valid" /\ IsScheduled(o)) => fds' = fds /\ listed' = listed
        /\ fds' \subseteq Native \X Types /\ listed' \subseteq Object \X Types
        /\ pipe' \in Nat /\ pipe' >= pipe
    BY <1>0, <2>1, EnableEffect
  <2> QED BY <2>1, <2>2
<1>2. /\ obj' \in [Object -> FileDescriptor]
      /\ \A g \in Object : /\ obj'[g].state = obj[g].state
                           /\ obj'[g].types = IF g = f THEN obj[g].types \cup ts
                                                       ELSE obj[g].types
                           /\ obj'[g].signaled = obj[g].signaled
                           /\ obj'[g].setCount = obj[g].setCount
                           /\ obj'[g].pending = obj[g].pending
                           /\ obj'[g].source = obj[g].source
  <2> DEFINE n == [o EXCEPT !.types = @ \cup ts]
  <2>1. /\ n \in FileDescriptor /\ n.state = o.state /\ n.types = o.types \cup ts
        /\ n.signaled = o.signaled /\ n.setCount = o.setCount
        /\ n.pending = o.pending /\ n.source = o.source
    BY <1>0 DEF FileDescriptor
  <2>2. obj' = [obj EXCEPT ![f] = n]
    BY <1>1
  <2> HIDE DEF n
  <2> QED BY <2>1, <2>2, ObjectSet
<1>3. Shape'
  BY <1>1, <1>2 DEF Shape
<1>a. fds \subseteq fds' /\ listed \subseteq listed'
      /\ \A g \in Object, t \in Types : <<g, t>> \in listed' => <<g, t>> \in listed \/ g = f
  BY <1>1
<1>4. Owned'
  BY <1>0, <1>1, <1>2, <1>a DEF Owned, IsValid, Shape, IsScheduled
<1>5. Phased' /\ NoSpin'
  <2>1. Phased'
    BY <1>1 DEF Phased
  <2>2. NoSpin'
    BY <1>1, <1>a, NoSpinKept DEF Shape
  <2> QED BY <2>1, <2>2
<1>6. \A g \in Object, t \in Types :
        Armed(g, t)' <=> Armed(g, t) \/ (g = f /\ IsScheduled(o) /\ t \in ts)
  BY <1>0, <1>2 DEF Armed, IsValid, IsScheduled
<1>7. WatchedIsArmed'
  <2> SUFFICES ASSUME NEW b \in fds'
               PROVE  \E g \in Object : /\ NativeOf[g] = b[1] /\ Armed(g, b[2])'
                                        /\ <<g, b[2]>> \in listed'
    BY DEF WatchedIsArmed
  <2>1. b[2] \in Types
    BY <1>1
  <2>2. CASE b \in fds
    BY <1>a, <1>6, <2>1, <2>2 DEF WatchedIsArmed
  <2>3. CASE b \notin fds
    BY <1>1, <1>6, <2>1, <2>3
  <2> QED BY <2>2, <2>3
<1>8. NothingLost'
  <2> SUFFICES ASSUME NEW g \in Object, NEW t \in Types, Armed(g, t)',
                      <<NativeOf[g], t>> \notin fds'
               PROVE  Noticed(g, t)'
    BY DEF NothingLost, Noticed
  <2> QED BY <1>1, <1>2, <1>6, <1>a DEF NothingLost, Noticed
<1> QED BY <1>3, <1>4, <1>5, <1>7, <1>8

\* Where something is watched, and by whom.
LEMMA Watcher ==
  ASSUME DescriptorInv, NEW f \in Object, IsValid(f), NEW t \in Types,
         <<NativeOf[f], t>> \in fds
  PROVE  Armed(f, t) /\ <<f, t>> \in listed
<1>1. PICK g \in Object : NativeOf[g] = NativeOf[f] /\ Armed(g, t) /\ <<g, t>> \in listed
  BY DEF DescriptorInv, WatchedIsArmed
<1>2. g = f
  BY <1>1 DEF DescriptorInv, Owned, Armed
<1> QED BY <1>1, <1>2

\* DisableCallBacks and a run loop that makes a callout, or nothing.
LEMMA DisableLoopKeeps ==
  ASSUME DescriptorInv, NEW f \in Object, NEW ts \in SUBSET Types,
         DisableCallBacks(f, obj[f], obj[f], ts), UNCHANGED <<mapLock, mgr, open>>,
         loop' \in [Loop -> LoopState],
         \A l \in Loop : /\ loop'[l].at = loop[l].at /\ loop'[l].f = loop[l].f
                         /\ loop'[l].sig = loop[l].sig
                         /\ loop'[l].todo \subseteq loop[l].todo
                         /\ \A t \in loop[l].todo :
                               t \in loop'[l].todo \/ (loop[l].f = f /\ t \in ts)
  PROVE  DescriptorInv'
<1> USE DEF DescriptorInv
<1> DEFINE o == obj[f]
<1>0. o \in FileDescriptor
  BY DEF Shape
<1>1. PICK off \in SUBSET Types :
           /\ off = IF IsValid(f) /\ IsScheduled(obj[f]) THEN ts \cap obj[f].types ELSE {}
           /\ obj' = [obj EXCEPT ![f].types = @ \ off]
           /\ fds' = fds \ ({NativeOf[f]} \X off) /\ fds' \subseteq Native \X Types
           /\ listed' = listed
           /\ pipe' \in Nat /\ pipe' >= pipe
           /\ fds \subseteq fds' \/ pipe' > 0
  BY DisableEffect
<1>2. /\ obj' \in [Object -> FileDescriptor]
      /\ \A g \in Object : /\ obj'[g].state = obj[g].state
                           /\ obj'[g].types = IF g = f THEN obj[g].types \ off
                                                       ELSE obj[g].types
                           /\ obj'[g].signaled = obj[g].signaled
                           /\ obj'[g].setCount = obj[g].setCount
                           /\ obj'[g].pending = obj[g].pending
                           /\ obj'[g].source = obj[g].source
  <2> DEFINE n == [o EXCEPT !.types = @ \ off]
  <2>1. /\ n \in FileDescriptor /\ n.state = o.state /\ n.types = o.types \ off
        /\ n.signaled = o.signaled /\ n.setCount = o.setCount
        /\ n.pending = o.pending /\ n.source = o.source
    BY <1>0 DEF FileDescriptor
  <2>2. obj' = [obj EXCEPT ![f] = n]
    BY <1>1
  <2> HIDE DEF n
  <2> QED BY <2>1, <2>2, ObjectSet
<1>3. Shape'
  BY <1>1, <1>2 DEF Shape
<1>4. Owned'
  BY <1>1, <1>2 DEF Owned, IsValid, Shape, IsScheduled
<1>5. Phased'
  BY <1>1 DEF Phased
<1>6. NoSpin'
  BY <1>1, NoSpinKept DEF Shape
<1>7. \A g \in Object, t \in Types : Armed(g, t)' <=> Armed(g, t) /\ ~(g = f /\ t \in off)
  BY <1>1, <1>2 DEF Armed, IsValid, IsScheduled
<1>8. WatchedIsArmed'
  <2> SUFFICES ASSUME NEW b \in fds'
               PROVE  \E g \in Object : /\ NativeOf[g] = b[1] /\ Armed(g, b[2])'
                                        /\ <<g, b[2]>> \in listed'
    BY DEF WatchedIsArmed
  <2>1. b[2] \in Types /\ b \in fds /\ ~(b[1] = NativeOf[f] /\ b[2] \in off)
    BY <1>1
  <2> QED BY <1>1, <1>7, <2>1 DEF WatchedIsArmed
<1>9. NothingLost'
  <2> SUFFICES ASSUME NEW g \in Object, NEW t \in Types, Armed(g, t)',
                      <<NativeOf[g], t>> \notin fds'
               PROVE  Noticed(g, t)'
    BY DEF NothingLost, Noticed
  <2>1. Armed(g, t) /\ ~(g = f /\ t \in off) /\ IsValid(g)
    BY <1>7 DEF Armed
  <2>2. <<NativeOf[g], t>> \notin fds
    <3> SUFFICES ASSUME <<NativeOf[g], t>> \in fds PROVE FALSE
      OBVIOUS
    <3>1. NativeOf[g] = NativeOf[f] /\ t \in off
      BY <1>1
    <3>2. IsValid(f)
      BY <1>1, <3>1
    <3> QED BY <2>1, <3>1, <3>2 DEF Owned
  <2>3. Noticed(g, t)
    BY <2>1, <2>2 DEF NothingLost, Noticed
  <2>4. g = f => t \notin ts
    BY <1>1, <2>1 DEF Armed
  <2> QED BY <1>1, <1>2, <2>3, <2>4 DEF Noticed
<1> QED BY <1>3, <1>4, <1>5, <1>6, <1>8, <1>9

\* What is disabled is not watched any more.
LEMMA DisableKeeps ==
  ASSUME DescriptorInv, NEW f \in Object, NEW ts \in SUBSET Types, Disable(f, ts)
  PROVE  DescriptorInv'
  BY DisableLoopKeeps DEF Disable, DescriptorInv, Shape

\* The manager notes that an array it copied was replaced.
LEMMA ReplacedEffect ==
  ASSUME Shape, NEW f, mgr' = Replaced(f)
  PROVE  /\ mgr' \in ManagerState /\ mgr'.at = mgr.at /\ mgr'.sel = mgr.sel
         /\ mgr'.watch = mgr.watch /\ mgr'.woken = mgr.woken /\ mgr'.bad = mgr.bad
  BY DEF Shape, Replaced, ManagerState

\* The first run loop f is scheduled on starts the watch of all its types.
LEMMA ScheduleKeeps ==
  ASSUME DescriptorInv, NEW f \in Object, NEW l \in Loop, Schedule(f, l)
  PROVE  DescriptorInv'
<1> USE DEF DescriptorInv
<1> DEFINE o == [obj[f] EXCEPT !.loops = @ \cup {l}]
           s == [o EXCEPT !.rloops = Append(@, l), !.setCount = @ + 1]
<1>1. /\ o \in FileDescriptor /\ o.state = obj[f].state /\ o.types = obj[f].types
      /\ o.signaled = obj[f].signaled /\ o.setCount = obj[f].setCount
      /\ o.pending = obj[f].pending /\ o.source = obj[f].source
  <2>1. \A S : IsFiniteSet(S) => IsFiniteSet(S \cup {l})
    BY FS_AddElement
  <2>2. obj[f] \in FileDescriptor
    BY DEF Shape
  <2> QED BY <2>1, <2>2 DEF FileDescriptor
<1>2. /\ s \in FileDescriptor /\ s.state = obj[f].state /\ s.types = obj[f].types
      /\ s.signaled = obj[f].signaled /\ s.setCount = obj[f].setCount + 1
      /\ s.pending = obj[f].pending /\ s.source = obj[f].source
  <2> HIDE DEF o
  <2>1. o.rloops \in Seq(Loop) /\ Append(o.rloops, l) \in Seq(Loop) /\ o.setCount + 1 \in Int
    BY <1>1 DEF FileDescriptor
  <2>2. s \in FileDescriptor
    BY <1>1, <2>1 DEF FileDescriptor
  <2>3. /\ s.state = o.state /\ s.types = o.types /\ s.signaled = o.signaled
        /\ s.setCount = o.setCount + 1 /\ s.pending = o.pending /\ s.source = o.source
    BY <1>1 DEF FileDescriptor
  <2> QED BY <1>1, <2>2, <2>3
<1>3. /\ o.source
      /\ \/ /\ ~IsValid(f) /\ obj' = [obj EXCEPT ![f] = o]
            /\ UNCHANGED <<fds, listed, pipe, mgr>>
         \/ /\ IsValid(f) /\ s.setCount = 1 /\ EnableCallBacks(f, s, s, s.types, TRUE)
            /\ mgr' = Replaced(f)
         \/ /\ IsValid(f) /\ s.setCount # 1 /\ obj' = [obj EXCEPT ![f] = s]
            /\ mgr' = Replaced(f) /\ UNCHANGED <<fds, listed, pipe>>
      /\ UNCHANGED <<mapLock, loop, open>>
  <2> DEFINE x == [obj[f] EXCEPT !.loops = @ \cup {l}, !.rloops = Append(obj[f].rloops, l),
                             !.setCount = @ + 1]
  <2>1. x = s
    OBVIOUS
  <2>2. /\ obj[f].source /\ UNCHANGED <<mapLock, loop, open>>
        /\ RunLoopSchedule(f, obj[f], obj[f], l)
    BY DEF Schedule
  <2>3. \/ /\ ~IsValid(f) /\ obj' = [obj EXCEPT ![f].loops = @ \cup {l}]
           /\ UNCHANGED <<fds, listed, pipe, mgr>>
        \/ /\ IsValid(f) /\ x.setCount = 1 /\ EnableCallBacks(f, x, x, x.types, TRUE)
           /\ mgr' = Replaced(f)
        \/ /\ IsValid(f) /\ x.setCount # 1 /\ obj' = [obj EXCEPT ![f] = x]
           /\ mgr' = Replaced(f) /\ UNCHANGED <<fds, listed, pipe>>
    BY <2>2 DEF RunLoopSchedule, IsValid, sets
  <2>4. [obj EXCEPT ![f].loops = @ \cup {l}] = [obj EXCEPT ![f] = o]
    OBVIOUS
  <2> HIDE DEF o, s, x
  <2> QED BY <1>1, <2>1, <2>2, <2>3, <2>4
<1> HIDE DEF o, s
<1>4. /\ mgr' \in ManagerState /\ mgr'.at = mgr.at /\ mgr'.sel = mgr.sel
      /\ mgr'.watch = mgr.watch /\ mgr'.woken = mgr.woken /\ mgr'.bad = mgr.bad
  <2>1. CASE mgr' = Replaced(f)
    BY <2>1, ReplacedEffect
  <2>2. CASE UNCHANGED mgr
    BY <2>2 DEF Shape
  <2> QED BY <1>3, <2>1, <2>2
<1> DEFINE first == IsValid(f) /\ s.setCount = 1
<1>5. /\ obj' \in [Object -> FileDescriptor]
      /\ \A g \in Object : /\ obj'[g].state = obj[g].state
                           /\ obj'[g].types = obj[g].types
                           /\ obj'[g].signaled = obj[g].signaled
                           /\ obj'[g].setCount = IF g = f /\ IsValid(f)
                                THEN obj[g].setCount + 1 ELSE obj[g].setCount
                           /\ obj'[g].pending = obj[g].pending
                           /\ obj'[g].source = obj[g].source
      /\ fds \subseteq fds' /\ fds' \subseteq Native \X Types
      /\ listed \subseteq listed' /\ listed' \subseteq Object \X Types
      /\ pipe' \in Nat /\ pipe' >= pipe
      /\ ~first => fds' = fds /\ listed' = listed
      /\ first => /\ fds' = fds \cup ({NativeOf[f]} \X obj[f].types)
                  /\ listed' = listed \cup ({f} \X obj[f].types)
  <2>1. CASE ~IsValid(f) /\ obj' = [obj EXCEPT ![f] = o] /\ UNCHANGED <<fds, listed, pipe>>
    BY <1>1, <2>1, ObjectSet DEF Shape
  <2>2. CASE /\ IsValid(f) /\ s.setCount # 1 /\ obj' = [obj EXCEPT ![f] = s]
             /\ UNCHANGED <<fds, listed, pipe>>
    BY <1>2, <2>2, ObjectSet DEF Shape
  <2>3. CASE IsValid(f) /\ s.setCount = 1 /\ EnableCallBacks(f, s, s, s.types, TRUE)
    <3>1. s.types \in SUBSET Types /\ s.state = "valid" /\ IsScheduled(s)
      BY <1>2, <2>3 DEF FileDescriptor, IsValid, IsScheduled
    <3>2. /\ obj' = [obj EXCEPT ![f] = [s EXCEPT !.types = @ \cup s.types]]
          /\ fds' = fds \cup ({NativeOf[f]} \X s.types)
          /\ listed' = listed \cup ({f} \X s.types)
          /\ fds' \subseteq Native \X Types /\ listed' \subseteq Object \X Types
          /\ pipe' \in Nat /\ pipe' >= pipe
      <4>1. /\ obj' = [obj EXCEPT ![f] = [s EXCEPT !.types = @ \cup s.types]]
            /\ s.state = "valid" /\ IsScheduled(s) =>
                   /\ fds' = fds \cup ({NativeOf[f]} \X s.types)
                   /\ listed' = listed \cup ({f} \X s.types)
            /\ ~(s.state = "valid" /\ IsScheduled(s)) => fds' = fds /\ listed' = listed
            /\ fds' \subseteq Native \X Types /\ listed' \subseteq Object \X Types
            /\ pipe' \in Nat /\ pipe' >= pipe
        BY <1>2, <2>3, <3>1, EnableEffect
      <4> QED BY <3>1, <4>1
    <3>3. [s EXCEPT !.types = @ \cup s.types] = s
      BY <1>2 DEF FileDescriptor
    <3>4. obj' = [obj EXCEPT ![f] = s]
      BY <3>2, <3>3
    <3> QED BY <1>2, <2>3, <3>2, <3>4, ObjectSet
  <2> QED BY <1>3, <2>1, <2>2, <2>3
<1>6. Shape'
  BY <1>3, <1>4, <1>5 DEF Shape
<1>7. \A g \in Object, t \in Types : <<g, t>> \in listed' => <<g, t>> \in listed \/ (first /\ g = f)
  BY <1>5
<1>8. Owned'
  <2>1. IsValid(f) => obj[f].source
    BY <1>1, <1>3
  <2>2. \A g \in Object : IsValid(g)' <=> IsValid(g)
    BY <1>5 DEF IsValid
  <2>3. obj[f].state # "absent"
    BY <1>1, <1>3 DEF Owned
  <2> QED BY <1>3, <1>5, <1>7, <2>1, <2>2, <2>3 DEF Owned, Shape, IsScheduled
<1>9. Phased' /\ NoSpin'
  <2>1. NoSpin'
    BY <1>4, <1>5, NoSpinKept DEF Shape
  <2> QED BY <1>3, <1>4, <2>1 DEF Phased
<1>10. \A g \in Object, t \in Types :
         Armed(g, t)' <=> Armed(g, t) \/ (g = f /\ first /\ t \in obj[f].types)
  BY <1>2, <1>5 DEF Armed, IsValid, IsScheduled, Shape, FileDescriptor
<1>11. WatchedIsArmed'
  <2> SUFFICES ASSUME NEW b \in fds'
               PROVE  \E g \in Object : /\ NativeOf[g] = b[1] /\ Armed(g, b[2])'
                                        /\ <<g, b[2]>> \in listed'
    BY DEF WatchedIsArmed
  <2>1. b[2] \in Types
    BY <1>5
  <2>2. CASE b \in fds
    BY <1>5, <1>10, <2>1, <2>2 DEF WatchedIsArmed
  <2>3. CASE b \notin fds
    BY <1>5, <1>10, <2>1, <2>3
  <2> QED BY <2>2, <2>3
<1>12. NothingLost'
  <2> SUFFICES ASSUME NEW g \in Object, NEW t \in Types, Armed(g, t)',
                      <<NativeOf[g], t>> \notin fds'
               PROVE  Noticed(g, t)'
    BY DEF NothingLost, Noticed
  <2>1. Armed(g, t) /\ <<NativeOf[g], t>> \notin fds
    BY <1>5, <1>10
  <2> QED BY <1>3, <1>4, <1>5, <2>1 DEF NothingLost, Noticed
<1> QED BY <1>6, <1>8, <1>9, <1>11, <1>12

\* A run loop that lets go of f ends the watch if it was the last.
LEMMA CancelKeeps ==
  ASSUME DescriptorInv, NEW f \in Object, NEW l \in Loop, Cancel(f, l)
  PROVE  DescriptorInv'
<1> USE DEF DescriptorInv
<1> DEFINE o == obj[f]
           n == [o EXCEPT !.loops = @ \ {l}, !.rloops = o.rloops, !.setCount = @ - 1]
           last == o.setCount = 1
<1>1. /\ n \in FileDescriptor /\ n.state = o.state /\ n.types = o.types
      /\ n.signaled = o.signaled /\ n.setCount = o.setCount - 1
      /\ n.pending = o.pending /\ n.source = o.source
  <2>1. o \in FileDescriptor
    BY DEF Shape
  <2> HIDE DEF o
  <2>a. IsFiniteSet(o.loops) /\ o.setCount \in Int
    BY <2>1 DEF FileDescriptor
  <2>b. IsFiniteSet(o.loops \ {l})
    BY <2>a, FS_RemoveElement
  <2>2. IsFiniteSet(o.loops \ {l}) /\ o.setCount - 1 \in Int
    BY <2>a, <2>b
  <2>3. n \in FileDescriptor
    BY <2>1, <2>2 DEF FileDescriptor
  <2>4. /\ n.state = o.state /\ n.types = o.types
        /\ n.signaled = o.signaled /\ n.setCount = o.setCount - 1
        /\ n.pending = o.pending /\ n.source = o.source
    BY <2>1 DEF FileDescriptor
  <2> QED BY <2>3, <2>4
<1>2. /\ IsValid(f) /\ obj' = [obj EXCEPT ![f] = n] /\ mgr' = Replaced(f)
      /\ IF obj'[f].setCount = 0 THEN ManagerRemove(f) ELSE UNCHANGED <<fds, listed, pipe>>
      /\ UNCHANGED <<mapLock, loop, open>>
  BY DEF Cancel, RunLoopCancel, sets
<1> HIDE DEF n
<1>3. /\ mgr' \in ManagerState /\ mgr'.at = mgr.at /\ mgr'.sel = mgr.sel
      /\ mgr'.watch = mgr.watch /\ mgr'.woken = mgr.woken /\ mgr'.bad = mgr.bad
  BY <1>2, ReplacedEffect
<1>4. /\ obj' \in [Object -> FileDescriptor]
      /\ \A g \in Object : /\ obj'[g].state = obj[g].state
                           /\ obj'[g].types = obj[g].types
                           /\ obj'[g].signaled = obj[g].signaled
                           /\ obj'[g].setCount = IF g = f THEN obj[g].setCount - 1
                                                          ELSE obj[g].setCount
                           /\ obj'[g].pending = obj[g].pending
                           /\ obj'[g].source = obj[g].source
  BY <1>1, <1>2, ObjectSet
<1>5. o.setCount \in Int /\ (obj'[f].setCount = 0 <=> last)
  BY <1>4 DEF Shape, FileDescriptor
<1>6. /\ fds' \subseteq fds /\ fds' \subseteq Native \X Types
      /\ listed' \subseteq listed /\ listed' \subseteq Object \X Types
      /\ pipe' \in Nat /\ pipe' >= pipe
      /\ (fds \subseteq fds' /\ listed \subseteq listed') \/ pipe' > 0 \/ last
      /\ fds \subseteq fds' \/ pipe' > 0
      /\ ~last => fds' = fds /\ listed' = listed
      /\ \A g \in Object, t \in Types : g # f /\ <<g, t>> \in listed => <<g, t>> \in listed'
      /\ \A b \in fds : b \in fds' \/ (b[1] = NativeOf[f] /\ <<f, b[2]>> \in listed)
      /\ \A t \in Types : last /\ <<f, t>> \in listed => <<NativeOf[f], t>> \notin fds'
  <2>1. CASE last
    <3>1. ManagerRemove(f)
      BY <1>2, <1>5, <2>1
    <3>2. /\ \A g \in Object, t \in Types :
              <<g, t>> \in listed' <=> <<g, t>> \in listed /\ g # f
          /\ \A b \in fds : b \in fds' <=> ~(b[1] = NativeOf[f] /\ <<f, b[2]>> \in listed)
          /\ fds' \subseteq fds /\ fds' \subseteq Native \X Types
          /\ listed' \subseteq Object \X Types
          /\ pipe' \in Nat /\ pipe' >= pipe
          /\ fds \subseteq fds' \/ pipe' > 0
      BY <3>1, RemoveEffect
    <3> HIDE DEF last
    <3>3. listed' \subseteq listed
      BY <3>2
    <3>4. \A t \in Types : <<f, t>> \in listed => <<NativeOf[f], t>> \notin fds'
      BY <3>2
    <3> QED BY <2>1, <3>2, <3>3, <3>4
  <2>2. CASE ~last
    BY <1>2, <1>5, <2>2 DEF Shape
  <2> QED BY <2>1, <2>2
<1> HIDE DEF last
<1>7. Shape'
  BY <1>2, <1>3, <1>4, <1>6 DEF Shape
<1>8. Owned'
  BY <1>2, <1>4, <1>5, <1>6 DEF Owned, IsValid, Shape, IsScheduled
<1>9. Phased'
  BY <1>2, <1>3 DEF Phased
<1>10. \A g \in Object, t \in Types : Armed(g, t)' <=> Armed(g, t) /\ ~(g = f /\ last)
  BY <1>4, <1>5 DEF Armed, IsValid, IsScheduled, last
<1>11. \A t \in Types : last => <<NativeOf[f], t>> \notin fds'
  BY <1>2, <1>6, Watcher
<1>12. NoSpin'
  <2>1. CASE pipe' > 0
    BY <1>3, <2>1 DEF NoSpin, ManagerNeverSpins
  <2>2. CASE ~(pipe' > 0)
    <3>1. fds \subseteq fds' /\ ~(pipe > 0)
      BY <1>6, <2>2 DEF Shape
    <3>2. \A g \in Object, t \in Types :
             <<g, t>> \in listed /\ <<NativeOf[g], t>> \in fds => <<g, t>> \in listed'
      BY <1>6, <3>1
    <3>3. mgr.bad \subseteq Object
      BY DEF Shape, ManagerState
    <3> QED BY <1>3, <2>2, <3>1, <3>2, <3>3 DEF NoSpin, ManagerNeverSpins, Shape
  <2> QED BY <2>1, <2>2
<1>13. WatchedIsArmed'
  <2> SUFFICES ASSUME NEW b \in fds'
               PROVE  \E g \in Object : /\ NativeOf[g] = b[1] /\ Armed(g, b[2])'
                                        /\ <<g, b[2]>> \in listed'
    BY DEF WatchedIsArmed
  <2>1. b \in fds /\ b[2] \in Types /\ b = <<b[1], b[2]>>
    BY <1>6
  <2>2. PICK g \in Object : NativeOf[g] = b[1] /\ Armed(g, b[2]) /\ <<g, b[2]>> \in listed
    BY <2>1 DEF WatchedIsArmed
  <2>3. ~(g = f /\ last)
    BY <1>11, <2>1, <2>2
  <2> QED BY <1>6, <1>10, <2>1, <2>2, <2>3
<1>14. NothingLost'
  <2> SUFFICES ASSUME NEW g \in Object, NEW t \in Types, Armed(g, t)',
                      <<NativeOf[g], t>> \notin fds'
               PROVE  Noticed(g, t)'
    BY DEF NothingLost, Noticed
  <2>1. Armed(g, t) /\ ~(g = f /\ last)
    BY <1>10
  <2>2. <<NativeOf[g], t>> \notin fds
    <3> SUFFICES ASSUME <<NativeOf[g], t>> \in fds PROVE FALSE
      OBVIOUS
    <3>1. NativeOf[g] = NativeOf[f] /\ last
      BY <1>6
    <3> QED BY <1>2, <2>1, <3>1 DEF Owned, Armed
  <2> QED BY <1>2, <1>3, <1>4, <2>1, <2>2 DEF NothingLost, Noticed
<1> QED BY <1>7, <1>8, <1>9, <1>12, <1>13, <1>14

\* Waking run loops changes nothing else about them.
LEMMA WakeUpEffect ==
  ASSUME Shape, NEW S, loop' = WakeUp(S)
  PROVE  /\ loop' \in [Loop -> LoopState]
         /\ \A l \in Loop : /\ loop'[l].at = loop[l].at /\ loop'[l].f = loop[l].f
                            /\ loop'[l].sig = loop[l].sig
                            /\ loop'[l].todo = loop[l].todo
<1>1. /\ DOMAIN loop' = Loop
      /\ \A l \in Loop : loop'[l] = IF l \in S THEN [loop[l] EXCEPT !.awake = TRUE]
                                             ELSE loop[l]
      /\ loop' = [l \in Loop |-> loop'[l]]
  BY DEF WakeUp
<1>2. \A n \in LoopState : LET w == [n EXCEPT !.awake = TRUE]
                           IN  /\ w \in LoopState /\ w.at = n.at /\ w.f = n.f
                               /\ w.sig = n.sig /\ w.todo = n.todo
  BY DEF LoopState
<1>3. ASSUME NEW l \in Loop
      PROVE  /\ loop'[l] \in LoopState
             /\ loop'[l].at = loop[l].at /\ loop'[l].f = loop[l].f
             /\ loop'[l].sig = loop[l].sig /\ loop'[l].todo = loop[l].todo
  <2>1. loop[l] \in LoopState
    BY DEF Shape
  <2> QED BY <1>1, <1>2, <2>1
<1> QED BY <1>1, <1>3

\* An invalid object.
LEMMA InvalidIsOne ==
  ASSUME NEW o \in FileDescriptor, NEW e \in Seq(Loop)
  PROVE  [o EXCEPT !.state = "invalid", !.signaled = {}, !.setCount = 0, !.rloops = e]
           \in FileDescriptor
<1>1. [o EXCEPT !.state = "invalid"] \in FileDescriptor
  BY DEF FileDescriptor
<1>2. \A p \in FileDescriptor : [p EXCEPT !.signaled = {}] \in FileDescriptor
  BY DEF FileDescriptor
<1>3. \A p \in FileDescriptor, k \in Int : [p EXCEPT !.setCount = k] \in FileDescriptor
  BY DEF FileDescriptor
<1>4. \A p \in FileDescriptor : [p EXCEPT !.rloops = e] \in FileDescriptor
  BY DEF FileDescriptor
<1> DEFINE p == [o EXCEPT !.state = "invalid"]
           q == [p EXCEPT !.signaled = {}]
           r == [q EXCEPT !.setCount = 0]
<1>5. r \in FileDescriptor
  <2>1. q \in FileDescriptor
    BY <1>1, <1>2
  <2>2. 0 \in Int
    OBVIOUS
  <2> HIDE DEF q
  <2> QED BY <1>3, <2>1, <2>2, Zenon
<1>6. [r EXCEPT !.rloops = e] \in FileDescriptor
  <2> HIDE DEF r
  <2> QED BY <1>4, <1>5
<1> QED BY <1>6

\* Invalidation up to its release of the object's lock, by a client or by the
\* manager, which takes f off its list of closed ones.
LEMMA InvalidateKeeps ==
  ASSUME DescriptorInv, NEW f \in Object, NEW who \in {"client", "manager"},
         InvalidateLocked(f, who),
         mgr' \in ManagerState, mgr'.at = mgr.at, mgr'.sel = mgr.sel,
         mgr'.watch = mgr.watch, mgr'.woken = mgr.woken,
         \A g \in mgr.bad : g = f \/ g \in mgr'.bad
  PROVE  DescriptorInv'
<1> USE DEF DescriptorInv
<1> DEFINE o == obj[f]
           n == [o EXCEPT !.state = "invalid", !.signaled = {}, !.setCount = 0,
                          !.rloops = <<>>]
<1>1. /\ n \in FileDescriptor /\ n.state = "invalid" /\ n.types = o.types
      /\ n.setCount = 0 /\ n.source = o.source
  <2>1. o \in FileDescriptor
    BY DEF Shape
  <2> HIDE DEF o
  <2>a. <<>> \in Seq(Loop)
    OBVIOUS
  <2>2. n \in FileDescriptor
    BY <2>1, <2>a, InvalidIsOne
  <2>3. n.state = "invalid" /\ n.types = o.types /\ n.setCount = 0 /\ n.source = o.source
    BY <2>1 DEF FileDescriptor
  <2> QED BY <2>2, <2>3
<1>2. /\ IsValid(f) /\ ManagerRemove(f) /\ obj' = [obj EXCEPT ![f] = n]
      /\ loop' = WakeUp({obj[f].rloops[i] : i \in DOMAIN obj[f].rloops})
      /\ mapLock' = [f |-> f, by |-> who]
      /\ open' \subseteq open
  BY DEF InvalidateLocked
<1> HIDE DEF n
<1>3. /\ obj' \in [Object -> FileDescriptor]
      /\ obj'[f].state = "invalid" /\ obj'[f].setCount = 0
      /\ \A g \in Object : g # f => obj'[g] = obj[g]
  BY <1>1, <1>2, ObjectSet
<1>4. /\ loop' \in [Loop -> LoopState]
      /\ \A l \in Loop : /\ loop'[l].at = loop[l].at /\ loop'[l].f = loop[l].f
                         /\ loop'[l].sig = loop[l].sig
                         /\ loop'[l].todo = loop[l].todo
  BY <1>2, WakeUpEffect
<1>5. /\ \A g \in Object, t \in Types :
            <<g, t>> \in listed' <=> <<g, t>> \in listed /\ g # f
      /\ \A b \in fds : b \in fds' <=> ~(b[1] = NativeOf[f] /\ <<f, b[2]>> \in listed)
      /\ fds' \subseteq fds /\ fds' \subseteq Native \X Types
      /\ listed' \subseteq Object \X Types
      /\ pipe' \in Nat /\ pipe' >= pipe
      /\ fds \subseteq fds' \/ pipe' > 0
  BY <1>2, RemoveEffect
<1>6. Shape'
  BY <1>2, <1>3, <1>4, <1>5 DEF Shape
<1>7. Owned'
  BY <1>2, <1>3, <1>5, NoneAssumption DEF Owned, IsValid, IsScheduled
<1>8. Phased'
  BY <1>4 DEF Phased
<1>9. NoSpin'
  <2>1. CASE pipe' > 0
    BY <2>1 DEF NoSpin, ManagerNeverSpins
  <2>2. CASE ~(pipe' > 0)
    <3>1. fds \subseteq fds' /\ ~(pipe > 0)
      BY <1>5, <2>2 DEF Shape
    <3>2. mgr.at # "process" \/ ~mgr.woken
      BY <3>1 DEF NoSpin, ManagerNeverSpins
    <3>3. ASSUME mgr.at = "select" PROVE mgr.watch \subseteq fds'
      BY <3>1, <3>3 DEF NoSpin
    <3>4. ASSUME mgr.at = "invalidate"
          PROVE  \E g \in mgr'.bad, t \in Types :
                    <<g, t>> \in listed' /\ <<NativeOf[g], t>> \in fds'
      <4>1. PICK g \in mgr.bad : \E t \in Types :
                    <<g, t>> \in listed /\ <<NativeOf[g], t>> \in fds
        BY <3>1, <3>4 DEF NoSpin
      <4>2. PICK t \in Types : <<g, t>> \in listed /\ <<NativeOf[g], t>> \in fds
        BY <4>1
      <4>3. g # f
        BY <1>5, <3>1, <4>2
      <4>4. g \in Object
        BY <4>1 DEF Shape, ManagerState
      <4> QED BY <1>5, <3>1, <4>1, <4>2, <4>3, <4>4
    <3> QED BY <3>2, <3>3, <3>4 DEF NoSpin, ManagerNeverSpins
  <2> QED BY <2>1, <2>2
<1>10. \A g \in Object, t \in Types : Armed(g, t)' <=> Armed(g, t) /\ g # f
  BY <1>3 DEF Armed, IsValid, IsScheduled
<1>11. WatchedIsArmed'
  <2> SUFFICES ASSUME NEW b \in fds'
               PROVE  \E g \in Object : /\ NativeOf[g] = b[1] /\ Armed(g, b[2])'
                                        /\ <<g, b[2]>> \in listed'
    BY DEF WatchedIsArmed
  <2>1. b \in fds /\ b[2] \in Types
    BY <1>5
  <2>2. PICK g \in Object : NativeOf[g] = b[1] /\ Armed(g, b[2]) /\ <<g, b[2]>> \in listed
    BY <2>1 DEF WatchedIsArmed
  <2>3. g # f
    BY <1>5, <2>1, <2>2
  <2> QED BY <1>5, <1>10, <2>1, <2>2, <2>3
<1>12. NothingLost'
  <2> SUFFICES ASSUME NEW g \in Object, NEW t \in Types, Armed(g, t)',
                      <<NativeOf[g], t>> \notin fds'
               PROVE  Noticed(g, t)'
    BY DEF NothingLost, Noticed
  <2>1. Armed(g, t) /\ g # f
    BY <1>10
  <2>2. <<NativeOf[g], t>> \notin fds
    <3> SUFFICES ASSUME <<NativeOf[g], t>> \in fds PROVE FALSE
      OBVIOUS
    <3>1. NativeOf[g] = NativeOf[f]
      BY <1>5
    <3> QED BY <1>2, <2>1, <3>1 DEF Owned, Armed
  <2> QED BY <1>3, <1>4, <2>1, <2>2 DEF NothingLost, Noticed
<1> QED BY <1>6, <1>7, <1>8, <1>9, <1>11, <1>12

\* The rest of an invalidation concerns an object that is armed for nothing.
LEMMA InvalidateSourceKeeps ==
  ASSUME DescriptorInv, NEW who, InvalidateSource(who), UNCHANGED mgr
  PROVE  DescriptorInv'
<1> USE DEF DescriptorInv
<1> DEFINE f == mapLock.f
           o == obj[f]
           k == Cardinality(o.loops)
           n == [o EXCEPT !.setCount = @ - k, !.loops = {}, !.source = FALSE,
                          !.pending = FALSE]
<1>1. /\ f \in Object /\ obj' = [obj EXCEPT ![f] = n] /\ mapLock' = Unlocked
      /\ UNCHANGED <<fds, listed, pipe, loop, open>>
  BY DEF InvalidateSource, Shape, sets
<1>2. n \in FileDescriptor /\ n.state = "invalid" /\ o.state = "invalid"
  <2>1. o \in FileDescriptor /\ o.state = "invalid"
    BY <1>1, NoneAssumption DEF Shape, Owned
  <2>2. k \in Int
    BY <2>1, FS_CardinalityType DEF FileDescriptor
  <2>3. IsFiniteSet({})
    BY FS_EmptySet
  <2> HIDE DEF k, o
  <2>4. o.setCount - k \in Int
    BY <2>1, <2>2 DEF FileDescriptor
  <2>5. n \in FileDescriptor
    BY <2>1, <2>3, <2>4 DEF FileDescriptor
  <2>6. n.state = "invalid"
    BY <2>1 DEF FileDescriptor
  <2> QED BY <2>1, <2>5, <2>6
<1> HIDE DEF n
<1>3. PICK h \in Object : h = f
  BY <1>1
<1>4. /\ obj' \in [Object -> FileDescriptor]
      /\ obj'[h].state = "invalid" /\ obj[h].state = "invalid"
      /\ \A g \in Object : g # h => obj'[g] = obj[g]
  BY <1>1, <1>2, <1>3, ObjectSet
<1> HIDE DEF f
<1>5. Shape'
  BY <1>1, <1>4 DEF Shape, Unlocked
<1>6. Owned'
  <2>1. mapLock'.f = None
    BY <1>1 DEF Unlocked
  <2> QED BY <1>1, <1>4, <2>1 DEF Owned, IsValid, IsScheduled
<1>7. Phased' /\ NoSpin'
  BY <1>1 DEF Phased, NoSpin, ManagerNeverSpins
<1>8. \A g \in Object, t \in Types : Armed(g, t)' <=> Armed(g, t)
  BY <1>4 DEF Armed, IsValid, IsScheduled
<1>9. WatchedIsArmed'
  BY <1>1, <1>8 DEF WatchedIsArmed, Shape
<1>10. NothingLost'
  <2>1. \A g \in Object, t \in Types : Armed(g, t) => g # h
    BY <1>4 DEF Armed, IsValid
  <2> QED BY <1>1, <1>4, <1>8, <2>1 DEF NothingLost
<1> QED BY <1>5, <1>6, <1>7, <1>9, <1>10

\* Invalidation by a client, and its end.
LEMMA ClientInvalidates ==
  ASSUME DescriptorInv,
         FinishInvalidate \/ \E f \in Object : Invalidate(f)
  PROVE  DescriptorInv'
<1>1. CASE FinishInvalidate
  BY <1>1, InvalidateSourceKeeps DEF FinishInvalidate
<1>2. ASSUME NEW f \in Object, Invalidate(f) PROVE DescriptorInv'
  <2>1. /\ mgr' \in ManagerState /\ mgr'.at = mgr.at /\ mgr'.sel = mgr.sel
        /\ mgr'.watch = mgr.watch /\ mgr'.woken = mgr.woken /\ mgr'.bad = mgr.bad
    BY <1>2, ReplacedEffect DEF Invalidate, DescriptorInv
  <2> QED BY <1>2, <2>1, InvalidateKeeps DEF Invalidate
<1> QED BY <1>1, <1>2

-----------------------------------------------------------------------------
(***************************************************************************)
(* The manager thread                                                      *)
(***************************************************************************)
\* The manager goes on without touching an object or a set of bits.
LEMMA ManagerMoves ==
  ASSUME DescriptorInv, UNCHANGED <<obj, fds, listed, mapLock, loop>>,
         open' \subseteq Native, pipe' \in Nat, mgr' \in ManagerState,
         mgr'.sel = mgr.sel, mgr'.at \notin {"handle", "unlock"} => mgr'.sel = {}, NoSpin'
  PROVE  DescriptorInv'
<1> USE DEF DescriptorInv
<1>1. Shape'
  BY DEF Shape
<1>2. Owned' /\ Phased'
  BY DEF Owned, Phased, IsValid
<1>3. \A f \in Object, t \in Types : Armed(f, t)' <=> Armed(f, t)
  BY DEF Armed, IsValid
<1>4. WatchedIsArmed'
  BY <1>3 DEF WatchedIsArmed, Shape
<1>5. NothingLost'
  BY <1>3 DEF NothingLost
<1> QED BY <1>1, <1>2, <1>4, <1>5

\* The manager's state at the start of a phase.
LEMMA FreshState ==
  ASSUME NEW at \in {"prepare", "select", "invalidate", "process", "collect", "handle",
                    "unlock"},
         NEW hits \in SUBSET (Native \X Types), NEW woken \in BOOLEAN,
         NEW bad \in SUBSET Object
  PROVE  /\ [Fresh EXCEPT !.at = at, !.hits = hits, !.woken = woken] \in ManagerState
         /\ [Fresh EXCEPT !.at = at, !.hits = hits, !.woken = woken, !.bad = bad]
              \in ManagerState
         /\ Fresh \in ManagerState
<1>1. Fresh \in ManagerState
  BY DEF Fresh, ManagerState
<1>2. [Fresh EXCEPT !.at = at, !.hits = hits, !.woken = woken] \in ManagerState
  <2>1. /\ \A m \in ManagerState : [m EXCEPT !.at = at] \in ManagerState
        /\ \A m \in ManagerState : [m EXCEPT !.hits = hits] \in ManagerState
        /\ \A m \in ManagerState : [m EXCEPT !.woken = woken] \in ManagerState
    BY DEF ManagerState
  <2> QED BY <1>1, <2>1
<1>3. [Fresh EXCEPT !.at = at, !.hits = hits, !.woken = woken, !.bad = bad] \in ManagerState
  <2> DEFINE m == [Fresh EXCEPT !.at = at, !.hits = hits, !.woken = woken]
  <2> HIDE DEF m
  <2>1. m \in ManagerState
    BY <1>2 DEF m
  <2>2. [m EXCEPT !.bad = bad] \in ManagerState
    BY <2>1 DEF ManagerState
  <2> QED BY <2>2 DEF m
<1> QED BY <1>1, <1>2, <1>3

\* select is passed what is set now, and its outcome is kept.
LEMMA SelectKeeps ==
  ASSUME DescriptorInv,
         \/ PrepareWatches \/ SelectError
         \/ \E hits \in SUBSET mgr.watch : Select(hits)
  PROVE  DescriptorInv'
<1> USE DEF DescriptorInv
<1>0. /\ mgr \in ManagerState /\ mgr.watch \in SUBSET (Native \X Types)
      /\ fds \in SUBSET (Native \X Types)
      /\ pipe \in Nat
      /\ open \subseteq Native
  BY DEF Shape, ManagerState
<1>1. CASE PrepareWatches
  <2>1. /\ mgr.at = "prepare" /\ mgr' = [mgr EXCEPT !.at = "select", !.watch = fds]
        /\ UNCHANGED <<obj, fds, listed, pipe, mapLock, loop, open>>
    BY <1>1 DEF PrepareWatches, sets
  <2>2. /\ mgr' \in ManagerState /\ mgr'.at = "select" /\ mgr'.watch = fds
        /\ mgr'.sel = mgr.sel /\ mgr.sel = {}
    BY <1>0, <2>1 DEF ManagerState, Phased
  <2>3. NoSpin'
    BY <2>1, <2>2 DEF NoSpin, ManagerNeverSpins
  <2> QED BY <1>0, <2>1, <2>2, <2>3, ManagerMoves
<1>2. ASSUME NEW hits \in SUBSET mgr.watch, Select(hits) PROVE DescriptorInv'
  <2>1. /\ mgr.at = "select"
        /\ mgr' = [Fresh EXCEPT !.at = "process", !.hits = hits, !.woken = pipe > 0]
        /\ UNCHANGED <<obj, fds, listed, pipe, mapLock, loop, open>>
    BY <1>2 DEF Select, sets
  <2>2. hits \in SUBSET (Native \X Types)
    BY <1>0
  <2>3. mgr' \in ManagerState
    <3>1. CASE pipe > 0
      <4>1. mgr' = [Fresh EXCEPT !.at = "process", !.hits = hits, !.woken = TRUE]
        BY <2>1, <3>1
      <4> QED BY <2>2, <4>1, FreshState
    <3>2. CASE ~(pipe > 0)
      <4>1. mgr' = [Fresh EXCEPT !.at = "process", !.hits = hits, !.woken = FALSE]
        <5>1. (pipe > 0) = FALSE
          BY <3>2
        <5> QED BY <2>1, <5>1, Zenon
      <4> QED BY <2>2, <4>1, FreshState
    <3> QED BY <3>1, <3>2
  <2>4. mgr'.at = "process" /\ mgr'.woken = (pipe > 0) /\ mgr'.sel = {} /\ mgr.sel = {}
    BY <2>1 DEF Fresh, Phased
  <2>5. NoSpin'
    BY <2>1, <2>4 DEF NoSpin, ManagerNeverSpins
  <2> QED BY <1>0, <2>1, <2>3, <2>4, <2>5, ManagerMoves
<1>3. CASE SelectError
  <2> DEFINE closed == {f \in Object : NativeOf[f] \notin open /\
                                       \E t \in Types : <<f, t>> \in listed}
  <2>1. /\ mgr.at = "select" /\ \E b \in mgr.watch : b[1] \notin open
        /\ mgr' = [Fresh EXCEPT !.at = "invalidate", !.hits = mgr.watch, !.woken = TRUE,
                                !.bad = closed]
        /\ UNCHANGED <<obj, fds, listed, pipe, mapLock, loop, open>>
    BY <1>3 DEF SelectError, sets
  <2>2. mgr' \in ManagerState
    BY <1>0, <2>1, FreshState
  <2>3. /\ mgr'.at = "invalidate" /\ mgr'.bad = closed
        /\ mgr'.sel = {} /\ mgr.sel = {}
    BY <2>1 DEF Fresh, Phased
  <2>4. ASSUME ~(pipe > 0)
        PROVE  \E f \in closed, t \in Types :
                  <<f, t>> \in listed /\ <<NativeOf[f], t>> \in fds
    <3>1. PICK b \in mgr.watch : b[1] \notin open
      BY <2>1
    <3>2. b \in fds /\ b[2] \in Types /\ b = <<b[1], b[2]>>
      BY <1>0, <2>1, <2>4, <3>1 DEF NoSpin
    <3>3. PICK f \in Object : NativeOf[f] = b[1] /\ <<f, b[2]>> \in listed
      BY <3>2 DEF WatchedIsArmed
    <3> QED BY <3>1, <3>2, <3>3
  <2> HIDE DEF closed
  <2>5. NoSpin'
    BY <2>1, <2>3, <2>4 DEF NoSpin, ManagerNeverSpins
  <2> QED BY <1>0, <2>1, <2>2, <2>3, <2>5, ManagerMoves
<1> QED BY <1>1, <1>2, <1>3

\* The closed ones are invalidated one by one.
LEMMA InvalidateBadKeeps ==
  ASSUME DescriptorInv, InvalidateBad \/ FinishInvalidateBad \/ InvalidateDone
  PROVE  DescriptorInv'
<1> USE DEF DescriptorInv
<1>0. mgr \in ManagerState /\ mgr.bad \in SUBSET Object /\ pipe \in Nat
  BY DEF Shape, ManagerState
<1>1. ASSUME NEW f \in mgr.bad, mgr.at = "invalidate",
             mgr' = [mgr EXCEPT !.bad = @ \ {f}],
             \/ InvalidateLocked(f, "manager")
             \/ ~IsValid(f) /\ UNCHANGED <<obj, sets, mapLock, loop, open>>
      PROVE  DescriptorInv'
  <2>1. /\ mgr' \in ManagerState /\ mgr'.at = mgr.at /\ mgr'.sel = mgr.sel
        /\ mgr'.watch = mgr.watch /\ mgr'.woken = mgr.woken
        /\ mgr'.bad = mgr.bad \ {f}
    BY <1>0, <1>1 DEF ManagerState
  <2>2. CASE InvalidateLocked(f, "manager")
    <3>1. \A g \in mgr.bad : g = f \/ g \in mgr'.bad
      BY <2>1
    <3> QED BY <1>0, <2>1, <2>2, <3>1, InvalidateKeeps
  <2>3. CASE ~IsValid(f) /\ UNCHANGED <<obj, sets, mapLock, loop, open>>
    <3>1. \A t \in Types : <<f, t>> \notin listed
      BY <1>0, <2>3 DEF Owned
    <3>2. NoSpin'
      BY <1>1, <2>1, <2>3, <3>1 DEF NoSpin, ManagerNeverSpins, sets
    <3>3. mgr'.sel = {}
      BY <1>1, <2>1 DEF Phased
    <3> QED BY <2>1, <2>3, <3>2, <3>3, ManagerMoves DEF sets, Shape
  <2> QED BY <1>1, <2>2, <2>3
<1>2. CASE InvalidateBad
  BY <1>1, <1>2 DEF InvalidateBad
<1>3. CASE FinishInvalidateBad
  BY <1>3, InvalidateSourceKeeps DEF FinishInvalidateBad
<1>4. CASE InvalidateDone
  <2>1. /\ mgr.at = "invalidate" /\ mgr.bad = {} /\ mgr' = [mgr EXCEPT !.at = "process"]
        /\ UNCHANGED <<obj, fds, listed, pipe, mapLock, loop, open>>
    BY <1>4 DEF InvalidateDone, sets
  <2>2. mgr' \in ManagerState /\ mgr'.at = "process" /\ mgr'.sel = mgr.sel /\ mgr.sel = {}
    BY <1>0, <2>1 DEF ManagerState, Phased
  <2>3. NoSpin'
    BY <2>1, <2>2 DEF NoSpin, ManagerNeverSpins
  <2> QED BY <2>1, <2>2, <2>3, ManagerMoves DEF Shape
<1> QED BY <1>2, <1>3, <1>4

\* The pipe is read, and what select reported is taken out of the sets.
LEMMA ProcessKeeps ==
  ASSUME DescriptorInv, ProcessState \/ HandleDone
  PROVE  DescriptorInv'
<1> USE DEF DescriptorInv
<1>0. mgr \in ManagerState /\ pipe \in Nat
  BY DEF Shape
<1>1. CASE ProcessState
  <2>1. /\ mgr.at = "process" /\ mgr' = [mgr EXCEPT !.at = "collect"]
        /\ pipe' = IF ~mgr.woken THEN pipe ELSE IF pipe <= ReadMax THEN 0 ELSE pipe - ReadMax
        /\ UNCHANGED <<obj, fds, listed, mapLock, loop, open>>
    BY <1>1 DEF ProcessState
  <2>2. mgr' \in ManagerState /\ mgr'.at = "collect" /\ mgr'.sel = mgr.sel /\ mgr.sel = {}
    BY <1>0, <2>1 DEF ManagerState, Phased
  <2>3. pipe' \in Nat
    BY <1>0, <2>1, BoundAssumption
  <2>4. NoSpin'
    BY <2>2 DEF NoSpin, ManagerNeverSpins
  <2> QED BY <2>1, <2>2, <2>3, <2>4, ManagerMoves DEF Shape
<1>2. CASE HandleDone
  <2>1. /\ mgr.sel = {} /\ mgr' = Fresh
        /\ UNCHANGED <<obj, fds, listed, pipe, mapLock, loop, open>>
    BY <1>2 DEF HandleDone, sets
  <2>2. mgr' \in ManagerState
    BY <2>1 DEF Fresh, ManagerState
  <2>3. mgr'.at = "prepare" /\ mgr'.sel = {}
    BY <2>1 DEF Fresh
  <2>4. NoSpin'
    BY <2>3 DEF NoSpin, ManagerNeverSpins
  <2> QED BY <2>1, <2>2, <2>3, <2>4, ManagerMoves DEF Shape
<1> QED BY <1>1, <1>2

\* What select reported is selected, if it is listed.
LEMMA ReadyKeeps ==
  ASSUME DescriptorInv, HandleReadyDescriptors
  PROVE  DescriptorInv'
<1> USE DEF DescriptorInv
<1> DEFINE sel == {p \in listed : <<NativeOf[p[1]], p[2]>> \in mgr.hits}
<1>1. /\ mgr.at = "collect" /\ mgr' = [Fresh EXCEPT !.at = "handle", !.sel = sel]
      /\ fds' = fds \ {<<NativeOf[p[1]], p[2]>> : p \in sel}
      /\ UNCHANGED <<obj, listed, pipe, mapLock, loop, open>>
  BY DEF HandleReadyDescriptors
<1>2. sel \subseteq listed /\ listed \subseteq Object \X Types
  BY DEF Shape
<1> HIDE DEF sel
<1>3. mgr' \in ManagerState
  <2>1. Fresh \in ManagerState
    BY DEF Fresh, ManagerState
  <2>2. sel \in SUBSET (Object \X Types)
    BY <1>2
  <2>3. \A m \in ManagerState : [m EXCEPT !.at = "handle"] \in ManagerState
    BY DEF ManagerState
  <2>4. \A m \in ManagerState : [m EXCEPT !.sel = sel] \in ManagerState
    BY <2>2 DEF ManagerState
  <2>5. mgr' = [[Fresh EXCEPT !.at = "handle"] EXCEPT !.sel = sel]
    BY <1>1
  <2> QED BY <2>1, <2>3, <2>4, <2>5, Zenon
<1>4. mgr'.at = "handle" /\ mgr'.sel = sel
  BY <1>1 DEF Fresh
<1>5. Shape'
  BY <1>1, <1>3 DEF Shape
<1>6. Owned' /\ Phased'
  BY <1>1, <1>4 DEF Owned, Phased, IsValid
<1>7. NoSpin'
  BY <1>4 DEF NoSpin, ManagerNeverSpins
<1>8. WatchedIsArmed'
  BY <1>1 DEF WatchedIsArmed, Armed, IsValid
<1>9. NothingLost'
  <2> SUFFICES ASSUME NEW g \in Object, NEW t \in Types, Armed(g, t)',
                      <<NativeOf[g], t>> \notin fds'
               PROVE  Noticed(g, t)'
    BY DEF NothingLost, Noticed
  <2>1. Armed(g, t)
    BY <1>1 DEF Armed, IsValid
  <2>2. CASE <<NativeOf[g], t>> \notin fds
    <3>1. Noticed(g, t) /\ mgr.sel = {}
      BY <1>1, <2>1, <2>2 DEF NothingLost, Noticed, Phased
    <3> QED BY <1>1, <3>1 DEF Noticed
  <2>3. CASE <<NativeOf[g], t>> \in fds
    <3>1. PICK p \in sel : <<NativeOf[g], t>> = <<NativeOf[p[1]], p[2]>>
      BY <1>1, <2>3
    <3>2. p = <<p[1], p[2]>> /\ p[1] \in Object /\ p[2] = t /\ p \in listed
          /\ NativeOf[p[1]] = NativeOf[g]
      BY <1>2, <3>1
    <3>3. IsValid(p[1]) /\ IsValid(g)
      BY <2>1, <3>2 DEF Owned, Armed
    <3>4. p[1] = g
      BY <3>2, <3>3 DEF Owned
    <3> QED BY <1>4, <3>1, <3>2, <3>4 DEF Noticed
  <2> QED BY <2>2, <2>3
<1> QED BY <1>5, <1>6, <1>7, <1>8, <1>9

\* A selected type is signalled, and what is signalled is pending.
LEMMA HandleKeeps ==
  ASSUME DescriptorInv, Handle
  PROVE  DescriptorInv'
<1> USE DEF DescriptorInv
<1>1. PICK p \in mgr.sel :
        LET f == p[1]
            t == p[2]
            o == obj[f]
            m == [mgr EXCEPT !.sel = @ \ {p}]
        IN  IF o.state # "valid" \/ t \notin o.types
            THEN mgr' = m /\ UNCHANGED obj
            ELSE /\ obj' = [obj EXCEPT ![f].signaled = @ \cup {t}, ![f].pending = o.source]
                 /\ mgr' = [m EXCEPT !.cur = f, !.same = TRUE, !.reading = t = "read",
                              !.copy = IF o.source THEN o.rloops ELSE <<>>]
  BY DEF Handle
<1>2. mgr.at = "handle" /\ UNCHANGED <<fds, listed, pipe, mapLock, loop, open>>
  BY DEF Handle, sets
<1>3. PICK f \in Object : f = p[1]
  BY DEF Shape, ManagerState
<1>4. PICK t \in Types : t = p[2]
  BY DEF Shape, ManagerState
<1>5. p = <<f, t>>
  BY <1>3, <1>4 DEF Shape, ManagerState
<1> DEFINE o == obj[f]
           n == [o EXCEPT !.signaled = @ \cup {t}, !.pending = o.source]
           m == [mgr EXCEPT !.sel = @ \ {p}]
           copy == IF o.source THEN o.rloops ELSE <<>>
           skip == o.state # "valid" \/ t \notin o.types
<1>6. /\ skip => mgr' = m /\ obj' = obj
      /\ ~skip => /\ obj' = [obj EXCEPT ![f] = n]
                  /\ mgr' = [m EXCEPT !.cur = f, !.same = TRUE, !.reading = t = "read",
                               !.copy = copy]
  BY <1>1, <1>3, <1>4
<1>7. o \in FileDescriptor /\ mgr \in ManagerState
  BY DEF Shape
<1>8. /\ n \in FileDescriptor /\ n.state = o.state /\ n.types = o.types
      /\ n.signaled = o.signaled \cup {t} /\ n.setCount = o.setCount
      /\ n.source = o.source /\ n.pending = o.source
  <2> HIDE DEF o
  <2> QED BY <1>7 DEF FileDescriptor
<1>9. m \in ManagerState /\ m.at = "handle" /\ m.sel = mgr.sel \ {p}
  BY <1>2, <1>7 DEF ManagerState
<1>10. copy \in Seq(Loop)
  <2>1. o.rloops \in Seq(Loop)
    <3> HIDE DEF o
    <3> QED BY <1>7 DEF FileDescriptor
  <2> QED BY <2>1
<1> HIDE DEF n, m, copy
<1>11. mgr' \in ManagerState /\ mgr'.at = "handle" /\ mgr'.sel = mgr.sel \ {p}
  <2>1. CASE skip
    BY <1>6, <1>9, <2>1
  <2>2. CASE ~skip
    <3>1. mgr' = [m EXCEPT !.cur = f, !.same = TRUE, !.reading = t = "read",
                   !.copy = copy]
      BY <1>6, <2>2
    <3> HIDE DEF skip
    <3>2. \A k \in ManagerState, b \in BOOLEAN :
            [k EXCEPT !.cur = f, !.same = TRUE, !.reading = b, !.copy = copy]
              \in ManagerState
      BY <1>10 DEF ManagerState
    <3>3. mgr' \in ManagerState
      BY <1>9, <3>1, <3>2
    <3>4. mgr'.at = m.at /\ mgr'.sel = m.sel
      BY <1>9, <3>1 DEF ManagerState
    <3> QED BY <1>9, <3>3, <3>4
  <2> QED BY <2>1, <2>2
<1>12. /\ obj' \in [Object -> FileDescriptor]
       /\ \A g \in Object : /\ obj'[g].state = obj[g].state
                            /\ obj'[g].types = obj[g].types
                            /\ obj'[g].setCount = obj[g].setCount
                            /\ obj'[g].source = obj[g].source
                            /\ obj[g].signaled \subseteq obj'[g].signaled
                            /\ g # f => obj'[g] = obj[g]
                            /\ obj[g].source => (obj[g].pending => obj'[g].pending)
       /\ ~skip => t \in obj'[f].signaled /\ obj'[f].pending = obj[f].source
  <2>1. CASE skip
    BY <1>6, <2>1 DEF Shape
  <2>2. CASE ~skip
    <3>1. obj' = [obj EXCEPT ![f] = n]
      BY <1>6, <2>2
    <3>2. /\ obj' \in [Object -> FileDescriptor] /\ obj'[f] = n
          /\ \A g \in Object : obj'[g] = IF g = f THEN n ELSE obj[g]
      BY <1>8, <3>1, ObjectSet
    <3> QED BY <1>8, <3>2
  <2> QED BY <2>1, <2>2
<1>13. Shape'
  BY <1>2, <1>11, <1>12 DEF Shape
<1>14. Owned'
  <2>1. \A g \in Object : IsValid(g)' <=> IsValid(g)
    BY <1>12 DEF IsValid
  <2> QED BY <1>2, <1>12, <2>1 DEF Owned, Shape, IsScheduled
<1>15. Phased' /\ NoSpin'
  BY <1>2, <1>11 DEF Phased, NoSpin, ManagerNeverSpins
<1>16. \A g \in Object, u \in Types : Armed(g, u)' <=> Armed(g, u)
  BY <1>12 DEF Armed, IsValid, IsScheduled
<1>17. WatchedIsArmed'
  BY <1>2, <1>16 DEF WatchedIsArmed, Shape
<1>18. NothingLost'
  <2> SUFFICES ASSUME NEW g \in Object, NEW u \in Types, Armed(g, u)',
                      <<NativeOf[g], u>> \notin fds'
               PROVE  Noticed(g, u)'
    BY DEF NothingLost, Noticed
  <2>1. Armed(g, u) /\ Noticed(g, u)
    BY <1>2, <1>16 DEF NothingLost, Noticed
  <2>2. obj[g].source
    BY <2>1 DEF Armed, Owned
  <2>3. CASE <<g, u>> = p
    <3>1. g = f /\ u = t
      BY <1>5, <2>3
    <3>2. ~skip
      BY <2>1, <3>1 DEF Armed, IsValid
    <3> QED BY <1>12, <2>2, <3>1, <3>2 DEF Noticed
  <2>4. CASE <<g, u>> # p
    BY <1>2, <1>11, <1>12, <2>1, <2>2, <2>4 DEF Noticed
  <2> QED BY <2>3, <2>4
<1> QED BY <1>13, <1>14, <1>15, <1>17, <1>18

\* CopyRunLoopToWakeUp picks a run loop of the array.
LEMMA PickedIsInArray ==
  ASSUME NEW f, NEW rs \in Seq(Loop), rs # <<>>
  PROVE  PickedIndex(f, rs) \in 1..Len(rs)
<1> DEFINE contains == {i \in DOMAIN rs : rs[i] \in obj[f].loops}
           waiting  == {i \in contains : ~loop[rs[i]].awake}
           First(S) == CHOOSE i \in S : \A j \in S : i <= j
<1>1. DOMAIN rs = 1..Len(rs) /\ 1 \in 1..Len(rs)
  BY EmptySeq, LenProperties
<1>2. contains \subseteq 1..Len(rs) /\ waiting \subseteq 1..Len(rs)
  BY <1>1
<1>3. \A S \in SUBSET (1..Len(rs)) : S # {} => First(S) \in 1..Len(rs)
  <2> SUFFICES ASSUME NEW S \in SUBSET (1..Len(rs)), S # {} PROVE First(S) \in S
    OBVIOUS
  <2>1. S \in SUBSET Nat
    BY <1>1, LenProperties
  <2> QED BY <2>1, LeastElement
<1>4. PickedIndex(f, rs) = IF waiting # {} THEN First(waiting)
                           ELSE IF contains # {} THEN First(contains) ELSE 1
  BY DEF PickedIndex
<1> HIDE DEF contains, waiting, First
<1> QED BY <1>1, <1>2, <1>3, <1>4

\* A run loop is woken, and the array of the object may be rotated.
LEMMA WakeupKeeps ==
  ASSUME DescriptorInv, WakeupRunLoops
  PROVE  DescriptorInv'
<1> USE DEF DescriptorInv
<1> DEFINE rs == mgr.copy
           different == \E i, j \in DOMAIN rs : rs[i] # rs[j]
           i == PickedIndex(mgr.cur, rs)
           rotated == SubSeq(rs, 1, i - 1) \o SubSeq(rs, i + 1, Len(rs)) \o <<rs[i]>>
<1>1. /\ mgr.at = "handle" /\ mgr.cur \in Object /\ rs \in Seq(Loop)
      /\ \E S : loop' = WakeUp(S)
      /\ \/ UNCHANGED obj
         \/ different /\ obj' = [obj EXCEPT ![mgr.cur].rloops = rotated]
      /\ mgr' = [mgr EXCEPT !.at = IF mgr.reading THEN "unlock" ELSE "handle",
                   !.cur = IF mgr.reading THEN mgr.cur ELSE None,
                   !.copy = <<>>, !.same = FALSE, !.reading = FALSE]
      /\ UNCHANGED <<fds, listed, pipe, mapLock, open>>
  <2>1. mgr.cur \in Object /\ rs \in Seq(Loop)
    BY DEF WakeupRunLoops, Shape, ManagerState
  <2>2. loop' = loop => loop' = WakeUp({})
    BY DEF WakeUp, Shape
  <2> QED BY <2>1, <2>2 DEF WakeupRunLoops, sets
<1>2. PICK f \in Object : f = mgr.cur
  BY <1>1
<1>3. different => rotated \in Seq(Loop)
  <2> SUFFICES ASSUME different PROVE rotated \in Seq(Loop)
    OBVIOUS
  <2>1. rs # <<>>
    OBVIOUS
  <2>2. i \in 1..Len(rs) /\ Len(rs) \in Nat
    BY <1>1, <2>1, PickedIsInArray, LenProperties
  <2> HIDE DEF i
  <2>3. \A j \in 1..Len(rs) : rs[j] \in Loop
    BY <1>1, ElementOfSeq
  <2> HIDE DEF rs
  <2>4. SubSeq(rs, 1, i - 1) \in Seq(Loop)
    <3>1. \A j \in 1..(i - 1) : rs[j] \in Loop
      BY <2>2, <2>3
    <3> QED BY <2>2, <3>1, SubSeqProperties
  <2>5. SubSeq(rs, i + 1, Len(rs)) \in Seq(Loop)
    <3>1. \A j \in (i + 1)..Len(rs) : rs[j] \in Loop
      BY <2>2, <2>3
    <3> QED BY <2>2, <3>1, SubSeqProperties
  <2>6. <<rs[i]>> \in Seq(Loop)
    BY <2>2, <2>3
  <2>7. SubSeq(rs, 1, i - 1) \o SubSeq(rs, i + 1, Len(rs)) \in Seq(Loop)
    BY <2>4, <2>5, ConcatProperties
  <2> QED BY <2>6, <2>7, ConcatProperties
<1>4. /\ obj' \in [Object -> FileDescriptor]
      /\ \A g \in Object : /\ obj'[g].state = obj[g].state
                           /\ obj'[g].types = obj[g].types
                           /\ obj'[g].setCount = obj[g].setCount
                           /\ obj'[g].source = obj[g].source
                           /\ obj'[g].signaled = obj[g].signaled
                           /\ obj'[g].pending = obj[g].pending
  <2>1. CASE UNCHANGED obj
    BY <2>1 DEF Shape
  <2>2. CASE different /\ obj' = [obj EXCEPT ![mgr.cur].rloops = rotated]
    <3>1. rotated \in Seq(Loop)
      BY <1>3, <2>2
    <3> HIDE DEF rotated
    <3> DEFINE o == obj[f]
               n == [o EXCEPT !.rloops = rotated]
    <3>2. obj' = [obj EXCEPT ![f] = n] /\ o \in FileDescriptor
      BY <1>2, <2>2 DEF Shape
    <3>3. n \in FileDescriptor
      <4> HIDE DEF o
      <4> QED BY <3>1, <3>2 DEF FileDescriptor
    <3>4. /\ n.state = o.state /\ n.types = o.types /\ n.setCount = o.setCount
          /\ n.source = o.source /\ n.signaled = o.signaled /\ n.pending = o.pending
      <4> HIDE DEF o
      <4> QED BY <3>2 DEF FileDescriptor
    <3> HIDE DEF n
    <3> QED BY <3>2, <3>3, <3>4, ObjectSet
  <2> QED BY <1>1, <2>1, <2>2
<1>5. /\ loop' \in [Loop -> LoopState]
      /\ \A l \in Loop : /\ loop'[l].at = loop[l].at /\ loop'[l].f = loop[l].f
                         /\ loop'[l].sig = loop[l].sig
                         /\ loop'[l].todo = loop[l].todo
  BY <1>1, WakeUpEffect
<1>6. /\ mgr' \in ManagerState /\ mgr'.at \in {"handle", "unlock"}
      /\ mgr'.sel = mgr.sel
  <2>1. <<>> \in Seq(Loop) /\ mgr \in ManagerState
    BY DEF Shape
  <2>a. \A m \in ManagerState, at \in {"handle", "unlock"} :
          [m EXCEPT !.at = at] \in ManagerState
    BY DEF ManagerState
  <2>b. \A m \in ManagerState, g \in Object \cup {None} :
          [m EXCEPT !.cur = g] \in ManagerState
    BY DEF ManagerState
  <2>c. \A m \in ManagerState, e \in Seq(Loop) : [m EXCEPT !.copy = e] \in ManagerState
    BY DEF ManagerState
  <2>d. \A m \in ManagerState : [m EXCEPT !.same = FALSE] \in ManagerState
    BY DEF ManagerState
  <2>e. \A m \in ManagerState : [m EXCEPT !.reading = FALSE] \in ManagerState
    BY DEF ManagerState
  <2> DEFINE at == IF mgr.reading THEN "unlock" ELSE "handle"
             cur == IF mgr.reading THEN mgr.cur ELSE None
  <2>3. at \in {"handle", "unlock"} /\ cur \in Object \cup {None}
    BY <1>1
  <2>4. mgr' = [mgr EXCEPT !.at = at, !.cur = cur, !.copy = <<>>, !.same = FALSE,
                           !.reading = FALSE]
    BY <1>1
  <2> HIDE DEF at, cur
  <2>5. mgr' = [[[[[mgr EXCEPT !.at = at] EXCEPT !.cur = cur] EXCEPT !.copy = <<>>]
                   EXCEPT !.same = FALSE] EXCEPT !.reading = FALSE]
    BY <2>4
  <2>6. mgr' \in ManagerState
    BY <2>1, <2>3, <2>5, <2>a, <2>b, <2>c, <2>d, <2>e, Zenon
  <2>7. mgr'.at = at /\ mgr'.sel = mgr.sel
    BY <2>1, <2>4 DEF ManagerState
  <2> QED BY <2>3, <2>6, <2>7
<1> HIDE DEF rs, different, i, rotated
<1>7. Shape'
  BY <1>1, <1>4, <1>5, <1>6 DEF Shape
<1>8. \A g \in Object : IsValid(g)' <=> IsValid(g)
  BY <1>4 DEF IsValid
<1>9. Owned'
  BY <1>1, <1>4, <1>8 DEF Owned, Shape, IsScheduled
<1>10. Phased' /\ NoSpin'
  BY <1>1, <1>5, <1>6 DEF Phased, NoSpin, ManagerNeverSpins
<1>11. \A g \in Object, t \in Types : Armed(g, t)' <=> Armed(g, t)
  BY <1>4, <1>8 DEF Armed, IsScheduled
<1>12. WatchedIsArmed'
  BY <1>1, <1>11 DEF WatchedIsArmed, Shape
<1>13. NothingLost'
  <2>1. \A g \in Object, t \in Types : Noticed(g, t) => Noticed(g, t)'
    BY <1>1, <1>4, <1>5, <1>6 DEF Noticed
  <2> QED BY <1>1, <1>11, <2>1 DEF NothingLost, Noticed
<1> QED BY <1>7, <1>9, <1>10, <1>12, <1>13

\* The second unlock itself changes nothing but the lock.
LEMMA UnlockKeeps ==
  ASSUME DescriptorInv, UnlockAgain
  PROVE  DescriptorInv'
<1> USE DEF DescriptorInv
<1>1. /\ mgr.at = "unlock" /\ mgr' = [mgr EXCEPT !.at = "handle", !.cur = None]
      /\ UNCHANGED <<obj, fds, listed, pipe, mapLock, loop, open>>
  BY DEF UnlockAgain, sets
<1>2. mgr' \in ManagerState /\ mgr'.at = "handle" /\ mgr'.sel = mgr.sel
  BY <1>1 DEF Shape, ManagerState
<1>3. NoSpin'
  BY <1>2 DEF NoSpin, ManagerNeverSpins
<1> QED BY <1>1, <1>2, <1>3, ManagerMoves DEF Shape

-----------------------------------------------------------------------------
(***************************************************************************)
(* Run loops                                                               *)
(***************************************************************************)
\* A run loop goes on, and what was noticed of an armed type still is.
LEMMA LoopMoves ==
  ASSUME DescriptorInv, NEW l \in Loop, NEW n \in LoopState,
         loop' = [loop EXCEPT ![l] = n],
         UNCHANGED <<fds, listed, pipe, mapLock, mgr, open>>,
         n.at # "none" => n.f \in Object, n.todo \subseteq n.sig,
         n.at # "callout" => n.todo = {},
         obj' \in [Object -> FileDescriptor],
         \A g \in Object : /\ obj'[g].state = obj[g].state
                           /\ obj'[g].types = obj[g].types
                           /\ obj'[g].setCount = obj[g].setCount
                           /\ obj'[g].source = obj[g].source,
         \A g \in Object, t \in Types : Armed(g, t) /\ Noticed(g, t) => Noticed(g, t)'
  PROVE  DescriptorInv'
<1> USE DEF DescriptorInv
<1>1. /\ loop' \in [Loop -> LoopState] /\ loop'[l] = n
      /\ \A k \in Loop : k # l => loop'[k] = loop[k]
  BY DEF Shape
<1>2. Shape'
  BY <1>1 DEF Shape
<1>3. \A g \in Object : IsValid(g)' <=> IsValid(g)
  BY DEF IsValid
<1>4. Owned'
  BY <1>3 DEF Owned, Shape, IsScheduled
<1>5. Phased' /\ NoSpin'
  BY <1>1 DEF Phased, NoSpin, ManagerNeverSpins
<1>6. \A g \in Object, t \in Types : Armed(g, t)' <=> Armed(g, t)
  BY <1>3 DEF Armed, IsScheduled
<1>7. WatchedIsArmed'
  BY <1>6 DEF WatchedIsArmed, Shape
<1>8. NothingLost'
  <2> SUFFICES ASSUME NEW g \in Object, NEW t \in Types, Armed(g, t)',
                      <<NativeOf[g], t>> \notin fds'
               PROVE  Noticed(g, t)'
    BY DEF NothingLost, Noticed
  <2>1. Armed(g, t) /\ Noticed(g, t)
    BY <1>6 DEF NothingLost, Noticed
  <2> QED BY <2>1
<1> QED BY <1>2, <1>4, <1>5, <1>7, <1>8

\* A run loop at rest.
LEMMA RestState ==
  ASSUME NEW awake \in BOOLEAN
  PROVE  LET r == Resting(awake)
         IN  r \in LoopState /\ r.at = "none" /\ r.f = None /\ r.todo = {} /\ r.sig = {}
  BY DEF Resting, LoopState

\* A run loop that sleeps or collects a source makes no difference.
LEMMA CollectKeeps ==
  ASSUME DescriptorInv, NEW l \in Loop, Sleep(l) \/ CollectSource(l)
  PROVE  DescriptorInv'
<1> USE DEF DescriptorInv
<1>1. loop[l] = Resting(TRUE) /\ UNCHANGED <<obj, fds, listed, pipe, mapLock, mgr, open>>
  BY DEF Sleep, CollectSource, sets
<1>2. PICK n \in LoopState : /\ loop' = [loop EXCEPT ![l] = n]
                             /\ n.at \in {"none", "collected"}
                             /\ n.at = "none" \/ n.f \in Object
                             /\ n.todo = {} /\ n.sig = {}
  <2>1. CASE Sleep(l)
    BY <2>1, RestState DEF Sleep
  <2>2. CASE CollectSource(l)
    <3>1. PICK f \in Object : loop' = [loop EXCEPT ![l].at = "collected", ![l].f = f]
      BY <2>2 DEF CollectSource
    <3> DEFINE n == [Resting(TRUE) EXCEPT !.at = "collected", !.f = f]
    <3>2. /\ n \in LoopState /\ n.at = "collected" /\ n.f \in Object
          /\ n.todo = {} /\ n.sig = {}
      BY DEF Resting, LoopState
    <3>3. loop' = [loop EXCEPT ![l] = n]
      BY <1>1, <3>1
    <3> HIDE DEF n
    <3> QED BY <3>2, <3>3
  <2> QED BY <2>1, <2>2
<1>3. \A g \in Object, t \in Types : Noticed(g, t) => Noticed(g, t)'
  <2>1. loop[l].at = "none" /\ loop[l].todo = {}
    BY <1>1, RestState
  <2> QED BY <1>1, <1>2, <2>1 DEF Noticed, Shape
<1> QED BY <1>1, <1>2, <1>3, LoopMoves DEF Shape

\* A collected source that is performed is not pending any more.
LEMMA DoSourceKeeps ==
  ASSUME DescriptorInv, NEW l \in Loop, DoSource0(l)
  PROVE  DescriptorInv'
<1> USE DEF DescriptorInv
<1>1. PICK f \in Object : f = loop[l].f
  BY DEF DoSource0, Shape
<1>2. /\ loop[l].at = "collected" /\ loop[l].todo = {}
      /\ loop[l] \in LoopState
      /\ UNCHANGED <<fds, listed, pipe, mapLock, mgr, open>>
  BY DEF DoSource0, sets, Phased, Shape
<1> DEFINE go == obj[f].pending /\ obj[f].source
           r == loop[l]
           n == IF go THEN [r EXCEPT !.at = "perform"] ELSE Resting(TRUE)
<1>3. loop' = [loop EXCEPT ![l] = n] /\ obj' = [obj EXCEPT ![f].pending = FALSE]
  BY <1>1 DEF DoSource0
<1>4. /\ n \in LoopState /\ n.at \in {"none", "perform"}
      /\ n.at = "none" \/ n.f = f
      /\ n.todo = {}
      /\ go => n.at = "perform" /\ n.f = f
  <2>1. CASE go
    <3>1. /\ [r EXCEPT !.at = "perform"] \in LoopState
          /\ [r EXCEPT !.at = "perform"].at = "perform"
          /\ [r EXCEPT !.at = "perform"].f = f
          /\ [r EXCEPT !.at = "perform"].todo = {}
      BY <1>1, <1>2 DEF LoopState
    <3> QED BY <2>1, <3>1
  <2>2. CASE ~go
    BY <2>2, RestState
  <2> QED BY <2>1, <2>2
<1> HIDE DEF n
<1>5. /\ obj' \in [Object -> FileDescriptor]
      /\ \A g \in Object : /\ obj'[g].state = obj[g].state
                           /\ obj'[g].types = obj[g].types
                           /\ obj'[g].setCount = obj[g].setCount
                           /\ obj'[g].source = obj[g].source
                           /\ obj'[g].signaled = obj[g].signaled
                           /\ g # f => obj'[g].pending = obj[g].pending
  <2> DEFINE o == obj[f]
             p == [o EXCEPT !.pending = FALSE]
  <2>1. obj' = [obj EXCEPT ![f] = p] /\ o \in FileDescriptor
    BY <1>3 DEF Shape
  <2>2. /\ p \in FileDescriptor /\ p.state = o.state /\ p.types = o.types
        /\ p.setCount = o.setCount /\ p.source = o.source /\ p.signaled = o.signaled
    <3> HIDE DEF o
    <3> QED BY <2>1 DEF FileDescriptor
  <2> HIDE DEF p
  <2> QED BY <2>1, <2>2, ObjectSet
<1>6. ASSUME NEW g \in Object, NEW t \in Types, Armed(g, t), Noticed(g, t)
      PROVE  Noticed(g, t)'
  <2>1. obj[g].source
    BY <1>6 DEF Armed, Owned
  <2>2. /\ loop'[l] = n /\ \A k \in Loop : k # l => loop'[k] = loop[k]
    BY <1>3 DEF Shape
  <2> HIDE DEF go
  <2>3. g = f /\ obj[g].pending => n.at = "perform" /\ n.f = f
    BY <1>4, <2>1 DEF go
  <2> QED BY <1>2, <1>5, <1>6, <2>2, <2>3 DEF Noticed
<1>7. (n.at # "none" => n.f \in Object) /\ n.todo \subseteq n.sig /\ n.at # "callout"
  BY <1>4
<1> QED BY <1>2, <1>3, <1>4, <1>5, <1>6, <1>7, LoopMoves

\* What was signalled and is enabled is called out.
LEMMA PerformKeeps ==
  ASSUME DescriptorInv, NEW l \in Loop, NEW x,
         x = obj[loop[l].f], RunLoopPerform(l, x, x)
  PROVE  DescriptorInv'
<1> USE DEF DescriptorInv
<1>1. PICK f \in Object : f = loop[l].f
  BY DEF RunLoopPerform, Shape
<1>2. /\ loop[l].at = "perform" /\ loop[l].todo = {}
      /\ loop[l] \in LoopState /\ obj[f] \in FileDescriptor
      /\ UNCHANGED <<fds, listed, pipe, mapLock, mgr, open>>
  BY DEF RunLoopPerform, sets, Phased, Shape
<1> DEFINE o == obj[f]
           r == loop[l]
           sig == o.signaled
           todo == sig \cap o.types
<1>3. CASE ~IsValid(f)
  <2>1. loop' = [loop EXCEPT ![l] = Resting(TRUE)] /\ UNCHANGED obj
    BY <1>1, <1>3 DEF RunLoopPerform, IsValid
  <2> DEFINE n == Resting(TRUE)
  <2>2. n \in LoopState /\ n.at = "none" /\ n.todo = {}
    BY RestState
  <2> HIDE DEF n
  <2>3. loop'[l] = n /\ \A k \in Loop : k # l => loop'[k] = loop[k]
    BY <2>1 DEF Shape, n
  <2>4. ASSUME NEW g \in Object, NEW t \in Types, Armed(g, t), Noticed(g, t)
        PROVE  Noticed(g, t)'
    <3>1. g # f
      BY <1>3, <2>4 DEF Armed
    <3> QED BY <1>1, <1>2, <2>1, <2>3, <2>4, <3>1 DEF Noticed
  <2>5. loop' = [loop EXCEPT ![l] = n]
    BY <2>1 DEF n
  <2> QED BY <1>2, <2>1, <2>2, <2>4, <2>5, LoopMoves DEF Shape
<1>4. CASE IsValid(f)
  <2> DEFINE n == [r EXCEPT !.at = "callout", !.sig = sig, !.todo = todo]
             p == [o EXCEPT !.signaled = {}]
  <2>1. loop' = [loop EXCEPT ![l] = n] /\ obj' = [obj EXCEPT ![f] = p]
    BY <1>1, <1>4 DEF RunLoopPerform, IsValid
  <2>2. sig \in SUBSET Types /\ todo \in SUBSET Types
    <3> HIDE DEF o
    <3> QED BY <1>2 DEF FileDescriptor, o
  <2>3. n \in LoopState /\ n.at = "callout" /\ n.f = f /\ n.sig = sig /\ n.todo = todo
    <3>1. r \in LoopState /\ r.f = f
      BY <1>1, <1>2
    <3> HIDE DEF r, sig, todo
    <3> QED BY <2>2, <3>1 DEF LoopState
  <2>4. /\ p \in FileDescriptor /\ p.state = o.state /\ p.types = o.types
        /\ p.setCount = o.setCount /\ p.source = o.source
    BY <1>2 DEF FileDescriptor
  <2> HIDE DEF n, p
  <2>5. /\ obj' \in [Object -> FileDescriptor]
        /\ \A g \in Object : /\ obj'[g].state = obj[g].state
                             /\ obj'[g].types = obj[g].types
                             /\ obj'[g].setCount = obj[g].setCount
                             /\ obj'[g].source = obj[g].source
                             /\ g # f => obj'[g] = obj[g]
    BY <2>1, <2>4, ObjectSet
  <2>6. loop'[l] = n /\ \A k \in Loop : k # l => loop'[k] = loop[k]
    BY <2>1 DEF Shape
  <2>7. ASSUME NEW g \in Object, NEW t \in Types, Armed(g, t), Noticed(g, t)
        PROVE  Noticed(g, t)'
    <3>1. CASE g # f
      BY <1>1, <1>2, <2>5, <2>6, <2>7, <3>1 DEF Noticed
    <3>2. CASE g = f
      <4>1. CASE t \in o.signaled
        BY <2>3, <2>6, <2>7, <3>2, <4>1 DEF Noticed, Armed
      <4>2. CASE t \notin o.signaled
        <5>1. <<g, t>> \in mgr.sel \/ \E k \in Loop : loop[k].f = f /\ t \in loop[k].todo /\ k # l
          BY <1>2, <2>7, <3>2, <4>2 DEF Noticed
        <5> QED BY <1>2, <2>6, <3>2, <5>1 DEF Noticed
      <4> QED BY <4>1, <4>2
    <3> QED BY <3>1, <3>2
  <2>8. n.todo \subseteq n.sig
    BY <2>3
  <2> QED BY <1>2, <2>1, <2>3, <2>5, <2>7, <2>8, LoopMoves
<1> QED BY <1>3, <1>4

\* A callout disarms the type it is for.
LEMMA CalloutKeeps ==
  ASSUME DescriptorInv, NEW l \in Loop, NEW t \in Types, NEW x,
         x = obj[loop[l].f], DoCallBack(l, t, x, x)
  PROVE  DescriptorInv'
<1> USE DEF DescriptorInv
<1>1. PICK f \in Object : f = loop[l].f
  BY DEF DoCallBack, Shape
<1> DEFINE r == loop[l]
           n == [r EXCEPT !.todo = @ \ {t}, !.out = TRUE]
<1>2. /\ DisableCallBacks(f, obj[f], obj[f], {t}) /\ UNCHANGED <<mapLock, mgr, open>>
      /\ loop' = [loop EXCEPT ![l] = n] /\ r \in LoopState
  BY <1>1 DEF DoCallBack, Shape
<1>3. /\ n \in LoopState /\ n.at = r.at /\ n.f = r.f /\ n.sig = r.sig
      /\ n.todo = r.todo \ {t}
  <2> HIDE DEF r
  <2> QED BY <1>2 DEF LoopState
<1> HIDE DEF n
<1>4. /\ loop' \in [Loop -> LoopState] /\ loop'[l] = n
      /\ \A k \in Loop : k # l => loop'[k] = loop[k]
  BY <1>2, <1>3 DEF Shape
<1>5. \A k \in Loop : /\ loop'[k].at = loop[k].at /\ loop'[k].f = loop[k].f
                      /\ loop'[k].sig = loop[k].sig
                      /\ loop'[k].todo \subseteq loop[k].todo
                      /\ \A u \in loop[k].todo :
                            u \in loop'[k].todo \/ (loop[k].f = f /\ u \in {t})
  BY <1>1, <1>3, <1>4
<1> QED BY <1>2, <1>4, <1>5, DisableLoopKeeps

\* Enabling what is enabled already, without force, changes nothing.
LEMMA PerformDoneKeeps ==
  ASSUME DescriptorInv, NEW l \in Loop, NEW x,
         x = obj[loop[l].f], PerformDone(l, x)
  PROVE  DescriptorInv'
<1> USE DEF DescriptorInv
<1>1. PICK f \in Object : f = loop[l].f
  BY DEF PerformDone, Shape
<1> DEFINE o == obj[f]
           ts == loop[l].sig \cap o.types
           n == Resting(TRUE)
<1>2. /\ loop[l].todo = {} \/ ~IsValid(f)
      /\ loop[l].at = "callout" /\ EnableCallBacks(f, o, o, ts, FALSE)
      /\ loop' = [loop EXCEPT ![l] = n]
      /\ UNCHANGED <<mapLock, mgr, open>>
  BY <1>1 DEF PerformDone, IsValid
<1>3. o \in FileDescriptor
  BY DEF Shape
<1>4. UNCHANGED <<obj, fds, listed, pipe>>
  <2> HIDE DEF o
  <2>1. ts \ o.types = {}
    OBVIOUS
  <2> HIDE DEF ts
  <2>2. /\ obj' = [obj EXCEPT ![f] = o]
        /\ listed' = listed /\ SetBits(Bits(f, {}))
    BY <1>2, <2>1 DEF EnableCallBacks
  <2>4. obj' = obj
    BY <2>2 DEF Shape, o
  <2>5. Bits(f, {}) = {}
    BY DEF Bits
  <2>6. fds' = fds /\ pipe' = pipe + Cardinality({} \ fds)
    BY <2>2, <2>5 DEF SetBits
  <2>7. {} \ fds = {} /\ Cardinality({}) = 0
    BY FS_EmptySet
  <2> QED BY <2>2, <2>4, <2>6, <2>7 DEF Shape
<1>5. n \in LoopState /\ n.at = "none" /\ n.todo = {}
  BY RestState
<1> HIDE DEF n
<1>6. loop'[l] = n /\ \A k \in Loop : k # l => loop'[k] = loop[k]
  BY <1>2 DEF Shape
<1>7. ASSUME NEW g \in Object, NEW t \in Types, Armed(g, t), Noticed(g, t)
      PROVE  Noticed(g, t)'
  <2>1. g = f => loop[l].todo = {}
    BY <1>2, <1>7 DEF Armed
  <2> QED BY <1>1, <1>2, <1>4, <1>6, <1>7, <2>1 DEF Noticed
<1> QED BY <1>2, <1>4, <1>5, <1>7, LoopMoves DEF Shape

-----------------------------------------------------------------------------
(***************************************************************************)
(* The theorems                                                            *)
(***************************************************************************)
LEMMA StepInv ==
  ASSUME DescriptorInv, late = Nobody, Next
  PROVE  DescriptorInv'
<1>1. CASE Client
  <2>1. ASSUME NEW f \in Object, NEW ts \in SUBSET Types \ {{}}, Enable(f, ts) \/ Disable(f, ts)
        PROVE  DescriptorInv'
    BY <2>1, EnableKeeps, DisableKeeps
  <2>2. ASSUME NEW f \in Object, NEW l \in Loop, Schedule(f, l) \/ Cancel(f, l)
        PROVE  DescriptorInv'
    BY <2>2, ScheduleKeeps, CancelKeeps
  <2>3. ASSUME NEW n \in Native, Close(n) PROVE DescriptorInv'
    <3>1. /\ open' \subseteq open /\ UNCHANGED <<obj, fds, listed, pipe, mapLock, mgr, loop>>
      BY <2>3 DEF Close, sets
    <3>2. NoSpin'
      BY <3>1 DEF DescriptorInv, NoSpin, ManagerNeverSpins
    <3> QED BY <3>1, <3>2, ManagerMoves DEF DescriptorInv, Shape, Phased
  <2> QED BY <1>1, <2>1, <2>2, <2>3, CreateKeeps, SourceKeeps, ClientInvalidates DEF Client
<1>2. CASE Manager
  BY <1>2, SelectKeeps, InvalidateBadKeeps, ProcessKeeps, ReadyKeeps, HandleKeeps,
     WakeupKeeps DEF Manager
<1>3. ASSUME NEW l \in Loop, LoopStep(l) PROVE DescriptorInv'
  <2> DEFINE x == obj[loop[l].f]
  <2>1. CASE Sleep(l) \/ CollectSource(l) \/ DoSource0(l)
    BY <2>1, CollectKeeps, DoSourceKeeps
  <2>2. CASE PerformStep(l, x, x)
    <3> HIDE DEF x
    <3>1. x = obj[loop[l].f]
      BY DEF x
    <3> QED BY <2>2, <3>1, PerformKeeps, CalloutKeeps, PerformDoneKeeps DEF PerformStep
  <2> QED BY <1>3, <2>1, <2>2 DEF LoopStep
<1>4. CASE UnlockAgain
  BY <1>4, UnlockKeeps
<1>5. ~LateSection
  BY DEF LateSection
<1> QED BY <1>1, <1>2, <1>3, <1>4, <1>5 DEF Next

\* Until a lock is freed under a section there is no late section, and every
\* section of an object's lock is one step of its own.
UntilTorn == torn \in BOOLEAN /\ (~torn => late = Nobody /\ DescriptorInv)

LEMMA NextKeeps ==
  ASSUME UntilTorn, [Next]_vars
  PROVE  UntilTorn'
<1>1. CASE Next
  <2>1. torn' \in BOOLEAN /\ (torn => torn')
    BY <1>1 DEF Next, PassTime, UnlockAgain, LateSection, UntilTorn
  <2>2. ASSUME ~torn' PROVE late' = Nobody /\ DescriptorInv'
    <3>1. ~torn /\ late = Nobody /\ DescriptorInv
      BY <2>1, <2>2 DEF UntilTorn
    <3>2. late' = Nobody
      BY <1>1, <2>2, <3>1 DEF Next, PassTime, UnlockAgain, LateSection
    <3> QED BY <1>1, <3>1, <3>2, StepInv
  <2> QED BY <2>1, <2>2 DEF UntilTorn
<1>2. CASE UNCHANGED vars
  <2>1. UNCHANGED <<obj, fds, listed, pipe, mapLock, mgr, loop, open, late, torn>>
    BY <1>2 DEF vars, locks
  <2>2. DescriptorInv => NoSpin'
    BY <2>1 DEF DescriptorInv, NoSpin, ManagerNeverSpins
  <2>3. DescriptorInv => DescriptorInv'
    BY <2>1, <2>2, ManagerMoves DEF DescriptorInv, Shape, Phased
  <2> QED BY <2>1, <2>3 DEF UntilTorn
<1> QED BY <1>1, <1>2

\* The invariant the theorems below are read from.
THEOREM InductiveInvariant == Spec => []UntilTorn
<1>1. Init => UntilTorn
  BY InitInv DEF Init, UntilTorn
<1>2. UntilTorn /\ [Next]_vars => UntilTorn'
  BY NextKeeps
<1> QED BY <1>1, <1>2, PTL DEF Spec

\* The state has its types, as long as the second unlock of HandleRead has
\* freed no lock under a section.
THEOREM Typed == Spec => [](~torn => TypeOK)
<1>1. UntilTorn => (~torn => TypeOK)
  <2> SUFFICES ASSUME DescriptorInv, late = Nobody, torn \in BOOLEAN PROVE TypeOK
    BY DEF UntilTorn
  <2>1. \A f \in Object : obj[f] \in FileDescriptor
    BY DEF DescriptorInv, Shape
  <2>2. \A l \in Loop : loop[l] \in LoopState /\ loop[l].todo \subseteq loop[l].sig
    BY DEF DescriptorInv, Shape
  <2>3. mgr \in ManagerState
    BY DEF DescriptorInv, Shape
  <2>4. /\ mgr.at \in {"prepare", "select", "invalidate", "process", "collect", "handle",
                       "unlock"}
        /\ mgr.watch \subseteq Native \X Types /\ mgr.hits \subseteq Native \X Types
        /\ mgr.sel \subseteq Object \X Types /\ mgr.bad \subseteq Object
        /\ mgr.cur \in Object \cup {None} /\ mgr.copy \in Seq(Loop)
        /\ mgr.woken \in BOOLEAN /\ mgr.same \in BOOLEAN
        /\ mgr.reading \in BOOLEAN
    BY <2>3 DEF ManagerState
  <2>5. \A o \in FileDescriptor : ObjectOK(o)
    BY DEF FileDescriptor, ObjectOK
  <2>6. \A s \in LoopState :
          /\ s.at \in {"none", "collected", "perform", "callout"}
          /\ s.f \in Object \cup {None} /\ s.sig \subseteq Types
          /\ s.awake \in BOOLEAN /\ s.out \in BOOLEAN
    BY DEF LoopState
  <2>7. /\ late.f = None /\ late.by = None /\ late.room \in Nat
        /\ late.o \in FileDescriptor
    BY FS_EmptySet DEF Nobody, Absent, FileDescriptor
  <2> QED BY <2>1, <2>2, <2>4, <2>5, <2>6, <2>7 DEF DescriptorInv, Shape, TypeOK
<1> QED BY <1>1, InductiveInvariant, PTL

\* An armed type is watched, or somebody is at work on it: the one-shot
\* manager and the re-enabling of the run loops can forget one between them,
\* whatever clients do meanwhile, only after HandleRead's second unlock has
\* freed a lock under a section.
THEOREM ArmedIsForgottenOnlyByDoubleUnlock == Spec => []LostOnlyByDoubleUnlock
<1>1. UntilTorn => LostOnlyByDoubleUnlock
  BY DEF UntilTorn, DescriptorInv, LostOnlyByDoubleUnlock
<1> QED BY <1>1, InductiveInvariant, PTL

\* A bit is left in the manager's sets for an object that does not want it
\* only after that unlock has freed a lock under a section.
THEOREM UnwantedIsWatchedOnlyByDoubleUnlock == Spec => []StrayOnlyByDoubleUnlock
<1>1. UntilTorn => StrayOnlyByDoubleUnlock
  BY DEF UntilTorn, DescriptorInv, StrayOnlyByDoubleUnlock
<1> QED BY <1>1, InductiveInvariant, PTL

\* A failed select makes the manager read an empty pipe only after that unlock
\* has freed a lock under a section.
THEOREM ManagerSpinsOnlyByDoubleUnlock == Spec => []SpinsOnlyByDoubleUnlock
<1>1. UntilTorn => SpinsOnlyByDoubleUnlock
  BY DEF UntilTorn, DescriptorInv, NoSpin, SpinsOnlyByDoubleUnlock
<1> QED BY <1>1, InductiveInvariant, PTL
=============================================================================
