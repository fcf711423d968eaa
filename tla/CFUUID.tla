------------------------------- MODULE CFUUID -------------------------------
(***************************************************************************)
(* UUIDs, which are uniqued: a table that does not retain them gives out   *)
(* the instance with the same bytes, while the last release of an instance *)
(* takes it out of the table in its finalizer.  This is the build without  *)
(* blocks, in which the finalizer does not take the table's lock.          *)
(***************************************************************************)
EXTENDS CFRuntime

CONSTANTS
    Bytes,
    Careful   \* is a constant asked for before an instance with its bytes?

ASSUME UUIDAssumption == Careful \in BOOLEAN

VARIABLES
    uniqued,    \* _uniquedUUIDs
    lock,       \* _uniquedUUIDsLock: the thread that has it
    bytes,      \* the bytes of each object
    constants   \* constants[t]: instances t was given as constants
uuidVars == <<uniqued, lock, bytes, constants>>
vars == <<runtimeVars, uuidVars>>

Init ==
    /\ InitRuntime
    /\ uniqued = [b \in Bytes |-> None]
    /\ lock = None
    /\ bytes = [o \in Object |-> None]
    /\ constants = [t \in Thread |-> {}]

-----------------------------------------------------------------------------
\* __CFUUIDCreateWithBytesPrimitive, of bytes that are not in the table: the
\* whole critical section.
CreateNew(t, b) ==
    /\ At(t, "idle") /\ lock = None /\ uniqued[b] = None
    /\ CreateInstance
    /\ uniqued' = [uniqued EXCEPT ![b] = Fresh]
    /\ bytes' = [bytes EXCEPT ![Fresh] = b]
    /\ UNCHANGED <<lp64, ext, extLock, call, lock>>

CreateWithBytes(t, b) ==
    /\ CreateNew(t, b)
    /\ refs' = [refs EXCEPT ![t][Fresh] = 1]
    /\ UNCHANGED constants

\* CFUUIDGetConstantUUIDWithBytes: the first reference is nobody's.
ConstantWithBytes(t, b) ==
    /\ CreateNew(t, b)
    /\ constants' = [constants EXCEPT ![t] = @ \cup {Fresh}]
    /\ UNCHANGED refs

\* The instance is in the table: it is retained while the lock is held.
FindUUID(t, b) ==
    /\ At(t, "idle") /\ lock = None /\ uniqued[b] # None
    /\ refs[t][uniqued[b]] < MaxRefs
    /\ lock' = t
    /\ call' = [call EXCEPT ![t] = Calling("create", uniqued[b], "retain")]
    /\ UNCHANGED <<lp64, rc, ext, extLock, life, refs,
                   uniqued, bytes, constants>>

Unlock(t) ==
    /\ At(t, "unlock")
    /\ lock' = None
    /\ call' = [call EXCEPT ![t] = NoCall]
    /\ UNCHANGED <<lp64, rc, ext, extLock, life, refs,
                   uniqued, bytes, constants>>

Immortal(o) == \E t \in Thread : o \in constants[t]

\* The instance is in the table: as a constant it is not retained.
FindConstant(t, b) ==
    /\ At(t, "idle") /\ lock = None /\ uniqued[b] # None
    /\ Careful => Immortal(uniqued[b])
    /\ constants' = [constants EXCEPT ![t] = @ \cup {uniqued[b]}]
    /\ UNCHANGED <<runtimeVars, uniqued, lock, bytes>>

\* Mutant of Deallocate: the instance stays in the table.
DeallocateOnly(t) ==
    /\ At(t, "finalize") /\ Go(t, "finalized")
    /\ UNCHANGED <<lp64, rc, ext, extLock, life, refs, uuidVars>>

\* __CFUUIDDeallocate: whatever has the same bytes is taken out, without the
\* lock that a create may have.
Deallocate(t) ==
    /\ At(t, "finalize")
    /\ uniqued' = [uniqued EXCEPT ![bytes[Obj(t)]] = None]
    /\ Go(t, "finalized")
    /\ UNCHANGED <<lp64, rc, ext, extLock, life, refs,
                   lock, bytes, constants>>

Next ==
    \E t \in Thread :
        \/ \E b \in Bytes :
              \/ CreateWithBytes(t, b) \/ ConstantWithBytes(t, b)
              \/ FindUUID(t, b) \/ FindConstant(t, b)
        \/ \E o \in Object : (Retain(t, o) \/ Release(t, o)) /\ UNCHANGED uuidVars
        \/ Step(t) /\ UNCHANGED uuidVars
        \/ Deallocate(t)
        \/ Unlock(t)

Spec == Init /\ [][Next]_vars

-----------------------------------------------------------------------------
TypeOK ==
    /\ RuntimeTypeOK
    /\ uniqued \in [Bytes -> Object \cup {None}]
    /\ lock \in Thread \cup {None}
    /\ bytes \in [Object -> Bytes \cup {None}]
    /\ constants \in [Thread -> SUBSET Object]

\* The instances that a thread owns a reference to, was given as constants or
\* retains or releases ("borrowed" has the address only).
Owns(t, o) == \/ refs[t][o] > 0 \/ o \in constants[t]
              \/ /\ Obj(t) = o /\ call[t].op \in {"retain", "release"}
                 /\ ~At(t, "borrowed")

\* What a create has found in the table and returns is in use as well.
InUse(t, o) == Owns(t, o) \/ (Obj(t) = o /\ call[t].op = "create")

(***************************************************************************)
(* "The main point is to allow finalizers to be able to manage the removal *)
(* of objects from uniquing caches, which may race with other threads"     *)
(* that find them there (CFRuntime.c:1567): nothing in use is freed, what  *)
(* a create has just found in the table included.                          *)
(***************************************************************************)
HeldIsLive ==
    \A t \in Thread, o \in Object : InUse(t, o) => life[o] = "live"

(***************************************************************************)
(* Only a create is ever left with a freed instance: while creates that    *)
(* find it, retains and releases race with its finalizer, nothing that a   *)
(* thread owns, has as a constant, retains or releases is freed.           *)
(***************************************************************************)
OwnedIsLive ==
    \A t \in Thread, o \in Object : Owns(t, o) => life[o] = "live"

(***************************************************************************)
(* CFUUIDGetConstantUUIDWithBytes "returns an immortal CFUUIDRef".  Only    *)
(* so if no ordinary instance with these bytes was there before.           *)
(***************************************************************************)
ConstantIsImmortal ==
    \A t \in Thread : \A o \in constants[t] : life[o] = "live"

(***************************************************************************)
(* The table has no instance that was freed.                               *)
(***************************************************************************)
TableIsLive ==
    \A b \in Bytes : uniqued[b] # None => life[uniqued[b]] = "live"

(***************************************************************************)
(* The count of a live object is the number of references to it, across    *)
(* the carries and borrows of the 32-bit build.                            *)
(***************************************************************************)
CountIsExact ==
    \A o \in Object :
        life[o] = "live" =>
            RetainCount(o) = Owned(o) + (IF Immortal(o) THEN 1 ELSE 0)
=============================================================================
