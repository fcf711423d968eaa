----------------------------- MODULE CFRuntime -----------------------------
(***************************************************************************)
(* Reference counts: CFRetain and CFRelease of objects that several        *)
(* threads share, in the build with 64-bit pointers, where the count is a  *)
(* word of its own, and in the one with 32-bit pointers, where it is a     *)
(* byte whose upper part overflows into a table of external counts.        *)
(*                                                                         *)
(* The finalizer that runs inside the last release belongs to the object's *)
(* class; CFUUID, which extends this module, has one.  Constant objects    *)
(* (count 0) and classes that count for themselves are left out.           *)
(***************************************************************************)
EXTENDS Integers, FiniteSets

CONSTANTS
    Thread, Object,
    Half,     \* half of what the byte's lower part counts to (64)
    MaxRefs,  \* bound on the references one thread owns to one object
    None

ASSUME RuntimeAssumption ==
    /\ None \notin Thread /\ None \notin Object /\ IsFiniteSet(Thread)
    /\ Half \in Nat \ {0, 1} /\ MaxRefs \in Nat \ {0}

VARIABLES
    lp64,     \* is this the 64-bit build?
    rc,       \* _rc, or the byte CF_RC_BITS of _cfinfo
    ext,      \* __NSRetainCounters: the external counts
    extLock,  \* __CFRuntimeExternRefCountTableLock: the thread that has it
    life,     \* "new", "live" or "freed"
    refs,     \* refs[t][o]: the references thread t owns
    call      \* call[t]: t's retain, release or create, if any
runtimeVars == <<lp64, rc, ext, extLock, life, refs, call>>

\* The byte's upper bit says that there is an external count.
Flag == 2 * Half
Low(byte) == IF byte >= Flag THEN byte - Flag ELSE byte

NoCall == [op |-> "none", obj |-> None, seen |-> 0, phase |-> "idle"]
Calling(op, o, phase) == [op |-> op, obj |-> o, seen |-> 0, phase |-> phase]

InitRuntime ==
    /\ lp64 \in BOOLEAN
    /\ rc = [o \in Object |-> 0]
    /\ ext = [o \in Object |-> 0]
    /\ extLock = None
    /\ life = [o \in Object |-> "new"]
    /\ refs = [t \in Thread |-> [o \in Object |-> 0]]
    /\ call = [t \in Thread |-> NoCall]

At(t, phase) == call[t].phase = phase
Obj(t) == call[t].obj
\* A retain of memory that was freed goes no further: what it does from there
\* on is not defined.
OnLive(t, phase) == At(t, phase) /\ life[Obj(t)] = "live"
Go(t, phase) == call' = [call EXCEPT ![t].phase = phase]
Own(t, n) == refs' = [refs EXCEPT ![t][Obj(t)] = @ + n]

\* OSAtomicCompareAndSwap32Barrier, from what the call has read.
CAS(t, new) == rc[Obj(t)] = call[t].seen /\ rc' = [rc EXCEPT ![Obj(t)] = new]
CASFails(t) == rc[Obj(t)] # call[t].seen

\* A create still has its lock to give back when its retain is over.
Returned(t) == IF call[t].op = "create" THEN Calling("create", Obj(t), "unlock")
                                        ELSE NoCall
Return(t) == call' = [call EXCEPT ![t] = Returned(t)]

-----------------------------------------------------------------------------
(***************************************************************************)
(* _CFRuntimeCreateInstance                                                *)
(***************************************************************************)
Fresh == CHOOSE o \in Object : life[o] = "new"
CreateInstance == /\ \E o \in Object : life[o] = "new"
                  /\ rc' = [rc EXCEPT ![Fresh] = 1]
                  /\ life' = [life EXCEPT ![Fresh] = "live"]

-----------------------------------------------------------------------------
(***************************************************************************)
(* _CFRetain                                                               *)
(***************************************************************************)
Retain(t, o) ==
    /\ At(t, "idle") /\ refs[t][o] \in 1..MaxRefs - 1
    /\ call' = [call EXCEPT ![t] = Calling("retain", o, "retain")]
    /\ UNCHANGED <<lp64, rc, ext, extLock, life, refs>>

\* The byte's lower part has no room for one more.
Overflows(seen) == ~lp64 /\ Low(seen) = Flag - 1

RetainRead(t) ==
    /\ OnLive(t, "retain")
    /\ call' = [call EXCEPT ![t].seen = rc[Obj(t)],
                            ![t].phase = IF Overflows(rc[Obj(t)])
                                         THEN "carry" ELSE "retain cas"]
    /\ UNCHANGED <<lp64, rc, ext, extLock, life, refs>>

\* Mutant of RetainCAS: a plain store.
RetainStore(t) ==
    /\ OnLive(t, "retain cas")
    /\ rc' = [rc EXCEPT ![Obj(t)] = call[t].seen + 1]
    /\ Own(t, 1) /\ Return(t)
    /\ UNCHANGED <<lp64, ext, extLock, life>>

RetainCAS(t) ==
    /\ OnLive(t, "retain cas")
    /\ \/ CAS(t, call[t].seen + 1) /\ Own(t, 1) /\ Return(t)
       \/ CASFails(t) /\ Go(t, "retain") /\ UNCHANGED <<rc, refs>>
    /\ UNCHANGED <<lp64, ext, extLock, life>>

\* Half of the lower part and the flag stay, the rest is carried.
RetainCarry(t) ==
    /\ OnLive(t, "carry") /\ extLock = None
    /\ \/ /\ CAS(t, Flag + Half) /\ Own(t, 1)
          /\ extLock' = t /\ Go(t, "carried")
       \/ CASFails(t) /\ Go(t, "retain") /\ UNCHANGED <<rc, refs, extLock>>
    /\ UNCHANGED <<lp64, ext, life>>

\* Mutant of RetainCarried: the external count is forgotten.
RetainCarriedNowhere(t) ==
    /\ At(t, "carried")
    /\ extLock' = None
    /\ Return(t)
    /\ UNCHANGED <<lp64, rc, ext, life, refs>>

RetainCarried(t) ==
    /\ At(t, "carried")
    /\ ext' = [ext EXCEPT ![Obj(t)] = @ + 1]
    /\ extLock' = None
    /\ Return(t)
    /\ UNCHANGED <<lp64, rc, life, refs>>

-----------------------------------------------------------------------------
(***************************************************************************)
(* _CFRelease                                                              *)
(***************************************************************************)
Release(t, o) ==
    /\ At(t, "idle") /\ refs[t][o] > 0
    /\ call' = [call EXCEPT ![t] = Calling("release", o, "release")]
    /\ UNCHANGED <<lp64, rc, ext, extLock, life, refs>>

ReleaseRead(t) ==
    LET seen == rc[Obj(t)]
    IN  /\ At(t, "release")
        /\ call' = [call EXCEPT ![t].seen = seen,
                                ![t].phase =
              IF seen = 1 THEN "finalize"
              ELSE IF ~lp64 /\ seen = Flag THEN "borrow" ELSE "release cas"]
        /\ UNCHANGED <<lp64, rc, ext, extLock, life, refs>>

\* Mutant of ReleaseCAS: a plain store.
ReleaseStore(t) ==
    /\ At(t, "release cas")
    /\ rc' = [rc EXCEPT ![Obj(t)] = call[t].seen - 1]
    /\ Own(t, -1) /\ Return(t)
    /\ UNCHANGED <<lp64, ext, extLock, life>>

ReleaseCAS(t) ==
    /\ At(t, "release cas")
    /\ \/ CAS(t, call[t].seen - 1) /\ Own(t, -1) /\ Return(t)
       \/ CASFails(t) /\ Go(t, "release") /\ UNCHANGED <<rc, refs>>
    /\ UNCHANGED <<lp64, ext, extLock, life>>

\* What the byte becomes when one unit of the external count is taken back.
Borrowed(o) == IF ext[o] = 1 THEN Half - 1 ELSE Flag + Half - 1

ReleaseBorrow(t) ==
    /\ At(t, "borrow") /\ extLock = None
    /\ \/ /\ CAS(t, Borrowed(Obj(t))) /\ Own(t, -1)
          /\ extLock' = t /\ Go(t, "borrowed")
       \/ CASFails(t) /\ Go(t, "release") /\ UNCHANGED <<rc, refs, extLock>>
    /\ UNCHANGED <<lp64, ext, life>>

ReleaseBorrowed(t) ==
    /\ At(t, "borrowed")
    /\ ext' = [ext EXCEPT ![Obj(t)] = @ - 1]
    /\ extLock' = None
    /\ Return(t)
    /\ UNCHANGED <<lp64, rc, life, refs>>

\* Mutant of Free: the count is not looked at again.
FreeUnchecked(t) ==
    /\ At(t, "finalized")
    /\ life' = [life EXCEPT ![Obj(t)] = "freed"]
    /\ Own(t, -1) /\ Return(t)
    /\ UNCHANGED <<lp64, rc, ext, extLock>>

\* After the finalizer: the object goes, unless it was retained meanwhile.
\* With 64 bits the count is swapped to 0; when that fails the loop's own
\* swap, from the 1 read before, is tried before the count is read again.
\* With 32 bits the byte is only looked at.
Free(t) ==
    /\ At(t, "finalized")
    /\ \/ /\ rc[Obj(t)] = 1
          /\ rc' = [rc EXCEPT ![Obj(t)] = IF lp64 THEN 0 ELSE @]
          /\ life' = [life EXCEPT ![Obj(t)] = "freed"]
          /\ Own(t, -1) /\ Return(t)
       \/ /\ rc[Obj(t)] # 1
          /\ Go(t, IF lp64 THEN "release cas" ELSE "release")
          /\ UNCHANGED <<rc, life, refs>>
    /\ UNCHANGED <<lp64, ext, extLock>>

Step(t) ==
    \/ RetainRead(t) \/ RetainCAS(t) \/ RetainCarry(t) \/ RetainCarried(t)
    \/ ReleaseRead(t) \/ ReleaseCAS(t) \/ ReleaseBorrow(t)
    \/ ReleaseBorrowed(t) \/ Free(t)

-----------------------------------------------------------------------------
RuntimeTypeOK ==
    /\ lp64 \in BOOLEAN
    /\ rc \in [Object -> Nat]
    /\ ~lp64 => \A o \in Object : rc[o] < 2 * Flag
    /\ ext \in [Object -> Nat]
    /\ extLock \in Thread \cup {None}
    /\ life \in [Object -> {"new", "live", "freed"}]
    /\ refs \in [Thread -> [Object -> 0..MaxRefs]]
    /\ \A t \in Thread : /\ call[t].obj \in Object \cup {None}
                         /\ At(t, "idle") <=> call[t] = NoCall

\* __CFGetFullRetainCount, with what a thread has still to do under the lock.
RetainCount(o) ==
    LET Has(phase) == {t \in Thread : At(t, phase) /\ Obj(t) = o}
    IN  IF lp64 THEN rc[o]
        ELSE Low(rc[o])
             + Half * (ext[o] + Cardinality(Has("carried"))
                              - Cardinality(Has("borrowed")))

\* The references to o, numbered for each thread that owns some.
Reference(o) == {r \in Thread \X (1..MaxRefs) : r[2] <= refs[r[1]][o]}
Owned(o) == Cardinality(Reference(o))

(***************************************************************************)
(* No two threads are finalizing one object, so that none is freed twice.  *)
(***************************************************************************)
FinalizedByOne ==
    \A t, u \in Thread :
        /\ \/ At(t, "finalize") \/ At(t, "finalized")
        /\ \/ At(u, "finalize") \/ At(u, "finalized")
        /\ Obj(t) = Obj(u)
        => t = u
=============================================================================
