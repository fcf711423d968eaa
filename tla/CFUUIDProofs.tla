---------------------------- MODULE CFUUIDProofs ----------------------------
(***************************************************************************)
(* Theorems about reference counts and uniqued instances, for any number   *)
(* of threads, objects and references: if constants are asked for before   *)
(* ordinary instances with their bytes, the counts are exact in the 64-bit *)
(* and in the 32-bit layout, nothing owned is freed, and nothing is        *)
(* finalized by two threads.                                               *)
(***************************************************************************)
EXTENDS CFUUID, FiniteSetTheorems, TLAPS

RetainPhase == {"retain", "retain cas", "carry", "carried"}
ReleasePhase == {"release", "release cas", "finalize", "finalized", "borrow", "borrowed"}
Phase == RetainPhase \cup ReleasePhase \cup {"idle", "unlock"}

\* The phases before a retain has its reference.
Wanting == {"retain", "retain cas", "carry"}

\* The phases with what only the last release does.
Finalizing == {"finalize", "finalized"}

\* The phases with the lock of the external counts.
Posting == {"carried", "borrowed"}

Call == [op : {"none", "retain", "release", "create"}, obj : Object \cup {None},
         seen : Nat, phase : Phase]

Shape ==
    /\ lp64 \in BOOLEAN
    /\ rc \in [Object -> Nat]
    /\ ext \in [Object -> Nat]
    /\ extLock \in Thread \cup {None}
    /\ life \in [Object -> {"new", "live", "freed"}]
    /\ refs \in [Thread -> [Object -> 0..MaxRefs]]
    /\ call \in [Thread -> Call]
    /\ uniqued \in [Bytes -> Object \cup {None}]
    /\ lock \in Thread \cup {None}
    /\ bytes \in [Object -> Bytes \cup {None}]
    /\ constants \in [Thread -> SUBSET Object]

\* The phases that a call goes through.
CallOK(c) ==
    /\ c.phase = "idle" <=> c = NoCall
    /\ c.phase # "idle" => c.obj \in Object
    /\ c.op = "none" => c.phase = "idle"
    /\ c.op = "retain" => c.phase \in RetainPhase
    /\ c.op = "create" => c.phase \in RetainPhase \cup {"unlock"}
    /\ c.op = "release" => c.phase \in ReleasePhase

\* What a call has seen when it swaps.
SeenOK(c) ==
    /\ c.phase = "retain cas" => ~Overflows(c.seen)
    /\ c.phase = "carry" => Overflows(c.seen)
    /\ c.phase = "borrow" => ~lp64 /\ c.seen = Flag
    /\ c.phase = "release cas" /\ ~lp64 => c.seen \notin {1, Flag}

\* What gives a thread the right to work on an object is a reference.  What is
\* finalized is not in the table.
RightOK(t, c) ==
    /\ c.op = "retain" => refs[t][c.obj] > 0
    /\ c.op = "release" /\ c.phase # "borrowed" => refs[t][c.obj] > 0
    /\ c.phase \in Wanting => refs[t][c.obj] < MaxRefs
    /\ c.phase \in {"carried", "unlock"} => refs[t][c.obj] > 0
    /\ c.phase = "finalized" => \A b \in Bytes : uniqued[b] # c.obj

Calls == \A t \in Thread : CallOK(call[t]) /\ SeenOK(call[t]) /\ RightOK(t, call[t])

\* Who has the two locks.
Locks ==
    \A t \in Thread :
        /\ extLock = t <=> call[t].phase \in Posting
        /\ lock = t <=> call[t].op = "create"

\* References, constants and entries are to live objects, and nobody works on
\* one that is not created yet.
HeldOK(o) ==
    /\ \A t \in Thread : /\ refs[t][o] > 0 \/ o \in constants[t] => life[o] = "live"
                         /\ call[t].obj = o => life[o] # "new"
    /\ \A b \in Bytes : uniqued[b] = o => life[o] = "live" /\ bytes[o] = b
    /\ life[o] # "new" => bytes[o] \in Bytes
    /\ life[o] = "new" => ext[o] = 0

\* The external count, and what a thread is about to do to it.
On(o, phase) == \E t \in Thread : call[t].phase = phase /\ call[t].obj = o
Bit(b) == IF b THEN 1 ELSE 0
Extern(o) == ext[o] + Bit(On(o, "carried")) - Bit(On(o, "borrowed"))

Count(o) == IF lp64 THEN rc[o] ELSE Low(rc[o]) + Half * Extern(o)

\* The count is exact, and the flag is set as long as there is an external one.
CountOK(o) ==
    /\ Extern(o) \in Nat
    /\ ~lp64 => rc[o] < 2 * Flag
    /\ life[o] = "live" => /\ ~lp64 => (rc[o] >= Flag <=> Extern(o) > 0)
                           /\ Count(o) = Owned(o) + Bit(Immortal(o))

UUIDInv == /\ Shape /\ Calls /\ Locks /\ FinalizedByOne
           /\ \A o \in Object : HeldOK(o) /\ CountOK(o)

-----------------------------------------------------------------------------
(***************************************************************************)
(* References                                                              *)
(***************************************************************************)

\* References are finitely many.
LEMMA ReferencesFinite ==
  ASSUME NEW S \in SUBSET (Thread \X (1..MaxRefs))
  PROVE  IsFiniteSet(S) /\ Cardinality(S) \in Nat
<1>1. IsFiniteSet(1..MaxRefs)
  BY RuntimeAssumption, FS_Interval
<1>2. IsFiniteSet(Thread \X (1..MaxRefs))
  BY RuntimeAssumption, <1>1, FS_Product
<1>3. IsFiniteSet(S)
  BY <1>2, FS_Subset
<1> QED BY <1>3, FS_CardinalityType

\* A thread that owns a reference is counted, and if it is the only one no
\* other thread has any.
LEMMA OwnedBounds ==
  ASSUME Shape, NEW o \in Object
  PROVE  /\ Owned(o) \in Nat
         /\ \A t \in Thread : refs[t][o] > 0 => Owned(o) > 0
         /\ \A t, u \in Thread :
              Owned(o) = 1 /\ refs[t][o] > 0 /\ refs[u][o] > 0 => t = u
<1>1. PICK S : S = Reference(o) OBVIOUS
<1>2. S \in SUBSET (Thread \X (1..MaxRefs))
  BY <1>1 DEF Reference
<1>3. IsFiniteSet(S) /\ Cardinality(S) \in Nat
  BY <1>2, ReferencesFinite
<1>4. \A t \in Thread : refs[t][o] > 0 => <<t, 1>> \in S
  BY <1>1, RuntimeAssumption DEF Shape, Reference
<1>5. Cardinality(S) = 0 => S = {}
  BY <1>3, FS_EmptySet
<1>6. Cardinality(S) = 1 => \E x : S = {x}
  BY <1>3, FS_Singleton
<1>7. \A t, u \in Thread : Cardinality(S) = 1 /\ <<t, 1>> \in S /\ <<u, 1>> \in S => t = u
  BY <1>6
<1>8. Owned(o) = Cardinality(S)
  BY <1>1 DEF Owned
<1>9. ASSUME NEW t \in Thread, refs[t][o] > 0 PROVE Owned(o) > 0
  <2>1. S # {}
    BY <1>4, <1>9
  <2> QED BY <1>3, <1>5, <1>8, <2>1
<1>10. ASSUME NEW t \in Thread, NEW u \in Thread, Owned(o) = 1, refs[t][o] > 0, refs[u][o] > 0
       PROVE  t = u
  BY <1>4, <1>7, <1>8, <1>10
<1> QED BY <1>3, <1>8, <1>9, <1>10

\* The same after a step.
LEMMA OwnedBoundsNext ==
  ASSUME Shape', NEW o \in Object, Owned(o)' = 0
  PROVE  \A t \in Thread : ~(refs'[t][o] > 0)
<1>1. PICK S : S = Reference(o)' OBVIOUS
<1>2. S \in SUBSET (Thread \X (1..MaxRefs))
  BY <1>1 DEF Reference
<1>3. IsFiniteSet(S) /\ Cardinality(S) = 0
  BY <1>1, <1>2, ReferencesFinite DEF Owned
<1>4. S = {}
  BY <1>3, FS_EmptySet
<1>5. \A t \in Thread : refs'[t][o] > 0 => <<t, 1>> \in S
  BY <1>1, RuntimeAssumption DEF Shape, Reference
<1> QED BY <1>4, <1>5

\* An object without references.
LEMMA NoneOwned ==
  ASSUME Shape, NEW o \in Object, \A t \in Thread : ~(refs[t][o] > 0)
  PROVE  Owned(o) = 0
<1>1. Reference(o) = {}
  BY RuntimeAssumption DEF Shape, Reference
<1>2. Cardinality({}) = 0
  BY FS_EmptySet
<1> QED BY <1>1, <1>2 DEF Owned

\* Thread t takes or gives back references to o.
Adds(t, o, k) == refs' = [refs EXCEPT ![t][o] = refs[t][o] + k]

\* There are n references to o then.
Trades(t, o, n) ==
    /\ refs' \in [Thread -> [Object -> 0..MaxRefs]]
    /\ \A u \in Thread, p \in Object : ~(u = t /\ p = o) => refs'[u][p] = refs[u][p]
    /\ Owned(o)' = n
    /\ \A p \in Object \ {o} : Owned(p)' = Owned(p)

\* One reference more.
LEMMA OwnMore ==
  ASSUME Shape, NEW t \in Thread, NEW o \in Object, refs[t][o] < MaxRefs,
         Adds(t, o, 1)
  PROVE  Trades(t, o, Owned(o) + 1) /\ refs'[t][o] > 0
<1>0. refs' = [refs EXCEPT ![t][o] = refs[t][o] + 1]
  BY DEF Adds
<1> USE RuntimeAssumption, <1>0 DEF Shape
<1>1. refs[t][o] \in Nat /\ MaxRefs \in Nat /\ refs[t][o] + 1 \in 0..MaxRefs
  OBVIOUS
<1>2. /\ refs' \in [Thread -> [Object -> 0..MaxRefs]]
      /\ refs'[t][o] = refs[t][o] + 1
      /\ \A u \in Thread, p \in Object : ~(u = t /\ p = o) => refs'[u][p] = refs[u][p]
  BY <1>1
<1>3. PICK n, S : n = refs[t][o] + 1 /\ S = Reference(o) OBVIOUS
<1>4. Reference(o)' = S \cup {<<t, n>>} /\ <<t, n>> \notin S
  <2>1. ASSUME NEW r \in Thread \X (1..MaxRefs)
        PROVE  r[2] <= refs'[r[1]][o] <=> r[2] <= refs[r[1]][o] \/ r = <<t, n>>
    <3>1. r[1] \in Thread /\ r[2] \in Nat /\ r = <<r[1], r[2]>>
      OBVIOUS
    <3>2. CASE r[1] = t
      <4>1. r = <<t, n>> <=> r[2] = n
        BY <3>1, <3>2
      <4>2. refs'[r[1]][o] = n /\ refs[r[1]][o] = n - 1 /\ n \in Nat
        BY <1>1, <1>2, <1>3, <3>2
      <4>3. r[2] <= n <=> r[2] <= n - 1 \/ r[2] = n
        BY <3>1, <4>2
      <4> QED BY <4>1, <4>2, <4>3
    <3>3. CASE r[1] # t
      BY <1>2, <3>1, <3>3
    <3> QED BY <3>2, <3>3
  <2>2. <<t, n>> \in Thread \X (1..MaxRefs) /\ ~(n <= refs[t][o])
    BY <1>1, <1>3
  <2> QED BY <1>3, <2>1, <2>2 DEF Reference
<1>5. IsFiniteSet(S) /\ Cardinality(S) \in Nat
  <2>1. S \in SUBSET (Thread \X (1..MaxRefs))
    BY <1>3 DEF Reference
  <2> QED BY <2>1, ReferencesFinite
<1>6. Cardinality(S \cup {<<t, n>>}) = Cardinality(S) + 1
  BY <1>4, <1>5, FS_AddElement
<1>7. Owned(o)' = Owned(o) + 1
  BY <1>3, <1>4, <1>6 DEF Owned
<1>8. ASSUME NEW p \in Object \ {o} PROVE Owned(p)' = Owned(p)
  <2>1. Reference(p)' = Reference(p)
    BY <1>2 DEF Reference
  <2> QED BY <2>1 DEF Owned
<1>9. refs'[t][o] > 0
  BY <1>1, <1>2
<1> QED BY <1>2, <1>7, <1>8, <1>9 DEF Trades

\* One reference less.
LEMMA OwnLess ==
  ASSUME Shape, NEW t \in Thread, NEW o \in Object, refs[t][o] > 0,
         Adds(t, o, -1)
  PROVE  Trades(t, o, Owned(o) - 1) /\ refs'[t][o] = refs[t][o] - 1
<1>0. refs' = [refs EXCEPT ![t][o] = refs[t][o] - 1]
  <2>1. refs[t][o] + (-1) = refs[t][o] - 1
    BY DEF Shape
  <2>2. refs' = [refs EXCEPT ![t][o] = refs[t][o] + (-1)]
    BY DEF Adds
  <2> QED BY <2>1, <2>2
<1> USE RuntimeAssumption, <1>0 DEF Shape
<1>1. refs[t][o] \in Nat /\ MaxRefs \in Nat /\ refs[t][o] \in 1..MaxRefs
      /\ refs[t][o] - 1 \in 0..MaxRefs
  OBVIOUS
<1>2. /\ refs' \in [Thread -> [Object -> 0..MaxRefs]]
      /\ refs'[t][o] = refs[t][o] - 1
      /\ \A u \in Thread, p \in Object : ~(u = t /\ p = o) => refs'[u][p] = refs[u][p]
  BY <1>1
<1>3. PICK n, S : n = refs[t][o] /\ S = Reference(o) OBVIOUS
<1>4. Reference(o)' = S \ {<<t, n>>} /\ <<t, n>> \in S
  <2>1. ASSUME NEW r \in Thread \X (1..MaxRefs)
        PROVE  r[2] <= refs'[r[1]][o] <=> r[2] <= refs[r[1]][o] /\ r # <<t, n>>
    <3>1. r[1] \in Thread /\ r[2] \in Nat /\ r = <<r[1], r[2]>>
      OBVIOUS
    <3>2. CASE r[1] = t
      <4>1. r = <<t, n>> <=> r[2] = n
        BY <3>1, <3>2
      <4>2. refs'[r[1]][o] = n - 1 /\ refs[r[1]][o] = n /\ n \in Nat
        BY <1>1, <1>2, <1>3, <3>2
      <4>3. r[2] <= n - 1 <=> r[2] <= n /\ r[2] # n
        BY <3>1, <4>2
      <4> QED BY <4>1, <4>2, <4>3
    <3>3. CASE r[1] # t
      BY <1>2, <3>1, <3>3
    <3> QED BY <3>2, <3>3
  <2>2. <<t, n>> \in Thread \X (1..MaxRefs) /\ n <= refs[t][o]
    BY <1>1, <1>3
  <2> QED BY <1>3, <2>1, <2>2 DEF Reference
<1>5. IsFiniteSet(S) /\ Cardinality(S) \in Nat
  <2>1. S \in SUBSET (Thread \X (1..MaxRefs))
    BY <1>3 DEF Reference
  <2> QED BY <2>1, ReferencesFinite
<1>6. Cardinality(S \ {<<t, n>>}) = Cardinality(S) - 1
  <2>1. PICK x : x = <<t, n>> OBVIOUS
  <2>2. Cardinality(S \ {x}) = IF x \in S THEN Cardinality(S) - 1 ELSE Cardinality(S)
    BY <1>5, FS_RemoveElement
  <2> QED BY <1>4, <2>1, <2>2
<1>7. Owned(o)' = Owned(o) - 1
  BY <1>3, <1>4, <1>6 DEF Owned
<1>8. ASSUME NEW p \in Object \ {o} PROVE Owned(p)' = Owned(p)
  <2>1. Reference(p)' = Reference(p)
    BY <1>2 DEF Reference
  <2> QED BY <2>1 DEF Owned
<1> QED BY <1>2, <1>7, <1>8 DEF Trades

-----------------------------------------------------------------------------
(***************************************************************************)
(* Calls                                                                   *)
(***************************************************************************)

\* Thread t's call becomes c.
Moves(t, c) == /\ call' \in [Thread -> Call] /\ call'[t] = c
               /\ \A u \in Thread \ {t} : call'[u] = call[u]

\* A call begins or ends.
LEMMA CallMoves ==
  ASSUME Shape, NEW t \in Thread, NEW c \in Call, call' = [call EXCEPT ![t] = c]
  PROVE  Moves(t, c)
  BY DEF Shape, Moves

\* Thread t reads n and goes on.
Reads(t, n, ph) == call' = [call EXCEPT ![t].seen = n, ![t].phase = ph]

\* A call goes to its next phase, having read the count.
LEMMA ReadMoves ==
  ASSUME Shape, NEW t \in Thread, NEW n \in Nat, NEW ph \in Phase,
         Reads(t, n, ph)
  PROVE  \E c \in Call : /\ Moves(t, c) /\ c.op = call[t].op /\ c.obj = call[t].obj
                         /\ c.seen = n /\ c.phase = ph
<1>1. PICK d \in Call : d = call[t]
  BY DEF Shape
<1> DEFINE c == [d EXCEPT !.seen = n, !.phase = ph]
<1>2. c \in Call
  BY <1>1 DEF Call
<1>3. call' = [call EXCEPT ![t] = c]
  BY <1>1 DEF Shape, Reads
<1>4. c.op = d.op /\ c.obj = d.obj /\ c.seen = n /\ c.phase = ph
  BY <1>1 DEF Call
<1> HIDE DEF c
<1>5. Moves(t, c)
  BY <1>2, <1>3, CallMoves
<1> QED BY <1>1, <1>2, <1>4, <1>5

\* A call goes to another phase.
LEMMA GoMoves ==
  ASSUME Shape, NEW t \in Thread, NEW ph \in Phase, Go(t, ph)
  PROVE  \E c \in Call : /\ Moves(t, c) /\ c.op = call[t].op /\ c.obj = call[t].obj
                         /\ c.seen = call[t].seen /\ c.phase = ph
<1>1. PICK d \in Call : d = call[t]
  BY DEF Shape
<1> DEFINE c == [d EXCEPT !.phase = ph]
<1>2. c \in Call
  BY <1>1 DEF Call
<1>3. call' = [call EXCEPT ![t] = c]
  BY <1>1 DEF Shape, Go
<1>4. c.op = d.op /\ c.obj = d.obj /\ c.seen = d.seen /\ c.phase = ph
  BY <1>1 DEF Call
<1> HIDE DEF c
<1>5. Moves(t, c)
  BY <1>2, <1>3, CallMoves
<1> QED BY <1>1, <1>2, <1>4, <1>5

\* A retain or a release returns, and a create goes on to give its lock back.
LEMMA ReturnMoves ==
  ASSUME Shape, NEW t \in Thread, call[t].obj \in Object, Return(t)
  PROVE  \E c \in Call :
            /\ Moves(t, c)
            /\ call[t].op = "create" =>
                 c.op = "create" /\ c.obj = call[t].obj /\ c.phase = "unlock"
            /\ call[t].op # "create" => c = NoCall
<1>1. Calling("create", call[t].obj, "unlock") \in Call /\ NoCall \in Call
  BY DEF Calling, NoCall, Call, Phase
<1>2. CASE call[t].op = "create"
  <2>1. PICK c \in Call : c = Calling("create", call[t].obj, "unlock")
    BY <1>1
  <2>2. c.op = "create" /\ c.obj = call[t].obj /\ c.phase = "unlock"
    BY <2>1 DEF Calling
  <2>3. call' = [call EXCEPT ![t] = c]
    BY <1>2, <2>1 DEF Return, Returned, Obj
  <2> QED BY <1>2, <2>2, <2>3, CallMoves
<1>3. CASE call[t].op # "create"
  <2>1. call' = [call EXCEPT ![t] = NoCall]
    BY <1>3 DEF Return, Returned
  <2>2. Moves(t, NoCall)
    BY <1>1, <2>1 DEF Shape, Moves
  <2> QED BY <1>1, <1>3, <2>2
<1> QED BY <1>2, <1>3

\* Nobody has the lock of the external counts, or the one who has it alone is
\* about to change one.
LEMMA Posts ==
  ASSUME Shape, Locks, NEW o \in Object
  PROVE  /\ extLock = None => ~On(o, "carried") /\ ~On(o, "borrowed")
         /\ \A t \in Thread : extLock = t =>
              /\ On(o, "carried") <=> call[t].phase = "carried" /\ call[t].obj = o
              /\ On(o, "borrowed") <=> call[t].phase = "borrowed" /\ call[t].obj = o
  BY RuntimeAssumption DEF Locks, Shape, On, Posting

\* The same after a step.
LEMMA PostsNext ==
  ASSUME Shape', Locks', NEW o \in Object
  PROVE  /\ extLock' = None => ~On(o, "carried")' /\ ~On(o, "borrowed")'
         /\ \A t \in Thread : extLock' = t =>
              /\ On(o, "carried")' <=> call'[t].phase = "carried" /\ call'[t].obj = o
              /\ On(o, "borrowed")' <=> call'[t].phase = "borrowed" /\ call'[t].obj = o
  BY RuntimeAssumption DEF Locks, Shape, On, Posting

\* A step of a call outside that lock leaves what is posted.
LEMMA PostsSame ==
  ASSUME NEW t \in Thread, NEW c, Moves(t, c), NEW o \in Object,
         call[t].phase \notin Posting, c.phase \notin Posting, ext'[o] = ext[o]
  PROVE  Extern(o)' = Extern(o)
<1>1. On(o, "carried")' <=> On(o, "carried")
  BY DEF Moves, On, Posting
<1>2. On(o, "borrowed")' <=> On(o, "borrowed")
  BY DEF Moves, On, Posting
<1> QED BY <1>1, <1>2 DEF Extern, Bit

\* What others may do is not changed by a step that leaves them alone.
LEMMA CallsKeep ==
  ASSUME Calls, NEW t \in Thread, NEW c, Moves(t, c), lp64' = lp64, uniqued' = uniqued,
         \A u \in Thread \ {t}, p \in Object : refs'[u][p] = refs[u][p],
         CallOK(c), SeenOK(c), RightOK(t, c)'
  PROVE  Calls'
<1>1. call'[t] = c
  BY DEF Moves
<1>2. CallOK(call[t])' /\ SeenOK(call[t])' /\ RightOK(t, call[t])'
  <2>1. CallOK(call[t])'
    BY <1>1 DEF CallOK
  <2>2. SeenOK(call[t])'
    BY <1>1 DEF SeenOK, Overflows
  <2>3. RightOK(t, call[t])'
    BY <1>1 DEF RightOK
  <2> QED BY <2>1, <2>2, <2>3
<1>3. ASSUME NEW u \in Thread \ {t}
      PROVE  CallOK(call[u])' /\ SeenOK(call[u])' /\ RightOK(u, call[u])'
  <2>1. PICK d : d = call[u] OBVIOUS
  <2>2. call'[u] = d
    BY <2>1 DEF Moves
  <2>3. CallOK(d) /\ SeenOK(d) /\ RightOK(u, d)
    BY <2>1 DEF Calls
  <2>4. CallOK(call[u])'
    BY <2>2, <2>3 DEF CallOK
  <2>5. SeenOK(call[u])'
    BY <2>2, <2>3 DEF SeenOK, Overflows
  <2>6. RightOK(u, call[u])'
    <3>1. d.obj \in Object \/ (d.op = "none" /\ d.phase = "idle")
      BY <2>3 DEF CallOK, NoCall
    <3>2. CASE d.obj \in Object
      <4>1. refs'[u][d.obj] = refs[u][d.obj]
        BY <3>2
      <4> QED BY <2>2, <2>3, <4>1 DEF RightOK
    <3>3. CASE d.op = "none" /\ d.phase = "idle"
      BY <2>2, <3>3 DEF RightOK, Wanting
    <3> QED BY <3>1, <3>2, <3>3
  <2> QED BY <2>4, <2>5, <2>6
<1> QED BY <1>2, <1>3 DEF Calls

\* Nobody else begins to finalize what one thread is finalizing.
Alone(t, c) ==
    c.phase \in Finalizing =>
        \A u \in Thread \ {t} : call[u].phase \in Finalizing => call[u].obj # c.obj

\* A call that finalizes alone.
LEMMA AloneKeeps ==
  ASSUME FinalizedByOne, NEW t \in Thread, NEW c, Moves(t, c), Alone(t, c)
  PROVE  FinalizedByOne'
<1> SUFFICES ASSUME NEW u \in Thread, NEW v \in Thread,
                    call'[u].phase \in Finalizing, call'[v].phase \in Finalizing,
                    call'[u].obj = call'[v].obj
             PROVE  u = v
  BY DEF FinalizedByOne, At, Obj, Finalizing
<1>1. CASE u # t /\ v # t
  BY <1>1 DEF FinalizedByOne, At, Obj, Finalizing, Moves
<1>2. CASE u = t /\ v # t
  BY <1>2 DEF Alone, Moves
<1>3. CASE u # t /\ v = t
  BY <1>3 DEF Alone, Moves
<1> QED BY <1>1, <1>2, <1>3

\* A step of a call that changes no count, lock, reference or entry.
LEMMA QuietKeeps ==
  ASSUME UUIDInv, NEW t \in Thread, NEW c \in Call, Moves(t, c),
         UNCHANGED <<lp64, rc, ext, extLock, life, refs, uniqued, lock, bytes, constants>>,
         call[t].phase \notin Posting, c.phase \notin Posting,
         c.op = "create" <=> call[t].op = "create",
         \A o \in Object : c.obj = o => life[o] # "new",
         CallOK(c), SeenOK(c), RightOK(t, c), Alone(t, c)
  PROVE  UUIDInv'
<1> USE DEF UUIDInv
<1>1. Shape'
  BY DEF Shape, Moves
<1>2. Calls'
  <2>1. RightOK(t, c)'
    BY DEF RightOK
  <2>2. \A u \in Thread \ {t}, p \in Object : refs'[u][p] = refs[u][p]
    OBVIOUS
  <2> QED BY <2>1, <2>2, CallsKeep
<1>3. Locks'
  BY DEF Locks, Moves
<1>4. ASSUME NEW o \in Object PROVE HeldOK(o)' /\ CountOK(o)'
  <2>1. HeldOK(o)'
    BY DEF HeldOK, Moves
  <2>2. Extern(o)' = Extern(o)
    BY PostsSame
  <2>3. Owned(o)' = Owned(o) /\ (Immortal(o)' <=> Immortal(o))
    BY DEF Owned, Reference, Immortal
  <2>4. CountOK(o)'
    BY <2>2, <2>3 DEF CountOK, Count, Bit
  <2> QED BY <2>1, <2>4
<1>5. FinalizedByOne'
  BY AloneKeeps
<1> QED BY <1>1, <1>2, <1>3, <1>4, <1>5

-----------------------------------------------------------------------------
(***************************************************************************)
(* Counts                                                                  *)
(***************************************************************************)

\* The byte's lower part is a number.
LEMMA LowType ==
  ASSUME NEW b \in Nat
  PROVE  Low(b) \in Int
  BY RuntimeAssumption DEF Low, Flag

\* One more in the byte, where there is room.
LEMMA ByteUp ==
  ASSUME NEW b \in Nat, b < 2 * Flag, Low(b) # Flag - 1
  PROVE  /\ b + 1 < 2 * Flag /\ Low(b + 1) = Low(b) + 1
         /\ b + 1 >= Flag <=> b >= Flag
  BY RuntimeAssumption DEF Low, Flag

\* One less in the byte, where there is one to take.
LEMMA ByteDown ==
  ASSUME NEW b \in Nat, b < 2 * Flag, b # 0, b # Flag
  PROVE  /\ b - 1 \in Nat /\ b - 1 < 2 * Flag /\ Low(b - 1) = Low(b) - 1
         /\ b - 1 >= Flag <=> b >= Flag
  BY RuntimeAssumption DEF Low, Flag

\* What a carry leaves in the byte.
LEMMA ByteCarried ==
  /\ Flag + Half \in Nat /\ Flag + Half >= Flag /\ Flag + Half < 2 * Flag
  /\ Low(Flag + Half) = Half
  BY RuntimeAssumption DEF Low, Flag

\* What a borrow leaves in the byte.
LEMMA ByteBorrowed ==
  /\ Flag \in Nat /\ Flag > 3 /\ Flag = 2 * Half /\ Low(Flag) = 0 /\ Low(1) = 1 /\ Low(0) = 0
  /\ Half - 1 \in Nat /\ ~(Half - 1 >= Flag) /\ Half - 1 < 2 * Flag
  /\ Low(Half - 1) = Half - 1
  /\ Flag + Half - 1 \in Nat /\ Flag + Half - 1 >= Flag /\ Flag + Half - 1 < 2 * Flag
  /\ Low(Flag + Half - 1) = Half - 1
  BY RuntimeAssumption DEF Low, Flag

\* A unit of the external count is Half.
LEMMA Unit ==
  ASSUME NEW e \in Nat
  PROVE  /\ Half * e \in Nat /\ Half * 0 = 0
         /\ Half * (e + 1) = Half * e + Half
         /\ e > 0 => e - 1 \in Nat /\ Half * (e - 1) = Half * e - Half
  BY RuntimeAssumption

\* A byte or word b and e units outside of it count n.
Exact(wide, b, e, n) ==
    /\ wide => b = n
    /\ ~wide => /\ b < 2 * Flag /\ (b >= Flag <=> e > 0)
                /\ Low(b) + Half * e = n

\* One more, without a carry.
LEMMA ExactUp ==
  ASSUME NEW wide \in BOOLEAN, NEW b \in Nat, NEW e \in Nat, NEW n \in Nat,
         Exact(wide, b, e, n), ~wide => Low(b) # Flag - 1
  PROVE  Exact(wide, b + 1, e, n + 1)
<1>1. CASE wide
  BY <1>1 DEF Exact
<1>2. CASE ~wide
  <2>1. b < 2 * Flag /\ Low(b) # Flag - 1 /\ (b >= Flag <=> e > 0) /\ Low(b) + Half * e = n
    BY <1>2 DEF Exact
  <2>2. /\ b + 1 < 2 * Flag /\ Low(b + 1) = Low(b) + 1
        /\ b + 1 >= Flag <=> b >= Flag
    BY <2>1, ByteUp
  <2>3. PICK h \in Nat : h = Half * e
    BY Unit
  <2>4. PICK k \in Int : k = Low(b)
    BY LowType
  <2>5. (k + 1) + h = n + 1
    BY <2>1, <2>3, <2>4
  <2> QED BY <1>2, <2>1, <2>2, <2>3, <2>4, <2>5 DEF Exact
<1> QED BY <1>1, <1>2

\* One less, without a borrow.
LEMMA ExactDown ==
  ASSUME NEW wide \in BOOLEAN, NEW b \in Nat, NEW e \in Nat, NEW n \in Nat,
         Exact(wide, b, e, n), n > 0, ~wide => b # Flag
  PROVE  b - 1 \in Nat /\ Exact(wide, b - 1, e, n - 1)
<1>1. CASE wide
  BY <1>1 DEF Exact
<1>2. CASE ~wide
  <2>1. b < 2 * Flag /\ b # Flag /\ (b >= Flag <=> e > 0) /\ Low(b) + Half * e = n
    BY <1>2 DEF Exact
  <2>2. b # 0
    <3>1. ASSUME b = 0 PROVE FALSE
      <4>1. e = 0
        BY <2>1, <3>1, ByteBorrowed
      <4>2. Half * e = 0 /\ Low(b) = 0
        BY <3>1, <4>1, Unit, ByteBorrowed
      <4> QED BY <2>1, <4>2
    <3> QED BY <3>1
  <2>3. /\ b - 1 \in Nat /\ b - 1 < 2 * Flag /\ Low(b - 1) = Low(b) - 1
        /\ b - 1 >= Flag <=> b >= Flag
    BY <2>1, <2>2, ByteDown
  <2>4. PICK h \in Nat : h = Half * e
    BY Unit
  <2>5. PICK k \in Int : k = Low(b)
    BY LowType
  <2>6. (k - 1) + h = n - 1
    BY <2>1, <2>4, <2>5
  <2> QED BY <1>2, <2>1, <2>3, <2>4, <2>5, <2>6 DEF Exact
<1> QED BY <1>1, <1>2

\* One more, and half of the byte is carried.
LEMMA ExactCarry ==
  ASSUME NEW b \in Nat, NEW e \in Nat, NEW n \in Nat, Exact(FALSE, b, e, n),
         Low(b) = Flag - 1
  PROVE  Exact(FALSE, Flag + Half, e + 1, n + 1)
<1>1. PICK h \in Nat : h = Half * e /\ Half * (e + 1) = h + Half
  BY Unit
<1>2. (Flag - 1) + h = n
  BY <1>1 DEF Exact
<1>3. Half + (h + Half) = n + 1
  BY <1>1, <1>2, RuntimeAssumption DEF Flag
<1>4. Low(Flag + Half) + Half * (e + 1) = n + 1
  BY <1>1, <1>3, ByteCarried
<1> QED BY <1>4, ByteCarried DEF Exact

\* One less, and a unit of the external count is taken back.
LEMMA ExactBorrow ==
  ASSUME NEW e \in Nat, NEW n \in Nat, Exact(FALSE, Flag, e, n)
  PROVE  /\ e > 0 /\ e - 1 \in Nat
         /\ e = 1 => Exact(FALSE, Half - 1, e - 1, n - 1)
         /\ e # 1 => Exact(FALSE, Flag + Half - 1, e - 1, n - 1)
<1>1. e > 0
  BY ByteBorrowed DEF Exact
<1>2. PICK h \in Nat : h = Half * e /\ Half * (e - 1) = h - Half
  BY <1>1, Unit
<1>3. 0 + h = n
  BY <1>2, ByteBorrowed DEF Exact
<1>4. (Half - 1) + (h - Half) = n - 1
  BY <1>2, <1>3, RuntimeAssumption
<1>5. Low(Half - 1) + Half * (e - 1) = n - 1 /\ Low(Flag + Half - 1) + Half * (e - 1) = n - 1
  BY <1>2, <1>4, ByteBorrowed
<1> QED BY <1>1, <1>5, ByteBorrowed DEF Exact

\* A count of one is one reference.
LEMMA ExactOne ==
  ASSUME NEW wide \in BOOLEAN, NEW e \in Nat, NEW n \in Nat, Exact(wide, 1, e, n)
  PROVE  n = 1
<1>1. CASE wide
  BY <1>1 DEF Exact
<1>2. CASE ~wide
  <2>1. e = 0
    BY <1>2, ByteBorrowed DEF Exact
  <2>2. Half * e = 0
    BY <2>1, Unit
  <2> QED BY <1>2, <2>2, ByteBorrowed DEF Exact
<1> QED BY <1>1, <1>2

\* The count of a live object.
LEMMA LiveExact ==
  ASSUME UUIDInv, NEW o \in Object, life[o] = "live"
  PROVE  \E e \in Nat, n \in Nat :
            /\ e = Extern(o) /\ n = Owned(o) + Bit(Immortal(o))
            /\ Exact(lp64, rc[o], e, n)
<1>1. PICK e \in Nat : e = Extern(o)
  BY DEF UUIDInv, CountOK
<1>2. PICK n \in Nat : n = Owned(o) + Bit(Immortal(o))
  BY OwnedBounds DEF UUIDInv, Bit
<1>3. CountOK(o)
  BY DEF UUIDInv
<1>4. Exact(lp64, rc[o], e, n)
  BY <1>1, <1>2, <1>3 DEF CountOK, Count, Exact
<1> QED BY <1>1, <1>2, <1>4

\* The same after a step, from the values there are then.
LEMMA ExactNext ==
  ASSUME NEW o \in Object, NEW b \in Nat, NEW e \in Nat, NEW n \in Nat,
         lp64' = lp64, rc'[o] = b, Extern(o)' = e, Owned(o)' + Bit(Immortal(o))' = n,
         Exact(lp64, b, e, n)
  PROVE  CountOK(o)'
<1>1. Bit(Immortal(o)') = Bit(Immortal(o))'
  BY DEF Bit
<1> QED BY <1>1 DEF CountOK, Count, Exact

\* What a step of a call on o does to other objects: nothing.
LEMMA PostsOther ==
  ASSUME NEW t \in Thread, NEW c, Moves(t, c), NEW o \in Object, NEW p \in Object \ {o},
         call[t].obj = o, c.obj \in {o, None}, ext'[p] = ext[p]
  PROVE  Extern(p)' = Extern(p)
<1>1. On(p, "carried")' <=> On(p, "carried")
  BY RuntimeAssumption DEF Moves, On
<1>2. On(p, "borrowed")' <=> On(p, "borrowed")
  BY RuntimeAssumption DEF Moves, On
<1> QED BY <1>1, <1>2 DEF Extern, Bit

\* A step that trades counts and references of one object.
LEMMA TradeKeeps ==
  ASSUME UUIDInv, NEW t \in Thread, NEW c \in Call, Moves(t, c),
         NEW o \in Object, call[t].obj = o, c.obj \in {o, None},
         UNCHANGED <<lp64, uniqued, lock, bytes, constants>>,
         Shape', Locks',
         \A p \in Object \ {o} : rc'[p] = rc[p] /\ ext'[p] = ext[p] /\ life'[p] = life[p],
         NEW n, Trades(t, o, n),
         c.phase \notin Finalizing,
         CallOK(c), SeenOK(c), RightOK(t, c)', HeldOK(o)', CountOK(o)'
  PROVE  UUIDInv'
<1> USE DEF UUIDInv
<1>1. Calls'
  <2>1. \A u \in Thread \ {t}, p \in Object : refs'[u][p] = refs[u][p]
    BY DEF Trades
  <2> QED BY <2>1, CallsKeep
<1>2. FinalizedByOne'
  <2>1. Alone(t, c)
    BY DEF Alone
  <2> QED BY <2>1, AloneKeeps
<1>3. ASSUME NEW p \in Object \ {o} PROVE HeldOK(p)' /\ CountOK(p)'
  <2>1. HeldOK(p) /\ CountOK(p)
    OBVIOUS
  <2>2. Extern(p)' = Extern(p)
    BY PostsOther
  <2>3. Immortal(p)' <=> Immortal(p)
    BY DEF Immortal
  <2>4. CountOK(p)'
    BY <2>1, <2>2, <2>3 DEF CountOK, Count, Bit, Trades
  <2>5. \A u \in Thread : refs'[u][p] = refs[u][p] /\ (call'[u].obj = p => call[u].obj = p)
    BY RuntimeAssumption DEF Moves, Trades
  <2>6. HeldOK(p)'
    BY <2>1, <2>5 DEF HeldOK
  <2> QED BY <2>4, <2>6
<1> QED BY <1>1, <1>2, <1>3

\* A call that neither takes nor gives back a lock.
LEMMA LocksSame ==
  ASSUME Locks, NEW t \in Thread, NEW c, Moves(t, c), UNCHANGED <<extLock, lock>>,
         call[t].phase \notin Posting, c.phase \notin Posting,
         c.op = "create" <=> call[t].op = "create"
  PROVE  Locks'
  BY DEF Locks, Moves

\* A call that takes the lock of the external counts.
LEMMA LocksTaken ==
  ASSUME Locks, Shape, NEW t \in Thread, NEW c, Moves(t, c), lock' = lock,
         extLock = None, extLock' = t, c.phase \in Posting,
         c.op = "create" <=> call[t].op = "create"
  PROVE  Locks'
  BY RuntimeAssumption DEF Locks, Moves

\* A call that gives the lock of the external counts back.
LEMMA LocksGiven ==
  ASSUME Locks, Shape, NEW t \in Thread, NEW c, Moves(t, c), lock' = lock,
         call[t].phase \in Posting, extLock' = None, c.phase \notin Posting,
         c.op = "create" <=> call[t].op = "create"
  PROVE  Locks'
  BY RuntimeAssumption DEF Locks, Moves

\* A thread that works on an object knows that it is live, unless it is a
\* create that has only found it.
LEMMA WorksOnLive ==
  ASSUME UUIDInv, NEW t \in Thread, call[t].phase # "idle", call[t].phase # "borrowed"
  PROVE  /\ call[t].obj \in Object
         /\ \/ life[call[t].obj] = "live"
            \/ call[t].op = "create" /\ call[t].phase \in Wanting
         /\ call[t].phase \in ReleasePhase => refs[t][call[t].obj] > 0
         /\ call[t].phase \in ReleasePhase => call[t].op = "release"
         /\ call[t].phase \in Wanting => refs[t][call[t].obj] < MaxRefs /\ call[t].op \in {"retain", "create"}
<1>1. CallOK(call[t]) /\ RightOK(t, call[t]) /\ call[t] \in Call
  BY DEF UUIDInv, Calls, Shape
<1>2. PICK c \in Call : c = call[t]
  BY <1>1
<1>3. /\ c.obj \in Object /\ HeldOK(c.obj)
      /\ c.op \in {"retain", "release", "create"}
  BY <1>1, <1>2 DEF CallOK, UUIDInv, Call
<1>4. refs[t][c.obj] > 0 \/ (c.op = "create" /\ c.phase \in Wanting)
  BY <1>1, <1>2, <1>3 DEF CallOK, RightOK, Wanting, RetainPhase
<1>5. life[c.obj] = "live" \/ (c.op = "create" /\ c.phase \in Wanting)
  BY <1>3, <1>4 DEF HeldOK
<1>6. c.phase \in ReleasePhase => c.op = "release" /\ refs[t][c.obj] > 0
  BY <1>1, <1>2, <1>3 DEF CallOK, RightOK, ReleasePhase, RetainPhase
<1>7. c.phase \in Wanting => refs[t][c.obj] < MaxRefs /\ c.op \in {"retain", "create"}
  BY <1>1, <1>2, <1>3 DEF CallOK, RightOK, ReleasePhase, Wanting
<1> QED BY <1>2, <1>3, <1>5, <1>6, <1>7

\* What a call that has returned may do.
LEMMA Returns ==
  ASSUME UUIDInv, NEW t \in Thread, call[t].phase # "idle", Return(t),
         call[t].op \in {"retain", "create"} => refs'[t][call[t].obj] > 0
  PROVE  \E c \in Call :
            /\ Moves(t, c) /\ c.phase \notin Posting /\ c.phase \notin Finalizing
            /\ c.obj \in {call[t].obj, None}
            /\ c.op = "create" <=> call[t].op = "create"
            /\ CallOK(c) /\ SeenOK(c) /\ RightOK(t, c)'
<1>1. Shape /\ CallOK(call[t])
  BY DEF UUIDInv, Calls
<1>2. call[t].obj \in Object
  BY <1>1 DEF CallOK
<1>3. PICK c \in Call :
            /\ Moves(t, c)
            /\ call[t].op = "create" =>
                 c.op = "create" /\ c.obj = call[t].obj /\ c.phase = "unlock"
            /\ call[t].op # "create" => c = NoCall
  BY <1>1, <1>2, ReturnMoves
<1>4. c.phase \notin Posting /\ c.phase \notin Finalizing /\ c.obj \in {call[t].obj, None}
      /\ (c.op = "create" <=> call[t].op = "create")
  BY <1>3 DEF Posting, Finalizing, NoCall
<1>5. CallOK(c)
  BY <1>2, <1>3 DEF CallOK, NoCall
<1>6. /\ c.phase \in {"idle", "unlock"} /\ c.op \in {"none", "create"}
      /\ c.phase = "unlock" => c.op = "create" /\ call[t].op = "create" /\ c.obj = call[t].obj
      /\ c.phase # "unlock" => c.op = "none"
  BY <1>3 DEF NoCall
<1>7. SeenOK(c)
  BY <1>6 DEF SeenOK
<1>8. RightOK(t, c)'
  BY <1>6 DEF RightOK, Wanting
<1> QED BY <1>3, <1>4, <1>5, <1>7, <1>8

\* The count of o becomes b.
Sets(o, b) == rc' = [rc EXCEPT ![o] = b]

\* Nobody else begins to work on o.
LEMMA HeldStays ==
  ASSUME UUIDInv, NEW t \in Thread, NEW c, Moves(t, c), NEW o \in Object, call[t].obj = o,
         c.obj \in {o, None}, UNCHANGED <<life, uniqued, bytes, constants>>,
         ext[o] = 0 => ext'[o] = 0 \/ life[o] # "new",
         NEW n, Trades(t, o, n), life[o] = "live" \/ refs'[t][o] = refs[t][o]
  PROVE  HeldOK(o)'
<1>1. \A u \in Thread : call'[u].obj = o => call[u].obj = o
  BY RuntimeAssumption DEF Moves
<1>2. \A u \in Thread : u # t => refs'[u][o] = refs[u][o]
  BY DEF Trades
<1>3. HeldOK(o)
  BY DEF UUIDInv
<1> QED BY <1>1, <1>2, <1>3 DEF HeldOK

\* A swap that succeeds, and the call returns.
LEMMA SwapKeeps ==
  ASSUME UUIDInv, NEW t \in Thread, NEW o \in Object, call[t].obj = o, life[o] = "live",
         call[t].phase # "idle", call[t].phase \notin Posting,
         NEW b \in Nat, Sets(o, b), NEW m \in Nat, Trades(t, o, m), Return(t),
         call[t].op \in {"retain", "create"} => refs'[t][o] > 0,
         Exact(lp64, b, Extern(o), m + Bit(Immortal(o))),
         UNCHANGED <<lp64, ext, extLock, life, uniqued, lock, bytes, constants>>
  PROVE  UUIDInv'
<1> USE DEF UUIDInv
<1>1. PICK c \in Call :
            /\ Moves(t, c) /\ c.phase \notin Posting /\ c.phase \notin Finalizing
            /\ c.obj \in {call[t].obj, None}
            /\ c.op = "create" <=> call[t].op = "create"
            /\ CallOK(c) /\ SeenOK(c) /\ RightOK(t, c)'
  BY Returns
<1>2. /\ rc' \in [Object -> Nat] /\ rc'[o] = b
      /\ \A p \in Object \ {o} : rc'[p] = rc[p]
  BY DEF Shape, Sets
<1>3. Shape'
  BY <1>1, <1>2 DEF Shape, Moves, Trades
<1>4. Locks'
  BY <1>1, LocksSame
<1>5. HeldOK(o)'
  BY <1>1, HeldStays
<1>6. CountOK(o)'
  <2>1. Extern(o)' = Extern(o)
    BY <1>1, PostsSame
  <2>2. Bit(Immortal(o))' = Bit(Immortal(o)) /\ Bit(Immortal(o)) \in Nat
    BY DEF Immortal, Bit
  <2>3. PICK e \in Nat : e = Extern(o)
    BY DEF CountOK
  <2>4. PICK n \in Nat : n = m + Bit(Immortal(o))
    BY <2>2
  <2>5. Owned(o)' = m
    BY DEF Trades
  <2>6. Owned(o)' + Bit(Immortal(o))' = n
    BY <2>2, <2>4, <2>5
  <2>7. Exact(lp64, b, e, n)
    BY <2>3, <2>4
  <2> QED BY <1>2, <2>1, <2>3, <2>6, <2>7, ExactNext
<1> QED BY <1>1, <1>2, <1>3, <1>4, <1>5, <1>6, TradeKeeps

\* No call is idle.
LEMMA NoCallIsIdle == NoCall.phase = "idle" /\ NoCall.op = "none" /\ NoCall.obj = None
  BY DEF NoCall

\* A call that has to read the count again.
LEMMA RetryKeeps ==
  ASSUME UUIDInv, NEW t \in Thread, NEW ph \in Phase, Go(t, ph),
         \/ call[t].phase \in Wanting /\ ph = "retain"
         \/ /\ call[t].phase \in ReleasePhase \ {"borrowed"}
            /\ ph = "release" \/ (ph = "release cas" /\ lp64),
         UNCHANGED <<lp64, rc, ext, extLock, life, refs, uniqued, lock, bytes, constants>>
  PROVE  UUIDInv'
<1>1. Shape /\ CallOK(call[t]) /\ RightOK(t, call[t]) /\ call[t] \in Call
  BY DEF UUIDInv, Calls, Shape
<1>2. PICK d \in Call : d = call[t]
  BY <1>1
<1>3. PICK c \in Call : /\ Moves(t, c) /\ c.op = d.op /\ c.obj = d.obj
                        /\ c.seen = d.seen /\ c.phase = ph
  BY <1>1, <1>2, GoMoves
<1>4. CallOK(d) /\ RightOK(t, d)
  BY <1>1, <1>2
<1>5. d.phase \notin Posting /\ c.phase \notin Posting /\ c.phase \notin Finalizing
      /\ c.phase # "idle" /\ d.phase # "idle"
  BY <1>2, <1>3 DEF Posting, Wanting, ReleasePhase, Finalizing
<1>6. d.op \in {"retain", "create", "release"} /\ d.obj \in Object
      /\ (d.phase \in Wanting <=> d.op # "release") /\ (c.phase = "retain" <=> d.op # "release")
  BY <1>2, <1>3, <1>4, <1>5 DEF CallOK, Wanting, ReleasePhase, RetainPhase, Call
<1>7. CallOK(c)
  <2>1. c # NoCall
    BY <1>5, NoCallIsIdle
  <2>2. c.phase \in {"retain", "release", "release cas"}
    BY <1>2, <1>3
  <2> QED BY <1>3, <1>6, <2>1, <2>2 DEF CallOK, RetainPhase, ReleasePhase
<1>8. SeenOK(c)
  BY <1>2, <1>3 DEF SeenOK
<1>9. RightOK(t, c)
  BY <1>2, <1>3, <1>4, <1>5, <1>6 DEF RightOK, Wanting, ReleasePhase
<1>10. Alone(t, c)
  BY <1>5 DEF Alone
<1>11. \A o \in Object : c.obj = o => life[o] # "new"
  BY <1>2, <1>3 DEF UUIDInv, HeldOK
<1>12. call[t].phase \notin Posting /\ (c.op = "create" <=> call[t].op = "create")
  BY <1>2, <1>3, <1>5
<1> QED BY <1>3, <1>5, <1>7, <1>8, <1>9, <1>10, <1>11, <1>12, QuietKeeps

\* A retain swaps one more in, or reads again.
LEMMA RetainCASKeeps ==
  ASSUME UUIDInv, NEW t \in Thread, RetainCAS(t), UNCHANGED uuidVars
  PROVE  UUIDInv'
<1>1. /\ call[t].phase = "retain cas"
      /\ UNCHANGED <<lp64, ext, extLock, life, uniqued, lock, bytes, constants>>
  BY DEF RetainCAS, OnLive, At, uuidVars
<1>2. PICK o \in Object : call[t].obj = o /\ life[o] = "live" /\ refs[t][o] < MaxRefs
  BY <1>1, WorksOnLive DEF RetainCAS, OnLive, Obj, Wanting
<1>3. PICK b \in Nat : b = rc[o]
  BY DEF UUIDInv, Shape
<1>4. \/ call[t].seen = b /\ Sets(o, b + 1) /\ Adds(t, o, 1) /\ Return(t)
      \/ Go(t, "retain") /\ UNCHANGED <<rc, refs>>
  BY <1>2, <1>3 DEF RetainCAS, CAS, CASFails, Sets, Own, Adds, Obj
<1>5. CASE call[t].seen = b /\ Sets(o, b + 1) /\ Adds(t, o, 1) /\ Return(t)
  <2>1. Trades(t, o, Owned(o) + 1) /\ refs'[t][o] > 0
    BY <1>2, <1>5, OwnMore DEF UUIDInv
  <2>2. PICK e \in Nat, n \in Nat :
            /\ e = Extern(o) /\ n = Owned(o) + Bit(Immortal(o))
            /\ Exact(lp64, rc[o], e, n)
    BY <1>2, LiveExact
  <2>3. SeenOK(call[t]) /\ lp64 \in BOOLEAN
    BY DEF UUIDInv, Calls, Shape
  <2>4. ~lp64 => Low(b) # Flag - 1
    BY <1>1, <1>5, <2>3 DEF SeenOK, Overflows
  <2>5. Exact(lp64, b + 1, e, n + 1)
    BY <1>3, <2>2, <2>3, <2>4, ExactUp
  <2>6. PICK m \in Nat : m = Owned(o)
    BY OwnedBounds DEF UUIDInv
  <2>7. n + 1 = (m + 1) + Bit(Immortal(o))
    BY <2>2, <2>6 DEF Bit
  <2>8. Exact(lp64, b + 1, Extern(o), (m + 1) + Bit(Immortal(o)))
    BY <2>2, <2>5, <2>7
  <2>9. Trades(t, o, m + 1) /\ m + 1 \in Nat /\ b + 1 \in Nat
    BY <2>1, <2>6
  <2>10. call[t].phase # "idle" /\ call[t].phase \notin Posting
    BY <1>1 DEF Posting
  <2> QED BY <1>1, <1>2, <1>5, <2>1, <2>8, <2>9, <2>10, SwapKeeps
<1>6. CASE Go(t, "retain") /\ UNCHANGED <<rc, refs>>
  <2>1. call[t].phase \in Wanting /\ "retain" \in Phase
    BY <1>1 DEF Wanting, Phase, RetainPhase
  <2> QED BY <1>1, <1>6, <2>1, RetryKeeps
<1> QED BY <1>4, <1>5, <1>6

\* A release swaps one less in, or reads again.
LEMMA ReleaseCASKeeps ==
  ASSUME UUIDInv, NEW t \in Thread, ReleaseCAS(t), UNCHANGED uuidVars
  PROVE  UUIDInv'
<1>1. /\ call[t].phase = "release cas"
      /\ UNCHANGED <<lp64, ext, extLock, life, uniqued, lock, bytes, constants>>
  BY DEF ReleaseCAS, At, uuidVars
<1>2. PICK o \in Object : /\ call[t].obj = o /\ life[o] = "live" /\ refs[t][o] > 0
                          /\ call[t].op = "release"
  BY <1>1, WorksOnLive DEF ReleasePhase, Wanting
<1>3. PICK b \in Nat : b = rc[o]
  BY DEF UUIDInv, Shape
<1>4. \/ call[t].seen = b /\ Sets(o, b - 1) /\ Adds(t, o, -1) /\ Return(t)
      \/ Go(t, "release") /\ UNCHANGED <<rc, refs>>
  BY <1>2, <1>3 DEF ReleaseCAS, CAS, CASFails, Sets, Own, Adds, Obj
<1>5. CASE call[t].seen = b /\ Sets(o, b - 1) /\ Adds(t, o, -1) /\ Return(t)
  <2>1. Trades(t, o, Owned(o) - 1)
    BY <1>2, <1>5, OwnLess DEF UUIDInv
  <2>2. PICK e \in Nat, n \in Nat :
            /\ e = Extern(o) /\ n = Owned(o) + Bit(Immortal(o))
            /\ Exact(lp64, rc[o], e, n)
    BY <1>2, LiveExact
  <2>3. SeenOK(call[t]) /\ lp64 \in BOOLEAN
    BY DEF UUIDInv, Calls, Shape
  <2>4. ~lp64 => b # Flag
    BY <1>1, <1>5, <2>3 DEF SeenOK
  <2>5. PICK m \in Nat : m = Owned(o) /\ m > 0
    BY <1>2, OwnedBounds DEF UUIDInv
  <2>6. n > 0 /\ n - 1 = (m - 1) + Bit(Immortal(o)) /\ m - 1 \in Nat
    BY <2>2, <2>5 DEF Bit
  <2>7. b - 1 \in Nat /\ Exact(lp64, b - 1, e, n - 1)
    BY <1>3, <2>2, <2>3, <2>4, <2>6, ExactDown
  <2>8. Exact(lp64, b - 1, Extern(o), (m - 1) + Bit(Immortal(o)))
    BY <2>2, <2>6, <2>7
  <2>9. Trades(t, o, m - 1)
    BY <2>1, <2>5
  <2>10. call[t].phase # "idle" /\ call[t].phase \notin Posting
    BY <1>1 DEF Posting
  <2> QED BY <1>1, <1>2, <1>5, <2>6, <2>7, <2>8, <2>9, <2>10, SwapKeeps
<1>6. CASE Go(t, "release") /\ UNCHANGED <<rc, refs>>
  <2>1. call[t].phase \in ReleasePhase \ {"borrowed"} /\ "release" \in Phase
    BY <1>1 DEF Phase, ReleasePhase
  <2> QED BY <1>1, <1>6, <2>1, RetryKeeps
<1> QED BY <1>4, <1>5, <1>6

\* A retain carries half of the byte, under the lock of the external counts.
LEMMA RetainCarryKeeps ==
  ASSUME UUIDInv, NEW t \in Thread, RetainCarry(t), UNCHANGED uuidVars
  PROVE  UUIDInv'
<1>1. /\ call[t].phase = "carry" /\ extLock = None
      /\ UNCHANGED <<lp64, ext, life, uniqued, lock, bytes, constants>>
  BY DEF RetainCarry, OnLive, At, uuidVars
<1>2. PICK o \in Object : /\ call[t].obj = o /\ life[o] = "live" /\ refs[t][o] < MaxRefs
                          /\ call[t].op \in {"retain", "create"}
  BY <1>1, WorksOnLive DEF RetainCarry, OnLive, Obj, Wanting
<1>3. PICK b \in Nat : b = rc[o]
  BY DEF UUIDInv, Shape
<1>4. \/ /\ call[t].seen = b /\ Sets(o, Flag + Half) /\ Adds(t, o, 1)
         /\ extLock' = t /\ Go(t, "carried")
      \/ Go(t, "retain") /\ UNCHANGED <<rc, refs, extLock>>
  BY <1>2, <1>3 DEF RetainCarry, CAS, CASFails, Sets, Own, Adds, Obj
<1>5. CASE /\ call[t].seen = b /\ Sets(o, Flag + Half) /\ Adds(t, o, 1)
           /\ extLock' = t /\ Go(t, "carried")
  <2>1. PICK w \in Nat : w = Flag + Half
    BY ByteCarried
  <2>2. PICK m \in Nat : m = Owned(o)
    BY OwnedBounds DEF UUIDInv
  <2>3. Trades(t, o, m + 1) /\ refs'[t][o] > 0
    BY <1>2, <1>5, <2>2, OwnMore DEF UUIDInv
  <2>4. PICK c \in Call : /\ Moves(t, c) /\ c.op = call[t].op /\ c.obj = o
                          /\ c.seen = call[t].seen /\ c.phase = "carried"
    <3>1. "carried" \in Phase
      BY DEF Phase, RetainPhase
    <3> QED BY <1>2, <1>5, <3>1, GoMoves DEF UUIDInv
  <2>5. c.phase \in Posting /\ c.phase \notin Finalizing /\ c.obj \in {o, None}
    BY <2>4 DEF Posting, Finalizing
  <2>6. /\ rc' \in [Object -> Nat] /\ rc'[o] = w
        /\ \A p \in Object \ {o} : rc'[p] = rc[p]
    BY <1>5, <2>1 DEF UUIDInv, Shape, Sets
  <2>7. Shape'
    BY <1>1, <1>5, <2>3, <2>4, <2>6 DEF UUIDInv, Shape, Moves, Trades
  <2>8. Locks'
    BY <1>1, <1>5, <2>4, <2>5, LocksTaken DEF UUIDInv
  <2>9. HeldOK(o)'
    BY <1>1, <1>2, <2>3, <2>4, <2>5, HeldStays
  <2>10. CallOK(c)
    <3>1. c # NoCall
      BY <2>4, NoCallIsIdle
    <3> QED BY <1>2, <2>4, <3>1 DEF CallOK, RetainPhase
  <2>11. SeenOK(c)
    BY <2>4 DEF SeenOK
  <2>12. RightOK(t, c)'
    BY <1>2, <2>3, <2>4 DEF RightOK, Wanting
  <2>13. CountOK(o)'
    <3>1. PICK e \in Nat, n \in Nat :
            /\ e = Extern(o) /\ n = m + Bit(Immortal(o))
            /\ Exact(lp64, rc[o], e, n)
      BY <1>2, <2>2, LiveExact
    <3>2. SeenOK(call[t]) /\ lp64 \in BOOLEAN /\ ext[o] \in Nat
      BY DEF UUIDInv, Calls, Shape
    <3>3. lp64 = FALSE /\ Low(b) = Flag - 1
      BY <1>1, <1>5, <3>2 DEF SeenOK, Overflows
    <3>4. Exact(lp64, w, e + 1, n + 1)
      BY <1>3, <2>1, <3>1, <3>3, ExactCarry
    <3>5. ~On(o, "carried") /\ ~On(o, "borrowed")
      BY <1>1, Posts DEF UUIDInv
    <3>6. On(o, "carried")' /\ ~On(o, "borrowed")'
      BY <1>5, <2>4, <2>7, <2>8, PostsNext DEF Moves
    <3>7. Extern(o)' = e + 1
      BY <1>1, <3>1, <3>2, <3>5, <3>6 DEF Extern, Bit
    <3>8. Bit(Immortal(o))' = Bit(Immortal(o)) /\ Bit(Immortal(o)) \in Nat
      BY <1>1 DEF Immortal, Bit
    <3>9. Owned(o)' = m + 1
      BY <2>3 DEF Trades
    <3>10. Owned(o)' + Bit(Immortal(o))' = n + 1
      BY <3>1, <3>8, <3>9
    <3>11. e + 1 \in Nat /\ n + 1 \in Nat
      BY <3>1
    <3> QED BY <1>1, <2>1, <2>6, <3>4, <3>7, <3>10, <3>11, ExactNext
  <2> QED BY <1>1, <1>2, <2>3, <2>4, <2>5, <2>6, <2>7, <2>8, <2>9, <2>10, <2>11, <2>12,
             <2>13, TradeKeeps
<1>6. CASE Go(t, "retain") /\ UNCHANGED <<rc, refs, extLock>>
  <2>1. call[t].phase \in Wanting /\ "retain" \in Phase
    BY <1>1 DEF Wanting, Phase, RetainPhase
  <2> QED BY <1>1, <1>6, <2>1, RetryKeeps
<1> QED BY <1>4, <1>5, <1>6

\* A release takes a unit of the external count back, under its lock.
LEMMA ReleaseBorrowKeeps ==
  ASSUME UUIDInv, NEW t \in Thread, ReleaseBorrow(t), UNCHANGED uuidVars
  PROVE  UUIDInv'
<1>1. /\ call[t].phase = "borrow" /\ extLock = None
      /\ UNCHANGED <<lp64, ext, life, uniqued, lock, bytes, constants>>
  BY DEF ReleaseBorrow, At, uuidVars
<1>2. PICK o \in Object : /\ call[t].obj = o /\ life[o] = "live" /\ refs[t][o] > 0
                          /\ call[t].op = "release"
  BY <1>1, WorksOnLive DEF ReleasePhase, Wanting
<1>3. PICK b \in Nat : b = rc[o]
  BY DEF UUIDInv, Shape
<1>4. \/ /\ call[t].seen = b /\ Sets(o, Borrowed(o)) /\ Adds(t, o, -1)
         /\ extLock' = t /\ Go(t, "borrowed")
      \/ Go(t, "release") /\ UNCHANGED <<rc, refs, extLock>>
  BY <1>2, <1>3 DEF ReleaseBorrow, CAS, CASFails, Sets, Own, Adds, Obj
<1>5. CASE /\ call[t].seen = b /\ Sets(o, Borrowed(o)) /\ Adds(t, o, -1)
           /\ extLock' = t /\ Go(t, "borrowed")
  <2>1. PICK w \in Nat : w = Borrowed(o)
    BY ByteBorrowed DEF Borrowed
  <2>2. PICK m \in Nat : m = Owned(o) /\ m > 0
    BY <1>2, OwnedBounds DEF UUIDInv
  <2>3. Trades(t, o, m - 1)
    BY <1>2, <1>5, <2>2, OwnLess DEF UUIDInv
  <2>4. PICK c \in Call : /\ Moves(t, c) /\ c.op = call[t].op /\ c.obj = o
                          /\ c.seen = call[t].seen /\ c.phase = "borrowed"
    <3>1. "borrowed" \in Phase
      BY DEF Phase, ReleasePhase
    <3> QED BY <1>2, <1>5, <3>1, GoMoves DEF UUIDInv
  <2>5. c.phase \in Posting /\ c.phase \notin Finalizing /\ c.obj \in {o, None}
    BY <2>4 DEF Posting, Finalizing
  <2>6. /\ rc' \in [Object -> Nat] /\ rc'[o] = w
        /\ \A p \in Object \ {o} : rc'[p] = rc[p]
    BY <1>5, <2>1 DEF UUIDInv, Shape, Sets
  <2>7. Shape'
    BY <1>1, <1>5, <2>3, <2>4, <2>6 DEF UUIDInv, Shape, Moves, Trades
  <2>8. Locks'
    BY <1>1, <1>5, <2>4, <2>5, LocksTaken DEF UUIDInv
  <2>9. HeldOK(o)'
    BY <1>1, <1>2, <2>3, <2>4, <2>5, HeldStays
  <2>10. CallOK(c)
    <3>1. c # NoCall
      BY <2>4, NoCallIsIdle
    <3> QED BY <1>2, <2>4, <3>1 DEF CallOK, ReleasePhase
  <2>11. SeenOK(c)
    BY <2>4 DEF SeenOK
  <2>12. RightOK(t, c)'
    BY <1>2, <2>4 DEF RightOK, Wanting
  <2>13. CountOK(o)'
    <3>1. PICK e \in Nat, n \in Nat :
            /\ e = Extern(o) /\ n = m + Bit(Immortal(o))
            /\ Exact(lp64, rc[o], e, n)
      BY <1>2, <2>2, LiveExact
    <3>2. SeenOK(call[t]) /\ lp64 \in BOOLEAN /\ ext[o] \in Nat
      BY DEF UUIDInv, Calls, Shape
    <3>3. lp64 = FALSE /\ b = Flag
      BY <1>1, <1>5, <3>2 DEF SeenOK
    <3>4. ~On(o, "carried") /\ ~On(o, "borrowed")
      BY <1>1, Posts DEF UUIDInv
    <3>5. e = ext[o]
      BY <3>1, <3>2, <3>4 DEF Extern, Bit
    <3>6. /\ e - 1 \in Nat
          /\ e = 1 => Exact(FALSE, Half - 1, e - 1, n - 1)
          /\ e # 1 => Exact(FALSE, Flag + Half - 1, e - 1, n - 1)
      <4>1. Exact(FALSE, Flag, e, n)
        BY <1>3, <3>1, <3>3
      <4> QED BY <4>1, ExactBorrow
    <3>7. Exact(lp64, w, e - 1, n - 1)
      <4>1. CASE e = 1
        BY <2>1, <3>3, <3>5, <3>6, <4>1 DEF Borrowed
      <4>2. CASE e # 1
        BY <2>1, <3>3, <3>5, <3>6, <4>2 DEF Borrowed
      <4> QED BY <4>1, <4>2
    <3>8. ~On(o, "carried")' /\ On(o, "borrowed")'
      BY <1>5, <2>4, <2>7, <2>8, PostsNext DEF Moves
    <3>9. Extern(o)' = e - 1
      BY <1>1, <3>2, <3>5, <3>8 DEF Extern, Bit
    <3>10. Bit(Immortal(o))' = Bit(Immortal(o)) /\ Bit(Immortal(o)) \in Nat
      BY <1>1 DEF Immortal, Bit
    <3>11. Owned(o)' = m - 1
      BY <2>3 DEF Trades
    <3>12. Owned(o)' + Bit(Immortal(o))' = n - 1 /\ n - 1 \in Nat
      BY <2>2, <3>1, <3>10, <3>11
    <3> QED BY <1>1, <2>1, <2>6, <3>6, <3>7, <3>9, <3>12, ExactNext
  <2> QED BY <1>1, <1>2, <2>3, <2>4, <2>5, <2>6, <2>7, <2>8, <2>9, <2>10, <2>11, <2>12,
             <2>13, TradeKeeps
<1>6. CASE Go(t, "release") /\ UNCHANGED <<rc, refs, extLock>>
  <2>1. call[t].phase \in ReleasePhase \ {"borrowed"} /\ "release" \in Phase
    BY <1>1 DEF Phase, ReleasePhase
  <2> QED BY <1>1, <1>6, <2>1, RetryKeeps
<1> QED BY <1>4, <1>5, <1>6

\* The external count is changed as the thread with its lock was about to, and
\* the call returns.
LEMMA PostKeeps ==
  ASSUME UUIDInv, NEW t \in Thread, NEW o \in Object, call[t].obj = o,
         call[t].phase \in Posting, NEW x \in Nat, ext' = [ext EXCEPT ![o] = x],
         x = ext[o] + Bit(call[t].phase = "carried") - Bit(call[t].phase = "borrowed"),
         extLock' = None, Return(t),
         call[t].op \in {"retain", "create"} => refs[t][o] > 0,
         UNCHANGED <<lp64, rc, life, refs, uniqued, lock, bytes, constants>>
  PROVE  UUIDInv'
<1> USE DEF UUIDInv
<1>1. PICK c \in Call :
            /\ Moves(t, c) /\ c.phase \notin Posting /\ c.phase \notin Finalizing
            /\ c.obj \in {call[t].obj, None}
            /\ c.op = "create" <=> call[t].op = "create"
            /\ CallOK(c) /\ SeenOK(c) /\ RightOK(t, c)'
  <2>1. call[t].phase # "idle"
    BY DEF Posting
  <2> QED BY <2>1, Returns
<1>2. /\ ext' \in [Object -> Nat] /\ ext'[o] = x
      /\ \A p \in Object \ {o} : ext'[p] = ext[p]
  BY DEF Shape
<1>3. Shape'
  BY <1>1, <1>2 DEF Shape, Moves
<1>4. Locks'
  BY <1>1, LocksGiven
<1>5. PICK m \in Nat : m = Owned(o)
  BY OwnedBounds
<1>6. \A p \in Object : Owned(p)' = Owned(p) /\ (Immortal(p)' <=> Immortal(p))
  BY DEF Owned, Reference, Immortal
<1>7. Trades(t, o, m)
  BY <1>5, <1>6 DEF Trades, Shape
<1>8. HeldOK(o)'
  <2>1. life[o] # "new"
    BY DEF HeldOK
  <2> QED BY <1>1, <1>7, <2>1, HeldStays
<1>9. Extern(o)' = Extern(o)
  <2>1. extLock = t /\ extLock' = None
    BY DEF Locks
  <2>2. /\ On(o, "carried") <=> call[t].phase = "carried"
        /\ On(o, "borrowed") <=> call[t].phase = "borrowed"
    BY <2>1, Posts
  <2>3. ~On(o, "carried")' /\ ~On(o, "borrowed")'
    BY <1>3, <1>4, <2>1, PostsNext
  <2>4. Extern(o) = x
    BY <2>2 DEF Extern, Bit
  <2>5. Extern(o)' = ext'[o] + 0 - 0
    BY <2>3 DEF Extern, Bit
  <2> QED BY <1>2, <2>4, <2>5
<1>10. CountOK(o)'
  BY <1>6, <1>9 DEF CountOK, Count, Bit
<1> QED BY <1>1, <1>2, <1>3, <1>4, <1>7, <1>8, <1>10, TradeKeeps

\* The carry reaches the external count.
LEMMA RetainCarriedKeeps ==
  ASSUME UUIDInv, NEW t \in Thread, RetainCarried(t), UNCHANGED uuidVars
  PROVE  UUIDInv'
<1>1. /\ call[t].phase = "carried" /\ extLock' = None /\ Return(t)
      /\ UNCHANGED <<lp64, rc, life, refs, uniqued, lock, bytes, constants>>
  BY DEF RetainCarried, At, uuidVars
<1>2. PICK o \in Object : call[t].obj = o
  BY <1>1, WorksOnLive
<1>3. PICK x \in Nat : x = ext[o] + 1
  BY DEF UUIDInv, Shape
<1>4. ext' = [ext EXCEPT ![o] = x]
  BY <1>2, <1>3 DEF RetainCarried, Obj
<1>5. x = ext[o] + Bit(call[t].phase = "carried") - Bit(call[t].phase = "borrowed")
  <2>1. x = (ext[o] + 1) - 0 /\ ext[o] \in Nat
    BY <1>3 DEF UUIDInv, Shape
  <2> QED BY <1>1, <2>1 DEF Bit
<1>6. refs[t][o] > 0
  BY <1>1, <1>2 DEF UUIDInv, Calls, RightOK
<1>7. call[t].phase \in Posting
  BY <1>1 DEF Posting
<1> QED BY <1>1, <1>2, <1>3, <1>4, <1>5, <1>6, <1>7, PostKeeps

\* The borrow is taken from the external count.
LEMMA ReleaseBorrowedKeeps ==
  ASSUME UUIDInv, NEW t \in Thread, ReleaseBorrowed(t), UNCHANGED uuidVars
  PROVE  UUIDInv'
<1>1. /\ call[t].phase = "borrowed" /\ extLock' = None /\ Return(t)
      /\ UNCHANGED <<lp64, rc, life, refs, uniqued, lock, bytes, constants>>
  BY DEF ReleaseBorrowed, At, uuidVars
<1>2. PICK o \in Object : call[t].obj = o
  BY <1>1 DEF UUIDInv, Calls, CallOK
<1>3. CallOK(call[t]) /\ call[t] \in Call
  BY DEF UUIDInv, Calls, Shape
<1>4. call[t].op \notin {"retain", "create"}
  BY <1>1, <1>3 DEF CallOK, RetainPhase
<1>5. ext[o] \in Nat /\ ext[o] > 0
  <2>1. On(o, "borrowed")
    BY <1>1, <1>2 DEF On
  <2>2. ~On(o, "carried")
    <3>1. extLock = t
      BY <1>1 DEF UUIDInv, Locks, Posting
    <3> QED BY <1>1, <3>1, Posts DEF UUIDInv
  <2>3. ext[o] + 0 - 1 \in Nat /\ ext[o] \in Nat
    BY <2>1, <2>2 DEF UUIDInv, CountOK, Extern, Bit, Shape
  <2> QED BY <2>3
<1>6. PICK x \in Nat : x = ext[o] - 1
  BY <1>5
<1>7. ext' = [ext EXCEPT ![o] = x]
  BY <1>2, <1>6 DEF ReleaseBorrowed, Obj
<1>8. x = ext[o] + Bit(call[t].phase = "carried") - Bit(call[t].phase = "borrowed")
  <2>1. x = ext[o] + (0 - 1)
    BY <1>5, <1>6
  <2>2. Bit(call[t].phase = "carried") = 0 /\ Bit(call[t].phase = "borrowed") = 1
    BY <1>1 DEF Bit
  <2> QED BY <2>1, <2>2
<1>9. call[t].phase \in Posting
  BY <1>1 DEF Posting
<1> QED BY <1>1, <1>2, <1>4, <1>6, <1>7, <1>8, <1>9, PostKeeps

\* A count of one is the only reference, and the object is not immortal.
LEMMA LastReference ==
  ASSUME UUIDInv, NEW t \in Thread, NEW o \in Object, life[o] = "live", refs[t][o] > 0,
         rc[o] = 1
  PROVE  /\ Owned(o) = 1 /\ ~Immortal(o)
         /\ \A u \in Thread : refs[u][o] > 0 => u = t
<1>1. PICK e \in Nat, n \in Nat :
          /\ n = Owned(o) + Bit(Immortal(o))
          /\ Exact(lp64, 1, e, n)
  BY LiveExact
<1>2. n = 1
  BY <1>1, ExactOne DEF UUIDInv, Shape
<1>3. Owned(o) \in Nat /\ Owned(o) > 0
  BY OwnedBounds DEF UUIDInv
<1>4. Owned(o) = 1 /\ ~Immortal(o)
  BY <1>1, <1>2, <1>3 DEF Bit
<1>5. \A u \in Thread : refs[u][o] > 0 => u = t
  BY <1>4, OwnedBounds DEF UUIDInv
<1> QED BY <1>4, <1>5

\* The object goes with its last reference, or the release is tried again.
LEMMA FreeKeeps ==
  ASSUME UUIDInv, NEW t \in Thread, Free(t), UNCHANGED uuidVars
  PROVE  UUIDInv'
<1>1. /\ call[t].phase = "finalized"
      /\ UNCHANGED <<lp64, ext, extLock, uniqued, lock, bytes, constants>>
  BY DEF Free, At, uuidVars
<1>2. PICK o \in Object : /\ call[t].obj = o /\ life[o] = "live" /\ refs[t][o] > 0
                          /\ call[t].op = "release"
  BY <1>1, WorksOnLive DEF ReleasePhase, Wanting
<1>3. PICK b \in Nat : b = IF lp64 THEN 0 ELSE rc[o]
  BY DEF UUIDInv, Shape
<1>4. \/ /\ rc[o] = 1 /\ Sets(o, b) /\ life' = [life EXCEPT ![o] = "freed"]
         /\ Adds(t, o, -1) /\ Return(t)
      \/ /\ Go(t, IF lp64 THEN "release cas" ELSE "release")
         /\ UNCHANGED <<rc, life, refs>>
  BY <1>2, <1>3 DEF Free, Sets, Own, Adds, Obj
<1>5. CASE /\ rc[o] = 1 /\ Sets(o, b) /\ life' = [life EXCEPT ![o] = "freed"]
           /\ Adds(t, o, -1) /\ Return(t)
  <2>1. PICK m \in Nat : m = Owned(o) /\ m > 0
    BY <1>2, OwnedBounds DEF UUIDInv
  <2>2. Trades(t, o, m - 1) /\ refs'[t][o] = refs[t][o] - 1
    BY <1>2, <1>5, <2>1, OwnLess DEF UUIDInv
  <2>3. PICK c \in Call :
            /\ Moves(t, c) /\ c.phase \notin Posting /\ c.phase \notin Finalizing
            /\ c.obj \in {call[t].obj, None}
            /\ c.op = "create" <=> call[t].op = "create"
            /\ CallOK(c) /\ SeenOK(c) /\ RightOK(t, c)'
    BY <1>1, <1>2, <1>5, Returns
  <2>4. /\ rc' \in [Object -> Nat] /\ rc'[o] = b
        /\ \A p \in Object \ {o} : rc'[p] = rc[p]
    BY <1>5 DEF UUIDInv, Shape, Sets
  <2>5. /\ life' \in [Object -> {"new", "live", "freed"}] /\ life'[o] = "freed"
        /\ \A p \in Object \ {o} : life'[p] = life[p]
    BY <1>5 DEF UUIDInv, Shape
  <2>6. Shape'
    BY <1>1, <2>2, <2>3, <2>4, <2>5 DEF UUIDInv, Shape, Moves, Trades
  <2>7. call[t].phase \notin Posting
    BY <1>1 DEF Posting
  <2>8. Locks'
    BY <1>1, <2>3, <2>7, LocksSame DEF UUIDInv
  <2>9. HeldOK(o)'
    <3>1. Owned(o) = 1 /\ ~Immortal(o) /\ \A u \in Thread : refs[u][o] > 0 => u = t
      BY <1>2, <1>5, LastReference
    <3>2. Shape' /\ Owned(o)' = 0
      BY <2>1, <2>2, <2>6, <3>1 DEF Trades
    <3>3. \A u \in Thread : ~(refs'[u][o] > 0)
      BY <3>2, OwnedBoundsNext
    <3>4. \A u \in Thread : o \notin constants'[u]
      BY <1>1, <3>1 DEF Immortal
    <3>5. \A v \in Bytes : uniqued'[v] # o
      BY <1>1, <1>2 DEF UUIDInv, Calls, RightOK
    <3>6. bytes'[o] \in Bytes
      BY <1>1, <1>2 DEF UUIDInv, HeldOK
    <3> QED BY <2>5, <3>3, <3>4, <3>5, <3>6 DEF HeldOK
  <2>10. CountOK(o)'
    <3>1. Extern(o)' = Extern(o)
      BY <1>1, <2>3, <2>7, PostsSame
    <3>2. Extern(o) \in Nat /\ (~lp64 => rc[o] < 2 * Flag)
      BY DEF UUIDInv, CountOK
    <3> QED BY <1>1, <1>3, <2>4, <2>5, <3>1, <3>2 DEF CountOK
  <2> QED BY <1>1, <1>2, <2>2, <2>3, <2>4, <2>5, <2>6, <2>8, <2>9, <2>10, TradeKeeps
<1>6. CASE /\ Go(t, IF lp64 THEN "release cas" ELSE "release")
           /\ UNCHANGED <<rc, life, refs>>
  <2>1. call[t].phase \in ReleasePhase \ {"borrowed"}
        /\ "release" \in Phase /\ "release cas" \in Phase
    BY <1>1 DEF Phase, ReleasePhase
  <2>2. CASE lp64
    BY <1>1, <1>6, <2>1, <2>2, RetryKeeps
  <2>3. CASE ~lp64
    BY <1>1, <1>6, <2>1, <2>3, RetryKeeps
  <2> QED BY <2>2, <2>3
<1> QED BY <1>4, <1>5, <1>6

-----------------------------------------------------------------------------
(***************************************************************************)
(* Calls that begin, and read                                              *)
(***************************************************************************)

\* CFRetain by a thread that owns a reference.
LEMMA RetainKeeps ==
  ASSUME UUIDInv, NEW t \in Thread, NEW o \in Object, Retain(t, o), UNCHANGED uuidVars
  PROVE  UUIDInv'
<1>1. /\ call[t].phase = "idle" /\ refs[t][o] > 0 /\ refs[t][o] < MaxRefs
      /\ UNCHANGED <<lp64, rc, ext, extLock, life, refs, uniqued, lock, bytes, constants>>
  BY RuntimeAssumption DEF Retain, At, uuidVars, UUIDInv, Shape
<1>2. PICK c \in Call : c = Calling("retain", o, "retain")
  BY DEF Call, Calling, Phase, RetainPhase
<1>3. c.op = "retain" /\ c.obj = o /\ c.phase = "retain"
  BY <1>2 DEF Calling
<1>4. Moves(t, c)
  BY <1>2, CallMoves DEF Retain, UUIDInv
<1>5. call[t].op # "create" /\ call[t].phase \notin Posting /\ c.phase \notin Posting
  <2>1. call[t] = NoCall
    BY <1>1 DEF UUIDInv, Calls, CallOK
  <2> QED BY <1>1, <1>3, <2>1, NoCallIsIdle DEF Posting
<1>6. CallOK(c)
  <2>1. c # NoCall
    BY <1>3, NoCallIsIdle
  <2> QED BY <1>3, <2>1 DEF CallOK, RetainPhase
<1>7. SeenOK(c) /\ Alone(t, c)
  BY <1>3 DEF SeenOK, Alone, Finalizing
<1>8. RightOK(t, c)
  BY <1>1, <1>3 DEF RightOK
<1>9. \A p \in Object : c.obj = p => life[p] # "new"
  BY <1>1, <1>3 DEF UUIDInv, HeldOK
<1> QED BY <1>1, <1>3, <1>4, <1>5, <1>6, <1>7, <1>8, <1>9, QuietKeeps

\* CFRelease by a thread that owns a reference.
LEMMA ReleaseKeeps ==
  ASSUME UUIDInv, NEW t \in Thread, NEW o \in Object, Release(t, o), UNCHANGED uuidVars
  PROVE  UUIDInv'
<1>1. /\ call[t].phase = "idle" /\ refs[t][o] > 0
      /\ UNCHANGED <<lp64, rc, ext, extLock, life, refs, uniqued, lock, bytes, constants>>
  BY DEF Release, At, uuidVars
<1>2. PICK c \in Call : c = Calling("release", o, "release")
  BY DEF Call, Calling, Phase, ReleasePhase
<1>3. c.op = "release" /\ c.obj = o /\ c.phase = "release"
  BY <1>2 DEF Calling
<1>4. Moves(t, c)
  BY <1>2, CallMoves DEF Release, UUIDInv
<1>5. call[t].op # "create" /\ call[t].phase \notin Posting /\ c.phase \notin Posting
  <2>1. call[t] = NoCall
    BY <1>1 DEF UUIDInv, Calls, CallOK
  <2> QED BY <1>1, <1>3, <2>1, NoCallIsIdle DEF Posting
<1>6. CallOK(c)
  <2>1. c # NoCall
    BY <1>3, NoCallIsIdle
  <2> QED BY <1>3, <2>1 DEF CallOK, ReleasePhase
<1>7. SeenOK(c) /\ Alone(t, c)
  BY <1>3 DEF SeenOK, Alone, Finalizing
<1>8. RightOK(t, c)
  BY <1>1, <1>3 DEF RightOK, Wanting
<1>9. \A p \in Object : c.obj = p => life[p] # "new"
  BY <1>1, <1>3 DEF UUIDInv, HeldOK
<1> QED BY <1>1, <1>3, <1>4, <1>5, <1>6, <1>7, <1>8, <1>9, QuietKeeps

\* A retain reads the count.
LEMMA RetainReadKeeps ==
  ASSUME UUIDInv, NEW t \in Thread, RetainRead(t), UNCHANGED uuidVars
  PROVE  UUIDInv'
<1>1. /\ call[t].phase = "retain"
      /\ UNCHANGED <<lp64, rc, ext, extLock, life, refs, uniqued, lock, bytes, constants>>
  BY DEF RetainRead, OnLive, At, uuidVars
<1>2. PICK o \in Object : /\ call[t].obj = o /\ life[o] = "live"
                          /\ call[t].op \in {"retain", "create"}
  BY <1>1, WorksOnLive DEF RetainRead, OnLive, Obj, Wanting
<1>3. PICK b \in Nat : b = rc[o]
  BY DEF UUIDInv, Shape
<1>4. PICK ph \in Phase : ph = IF Overflows(b) THEN "carry" ELSE "retain cas"
  BY DEF Phase, RetainPhase
<1>5. Reads(t, b, ph)
  BY <1>2, <1>3, <1>4 DEF RetainRead, Obj, Reads
<1>6. PICK c \in Call : /\ Moves(t, c) /\ c.op = call[t].op /\ c.obj = o
                        /\ c.seen = b /\ c.phase = ph
  BY <1>2, <1>5, ReadMoves DEF UUIDInv
<1>7. c.phase \in {"carry", "retain cas"}
  BY <1>4, <1>6
<1>8. call[t].phase \notin Posting /\ c.phase \notin Posting
  BY <1>1, <1>7 DEF Posting
<1>9. CallOK(c)
  <2>1. c # NoCall
    BY <1>7, NoCallIsIdle
  <2> QED BY <1>2, <1>6, <1>7, <2>1 DEF CallOK, RetainPhase
<1>10. SeenOK(c)
  BY <1>4, <1>6 DEF SeenOK
<1>11. Alone(t, c)
  BY <1>7 DEF Alone, Finalizing
<1>12. RightOK(t, c)
  <2>1. RightOK(t, call[t])
    BY DEF UUIDInv, Calls
  <2> QED BY <1>1, <1>2, <1>6, <1>7, <2>1 DEF RightOK, Wanting
<1>13. \A p \in Object : c.obj = p => life[p] # "new"
  BY <1>2, <1>6
<1> QED BY <1>1, <1>6, <1>8, <1>9, <1>10, <1>11, <1>12, <1>13, QuietKeeps

\* A release reads the count, and finalizes if it is one.
LEMMA ReleaseReadKeeps ==
  ASSUME UUIDInv, NEW t \in Thread, ReleaseRead(t), UNCHANGED uuidVars
  PROVE  UUIDInv'
<1>1. /\ call[t].phase = "release"
      /\ UNCHANGED <<lp64, rc, ext, extLock, life, refs, uniqued, lock, bytes, constants>>
  BY DEF ReleaseRead, At, uuidVars
<1>2. PICK o \in Object : /\ call[t].obj = o /\ life[o] = "live" /\ refs[t][o] > 0
                          /\ call[t].op = "release"
  BY <1>1, WorksOnLive DEF ReleasePhase, Wanting
<1>3. PICK b \in Nat : b = rc[o]
  BY DEF UUIDInv, Shape
<1>4. PICK ph \in Phase : ph = IF b = 1 THEN "finalize"
                               ELSE IF ~lp64 /\ b = Flag THEN "borrow" ELSE "release cas"
  BY DEF Phase, ReleasePhase
<1>5. Reads(t, b, ph)
  BY <1>2, <1>3, <1>4 DEF ReleaseRead, Obj, Reads
<1>6. PICK c \in Call : /\ Moves(t, c) /\ c.op = call[t].op /\ c.obj = o
                        /\ c.seen = b /\ c.phase = ph
  BY <1>2, <1>5, ReadMoves DEF UUIDInv
<1>7. c.phase \in {"finalize", "borrow", "release cas"}
  BY <1>4, <1>6
<1>8. call[t].phase \notin Posting /\ c.phase \notin Posting
  BY <1>1, <1>7 DEF Posting
<1>9. CallOK(c)
  <2>1. c # NoCall
    BY <1>7, NoCallIsIdle
  <2> QED BY <1>2, <1>6, <1>7, <2>1 DEF CallOK, ReleasePhase
<1>10. SeenOK(c)
  BY <1>4, <1>6 DEF SeenOK
<1>11. Alone(t, c)
  <2> SUFFICES ASSUME c.phase \in Finalizing, NEW u \in Thread \ {t},
                      call[u].phase \in Finalizing, call[u].obj = o
               PROVE  FALSE
    BY <1>6 DEF Alone
  <2>1. rc[o] = 1
    BY <1>3, <1>4, <1>6 DEF Finalizing
  <2>2. \A v \in Thread : refs[v][o] > 0 => v = t
    BY <1>2, <2>1, LastReference
  <2>3. call[u].phase # "idle" /\ call[u].phase # "borrowed" /\ call[u].phase \in ReleasePhase
    BY DEF Finalizing, ReleasePhase
  <2>4. refs[u][o] > 0
    BY <2>3, WorksOnLive
  <2> QED BY <2>2, <2>4
<1>12. RightOK(t, c)
  BY <1>2, <1>6, <1>7 DEF RightOK, Wanting
<1>13. \A p \in Object : c.obj = p => life[p] # "new"
  BY <1>2, <1>6
<1> QED BY <1>1, <1>2, <1>6, <1>8, <1>9, <1>10, <1>11, <1>12, <1>13, QuietKeeps

-----------------------------------------------------------------------------
(***************************************************************************)
(* The table of instances                                                  *)
(***************************************************************************)

\* A create that finds its instance has the lock, and the entry.
LEMMA FindUUIDKeeps ==
  ASSUME UUIDInv, NEW t \in Thread, NEW b \in Bytes, FindUUID(t, b)
  PROVE  UUIDInv'
<1>1. /\ call[t].phase = "idle" /\ lock = None /\ lock' = t
      /\ UNCHANGED <<lp64, rc, ext, extLock, life, refs, uniqued, bytes, constants>>
  BY DEF FindUUID, At
<1>2. PICK o \in Object : o = uniqued[b] /\ refs[t][o] < MaxRefs
  BY DEF FindUUID, UUIDInv, Shape
<1>3. PICK c \in Call : c = Calling("create", o, "retain")
  BY DEF Call, Calling, Phase, RetainPhase
<1>4. c.op = "create" /\ c.obj = o /\ c.phase = "retain"
  BY <1>3 DEF Calling
<1>5. Moves(t, c)
  BY <1>2, <1>3, CallMoves DEF FindUUID, UUIDInv
<1>6. call[t].phase \notin Posting /\ c.phase \notin Posting
  BY <1>1, <1>4 DEF Posting
<1>7. Shape'
  BY <1>1, <1>5 DEF UUIDInv, Shape, Moves
<1>8. Calls'
  <2>1. CallOK(c)
    <3>1. c # NoCall
      BY <1>4, NoCallIsIdle
    <3> QED BY <1>4, <3>1 DEF CallOK, RetainPhase
  <2>2. SeenOK(c)
    BY <1>4 DEF SeenOK
  <2>3. RightOK(t, c)'
    BY <1>1, <1>2, <1>4 DEF RightOK
  <2>4. \A u \in Thread \ {t}, p \in Object : refs'[u][p] = refs[u][p]
    BY <1>1
  <2> QED BY <1>1, <1>5, <2>1, <2>2, <2>3, <2>4, CallsKeep DEF UUIDInv
<1>9. Locks'
  BY <1>1, <1>4, <1>5, <1>6, RuntimeAssumption DEF UUIDInv, Locks, Moves
<1>10. FinalizedByOne'
  <2>1. Alone(t, c)
    BY <1>4 DEF Alone, Finalizing
  <2> QED BY <1>5, <2>1, AloneKeeps DEF UUIDInv
<1>11. ASSUME NEW p \in Object PROVE HeldOK(p)' /\ CountOK(p)'
  <2>1. HeldOK(p)'
    <3>1. HeldOK(p) /\ HeldOK(o)
      BY DEF UUIDInv
    <3>2. life[o] = "live"
      BY <1>2, <3>1 DEF HeldOK
    <3> QED BY <1>1, <1>4, <1>5, <3>1, <3>2 DEF HeldOK, Moves
  <2>2. Extern(p)' = Extern(p)
    BY <1>1, <1>5, <1>6, PostsSame
  <2>3. Owned(p)' = Owned(p) /\ (Immortal(p)' <=> Immortal(p))
    BY <1>1 DEF Owned, Reference, Immortal
  <2>4. CountOK(p)
    BY DEF UUIDInv
  <2>5. CountOK(p)'
    BY <1>1, <2>2, <2>3, <2>4 DEF CountOK, Count, Bit
  <2> QED BY <2>1, <2>5
<1> QED BY <1>7, <1>8, <1>9, <1>10, <1>11 DEF UUIDInv

\* A create gives the lock back.
LEMMA UnlockKeeps ==
  ASSUME UUIDInv, NEW t \in Thread, Unlock(t)
  PROVE  UUIDInv'
<1>1. /\ call[t].phase = "unlock" /\ lock' = None
      /\ UNCHANGED <<lp64, rc, ext, extLock, life, refs, uniqued, bytes, constants>>
  BY DEF Unlock, At
<1>2. call[t].op = "create" /\ lock = t
  <2>1. CallOK(call[t]) /\ call[t] \in Call
    BY DEF UUIDInv, Calls, Shape
  <2>2. call[t].op = "create"
    BY <1>1, <2>1 DEF CallOK, RetainPhase, ReleasePhase, Call
  <2> QED BY <2>2 DEF UUIDInv, Locks
<1>3. PICK c \in Call : c = NoCall
  BY DEF Call, NoCall, Phase
<1>4. c.op = "none" /\ c.obj = None /\ c.phase = "idle"
  BY <1>3, NoCallIsIdle
<1>5. Moves(t, c)
  BY <1>3, CallMoves DEF Unlock, UUIDInv
<1>6. call[t].phase \notin Posting /\ c.phase \notin Posting
  BY <1>1, <1>4 DEF Posting
<1>7. Shape'
  BY <1>1, <1>5 DEF UUIDInv, Shape, Moves
<1>8. Calls'
  <2>1. CallOK(c)
    BY <1>3, <1>4 DEF CallOK
  <2>2. SeenOK(c)
    BY <1>4 DEF SeenOK
  <2>3. RightOK(t, c)'
    BY <1>4 DEF RightOK, Wanting
  <2>4. \A u \in Thread \ {t}, p \in Object : refs'[u][p] = refs[u][p]
    BY <1>1
  <2> QED BY <1>1, <1>5, <2>1, <2>2, <2>3, <2>4, CallsKeep DEF UUIDInv
<1>9. Locks'
  BY <1>1, <1>2, <1>4, <1>5, <1>6, RuntimeAssumption DEF UUIDInv, Locks, Moves
<1>10. FinalizedByOne'
  <2>1. Alone(t, c)
    BY <1>4 DEF Alone, Finalizing
  <2> QED BY <1>5, <2>1, AloneKeeps DEF UUIDInv
<1>11. ASSUME NEW p \in Object PROVE HeldOK(p)' /\ CountOK(p)'
  <2>1. HeldOK(p)'
    <3>1. HeldOK(p)
      BY DEF UUIDInv
    <3> QED BY <1>1, <1>4, <1>5, <3>1, RuntimeAssumption DEF HeldOK, Moves
  <2>2. Extern(p)' = Extern(p)
    BY <1>1, <1>5, <1>6, PostsSame
  <2>3. Owned(p)' = Owned(p) /\ (Immortal(p)' <=> Immortal(p))
    BY <1>1 DEF Owned, Reference, Immortal
  <2>4. CountOK(p)
    BY DEF UUIDInv
  <2>5. CountOK(p)'
    BY <1>1, <2>2, <2>3, <2>4 DEF CountOK, Count, Bit
  <2> QED BY <2>1, <2>5
<1> QED BY <1>7, <1>8, <1>9, <1>10, <1>11 DEF UUIDInv

\* A constant that is in the table was one already.
LEMMA FindConstantKeeps ==
  ASSUME UUIDInv, Careful, NEW t \in Thread, NEW b \in Bytes, FindConstant(t, b)
  PROVE  UUIDInv'
<1>1. /\ UNCHANGED <<lp64, rc, ext, extLock, life, refs, call, uniqued, lock, bytes>>
      /\ Immortal(uniqued[b]) /\ uniqued[b] # None
  BY DEF FindConstant, runtimeVars
<1>2. PICK o \in Object : o = uniqued[b] /\ Immortal(o)
  BY <1>1 DEF UUIDInv, Shape
<1>3. constants' = [constants EXCEPT ![t] = constants[t] \cup {o}]
  BY <1>2 DEF FindConstant
<1>4. /\ constants' \in [Thread -> SUBSET Object] /\ constants'[t] = constants[t] \cup {o}
      /\ \A u \in Thread \ {t} : constants'[u] = constants[u]
  BY <1>3 DEF UUIDInv, Shape
<1>5. Shape'
  BY <1>1, <1>4 DEF UUIDInv, Shape
<1>6. Calls' /\ Locks' /\ FinalizedByOne'
  <2>1. Calls'
    BY <1>1 DEF UUIDInv, Calls, CallOK, SeenOK, RightOK, Overflows
  <2>2. Locks'
    BY <1>1 DEF UUIDInv, Locks
  <2>3. FinalizedByOne'
    BY <1>1 DEF UUIDInv, FinalizedByOne, At, Obj
  <2> QED BY <2>1, <2>2, <2>3
<1>7. ASSUME NEW p \in Object PROVE HeldOK(p)' /\ CountOK(p)'
  <2>1. HeldOK(p) /\ HeldOK(o) /\ CountOK(p)
    BY DEF UUIDInv
  <2>2. HeldOK(p)'
    BY <1>1, <1>2, <1>4, <2>1 DEF HeldOK
  <2>3. Immortal(p)' <=> Immortal(p)
    BY <1>2, <1>4 DEF Immortal
  <2>4. Owned(p)' = Owned(p) /\ Extern(p)' = Extern(p)
    BY <1>1 DEF Owned, Reference, Extern, On, Bit
  <2>5. CountOK(p)'
    BY <1>1, <2>1, <2>3, <2>4 DEF CountOK, Count, Bit
  <2> QED BY <2>2, <2>5
<1> QED BY <1>5, <1>6, <1>7 DEF UUIDInv

\* A change of the table that gives nothing back that is being freed.
LEMMA TableKeeps ==
  ASSUME Calls, NEW t \in Thread, NEW c, Moves(t, c), lp64' = lp64,
         \A u \in Thread \ {t}, p \in Object :
            call[u].obj = p => refs'[u][p] = refs[u][p],
         \A u \in Thread \ {t}, v \in Bytes :
            call[u].phase = "finalized" => uniqued'[v] # call[u].obj,
         CallOK(c), SeenOK(c), RightOK(t, c)'
  PROVE  Calls'
<1>1. call'[t] = c
  BY DEF Moves
<1>2. CallOK(call[t])' /\ SeenOK(call[t])' /\ RightOK(t, call[t])'
  <2>1. CallOK(call[t])'
    BY <1>1 DEF CallOK
  <2>2. SeenOK(call[t])'
    BY <1>1 DEF SeenOK, Overflows
  <2>3. RightOK(t, call[t])'
    BY <1>1 DEF RightOK
  <2> QED BY <2>1, <2>2, <2>3
<1>3. ASSUME NEW u \in Thread \ {t}
      PROVE  CallOK(call[u])' /\ SeenOK(call[u])' /\ RightOK(u, call[u])'
  <2>1. PICK d : d = call[u] OBVIOUS
  <2>2. call'[u] = d
    BY <2>1 DEF Moves
  <2>3. CallOK(d) /\ SeenOK(d) /\ RightOK(u, d)
    BY <2>1 DEF Calls
  <2>4. CallOK(call[u])'
    BY <2>2, <2>3 DEF CallOK
  <2>5. SeenOK(call[u])'
    BY <2>2, <2>3 DEF SeenOK, Overflows
  <2>6. RightOK(u, call[u])'
    <3>1. d.obj \in Object \/ (d.op = "none" /\ d.phase = "idle")
      BY <2>3 DEF CallOK, NoCall
    <3>2. CASE d.obj \in Object
      <4>1. refs'[u][d.obj] = refs[u][d.obj]
        BY <2>1, <3>2
      <4>2. d.phase = "finalized" => \A v \in Bytes : uniqued'[v] # d.obj
        BY <2>1
      <4> QED BY <2>2, <2>3, <4>1, <4>2 DEF RightOK
    <3>3. CASE d.op = "none" /\ d.phase = "idle"
      BY <2>2, <3>3 DEF RightOK, Wanting
    <3> QED BY <3>1, <3>2, <3>3
  <2> QED BY <2>4, <2>5, <2>6
<1> QED BY <1>2, <1>3 DEF Calls

\* The finalizer takes the instance out of the table, whoever has its lock.
LEMMA DeallocateKeeps ==
  ASSUME UUIDInv, NEW t \in Thread, Deallocate(t)
  PROVE  UUIDInv'
<1>1. /\ call[t].phase = "finalize" /\ Go(t, "finalized")
      /\ UNCHANGED <<lp64, rc, ext, extLock, life, refs, lock, bytes, constants>>
  BY DEF Deallocate, At
<1>2. PICK o \in Object : /\ call[t].obj = o /\ life[o] = "live" /\ refs[t][o] > 0
                          /\ call[t].op = "release"
  BY <1>1, WorksOnLive DEF ReleasePhase, Wanting
<1>3. PICK b \in Bytes : b = bytes[o]
  BY <1>2 DEF UUIDInv, HeldOK
<1>4. uniqued' = [uniqued EXCEPT ![b] = None]
  BY <1>2, <1>3 DEF Deallocate, Obj
<1>5. /\ uniqued' \in [Bytes -> Object \cup {None}] /\ uniqued'[b] = None
      /\ \A v \in Bytes \ {b} : uniqued'[v] = uniqued[v]
  BY <1>4 DEF UUIDInv, Shape
<1>6. \A v \in Bytes, p \in Object : uniqued'[v] = p => uniqued[v] = p
  BY <1>5, RuntimeAssumption
<1>7. PICK c \in Call : /\ Moves(t, c) /\ c.op = "release" /\ c.obj = o
                        /\ c.phase = "finalized"
  <2>1. "finalized" \in Phase
    BY DEF Phase, ReleasePhase
  <2> QED BY <1>1, <1>2, <2>1, GoMoves DEF UUIDInv
<1>8. call[t].phase \notin Posting /\ c.phase \notin Posting
  BY <1>1, <1>7 DEF Posting
<1>9. Shape'
  BY <1>1, <1>5, <1>7 DEF UUIDInv, Shape, Moves
<1>10. Calls'
  <2>1. CallOK(c)
    <3>1. c # NoCall
      BY <1>7, NoCallIsIdle
    <3> QED BY <1>7, <3>1 DEF CallOK, ReleasePhase
  <2>2. SeenOK(c)
    BY <1>7 DEF SeenOK
  <2>3. RightOK(t, c)'
    <3>1. \A v \in Bytes : uniqued'[v] # o
      <4>1. HeldOK(o)
        BY DEF UUIDInv
      <4> QED BY <1>3, <1>5, <4>1, RuntimeAssumption DEF HeldOK
    <3> QED BY <1>1, <1>2, <1>7, <3>1 DEF RightOK, Wanting
  <2>4. \A u \in Thread \ {t}, p \in Object : call[u].obj = p => refs'[u][p] = refs[u][p]
    BY <1>1
  <2>5. ASSUME NEW u \in Thread \ {t}, NEW v \in Bytes, call[u].phase = "finalized"
        PROVE  uniqued'[v] # call[u].obj
    <3>1. RightOK(u, call[u]) /\ call[u].obj \in Object
      BY <2>5 DEF UUIDInv, Calls, CallOK
    <3> QED BY <1>6, <2>5, <3>1 DEF RightOK
  <2> QED BY <1>1, <1>7, <2>1, <2>2, <2>3, <2>4, <2>5, TableKeeps DEF UUIDInv
<1>11. Locks'
  BY <1>1, <1>2, <1>7, <1>8, LocksSame DEF UUIDInv
<1>12. FinalizedByOne'
  <2>1. Alone(t, c)
    BY <1>1, <1>2, <1>7 DEF Alone, UUIDInv, FinalizedByOne, At, Obj, Finalizing
  <2> QED BY <1>7, <2>1, AloneKeeps DEF UUIDInv
<1>13. ASSUME NEW p \in Object PROVE HeldOK(p)' /\ CountOK(p)'
  <2>1. HeldOK(p) /\ CountOK(p)
    BY DEF UUIDInv
  <2>2. HeldOK(p)'
    BY <1>1, <1>2, <1>6, <1>7, <2>1 DEF HeldOK, Moves
  <2>3. Extern(p)' = Extern(p)
    BY <1>1, <1>7, <1>8, PostsSame
  <2>4. Owned(p)' = Owned(p) /\ (Immortal(p)' <=> Immortal(p))
    BY <1>1 DEF Owned, Reference, Immortal
  <2>5. CountOK(p)'
    BY <1>1, <2>1, <2>3, <2>4 DEF CountOK, Count, Bit
  <2> QED BY <2>2, <2>5
<1> QED BY <1>9, <1>10, <1>11, <1>12, <1>13 DEF UUIDInv

\* A new instance: nobody can have known it.
LEMMA CreateNewKeeps ==
  ASSUME UUIDInv, NEW t \in Thread, NEW b \in Bytes, NEW o \in Object, o = Fresh,
         CreateNew(t, b), Shape',
         \/ Adds(t, o, 1) /\ UNCHANGED constants
         \/ refs' = refs /\ constants' = [constants EXCEPT ![t] = constants[t] \cup {o}]
  PROVE  UUIDInv'
<1>1. /\ call[t].phase = "idle" /\ lock = None /\ uniqued[b] = None
      /\ UNCHANGED <<lp64, ext, extLock, call, lock>>
  BY DEF CreateNew, At
<1>2. life[o] = "new"
  BY DEF CreateNew, CreateInstance, Fresh
<1>3. /\ rc' = [rc EXCEPT ![o] = 1] /\ life' = [life EXCEPT ![o] = "live"]
      /\ uniqued' = [uniqued EXCEPT ![b] = o] /\ bytes' = [bytes EXCEPT ![o] = b]
  BY DEF CreateNew, CreateInstance
<1>4. /\ rc'[o] = 1 /\ life'[o] = "live" /\ uniqued'[b] = o /\ bytes'[o] = b
      /\ \A p \in Object \ {o} : rc'[p] = rc[p] /\ life'[p] = life[p] /\ bytes'[p] = bytes[p]
      /\ \A v \in Bytes \ {b} : uniqued'[v] = uniqued[v]
  BY <1>3 DEF UUIDInv, Shape
<1>5. /\ \A u \in Thread : ~(refs[u][o] > 0) /\ o \notin constants[u] /\ call[u].obj # o
      /\ \A v \in Bytes : uniqued[v] # o
      /\ ext[o] = 0
  BY <1>2 DEF UUIDInv, HeldOK
<1>6. Owned(o) = 0 /\ refs[t][o] < MaxRefs
  <2>1. Owned(o) = 0
    BY <1>5, NoneOwned DEF UUIDInv
  <2>2. refs[t][o] < MaxRefs
    BY <1>5, RuntimeAssumption DEF UUIDInv, Shape
  <2> QED BY <2>1, <2>2
<1>7. /\ \A u \in Thread, p \in Object : ~(u = t /\ p = o) => refs'[u][p] = refs[u][p]
      /\ \A p \in Object \ {o} : Owned(p)' = Owned(p)
      /\ \A u \in Thread, p \in Object : p # o => (p \in constants'[u] <=> p \in constants[u])
      /\ Owned(o)' + Bit(Immortal(o))' = 1
  <2>1. CASE Adds(t, o, 1) /\ UNCHANGED constants
    <3>1. Trades(t, o, Owned(o) + 1)
      BY <1>6, <2>1, OwnMore DEF UUIDInv
    <3>2. ~Immortal(o)'
      BY <1>5, <2>1 DEF Immortal
    <3>3. Owned(o)' = 1 /\ Bit(Immortal(o))' = 0
      BY <1>6, <3>1, <3>2 DEF Trades, Bit
    <3> QED BY <2>1, <3>1, <3>3 DEF Trades
  <2>2. CASE refs' = refs /\ constants' = [constants EXCEPT ![t] = constants[t] \cup {o}]
    <3>1. \A p \in Object : Owned(p)' = Owned(p)
      BY <2>2 DEF Owned, Reference
    <3>2. /\ o \in constants'[t]
          /\ \A u \in Thread, p \in Object : p # o => (p \in constants'[u] <=> p \in constants[u])
      BY <2>2 DEF UUIDInv, Shape
    <3>3. Bit(Immortal(o))' = 1 /\ Owned(o)' = 0
      BY <1>6, <3>1, <3>2 DEF Immortal, Bit
    <3> QED BY <2>2, <3>1, <3>2, <3>3
  <2> QED BY <2>1, <2>2
<1>8. Calls'
  <2>1. PICK c : c = call[t] OBVIOUS
  <2>2. Moves(t, c)
    BY <1>1, <2>1 DEF UUIDInv, Shape, Moves
  <2>3. CallOK(c) /\ SeenOK(c) /\ c = NoCall
    BY <1>1, <2>1 DEF UUIDInv, Calls, CallOK
  <2>4. RightOK(t, c)'
    BY <2>3, NoCallIsIdle DEF RightOK, Wanting
  <2>5. \A u \in Thread \ {t}, p \in Object : call[u].obj = p => refs'[u][p] = refs[u][p]
    BY <1>7
  <2>6. ASSUME NEW u \in Thread \ {t}, NEW v \in Bytes, call[u].phase = "finalized"
        PROVE  uniqued'[v] # call[u].obj
    <3>1. RightOK(u, call[u])
      BY DEF UUIDInv, Calls
    <3> QED BY <1>4, <1>5, <2>6, <3>1 DEF RightOK
  <2> QED BY <1>1, <2>2, <2>3, <2>4, <2>5, <2>6, TableKeeps DEF UUIDInv
<1>9. Locks'
  BY <1>1 DEF UUIDInv, Locks
<1>10. FinalizedByOne'
  BY <1>1 DEF UUIDInv, FinalizedByOne, At, Obj
<1>11. HeldOK(o)'
  BY <1>1, <1>4, <1>5 DEF HeldOK
<1>12. CountOK(o)'
  <2>1. ~On(o, "carried")' /\ ~On(o, "borrowed")'
    BY <1>1, <1>5 DEF On
  <2>2. Extern(o)' = 0
    BY <1>1, <1>5, <2>1 DEF Extern, Bit
  <2>3. Exact(lp64, 1, 0, 1)
    BY ByteBorrowed, Unit DEF Exact
  <2> QED BY <1>1, <1>4, <1>7, <2>2, <2>3, ExactNext
<1>13. ASSUME NEW p \in Object \ {o} PROVE HeldOK(p)' /\ CountOK(p)'
  <2>1. HeldOK(p) /\ CountOK(p)
    BY DEF UUIDInv
  <2>2. \A v \in Bytes : uniqued'[v] = p => uniqued[v] = p
    BY <1>4
  <2>3. \A u \in Thread : refs'[u][p] = refs[u][p] /\ (p \in constants'[u] <=> p \in constants[u])
    BY <1>7
  <2>4. HeldOK(p)'
    BY <1>1, <1>4, <2>1, <2>2, <2>3 DEF HeldOK
  <2>5. Extern(p)' = Extern(p)
    BY <1>1 DEF Extern, On, Bit
  <2>6. Owned(p)' = Owned(p) /\ (Immortal(p)' <=> Immortal(p))
    BY <1>7, <2>3 DEF Immortal
  <2>7. CountOK(p)'
    BY <1>1, <1>4, <2>1, <2>5, <2>6 DEF CountOK, Count, Bit
  <2> QED BY <2>4, <2>7
<1> QED BY <1>8, <1>9, <1>10, <1>11, <1>12, <1>13 DEF UUIDInv

\* CFUUIDCreateWithBytes, of new bytes: the caller owns the first reference.
LEMMA CreateWithBytesKeeps ==
  ASSUME UUIDInv, NEW t \in Thread, NEW b \in Bytes, CreateWithBytes(t, b)
  PROVE  UUIDInv'
<1>1. PICK o \in Object : o = Fresh /\ life[o] = "new"
  BY DEF CreateWithBytes, CreateNew, CreateInstance, Fresh
<1>2. refs[t][o] = 0 /\ 0 + 1 = 1
  BY <1>1 DEF UUIDInv, HeldOK, Shape
<1>3. Adds(t, o, 1)
  BY <1>1, <1>2 DEF CreateWithBytes, Adds
<1>4. refs' \in [Thread -> [Object -> 0..MaxRefs]]
  <2>1. refs[t][o] < MaxRefs
    BY <1>2, RuntimeAssumption
  <2> QED BY <1>3, <2>1, OwnMore DEF UUIDInv, Trades
<1>5. Shape'
  BY <1>1, <1>4 DEF CreateWithBytes, CreateNew, CreateInstance, UUIDInv, Shape
<1> QED BY <1>1, <1>3, <1>5, CreateNewKeeps DEF CreateWithBytes

\* CFUUIDGetConstantUUIDWithBytes, of new bytes: the first reference is nobody's.
LEMMA ConstantWithBytesKeeps ==
  ASSUME UUIDInv, NEW t \in Thread, NEW b \in Bytes, ConstantWithBytes(t, b)
  PROVE  UUIDInv'
<1>1. PICK o \in Object : o = Fresh
  BY DEF ConstantWithBytes, CreateNew, CreateInstance, Fresh
<1>2. refs' = refs /\ constants' = [constants EXCEPT ![t] = constants[t] \cup {o}]
  BY <1>1 DEF ConstantWithBytes
<1>3. Shape'
  BY <1>1, <1>2 DEF ConstantWithBytes, CreateNew, CreateInstance, UUIDInv, Shape
<1> QED BY <1>1, <1>2, <1>3, CreateNewKeeps DEF ConstantWithBytes

-----------------------------------------------------------------------------
(***************************************************************************)
(* The specification                                                       *)
(***************************************************************************)

\* The program starts with no objects.
LEMMA InitUUID == Init => UUIDInv
<1> SUFFICES ASSUME Init PROVE UUIDInv
  OBVIOUS
<1> USE DEF Init, InitRuntime
<1>1. NoCall \in Call /\ CallOK(NoCall)
  BY DEF Call, NoCall, Phase, CallOK
<1>2. Shape
  BY <1>1, RuntimeAssumption DEF Shape
<1>3. ASSUME NEW t \in Thread PROVE CallOK(call[t]) /\ SeenOK(call[t]) /\ RightOK(t, call[t])
  <2>1. call[t] = NoCall /\ call[t].phase = "idle" /\ call[t].op = "none"
    BY NoCallIsIdle
  <2> QED BY <1>1, <2>1 DEF SeenOK, RightOK, Wanting
<1>4. Locks
  BY NoCallIsIdle, RuntimeAssumption DEF Locks, Posting
<1>5. FinalizedByOne
  BY NoCallIsIdle DEF FinalizedByOne, At
<1>6. ASSUME NEW o \in Object PROVE HeldOK(o) /\ CountOK(o)
  <2>1. HeldOK(o)
    BY NoCallIsIdle, RuntimeAssumption DEF HeldOK
  <2>2. ~On(o, "carried") /\ ~On(o, "borrowed")
    BY NoCallIsIdle DEF On
  <2>3. Extern(o) = 0
    BY <2>2 DEF Extern, Bit
  <2>4. CountOK(o)
    BY <2>3, ByteBorrowed DEF CountOK
  <2> QED BY <2>1, <2>4
<1> QED BY <1>2, <1>3, <1>4, <1>5, <1>6 DEF UUIDInv, Calls

\* A step in which nothing happens.
LEMMA StutterUUID ==
  ASSUME UUIDInv, UNCHANGED vars
  PROVE  UUIDInv'
<1>1. UNCHANGED <<lp64, rc, ext, extLock, life, refs, call, uniqued, lock, bytes, constants>>
  BY DEF vars, runtimeVars, uuidVars
<1>2. Shape'
  BY <1>1 DEF UUIDInv, Shape
<1>3. Calls'
  BY <1>1 DEF UUIDInv, Calls, CallOK, SeenOK, RightOK, Overflows
<1>4. Locks' /\ FinalizedByOne'
  BY <1>1 DEF UUIDInv, Locks, FinalizedByOne, At, Obj
<1>5. ASSUME NEW o \in Object PROVE HeldOK(o)' /\ CountOK(o)'
  <2>1. HeldOK(o) /\ CountOK(o)
    BY DEF UUIDInv
  <2>2. HeldOK(o)'
    BY <1>1, <2>1 DEF HeldOK
  <2>3. /\ Owned(o)' = Owned(o) /\ Extern(o)' = Extern(o)
        /\ Immortal(o)' <=> Immortal(o)
    BY <1>1 DEF Owned, Reference, Extern, On, Bit, Immortal
  <2>4. CountOK(o)'
    BY <1>1, <2>1, <2>3 DEF CountOK, Count, Bit
  <2> QED BY <2>2, <2>4
<1> QED BY <1>2, <1>3, <1>4, <1>5 DEF UUIDInv

\* Every step keeps the invariant.
LEMMA UUIDInductive ==
  ASSUME Careful
  PROVE  Spec => []UUIDInv
<1>1. UUIDInv /\ [Next]_vars => UUIDInv'
  <2> SUFFICES ASSUME UUIDInv, [Next]_vars PROVE UUIDInv'
    OBVIOUS
  <2>1. CASE UNCHANGED vars
    BY <2>1, StutterUUID
  <2>2. CASE Next
    <3>1. PICK t \in Thread :
            \/ \E b \in Bytes :
                  \/ CreateWithBytes(t, b) \/ ConstantWithBytes(t, b)
                  \/ FindUUID(t, b) \/ FindConstant(t, b)
            \/ \E o \in Object : (Retain(t, o) \/ Release(t, o)) /\ UNCHANGED uuidVars
            \/ Step(t) /\ UNCHANGED uuidVars
            \/ Deallocate(t)
            \/ Unlock(t)
      BY <2>2 DEF Next
    <3>2. ASSUME NEW b \in Bytes,
                 \/ CreateWithBytes(t, b) \/ ConstantWithBytes(t, b)
                 \/ FindUUID(t, b) \/ FindConstant(t, b)
          PROVE  UUIDInv'
      BY <3>2, CreateWithBytesKeeps, ConstantWithBytesKeeps, FindUUIDKeeps, FindConstantKeeps
    <3>3. ASSUME NEW o \in Object, (Retain(t, o) \/ Release(t, o)) /\ UNCHANGED uuidVars
          PROVE  UUIDInv'
      BY <3>3, RetainKeeps, ReleaseKeeps
    <3>4. CASE Step(t) /\ UNCHANGED uuidVars
      BY <3>4, RetainReadKeeps, RetainCASKeeps, RetainCarryKeeps, RetainCarriedKeeps,
         ReleaseReadKeeps, ReleaseCASKeeps, ReleaseBorrowKeeps, ReleaseBorrowedKeeps,
         FreeKeeps DEF Step
    <3>5. CASE Deallocate(t) \/ Unlock(t)
      BY <3>5, DeallocateKeeps, UnlockKeeps
    <3> QED BY <3>1, <3>2, <3>3, <3>4, <3>5
  <2> QED BY <2>1, <2>2
<1> QED BY <1>1, InitUUID, PTL DEF Spec

\* What a thread has still to do to the external count of o, as a number.
LEMMA PostedNumber ==
  ASSUME Shape, Locks, NEW o \in Object, NEW ph \in Posting
  PROVE  Cardinality({t \in Thread : At(t, ph) /\ Obj(t) = o}) = Bit(On(o, ph))
<1>1. PICK S : S = {t \in Thread : At(t, ph) /\ Obj(t) = o} OBVIOUS
<1>2. \A t \in Thread : t \in S <=> call[t].phase = ph /\ call[t].obj = o
  BY <1>1 DEF At, Obj
<1>3. \A t \in S : t \in Thread /\ extLock = t
  BY <1>1, <1>2 DEF Locks
<1>4. CASE On(o, ph)
  <2>1. PICK t \in Thread : t \in S
    BY <1>2, <1>4 DEF On
  <2>2. S = {t}
    BY <1>3, <2>1
  <2>3. Cardinality({t}) = 1
    BY FS_Singleton
  <2> QED BY <1>1, <1>4, <2>2, <2>3 DEF Bit
<1>5. CASE ~On(o, ph)
  <2>1. S = {}
    BY <1>2, <1>3, <1>5 DEF On
  <2>2. Cardinality({}) = 0
    BY FS_EmptySet
  <2> QED BY <1>1, <1>5, <2>1, <2>2 DEF Bit
<1> QED BY <1>4, <1>5

\* The invariant has the properties.
LEMMA UUIDImplies ==
  ASSUME UUIDInv
  PROVE  TypeOK /\ OwnedIsLive /\ TableIsLive /\ CountIsExact /\ FinalizedByOne
<1>1. TypeOK
  <2>1. \A t \in Thread : /\ call[t].obj \in Object \cup {None}
                          /\ At(t, "idle") <=> call[t] = NoCall
    BY DEF UUIDInv, Shape, Calls, CallOK, Call, At
  <2>2. ~lp64 => \A o \in Object : rc[o] < 2 * Flag
    BY DEF UUIDInv, CountOK
  <2> QED BY <2>1, <2>2 DEF TypeOK, RuntimeTypeOK, UUIDInv, Shape
<1>2. OwnedIsLive
  <2> SUFFICES ASSUME NEW t \in Thread, NEW o \in Object, Owns(t, o)
               PROVE  life[o] = "live"
    BY DEF OwnedIsLive
  <2>1. CASE refs[t][o] > 0 \/ o \in constants[t]
    BY <2>1 DEF UUIDInv, HeldOK
  <2>2. CASE /\ call[t].obj = o /\ call[t].phase # "borrowed"
             /\ call[t].op \in {"retain", "release"}
    <3>1. call[t].phase # "idle"
      BY <2>2, NoCallIsIdle, RuntimeAssumption DEF UUIDInv, Calls, CallOK
    <3> QED BY <2>2, <3>1, WorksOnLive
  <2> QED BY <2>1, <2>2 DEF Owns, Obj, At
<1>3. TableIsLive
  BY DEF TableIsLive, UUIDInv, Shape, HeldOK
<1>4. CountIsExact
  <2> SUFFICES ASSUME NEW o \in Object, life[o] = "live"
               PROVE  RetainCount(o) = Owned(o) + (IF Immortal(o) THEN 1 ELSE 0)
    BY DEF CountIsExact
  <2>1. Count(o) = Owned(o) + Bit(Immortal(o))
    BY DEF UUIDInv, CountOK
  <2>2. "carried" \in Posting /\ "borrowed" \in Posting
    BY DEF Posting
  <2>3. /\ Cardinality({t \in Thread : At(t, "carried") /\ Obj(t) = o}) = Bit(On(o, "carried"))
        /\ Cardinality({t \in Thread : At(t, "borrowed") /\ Obj(t) = o}) = Bit(On(o, "borrowed"))
    BY <2>2, PostedNumber DEF UUIDInv
  <2>4. RetainCount(o) = Count(o)
    BY <2>3 DEF RetainCount, Count, Extern
  <2> QED BY <2>1, <2>4 DEF Bit
<1> QED BY <1>1, <1>2, <1>3, <1>4 DEF UUIDInv

(***************************************************************************)
(* The state has its types; the byte of the 32-bit build does not leave    *)
(* its range, whatever is carried and borrowed.                            *)
(***************************************************************************)
THEOREM Typed ==
  ASSUME Careful
  PROVE  Spec => []TypeOK
  BY UUIDInductive, UUIDImplies, PTL

(***************************************************************************)
(* What a thread owns, was given as a constant, retains or releases has    *)
(* not been freed, though a finalizer takes no lock and creates find its   *)
(* instance and retain it meanwhile: only such a create is ever left with  *)
(* a freed instance.                                                       *)
(***************************************************************************)
THEOREM NothingOwnedIsFreed ==
  ASSUME Careful
  PROVE  Spec => []OwnedIsLive
  BY UUIDInductive, UUIDImplies, PTL

(***************************************************************************)
(* The table, which does not retain its instances, has none that is freed: *)
(* the finalizer takes an instance out before its memory goes, without the *)
(* lock that a create has.                                                 *)
(***************************************************************************)
THEOREM NothingFreedIsFound ==
  ASSUME Careful
  PROVE  Spec => []TableIsLive
  BY UUIDInductive, UUIDImplies, PTL

(***************************************************************************)
(* The retain count of a live object is the number of references to it,    *)
(* in the word of the 64-bit build and across the byte and the external    *)
(* count of the 32-bit build, between any two steps of any threads.        *)
(***************************************************************************)
THEOREM CountsAreExact ==
  ASSUME Careful
  PROVE  Spec => []CountIsExact
  BY UUIDInductive, UUIDImplies, PTL

(***************************************************************************)
(* No object is finalized by two threads at once.                          *)
(***************************************************************************)
THEOREM NothingIsFinalizedTwice ==
  ASSUME Careful
  PROVE  Spec => []FinalizedByOne
  BY UUIDInductive, UUIDImplies, PTL

=============================================================================
