--------------------- MODULE CFNotificationCenterProofs ---------------------
(***************************************************************************)
(* Theorems about the notification center for any number of threads,       *)
(* observers, nested posts and records: the counter is exact, only         *)
(* removals and moves lead a walk out of the table, and only additions     *)
(* make one pass over an observer.                                         *)
(***************************************************************************)
EXTENDS CFNotificationCenter, FiniteSetTheorems, SequenceTheorems, WellFoundedInduction,
        TLAPS

Frame == [phase : Phases \cup {"walk"}, name : Name, object : Object \cup {None},
          next : Nat \ {0}, left : Nat, stale : BOOLEAN, due : SUBSET Nat,
          added : BOOLEAN, removed : BOOLEAN]

\* The table, its counter and the calls have their types.
Shape ==
    /\ obs \in Seq(Record \cup {Empty})
    /\ observers = Cardinality(Used)
    /\ posts \in [Thread -> Seq(Frame)]
    /\ \A f \in Frames : f.phase \in Phases /\ f.due \subseteq DOMAIN obs

Ahead(f) == {i \in Used : i >= f.next}

\* A walk that is under way: unless records to come were removed, at least as
\* many are in use ahead of it as it will look at, and unless some were added,
\* at most as many.  What is due is in use and still to come.
OnTrack(f) ==
    /\ f.stale => f.added
    /\ f.phase \in {"found", "called"} =>
        /\ f.removed \/ f.left <= Cardinality(Ahead(f))
        /\ f.added \/ f.left >= Cardinality(Ahead(f))
    /\ f.phase = "found" => f.removed \/ f.next - 1 \in Used
    /\ f.phase = "lost" => f.removed \/ f.stale
    /\ f.phase = "done" => f.added \/ f.due = {}
    /\ \A i \in f.due : /\ i \in Used /\ Matches(obs[i], f)
                        /\ f.phase \in {"found", "called"} => ToCome(f, i)

WalkInv == \A f \in Frames : OnTrack(f)

-----------------------------------------------------------------------------
\* A set of naturals that is not empty has a least element.
LEMMA LeastElement ==
  ASSUME NEW S \in SUBSET Nat, S # {}
  PROVE  \E m \in S : \A x \in S : m <= x
<1> DEFINE R == OpToRel(<, Nat)
<1>1. IsWellFoundedOn(R, Nat)
  BY NatLessThanWellFounded
<1>2. \A x, y \in Nat : x < y => <<x, y>> \in R
  BY DEF OpToRel
<1> HIDE DEF R
<1>3. PICK m \in S : \A x \in S : ~(<<x, m>> \in R)
  BY <1>1, WFMin
<1>4. ASSUME NEW x \in S PROVE m <= x
  <2>1. x \in Nat /\ m \in Nat
    OBVIOUS
  <2>2. ~(x < m)
    BY <1>2, <1>3, <2>1
  <2> QED BY <2>1, <2>2
<1> QED BY <1>4

\* Min picks the least element.
LEMMA MinIsLeast ==
  ASSUME NEW S \in SUBSET Nat, S # {}
  PROVE  Min(S) \in S /\ \A x \in S : Min(S) <= x
  BY LeastElement DEF Min

\* The records in use are finitely many.
LEMMA UsedIsFinite ==
  ASSUME obs \in Seq(Record \cup {Empty})
  PROVE  /\ DOMAIN obs = 1..Len(obs) /\ Len(obs) \in Nat
         /\ Used \subseteq DOMAIN obs /\ DOMAIN obs \subseteq Nat \ {0}
         /\ IsFiniteSet(Used) /\ Cardinality(Used) \in Nat
         /\ Cardinality(Used) <= Len(obs)
<1>1. DOMAIN obs = 1..Len(obs) /\ Len(obs) \in Nat /\ Used \subseteq DOMAIN obs
  BY DEF Used
<1>2. IsFiniteSet(1..Len(obs)) /\ Cardinality(1..Len(obs)) = Len(obs)
  <2> DEFINE n == Len(obs)
  <2>1. n \in Nat
    BY <1>1
  <2> HIDE DEF n
  <2>2. IsFiniteSet(1..n) /\ Cardinality(1..n) = n
    BY <2>1, FS_Interval
  <2> QED BY <2>2 DEF n
<1>3. IsFiniteSet(Used) /\ Cardinality(Used) <= Len(obs)
  BY <1>1, <1>2, FS_Subset
<1> QED BY <1>1, <1>3, FS_CardinalityType

\* A table that is not full has a first free record.
LEMMA FirstFreeIsFree ==
  ASSUME Shape, observers < Len(obs)
  PROVE  FirstFree \in DOMAIN obs \ Used
<1>1. DOMAIN obs \ Used # {}
  <2> SUFFICES ASSUME Used = 1..Len(obs) PROVE FALSE
    BY UsedIsFinite DEF Shape
  <2> QED BY UsedIsFinite, FS_Interval DEF Shape
<1>2. (DOMAIN obs \ Used) \in SUBSET Nat
  BY UsedIsFinite DEF Shape
<1> HIDE DEF FirstFree
<1> QED BY <1>1, <1>2, MinIsLeast DEF FirstFree

\* Empty is no record of an observer.
LEMMA EmptyIsNoRecord == Empty \notin Record
  BY DEF Empty, Record

\* A set of records that lie ahead is finite, and a part of it smaller.
LEMMA AheadIsFinite ==
  ASSUME obs \in Seq(Record \cup {Empty}), NEW f
  PROVE  IsFiniteSet(Ahead(f)) /\ Cardinality(Ahead(f)) \in Nat
<1>1. Ahead(f) \subseteq Used BY DEF Ahead
<1> QED BY <1>1, UsedIsFinite, FS_Subset, FS_CardinalityType

-----------------------------------------------------------------------------
(***************************************************************************)
(* What the steps do to the table.                                         *)
(***************************************************************************)
\* A free record is filled.
LEMMA Filled ==
  ASSUME Shape, NEW i \in DOMAIN obs \ Used, NEW r \in Record,
         obs' = [obs EXCEPT ![i] = r]
  PROVE  /\ obs' \in Seq(Record \cup {Empty}) /\ DOMAIN obs' = DOMAIN obs
         /\ Used' = Used \cup {i} /\ \A j \in Used : obs'[j] = obs[j]
         /\ Cardinality(Used') = Cardinality(Used) + 1
<1>1. /\ obs' \in Seq(Record \cup {Empty}) /\ DOMAIN obs' = DOMAIN obs
      /\ \A j \in DOMAIN obs : obs'[j] = IF j = i THEN r ELSE obs[j]
  BY DEF Shape
<1>2. Used' = Used \cup {i} /\ \A j \in Used : obs'[j] = obs[j]
  BY <1>1, EmptyIsNoRecord DEF Used
<1>3. Cardinality(Used') = Cardinality(Used) + 1
  BY <1>2, UsedIsFinite, FS_AddElement DEF Shape
<1> QED BY <1>1, <1>2, <1>3

\* The records gone are cleared.
LEMMA Cleared ==
  ASSUME Shape, NEW gone \in SUBSET Used,
         obs' = [i \in DOMAIN obs |-> IF i \in gone THEN Empty ELSE obs[i]]
  PROVE  /\ obs' \in Seq(Record \cup {Empty}) /\ DOMAIN obs' = DOMAIN obs
         /\ Used' = Used \ gone /\ \A j \in Used \ gone : obs'[j] = obs[j]
         /\ Cardinality(Used') = Cardinality(Used) - Cardinality(gone)
<1>1. DOMAIN obs = 1..Len(obs) /\ Len(obs) \in Nat
  BY UsedIsFinite DEF Shape
<1>2. /\ obs' \in Seq(Record \cup {Empty}) /\ DOMAIN obs' = DOMAIN obs
      /\ \A j \in DOMAIN obs : obs'[j] = IF j \in gone THEN Empty ELSE obs[j]
  BY <1>1 DEF Shape
<1>3. Used' = Used \ gone /\ \A j \in Used \ gone : obs'[j] = obs[j]
  BY <1>2 DEF Used
<1>4. gone \cap Used = gone /\ Used \cap gone = gone
  OBVIOUS
<1>5. Cardinality(Used') = Cardinality(Used) - Cardinality(gone)
  <2>1. IsFiniteSet(Used)
    BY UsedIsFinite DEF Shape
  <2>2. Cardinality(Used \ gone) = Cardinality(Used) - Cardinality(Used \cap gone)
    BY <2>1, FS_Difference
  <2> QED BY <2>2, <1>3, <1>4
<1> QED BY <1>2, <1>3, <1>5

\* A full table becomes larger.
LEMMA Grown ==
  ASSUME Shape, observers = Len(obs), NEW r \in Record,
         obs' = [i \in 1..(Len(obs) + ObsSize) |->
                     CASE i <= Len(obs)       -> obs[i]
                       [] i = observers + 1   -> r
                       [] OTHER               -> Empty]
  PROVE  /\ obs' \in Seq(Record \cup {Empty}) /\ DOMAIN obs \subseteq DOMAIN obs'
         /\ Used' = Used \cup {observers + 1}
         /\ Cardinality(Used') = observers + 1
<1>1. DOMAIN obs = 1..Len(obs) /\ Len(obs) \in Nat
  BY UsedIsFinite DEF Shape
<1>2. Used = 1..Len(obs)
  <2>1. IsFiniteSet(1..Len(obs)) /\ Cardinality(1..Len(obs)) = Cardinality(Used)
    BY UsedIsFinite, FS_Interval DEF Shape
  <2>2. Used \in SUBSET (1..Len(obs))
    BY <1>1, UsedIsFinite DEF Shape
  <2> QED BY <2>1, <2>2, FS_Subset
<1>3. \A i \in 1..(Len(obs) + ObsSize) :
        obs'[i] = IF i <= Len(obs) THEN obs[i] ELSE IF i = observers + 1 THEN r ELSE Empty
  BY CenterAssumption
<1>4. DOMAIN obs' = 1..(Len(obs) + ObsSize)
  OBVIOUS
<1>5. \A i \in 1..(Len(obs) + ObsSize) : obs'[i] \in Record \cup {Empty}
  BY <1>1, <1>3 DEF Shape
<1>6. obs' \in Seq(Record \cup {Empty})
  <2>1. Len(obs) + ObsSize \in Nat
    BY <1>1, CenterAssumption
  <2>2. obs' \in [1..(Len(obs) + ObsSize) -> Record \cup {Empty}]
    BY <1>5
  <2> HIDE DEF Shape
  <2> QED BY <2>1, <2>2, IsASeq
<1>7. Used' = Used \cup {observers + 1}
  BY <1>1, <1>2, <1>3, <1>4, CenterAssumption, EmptyIsNoRecord DEF Used
<1>8. Cardinality(Used') = observers + 1
  <2>1. IsFiniteSet(Used) /\ Cardinality(Used) = observers /\ observers + 1 \notin Used
    BY <1>1, <1>2, UsedIsFinite DEF Shape
  <2>2. Cardinality(Used \cup {observers + 1}) = Cardinality(Used) + 1
    BY <2>1, FS_AddElement
  <2> QED BY <2>1, <2>2, <1>7
<1> QED BY <1>1, <1>4, <1>6, <1>7, <1>8, CenterAssumption

-----------------------------------------------------------------------------
(***************************************************************************)
(* What the steps do to the calls.                                         *)
(***************************************************************************)
\* The frame of a call that is under way.
LEMMA TopIsFrame ==
  ASSUME Shape, NEW t \in Thread, posts[t] # <<>>
  PROVE  Top(t) \in Frame /\ Top(t) \in Frames
  BY DEF Shape, Top, Frames

\* A call's frame changes.
LEMMA TopSet ==
  ASSUME Shape, NEW t \in Thread, posts[t] # <<>>, NEW g \in Frame, SetTop(t, g)
  PROVE  posts' \in [Thread -> Seq(Frame)] /\ Frames' \subseteq Frames \cup {g}
<1>1. posts[t] \in Seq(Frame) /\ Len(posts[t]) \in DOMAIN posts[t]
  BY DEF Shape
<1>2. posts' = [posts EXCEPT ![t] = [posts[t] EXCEPT ![Len(posts[t])] = g]]
  BY DEF SetTop
<1>3. [posts[t] EXCEPT ![Len(posts[t])] = g] \in Seq(Frame)
  BY <1>1
<1>4. posts' \in [Thread -> Seq(Frame)]
  BY <1>2, <1>3 DEF Shape
<1>5. \A u \in Thread : \A d \in DOMAIN posts'[u] :
        d \in DOMAIN posts[u] /\ posts'[u][d] \in {posts[u][d], g}
  BY <1>1, <1>2 DEF Shape
<1> QED BY <1>4, <1>5 DEF Frames

\* A call begins.
LEMMA Pushed ==
  ASSUME Shape, NEW t \in Thread, NEW g \in Frame,
         posts' = [posts EXCEPT ![t] = Append(@, g)]
  PROVE  posts' \in [Thread -> Seq(Frame)] /\ Frames' \subseteq Frames \cup {g}
<1>1. posts[t] \in Seq(Frame) /\ Append(posts[t], g) \in Seq(Frame)
  BY DEF Shape
<1>2. posts' \in [Thread -> Seq(Frame)]
  BY <1>1 DEF Shape
<1>3. \A u \in Thread : \A d \in DOMAIN posts'[u] :
        \/ d \in DOMAIN posts[u] /\ posts'[u][d] = posts[u][d]
        \/ posts'[u][d] = g
  BY <1>1 DEF Shape
<1> QED BY <1>2, <1>3 DEF Frames

\* A call returns.
LEMMA Popped ==
  ASSUME Shape, NEW t \in Thread, PostReturns(t)
  PROVE  posts' \in [Thread -> Seq(Frame)] /\ Frames' \subseteq Frames
<1>1. posts[t] \in Seq(Frame) /\ posts[t] # <<>> /\ Len(posts[t]) \in Nat \ {0}
  BY DEF Shape, PostReturns, InPost
<1> DEFINE q == SubSeq(posts[t], 1, Len(posts[t]) - 1)
<1>2. q \in Seq(Frame) /\ Len(q) = Len(posts[t]) - 1
      /\ \A d \in 1..Len(q) : q[d] = posts[t][d]
  BY <1>1
<1>3. posts' = [posts EXCEPT ![t] = q]
  BY DEF PostReturns
<1> HIDE DEF q
<1>4. posts' \in [Thread -> Seq(Frame)]
  BY <1>2, <1>3 DEF Shape
<1>5. \A u \in Thread : \A d \in DOMAIN posts'[u] :
        d \in DOMAIN posts[u] /\ posts'[u][d] = posts[u][d]
  <2> SUFFICES ASSUME NEW u \in Thread, NEW d \in DOMAIN posts'[u]
               PROVE  d \in DOMAIN posts[u] /\ posts'[u][d] = posts[u][d]
    OBVIOUS
  <2>1. CASE u = t
    <3>1. posts'[u] = q /\ d \in 1..Len(q)
      BY <1>2, <1>3, <2>1 DEF Shape
    <3> QED BY <1>1, <1>2, <2>1, <3>1
  <2>2. CASE u # t
    BY <1>3, <2>2 DEF Shape
  <2> QED BY <2>1, <2>2
<1> QED BY <1>4, <1>5 DEF Frames

\* Every frame is told of a change of the table.
LEMMA EachTold ==
  ASSUME Shape, NEW T \in [Frame -> Frame],
         posts' = [u \in Thread |-> [d \in DOMAIN posts[u] |-> T[posts[u][d]]]]
  PROVE  /\ posts' \in [Thread -> Seq(Frame)]
         /\ \A g \in Frames' : \E f \in Frames : f \in Frame /\ g = T[f]
<1>1. ASSUME NEW u \in Thread
      PROVE  /\ posts'[u] \in Seq(Frame) /\ DOMAIN posts'[u] = DOMAIN posts[u]
             /\ \A d \in DOMAIN posts[u] : /\ posts'[u][d] = T[posts[u][d]]
                                          /\ posts[u][d] \in Frame
  <2>1. posts[u] \in Seq(Frame) /\ DOMAIN posts[u] = 1..Len(posts[u]) /\ Len(posts[u]) \in Nat
    BY DEF Shape
  <2>2. posts'[u] = [d \in 1..Len(posts[u]) |-> T[posts[u][d]]]
    BY <2>1
  <2>3. \A d \in 1..Len(posts[u]) : posts[u][d] \in Frame /\ T[posts[u][d]] \in Frame
    BY <2>1
  <2> QED BY <2>1, <2>2, <2>3
<1>2. posts' \in [Thread -> Seq(Frame)]
  BY <1>1
<1>3. ASSUME NEW g \in Frames' PROVE \E f \in Frames : f \in Frame /\ g = T[f]
  <2>1. PICK u \in Thread : \E d \in DOMAIN posts'[u] : g = posts'[u][d]
    BY <1>3 DEF Frames
  <2>2. PICK d \in DOMAIN posts[u] : g = T[posts[u][d]] /\ posts[u][d] \in Frame
    BY <1>1, <2>1
  <2>3. posts[u][d] \in Frames
    BY DEF Frames
  <2> QED BY <2>2, <2>3
<1> QED BY <1>2, <1>3

-----------------------------------------------------------------------------
(***************************************************************************)
(* The walk                                                                *)
(***************************************************************************)
\* The walk's result is a frame of the same call, in a phase between steps.
LEMMA WalkedIsFrame ==
  ASSUME Shape, NEW f \in Frame
  PROVE  /\ Walked(f) \in Frame /\ Walked(f).phase \in Phases
         /\ Walked(f).due = f.due
<1> DEFINE matching == {i \in Ahead(f) : Matches(obs[i], f)}
           k == Min(matching)
           skipped == {j \in Ahead(f) : j < k}
<1>1. Cardinality(skipped) \in Nat
  <2>1. skipped \subseteq Used BY DEF Ahead
  <2> QED BY <2>1, UsedIsFinite, FS_Subset, FS_CardinalityType DEF Shape
<1>2. matching # {} => k \in Nat
  <2>1. matching \subseteq Nat BY UsedIsFinite DEF Ahead, Shape
  <2> HIDE DEF matching
  <2> QED BY <2>1, MinIsLeast
<1>3. Walked(f) =
        IF f.stale THEN [f EXCEPT !.phase = IF f.left = 0 THEN "done" ELSE "lost"]
        ELSE IF matching # {} /\ Cardinality(skipped) < f.left
        THEN [f EXCEPT !.phase = "found", !.next = k + 1,
                       !.left = @ - Cardinality(skipped) - 1]
        ELSE IF Cardinality(Ahead(f)) >= f.left
        THEN [f EXCEPT !.phase = "done", !.left = 0]
        ELSE [f EXCEPT !.phase = "lost"]
  BY DEF Walked, Ahead
<1> HIDE DEF matching, k, skipped
<1>4. CASE f.stale
  BY <1>3, <1>4 DEF Frame, Phases
<1>5. CASE ~f.stale /\ matching # {} /\ Cardinality(skipped) < f.left
  <2>1. Walked(f) = [f EXCEPT !.phase = "found", !.next = k + 1,
                              !.left = @ - Cardinality(skipped) - 1]
    BY <1>3, <1>5
  <2>2. f.left - Cardinality(skipped) - 1 \in Nat /\ k + 1 \in Nat \ {0}
    BY <1>1, <1>2, <1>5 DEF Frame
  <2> QED BY <2>1, <2>2 DEF Frame, Phases
<1>6. CASE ~f.stale /\ ~(matching # {} /\ Cardinality(skipped) < f.left)
  <2>1. \/ Walked(f) = [f EXCEPT !.phase = "done", !.left = 0]
        \/ Walked(f) = [f EXCEPT !.phase = "lost"]
    BY <1>3, <1>6
  <2>2. CASE Walked(f) = [f EXCEPT !.phase = "done", !.left = 0]
    <3> DEFINE w == [f EXCEPT !.phase = "done", !.left = 0]
    <3>1. w \in Frame
      BY DEF Frame, Phases
    <3>2. w.phase = "done" /\ w.due = f.due
      BY DEF Frame
    <3> QED BY <2>2, <3>1, <3>2 DEF Phases
  <2>3. CASE Walked(f) = [f EXCEPT !.phase = "lost"]
    BY <2>3 DEF Frame, Phases
  <2> QED BY <2>1, <2>2, <2>3
<1> QED BY <1>4, <1>5, <1>6

\* The walk under the lock keeps a walk on track.
LEMMA WalkedIsOnTrack ==
  ASSUME Shape, NEW f \in Frame, f.stale => f.added,
         f.removed \/ f.left <= Cardinality(Ahead(f)),
         f.added \/ f.left >= Cardinality(Ahead(f)),
         \A i \in f.due : i \in Ahead(f) /\ Matches(obs[i], f)
  PROVE  OnTrack(Walked(f))
<1> DEFINE matching == {i \in Ahead(f) : Matches(obs[i], f)}
           k == Min(matching)
           skipped == {j \in Ahead(f) : j < k}
           ahead == Ahead(f)
           w == Walked(f)
<1>1. /\ IsFiniteSet(ahead) /\ Cardinality(ahead) \in Nat /\ ahead \subseteq Nat
      /\ ahead \subseteq Used
  BY AheadIsFinite, UsedIsFinite DEF Shape, Ahead
<1>2. w = IF f.stale THEN [f EXCEPT !.phase = IF f.left = 0 THEN "done" ELSE "lost"]
          ELSE IF matching # {} /\ Cardinality(skipped) < f.left
          THEN [f EXCEPT !.phase = "found", !.next = k + 1,
                         !.left = @ - Cardinality(skipped) - 1]
          ELSE IF Cardinality(ahead) >= f.left
          THEN [f EXCEPT !.phase = "done", !.left = 0]
          ELSE [f EXCEPT !.phase = "lost"]
  <2> HIDE DEF Shape
  <2> QED BY DEF Walked, Ahead
<1>3. skipped \subseteq ahead
  OBVIOUS
<1>4. matching # {} =>
        /\ k \in ahead /\ k \in Nat /\ k \notin skipped
        /\ \A i \in f.due : i \in Nat /\ k <= i
  <2> SUFFICES ASSUME matching # {}
               PROVE  /\ k \in ahead /\ k \in Nat /\ k \notin skipped
                      /\ \A i \in f.due : i \in Nat /\ k <= i
    OBVIOUS
  <2>1. k \in matching /\ \A i \in matching : k <= i
    <3>1. matching \subseteq Nat
      BY <1>1
    <3> HIDE DEF matching
    <3> QED BY <3>1, MinIsLeast
  <2>2. k \in ahead /\ f.due \subseteq matching /\ k \in Nat
    BY <1>1, <2>1
  <2>3. k \notin skipped
    <3> HIDE DEF k
    <3> QED BY <2>2
  <2> HIDE DEF k, matching
  <2> QED BY <1>1, <2>1, <2>2, <2>3
<1>5. matching = {} => f.due = {}
  OBVIOUS
<1>6. ahead = Ahead(f) /\ \A i \in f.due : i \in Used /\ Matches(obs[i], f)
  BY <1>1
<1>7. matching # {} =>
        /\ ahead \ (skipped \cup {k}) = {i \in Used : i >= k + 1}
        /\ ahead \cap (skipped \cup {k}) = skipped \cup {k}
  <2> SUFFICES ASSUME matching # {}
               PROVE  /\ ahead \ (skipped \cup {k}) = {i \in Used : i >= k + 1}
                      /\ ahead \cap (skipped \cup {k}) = skipped \cup {k}
    OBVIOUS
  <2> HIDE DEF k, matching
  <2> QED BY <1>1, <1>4, UsedIsFinite DEF Ahead, Frame, Shape
<1> HIDE DEF matching, k, skipped, ahead, w
<1>8. IsFiniteSet(skipped) /\ Cardinality(skipped) \in Nat
  BY <1>1, <1>3, FS_Subset, FS_CardinalityType
<1>9. matching # {} =>
        /\ Cardinality({i \in Used : i >= k + 1}) =
              Cardinality(ahead) - Cardinality(skipped) - 1
        /\ Cardinality(skipped) < Cardinality(ahead)
  <2> SUFFICES ASSUME matching # {}
               PROVE  /\ Cardinality({i \in Used : i >= k + 1}) =
                            Cardinality(ahead) - Cardinality(skipped) - 1
                      /\ Cardinality(skipped) < Cardinality(ahead)
    OBVIOUS
  <2>1. Cardinality(skipped \cup {k}) = Cardinality(skipped) + 1
    BY <1>4, <1>8, FS_AddElement
  <2>2. Cardinality(ahead \ (skipped \cup {k})) =
           Cardinality(ahead) - Cardinality(ahead \cap (skipped \cup {k}))
    BY <1>1, FS_Difference
  <2>3. skipped \cup {k} \subseteq ahead
    BY <1>3, <1>4
  <2>4. Cardinality(skipped \cup {k}) <= Cardinality(ahead)
    BY <1>1, <2>3, FS_Subset
  <2>5. /\ Cardinality({i \in Used : i >= k + 1}) =
               Cardinality(ahead \ (skipped \cup {k}))
        /\ Cardinality(ahead \cap (skipped \cup {k})) = Cardinality(skipped) + 1
    BY <1>7, <2>1
  <2> QED BY <1>1, <1>8, <2>1, <2>2, <2>4, <2>5
<1>10. CASE f.stale
  <2>1. w = [f EXCEPT !.phase = IF f.left = 0 THEN "done" ELSE "lost"]
    BY <1>2, <1>10
  <2>2. /\ w.phase \in {"done", "lost"} /\ w.added = f.added /\ w.stale = f.stale
        /\ w.due = f.due /\ w.name = f.name /\ w.object = f.object
    BY <2>1 DEF Frame
  <2> QED BY <1>6, <1>10, <2>2 DEF OnTrack, Matches, w
<1>11. CASE ~f.stale /\ matching # {} /\ Cardinality(skipped) < f.left
  <2>1. w = [f EXCEPT !.phase = "found", !.next = k + 1,
                      !.left = @ - Cardinality(skipped) - 1]
    BY <1>2, <1>11
  <2>2. /\ w.phase = "found" /\ w.next = k + 1 /\ w.stale = f.stale
        /\ w.due = f.due /\ w.name = f.name /\ w.object = f.object
        /\ w.added = f.added /\ w.removed = f.removed
        /\ w.left = f.left - Cardinality(skipped) - 1
    BY <2>1 DEF Frame
  <2>3. Ahead(w) = {i \in Used : i >= k + 1}
    BY <2>2 DEF Ahead
  <2>4. /\ f.removed \/ w.left <= Cardinality(Ahead(w))
        /\ f.added \/ w.left >= Cardinality(Ahead(w))
    BY <1>1, <1>6, <1>8, <1>9, <1>11, <2>2, <2>3 DEF Frame
  <2>5. k \in Used /\ w.next - 1 = k
    BY <1>1, <1>4, <1>11, <2>2
  <2>6. \A i \in w.due : i \in Used /\ Matches(obs[i], w) /\ ToCome(w, i)
    <3> SUFFICES ASSUME NEW i \in f.due
                 PROVE  i \in Used /\ Matches(obs[i], w) /\ ToCome(w, i)
      BY <2>2
    <3>1. i \in Used /\ Matches(obs[i], w)
      BY <1>6, <2>2 DEF Matches
    <3>2. i \in Nat /\ k <= i /\ k \in Nat
      BY <1>4, <1>11
    <3>3. ToCome(w, i)
      BY <2>2, <2>5, <3>2 DEF ToCome
    <3> QED BY <3>1, <3>3
  <2> QED BY <1>11, <2>2, <2>4, <2>5, <2>6 DEF OnTrack, w
<1>12. CASE ~f.stale /\ ~(matching # {} /\ Cardinality(skipped) < f.left)
  <2>1. CASE Cardinality(ahead) >= f.left
    <3>1. w = [f EXCEPT !.phase = "done", !.left = 0]
      BY <1>2, <1>12, <2>1
    <3>2. /\ w.phase = "done" /\ w.stale = f.stale /\ w.added = f.added
          /\ w.due = f.due /\ w.name = f.name /\ w.object = f.object
      BY <3>1 DEF Frame
    <3>3. f.added \/ f.due = {}
      BY <1>1, <1>5, <1>6, <1>8, <1>9, <1>12, <2>1 DEF Frame
    <3> QED BY <1>6, <1>12, <3>2, <3>3 DEF OnTrack, Matches, w
  <2>2. CASE ~(Cardinality(ahead) >= f.left)
    <3>1. w = [f EXCEPT !.phase = "lost"]
      BY <1>2, <1>12, <2>2
    <3>2. /\ w.phase = "lost" /\ w.stale = f.stale /\ w.removed = f.removed
          /\ w.due = f.due /\ w.name = f.name /\ w.object = f.object
      BY <3>1 DEF Frame
    <3>3. f.removed
      BY <1>1, <1>6, <2>2 DEF Frame
    <3> QED BY <1>6, <1>12, <3>2, <3>3 DEF OnTrack, Matches, w
  <2> QED BY <2>1, <2>2
<1> QED BY <1>10, <1>11, <1>12

-----------------------------------------------------------------------------
(***************************************************************************)
(* Types and the counter                                                   *)
(***************************************************************************)
\* The initial state.
LEMMA InitShape == Init => Shape
<1> SUFFICES ASSUME Init PROVE Shape
  OBVIOUS
<1>1. /\ DOMAIN obs = 1..ObsSize /\ \A i \in 1..ObsSize : obs[i] = Empty
      /\ ObsSize \in Nat
  BY CenterAssumption DEF Init
<1>2. obs \in Seq(Record \cup {Empty})
  <2>1. obs \in [1..ObsSize -> Record \cup {Empty}]
    BY DEF Init
  <2> QED BY <1>1, <2>1
<1>3. Used = {}
  BY <1>1 DEF Used
<1>4. observers = Cardinality(Used)
  BY <1>3, FS_EmptySet DEF Init
<1>5. posts \in [Thread -> Seq(Frame)] /\ Frames = {}
  BY DEF Init, Frames
<1> QED BY <1>2, <1>4, <1>5 DEF Shape

\* What an added record at i tells a frame.
ToldAdded(i) == [f \in Frame |-> [f EXCEPT !.added = @ \/ i >= f.next]]

\* What a growth tells it.
ToldGrown(moved) == [f \in Frame |-> [f EXCEPT !.added = TRUE, !.stale = @ \/ moved]]

\* What the removal of the records gone tells it.
ToldGone(gone) ==
    [f \in Frame |-> [f EXCEPT !.due = @ \ gone,
                               !.removed = @ \/ \E i \in gone : ToCome(f, i)]]

\* A frame that is told of an addition is a frame of the same phase.
LEMMA AddedIsFrame ==
  ASSUME NEW i \in Nat
  PROVE  /\ ToldAdded(i) \in [Frame -> Frame]
         /\ \A f \in Frame :
              /\ ToldAdded(i)[f].phase = f.phase
              /\ ToldAdded(i)[f].due \subseteq f.due
<1>1. ASSUME NEW f \in Frame
      PROVE  /\ ToldAdded(i)[f] \in Frame
             /\ ToldAdded(i)[f].phase = f.phase
             /\ ToldAdded(i)[f].due \subseteq f.due
  BY DEF ToldAdded, Frame
<1>2. ToldAdded(i) \in [Frame -> Frame]
  BY <1>1 DEF ToldAdded
<1> QED BY <1>1, <1>2

\* The same for a growth ...
LEMMA GrownIsFrame ==
  ASSUME NEW moved \in BOOLEAN
  PROVE  /\ ToldGrown(moved) \in [Frame -> Frame]
         /\ \A f \in Frame :
              /\ ToldGrown(moved)[f].phase = f.phase
              /\ ToldGrown(moved)[f].due \subseteq f.due
<1>1. ASSUME NEW f \in Frame
      PROVE  /\ ToldGrown(moved)[f] \in Frame
             /\ ToldGrown(moved)[f].phase = f.phase
             /\ ToldGrown(moved)[f].due \subseteq f.due
  BY DEF ToldGrown, Frame
<1>2. ToldGrown(moved) \in [Frame -> Frame]
  BY <1>1 DEF ToldGrown
<1> QED BY <1>1, <1>2

\* ... and for a removal.
LEMMA GoneIsFrame ==
  ASSUME NEW gone
  PROVE  /\ ToldGone(gone) \in [Frame -> Frame]
         /\ \A f \in Frame :
              /\ ToldGone(gone)[f].phase = f.phase
              /\ ToldGone(gone)[f].due \subseteq f.due
<1>1. ASSUME NEW f \in Frame
      PROVE  /\ ToldGone(gone)[f] \in Frame
             /\ ToldGone(gone)[f].phase = f.phase
             /\ ToldGone(gone)[f].due \subseteq f.due
  BY DEF ToldGone, Frame
<1>2. ToldGone(gone) \in [Frame -> Frame]
  BY <1>1 DEF ToldGone
<1> QED BY <1>1, <1>2

\* Telling the frames keeps the shape of the calls.
LEMMA ToldShape ==
  ASSUME Shape, NEW T \in [Frame -> Frame],
         posts' = [u \in Thread |-> [d \in DOMAIN posts[u] |-> T[posts[u][d]]]],
         \A f \in Frame : T[f].phase = f.phase /\ T[f].due \subseteq f.due,
         DOMAIN obs \subseteq DOMAIN obs'
  PROVE  /\ posts' \in [Thread -> Seq(Frame)]
         /\ \A g \in Frames' : g.phase \in Phases /\ g.due \subseteq DOMAIN obs'
<1>1. /\ posts' \in [Thread -> Seq(Frame)]
      /\ \A g \in Frames' : \E f \in Frames : f \in Frame /\ g = T[f]
  BY EachTold
<1> QED BY <1>1 DEF Shape

\* Each observer that is added goes to a record of its own.
LEMMA AddShape ==
  ASSUME Shape, NEW t \in Thread, NEW r \in Record, AddObserver(t, r)
  PROVE  /\ Shape' /\ FirstFree \in DOMAIN obs \ Used /\ FirstFree \in Nat
         /\ Used' = Used \cup {FirstFree} /\ \A j \in Used : obs'[j] = obs[j]
         /\ \A g \in Frames' : \E f \in Frames :
              f \in Frame /\ g = ToldAdded(FirstFree)[f]
<1>1. FirstFree \in DOMAIN obs \ Used /\ FirstFree \in Nat
  BY FirstFreeIsFree, UsedIsFinite DEF AddObserver, Shape
<1>2. /\ obs' = [obs EXCEPT ![FirstFree] = r] /\ observers' = observers + 1
      /\ posts' = [u \in Thread |-> [d \in DOMAIN posts[u] |->
                     ToldAdded(FirstFree)[posts[u][d]]]]
  <2>1. \A u \in Thread : \A d \in DOMAIN posts[u] : posts[u][d] \in Frame
    BY DEF Shape
  <2> HIDE DEF FirstFree
  <2> QED BY <2>1 DEF AddObserver, EachFrame, ToldAdded
<1> HIDE DEF FirstFree
<1>3. /\ obs' \in Seq(Record \cup {Empty}) /\ DOMAIN obs' = DOMAIN obs
      /\ Used' = Used \cup {FirstFree} /\ \A j \in Used : obs'[j] = obs[j]
      /\ Cardinality(Used') = Cardinality(Used) + 1
  BY <1>1, <1>2, Filled
<1>4. /\ posts' \in [Thread -> Seq(Frame)]
      /\ \A g \in Frames' : g.phase \in Phases /\ g.due \subseteq DOMAIN obs'
  <2> DEFINE T == ToldAdded(FirstFree)
  <2>1. /\ T \in [Frame -> Frame]
        /\ \A f \in Frame : T[f].phase = f.phase /\ T[f].due \subseteq f.due
    BY <1>1, AddedIsFrame
  <2> HIDE DEF T
  <2> QED BY <1>2, <1>3, <2>1, ToldShape DEF T
<1>5. \A g \in Frames' : \E f \in Frames :
         f \in Frame /\ g = ToldAdded(FirstFree)[f]
  BY <1>1, <1>2, AddedIsFrame, EachTold
<1>6. Shape'
  BY <1>2, <1>3, <1>4 DEF Shape
<1> QED BY <1>1, <1>3, <1>5, <1>6

\* A table that grows keeps its records.
LEMMA GrowShape ==
  ASSUME Shape, NEW t \in Thread, NEW r \in Record, NEW moved \in BOOLEAN,
         AddObserverGrowing(t, r, moved)
  PROVE  /\ Shape' /\ Used \subseteq Used' /\ \A j \in Used : obs'[j] = obs[j]
         /\ \A g \in Frames' : \E f \in Frames :
              f \in Frame /\ g = ToldGrown(moved)[f]
<1>1. /\ obs' \in Seq(Record \cup {Empty}) /\ DOMAIN obs \subseteq DOMAIN obs'
      /\ Cardinality(Used') = observers + 1
      /\ observers' = observers + 1
      /\ \A j \in DOMAIN obs : obs'[j] = obs[j]
  BY Grown DEF AddObserverGrowing
<1>2. posts' = [u \in Thread |-> [d \in DOMAIN posts[u] |-> ToldGrown(moved)[posts[u][d]]]]
  <2>1. \A u \in Thread : \A d \in DOMAIN posts[u] : posts[u][d] \in Frame
    BY DEF Shape
  <2> QED BY <2>1 DEF AddObserverGrowing, EachFrame, ToldGrown
<1>3. /\ posts' \in [Thread -> Seq(Frame)]
      /\ \A g \in Frames' : g.phase \in Phases /\ g.due \subseteq DOMAIN obs'
  <2> DEFINE T == ToldGrown(moved)
  <2>1. /\ T \in [Frame -> Frame]
        /\ \A f \in Frame : T[f].phase = f.phase /\ T[f].due \subseteq f.due
    BY GrownIsFrame
  <2> HIDE DEF T
  <2> QED BY <1>1, <1>2, <2>1, ToldShape DEF T
<1>4. \A g \in Frames' : \E f \in Frames : f \in Frame /\ g = ToldGrown(moved)[f]
  BY <1>2, GrownIsFrame, EachTold
<1>5. Used \subseteq Used' /\ \A j \in Used : obs'[j] = obs[j]
  BY <1>1 DEF Used
<1>6. Shape'
  BY <1>1, <1>3 DEF Shape
<1> QED BY <1>4, <1>5, <1>6

\* Every observer that goes is counted.
LEMMA RemoveShape ==
  ASSUME Shape, NEW t \in Thread, NEW o \in Observer, NEW name, NEW object,
         RemoveObserver(t, o, name, object)
  PROVE  \E gone \in SUBSET Used :
           /\ Shape' /\ Used' = Used \ gone /\ \A j \in Used \ gone : obs'[j] = obs[j]
           /\ \A g \in Frames' : \E f \in Frames :
                f \in Frame /\ g = ToldGone(gone)[f]
<1> DEFINE gone == Removed(o, name, object)
<1>1. /\ gone \in SUBSET Used
      /\ obs' = [i \in DOMAIN obs |-> IF i \in gone THEN Empty ELSE obs[i]]
      /\ observers' = observers - Cardinality(gone)
      /\ posts' = [u \in Thread |-> [d \in DOMAIN posts[u] |->
                     ToldGone(gone)[posts[u][d]]]]
  <2>1. \A u \in Thread : \A d \in DOMAIN posts[u] : posts[u][d] \in Frame
    BY DEF Shape
  <2>2. gone \in SUBSET Used
    BY DEF Removed
  <2> HIDE DEF gone
  <2> QED BY <2>1, <2>2 DEF RemoveObserver, EachFrame, ToldGone, gone
<1> HIDE DEF gone
<1>2. /\ obs' \in Seq(Record \cup {Empty}) /\ DOMAIN obs' = DOMAIN obs
      /\ Used' = Used \ gone /\ \A j \in Used \ gone : obs'[j] = obs[j]
      /\ Cardinality(Used') = Cardinality(Used) - Cardinality(gone)
  BY <1>1, Cleared
<1>3. /\ posts' \in [Thread -> Seq(Frame)]
      /\ \A g \in Frames' : g.phase \in Phases /\ g.due \subseteq DOMAIN obs'
  <2> DEFINE T == ToldGone(gone)
  <2>1. /\ T \in [Frame -> Frame]
        /\ \A f \in Frame : T[f].phase = f.phase /\ T[f].due \subseteq f.due
    BY GoneIsFrame
  <2> HIDE DEF T
  <2> QED BY <1>1, <1>2, <2>1, ToldShape DEF T
<1>4. \A g \in Frames' : \E f \in Frames : f \in Frame /\ g = ToldGone(gone)[f]
  BY <1>1, GoneIsFrame, EachTold
<1>5. Shape'
  BY <1>1, <1>2, <1>3 DEF Shape
<1> QED BY <1>1, <1>2, <1>4, <1>5

\* A walk leaves the table as it is.
LEMMA WalkShape ==
  ASSUME Shape, UNCHANGED <<obs, observers>>, NEW G,
         posts' \in [Thread -> Seq(Frame)], Frames' \subseteq Frames \cup G,
         \A g \in G : g.phase \in Phases /\ g.due \subseteq DOMAIN obs
  PROVE  Shape'
<1>1. Used' = Used
  BY DEF Used
<1> QED BY <1>1 DEF Shape

\* A post begins.
LEMMA PostShape ==
  ASSUME Shape, NEW t \in Thread, NEW name \in Name, NEW object \in Object \cup {None},
         Post(t, name, object)
  PROVE  /\ NewPost(name, object) \in Frame
         /\ NewPost(name, object).due \subseteq Used
         /\ Frames' \subseteq Frames \cup {Walked(NewPost(name, object))}
         /\ Shape'
<1> DEFINE f == NewPost(name, object)
<1>1. f \in Frame /\ f.due \subseteq Used
  <2> DEFINE g == [phase |-> "walk", name |-> name, object |-> object, next |-> 1,
                   left |-> observers, stale |-> FALSE, due |-> {},
                   added |-> FALSE, removed |-> FALSE]
             due == {i \in Used : Matches(obs[i], g)}
  <2>1. due \subseteq Used /\ due \in SUBSET Nat /\ observers \in Nat
    BY UsedIsFinite DEF Shape
  <2>2. f = [g EXCEPT !.due = due]
    BY DEF NewPost
  <2>3. g \in Frame
    BY <2>1 DEF Frame
  <2> HIDE DEF due, g, f
  <2>4. f \in Frame /\ f.due = due
    BY <2>1, <2>2, <2>3 DEF Frame
  <2> QED BY <2>1, <2>4
<1> HIDE DEF f
<1>2. /\ Walked(f) \in Frame /\ Walked(f).phase \in Phases /\ Walked(f).due = f.due
  BY <1>1, WalkedIsFrame
<1>3. posts' = [posts EXCEPT ![t] = Append(@, Walked(f))] /\ UNCHANGED <<obs, observers>>
  BY DEF Post, f
<1>4. posts' \in [Thread -> Seq(Frame)] /\ Frames' \subseteq Frames \cup {Walked(f)}
  BY <1>2, <1>3, Pushed
<1>5. Used \subseteq DOMAIN obs
  BY DEF Used
<1>6. Shape'
  BY <1>1, <1>2, <1>3, <1>4, <1>5, WalkShape
<1> QED BY <1>1, <1>4, <1>6 DEF f

\* A callback is called.
LEMMA InvokeShape ==
  ASSUME Shape, NEW t \in Thread, InvokeCallback(t)
  PROVE  Shape'
<1> DEFINE f == Top(t)
           g == IF f.stale \/ obs[f.next - 1] = Empty
                THEN [f EXCEPT !.phase = "lost"]
                ELSE [f EXCEPT !.phase = "called", !.due = @ \ {f.next - 1}]
<1>1. f \in Frame /\ f \in Frames /\ posts[t] # <<>>
  BY TopIsFrame DEF InvokeCallback, InPost
<1>2. SetTop(t, g) /\ UNCHANGED <<obs, observers>>
  BY DEF InvokeCallback
<1> HIDE DEF f
<1>3. g \in Frame /\ g.phase \in Phases /\ g.due \subseteq f.due
  <2>1. CASE f.stale \/ obs[f.next - 1] = Empty
    BY <1>1, <2>1 DEF Frame, Phases
  <2>2. CASE ~(f.stale \/ obs[f.next - 1] = Empty)
    BY <1>1, <2>2 DEF Frame, Phases
  <2> QED BY <2>1, <2>2
<1> HIDE DEF g
<1>4. posts' \in [Thread -> Seq(Frame)] /\ Frames' \subseteq Frames \cup {g}
  BY <1>1, <1>2, <1>3, TopSet
<1>5. g.due \subseteq DOMAIN obs
  BY <1>1, <1>3 DEF Shape
<1> QED BY <1>2, <1>3, <1>4, <1>5, WalkShape

\* A callback returns.
LEMMA ReturnShape ==
  ASSUME Shape, NEW t \in Thread, CallbackReturns(t)
  PROVE  /\ Frames' \subseteq Frames \cup {Walked(Top(t))}
         /\ Top(t) \in Frame /\ Top(t) \in Frames
         /\ Shape'
<1> DEFINE f == Top(t)
<1>1. f \in Frame /\ f \in Frames /\ posts[t] # <<>>
  BY TopIsFrame DEF CallbackReturns, InPost
<1>2. SetTop(t, Walked(f)) /\ UNCHANGED <<obs, observers>>
  BY DEF CallbackReturns
<1> HIDE DEF f
<1>3. Walked(f) \in Frame /\ Walked(f).phase \in Phases /\ Walked(f).due = f.due
  BY <1>1, WalkedIsFrame
<1>4. posts' \in [Thread -> Seq(Frame)] /\ Frames' \subseteq Frames \cup {Walked(f)}
  BY <1>1, <1>2, <1>3, TopSet
<1>5. Shape'
  BY <1>1, <1>2, <1>3, <1>4, WalkShape DEF Shape
<1> QED BY <1>1, <1>4, <1>5 DEF f

\* Each step keeps the types and the counter.
LEMMA NextShape == Shape /\ [Next]_vars => Shape'
<1> SUFFICES ASSUME Shape, [Next]_vars PROVE Shape'
  OBVIOUS
<1>1. CASE UNCHANGED vars
  BY <1>1 DEF vars, Shape, Used, Frames
<1>2. ASSUME NEW t \in Thread, Call(t) PROVE Shape'
  BY <1>2, AddShape, GrowShape, RemoveShape, PostShape DEF Call
<1>3. ASSUME NEW t \in Thread, Walk(t) PROVE Shape'
  <2>1. CASE PostReturns(t)
    <3>1. UNCHANGED <<obs, observers>>
      BY <2>1 DEF PostReturns
    <3>2. posts' \in [Thread -> Seq(Frame)] /\ Frames' \subseteq Frames
      BY <2>1, Popped
    <3>3. Used' = Used
      BY <3>1 DEF Used
    <3> QED BY <3>1, <3>2, <3>3 DEF Shape
  <2> QED BY <1>3, <2>1, InvokeShape, ReturnShape DEF Walk
<1> QED BY <1>1, <1>2, <1>3 DEF Next

\* The shape has what the type invariant asks for.
LEMMA ShapeTypes == Shape => TypeOK /\ CountIsExact
<1> SUFFICES ASSUME Shape PROVE TypeOK /\ CountIsExact
  OBVIOUS
<1>1. Frames \subseteq Frame
  BY DEF Shape, Frames
<1>2. observers \in Nat
  BY UsedIsFinite DEF Shape
<1>3. TypeOK
  BY <1>1, <1>2 DEF Shape, TypeOK, Frame
<1> QED BY <1>3 DEF Shape, CountIsExact

(***************************************************************************)
(* center->observers, which bounds every walk and tells AddObserver whether *)
(* there is a free record, is the number of records in use, whatever       *)
(* callbacks and threads do to the table: through growth, removal by       *)
(* pattern and nested posts.                                               *)
(***************************************************************************)
THEOREM CounterIsExact == Spec => []CountIsExact
<1> QED BY InitShape, NextShape, ShapeTypes, PTL DEF Spec

(***************************************************************************)
(* Every reachable state of the center is well typed: in particular the    *)
(* walks of __CFInvokeCallBacks are a stack of frames over the table.      *)
(***************************************************************************)
THEOREM Typed == Spec => []TypeOK
<1> QED BY InitShape, NextShape, ShapeTypes, PTL DEF Spec

-----------------------------------------------------------------------------
(***************************************************************************)
(* What can lead a walk astray                                             *)
(***************************************************************************)
\* A frame on track stays there when it is told of what changes: unless that
\* removed records to come no fewer are ahead, and unless it added some no
\* more.
LEMMA StillOnTrack ==
  ASSUME NEW f \in Frame, NEW g \in Frame, OnTrack(f),
         g.phase = f.phase, g.next = f.next, g.left = f.left, g.name = f.name,
         g.object = f.object, g.due \subseteq f.due,
         g.stale => g.added, f.added => g.added, f.removed => g.removed,
         f.stale => g.stale,
         \A i \in g.due : i \in Used' /\ obs'[i] = obs[i],
         Cardinality(Ahead(f)) \in Nat, Cardinality(Ahead(g)') \in Nat,
         \/ g.removed
         \/ /\ Cardinality(Ahead(f)) <= Cardinality(Ahead(g)')
            /\ f.phase = "found" /\ f.next - 1 \in Used => f.next - 1 \in Used',
         g.added \/ Cardinality(Ahead(g)') <= Cardinality(Ahead(f))
  PROVE  OnTrack(g)'
<1>1. \A i \in g.due : Matches(obs[i], g)' /\ (f.phase \in {"found", "called"} => ToCome(g, i))
  BY DEF OnTrack, Matches, ToCome
<1>2. f.left \in Nat
  BY DEF Frame
<1>3. f.phase \in {"found", "called"} =>
        /\ g.removed \/ g.left <= Cardinality(Ahead(g)')
        /\ g.added \/ g.left >= Cardinality(Ahead(g)')
  BY <1>2 DEF OnTrack
<1>4. \A i : ToCome(g, i)' <=> ToCome(g, i)
  BY DEF ToCome
<1> QED BY <1>1, <1>3, <1>4 DEF OnTrack

\* While the table is the same, the frames that stay are on track.
LEMMA SameTable ==
  ASSUME obs' = obs, NEW f, OnTrack(f)
  PROVE  OnTrack(f)'
<1>1. Used' = Used
  BY DEF Used
<1>2. Ahead(f)' = Ahead(f)
  BY <1>1 DEF Ahead
<1> QED BY <1>1, <1>2 DEF OnTrack, Matches, ToCome

\* A walk changes no frame but its own.
LEMMA OnlyOne ==
  ASSUME WalkInv, obs' = obs, NEW g, OnTrack(g), Frames' \subseteq Frames \cup {g}
  PROVE  WalkInv'
<1>1. ASSUME NEW f \in Frames' PROVE OnTrack(f)'
  <2>1. OnTrack(f)
    BY <1>1 DEF WalkInv
  <2> QED BY <2>1, SameTable
<1> QED BY <1>1 DEF WalkInv

\* A call that returns changes none.
LEMMA NoOther ==
  ASSUME WalkInv, obs' = obs, Frames' \subseteq Frames
  PROVE  WalkInv'
<1>1. ASSUME NEW f \in Frames' PROVE OnTrack(f)'
  <2>1. OnTrack(f)
    BY <1>1 DEF WalkInv
  <2> QED BY <2>1, SameTable
<1> QED BY <1>1 DEF WalkInv

\* The records ahead of a walk before and after a step.
LEMMA AheadCounts ==
  ASSUME Shape, Shape', NEW f \in Frame, NEW g \in Frame, g.next = f.next
  PROVE  /\ Cardinality(Ahead(f)) \in Nat /\ Cardinality(Ahead(g)') \in Nat
         /\ Ahead(f) \subseteq Ahead(g)' =>
               Cardinality(Ahead(f)) <= Cardinality(Ahead(g)')
         /\ Ahead(g)' \subseteq Ahead(f) =>
               Cardinality(Ahead(g)') <= Cardinality(Ahead(f))
<1>1. IsFiniteSet(Ahead(f)) /\ Cardinality(Ahead(f)) \in Nat
  BY AheadIsFinite DEF Shape
<1>2. IsFiniteSet(Used')
  <2>1. obs' \in Seq(Record \cup {Empty})
    BY DEF Shape
  <2>2. (obs \in Seq(Record \cup {Empty}) => IsFiniteSet(Used))'
    BY UsedIsFinite, PTL
  <2> QED BY <2>1, <2>2
<1>3. Ahead(g)' \subseteq Used'
  BY DEF Ahead
<1>4. IsFiniteSet(Ahead(g)') /\ Cardinality(Ahead(g)') \in Nat
  BY <1>2, <1>3, FS_Subset, FS_CardinalityType
<1> QED BY <1>1, <1>4, FS_Subset

\* An observer that is added adds to what is ahead, or goes behind the walk.
LEMMA AddOnTrack ==
  ASSUME Shape, WalkInv, NEW t \in Thread, NEW r \in Record, AddObserver(t, r)
  PROVE  WalkInv'
<1>1. PICK i \in Nat :
        /\ Shape' /\ i \in DOMAIN obs \ Used
        /\ Used' = Used \cup {i} /\ \A j \in Used : obs'[j] = obs[j]
        /\ \A g \in Frames' : \E f \in Frames : f \in Frame /\ g = ToldAdded(i)[f]
  BY AddShape
<1>2. ASSUME NEW f \in Frames, f \in Frame, NEW g, g = ToldAdded(i)[f]
      PROVE  OnTrack(g)'
  <2>1. OnTrack(f)
    BY DEF WalkInv
  <2>2. /\ g \in Frame /\ g.phase = f.phase /\ g.next = f.next /\ g.left = f.left
        /\ g.name = f.name /\ g.object = f.object /\ g.due = f.due
        /\ g.added = (f.added \/ i >= f.next) /\ g.removed = f.removed
        /\ g.stale = f.stale
    BY <1>2 DEF ToldAdded, Frame
  <2>3. Ahead(f) \subseteq Ahead(g)' /\ (~g.added => Ahead(g)' \subseteq Ahead(f))
    BY <1>1, <2>2 DEF Ahead
  <2>4. \A j \in g.due : j \in Used' /\ obs'[j] = obs[j]
    BY <1>1, <2>1, <2>2 DEF OnTrack
  <2>5. g.stale => g.added
    BY <2>1, <2>2 DEF OnTrack
  <2>6. f.next - 1 \in Used => f.next - 1 \in Used'
    BY <1>1
  <2> QED BY <1>1, <1>2, <2>1, <2>2, <2>3, <2>4, <2>5, <2>6, AheadCounts, StillOnTrack
<1> QED BY <1>1, <1>2 DEF WalkInv

\* A growth adds to what is ahead.
LEMMA GrowOnTrack ==
  ASSUME Shape, WalkInv, NEW t \in Thread, NEW r \in Record, NEW moved \in BOOLEAN,
         AddObserverGrowing(t, r, moved)
  PROVE  WalkInv'
<1>1. /\ Shape' /\ Used \subseteq Used' /\ \A j \in Used : obs'[j] = obs[j]
      /\ \A g \in Frames' : \E f \in Frames : f \in Frame /\ g = ToldGrown(moved)[f]
  BY GrowShape
<1>2. ASSUME NEW f \in Frames, f \in Frame, NEW g, g = ToldGrown(moved)[f]
      PROVE  OnTrack(g)'
  <2>1. OnTrack(f)
    BY DEF WalkInv
  <2>2. /\ g \in Frame /\ g.phase = f.phase /\ g.next = f.next /\ g.left = f.left
        /\ g.name = f.name /\ g.object = f.object /\ g.due = f.due
        /\ g.added /\ g.removed = f.removed /\ (f.stale => g.stale)
    BY <1>2 DEF ToldGrown, Frame
  <2>3. Ahead(f) \subseteq Ahead(g)'
    BY <1>1, <2>2 DEF Ahead
  <2>4. \A j \in g.due : j \in Used' /\ obs'[j] = obs[j]
    BY <1>1, <2>1, <2>2 DEF OnTrack
  <2>5. f.next - 1 \in Used => f.next - 1 \in Used'
    BY <1>1
  <2> QED BY <1>1, <1>2, <2>1, <2>2, <2>3, <2>4, <2>5, AheadCounts, StillOnTrack
<1> QED BY <1>1, <1>2 DEF WalkInv

\* What is removed was ahead of the walk, or is behind it.
LEMMA RemoveOnTrack ==
  ASSUME Shape, WalkInv, NEW t \in Thread, NEW o \in Observer,
         NEW name, NEW object, RemoveObserver(t, o, name, object)
  PROVE  WalkInv'
<1>1. PICK gone \in SUBSET Used :
        /\ Shape' /\ Used' = Used \ gone /\ \A j \in Used \ gone : obs'[j] = obs[j]
        /\ \A g \in Frames' : \E f \in Frames : f \in Frame /\ g = ToldGone(gone)[f]
  BY RemoveShape
<1>2. ASSUME NEW f \in Frames, f \in Frame, NEW g, g = ToldGone(gone)[f]
      PROVE  OnTrack(g)'
  <2>1. OnTrack(f)
    BY DEF WalkInv
  <2>2. /\ g \in Frame /\ g.phase = f.phase /\ g.next = f.next /\ g.left = f.left
        /\ g.name = f.name /\ g.object = f.object /\ g.due = f.due \ gone
        /\ g.removed = (f.removed \/ \E i \in gone : ToCome(f, i))
        /\ g.added = f.added /\ g.stale = f.stale
    BY <1>2 DEF ToldGone, Frame
  <2>3. Ahead(g)' \subseteq Ahead(f)
    BY <1>1, <2>2 DEF Ahead
  <2>4. ~g.removed =>
          /\ Ahead(f) \subseteq Ahead(g)'
          /\ f.phase = "found" /\ f.next - 1 \in Used => f.next - 1 \in Used'
    BY <1>1, <2>2 DEF Ahead, ToCome
  <2>5. \A j \in g.due : j \in Used' /\ obs'[j] = obs[j]
    BY <1>1, <2>1, <2>2 DEF OnTrack
  <2>6. g.stale => g.added
    BY <2>1, <2>2 DEF OnTrack
  <2> QED BY <1>1, <1>2, <2>1, <2>2, <2>3, <2>4, <2>5, <2>6, AheadCounts, StillOnTrack
<1> QED BY <1>1, <1>2 DEF WalkInv

\* A post begins with all the records that are in use ahead of it.
LEMMA PostOnTrack ==
  ASSUME Shape, WalkInv, NEW t \in Thread, NEW name \in Name,
         NEW object \in Object \cup {None}, Post(t, name, object)
  PROVE  WalkInv'
<1> DEFINE f == NewPost(name, object)
<1>1. /\ f \in Frame /\ f.due \subseteq Used
      /\ Frames' \subseteq Frames \cup {Walked(f)} /\ obs' = obs
  BY PostShape DEF Post
<1>2. /\ f.next = 1 /\ f.left = observers /\ ~f.stale
      /\ \A i \in f.due : i \in Used /\ Matches(obs[i], f)
  BY DEF NewPost, Matches
<1> HIDE DEF f
<1>3. Ahead(f) = Used
  BY <1>2, UsedIsFinite DEF Ahead, Shape
<1>4. f.left = Cardinality(Ahead(f)) /\ f.left \in Nat
  BY <1>1, <1>2, <1>3 DEF Shape, Frame
<1>5. OnTrack(Walked(f))
  BY <1>1, <1>2, <1>3, <1>4, WalkedIsOnTrack
<1> QED BY <1>1, <1>5, OnlyOne

\* The record that is called is not due any more; it is cleared, or in memory
\* that was given back, only if it was removed or the table was moved.
LEMMA InvokeOnTrack ==
  ASSUME Shape, WalkInv, NEW t \in Thread, InvokeCallback(t)
  PROVE  WalkInv'
<1> DEFINE f == Top(t)
           h == [f EXCEPT !.phase = "lost"]
           g == [f EXCEPT !.phase = "called", !.due = @ \ {f.next - 1}]
<1>1. f \in Frame /\ f \in Frames /\ posts[t] # <<>> /\ OnTrack(f) /\ f.phase = "found"
  BY TopIsFrame DEF InvokeCallback, InPost, WalkInv
<1>2. /\ SetTop(t, IF f.stale \/ obs[f.next - 1] = Empty THEN h ELSE g)
      /\ obs' = obs
  BY DEF InvokeCallback
<1> HIDE DEF f
<1>3. CASE f.stale \/ obs[f.next - 1] = Empty
  <2>1. /\ h \in Frame /\ h.phase = "lost" /\ h.stale = f.stale
        /\ h.added = f.added /\ h.removed = f.removed
        /\ h.name = f.name /\ h.object = f.object /\ h.due = f.due
    BY <1>1 DEF Frame, Phases
  <2> HIDE DEF h
  <2>2. Frames' \subseteq Frames \cup {h}
    BY <1>1, <1>2, <1>3, <2>1, TopSet
  <2>3. OnTrack(h)
    BY <1>1, <1>3, <2>1 DEF OnTrack, Matches, Used
  <2> QED BY <1>2, <2>2, <2>3, OnlyOne
<1>4. CASE ~(f.stale \/ obs[f.next - 1] = Empty)
  <2>1. /\ g \in Frame /\ g.phase = "called" /\ g.stale = f.stale /\ g.next = f.next
        /\ g.left = f.left /\ g.name = f.name /\ g.object = f.object
        /\ g.added = f.added /\ g.removed = f.removed
        /\ g.due = f.due \ {f.next - 1}
    BY <1>1 DEF Frame, Phases
  <2> HIDE DEF g
  <2>2. Frames' \subseteq Frames \cup {g}
    BY <1>1, <1>2, <1>4, <2>1, TopSet
  <2>3. Ahead(g) = Ahead(f)
    BY <2>1 DEF Ahead
  <2>4. OnTrack(g)
    BY <1>1, <2>1, <2>3 DEF OnTrack, Matches, ToCome
  <2> QED BY <1>2, <2>2, <2>4, OnlyOne
<1> QED BY <1>3, <1>4

\* After a callback the walk goes on.
LEMMA ReturnOnTrack ==
  ASSUME Shape, WalkInv, NEW t \in Thread, CallbackReturns(t)
  PROVE  WalkInv'
<1> DEFINE f == Top(t)
<1>1. /\ f \in Frame /\ f \in Frames /\ Frames' \subseteq Frames \cup {Walked(f)}
      /\ obs' = obs /\ f.phase = "called"
  BY ReturnShape DEF CallbackReturns, InPost
<1> HIDE DEF f
<1>2. /\ f.stale => f.added
      /\ f.removed \/ f.left <= Cardinality(Ahead(f))
      /\ f.added \/ f.left >= Cardinality(Ahead(f))
      /\ \A i \in f.due : i \in Ahead(f) /\ Matches(obs[i], f)
  BY <1>1 DEF WalkInv, OnTrack, Ahead, ToCome
<1>3. OnTrack(Walked(f))
  BY <1>1, <1>2, WalkedIsOnTrack
<1> QED BY <1>1, <1>3, OnlyOne

\* Each step keeps all walks on track.
LEMMA NextOnTrack == Shape /\ WalkInv /\ [Next]_vars => WalkInv'
<1> SUFFICES ASSUME Shape, WalkInv, [Next]_vars PROVE WalkInv'
  OBVIOUS
<1>1. CASE UNCHANGED vars
  <2>1. obs' = obs /\ Frames' = Frames
    BY <1>1 DEF vars, Frames
  <2> QED BY <2>1, NoOther
<1>2. ASSUME NEW t \in Thread, Call(t) PROVE WalkInv'
  BY <1>2, AddOnTrack, GrowOnTrack, RemoveOnTrack, PostOnTrack DEF Call
<1>3. ASSUME NEW t \in Thread, Walk(t) PROVE WalkInv'
  <2>1. CASE PostReturns(t)
    <3>1. obs' = obs /\ Frames' \subseteq Frames
      BY <2>1, Popped DEF PostReturns
    <3> QED BY <3>1, NoOther
  <2> QED BY <1>3, <2>1, InvokeOnTrack, ReturnOnTrack DEF Walk
<1> QED BY <1>1, <1>2, <1>3 DEF Next

\* Walks stay on track.
LEMMA WalksInductive == Spec => []WalkInv
<1>1. Init => WalkInv
  BY DEF Init, WalkInv, Frames
<1>2. Shape /\ WalkInv /\ [Next]_vars => WalkInv'
  BY NextOnTrack
<1> QED BY <1>1, <1>2, InitShape, NextShape, PTL DEF Spec

(***************************************************************************)
(* Whatever callbacks and threads do to the table, a walk leaves it, or    *)
(* calls through a cleared record, only if records it had not passed were  *)
(* removed or realloc moved the table: additions, removals behind it and   *)
(* nested posts cannot do that, though __CFInvokeCallBacks gives its lock  *)
(* back around each callback and counts by a number taken at the start.    *)
(***************************************************************************)
THEOREM OnlyRemovalsLeadAstray == Spec => []AstrayOnlyByRemoval
<1>1. WalkInv => AstrayOnlyByRemoval
  BY DEF WalkInv, OnTrack, AstrayOnlyByRemoval
<1> QED BY <1>1, WalksInductive, PTL

(***************************************************************************)
(* A walk passes over an observer that matched when it began and is still  *)
(* registered only if others were added ahead of it: no removal, growth    *)
(* behind or nested post makes it end early.                               *)
(***************************************************************************)
THEOREM OnlyAdditionsMiss == Spec => []MissedOnlyByAddition
<1>1. ASSUME Shape, WalkInv PROVE MissedOnlyByAddition
  <2> SUFFICES ASSUME NEW f \in Frames, ~f.added PROVE Missed(f) = {}
    BY DEF MissedOnlyByAddition
  <2>1. OnTrack(f) /\ f.phase \in Phases
    BY <1>1 DEF WalkInv, Shape
  <2> QED BY <2>1 DEF OnTrack, Missed, Phases
<1>2. Spec => []Shape
  BY InitShape, NextShape, PTL DEF Spec
<1> QED BY <1>1, <1>2, WalksInductive, PTL
=============================================================================
