----------------------- MODULE CFRunLoopTimersProofs -----------------------
(***************************************************************************)
(* Theorems about the timers of a run loop, for any number of timers,      *)
(* threads and dates and any grain: the search for the place of a timer    *)
(* finds the upper bound in every array in firing order; and in a run loop *)
(* with one mode the array stays in that order and the alarm is in time.   *)
(***************************************************************************)
EXTENDS CFRunLoopTimers, FiniteSetTheorems, WellFoundedInduction, TLAPS

-----------------------------------------------------------------------------
(***************************************************************************)
(* Naturals and recursive functions                                        *)
(***************************************************************************)

\* A set of naturals that is not empty has a least element.
LEMMA LeastElement ==
  ASSUME NEW S \in SUBSET Nat, S # {}
  PROVE  \E m \in S : \A x \in S : m <= x
<1> DEFINE R == OpToRel(<, Nat)
<1>1. IsWellFoundedOn(R, Nat)
  BY NatLessThanWellFounded
<1>2. \A x, y \in Nat : x < y => <<x, y>> \in R
  BY DEF OpToRel
<1> HIDE DEF R
<1>3. PICK m \in S : \A x \in S : ~(<<x, m>> \in R)
  BY <1>1, WFMin
<1>4. ASSUME NEW x \in S PROVE m <= x
  <2>1. x \in Nat /\ m \in Nat
    OBVIOUS
  <2>2. ~(x < m)
    BY <1>2, <1>3, <2>1
  <2> QED BY <2>1, <2>2
<1> QED BY <1>4

\* The minimum of a set of positions.
LEMMA MinOf ==
  ASSUME NEW S \in SUBSET Nat, S # {}
  PROVE  Min(S) \in S /\ \A x \in S : Min(S) <= x
  BY LeastElement DEF Min

\* The functions that follow a step up to n, from a first value.
Follows(f, n, d, step) ==
    f[0] = d /\ \A k \in 0..n : k # 0 => f[k] = step[<<k, f[k - 1]>>]

\* A step that stays in a set can be followed to any number.
LEMMA FollowFinite ==
  ASSUME NEW D, NEW d \in D, NEW step \in [Nat \X D -> D], NEW n \in Nat
  PROVE  \E f \in [0..n -> D] : Follows(f, n, d, step)
<1> DEFINE OK(m) == \E f \in [0..m -> D] : Follows(f, m, d, step)
           Bad == {m \in Nat : ~OK(m)}
<1>1. OK(0)
  <2> DEFINE f == [k \in 0..0 |-> d]
  <2>1. f \in [0..0 -> D]
    OBVIOUS
  <2>2. f[0] = d /\ \A k \in 0..0 : k = 0
    OBVIOUS
  <2> HIDE DEF f
  <2>3. Follows(f, 0, d, step)
    BY <2>2 DEF Follows
  <2> QED BY <2>1, <2>3
<1>2. ASSUME NEW m \in Nat, m # 0, OK(m - 1) PROVE OK(m)
  <2>1. PICK g \in [0..m - 1 -> D] : Follows(g, m - 1, d, step)
    BY <1>2
  <2> DEFINE f == [k \in 0..m |-> IF k = m THEN step[<<m, g[m - 1]>>] ELSE g[k]]
  <2>2. m - 1 \in 0..m - 1 /\ 0 \in 0..m - 1 /\ m \in 0..m
    BY <1>2
  <2>3. g[m - 1] \in D
    BY <2>2
  <2>4. step[<<m, g[m - 1]>>] \in D
    BY <2>3
  <2>5. f \in [0..m -> D]
    <3> SUFFICES ASSUME NEW k \in 0..m PROVE (IF k = m THEN step[<<m, g[m - 1]>>] ELSE g[k]) \in D
      OBVIOUS
    <3>1. CASE k = m
      BY <2>4, <3>1
    <3>2. CASE k # m
      <4>1. k \in 0..m - 1
        BY <3>2
      <4>2. g[k] \in D
        BY <4>1
      <4> QED BY <3>2, <4>2
    <3> QED BY <3>1, <3>2
  <2>6. f[m] = step[<<m, g[m - 1]>>] /\ \A k \in 0..m : k # m => f[k] = g[k]
    <3>1. f[m] = step[<<m, g[m - 1]>>]
      BY <2>2
    <3>2. \A k \in 0..m : k # m => f[k] = g[k]
      OBVIOUS
    <3> QED BY <3>1, <3>2
  <2> HIDE DEF f
  <2>7. f[0] = d
    <3>1. 0 \in 0..m /\ 0 # m
      BY <1>2
    <3>2. g[0] = d
      BY <2>1 DEF Follows
    <3> QED BY <2>6, <3>1, <3>2
  <2>8. ASSUME NEW k \in 0..m, k # 0 PROVE f[k] = step[<<k, f[k - 1]>>]
    <3>1. k - 1 \in 0..m /\ k - 1 # m
      BY <2>8
    <3>2. f[k - 1] = g[k - 1]
      BY <2>6, <3>1
    <3>3. CASE k = m
      BY <2>6, <3>2, <3>3
    <3>4. CASE k # m
      <4>1. k \in 0..m - 1
        BY <3>4
      <4> QED BY <2>1, <2>6, <2>8, <3>2, <3>4, <4>1 DEF Follows
    <3> QED BY <3>3, <3>4
  <2>9. Follows(f, m, d, step)
    BY <2>7, <2>8 DEF Follows
  <2> QED BY <2>5, <2>9
<1> HIDE DEF OK
<1>3. ASSUME Bad # {} PROVE FALSE
  <2>1. PICK m \in Bad : \A x \in Bad : m <= x
    <3>1. Bad \in SUBSET Nat
      OBVIOUS
    <3> HIDE DEF Bad
    <3> QED BY <1>3, <3>1, LeastElement
  <2>2. m \in Nat /\ ~OK(m)
    OBVIOUS
  <2>3. m # 0
    BY <1>1, <2>2
  <2>4. m - 1 \in Nat /\ ~(m <= m - 1)
    BY <2>2, <2>3
  <2>5. OK(m - 1)
    BY <2>1, <2>4
  <2> QED BY <1>2, <2>2, <2>3, <2>5
<1>4. OK(n)
  BY <1>3
<1> QED BY <1>4 DEF OK

\* Two functions that follow the same step agree.
LEMMA FollowUnique ==
  ASSUME NEW d, NEW step, NEW n \in Nat, NEW f, NEW g,
         Follows(f, n, d, step), Follows(g, n, d, step), NEW k \in 0..n
  PROVE  f[k] = g[k]
<1> DEFINE Bad == {m \in 0..n : f[m] # g[m]}
<1>1. ASSUME Bad # {} PROVE FALSE
  <2>1. PICK m \in Bad : \A x \in Bad : m <= x
    <3>1. Bad \in SUBSET Nat
      OBVIOUS
    <3> HIDE DEF Bad
    <3> QED BY <1>1, <3>1, LeastElement
  <2>2. m \in 0..n /\ f[m] # g[m]
    OBVIOUS
  <2>3. m # 0
    BY <2>2 DEF Follows
  <2>4. m - 1 \in 0..n /\ ~(m <= m - 1)
    BY <2>2, <2>3
  <2>5. f[m - 1] = g[m - 1]
    BY <2>1, <2>4
  <2>6. f[m] = step[<<m, f[m - 1]>>] /\ g[m] = step[<<m, g[m - 1]>>]
    BY <2>2, <2>3 DEF Follows
  <2> QED BY <2>2, <2>5, <2>6
<1> QED BY <1>1

\* ... and to all of them.
LEMMA FollowAll ==
  ASSUME NEW D, NEW d \in D, NEW step \in [Nat \X D -> D]
  PROVE  \E f \in [Nat -> D] : \A n \in Nat : Follows(f, n, d, step)
<1> DEFINE Good(n, g) == g \in [0..n -> D] /\ Follows(g, n, d, step)
           upto == [n \in Nat |-> CHOOSE g : Good(n, g)]
           f == [n \in Nat |-> upto[n][n]]
<1>1. ASSUME NEW n \in Nat PROVE upto[n] \in [0..n -> D] /\ Follows(upto[n], n, d, step)
  <2>1. \E g : Good(n, g)
    BY FollowFinite
  <2>2. Good(n, upto[n])
    BY <2>1
  <2> QED BY <2>2
<1> HIDE DEF upto
<1>2. \A n \in Nat : f[n] \in D
  <2> SUFFICES ASSUME NEW n \in Nat PROVE upto[n][n] \in D
    OBVIOUS
  <2> QED BY <1>1
<1>3. ASSUME NEW n \in Nat, NEW k \in 0..n PROVE upto[n][k] = f[k]
  <2>1. Follows(upto[n], k, d, step)
    <3>1. 0..k \subseteq 0..n /\ Follows(upto[n], n, d, step)
      BY <1>1
    <3> QED BY <3>1 DEF Follows
  <2>2. Follows(upto[k], k, d, step)
    BY <1>1
  <2>3. k \in Nat /\ k \in 0..k
    OBVIOUS
  <2>4. upto[n][k] = upto[k][k]
    BY <2>1, <2>2, <2>3, FollowUnique
  <2>5. f[k] = upto[k][k]
    BY <2>3
  <2> QED BY <2>4, <2>5
<1>4. ASSUME NEW n \in Nat PROVE Follows(f, n, d, step)
  <2>1. \A k \in 0..n : f[k] = upto[n][k]
    BY <1>3
  <2>2. f[0] = d
    BY <1>1, <2>1 DEF Follows
  <2>3. ASSUME NEW k \in 0..n, k # 0 PROVE f[k] = step[<<k, f[k - 1]>>]
    <3>1. k - 1 \in 0..n
      BY <2>3
    <3>2. upto[n][k] = step[<<k, upto[n][k - 1]>>]
      BY <1>1, <2>3 DEF Follows
    <3> HIDE DEF f
    <3> QED BY <2>1, <3>1, <3>2
  <2> HIDE DEF f
  <2> QED BY <2>2, <2>3 DEF Follows
<1>5. f \in [Nat -> D]
  BY <1>2
<1> QED BY <1>4, <1>5

-----------------------------------------------------------------------------
(***************************************************************************)
(* The search                                                              *)
(***************************************************************************)

\* 1 << n doubles with n.
LEMMA ShiftValues ==
  /\ Shift \in [Nat -> Nat]
  /\ Shift[0] = 1
  /\ \A n \in Nat : Shift[n + 1] = 2 * Shift[n]
<1> DEFINE step == [p \in Nat \X Nat |-> 2 * p[2]]
           Doubles(g) == g = [n \in Nat |-> IF n = 0 THEN 1 ELSE 2 * g[n - 1]]
<1>1. step \in [Nat \X Nat -> Nat] /\ \A k, x \in Nat : step[<<k, x>>] = 2 * x
  <2>1. ASSUME NEW p \in Nat \X Nat PROVE 2 * p[2] \in Nat
    OBVIOUS
  <2>2. step \in [Nat \X Nat -> Nat]
    BY <2>1
  <2>3. ASSUME NEW k \in Nat, NEW x \in Nat PROVE step[<<k, x>>] = 2 * x
    OBVIOUS
  <2> QED BY <2>2, <2>3
<1> HIDE DEF step
<1>2. PICK f \in [Nat -> Nat] : \A n \in Nat : Follows(f, n, 1, step)
  BY <1>1, FollowAll
<1>3. Doubles(f)
  <2>1. ASSUME NEW n \in Nat PROVE f[n] = IF n = 0 THEN 1 ELSE 2 * f[n - 1]
    <3>1. CASE n = 0
      BY <1>2, <3>1 DEF Follows
    <3>2. CASE n # 0
      <4>1. n \in 0..n /\ n - 1 \in Nat /\ Follows(f, n, 1, step)
        BY <1>2, <3>2
      <4>2. f[n] = step[<<n, f[n - 1]>>]
        BY <3>2, <4>1 DEF Follows
      <4>3. f[n - 1] \in Nat
        BY <4>1
      <4> QED BY <1>1, <3>2, <4>2, <4>3
    <3> QED BY <3>1, <3>2
  <2> QED BY <2>1
<1>4. Shift = CHOOSE g : Doubles(g)
  BY DEF Shift
<1>5. Doubles(Shift)
  BY <1>3, <1>4
<1>6. Shift[0] = 1 /\ \A n \in Nat : n # 0 => Shift[n] = 2 * Shift[n - 1]
  BY <1>5
<1>7. ASSUME NEW n \in Nat PROVE Shift[n] \in Nat
  <2> DEFINE Bad == {m \in Nat : Shift[m] \notin Nat}
  <2>1. ASSUME Bad # {} PROVE FALSE
    <3>1. PICK m \in Bad : \A x \in Bad : m <= x
      <4>1. Bad \in SUBSET Nat
        OBVIOUS
      <4> HIDE DEF Bad
      <4> QED BY <2>1, <4>1, LeastElement
    <3>2. m \in Nat /\ Shift[m] \notin Nat
      OBVIOUS
    <3>3. m # 0
      BY <1>6, <3>2
    <3>4. m - 1 \in Nat /\ ~(m <= m - 1)
      BY <3>2, <3>3
    <3>5. Shift[m - 1] \in Nat
      BY <3>1, <3>4
    <3>6. 2 * Shift[m - 1] \in Nat
      BY <3>5
    <3> QED BY <1>6, <3>2, <3>3, <3>6
  <2> QED BY <2>1
<1>8. ASSUME NEW n \in Nat PROVE Shift[n + 1] = 2 * Shift[n]
  BY <1>6
<1>9. Shift \in [Nat -> Nat]
  BY <1>5, <1>7
<1> QED BY <1>6, <1>8, <1>9

\* 1 << n is more than n.
LEMMA ShiftExceeds ==
  ASSUME NEW n \in Nat
  PROVE  Shift[n] > n
<1> DEFINE Bad == {m \in Nat : ~(Shift[m] > m)}
<1>1. ASSUME Bad # {} PROVE FALSE
  <2>1. PICK m \in Bad : \A x \in Bad : m <= x
    <3>1. Bad \in SUBSET Nat
      OBVIOUS
    <3> HIDE DEF Bad
    <3> QED BY <1>1, <3>1, LeastElement
  <2>2. m \in Nat /\ ~(Shift[m] > m)
    OBVIOUS
  <2>3. m # 0
    BY <2>2, ShiftValues
  <2>4. m - 1 \in Nat /\ ~(m <= m - 1)
    BY <2>2, <2>3
  <2>5. Shift[m - 1] > m - 1
    BY <2>1, <2>4
  <2>6. Shift[m - 1] \in Nat /\ Shift[(m - 1) + 1] = 2 * Shift[m - 1] /\ (m - 1) + 1 = m
    BY <2>2, <2>4, ShiftValues
  <2> QED BY <2>2, <2>4, <2>5, <2>6
<1> QED BY <1>1

\* The highest bit's weight, doubled, is more than the number.
LEMMA TopBit ==
  ASSUME NEW n \in Nat
  PROVE  flsl(n) \in Nat /\ Shift[flsl(n)] > n
<1> DEFINE S == {j \in 0..n : Shift[j] > n}
           Lowest(k) == Shift[k] > n /\ \A j \in 0..n : Shift[j] > n => k <= j
<1>1. n \in S
  BY ShiftExceeds
<1>2. PICK k \in S : \A j \in S : k <= j
  <2>1. S \in SUBSET Nat /\ S # {}
    BY <1>1
  <2> HIDE DEF S
  <2> QED BY <2>1, LeastElement
<1>3. k \in 0..n /\ Lowest(k)
  BY <1>2
<1>4. flsl(n) = CHOOSE j \in 0..n : Lowest(j)
  BY DEF flsl
<1> HIDE DEF Lowest
<1>5. flsl(n) \in 0..n /\ Lowest(flsl(n))
  BY <1>3, <1>4
<1> QED BY <1>5 DEF Lowest

\* The values that idx takes.
LEMMA HalvingValues ==
  ASSUME NEW keys \in Seq(Nat), NEW key \in Nat, NEW top \in Nat
  PROVE  LET idx == Halvings(keys, key, top)
             testIdx(n) == idx[n - 1] + Shift[top + 1 - n]
         IN /\ idx \in [0..top + 1 -> Nat]
            /\ idx[0] = 0
            /\ \A n \in 1..top + 1 :
                 idx[n] = IF LEQ(keys, key, testIdx(n)) THEN testIdx(n) ELSE idx[n - 1]
<1> DEFINE Test(x, n) == IF LEQ(keys, key, x + Shift[top + 1 - n])
                           THEN x + Shift[top + 1 - n] ELSE x
           step == [p \in Nat \X Nat |-> IF p[1] \in 1..top + 1 THEN Test(p[2], p[1]) ELSE 0]
           Idx(g) == g = [n \in 0..top + 1 |-> IF n = 0 THEN 0 ELSE Test(g[n - 1], n)]
<1>1. ASSUME NEW n \in 1..top + 1, NEW x \in Nat PROVE Test(x, n) \in Nat
  <2>1. top + 1 - n \in Nat
    OBVIOUS
  <2>2. Shift[top + 1 - n] \in Nat
    BY <2>1, ShiftValues
  <2> QED BY <2>2
<1>2. Halvings(keys, key, top) = CHOOSE g : Idx(g)
  BY DEF Halvings
<1> HIDE DEF Test
<1>3. step \in [Nat \X Nat -> Nat]
  <2>1. ASSUME NEW p \in Nat \X Nat
        PROVE  (IF p[1] \in 1..top + 1 THEN Test(p[2], p[1]) ELSE 0) \in Nat
    BY <1>1
  <2> QED BY <2>1
<1>4. ASSUME NEW n \in 1..top + 1, NEW x \in Nat PROVE step[<<n, x>>] = Test(x, n)
  <2>1. <<n, x>> \in Nat \X Nat
    OBVIOUS
  <2> QED BY <2>1
<1> HIDE DEF step
<1>5. PICK f \in [0..top + 1 -> Nat] : Follows(f, top + 1, 0, step)
  <2>1. top + 1 \in Nat /\ 0 \in Nat
    OBVIOUS
  <2> HIDE DEF Idx
  <2> QED BY <1>3, <2>1, FollowFinite
<1>6. Idx(f)
  <2>1. ASSUME NEW n \in 0..top + 1 PROVE f[n] = IF n = 0 THEN 0 ELSE Test(f[n - 1], n)
    <3>1. CASE n = 0
      BY <1>5, <3>1 DEF Follows
    <3>2. CASE n # 0
      <4>1. n \in 1..top + 1 /\ n - 1 \in 0..top + 1
        BY <3>2
      <4>2. f[n] = step[<<n, f[n - 1]>>]
        BY <1>5, <3>2 DEF Follows
      <4>3. f[n - 1] \in Nat
        BY <4>1
      <4> QED BY <1>4, <3>2, <4>1, <4>2, <4>3
    <3> QED BY <3>1, <3>2
  <2> QED BY <2>1
<1> DEFINE idx == Halvings(keys, key, top)
<1>7. Idx(idx)
  <2> HIDE DEF Idx
  <2> QED BY <1>2, <1>6
<1> HIDE DEF idx
<1>8. idx[0] = 0 /\ \A n \in 1..top + 1 : idx[n] = Test(idx[n - 1], n)
  <2>1. \A n \in 0..top + 1 : idx[n] = IF n = 0 THEN 0 ELSE Test(idx[n - 1], n)
    BY <1>7
  <2>2. 0 \in 0..top + 1 /\ \A n \in 1..top + 1 : n \in 0..top + 1 /\ n # 0
    OBVIOUS
  <2> QED BY <2>1, <2>2
<1>9. ASSUME NEW n \in 0..top + 1 PROVE idx[n] \in Nat
  <2> DEFINE Bad == {m \in 0..top + 1 : idx[m] \notin Nat}
  <2>1. ASSUME Bad # {} PROVE FALSE
    <3>1. PICK m \in Bad : \A x \in Bad : m <= x
      <4>1. Bad \in SUBSET Nat
        OBVIOUS
      <4> HIDE DEF Bad
      <4> QED BY <2>1, <4>1, LeastElement
    <3>2. m \in 0..top + 1 /\ idx[m] \notin Nat
      OBVIOUS
    <3>3. m # 0
      BY <1>8, <3>2
    <3>4. m - 1 \in 0..top + 1 /\ ~(m <= m - 1) /\ m \in 1..top + 1
      BY <3>2, <3>3
    <3>5. idx[m - 1] \in Nat
      BY <3>1, <3>4
    <3> QED BY <1>1, <1>8, <3>2, <3>4, <3>5
  <2> QED BY <2>1
<1>10. idx \in [0..top + 1 -> Nat]
  BY <1>7, <1>9
<1> QED BY <1>8, <1>10 DEF Test, idx

\* idx is zero, or the index of an item that is not later than the key.
LEMMA HalvingReached ==
  ASSUME NEW keys \in Seq(Nat), NEW key \in Nat, NEW top \in Nat, NEW n \in 0..top + 1
  PROVE  LET idx == Halvings(keys, key, top)[n]
         IN idx \in Nat /\ (idx = 0 \/ LEQ(keys, key, idx))
<1> DEFINE idx == Halvings(keys, key, top)
           OK(m) == idx[m] = 0 \/ LEQ(keys, key, idx[m])
           Bad == {m \in 0..top + 1 : ~OK(m)}
<1>1. /\ idx \in [0..top + 1 -> Nat] /\ idx[0] = 0
      /\ \A m \in 1..top + 1 :
           idx[m] = IF LEQ(keys, key, idx[m - 1] + Shift[top + 1 - m])
                      THEN idx[m - 1] + Shift[top + 1 - m] ELSE idx[m - 1]
  BY HalvingValues
<1> HIDE DEF idx
<1>2. OK(0)
  BY <1>1
<1>3. ASSUME NEW m \in 1..top + 1, OK(m - 1) PROVE OK(m)
  BY <1>1, <1>3
<1> HIDE DEF OK
<1>4. ASSUME Bad # {} PROVE FALSE
  <2>1. PICK m \in Bad : \A x \in Bad : m <= x
    <3>1. Bad \in SUBSET Nat
      OBVIOUS
    <3> HIDE DEF Bad
    <3> QED BY <1>4, <3>1, LeastElement
  <2>2. m \in 0..top + 1 /\ ~OK(m)
    OBVIOUS
  <2>3. m # 0
    BY <1>2, <2>2
  <2>4. m - 1 \in 0..top + 1 /\ ~(m <= m - 1) /\ m \in 1..top + 1
    BY <2>2, <2>3
  <2>5. OK(m - 1)
    BY <2>1, <2>4
  <2> QED BY <1>3, <2>2, <2>4, <2>5
<1>5. OK(n) /\ idx[n] \in Nat
  BY <1>1, <1>4
<1> QED BY <1>5 DEF OK, idx

\* In an array in firing order, what is not later than the key comes first.
LEMMA SortedLEQ ==
  ASSUME NEW keys \in Seq(Nat), NEW key \in Nat, Sorted(keys),
         NEW i \in Nat, NEW j \in Nat, i <= j, LEQ(keys, key, j)
  PROVE  LEQ(keys, key, i)
<1>1. j < Len(keys) /\ keys[j + 1] <= key /\ Len(keys) \in Nat
  BY DEF LEQ
<1>2. i + 1 \in DOMAIN keys /\ j + 1 \in DOMAIN keys /\ i + 1 <= j + 1
  BY <1>1
<1>3. keys[i + 1] <= keys[j + 1] /\ keys[i + 1] \in Nat /\ keys[j + 1] \in Nat
  BY <1>2 DEF Sorted
<1> QED BY <1>1, <1>3 DEF LEQ

\* After n tests, the items that are not later lie below idx plus the weight
\* that was last added.
LEMMA HalvingBounds ==
  ASSUME NEW keys \in Seq(Nat), NEW key \in Nat, Sorted(keys),
         NEW top \in Nat, Shift[top] > Len(keys), NEW n \in 0..top + 1,
         NEW i \in Nat, LEQ(keys, key, i)
  PROVE  i < Halvings(keys, key, top)[n] + Shift[top + 1 - n]
<1> DEFINE idx == Halvings(keys, key, top)
           OK(m) == \A j \in Nat : LEQ(keys, key, j) => j < idx[m] + Shift[top + 1 - m]
           Bad == {m \in 0..top + 1 : ~OK(m)}
<1>1. /\ idx \in [0..top + 1 -> Nat] /\ idx[0] = 0
      /\ \A m \in 1..top + 1 :
           idx[m] = IF LEQ(keys, key, idx[m - 1] + Shift[top + 1 - m])
                      THEN idx[m - 1] + Shift[top + 1 - m] ELSE idx[m - 1]
  BY HalvingValues
<1> HIDE DEF idx
<1>2. OK(0)
  <2>1. Shift[top + 1] = 2 * Shift[top] /\ Shift[top] \in Nat /\ top + 1 - 0 = top + 1
    BY ShiftValues
  <2>2. ASSUME NEW j \in Nat, LEQ(keys, key, j) PROVE j < Len(keys) /\ Len(keys) \in Nat
    BY <2>2 DEF LEQ
  <2> QED BY <1>1, <2>1, <2>2
<1>3. ASSUME NEW m \in 1..top + 1, OK(m - 1) PROVE OK(m)
  <2> DEFINE a == Shift[top + 1 - m]
  <2>1. top + 1 - m \in Nat /\ top + 1 - (m - 1) = (top + 1 - m) + 1
    OBVIOUS
  <2>2. a \in Nat /\ Shift[top + 1 - (m - 1)] = 2 * a
    BY <2>1, ShiftValues
  <2>3. m - 1 \in 0..top + 1
    OBVIOUS
  <2>4. PICK x \in Nat : x = idx[m - 1]
    BY <1>1, <2>3
  <2>5. idx[m] = IF LEQ(keys, key, x + a) THEN x + a ELSE x
    BY <1>1, <2>4
  <2>6. \A j \in Nat : LEQ(keys, key, j) => j < x + 2 * a
    BY <1>3, <2>2, <2>4
  <2> HIDE DEF a
  <2>7. ASSUME NEW j \in Nat, LEQ(keys, key, j) PROVE j < idx[m] + a
    <3>1. CASE LEQ(keys, key, x + a)
      BY <2>2, <2>5, <2>6, <2>7, <3>1
    <3>2. CASE ~LEQ(keys, key, x + a)
      <4>1. x + a \in Nat /\ ~(x + a <= j)
        BY <2>2, <2>7, <3>2, SortedLEQ
      <4> QED BY <2>2, <2>5, <3>2, <4>1
    <3> QED BY <3>1, <3>2
  <2> QED BY <2>7 DEF a
<1> HIDE DEF OK
<1>4. ASSUME Bad # {} PROVE FALSE
  <2>1. PICK m \in Bad : \A x \in Bad : m <= x
    <3>1. Bad \in SUBSET Nat
      OBVIOUS
    <3> HIDE DEF Bad
    <3> QED BY <1>4, <3>1, LeastElement
  <2>2. m \in 0..top + 1 /\ ~OK(m)
    OBVIOUS
  <2>3. m # 0
    BY <1>2, <2>2
  <2>4. m - 1 \in 0..top + 1 /\ ~(m <= m - 1) /\ m \in 1..top + 1
    BY <2>2, <2>3
  <2>5. OK(m - 1)
    BY <2>1, <2>4
  <2> QED BY <1>3, <2>2, <2>4, <2>5
<1>5. OK(n)
  BY <1>4
<1> QED BY <1>5 DEF OK, idx

\* The search ends in the array or behind it, in whatever order the array is.
LEMMA HalveInRange ==
  ASSUME NEW keys \in Seq(Nat), NEW key \in Nat
  PROVE  Halve(keys, key) \in 0..Len(keys)
<1>1. Len(keys) \in Nat
  OBVIOUS
<1>2. PICK top \in Nat : top = flsl(Len(keys))
  BY <1>1, TopBit
<1>3. top + 1 \in 0..top + 1
  OBVIOUS
<1>4. PICK idx \in Nat : /\ idx = Halvings(keys, key, top)[top + 1]
                         /\ idx = 0 \/ LEQ(keys, key, idx)
  BY <1>3, HalvingReached
<1>5. Halve(keys, key) = IF LEQ(keys, key, idx) THEN idx + 1 ELSE idx
  BY <1>2, <1>4 DEF Halve
<1> QED BY <1>1, <1>4, <1>5 DEF LEQ

\* In an array in firing order it ends behind what is not later than the key.
LEMMA HalveUpper ==
  ASSUME NEW keys \in Seq(Nat), NEW key \in Nat, Sorted(keys), NEW i \in Nat
  PROVE  LEQ(keys, key, i) <=> i < Halve(keys, key)
<1>1. Len(keys) \in Nat
  OBVIOUS
<1>2. PICK top \in Nat : top = flsl(Len(keys)) /\ Shift[top] > Len(keys)
  BY <1>1, TopBit
<1>3. top + 1 \in 0..top + 1 /\ top + 1 - (top + 1) = 0
  OBVIOUS
<1>4. PICK idx \in Nat : /\ idx = Halvings(keys, key, top)[top + 1]
                         /\ idx = 0 \/ LEQ(keys, key, idx)
  BY <1>3, HalvingReached
<1>5. Halve(keys, key) = IF LEQ(keys, key, idx) THEN idx + 1 ELSE idx
  BY <1>2, <1>4 DEF Halve
<1>6. ASSUME LEQ(keys, key, i) PROVE i < idx + 1
  <2>1. i < idx + Shift[top + 1 - (top + 1)]
    BY <1>2, <1>3, <1>4, <1>6, HalvingBounds
  <2> QED BY <1>3, <2>1, ShiftValues
<1>7. CASE LEQ(keys, key, idx)
  BY <1>4, <1>5, <1>6, <1>7, SortedLEQ
<1>8. CASE ~LEQ(keys, key, idx)
  <2>1. idx = 0 /\ Halve(keys, key) = 0
    BY <1>4, <1>5, <1>8
  <2> QED BY <1>6, <1>8, <2>1
<1> QED BY <1>7, <1>8

\* The same of the whole search, its shortcut for long arrays included.
LEMMA IndexInRange ==
  ASSUME NEW keys \in Seq(Nat), NEW key \in Nat
  PROVE  InsertionIndex(keys, key) \in 0..Len(keys)
<1>1. Len(keys) \in Nat
  OBVIOUS
<1> QED BY <1>1, HalveInRange DEF InsertionIndex

\* The search finds the place behind all that is not later, and before the rest.
LEMMA IndexUpper ==
  ASSUME NEW keys \in Seq(Nat), NEW key \in Nat, Sorted(keys), NEW i \in DOMAIN keys
  PROVE  keys[i] <= key <=> i <= InsertionIndex(keys, key)
<1> DEFINE cnt == Len(keys)
<1>1. cnt \in Nat /\ DOMAIN keys = 1..cnt
  OBVIOUS
<1>2. i \in 1..cnt /\ i - 1 \in Nat /\ (i - 1) + 1 = i /\ cnt # 0 /\ 1 \in 1..cnt /\ cnt \in 1..cnt
  BY <1>1
<1>3. keys[i] \in Nat /\ keys[1] \in Nat /\ keys[cnt] \in Nat
  BY <1>1, <1>2
<1>4. keys[1] <= keys[i] /\ keys[i] <= keys[cnt]
  <2>1. 1 <= i /\ i <= cnt
    BY <1>2
  <2> QED BY <1>1, <1>2, <2>1 DEF Sorted
<1>5. CASE cnt > Shortcut /\ keys[cnt] <= key
  <2>1. InsertionIndex(keys, key) = cnt
    BY <1>2, <1>3, <1>5 DEF InsertionIndex
  <2> QED BY <1>2, <1>3, <1>4, <1>5, <2>1
<1>6. CASE cnt > Shortcut /\ keys[cnt] > key /\ key < keys[1]
  <2>1. InsertionIndex(keys, key) = 0
    BY <1>2, <1>3, <1>6 DEF InsertionIndex
  <2> QED BY <1>2, <1>3, <1>4, <1>6, <2>1
<1>7. CASE ~(cnt > Shortcut /\ keys[cnt] <= key) /\ ~(cnt > Shortcut /\ keys[cnt] > key /\ key < keys[1])
  <2>1. InsertionIndex(keys, key) = Halve(keys, key)
    BY <1>2, <1>7 DEF InsertionIndex
  <2>2. LEQ(keys, key, i - 1) <=> i - 1 < Halve(keys, key)
    BY <1>2, HalveUpper
  <2>3. Halve(keys, key) \in 0..cnt
    BY HalveInRange
  <2>4. i - 1 < cnt
    BY <1>1, <1>2
  <2>5. LEQ(keys, key, i - 1) <=> keys[i] <= key
    BY <1>2, <2>4 DEF LEQ
  <2> QED BY <1>1, <1>2, <2>1, <2>2, <2>3, <2>5
<1> QED BY <1>5, <1>6, <1>7

(***************************************************************************)
(* In every array in firing order, of any length,                          *)
(* __CFRunLoopInsertionIndexInTimerArray returns the number of timers that *)
(* are not later than the one to insert: halving from the highest bit of   *)
(* the length neither misses an item nor leaves the array, and the test of *)
(* the two ends changes nothing but the time it takes.                     *)
(***************************************************************************)
THEOREM SearchFindsUpperBound ==
  ASSUME NEW keys \in Seq(Nat), NEW key \in Nat, Sorted(keys)
  PROVE  UpperBound(keys, key)
<1>1. PICK u \in 0..Len(keys) : u = InsertionIndex(keys, key)
  BY IndexInRange
<1>2. Len(keys) \in Nat /\ DOMAIN keys = 1..Len(keys)
  OBVIOUS
<1>3. {i \in DOMAIN keys : keys[i] <= key} = 1..u
  <2>1. \A i \in DOMAIN keys : keys[i] <= key <=> i <= u
    BY <1>1, IndexUpper
  <2> QED BY <1>1, <1>2, <2>1
<1>4. Cardinality(1..u) = u
  <2>1. 1 \in Int /\ u \in Int /\ u \in Nat
    BY <1>1, <1>2
  <2>2. Cardinality(1..u) = IF 1 > u THEN 0 ELSE u - 1 + 1
    BY <2>1, FS_Interval
  <2> QED BY <2>1, <2>2
<1> QED BY <1>1, <1>3, <1>4 DEF UpperBound

-----------------------------------------------------------------------------
(***************************************************************************)
(* The arrays                                                              *)
(***************************************************************************)

\* The dates of an array's timers.
Dates(ts, tsr) == [i \in DOMAIN ts |-> tsr[ts[i]]]

\* An array without the item at k.
LEMMA RemoveAtValues ==
  ASSUME NEW ts \in Seq(Timer), NEW k \in 1..Len(ts)
  PROVE  /\ RemoveAt(ts, k) \in Seq(Timer)
         /\ Len(RemoveAt(ts, k)) = Len(ts) - 1
         /\ \A j \in 1..Len(ts) - 1 :
              RemoveAt(ts, k)[j] = IF j < k THEN ts[j] ELSE ts[j + 1]
<1> DEFINE x == SubSeq(ts, 1, k - 1)
           y == SubSeq(ts, k + 1, Len(ts))
<1>1. Len(ts) \in Nat /\ k \in Nat /\ 1 <= k /\ k <= Len(ts)
  OBVIOUS
<1>2. x \in Seq(Timer) /\ Len(x) = k - 1 /\ \A j \in 1..k - 1 : x[j] = ts[j]
  BY <1>1
<1>3. y \in Seq(Timer) /\ Len(y) = Len(ts) - k /\ \A j \in 1..Len(ts) - k : y[j] = ts[j + k]
  BY <1>1
<1>4. RemoveAt(ts, k) = x \o y
  BY DEF RemoveAt
<1> HIDE DEF x, y
<1>5. x \o y \in Seq(Timer) /\ Len(x \o y) = Len(ts) - 1
  <2>1. x \o y \in Seq(Timer) /\ Len(x \o y) = Len(x) + Len(y)
    <3>1. x \in Seq(Timer) /\ y \in Seq(Timer)
      BY <1>2, <1>3
    <3> QED BY <3>1
  <2> QED BY <1>1, <1>2, <1>3, <2>1
<1>6. ASSUME NEW j \in 1..Len(ts) - 1 PROVE (x \o y)[j] = IF j < k THEN ts[j] ELSE ts[j + 1]
  <2>1. CASE j < k
    BY <1>1, <1>2, <1>3, <2>1
  <2>2. CASE ~(j < k)
    <3>1. j - (k - 1) \in 1..Len(ts) - k /\ (j - (k - 1)) + k = j + 1
      BY <1>1, <2>2
    <3>2. (x \o y)[j] = y[j - (k - 1)]
      BY <1>1, <1>2, <1>3, <2>2
    <3> QED BY <1>3, <2>2, <3>1, <3>2
  <2> QED BY <2>1, <2>2
<1> QED BY <1>4, <1>5, <1>6

\* An array with an item put in at k.
LEMMA InsertAtValues ==
  ASSUME NEW ts \in Seq(Timer), NEW t \in Timer, NEW k \in 1..Len(ts) + 1
  PROVE  /\ InsertAt(ts, k, t) \in Seq(Timer)
         /\ Len(InsertAt(ts, k, t)) = Len(ts) + 1
         /\ \A j \in 1..Len(ts) + 1 :
              InsertAt(ts, k, t)[j] = IF j < k THEN ts[j] ELSE IF j = k THEN t ELSE ts[j - 1]
<1> DEFINE x == SubSeq(ts, 1, k - 1)
           y == SubSeq(ts, k, Len(ts))
<1>1. Len(ts) \in Nat /\ k \in Nat /\ 1 <= k /\ k <= Len(ts) + 1
  OBVIOUS
<1>2. x \in Seq(Timer) /\ Len(x) = k - 1 /\ \A j \in 1..k - 1 : x[j] = ts[j]
  BY <1>1
<1>3. /\ y \in Seq(Timer) /\ Len(y) = Len(ts) + 1 - k
      /\ \A j \in 1..Len(ts) + 1 - k : y[j] = ts[j + k - 1]
  BY <1>1
<1>4. InsertAt(ts, k, t) = (x \o <<t>>) \o y
  BY DEF InsertAt
<1> HIDE DEF x, y
<1> DEFINE z == x \o <<t>>
<1>5. z \in Seq(Timer) /\ Len(z) = k /\ z[k] = t /\ \A j \in 1..k - 1 : z[j] = ts[j]
  BY <1>1, <1>2
<1> HIDE DEF z
<1>6. z \o y \in Seq(Timer) /\ Len(z \o y) = Len(ts) + 1
  <2>1. z \o y \in Seq(Timer) /\ Len(z \o y) = Len(z) + Len(y)
    <3>1. z \in Seq(Timer) /\ y \in Seq(Timer)
      BY <1>3, <1>5
    <3> QED BY <3>1
  <2> QED BY <1>1, <1>3, <1>5, <2>1
<1>7. ASSUME NEW j \in 1..Len(ts) + 1
      PROVE  (z \o y)[j] = IF j < k THEN ts[j] ELSE IF j = k THEN t ELSE ts[j - 1]
  <2>1. CASE j <= k
    <3>1. (z \o y)[j] = z[j]
      BY <1>1, <1>3, <1>5, <2>1
    <3> QED BY <1>1, <1>5, <2>1, <3>1
  <2>2. CASE ~(j <= k)
    <3>1. j - k \in 1..Len(ts) + 1 - k /\ (j - k) + k - 1 = j - 1
      BY <1>1, <2>2
    <3>2. (z \o y)[j] = y[j - k]
      BY <1>1, <1>3, <1>5, <2>2
    <3> QED BY <1>1, <1>3, <2>2, <3>1, <3>2
  <2> QED BY <2>1, <2>2
<1> QED BY <1>4, <1>6, <1>7 DEF z

\* The first place of a timer in an array that has it.
LEMMA WithoutValues ==
  ASSUME NEW ts \in Seq(Timer), NEW t \in Timer, Contains(ts, t)
  PROVE  \E k \in 1..Len(ts) : ts[k] = t /\ Without(ts, t) = RemoveAt(ts, k)
<1> DEFINE S == {i \in DOMAIN ts : ts[i] = t}
<1>1. S \in SUBSET Nat /\ S # {}
  BY DEF Contains
<1>2. Min(S) \in S
  <2> HIDE DEF S
  <2> QED BY <1>1, MinOf
<1>3. Min(S) \in 1..Len(ts) /\ ts[Min(S)] = t
  BY <1>2
<1> QED BY <1>3 DEF Without

\* The items that are left, by the places they had.
LEMMA WithoutPlaces ==
  ASSUME NEW ts \in Seq(Timer), IsInjective(ts), NEW t \in Timer, Contains(ts, t)
  PROVE  /\ Without(ts, t) \in Seq(Timer)
         /\ \E p \in [DOMAIN Without(ts, t) -> DOMAIN ts] :
              /\ \A j \in DOMAIN Without(ts, t) :
                   Without(ts, t)[j] = ts[p[j]] /\ ts[p[j]] # t
              /\ \A i, j \in DOMAIN Without(ts, t) : i < j => p[i] < p[j]
              /\ \A i \in DOMAIN ts : ts[i] # t => \E j \in DOMAIN Without(ts, t) : p[j] = i
<1>1. PICK k \in 1..Len(ts) : ts[k] = t /\ Without(ts, t) = RemoveAt(ts, k)
  BY WithoutValues
<1>2. PICK rs \in Seq(Timer) :
        /\ rs = Without(ts, t) /\ Len(rs) = Len(ts) - 1
        /\ \A j \in 1..Len(ts) - 1 : rs[j] = IF j < k THEN ts[j] ELSE ts[j + 1]
  BY <1>1, RemoveAtValues
<1>3. DOMAIN ts = 1..Len(ts) /\ DOMAIN rs = 1..Len(ts) - 1 /\ Len(ts) \in Nat
  BY <1>2
<1> DEFINE p == [j \in DOMAIN rs |-> IF j < k THEN j ELSE j + 1]
<1>4. p \in [DOMAIN rs -> DOMAIN ts]
  BY <1>3
<1>5. \A j \in DOMAIN rs : p[j] # k /\ rs[j] = ts[p[j]]
  BY <1>2, <1>3
<1>6. \A i, j \in DOMAIN rs : i < j => p[i] < p[j]
  BY <1>3
<1>7. ASSUME NEW i \in DOMAIN ts, i # k PROVE \E j \in DOMAIN rs : p[j] = i
  <2>1. CASE i < k
    <3>1. i \in DOMAIN rs /\ p[i] = i
      BY <1>3, <2>1
    <3> QED BY <3>1
  <2>2. CASE ~(i < k)
    <3>1. i - 1 \in DOMAIN rs /\ p[i - 1] = i
      BY <1>3, <1>7, <2>2
    <3> QED BY <3>1
  <2> QED BY <2>1, <2>2
<1> HIDE DEF p
<1>8. k \in DOMAIN ts /\ \A i \in DOMAIN ts : ts[i] = t => i = k
  BY <1>1, <1>3 DEF IsInjective
<1>9. \A j \in DOMAIN rs : ts[p[j]] # t
  BY <1>4, <1>5, <1>8
<1>10. \A i \in DOMAIN ts : ts[i] # t => \E j \in DOMAIN rs : p[j] = i
  BY <1>1, <1>7
<1> QED BY <1>2, <1>4, <1>5, <1>6, <1>9, <1>10

\* Taking a timer out leaves the others, each once.
LEMMA WithoutHolds ==
  ASSUME NEW ts \in Seq(Timer), IsInjective(ts), NEW t \in Timer, Contains(ts, t)
  PROVE  /\ Without(ts, t) \in Seq(Timer)
         /\ IsInjective(Without(ts, t))
         /\ ToSet(Without(ts, t)) = ToSet(ts) \ {t}
<1> DEFINE rs == Without(ts, t)
<1>1. rs \in Seq(Timer)
  BY WithoutPlaces
<1>2. PICK p \in [DOMAIN rs -> DOMAIN ts] :
              /\ \A j \in DOMAIN rs : rs[j] = ts[p[j]] /\ ts[p[j]] # t
              /\ \A i, j \in DOMAIN rs : i < j => p[i] < p[j]
              /\ \A i \in DOMAIN ts : ts[i] # t => \E j \in DOMAIN rs : p[j] = i
  BY WithoutPlaces
<1> HIDE DEF rs
<1>3. IsInjective(rs)
  <2> SUFFICES ASSUME NEW i \in DOMAIN rs, NEW j \in DOMAIN rs, rs[i] = rs[j]
               PROVE  i = j
    BY DEF IsInjective
  <2>1. p[i] = p[j]
    BY <1>2 DEF IsInjective
  <2>2. i \in Nat /\ j \in Nat /\ p[i] \in Nat /\ p[j] \in Nat
    BY <1>1, <1>2
  <2> QED BY <1>2, <2>1, <2>2
<1>4. ToSet(rs) = ToSet(ts) \ {t}
  <2>1. ASSUME NEW x \in ToSet(rs) PROVE x \in ToSet(ts) \ {t}
    <3>1. PICK j \in DOMAIN rs : x = rs[j]
      BY DEF ToSet
    <3> QED BY <1>2, <3>1 DEF ToSet
  <2>2. ASSUME NEW x \in ToSet(ts), x # t PROVE x \in ToSet(rs)
    <3>1. PICK i \in DOMAIN ts : x = ts[i]
      BY DEF ToSet
    <3>2. PICK j \in DOMAIN rs : p[j] = i
      BY <1>2, <2>2, <3>1
    <3> QED BY <1>2, <3>1, <3>2 DEF ToSet
  <2> QED BY <2>1, <2>2
<1> QED BY <1>1, <1>3, <1>4 DEF rs

\* ... in the same order, whatever the date of the one that is gone becomes.
LEMMA WithoutSorted ==
  ASSUME NEW ts \in Seq(Timer), IsInjective(ts), NEW t \in Timer, Contains(ts, t),
         NEW tsr \in [Timer -> Nat], NEW new \in [Timer -> Nat],
         \A u \in Timer : u # t => new[u] = tsr[u],
         Sorted(Dates(ts, tsr))
  PROVE  Sorted(Dates(Without(ts, t), new))
<1> DEFINE rs == Without(ts, t)
<1>1. rs \in Seq(Timer)
  BY WithoutPlaces
<1>2. PICK p \in [DOMAIN rs -> DOMAIN ts] :
              /\ \A j \in DOMAIN rs : rs[j] = ts[p[j]] /\ ts[p[j]] # t
              /\ \A i, j \in DOMAIN rs : i < j => p[i] < p[j]
  BY WithoutPlaces
<1> HIDE DEF rs
<1>3. \A i, j \in DOMAIN ts : i <= j => tsr[ts[i]] <= tsr[ts[j]]
  BY DEF Sorted, Dates
<1>4. \A j \in DOMAIN rs : new[rs[j]] = tsr[ts[p[j]]]
  BY <1>1, <1>2
<1>5. ASSUME NEW i \in DOMAIN rs, NEW j \in DOMAIN rs, i <= j
      PROVE  new[rs[i]] <= new[rs[j]]
  <2>1. i \in Nat /\ j \in Nat /\ p[i] \in DOMAIN ts /\ p[j] \in DOMAIN ts
    BY <1>1, <1>2
  <2>2. p[i] \in Nat /\ p[j] \in Nat
    BY <2>1
  <2>3. p[i] <= p[j]
    <3>1. CASE i = j
      BY <2>2, <3>1
    <3>2. CASE i < j
      BY <1>2, <2>2, <3>2
    <3> QED BY <1>5, <2>1, <3>1, <3>2
  <2> QED BY <1>3, <1>4, <2>1, <2>3
<1> QED BY <1>5 DEF Sorted, Dates, rs

\* The dates of an array are a sequence of naturals.
LEMMA DatesValues ==
  ASSUME NEW ts \in Seq(Timer), NEW tsr \in [Timer -> Nat]
  PROVE  /\ Dates(ts, tsr) \in Seq(Nat) /\ Len(Dates(ts, tsr)) = Len(ts)
         /\ DOMAIN Dates(ts, tsr) = DOMAIN ts
         /\ \A i \in DOMAIN ts : Dates(ts, tsr)[i] = tsr[ts[i]]
<1>1. DOMAIN ts = 1..Len(ts) /\ Len(ts) \in Nat
  OBVIOUS
<1>2. Dates(ts, tsr) \in [1..Len(ts) -> Nat]
  BY <1>1 DEF Dates
<1>3. \A n \in Nat : \A s \in [1..n -> Nat] : s \in Seq(Nat) /\ Len(s) = n
  OBVIOUS
<1> QED BY <1>1, <1>2, <1>3 DEF Dates

\* The array with a timer put in its place.
LEMMA InsertValues ==
  ASSUME NEW ts \in Seq(Timer), NEW t \in Timer, NEW tsr \in [Timer -> Nat]
  PROVE  \E k \in 1..Len(ts) + 1 :
           /\ k = InsertionIndex(Dates(ts, tsr), tsr[t]) + 1
           /\ Insert(ts, t, tsr) \in Seq(Timer)
           /\ Len(Insert(ts, t, tsr)) = Len(ts) + 1
           /\ \A j \in 1..Len(ts) + 1 :
                Insert(ts, t, tsr)[j] = IF j < k THEN ts[j] ELSE IF j = k THEN t ELSE ts[j - 1]
<1>1. PICK u \in 0..Len(ts) : u = InsertionIndex(Dates(ts, tsr), tsr[t])
  BY DatesValues, IndexInRange
<1>2. u + 1 \in 1..Len(ts) + 1
  OBVIOUS
<1>3. Insert(ts, t, tsr) = InsertAt(ts, u + 1, t)
  BY <1>1 DEF Insert, Dates
<1>4. /\ InsertAt(ts, u + 1, t) \in Seq(Timer)
      /\ Len(InsertAt(ts, u + 1, t)) = Len(ts) + 1
      /\ \A j \in 1..Len(ts) + 1 : InsertAt(ts, u + 1, t)[j]
             = IF j < u + 1 THEN ts[j] ELSE IF j = u + 1 THEN t ELSE ts[j - 1]
  BY <1>2, InsertAtValues
<1> QED BY <1>1, <1>2, <1>3, <1>4

\* Putting a timer in adds it once.
LEMMA InsertHolds ==
  ASSUME NEW ts \in Seq(Timer), IsInjective(ts), NEW t \in Timer, t \notin ToSet(ts),
         NEW tsr \in [Timer -> Nat]
  PROVE  /\ Insert(ts, t, tsr) \in Seq(Timer)
         /\ IsInjective(Insert(ts, t, tsr))
         /\ ToSet(Insert(ts, t, tsr)) = ToSet(ts) \cup {t}
<1> DEFINE rs == Insert(ts, t, tsr)
<1>1. PICK k \in 1..Len(ts) + 1 :
        /\ rs \in Seq(Timer) /\ Len(rs) = Len(ts) + 1
        /\ \A j \in 1..Len(ts) + 1 :
             rs[j] = IF j < k THEN ts[j] ELSE IF j = k THEN t ELSE ts[j - 1]
  BY InsertValues
<1> HIDE DEF rs
<1>2. DOMAIN ts = 1..Len(ts) /\ DOMAIN rs = 1..Len(ts) + 1 /\ Len(ts) \in Nat
  BY <1>1
<1> DEFINE p(j) == IF j < k THEN j ELSE j - 1
<1>3. \A j \in DOMAIN rs : j # k => p(j) \in DOMAIN ts /\ rs[j] = ts[p(j)]
  BY <1>1, <1>2
<1>4. k \in DOMAIN rs /\ rs[k] = t
  BY <1>1, <1>2
<1>5. ASSUME NEW i \in DOMAIN rs, NEW j \in DOMAIN rs, i # k, j # k, p(i) = p(j)
      PROVE  i = j
  <2>1. i \in 1..Len(ts) + 1 /\ j \in 1..Len(ts) + 1 /\ Len(ts) \in Nat
    BY <1>2
  <2> QED BY <1>5, <2>1
<1>6. ASSUME NEW i \in DOMAIN ts PROVE \E j \in DOMAIN rs : j # k /\ p(j) = i
  <2>1. CASE i < k
    <3>1. i \in DOMAIN rs /\ p(i) = i
      BY <1>2, <2>1
    <3> QED BY <2>1, <3>1
  <2>2. CASE ~(i < k)
    <3>1. i + 1 \in DOMAIN rs /\ p(i + 1) = i /\ i + 1 # k
      BY <1>2, <2>2
    <3> QED BY <3>1
  <2> QED BY <2>1, <2>2
<1> HIDE DEF p
<1>7. \A i \in DOMAIN ts : ts[i] # t
  BY DEF ToSet
<1>8. IsInjective(rs)
  BY <1>3, <1>4, <1>5, <1>7 DEF IsInjective
<1>9. ToSet(rs) = ToSet(ts) \cup {t}
  <2>1. ASSUME NEW x \in ToSet(rs) PROVE x \in ToSet(ts) \cup {t}
    <3>1. PICK j \in DOMAIN rs : x = rs[j]
      BY DEF ToSet
    <3> QED BY <1>3, <1>4, <3>1 DEF ToSet
  <2>2. ASSUME NEW x \in ToSet(ts) PROVE x \in ToSet(rs)
    <3>1. PICK i \in DOMAIN ts : x = ts[i]
      BY DEF ToSet
    <3>2. PICK j \in DOMAIN rs : j # k /\ p(j) = i
      BY <1>6
    <3> QED BY <1>3, <3>1, <3>2 DEF ToSet
  <2>3. t \in ToSet(rs)
    BY <1>4 DEF ToSet
  <2> QED BY <2>1, <2>2, <2>3
<1> QED BY <1>1, <1>8, <1>9 DEF rs

\* The search for its place keeps the array in firing order.
LEMMA InsertSorted ==
  ASSUME NEW ts \in Seq(Timer), NEW t \in Timer, NEW tsr \in [Timer -> Nat],
         Sorted(Dates(ts, tsr))
  PROVE  Sorted(Dates(Insert(ts, t, tsr), tsr))
<1>1. PICK k \in 1..Len(ts) + 1 :
        /\ k = InsertionIndex(Dates(ts, tsr), tsr[t]) + 1
        /\ Insert(ts, t, tsr) \in Seq(Timer)
        /\ Len(Insert(ts, t, tsr)) = Len(ts) + 1
        /\ \A j \in 1..Len(ts) + 1 :
             Insert(ts, t, tsr)[j] = IF j < k THEN ts[j] ELSE IF j = k THEN t ELSE ts[j - 1]
  BY InsertValues
<1> DEFINE rs == Insert(ts, t, tsr)
           date(j) == tsr[ts[j]]
           key == tsr[t]
<1>2. DOMAIN ts = 1..Len(ts) /\ DOMAIN rs = 1..Len(ts) + 1 /\ Len(ts) \in Nat /\ key \in Nat
  BY <1>1
<1>3. \A j \in 1..Len(ts) : date(j) \in Nat
  BY <1>2
<1>4. \A i, j \in 1..Len(ts) : i <= j => date(i) <= date(j)
  BY <1>2 DEF Sorted, Dates
<1>5. \A j \in 1..Len(ts) : date(j) <= key <=> j < k
  <2> SUFFICES ASSUME NEW j \in 1..Len(ts) PROVE date(j) <= key <=> j < k
    OBVIOUS
  <2>1. PICK u \in 0..Len(ts) : u = InsertionIndex(Dates(ts, tsr), tsr[t])
    BY DatesValues, IndexInRange
  <2>2. j \in DOMAIN Dates(ts, tsr) /\ Dates(ts, tsr)[j] = date(j)
    BY <1>2, DatesValues
  <2>3. date(j) <= key <=> j <= u
    BY <2>1, <2>2, DatesValues, IndexUpper
  <2> QED BY <1>1, <2>1, <2>3
<1>6. \A j \in 1..Len(ts) + 1 :
        tsr[rs[j]] = IF j < k THEN date(j) ELSE IF j = k THEN key ELSE date(j - 1)
  BY <1>1
<1> HIDE DEF date, key, rs
<1>7. ASSUME NEW i \in 1..Len(ts) + 1, NEW j \in 1..Len(ts) + 1, i <= j
      PROVE  tsr[rs[i]] <= tsr[rs[j]]
  <2>1. CASE j < k
    <3>1. i \in 1..Len(ts) /\ j \in 1..Len(ts) /\ i < k
      BY <1>2, <1>7, <2>1
    <3> QED BY <1>4, <1>6, <1>7, <2>1, <3>1
  <2>2. CASE j = k
    BY <1>2, <1>5, <1>6, <1>7, <2>2
  <2>3. CASE j > k
    <3>1. j - 1 \in 1..Len(ts) /\ date(j - 1) \in Nat /\ ~(date(j - 1) <= key)
      BY <1>2, <1>3, <1>5, <2>3
    <3>2. tsr[rs[j]] = date(j - 1)
      BY <1>6, <2>3
    <3>3. CASE i < k
      <4>1. i \in 1..Len(ts) /\ i <= j - 1
        BY <1>2, <1>7, <2>3, <3>3
      <4> QED BY <1>4, <1>6, <3>1, <3>2, <3>3, <4>1
    <3>4. CASE i = k
      BY <1>2, <1>6, <3>1, <3>2, <3>4
    <3>5. CASE i > k
      <4>1. i - 1 \in 1..Len(ts) /\ i - 1 <= j - 1 /\ ~(i < k) /\ i # k
        BY <1>2, <1>7, <2>3, <3>5
      <4> QED BY <1>4, <1>6, <3>1, <3>2, <4>1
    <3> QED BY <1>2, <3>3, <3>4, <3>5
  <2> QED BY <1>2, <2>1, <2>2, <2>3
<1>8. \A i, j \in DOMAIN rs : i <= j => tsr[rs[i]] <= tsr[rs[j]]
  BY <1>2, <1>7
<1> QED BY <1>8 DEF Sorted, Dates, rs

-----------------------------------------------------------------------------
(***************************************************************************)
(* Dates and ports                                                         *)
(***************************************************************************)

\* Division of naturals.
LEMMA DivBounds ==
  ASSUME NEW a \in Nat, NEW b \in Nat \ {0}
  PROVE  a \div b \in Nat /\ (a \div b) * b <= a
<1> DEFINE q == a \div b
           r == a % b
<1>1. q \in Int /\ r \in Int /\ a = b * q + r /\ 0 <= r /\ r < b
  OBVIOUS
<1> HIDE DEF q, r
<1>2. q >= 0
  <2> SUFFICES ASSUME q <= -1 PROVE FALSE
    BY <1>1
  <2>1. b * q <= b * (-1)
    BY <1>1
  <2> QED BY <1>1, <2>1
<1>3. q * b <= a
  BY <1>1
<1> QED BY <1>1, <1>2, <1>3 DEF q

\* A rounded date is a date.
LEMMA RoundValue ==
  ASSUME NEW tsr \in Nat
  PROVE  RoundFireTSR(tsr) \in Nat
<1>1. PICK q \in Nat : q = tsr \div Tenus
  BY GrainAssumption, DivBounds
<1>2. RoundFireTSR(tsr) = (q + 1) * Tenus /\ Tenus \in Nat
  BY <1>1, GrainAssumption DEF RoundFireTSR
<1> QED BY <1>2

\* The next date of a repeating timer is below the limit of dates.
LEMMA NextDate ==
  ASSUME now \in 0..MaxTime, NEW t \in Timer, NEW old \in 0..TSRMax, Interval[t] > 0
  PROVE  NextFireTSR(old, Interval[t]) \in 0..TSRMax
<1>1. PICK i \in Nat : i = Interval[t] /\ i > 0 /\ MaxTime + i <= TSRMax
  BY IntervalAssumption
<1>2. now \in Nat /\ now <= MaxTime /\ old \in Nat /\ TSRMax \in Nat /\ MaxTime \in Nat
  BY GrainAssumption
<1>3. CASE TSRMax - i <= old
  BY <1>1, <1>2, <1>3 DEF NextFireTSR
<1>4. CASE ~(TSRMax - i <= old) /\ old > now
  BY <1>1, <1>2, <1>4 DEF NextFireTSR
<1>5. CASE ~(TSRMax - i <= old) /\ ~(old > now)
  <2>1. PICK a \in Nat : a = now - old
    BY <1>2, <1>5
  <2>2. PICK q \in Nat : q = a \div i /\ q * i <= a
    <3>1. i \in Nat \ {0}
      BY <1>1
    <3>2. a \div i \in Nat /\ (a \div i) * i <= a
      BY <3>1, DivBounds
    <3> QED BY <3>2
  <2>3. NextFireTSR(old, i) = old + (q + 1) * i
    BY <1>5, <2>1, <2>2 DEF NextFireTSR
  <2>4. (q + 1) * i = q * i + i /\ q * i \in Nat
    BY <1>1
  <2> QED BY <1>1, <1>2, <2>1, <2>2, <2>3, <2>4
<1> QED BY <1>3, <1>4, <1>5

Time == Nat \cup {Off}
Port == [alarm : Time, data : Time]

\* Arming a port makes a port.
LEMMA ArmValue ==
  ASSUME now \in Nat, NEW k \in Port, NEW tsr \in Nat
  PROVE  Arm(k, tsr) \in Port
<1>1. PICK fire \in Nat : fire = RoundFireTSR(tsr)
  BY RoundValue
<1>2. Arm(k, tsr) = IF fire >= now THEN [alarm |-> fire, data |-> fire - now] ELSE k
  BY <1>1 DEF Arm
<1>3. fire >= now => fire - now \in Nat
  OBVIOUS
<1> QED BY <1>1, <1>2, <1>3 DEF Port, Time

\* ... also for the first timer that is not firing.
LEMMA ArmNextValue ==
  ASSUME now \in Nat, NEW k \in Port, NEW ts \in Seq(Timer),
         NEW tsr \in [Timer -> Nat], NEW firing
  PROVE  ArmNext(k, ts, tsr, firing) \in Port
<1> DEFINE free == {i \in DOMAIN ts : ts[i] \notin firing}
<1>1. CASE free = {}
  BY <1>1 DEF ArmNext
<1>2. CASE free # {}
  <2>1. Min(free) \in free
    <3>1. free \in SUBSET Nat
      OBVIOUS
    <3> HIDE DEF free
    <3> QED BY <1>2, <3>1, MinOf
  <2>2. tsr[ts[Min(free)]] \in Nat
    <3>1. ts[Min(free)] \in Timer
      BY <2>1
    <3> QED BY <3>1
  <2>3. ArmNext(k, ts, tsr, firing) = Arm(k, tsr[ts[Min(free)]])
    BY <1>2 DEF ArmNext
  <2> QED BY <2>2, <2>3, ArmValue
<1> QED BY <1>1, <1>2

\* If the first timer of an array lies ahead and is not firing, the alarm al is
\* set for it.
Rings(ts, al, tsr, ok, firing, time) ==
    ts # <<>> /\ ts[1] \notin firing /\ ok[ts[1]] /\ RoundFireTSR(tsr[ts[1]]) > time
      => al = RoundFireTSR(tsr[ts[1]])

\* This is what __CFArmNextTimerInMode is for.
LEMMA ArmNextRings ==
  ASSUME now \in Nat, NEW k \in Port, NEW ts \in Seq(Timer),
         NEW tsr \in [Timer -> Nat], NEW firing, NEW ok
  PROVE  Rings(ts, ArmNext(k, ts, tsr, firing).alarm, tsr, ok, firing, now)
<1> SUFFICES ASSUME ts # <<>>, ts[1] \notin firing, RoundFireTSR(tsr[ts[1]]) > now
             PROVE  ArmNext(k, ts, tsr, firing).alarm = RoundFireTSR(tsr[ts[1]])
  BY DEF Rings
<1> DEFINE free == {i \in DOMAIN ts : ts[i] \notin firing}
<1>1. 1 \in DOMAIN ts /\ ts[1] \in Timer
  OBVIOUS
<1>2. 1 \in free /\ free \in SUBSET Nat /\ \A i \in free : i >= 1
  BY <1>1
<1>3. Min(free) = 1
  <2>1. Min(free) \in free /\ \A x \in free : Min(free) <= x
    <3> HIDE DEF free
    <3> QED BY <1>2, MinOf
  <2>2. Min(free) \in Nat
    BY <2>1
  <2> HIDE DEF free
  <2> QED BY <1>2, <2>1, <2>2
<1>4. ArmNext(k, ts, tsr, firing) = Arm(k, tsr[ts[1]])
  BY <1>2, <1>3 DEF ArmNext
<1>5. PICK fire \in Nat : fire = RoundFireTSR(tsr[ts[1]])
  BY <1>1, RoundValue
<1>6. fire >= now
  BY <1>5
<1> QED BY <1>4, <1>5, <1>6 DEF Arm

-----------------------------------------------------------------------------
(***************************************************************************)
(* Types                                                                   *)
(***************************************************************************)

\* The part of the type invariant about the arrays and the timer ports.
Arrays ==
    /\ rlModes \in [Timer -> SUBSET Mode]
    /\ timers \in [Mode -> Seq(Timer)]
    /\ alarm \in [Mode -> Time]
    /\ data \in [Mode -> Time]
    /\ \A m \in Mode : /\ ToSet(timers[m]) = {t \in Timer : m \in rlModes[t]}
                       /\ IsInjective(timers[m])

\* The rest of it.  A timer that does not repeat is not valid any more when
\* __CFRunLoopDoTimer comes to its next date.
Shape ==
    /\ now \in 0..MaxTime
    /\ fireTSR \in [Timer -> 0..TSRMax]
    /\ valid \in [Timer -> BOOLEAN]
    /\ pc \in {"idle", "wait", "timers", "callout", "invalidate", "finish"}
    /\ mode \in Mode /\ cur \in Timer /\ leaving \subseteq Mode
    /\ oldTSR \in 0..TSRMax
    /\ DOMAIN batch \subseteq Nat /\ \A i \in DOMAIN batch : batch[i] \in Timer
    /\ op \in [Thread -> Op]
    /\ pc \in {"invalidate", "finish"} /\ valid[cur] => Interval[cur] > 0

TimersInv == Shape /\ Arrays

\* What a thread is in the middle of.
LEMMA OpForms ==
  /\ Idle \in Op
  /\ \A t \in Timer, m \in Mode : <<"add", t, m>> \in Op
  /\ \A t \in Timer, d \in 0..TSRMax, S \in SUBSET Mode : <<"set", t, d, S>> \in Op
  /\ \A t \in Timer, S \in SUBSET Mode : <<"remove", t, S>> \in Op
  BY DEF Op

\* ... and back.
LEMMA OpParts ==
  ASSUME NEW o \in Op
  PROVE  /\ o[1] = "set" => o[2] \in Timer /\ o[3] \in 0..TSRMax /\ o[4] \in SUBSET Mode
         /\ o[1] = "remove" => o[2] \in Timer /\ o[3] \in SUBSET Mode
  BY DEF Op, Idle

\* The port of a mode, and setting all of them.
LEMMA PortValue ==
  ASSUME Arrays, NEW m \in Mode
  PROVE  PortOf(m) \in Port
  BY DEF Arrays, PortOf, Port

LEMMA SetPortsValue ==
  ASSUME NEW port \in [Mode -> Port], SetPorts(port)
  PROVE  alarm' \in [Mode -> Time] /\ data' \in [Mode -> Time]
  BY DEF SetPorts, Port

\* An array has a timer if and only if the timer names the mode.
LEMMA ContainsMode ==
  ASSUME Arrays, NEW t \in Timer, NEW m \in Mode
  PROVE  Contains(timers[m], t) <=> m \in rlModes[t]
<1>1. timers[m] \in Seq(Timer) /\ ToSet(timers[m]) = {u \in Timer : m \in rlModes[u]}
  BY DEF Arrays
<1>2. Contains(timers[m], t) <=> t \in ToSet(timers[m])
  <2>1. DOMAIN timers[m] = 1..Len(timers[m])
    BY <1>1
  <2> QED BY <2>1 DEF Contains, ToSet
<1> QED BY <1>1, <1>2

-----------------------------------------------------------------------------
(***************************************************************************)
(* What the operations do to the array and the port of one mode            *)
(***************************************************************************)

InOrder(tsr) == \A m \in Mode : Sorted(Dates(timers[m], tsr))
InTime == \A m \in Mode : Rings(timers[m], alarm[m], fireTSR, valid, Firing, now)

\* If the first timer stays, the rest of the array does not matter.
LEMMA WithoutFirst ==
  ASSUME NEW ts \in Seq(Timer), NEW t \in Timer, Contains(ts, t),
         ts[1] # t, Without(ts, t) # <<>>
  PROVE  ts # <<>> /\ Without(ts, t)[1] = ts[1]
<1>1. PICK k \in 1..Len(ts) : ts[k] = t /\ Without(ts, t) = RemoveAt(ts, k)
  BY WithoutValues
<1>2. PICK rs \in Seq(Timer) :
        /\ rs = Without(ts, t) /\ Len(rs) = Len(ts) - 1
        /\ \A j \in 1..Len(ts) - 1 : rs[j] = IF j < k THEN ts[j] ELSE ts[j + 1]
  BY <1>1, RemoveAtValues
<1>3. Len(rs) # 0 /\ Len(rs) \in Nat /\ Len(ts) \in Nat
  BY <1>2
<1>4. 1 \in 1..Len(ts) - 1 /\ 1 < k
  BY <1>1, <1>2, <1>3
<1> QED BY <1>2, <1>4

\* The place of a mode's array and port after CFRunLoopRemoveTimer.
LEMMA RemoveFromAt ==
  ASSUME TimersInv, NEW t \in Timer, NEW where \in SUBSET Mode, RemoveFrom(t, where),
         NEW m \in Mode
  PROVE  IF m \in where /\ m \in rlModes[t]
           THEN LET left == Without(timers[m], t)
                IN /\ timers'[m] = left
                   /\ IF left = <<>> THEN alarm'[m] = Off /\ data'[m] = Off
                      ELSE IF timers[m][1] = t
                        THEN LET k == ArmNext(PortOf(m), left, fireTSR, Firing)
                             IN alarm'[m] = k.alarm /\ data'[m] = k.data
                      ELSE alarm'[m] = alarm[m] /\ data'[m] = data[m]
           ELSE timers'[m] = timers[m] /\ alarm'[m] = alarm[m] /\ data'[m] = data[m]
<1> DEFINE hit == {n \in where : Contains(timers[n], t)}
           left == [n \in Mode |-> IF n \in hit THEN Without(timers[n], t) ELSE timers[n]]
           port == [n \in Mode |->
              IF n \notin hit THEN PortOf(n)
              ELSE IF left[n] = <<>> THEN Disarmed
              ELSE IF Head(timers[n]) = t
                     THEN ArmNext(PortOf(n), left[n], fireTSR, Firing)
              ELSE PortOf(n)]
<1>1. timers' = left /\ SetPorts(port)
  BY DEF RemoveFrom
<1>2. m \in hit <=> m \in where /\ m \in rlModes[t]
  BY ContainsMode DEF TimersInv
<1>3. timers[m] \in Seq(Timer)
  BY DEF TimersInv, Arrays
<1>4. alarm'[m] = port[m].alarm /\ data'[m] = port[m].data
  BY <1>1 DEF SetPorts
<1>5. timers'[m] = IF m \in hit THEN Without(timers[m], t) ELSE timers[m]
  BY <1>1
<1>6. CASE m \notin hit
  BY <1>2, <1>4, <1>5, <1>6 DEF PortOf
<1>7. CASE m \in hit
  <2>1. Head(timers[m]) = timers[m][1]
    BY <1>3
  <2>2. left[m] = Without(timers[m], t)
    BY <1>7
  <2>3. port[m] = IF Without(timers[m], t) = <<>> THEN Disarmed
                  ELSE IF timers[m][1] = t
                     THEN ArmNext(PortOf(m), Without(timers[m], t), fireTSR, Firing)
                  ELSE PortOf(m)
    BY <1>7, <2>1, <2>2
  <2> HIDE DEF hit, left, port
  <2> QED BY <1>2, <1>4, <1>5, <1>7, <2>3 DEF Disarmed, PortOf
<1> QED BY <1>6, <1>7

\* Removal keeps the types ...
LEMMA RemoveFromTypes ==
  ASSUME TimersInv, NEW t \in Timer, NEW where \in SUBSET Mode, RemoveFrom(t, where)
  PROVE  Arrays'
<1>1. rlModes' = [rlModes EXCEPT ![t] = @ \ {m \in where : Contains(timers[m], t)}]
  BY DEF RemoveFrom
<1>2. /\ rlModes' \in [Timer -> SUBSET Mode]
      /\ \A m \in Mode, u \in Timer :
           m \in rlModes'[u] <=> m \in rlModes[u] /\ ~(u = t /\ m \in where)
  <2>1. {m \in where : Contains(timers[m], t)} = where \cap rlModes[t]
    BY ContainsMode DEF TimersInv
  <2> QED BY <1>1, <2>1 DEF TimersInv, Arrays
<1>3. ASSUME NEW m \in Mode
      PROVE  /\ timers'[m] \in Seq(Timer) /\ IsInjective(timers'[m])
             /\ ToSet(timers'[m]) = {u \in Timer : m \in rlModes'[u]}
             /\ alarm'[m] \in Time /\ data'[m] \in Time
  <2>1. /\ timers[m] \in Seq(Timer) /\ IsInjective(timers[m])
        /\ ToSet(timers[m]) = {u \in Timer : m \in rlModes[u]}
        /\ alarm[m] \in Time /\ data[m] \in Time
    BY DEF TimersInv, Arrays
  <2>2. CASE ~(m \in where /\ m \in rlModes[t])
    <3>1. timers'[m] = timers[m] /\ alarm'[m] = alarm[m] /\ data'[m] = data[m]
      BY <2>2, RemoveFromAt
    <3>2. {u \in Timer : m \in rlModes'[u]} = {u \in Timer : m \in rlModes[u]}
      BY <1>2, <2>2
    <3> QED BY <2>1, <3>1, <3>2
  <2>3. CASE m \in where /\ m \in rlModes[t]
    <3> DEFINE left == Without(timers[m], t)
               k == ArmNext(PortOf(m), left, fireTSR, Firing)
    <3>1. /\ timers'[m] = left
          /\ \/ alarm'[m] = Off /\ data'[m] = Off
             \/ alarm'[m] = k.alarm /\ data'[m] = k.data
             \/ alarm'[m] = alarm[m] /\ data'[m] = data[m]
      BY <2>3, RemoveFromAt
    <3>2. Contains(timers[m], t)
      BY <2>3, ContainsMode DEF TimersInv
    <3>3. left \in Seq(Timer) /\ IsInjective(left) /\ ToSet(left) = ToSet(timers[m]) \ {t}
      BY <2>1, <3>2, WithoutHolds
    <3>4. k \in Port
      <4>1. now \in Nat /\ fireTSR \in [Timer -> Nat] /\ PortOf(m) \in Port
        BY GrainAssumption, PortValue DEF TimersInv, Shape
      <4> HIDE DEF left
      <4> QED BY <3>3, <4>1, ArmNextValue
    <3> HIDE DEF k, left
    <3>5. alarm'[m] \in Time /\ data'[m] \in Time
      BY <2>1, <3>1, <3>4 DEF Port, Time
    <3>6. ToSet(timers[m]) \ {t} = {u \in Timer : m \in rlModes'[u]}
      BY <1>2, <2>1, <2>3
    <3> QED BY <3>1, <3>3, <3>5, <3>6
  <2> QED BY <2>2, <2>3
<1>4. timers' = [m \in Mode |-> timers'[m]] /\ alarm' = [m \in Mode |-> alarm'[m]]
        /\ data' = [m \in Mode |-> data'[m]]
  BY DEF RemoveFrom, SetPorts
<1> QED BY <1>2, <1>3, <1>4 DEF Arrays

\* ... the order ...
LEMMA RemoveFromOrder ==
  ASSUME TimersInv, InOrder(fireTSR), NEW t \in Timer, NEW where \in SUBSET Mode,
         RemoveFrom(t, where), NEW m \in Mode
  PROVE  Sorted(Dates(timers'[m], fireTSR))
<1>1. /\ timers[m] \in Seq(Timer) /\ IsInjective(timers[m])
      /\ Sorted(Dates(timers[m], fireTSR))
  BY DEF TimersInv, Arrays, InOrder
<1>2. CASE ~(m \in where /\ m \in rlModes[t])
  BY <1>1, <1>2, RemoveFromAt
<1>3. CASE m \in where /\ m \in rlModes[t]
  <2>1. timers'[m] = Without(timers[m], t)
    BY <1>3, RemoveFromAt
  <2>2. Contains(timers[m], t)
    BY <1>3, ContainsMode DEF TimersInv
  <2>3. fireTSR \in [Timer -> Nat]
    BY GrainAssumption DEF TimersInv, Shape
  <2> QED BY <1>1, <2>1, <2>2, <2>3, WithoutSorted
<1> QED BY <1>2, <1>3

\* ... and the alarm, which is set again when the first timer goes.
LEMMA RemoveFromRings ==
  ASSUME TimersInv, InTime, NEW t \in Timer, NEW where \in SUBSET Mode,
         RemoveFrom(t, where), NEW m \in Mode
  PROVE  Rings(timers'[m], alarm'[m], fireTSR, valid, Firing, now)
<1>1. timers[m] \in Seq(Timer) /\ Rings(timers[m], alarm[m], fireTSR, valid, Firing, now)
  BY DEF TimersInv, Arrays, InTime
<1>2. CASE ~(m \in where /\ m \in rlModes[t])
  BY <1>1, <1>2, RemoveFromAt
<1>3. CASE m \in where /\ m \in rlModes[t]
  <2> DEFINE left == Without(timers[m], t)
             k == ArmNext(PortOf(m), left, fireTSR, Firing)
  <2>1. /\ timers'[m] = left
        /\ left # <<>> => alarm'[m] = IF timers[m][1] = t THEN k.alarm ELSE alarm[m]
    BY <1>3, RemoveFromAt
  <2>2. Contains(timers[m], t)
    BY <1>3, ContainsMode DEF TimersInv
  <2>3. left \in Seq(Timer)
    BY <1>1, <2>2, WithoutHolds DEF TimersInv, Arrays
  <2>4. CASE left = <<>>
    BY <2>1, <2>4 DEF Rings
  <2>5. CASE left # <<>> /\ timers[m][1] = t
    <3>1. now \in Nat /\ fireTSR \in [Timer -> Nat] /\ PortOf(m) \in Port
      BY GrainAssumption, PortValue DEF TimersInv, Shape
    <3>2. Rings(left, k.alarm, fireTSR, valid, Firing, now)
      <4> HIDE DEF left
      <4> QED BY <2>3, <3>1, ArmNextRings
    <3> QED BY <2>1, <2>5, <3>2
  <2>6. CASE left # <<>> /\ timers[m][1] # t
    <3>1. timers[m] # <<>> /\ left[1] = timers[m][1]
      BY <1>1, <2>2, <2>6, WithoutFirst
    <3> HIDE DEF left
    <3> QED BY <1>1, <2>1, <2>6, <3>1 DEF Rings
  <2> QED BY <2>4, <2>5, <2>6
<1> QED BY <1>2, <1>3

\* The array and the port of a mode after __CFRepositionTimerInMode.
LEMMA RepositionAt ==
  ASSUME TimersInv, NEW t \in Timer, NEW tsr \in 0..TSRMax, NEW where \in SUBSET Mode,
         NEW firing, Reposition(t, tsr, where, firing), NEW m \in Mode
  PROVE  IF m \in where /\ m \in rlModes[t]
           THEN LET moved == Insert(Without(timers[m], t), t, fireTSR')
                    k == ArmNext(PortOf(m), moved, fireTSR', firing)
                IN timers'[m] = moved /\ alarm'[m] = k.alarm /\ data'[m] = k.data
           ELSE timers'[m] = timers[m] /\ alarm'[m] = alarm[m] /\ data'[m] = data[m]
<1> DEFINE dates == [fireTSR EXCEPT ![t] = tsr]
           hit   == {n \in where : Contains(timers[n], t)}
           moved == [n \in Mode |-> IF n \in hit THEN Insert(Without(timers[n], t), t, dates)
                                    ELSE timers[n]]
           port  == [n \in Mode |-> IF n \in hit
                                      THEN ArmNext(PortOf(n), moved[n], dates, firing)
                                      ELSE PortOf(n)]
<1>1. fireTSR' = dates /\ timers' = moved /\ SetPorts(port)
  BY DEF Reposition
<1>2. m \in hit <=> m \in where /\ m \in rlModes[t]
  BY ContainsMode DEF TimersInv
<1>3. alarm'[m] = port[m].alarm /\ data'[m] = port[m].data
  BY <1>1 DEF SetPorts
<1>4. timers'[m] = IF m \in hit THEN Insert(Without(timers[m], t), t, dates) ELSE timers[m]
  BY <1>1
<1>5. port[m] = IF m \in hit
                  THEN ArmNext(PortOf(m), Insert(Without(timers[m], t), t, dates), dates, firing)
                  ELSE PortOf(m)
  OBVIOUS
<1> HIDE DEF dates, hit, moved, port
<1> QED BY <1>1, <1>2, <1>3, <1>4, <1>5 DEF PortOf

\* The dates after it.
LEMMA RepositionDates ==
  ASSUME TimersInv, NEW t \in Timer, NEW tsr \in 0..TSRMax, NEW where,
         NEW firing, Reposition(t, tsr, where, firing)
  PROVE  /\ fireTSR' \in [Timer -> 0..TSRMax] /\ fireTSR' \in [Timer -> Nat]
         /\ \A u \in Timer : u # t => fireTSR'[u] = fireTSR[u]
<1>1. fireTSR' = [fireTSR EXCEPT ![t] = tsr]
  BY DEF Reposition
<1> QED BY <1>1, GrainAssumption DEF TimersInv, Shape

\* The array that a timer is moved in.
LEMMA Moved ==
  ASSUME NEW ts \in Seq(Timer), IsInjective(ts), NEW t \in Timer, Contains(ts, t),
         NEW new \in [Timer -> Nat]
  PROVE  /\ Insert(Without(ts, t), t, new) \in Seq(Timer)
         /\ IsInjective(Insert(Without(ts, t), t, new))
         /\ ToSet(Insert(Without(ts, t), t, new)) = ToSet(ts)
<1> DEFINE rs == Without(ts, t)
<1>1. rs \in Seq(Timer) /\ IsInjective(rs) /\ ToSet(rs) = ToSet(ts) \ {t}
  BY WithoutHolds
<1>2. t \in ToSet(ts)
  BY DEF Contains, ToSet
<1> HIDE DEF rs
<1>3. /\ Insert(rs, t, new) \in Seq(Timer) /\ IsInjective(Insert(rs, t, new))
      /\ ToSet(Insert(rs, t, new)) = ToSet(rs) \cup {t}
  BY <1>1, InsertHolds
<1> QED BY <1>1, <1>2, <1>3 DEF rs

\* Moving keeps the types ...
LEMMA RepositionTypes ==
  ASSUME TimersInv, NEW t \in Timer, NEW tsr \in 0..TSRMax, NEW where \in SUBSET Mode,
         NEW firing, Reposition(t, tsr, where, firing), rlModes' = rlModes
  PROVE  Arrays'
<1>1. ASSUME NEW m \in Mode
      PROVE  /\ timers'[m] \in Seq(Timer) /\ IsInjective(timers'[m])
             /\ ToSet(timers'[m]) = {u \in Timer : m \in rlModes[u]}
             /\ alarm'[m] \in Time /\ data'[m] \in Time
  <2>1. /\ timers[m] \in Seq(Timer) /\ IsInjective(timers[m])
        /\ ToSet(timers[m]) = {u \in Timer : m \in rlModes[u]}
        /\ alarm[m] \in Time /\ data[m] \in Time
    BY DEF TimersInv, Arrays
  <2>2. CASE ~(m \in where /\ m \in rlModes[t])
    BY <2>1, <2>2, RepositionAt
  <2>3. CASE m \in where /\ m \in rlModes[t]
    <3> DEFINE moved == Insert(Without(timers[m], t), t, fireTSR')
               k == ArmNext(PortOf(m), moved, fireTSR', firing)
    <3>1. timers'[m] = moved /\ alarm'[m] = k.alarm /\ data'[m] = k.data
      BY <2>3, RepositionAt
    <3>2. fireTSR' \in [Timer -> Nat] /\ Contains(timers[m], t)
      BY <2>3, ContainsMode, RepositionDates DEF TimersInv
    <3>3. moved \in Seq(Timer) /\ IsInjective(moved) /\ ToSet(moved) = ToSet(timers[m])
      BY <2>1, <3>2, Moved
    <3>4. k \in Port
      <4>1. now \in Nat /\ PortOf(m) \in Port
        BY GrainAssumption, PortValue DEF TimersInv, Shape
      <4> HIDE DEF moved
      <4> QED BY <3>2, <3>3, <4>1, ArmNextValue
    <3> HIDE DEF k, moved
    <3> QED BY <2>1, <3>1, <3>3, <3>4 DEF Port
  <2> QED BY <2>2, <2>3
<1>2. timers' = [m \in Mode |-> timers'[m]] /\ alarm' = [m \in Mode |-> alarm'[m]]
        /\ data' = [m \in Mode |-> data'[m]]
  BY DEF Reposition, SetPorts
<1> QED BY <1>1, <1>2 DEF Arrays, TimersInv

\* ... the order, if no other mode has the timer ...
LEMMA RepositionOrder ==
  ASSUME TimersInv, InOrder(fireTSR), NEW t \in Timer, NEW tsr \in 0..TSRMax,
         NEW where \in SUBSET Mode, NEW firing, Reposition(t, tsr, where, firing),
         rlModes[t] \subseteq where, NEW m \in Mode
  PROVE  Sorted(Dates(timers'[m], fireTSR'))
<1> DEFINE new == fireTSR'
<1>1. /\ timers[m] \in Seq(Timer) /\ IsInjective(timers[m])
      /\ Sorted(Dates(timers[m], fireTSR)) /\ fireTSR \in [Timer -> Nat]
      /\ ToSet(timers[m]) = {u \in Timer : m \in rlModes[u]}
  BY GrainAssumption DEF TimersInv, Arrays, Shape, InOrder
<1>2. new \in [Timer -> Nat] /\ \A u \in Timer : u # t => new[u] = fireTSR[u]
  BY RepositionDates
<1>3. CASE m \notin rlModes[t]
  <2>1. timers'[m] = timers[m]
    BY <1>3, RepositionAt
  <2>2. \A i \in DOMAIN timers[m] : timers[m][i] \in Timer /\ timers[m][i] # t
    BY <1>1, <1>3 DEF ToSet
  <2> HIDE DEF new
  <2>3. Dates(timers[m], new) = Dates(timers[m], fireTSR)
    BY <1>2, <2>2 DEF Dates
  <2> QED BY <1>1, <2>1, <2>3 DEF new
<1>4. CASE m \in rlModes[t]
  <2> DEFINE rs == Without(timers[m], t)
  <2>1. timers'[m] = Insert(rs, t, new)
    BY <1>4, RepositionAt
  <2>2. Contains(timers[m], t)
    BY <1>4, ContainsMode DEF TimersInv
  <2>3. rs \in Seq(Timer)
    BY <1>1, <2>2, WithoutHolds
  <2> HIDE DEF new
  <2>4. Sorted(Dates(rs, new))
    BY <1>1, <1>2, <2>2, WithoutSorted
  <2> HIDE DEF rs
  <2>5. Sorted(Dates(Insert(rs, t, new), new))
    BY <1>2, <2>3, <2>4, InsertSorted
  <2> QED BY <2>1, <2>5 DEF new
<1> QED BY <1>3, <1>4

\* ... and the alarm, for what is firing after the step.
LEMMA RepositionRings ==
  ASSUME TimersInv, InTime, NEW t \in Timer, NEW tsr \in 0..TSRMax,
         NEW where \in SUBSET Mode, NEW firing, Reposition(t, tsr, where, firing),
         rlModes[t] \subseteq where, Firing \subseteq firing \cup {t}, NEW m \in Mode
  PROVE  Rings(timers'[m], alarm'[m], fireTSR', valid, firing, now)
<1> DEFINE new == fireTSR'
<1>1. /\ timers[m] \in Seq(Timer)
      /\ Rings(timers[m], alarm[m], fireTSR, valid, Firing, now)
      /\ ToSet(timers[m]) = {u \in Timer : m \in rlModes[u]}
  BY DEF TimersInv, Arrays, InTime
<1>2. new \in [Timer -> Nat] /\ \A u \in Timer : u # t => new[u] = fireTSR[u]
  BY RepositionDates
<1>3. CASE m \notin rlModes[t]
  <2>1. timers'[m] = timers[m] /\ alarm'[m] = alarm[m]
    BY <1>3, RepositionAt
  <2>2. timers[m] # <<>> => timers[m][1] \in Timer /\ timers[m][1] # t
    <3>1. timers[m] # <<>> => 1 \in DOMAIN timers[m]
      BY <1>1
    <3> QED BY <1>1, <1>3, <3>1 DEF ToSet
  <2> HIDE DEF new
  <2>3. Rings(timers[m], alarm[m], new, valid, firing, now)
    BY <1>1, <1>2, <2>2 DEF Rings
  <2> QED BY <2>1, <2>3 DEF new
<1>4. CASE m \in rlModes[t]
  <2> DEFINE moved == Insert(Without(timers[m], t), t, new)
             k == ArmNext(PortOf(m), moved, new, firing)
  <2>1. timers'[m] = moved /\ alarm'[m] = k.alarm
    BY <1>4, RepositionAt
  <2>2. Contains(timers[m], t)
    BY <1>4, ContainsMode DEF TimersInv
  <2> HIDE DEF new
  <2>3. moved \in Seq(Timer)
    BY <1>1, <1>2, <2>2, Moved DEF TimersInv, Arrays
  <2>4. now \in Nat /\ PortOf(m) \in Port
    BY GrainAssumption, PortValue DEF TimersInv, Shape
  <2> HIDE DEF moved
  <2>5. Rings(moved, k.alarm, new, valid, firing, now)
    BY <1>2, <2>3, <2>4, ArmNextRings
  <2> QED BY <2>1, <2>5 DEF new
<1> QED BY <1>3, <1>4

-----------------------------------------------------------------------------
(***************************************************************************)
(* Every step keeps the types                                              *)
(***************************************************************************)

\* The initial states have their types.
LEMMA InitTypes == Init => TimersInv
<1> SUFFICES ASSUME Init PROVE TimersInv
  OBVIOUS
<1> USE DEF Init
<1>1. Shape
  <2>1. fireTSR \in [Timer -> 0..TSRMax]
    BY DateAssumption
  <2>2. now \in 0..MaxTime /\ oldTSR \in 0..TSRMax
    BY GrainAssumption
  <2>3. op \in [Thread -> Op]
    BY OpForms
  <2>4. DOMAIN batch \subseteq Nat /\ \A i \in DOMAIN batch : batch[i] \in Timer
    OBVIOUS
  <2> QED BY <2>1, <2>2, <2>3, <2>4 DEF Shape
<1>2. Arrays
  <2>1. <<>> \in Seq(Timer) /\ IsInjective(<<>>) /\ ToSet(<<>>) = {}
    BY DEF IsInjective, ToSet
  <2>2. \A m \in Mode : {t \in Timer : m \in rlModes[t]} = {}
    OBVIOUS
  <2> QED BY <2>1, <2>2 DEF Arrays, Time
<1> QED BY <1>1, <1>2 DEF TimersInv

\* A timer is added to a mode: the array and the port of each mode.
LEMMA AddAt ==
  ASSUME TimersInv, NEW th \in Thread, NEW t \in Timer, NEW m \in Mode,
         AddTimerLocked(th, t, m), m \notin rlModes[t], NEW n \in Mode
  PROVE  IF n = m
           THEN LET added == Insert(timers[m], t, fireTSR)
                    k == ArmNext(PortOf(m), added, fireTSR, Firing)
                IN timers'[n] = added /\ alarm'[n] = k.alarm /\ data'[n] = k.data
           ELSE timers'[n] = timers[n] /\ alarm'[n] = alarm[n] /\ data'[n] = data[n]
<1> DEFINE port == [x \in Mode |->
                     IF x = m THEN ArmNext(PortOf(m), timers'[m], fireTSR, Firing) ELSE PortOf(x)]
<1>1. timers' = [timers EXCEPT ![m] = Insert(@, t, fireTSR)] /\ SetPorts(port)
  BY DEF AddTimerLocked
<1>2. alarm'[n] = port[n].alarm /\ data'[n] = port[n].data
  BY <1>1 DEF SetPorts
<1>3. timers'[m] = Insert(timers[m], t, fireTSR) /\ (n # m => timers'[n] = timers[n])
  BY <1>1 DEF TimersInv, Arrays
<1>4. port[n] = IF n = m THEN ArmNext(PortOf(m), timers'[m], fireTSR, Firing) ELSE PortOf(n)
  OBVIOUS
<1> HIDE DEF port
<1> QED BY <1>2, <1>3, <1>4 DEF PortOf

\* CFRunLoopAddTimer keeps the types.
LEMMA AddTypes ==
  ASSUME TimersInv, NEW th \in Thread, NEW t \in Timer, NEW m \in Mode,
         AddTimerLocked(th, t, m)
  PROVE  TimersInv'
<1>1. Shape'
  <2>1. op' \in [Thread -> Op]
    BY OpForms DEF TimersInv, Shape, AddTimerLocked
  <2> QED BY <2>1 DEF TimersInv, Shape, AddTimerLocked, loop
<1>2. CASE m \in rlModes[t]
  <2>1. UNCHANGED <<rlModes, timers, alarm, data>>
    BY <1>2 DEF AddTimerLocked, arrays, kqueue
  <2> QED BY <1>1, <2>1 DEF TimersInv, Arrays
<1>3. CASE m \notin rlModes[t]
  <2>1. rlModes' = [rlModes EXCEPT ![t] = @ \cup {m}]
    BY <1>3 DEF AddTimerLocked
  <2>2. /\ rlModes' \in [Timer -> SUBSET Mode]
        /\ \A n \in Mode, u \in Timer :
             n \in rlModes'[u] <=> n \in rlModes[u] \/ (u = t /\ n = m)
    BY <2>1 DEF TimersInv, Arrays
  <2>3. ASSUME NEW n \in Mode
        PROVE  /\ timers'[n] \in Seq(Timer) /\ IsInjective(timers'[n])
               /\ ToSet(timers'[n]) = {u \in Timer : n \in rlModes'[u]}
               /\ alarm'[n] \in Time /\ data'[n] \in Time
    <3>1. /\ timers[n] \in Seq(Timer) /\ IsInjective(timers[n])
          /\ ToSet(timers[n]) = {u \in Timer : n \in rlModes[u]}
          /\ alarm[n] \in Time /\ data[n] \in Time
      BY DEF TimersInv, Arrays
    <3>2. CASE n # m
      <4>1. timers'[n] = timers[n] /\ alarm'[n] = alarm[n] /\ data'[n] = data[n]
        BY <1>3, <3>2, AddAt
      <4>2. {u \in Timer : n \in rlModes'[u]} = {u \in Timer : n \in rlModes[u]}
        BY <2>2, <3>2
      <4> QED BY <3>1, <4>1, <4>2
    <3>3. CASE n = m
      <4> DEFINE added == Insert(timers[m], t, fireTSR)
                 k == ArmNext(PortOf(m), added, fireTSR, Firing)
      <4>1. timers'[n] = added /\ alarm'[n] = k.alarm /\ data'[n] = k.data
        BY <1>3, <3>3, AddAt
      <4>2. now \in Nat /\ fireTSR \in [Timer -> Nat] /\ PortOf(m) \in Port
        BY GrainAssumption, PortValue DEF TimersInv, Shape
      <4>3. t \notin ToSet(timers[m])
        BY <1>3, <3>1, <3>3
      <4>4. added \in Seq(Timer) /\ IsInjective(added) /\ ToSet(added) = ToSet(timers[m]) \cup {t}
        BY <3>1, <3>3, <4>2, <4>3, InsertHolds
      <4> HIDE DEF added
      <4>5. k \in Port
        BY <4>2, <4>4, ArmNextValue
      <4> HIDE DEF k
      <4>6. ToSet(timers[m]) \cup {t} = {u \in Timer : n \in rlModes'[u]}
        BY <2>2, <3>1, <3>3
      <4> QED BY <4>1, <4>4, <4>5, <4>6 DEF Port
    <3> QED BY <3>2, <3>3
  <2>4. timers' = [n \in Mode |-> timers'[n]] /\ alarm' = [n \in Mode |-> alarm'[n]]
          /\ data' = [n \in Mode |-> data'[n]]
    BY <1>3 DEF AddTimerLocked, SetPorts, TimersInv, Arrays
  <2> QED BY <1>1, <2>2, <2>3, <2>4 DEF TimersInv, Arrays
<1> QED BY <1>2, <1>3

\* The calls of other threads.
LEMMA ThreadTypes ==
  ASSUME TimersInv, NEW th \in Thread, ThreadStep(th)
  PROVE  TimersInv'
<1> USE DEF TimersInv
<1>1. CASE SetNextFireDateLocked(th)
  <2>1. PICK o \in Op : o = op[th] /\ o[1] = "set"
    BY <1>1 DEF SetNextFireDateLocked, Shape
  <2>2. o[2] \in Timer /\ o[3] \in 0..TSRMax /\ o[4] \in SUBSET Mode
    BY <2>1, OpParts
  <2>3. Reposition(o[2], o[3], o[4], Firing)
    BY <1>1, <2>1 DEF SetNextFireDateLocked
  <2>4. Arrays'
    BY <1>1, <2>2, <2>3, RepositionTypes DEF SetNextFireDateLocked
  <2>5. fireTSR' \in [Timer -> 0..TSRMax]
    BY <2>2, <2>3, RepositionDates
  <2>6. op' \in [Thread -> Op]
    BY <1>1, OpForms DEF Shape, SetNextFireDateLocked
  <2>7. Shape'
    BY <1>1, <2>5, <2>6 DEF Shape, SetNextFireDateLocked, loop
  <2> QED BY <2>4, <2>7
<1>2. CASE TimerInvalidateLocked(th)
  <2>1. PICK o \in Op : o = op[th] /\ o[1] = "remove"
    BY <1>2 DEF TimerInvalidateLocked, Shape
  <2>2. o[2] \in Timer /\ o[3] \in SUBSET Mode
    BY <2>1, OpParts
  <2>3. RemoveFrom(o[2], o[3])
    BY <1>2, <2>1 DEF TimerInvalidateLocked
  <2>4. Arrays'
    BY <2>2, <2>3, RemoveFromTypes
  <2>5. op' \in [Thread -> Op]
    BY <1>2, OpForms DEF Shape, TimerInvalidateLocked
  <2>6. Shape'
    BY <1>2, <2>5 DEF Shape, TimerInvalidateLocked, loop
  <2> QED BY <2>4, <2>6
<1>3. ASSUME NEW t \in Timer, TimerInvalidate(th, t) PROVE TimersInv'
  <2>1. op' \in [Thread -> Op]
    BY <1>3, OpForms DEF Shape, Arrays, TimerInvalidate
  <2>2. valid' \in [Timer -> BOOLEAN] /\ \A u \in Timer : valid'[u] => valid[u]
    BY <1>3 DEF Shape, TimerInvalidate
  <2>3. Shape'
    BY <1>3, <2>1, <2>2 DEF Shape, TimerInvalidate, loop
  <2>4. Arrays'
    BY <1>3 DEF Arrays, TimerInvalidate, arrays, kqueue
  <2> QED BY <2>3, <2>4
<1>4. ASSUME NEW t \in Timer, NEW m \in Mode, AddTimer(th, t, m) PROVE TimersInv'
  <2>1. op' \in [Thread -> Op]
    BY <1>4, OpForms DEF Shape, AddTimer
  <2>2. Shape'
    BY <1>4, <2>1 DEF Shape, AddTimer, loop
  <2>3. Arrays'
    BY <1>4 DEF Arrays, AddTimer, arrays, kqueue
  <2> QED BY <2>2, <2>3
<1>5. ASSUME NEW t \in Timer, NEW m \in Mode, RemoveTimer(th, t, m) PROVE TimersInv'
  <2>1. Arrays'
    BY <1>5, RemoveFromTypes DEF RemoveTimer
  <2>2. Shape'
    BY <1>5 DEF Shape, RemoveTimer, loop
  <2> QED BY <2>1, <2>2
<1>6. ASSUME NEW t \in Timer, NEW date \in Date, SetNextFireDate(th, t, date) PROVE TimersInv'
  <2> DEFINE tsr == IF date < now THEN now ELSE date
  <2>1. tsr \in 0..TSRMax
    <3>1. MaxTime <= TSRMax
      BY IntervalAssumption, GrainAssumption
    <3> QED BY <3>1, DateAssumption, GrainAssumption DEF Shape
  <2> HIDE DEF tsr
  <2>2. /\ \/ fireTSR' = [fireTSR EXCEPT ![t] = tsr] /\ op' = op
           \/ op' = [op EXCEPT ![th] = <<"set", t, tsr, rlModes[t]>>] /\ fireTSR' = fireTSR
        /\ UNCHANGED <<now, valid, arrays, kqueue, loop>>
    BY <1>6 DEF SetNextFireDate, tsr
  <2>3. fireTSR' \in [Timer -> 0..TSRMax]
    BY <2>1, <2>2 DEF Shape
  <2>4. op' \in [Thread -> Op]
    <3>1. rlModes[t] \in SUBSET Mode
      BY DEF Arrays
    <3>2. <<"set", t, tsr, rlModes[t]>> \in Op
      BY <2>1, <3>1, OpForms
    <3> QED BY <2>2, <3>2 DEF Shape
  <2>5. Shape'
    BY <2>2, <2>3, <2>4 DEF Shape, loop
  <2>6. Arrays'
    BY <2>2 DEF Arrays, arrays, kqueue
  <2> QED BY <2>5, <2>6
<1> QED BY <1>1, <1>2, <1>3, <1>4, <1>5, <1>6, AddTypes DEF ThreadStep

\* The ports after a step that arms for the running mode only.
LEMMA ArmRunning ==
  ASSUME TimersInv, NEW ts \in Seq(Timer), NEW firing,
         SetPorts([m \in Mode |-> IF m = mode THEN ArmNext(PortOf(m), ts, fireTSR, firing)
                                  ELSE PortOf(m)])
  PROVE  /\ alarm' \in [Mode -> Time] /\ data' \in [Mode -> Time]
         /\ alarm'[mode] = ArmNext(PortOf(mode), ts, fireTSR, firing).alarm
<1> DEFINE port == [m \in Mode |-> IF m = mode THEN ArmNext(PortOf(m), ts, fireTSR, firing)
                                   ELSE PortOf(m)]
<1>1. now \in Nat /\ fireTSR \in [Timer -> Nat] /\ mode \in Mode
  BY GrainAssumption DEF TimersInv, Shape
<1>2. \A m \in Mode : PortOf(m) \in Port
  BY PortValue DEF TimersInv
<1>3. \A m \in Mode : ArmNext(PortOf(m), ts, fireTSR, firing) \in Port
  BY <1>1, <1>2, ArmNextValue
<1>4. port \in [Mode -> Port]
  BY <1>2, <1>3
<1>5. alarm' \in [Mode -> Time] /\ data' \in [Mode -> Time]
  BY <1>4, SetPortsValue
<1>6. alarm'[mode] = port[mode].alarm
  BY <1>1 DEF SetPorts
<1>7. port[mode] = ArmNext(PortOf(mode), ts, fireTSR, firing)
  BY <1>1
<1> QED BY <1>5, <1>6, <1>7

\* The timer that is taken from the batch.
LEMMA BatchFirst ==
  ASSUME TimersInv, DOMAIN batch # {}
  PROVE  batch[Min(DOMAIN batch)] \in Timer
<1>1. DOMAIN batch \in SUBSET Nat
  BY DEF TimersInv, Shape
<1>2. Min(DOMAIN batch) \in DOMAIN batch
  BY <1>1, MinOf
<1> QED BY <1>2 DEF TimersInv, Shape

\* The steps of the loop's thread.
LEMMA LoopTypes ==
  ASSUME TimersInv, LoopStep
  PROVE  TimersInv'
<1> USE DEF TimersInv
<1>1. ASSUME NEW m \in Mode, EnterWait(m) PROVE TimersInv'
  <2>1. alarm' \in [Mode -> Time]
    <3>1. now \in Nat /\ data[m] \in Time
      BY GrainAssumption DEF Shape, Arrays
    <3>2. data[m] # Off => now + data[m] \in Time
      BY <3>1 DEF Time
    <3> QED BY <1>1, <3>2 DEF Arrays, EnterWait
  <2>2. Arrays'
    BY <1>1, <2>1 DEF Arrays, EnterWait, arrays
  <2>3. Shape'
    BY <1>1 DEF Shape, EnterWait
  <2> QED BY <2>2, <2>3
<1>2. CASE TimerRings
  <2>1. alarm' \in [Mode -> Time]
    BY <1>2 DEF TimerRings, Delivered, Arrays, Time
  <2>2. DOMAIN batch' \subseteq Nat /\ \A i \in DOMAIN batch' : batch'[i] \in Timer
    <3>1. PICK due : /\ due \subseteq DOMAIN timers[mode]
                     /\ batch' = [i \in due |-> timers[mode][i]]
      BY <1>2 DEF TimerRings
    <3>2. timers[mode] \in Seq(Timer)
      BY DEF Shape, Arrays
    <3> QED BY <3>1, <3>2
  <2>3. Arrays'
    BY <1>2, <2>1 DEF Arrays, TimerRings, arrays
  <2>4. Shape'
    BY <1>2, <2>2 DEF Shape, TimerRings
  <2> QED BY <2>3, <2>4
<1>3. CASE OtherEvent
  <2>1. alarm' \in [Mode -> Time]
    BY <1>3 DEF OtherEvent, Delivered, Arrays, Time
  <2>2. Arrays'
    BY <1>3, <2>1 DEF Arrays, OtherEvent, arrays
  <2>3. Shape'
    BY <1>3 DEF Shape, OtherEvent
  <2> QED BY <2>2, <2>3
<1>4. CASE DoTimer
  <2>1. DOMAIN batch' \subseteq Nat /\ \A i \in DOMAIN batch' : batch'[i] \in Timer
    BY <1>4 DEF DoTimer, Shape
  <2>2. PICK t \in Timer : t = batch[Min(DOMAIN batch)]
    BY <1>4, BatchFirst DEF DoTimer
  <2> DEFINE port == [m \in Mode |-> IF m = mode THEN ArmNext(PortOf(m), timers[m], fireTSR, {t})
                                     ELSE PortOf(m)]
             port2 == [m \in Mode |-> IF m = mode THEN ArmNext(PortOf(m), timers[mode], fireTSR, {t})
                                     ELSE PortOf(m)]
  <2>3. \/ pc' = "callout" /\ cur' = t /\ oldTSR' = fireTSR[t] /\ SetPorts(port)
        \/ UNCHANGED <<pc, cur, oldTSR, kqueue>>
    BY <1>4, <2>2 DEF DoTimer
  <2>4. UNCHANGED <<now, fireTSR, valid, arrays, mode, leaving, op>>
    BY <1>4 DEF DoTimer
  <2>5. port = port2
    OBVIOUS
  <2> HIDE DEF port
  <2>6. alarm' \in [Mode -> Time] /\ data' \in [Mode -> Time]
    <3>1. CASE SetPorts(port)
      <4>1. timers[mode] \in Seq(Timer)
        BY DEF Shape, Arrays
      <4> QED BY <2>5, <3>1, <4>1, ArmRunning
    <3>2. CASE UNCHANGED kqueue
      BY <3>2 DEF Arrays, kqueue
    <3> QED BY <2>3, <3>1, <3>2
  <2>7. Arrays'
    BY <2>4, <2>6 DEF Arrays, arrays
  <2>8. Shape'
    BY <2>1, <2>3, <2>4 DEF Shape
  <2> QED BY <2>7, <2>8
<1>5. CASE DoneTimers
  BY <1>5 DEF DoneTimers, Shape, Arrays, arrays, kqueue
<1>6. CASE CalloutReturns
  <2>1. Arrays'
    BY <1>6 DEF Arrays, CalloutReturns, arrays, kqueue
  <2>2. /\ valid' \in [Timer -> BOOLEAN] /\ leaving' \subseteq Mode
        /\ pc' \in {"invalidate", "finish"} /\ (valid'[cur] => Interval[cur] > 0)
    <3>1. Interval[cur] \in Nat /\ rlModes[cur] \subseteq Mode /\ valid[cur] \in BOOLEAN
      BY IntervalAssumption DEF Shape, Arrays
    <3>2. CASE Interval[cur] = 0 /\ valid[cur]
      <4>1. /\ valid' = [valid EXCEPT ![cur] = FALSE] /\ leaving' = rlModes[cur]
            /\ pc' \in {"invalidate", "finish"}
        BY <1>6, <3>2 DEF CalloutReturns
      <4>2. valid' \in [Timer -> BOOLEAN] /\ ~valid'[cur]
        BY <4>1 DEF Shape
      <4> QED BY <3>1, <4>1, <4>2
    <3>3. CASE ~(Interval[cur] = 0 /\ valid[cur])
      <4>1. UNCHANGED <<valid, leaving>> /\ pc' = "finish"
        BY <1>6, <3>3 DEF CalloutReturns
      <4>2. valid[cur] => Interval[cur] > 0
        BY <3>1, <3>3
      <4> QED BY <4>1, <4>2 DEF Shape
    <3> QED BY <3>2, <3>3
  <2>3. Shape'
    BY <1>6, <2>2 DEF Shape, CalloutReturns
  <2> QED BY <2>1, <2>3
<1>7. CASE InvalidateLocked
  <2>1. Arrays'
    BY <1>7, RemoveFromTypes DEF Shape, InvalidateLocked
  <2>2. Shape'
    BY <1>7 DEF Shape, InvalidateLocked
  <2> QED BY <2>1, <2>2
<1>8. CASE FinishTimer
  <2>1. UNCHANGED <<now, valid, rlModes, mode, batch, cur, oldTSR, leaving, op>> /\ pc' = "timers"
    BY <1>8 DEF FinishTimer
  <2>2. fireTSR' \in [Timer -> 0..TSRMax] => Shape'
    BY <2>1 DEF Shape
  <2>3. CASE ~valid[cur]
    BY <1>8, <2>1, <2>2, <2>3 DEF FinishTimer, Shape, Arrays, kqueue
  <2>4. CASE valid[cur] /\ oldTSR < fireTSR[cur]
    <3> DEFINE port == [m \in Mode |-> IF m = mode THEN ArmNext(PortOf(m), timers[m], fireTSR, {})
                                       ELSE PortOf(m)]
               port2 == [m \in Mode |-> IF m = mode THEN ArmNext(PortOf(m), timers[mode], fireTSR, {})
                                       ELSE PortOf(m)]
    <3>1. SetPorts(port) /\ UNCHANGED <<fireTSR, timers>> /\ port = port2
      BY <1>8, <2>4 DEF FinishTimer
    <3>2. timers[mode] \in Seq(Timer)
      BY DEF Shape, Arrays
    <3> HIDE DEF port
    <3>3. alarm' \in [Mode -> Time] /\ data' \in [Mode -> Time]
      BY <3>1, <3>2, ArmRunning
    <3> QED BY <2>1, <2>2, <3>1, <3>3 DEF Shape, Arrays
  <2>5. CASE valid[cur] /\ ~(oldTSR < fireTSR[cur])
    <3>1. PICK t \in Timer : t = cur
      BY DEF Shape
    <3>2. PICK tsr \in 0..TSRMax : tsr = NextFireTSR(oldTSR, Interval[t])
      BY <1>8, <2>5, <3>1, NextDate DEF Shape, FinishTimer
    <3>3. Reposition(t, tsr, rlModes[t], {})
      BY <1>8, <2>5, <3>1, <3>2 DEF FinishTimer
    <3>4. rlModes[t] \in SUBSET Mode
      BY DEF Arrays
    <3>5. Arrays'
      BY <2>1, <3>3, <3>4, RepositionTypes
    <3> QED BY <2>2, <3>3, <3>5, RepositionDates
  <2> QED BY <2>3, <2>4, <2>5
<1> QED BY <1>1, <1>2, <1>3, <1>4, <1>5, <1>6, <1>7, <1>8 DEF LoopStep

\* The types are kept.
LEMMA TypesInductive == Spec => []TimersInv
<1>1. TimersInv /\ [Next]_vars => TimersInv'
  <2> SUFFICES ASSUME TimersInv, [Next]_vars PROVE TimersInv'
    OBVIOUS
  <2>1. CASE Tick
    <3>1. now' \in 0..MaxTime
      BY <2>1, GrainAssumption DEF TimersInv, Shape, Tick
    <3> QED BY <2>1, <3>1 DEF TimersInv, Shape, Arrays, Tick, arrays, kqueue, loop
  <2>2. CASE UNCHANGED vars
    BY <2>2 DEF vars, TimersInv, Shape, Arrays
  <2> QED BY <2>1, <2>2, LoopTypes, ThreadTypes DEF Next
<1> QED BY <1>1, InitTypes, PTL DEF Spec

(***************************************************************************)
(* The state has its types, and a timer is in a mode's array once if its   *)
(* _rlModes names the mode and not at all otherwise, for any number of     *)
(* modes and threads: adding, removing, repositioning and invalidating a   *)
(* timer at the same time never loses or duplicates it.                    *)
(***************************************************************************)
THEOREM Typed == Spec => []TypeOK
<1>1. TimersInv => TypeOK
  BY GrainAssumption DEF TimersInv, Shape, Arrays, TypeOK, Time
<1> QED BY <1>1, TypesInductive, PTL

-----------------------------------------------------------------------------
(***************************************************************************)
(* A run loop with one mode: the order and the alarm                       *)
(***************************************************************************)

\* With two modes neither holds: a call of CFRunLoopTimerSetNextFireDate works on
\* the modes it noted before it took the run loop's lock, and __CFRunLoopDoTimer
\* arms the running mode only.
OneMode == \A m, n \in Mode : m = n

\* A call that waits for the lock to set a date has noted a mode.
Noted == \A th \in Thread : op[th][1] = "set" => op[th][4] # {}

Ordered == TimersInv /\ Noted /\ InOrder(fireTSR) /\ InTime

\* A thread enters or leaves a call.
LEMMA NotedKept ==
  ASSUME TimersInv, Noted, NEW th \in Thread, NEW o, op' = [op EXCEPT ![th] = o],
         o[1] = "set" => o[4] # {}
  PROVE  Noted'
  BY DEF TimersInv, Shape, Noted

LEMMA NotedIdle ==
  ASSUME TimersInv, Noted, NEW th \in Thread, op' = [op EXCEPT ![th] = Idle]
  PROVE  Noted'
  BY NotedKept DEF Idle

\* A step that changes no array, date or alarm, and at most makes a timer invalid.
LEMMA Unmoved ==
  ASSUME InOrder(fireTSR), InTime, TimersInv,
         UNCHANGED <<now, fireTSR, timers, alarm>>, Firing' = Firing,
         \A u \in Timer : valid'[u] => valid[u]
  PROVE  InOrder(fireTSR)' /\ InTime'
<1>1. InOrder(fireTSR)'
  BY DEF InOrder
<1>2. ASSUME NEW m \in Mode PROVE Rings(timers[m], alarm[m], fireTSR, valid', Firing, now)
  <2>1. Rings(timers[m], alarm[m], fireTSR, valid, Firing, now) /\ timers[m] \in Seq(Timer)
    BY DEF InTime, TimersInv, Arrays
  <2>2. timers[m] # <<>> => timers[m][1] \in Timer
    BY <2>1
  <2> QED BY <2>1, <2>2 DEF Rings
<1> QED BY <1>1, <1>2 DEF InTime

\* The alarm is off, or set again, only if no timer ahead needs it.
LEMMA AlarmMoves ==
  ASSUME InOrder(fireTSR), InTime, TimersInv,
         UNCHANGED <<now, fireTSR, valid, timers>>, Firing' = Firing,
         \A m \in Mode : alarm[m] > now => alarm'[m] = alarm[m]
  PROVE  InOrder(fireTSR)' /\ InTime'
<1>1. InOrder(fireTSR)'
  BY DEF InOrder
<1>2. ASSUME NEW m \in Mode PROVE Rings(timers[m], alarm'[m], fireTSR, valid, Firing, now)
  <2>1. Rings(timers[m], alarm[m], fireTSR, valid, Firing, now)
    BY DEF InTime
  <2> QED BY <2>1 DEF Rings
<1> QED BY <1>1, <1>2 DEF InTime

\* __CFArmNextTimerInMode for the running mode, which is the only one.
LEMMA RunningRings ==
  ASSUME OneMode, TimersInv, NEW firing,
         SetPorts([m \in Mode |-> IF m = mode THEN ArmNext(PortOf(m), timers[m], fireTSR, firing)
                                  ELSE PortOf(m)]),
         NEW m \in Mode
  PROVE  Rings(timers[m], alarm'[m], fireTSR, valid, firing, now)
<1> DEFINE ts == timers[mode]
           port == [n \in Mode |-> IF n = mode THEN ArmNext(PortOf(n), timers[n], fireTSR, firing)
                                   ELSE PortOf(n)]
           port2 == [n \in Mode |-> IF n = mode THEN ArmNext(PortOf(n), ts, fireTSR, firing)
                                    ELSE PortOf(n)]
           k == ArmNext(PortOf(mode), ts, fireTSR, firing)
<1>1. SetPorts(port) /\ port = port2
  OBVIOUS
<1>2. ts \in Seq(Timer) /\ mode \in Mode
  BY DEF TimersInv, Shape, Arrays
<1>3. now \in Nat /\ fireTSR \in [Timer -> Nat] /\ PortOf(mode) \in Port
  BY <1>2, GrainAssumption, PortValue DEF TimersInv, Shape
<1> HIDE DEF port
<1>4. alarm'[mode] = k.alarm
  <2>1. SetPorts(port2)
    BY <1>1
  <2> HIDE DEF ts
  <2> QED BY <1>2, <2>1, ArmRunning
<1>5. Rings(ts, k.alarm, fireTSR, valid, firing, now)
  <2> HIDE DEF ts
  <2> QED BY <1>2, <1>3, ArmNextRings
<1>6. m = mode
  BY <1>2 DEF OneMode
<1> HIDE DEF k
<1> QED BY <1>4, <1>5, <1>6

\* A timer is added in its place.
LEMMA AddOrdered ==
  ASSUME Ordered, NEW th \in Thread, NEW t \in Timer, NEW m \in Mode,
         AddTimerLocked(th, t, m)
  PROVE  InOrder(fireTSR)' /\ InTime'
<1>1. UNCHANGED <<now, fireTSR, valid, pc, cur>>
  BY DEF AddTimerLocked, loop
<1>2. Firing' = Firing
  BY <1>1 DEF Firing
<1>3. CASE m \in rlModes[t]
  BY <1>1, <1>2, <1>3, Unmoved DEF Ordered, AddTimerLocked, arrays, kqueue
<1>4. CASE m \notin rlModes[t]
  <2>1. ASSUME NEW n \in Mode
        PROVE  /\ Sorted(Dates(timers'[n], fireTSR))
               /\ Rings(timers'[n], alarm'[n], fireTSR, valid, Firing, now)
    <3>1. /\ timers[n] \in Seq(Timer) /\ Sorted(Dates(timers[n], fireTSR))
          /\ Rings(timers[n], alarm[n], fireTSR, valid, Firing, now)
      BY DEF Ordered, TimersInv, Arrays, InOrder, InTime
    <3>2. CASE n # m
      BY <1>4, <3>1, <3>2, AddAt DEF Ordered
    <3>3. CASE n = m
      <4> DEFINE added == Insert(timers[m], t, fireTSR)
                 k == ArmNext(PortOf(m), added, fireTSR, Firing)
      <4>1. timers'[n] = added /\ alarm'[n] = k.alarm
        BY <1>4, <3>3, AddAt DEF Ordered
      <4>2. now \in Nat /\ fireTSR \in [Timer -> Nat] /\ PortOf(m) \in Port
        BY GrainAssumption, PortValue DEF Ordered, TimersInv, Shape
      <4>3. added \in Seq(Timer)
        BY <3>1, <3>3, <4>2, InsertValues
      <4>4. Sorted(Dates(added, fireTSR))
        BY <3>1, <3>3, <4>2, InsertSorted
      <4> HIDE DEF added
      <4>5. Rings(added, k.alarm, fireTSR, valid, Firing, now)
        BY <4>2, <4>3, ArmNextRings
      <4> QED BY <4>1, <4>4, <4>5
    <3> QED BY <3>2, <3>3
  <2> QED BY <1>1, <1>2, <2>1 DEF InOrder, InTime
<1> QED BY <1>3, <1>4

\* A timer is removed.
LEMMA RemoveOrdered ==
  ASSUME Ordered, NEW t \in Timer, NEW where \in SUBSET Mode, RemoveFrom(t, where),
         UNCHANGED <<now, fireTSR, valid>>, Firing' = Firing
  PROVE  InOrder(fireTSR)' /\ InTime'
<1>1. ASSUME NEW m \in Mode
      PROVE  /\ Sorted(Dates(timers'[m], fireTSR))
             /\ Rings(timers'[m], alarm'[m], fireTSR, valid, Firing, now)
  BY RemoveFromOrder, RemoveFromRings DEF Ordered
<1> QED BY <1>1 DEF InOrder, InTime

\* A timer is moved, in every mode that has it.
LEMMA MoveOrdered ==
  ASSUME Ordered, NEW t \in Timer, NEW tsr \in 0..TSRMax, NEW where \in SUBSET Mode,
         Reposition(t, tsr, where, Firing'), rlModes[t] \subseteq where,
         Firing \subseteq Firing' \cup {t}, UNCHANGED <<now, valid>>
  PROVE  InOrder(fireTSR)' /\ InTime'
<1>1. PICK firing : firing = Firing'
  OBVIOUS
<1>2. ASSUME NEW m \in Mode
      PROVE  /\ Sorted(Dates(timers'[m], fireTSR'))
             /\ Rings(timers'[m], alarm'[m], fireTSR', valid, firing, now)
  BY <1>1, RepositionOrder, RepositionRings DEF Ordered
<1> QED BY <1>1, <1>2 DEF InOrder, InTime

\* The calls of other threads keep the order and the alarm.
LEMMA ThreadOrdered ==
  ASSUME OneMode, Ordered, NEW th \in Thread, ThreadStep(th)
  PROVE  Noted' /\ InOrder(fireTSR)' /\ InTime'
<1>0. TimersInv /\ Noted
  BY DEF Ordered
<1>1. CASE SetNextFireDateLocked(th)
  <2>1. PICK o \in Op : o = op[th] /\ o[1] = "set" /\ o[4] # {}
    BY <1>0, <1>1 DEF SetNextFireDateLocked, TimersInv, Shape, Noted
  <2>2. o[2] \in Timer /\ o[3] \in 0..TSRMax /\ o[4] \in SUBSET Mode
    BY <2>1, OpParts
  <2>3. Firing' = Firing /\ UNCHANGED <<now, valid>>
    BY <1>1 DEF SetNextFireDateLocked, Firing, loop
  <2>4. Reposition(o[2], o[3], o[4], Firing')
    BY <1>1, <2>1, <2>3 DEF SetNextFireDateLocked
  <2>5. rlModes[o[2]] \subseteq o[4]
    BY <1>0, <2>1, <2>2 DEF OneMode, TimersInv, Arrays
  <2>6. InOrder(fireTSR)' /\ InTime'
    BY <2>2, <2>3, <2>4, <2>5, MoveOrdered
  <2> QED BY <1>0, <1>1, <2>6, NotedIdle DEF SetNextFireDateLocked
<1>2. CASE TimerInvalidateLocked(th)
  <2>1. PICK o \in Op : o = op[th] /\ o[1] = "remove"
    BY <1>0, <1>2 DEF TimerInvalidateLocked, TimersInv, Shape
  <2>2. o[2] \in Timer /\ o[3] \in SUBSET Mode
    BY <2>1, OpParts
  <2>3. RemoveFrom(o[2], o[3])
    BY <1>2, <2>1 DEF TimerInvalidateLocked
  <2>4. Firing' = Firing /\ UNCHANGED <<now, fireTSR, valid>>
    BY <1>2 DEF TimerInvalidateLocked, Firing, loop
  <2>5. InOrder(fireTSR)' /\ InTime'
    BY <2>2, <2>3, <2>4, RemoveOrdered
  <2> QED BY <1>0, <1>2, <2>5, NotedIdle DEF TimerInvalidateLocked
<1>3. ASSUME NEW t \in Timer, TimerInvalidate(th, t)
      PROVE  Noted' /\ InOrder(fireTSR)' /\ InTime'
  <2>1. \A u \in Timer : valid'[u] => valid[u]
    BY <1>0, <1>3 DEF TimersInv, Shape, TimerInvalidate
  <2>2. Firing' = Firing /\ UNCHANGED <<now, fireTSR, timers, alarm>>
    BY <1>3 DEF TimerInvalidate, Firing, loop, arrays, kqueue
  <2>3. InOrder(fireTSR)' /\ InTime'
    BY <2>1, <2>2, Unmoved DEF Ordered
  <2>4. Noted'
    <3> DEFINE o == IF rlModes[t] = {} THEN Idle ELSE <<"remove", t, rlModes[t]>>
    <3>1. op' = [op EXCEPT ![th] = o]
      BY <1>3 DEF TimerInvalidate
    <3>2. o[1] # "set"
      BY DEF Idle
    <3> HIDE DEF o
    <3> QED BY <1>0, <3>1, <3>2, NotedKept
  <2> QED BY <2>3, <2>4
<1>4. ASSUME NEW t \in Timer, NEW m \in Mode, AddTimer(th, t, m)
      PROVE  Noted' /\ InOrder(fireTSR)' /\ InTime'
  <2>1. Firing' = Firing /\ UNCHANGED <<now, fireTSR, valid, timers, alarm>>
    BY <1>4 DEF AddTimer, Firing, loop, arrays, kqueue
  <2>2. InOrder(fireTSR)' /\ InTime'
    BY <2>1, Unmoved DEF Ordered
  <2>3. Noted'
    <3> DEFINE o == <<"add", t, m>>
    <3>1. op' = [op EXCEPT ![th] = o]
      BY <1>4 DEF AddTimer
    <3>2. o[1] # "set"
      OBVIOUS
    <3> HIDE DEF o
    <3> QED BY <1>0, <3>1, <3>2, NotedKept
  <2> QED BY <2>2, <2>3
<1>5. ASSUME NEW t \in Timer, NEW m \in Mode, AddTimerLocked(th, t, m)
      PROVE  Noted' /\ InOrder(fireTSR)' /\ InTime'
  <2>1. op' = [op EXCEPT ![th] = Idle]
    BY <1>5 DEF AddTimerLocked
  <2> QED BY <1>0, <1>5, <2>1, AddOrdered, NotedIdle
<1>6. ASSUME NEW t \in Timer, NEW m \in Mode, RemoveTimer(th, t, m)
      PROVE  Noted' /\ InOrder(fireTSR)' /\ InTime'
  <2>1. Firing' = Firing /\ UNCHANGED <<now, fireTSR, valid, op>> /\ RemoveFrom(t, {m})
    BY <1>6 DEF RemoveTimer, Firing, loop
  <2>2. InOrder(fireTSR)' /\ InTime'
    BY <2>1, RemoveOrdered
  <2> QED BY <1>0, <2>1, <2>2 DEF Noted
<1>7. ASSUME NEW t \in Timer, NEW date \in Date, SetNextFireDate(th, t, date)
      PROVE  Noted' /\ InOrder(fireTSR)' /\ InTime'
  <2>1. Firing' = Firing /\ UNCHANGED <<now, valid, timers, alarm>>
    BY <1>7 DEF SetNextFireDate, Firing, loop, arrays, kqueue
  <2>2. CASE rlModes[t] # {}
    <3>1. UNCHANGED fireTSR
      BY <1>7, <2>2 DEF SetNextFireDate
    <3>2. InOrder(fireTSR)' /\ InTime'
      BY <2>1, <3>1, Unmoved DEF Ordered
    <3>3. Noted'
      <4> DEFINE tsr == IF date < now THEN now ELSE date
                 o == <<"set", t, tsr, rlModes[t]>>
      <4>1. op' = [op EXCEPT ![th] = o]
        BY <1>7, <2>2 DEF SetNextFireDate
      <4>2. o[4] # {}
        BY <2>2
      <4> HIDE DEF o
      <4> QED BY <1>0, <4>1, <4>2, NotedKept
    <3> QED BY <3>2, <3>3
  <2>3. CASE rlModes[t] = {}
    <3>1. PICK tsr : fireTSR' = [fireTSR EXCEPT ![t] = tsr]
      BY <1>7, <2>3 DEF SetNextFireDate
    <3>2. \A u \in Timer : u # t => fireTSR'[u] = fireTSR[u]
      BY <1>0, <3>1 DEF TimersInv, Shape
    <3>3. ASSUME NEW m \in Mode
          PROVE  /\ Sorted(Dates(timers[m], fireTSR'))
                 /\ Rings(timers[m], alarm[m], fireTSR', valid, Firing, now)
      <4>1. /\ timers[m] \in Seq(Timer) /\ Sorted(Dates(timers[m], fireTSR))
            /\ Rings(timers[m], alarm[m], fireTSR, valid, Firing, now)
            /\ ToSet(timers[m]) = {u \in Timer : m \in rlModes[u]}
        BY DEF Ordered, TimersInv, Arrays, InOrder, InTime
      <4>2. \A i \in DOMAIN timers[m] : fireTSR'[timers[m][i]] = fireTSR[timers[m][i]]
        BY <2>3, <3>2, <4>1 DEF ToSet
      <4>3. Dates(timers[m], fireTSR') = Dates(timers[m], fireTSR)
        BY <4>2 DEF Dates
      <4>4. timers[m] # <<>> => 1 \in DOMAIN timers[m]
        BY <4>1
      <4> QED BY <4>1, <4>2, <4>3, <4>4 DEF Rings
    <3>4. UNCHANGED op
      BY <1>7, <2>3 DEF SetNextFireDate
    <3> QED BY <1>0, <2>1, <3>3, <3>4 DEF InOrder, InTime, Noted
  <2> QED BY <2>2, <2>3
<1> QED BY <1>1, <1>2, <1>3, <1>4, <1>5, <1>6, <1>7 DEF ThreadStep

\* So do the steps of the loop's thread.
LEMMA LoopOrdered ==
  ASSUME OneMode, Ordered, LoopStep
  PROVE  InOrder(fireTSR)' /\ InTime'
<1>0. TimersInv /\ now \in Nat
  BY GrainAssumption DEF Ordered, TimersInv, Shape
<1>1. ASSUME NEW m \in Mode, EnterWait(m) PROVE InOrder(fireTSR)' /\ InTime'
  <2>1. Firing' = Firing /\ UNCHANGED <<now, fireTSR, valid, timers>>
    BY <1>1 DEF EnterWait, Firing, arrays
  <2>2. \A n \in Mode : alarm[n] > now => alarm[n] # Off
    BY <1>0 DEF Off
  <2>3. \A n \in Mode : alarm[n] > now => alarm'[n] = alarm[n]
    BY <1>0, <1>1, <2>2 DEF EnterWait, TimersInv, Arrays
  <2> QED BY <2>1, <2>3, AlarmMoves DEF Ordered
<1>2. ASSUME Delivered PROVE \A m \in Mode : alarm[m] > now => alarm'[m] = alarm[m]
  BY <1>0, <1>2 DEF Delivered, Rung, TimersInv, Arrays
<1>3. CASE TimerRings
  <2>1. Firing' = Firing /\ UNCHANGED <<now, fireTSR, valid, timers>> /\ Delivered
    BY <1>3 DEF TimerRings, Firing, arrays
  <2> QED BY <1>2, <2>1, AlarmMoves DEF Ordered
<1>4. CASE OtherEvent
  <2>1. Firing' = Firing /\ UNCHANGED <<now, fireTSR, valid, timers>> /\ Delivered
    BY <1>4 DEF OtherEvent, Firing, arrays
  <2> QED BY <1>2, <2>1, AlarmMoves DEF Ordered
<1>5. CASE DoTimer
  <2>1. PICK t \in Timer : t = batch[Min(DOMAIN batch)]
    BY <1>0, <1>5, BatchFirst DEF DoTimer
  <2>2. UNCHANGED <<now, fireTSR, valid, timers>>
    BY <1>5 DEF DoTimer, arrays
  <2>3. CASE valid[t] /\ fireTSR[t] <= now /\ rlModes[t] # {}
    <3>1. /\ SetPorts([m \in Mode |->
                IF m = mode THEN ArmNext(PortOf(m), timers[m], fireTSR, {t}) ELSE PortOf(m)])
          /\ pc' = "callout" /\ cur' = t
      BY <1>5, <2>1, <2>3 DEF DoTimer
    <3>2. Firing' = {t}
      BY <3>1 DEF Firing
    <3>3. \A m \in Mode : Rings(timers[m], alarm'[m], fireTSR, valid, {t}, now)
      BY <1>0, <3>1, RunningRings
    <3> QED BY <2>2, <3>2, <3>3 DEF Ordered, InOrder, InTime
  <2>4. CASE ~(valid[t] /\ fireTSR[t] <= now /\ rlModes[t] # {})
    <3>1. UNCHANGED <<pc, cur, alarm>>
      BY <1>5, <2>1, <2>4 DEF DoTimer, kqueue
    <3> QED BY <2>2, <3>1, Unmoved DEF Ordered, Firing
  <2> QED BY <2>3, <2>4
<1>6. CASE DoneTimers
  <2>1. Firing' = Firing /\ UNCHANGED <<now, fireTSR, valid, timers, alarm>>
    BY <1>6 DEF DoneTimers, Locked, Firing, arrays, kqueue
  <2> QED BY <2>1, Unmoved DEF Ordered
<1>7. CASE CalloutReturns
  <2>1. pc' \in {"invalidate", "finish"} /\ UNCHANGED <<now, fireTSR, timers, alarm, cur>>
    BY <1>7 DEF CalloutReturns, arrays, kqueue
  <2>2. Firing' = Firing
    BY <1>7, <2>1 DEF CalloutReturns, Firing
  <2>3. \A u \in Timer : valid'[u] => valid[u]
    BY <1>0, <1>7 DEF CalloutReturns, TimersInv, Shape
  <2> QED BY <2>1, <2>2, <2>3, Unmoved DEF Ordered
<1>8. CASE InvalidateLocked
  <2>1. /\ RemoveFrom(cur, leaving) /\ Firing' = Firing
        /\ UNCHANGED <<now, fireTSR, valid>>
    BY <1>8 DEF InvalidateLocked, Firing
  <2>2. cur \in Timer /\ leaving \in SUBSET Mode
    BY <1>0 DEF TimersInv, Shape
  <2> QED BY <2>1, <2>2, RemoveOrdered
<1>9. CASE FinishTimer
  <2>1. Firing = {cur} /\ Firing' = {} /\ UNCHANGED <<now, valid, rlModes>>
    BY <1>9 DEF FinishTimer, Firing
  <2>2. CASE ~valid[cur]
    <3>1. UNCHANGED <<fireTSR, timers, alarm>>
      BY <1>9, <2>2 DEF FinishTimer, kqueue
    <3>2. ASSUME NEW m \in Mode PROVE Rings(timers[m], alarm[m], fireTSR, valid, {}, now)
      BY <2>1, <2>2 DEF Ordered, InTime, Rings
    <3> QED BY <2>1, <3>1, <3>2 DEF Ordered, InOrder, InTime
  <2>3. CASE valid[cur] /\ oldTSR < fireTSR[cur]
    <3>1. /\ SetPorts([m \in Mode |->
                IF m = mode THEN ArmNext(PortOf(m), timers[m], fireTSR, {}) ELSE PortOf(m)])
          /\ UNCHANGED <<fireTSR, timers>>
      BY <1>9, <2>3 DEF FinishTimer
    <3>2. \A m \in Mode : Rings(timers[m], alarm'[m], fireTSR, valid, {}, now)
      BY <1>0, <3>1, RunningRings
    <3> QED BY <2>1, <3>1, <3>2 DEF Ordered, InOrder, InTime
  <2>4. CASE valid[cur] /\ ~(oldTSR < fireTSR[cur])
    <3>1. PICK t \in Timer : t = cur
      BY <1>0 DEF TimersInv, Shape
    <3>2. PICK tsr \in 0..TSRMax : tsr = NextFireTSR(oldTSR, Interval[t])
      BY <1>0, <1>9, <2>4, <3>1, NextDate DEF TimersInv, Shape, FinishTimer
    <3>3. Reposition(t, tsr, rlModes[t], Firing')
      BY <1>9, <2>1, <2>4, <3>1, <3>2 DEF FinishTimer
    <3>4. rlModes[t] \in SUBSET Mode
      BY <1>0 DEF TimersInv, Arrays
    <3> QED BY <2>1, <3>1, <3>3, <3>4, MoveOrdered
  <2> QED BY <2>2, <2>3, <2>4
<1> QED BY <1>1, <1>3, <1>4, <1>5, <1>6, <1>7, <1>8, <1>9 DEF LoopStep

\* A new run loop has empty arrays and alarms that are off.
LEMMA InitOrdered == Init => Ordered
<1> SUFFICES ASSUME Init PROVE Ordered
  OBVIOUS
<1>1. \A m \in Mode : timers[m] = <<>>
  BY DEF Init
<1>2. InTime
  BY <1>1 DEF InTime, Rings
<1>3. InOrder(fireTSR)
  BY <1>1 DEF InOrder, Sorted, Dates
<1>4. Noted
  BY DEF Init, Noted, Idle
<1> QED BY <1>2, <1>3, <1>4, InitTypes DEF Ordered

\* The clock only makes dates pass.
LEMMA TickOrdered ==
  ASSUME Ordered, Tick
  PROVE  Noted' /\ InOrder(fireTSR)' /\ InTime'
<1>1. /\ now \in Nat /\ now' = now + 1 /\ Firing' = Firing
      /\ UNCHANGED <<fireTSR, valid, timers, alarm, op>>
  BY GrainAssumption DEF Ordered, TimersInv, Shape, Tick, arrays, kqueue, loop, Firing
<1>2. ASSUME NEW m \in Mode PROVE Rings(timers[m], alarm[m], fireTSR, valid, Firing, now')
  <2>1. timers[m] \in Seq(Timer) /\ Rings(timers[m], alarm[m], fireTSR, valid, Firing, now)
    BY DEF Ordered, TimersInv, Arrays, InTime
  <2>2. CASE timers[m] = <<>>
    BY <2>2 DEF Rings
  <2>3. CASE timers[m] # <<>>
    <3>1. fireTSR[timers[m][1]] \in Nat
      BY <2>1, <2>3, GrainAssumption DEF Ordered, TimersInv, Shape
    <3>2. PICK fire \in Nat : fire = RoundFireTSR(fireTSR[timers[m][1]])
      BY <3>1, RoundValue
    <3>3. fire > now' => fire > now
      BY <1>1
    <3> QED BY <2>1, <3>2, <3>3 DEF Rings
  <2> QED BY <2>2, <2>3
<1> QED BY <1>1, <1>2 DEF Ordered, Noted, InOrder, InTime

\* The inductive invariant of a run loop with one mode.
LEMMA OrderInductive ==
  ASSUME OneMode
  PROVE  Spec => []Ordered
<1>1. TimersInv' /\ Ordered /\ [Next]_vars => Ordered'
  <2> SUFFICES ASSUME TimersInv', Ordered, [Next]_vars PROVE Ordered'
    OBVIOUS
  <2>1. CASE LoopStep
    <3>1. Noted'
      BY <2>1 DEF LoopStep, EnterWait, TimerRings, OtherEvent, DoTimer, DoneTimers,
                  CalloutReturns, InvalidateLocked, FinishTimer, Ordered, Noted
    <3> QED BY <2>1, <3>1, LoopOrdered DEF Ordered
  <2>2. CASE Tick
    BY <2>2, TickOrdered DEF Ordered
  <2>3. ASSUME NEW th \in Thread, ThreadStep(th) PROVE Ordered'
    BY <2>3, ThreadOrdered DEF Ordered
  <2>4. CASE UNCHANGED vars
    <3>1. Noted' /\ InOrder(fireTSR)' /\ InTime'
      BY <2>4 DEF Ordered, Noted, InOrder, InTime, vars, Firing
    <3> QED BY <3>1 DEF Ordered
  <2> QED BY <2>1, <2>2, <2>3, <2>4 DEF Next
<1> QED BY <1>1, InitOrdered, TypesInductive, PTL DEF Spec

(***************************************************************************)
(* In a run loop with one mode the array of timers stays in firing order,  *)
(* whatever the interleaving of CFRunLoopAddTimer, CFRunLoopRemoveTimer,   *)
(* CFRunLoopTimerSetNextFireDate, CFRunLoopTimerInvalidate and of the      *)
(* firing of timers.                                                       *)
(***************************************************************************)
THEOREM ArraysStaySorted ==
  ASSUME OneMode
  PROVE  Spec => []TimersSorted
<1>1. Ordered => TimersSorted
  BY DEF Ordered, InOrder, Dates, TimersSorted
<1> QED BY <1>1, OrderInductive, PTL

(***************************************************************************)
(* ... every timer goes behind exactly those that fire no later ...        *)
(***************************************************************************)
THEOREM PlacesAreUpperBounds ==
  ASSUME OneMode
  PROVE  Spec => []InsertedAtUpperBound
<1>1. UpperBoundInEach
  <2> SUFFICES ASSUME NEW n \in 0..MaxLen, NEW keys \in [1..n -> Key], NEW key \in Key,
                      Sorted(keys)
               PROVE  UpperBound(keys, key)
    BY DEF UpperBoundInEach
  <2>1. n \in Nat /\ key \in Nat
    BY KeyAssumption
  <2>2. keys \in [1..n -> Nat]
    BY KeyAssumption
  <2>3. keys \in Seq(Nat)
    BY <2>1, <2>2
  <2> QED BY <2>1, <2>3, SearchFindsUpperBound
<1>2. Ordered => InsertedAtUpperBound
  <2> SUFFICES ASSUME Ordered, NEW m \in Mode, NEW t \in Timer
               PROVE  UpperBound(Dates(timers[m], fireTSR), fireTSR[t])
    BY <1>1 DEF InsertedAtUpperBound, Dates
  <2>1. timers[m] \in Seq(Timer) /\ fireTSR \in [Timer -> Nat]
    BY GrainAssumption DEF Ordered, TimersInv, Shape, Arrays
  <2>2. Dates(timers[m], fireTSR) \in Seq(Nat) /\ fireTSR[t] \in Nat
    BY <2>1, DatesValues
  <2>3. Sorted(Dates(timers[m], fireTSR))
    BY DEF Ordered, InOrder
  <2> QED BY <2>2, <2>3, SearchFindsUpperBound
<1> QED BY <1>2, OrderInductive, PTL

(***************************************************************************)
(* ... and the alarm is never late for the first timer: no removal, new    *)
(* date or callout leaves the kqueue timer off, or set for later.          *)
(***************************************************************************)
THEOREM AlarmIsInTime ==
  ASSUME OneMode
  PROVE  Spec => []ArmedForNext
<1>1. Ordered => ArmedForNext
  <2> SUFFICES ASSUME Ordered, Firing = {}, NEW m \in Mode, timers[m] # <<>>,
                      valid[Head(timers[m])],
                      RoundFireTSR(fireTSR[Head(timers[m])]) > now
               PROVE  alarm[m] \in 0..RoundFireTSR(fireTSR[Head(timers[m])])
    BY DEF ArmedForNext
  <2>1. timers[m] \in Seq(Timer) /\ fireTSR \in [Timer -> Nat]
    BY GrainAssumption DEF Ordered, TimersInv, Shape, Arrays
  <2>2. Head(timers[m]) = timers[m][1] /\ timers[m][1] \in Timer
    BY <2>1
  <2>3. PICK fire \in Nat : fire = RoundFireTSR(fireTSR[timers[m][1]])
    BY <2>1, <2>2, RoundValue
  <2>4. Rings(timers[m], alarm[m], fireTSR, valid, Firing, now)
    BY DEF Ordered, InTime
  <2>5. alarm[m] = fire
    BY <2>2, <2>3, <2>4 DEF Rings
  <2> QED BY <2>2, <2>3, <2>5
<1> QED BY <1>1, OrderInductive, PTL
=============================================================================
