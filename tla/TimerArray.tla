----------------------------- MODULE TimerArray -----------------------------
(***************************************************************************)
(* The search that keeps a mode's array of timers in firing order,         *)
(* __CFRunLoopInsertionIndexInTimerArray, on the sequence of the timers'   *)
(* _fireTSR values.                                                        *)
(***************************************************************************)
EXTENDS Naturals, Sequences, FiniteSets

CONSTANTS
    Shortcut,    \* arrays longer than this (256) try the two ends first
    Key, MaxLen  \* the dates and the length of the arrays to check one by one

ASSUME ShortcutAssumption == Shortcut \in Nat
ASSUME KeyAssumption == Key \subseteq Nat /\ MaxLen \in Nat

\* 1 << n
Shift[n \in Nat] == IF n = 0 THEN 1 ELSE 2 * Shift[n - 1]

\* flsl(n): the position of the highest bit set, counted from one.
flsl(n) == CHOOSE k \in 0..n : Shift[k] > n /\ \A j \in 0..n : Shift[j] > n => k <= j

\* The item at the zero-based index i exists and is not later than the key.
LEQ(keys, key, i) == i < Len(keys) /\ keys[i + 1] <= key

\* The values of idx in the do-while loop: idx[n] after n tests, made with add
\* at 1 << top, ..., 2, 1.  It moves to each tested item that is not later than
\* the key.
Halvings(keys, key, top) ==
    LET idx[n \in 0..top + 1] ==
            IF n = 0 THEN 0
            ELSE LET testIdx == idx[n - 1] + Shift[top + 1 - n]
                 IN IF LEQ(keys, key, testIdx) THEN testIdx ELSE idx[n - 1]
    IN idx

\* Mutant of Halve: the last test, of the item at idx itself, is left out.
HalveStopsEarly(keys, key) ==
    LET top == flsl(Len(keys))
    IN Halvings(keys, key, top)[top + 1]

\* The last test is made with add = 0, and its outcome decides between idx and
\* idx + 1.
Halve(keys, key) ==
    LET top == flsl(Len(keys))
        idx == Halvings(keys, key, top)[top + 1]
    IN IF LEQ(keys, key, idx) THEN idx + 1 ELSE idx

\* __CFRunLoopInsertionIndexInTimerArray: zero-based, as in the source.
InsertionIndex(keys, key) ==
    LET cnt == Len(keys)
    IN CASE cnt = 0 -> 0
         [] cnt > Shortcut /\ keys[cnt] <= key -> cnt
         [] cnt > Shortcut /\ keys[cnt] > key /\ key < keys[1] -> 0
         [] OTHER -> Halve(keys, key)

-----------------------------------------------------------------------------

Sorted(keys) ==
    \A i, j \in DOMAIN keys : i <= j => keys[i] <= keys[j]

\* What the search is for: the number of items that are not later.
UpperBound(keys, key) ==
    InsertionIndex(keys, key) = Cardinality({i \in DOMAIN keys : keys[i] <= key})

\* In every array in firing order of up to MaxLen dates.
UpperBoundInEach ==
    \A n \in 0..MaxLen : \A keys \in [1..n -> Key], key \in Key :
        Sorted(keys) => UpperBound(keys, key)
=============================================================================
