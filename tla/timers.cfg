SPECIFICATION Spec
CONSTANTS
  a = a
  b = b
  c = c
  Timer <- ThreeTimers
  Mode = {m1}
  Thread = {t1}
  Interval <- MixedInterval
  FirstDate = {1}
  Date = {3}
  Tenus = 2
  TSRMax = 100
  MaxTime = 3
  Shortcut = 4
  Key = {1, 2, 3, 4}
  MaxLen = 8
SYMMETRY Symmetry
INVARIANTS
  InsertedAtUpperBound
  TypeOK
  TimersSorted
  ArmedForNext
CHECK_DEADLOCK FALSE
