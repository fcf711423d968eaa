SPECIFICATION Spec
CONSTANTS
  once = once
  often = often
  m1 = m1
  m2 = m2
  None = None
  Mode = {m1, m2}
  DefaultMode = m1
  Observer <- MCObserver
  Activity = {"entry"}
  Thread = {t1, t2}
  Order <- MCOrder
  Watches <- MCWatches
  OneShot = {once}
  Direct = {m1}
  MaxDepth = 2
SYMMETRY Symmetry
INVARIANTS
  TypeOK
  NotReentered
  CountIsExact
  CommonItemsInCommonModes
PROPERTY OneShotOnce
