SPECIFICATION Spec
CONSTANTS
  t0 = t0
  t1 = t1
  t2 = t2
  Thread = {t0, t1, t2}
  Main = t0
  Exiting = {t1, t2}
  Loop = {l1, l2, l3, l4, l5}
  Iterations = 4
  None = None
SYMMETRY Symmetry
INVARIANTS
  TypeOK
  RetainsExact
  CachesAgree
PROPERTY ImplementsThreadLoops
CHECK_DEADLOCK FALSE
