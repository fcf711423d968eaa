SPECIFICATION Spec
CONSTANTS
  s1 = s1
  m1 = m1
  m2 = m2
  Mode <- OneMode
  Source <- OneSource
  Thread = {t1}
  Order <- FlatOrder
  Observed <- ObserveAll
  TimerModes = {}
  Home <- FirstHome
  StopAfter = {FALSE}
  NestAt = {"beforeWaiting"}
  Timeout = {"zero", "never"}
  MaxDepth = 2
INVARIANT NoSignalSleptThrough
