SPECIFICATION FairSpec
CONSTANTS
  s1 = s1
  m1 = m1
  m2 = m2
  Mode <- TwoModes
  Source <- OneSource
  Thread = {t1}
  Order <- FlatOrder
  Observed <- ObserveWait
  TimerModes <- SecondMode
  Home <- FirstHome
  StopAfter = {FALSE}
  NestAt = {"afterWaiting"}
  Timeout = {"finite"}
  MaxDepth = 2
INVARIANTS
  TypeOK
  NoSignalSleptThrough
  NoStopSleptThrough
  SleepingIffWaiting
PROPERTIES
  StopsStayWithTheirRun
  SignalIsServed
  StopReturns
