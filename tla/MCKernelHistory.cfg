CONSTANTS
  m = m
  a = a
  b = b
  s1 = s1
  idle = idle
  noRet = noRet
  Threads <- ThreadsMAB
  Main <- m
  Idle <- idle
  NoRet <- noRet
  Pollers <- NoPollers
  BootThreads <- BootA
  Sems <- SemsOne
  SemInits <- Inits01
  MaxSemValue = 1
  SleepTimes <- Times2
  WindowTicks = 1
  DEFAULT_TIME_SLICE = 2
SPECIFICATION FairCloseSpec
INVARIANTS
  TypeOK
  OneList
  RunningIsOnNoList
  NoThreadLost
  BlockedIsExact
  SemValueCountsWaiters
  SleepersInOrder
  IdleOnlyWhenNoneReady
  CloseIsReported
PROPERTIES
  ReadyRuns
  SleeperWakes
  WaiterServed
