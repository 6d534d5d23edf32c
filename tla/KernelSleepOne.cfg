CONSTANTS
  m = m
  a = a
  b = b
  s1 = s1
  idle = idle
  noRet = noRet
  null = null
  NULL <- null
  Threads <- ThreadsMAB
  Main <- m
  Idle <- idle
  NoRet <- noRet
  Pollers <- MainPolls
  BootThreads <- BootA
  Sems <- SemsOne
  SemInits <- Inits0
  MaxSemValue = 1
  SleepTimes <- Times12
  WindowTicks = 1
  DEFAULT_TIME_SLICE = 2
SPECIFICATION Spec
INVARIANT NoThreadLost
