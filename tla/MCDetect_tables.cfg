CONSTANTS
  Main = 0
  Thread = {0, 1, 2}
  InitTask = init
  NoTask = none
  BlockingMutex = {mb}
  SpinMutex = {}
  Semaphore = {s1}
  Condvar = {cv}
  NoMutex = nomutex
  ResCounts = {1}
  Durations = {0}
  MaxCount = 2
  MaxTime = 1
  Disciplined = TRUE
  UsizeMod = 16
  InheritDetect = TRUE
  EnableArgs = {1, 2}
  OwnPermits = TRUE
  MaxNeed = 2
  MaxAvailable = 3
  MaxLive = 2
SPECIFICATION DetSpec
INVARIANT DetTypeOK
INVARIANT MutexTablesCountClaims
INVARIANT SemaphoreTablesConserve
INVARIANT LoneThreadNotStuck
