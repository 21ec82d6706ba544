CONSTANTS
  Main = 0
  Thread = {0, 1}
  InitTask = init
  NoTask = none
  BlockingMutex = {}
  SpinMutex = {}
  Semaphore = {s1, s2}
  Condvar = {}
  NoMutex = nomutex
  ResCounts = {1}
  Durations = {}
  MaxCount = 2
  MaxTime = 0
  Disciplined = TRUE
  UsizeMod = 16
  InheritDetect = TRUE
  EnableArgs = {}
  OwnPermits = TRUE
  MaxNeed = 2
  MaxAvailable = 3
  MaxLive = 2
SPECIFICATION DetSpec
INVARIANT SemaphoreDeadlockRefused
