CONSTANTS
  Main = main
  Thread = {main, t1, t2}
  InitTask = init
  NoTask = none
  BlockingMutex = {mb}
  SpinMutex = {ms}
  Semaphore = {sem}
  Condvar = {cv}
  NoMutex = nomutex
  ResCounts = {0, 1}
  Durations = {0, 1}
  MaxCount = 1
  MaxTime = 1
  Disciplined = FALSE
SPECIFICATION Spec
SYMMETRY Symmetry
CHECK_DEADLOCK FALSE
INVARIANT TypeOK
INVARIANT NoTaskLost
INVARIANT NoTaskTwice
INVARIANT ExitedNeverScheduled
INVARIANT SemaphoreCountsWaiters
PROPERTY NoEarlyWake
