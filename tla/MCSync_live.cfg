CONSTANTS
  Main = main
  Thread = {main, t1, t2}
  InitTask = init
  NoTask = none
  BlockingMutex = {mb}
  SpinMutex = {}
  Semaphore = {}
  Condvar = {}
  NoMutex = nomutex
  ResCounts = {}
  Durations = {0, 1}
  MaxCount = 0
  MaxTime = 1
  Disciplined = TRUE
SPECIFICATION FairSpec
PROPERTY ReadyRuns
PROPERTY SleeperRuns
PROPERTY MutexWaiterServed
