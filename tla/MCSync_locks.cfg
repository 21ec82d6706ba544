CONSTANTS
  Main = main
  Thread = {main, t1, t2}
  InitTask = init
  NoTask = none
  BlockingMutex = {mb}
  SpinMutex = {ms}
  Semaphore = {}
  Condvar = {cv}
  NoMutex = nomutex
  ResCounts = {}
  Durations = {}
  MaxCount = 0
  MaxTime = 0
  Disciplined = TRUE
SPECIFICATION Spec
SYMMETRY Symmetry
INVARIANT MutualExclusion
INVARIANT WaitersHaveOwner
INVARIANT NoPanic
PROPERTY ImplementsMutexes
