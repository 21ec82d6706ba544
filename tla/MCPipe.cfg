CONSTANTS
  parent = parent
  child = child
  p1 = p1
  c1 = c1
  c2 = c2
  x = x
  y = y
  N = 2
  Byte = {x, y}
  Process = {parent, child}
  Creator = parent
  Thread = {p1, c1, c2}
  NoThread = none
  Proc <- MCProc
  Leader <- MCLeader
  Data <- MCData
  Wants = {0, 3}
  MaxAsked = 4
  MaxFd = 2
SPECIFICATION FairSpec
CHECK_DEADLOCK FALSE
INVARIANT TypeOK
INVARIANT BatchFits
PROPERTY ImplementsFifo
PROPERTY EofIsFinal
PROPERTY ShortReads
PROPERTY ReadersReturn
