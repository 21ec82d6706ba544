CONSTANTS
  Block = {b1, b2, b3}
  Val = {0, 1, 2}
  CacheSize = 2
  MaxNest = 2
SPECIFICATION Spec
INVARIANT TypeOK
INVARIANT CacheCoherent
INVARIANT NeverRunsOut
PROPERTY ImplementsDisk
