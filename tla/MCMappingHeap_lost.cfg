SPECIFICATION Spec
CONSTANTS
  c1 = c1 c2 = c2 c3 = c3 k1 = k1 k2 = k2
  Cells <- ThreeCells
  Keys <- OneKey
  Null = Null
  NoKey = NoKey
  IdleTimeout = 2
  Timeout = 1
  MaxTime = 2
  IntMax = 7
\* Each of these is violated; TLC stops at the first.
INVARIANTS
  NothingLost
  NeverWithoutMemory
