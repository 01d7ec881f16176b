SPECIFICATION Spec
CONSTANTS
  c1 = c1 c2 = c2 c3 = c3 k1 = k1 k2 = k2
  Cells <- ThreeCells
  Keys <- OneKey
  Null = Null
  NoKey = NoKey
  IdleTimeout = 2
  Timeout = 2
  MaxTime = 3
  IntMax = 3
PROPERTY LivesItsTime
