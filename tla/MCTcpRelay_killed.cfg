SPECIFICATION Spec
CONSTANTS
  a = a  b = b
  Conns = {a}
  Limits = {2}
  MaxSent = 2
  Window = 2
  Talkers <- Ends
  Leavers <- Ends
INVARIANT EndsBySignal
CHECK_DEADLOCK FALSE
