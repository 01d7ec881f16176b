SPECIFICATION Spec
CONSTANTS
  a = a  b = b
  Conns = {a}
  Limits = {2}
  MaxSent = 2
  Window = 1
  Talkers <- Ends
  Leavers <- Ends
PROPERTY SignalExits
CHECK_DEADLOCK FALSE
