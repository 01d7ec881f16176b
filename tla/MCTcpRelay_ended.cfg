SPECIFICATION ReadingSpec
CONSTANTS
  a = a  b = b
  Conns = {a, b}
  Limits = {4}
  MaxSent = 1
  Window = 1
  Talkers <- Talking
  Leavers <- EndsOfA
PROPERTY EndedIsClosed
CHECK_DEADLOCK FALSE
