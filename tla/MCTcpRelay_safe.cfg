SPECIFICATION Spec
CONSTANTS
  a = a  b = b
  Conns = {a, b}
  Limits = {3, 4}
  MaxSent = 3
  Window = 1
  Talkers <- ClientOfA
  Leavers <- Ends
INVARIANTS TypeOK PeersPaired NoCrosstalk
PROPERTY OthersSurvive
CHECK_DEADLOCK FALSE
