SPECIFICATION Spec
CONSTANTS
  Lan = "br-lan"
  Wan = "eth0.1"
  Names = {"br-lan", "eth0.1"}
  IPv4 = {"lan4", "wan4"}
  Global6 = {"lan6", "wan6"}
  LinkLocal6 = {"local6"}
  PeerOf <- Broadcast
  Beginnings <- Alone
  CharIsSigned = TRUE
  MaxIndex = 3
  MaxChanges = 0
  MaxCalls = 2
  RxCap = 2
INVARIANT NoCrash
CHECK_DEADLOCK FALSE
