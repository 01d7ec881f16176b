SPECIFICATION Spec
CONSTANTS
  c1 = c1  c2 = c2
  lanip = lanip  wanip = wanip  aftr = aftr
  LanIP = lanip  WanIP = wanip  AftrIP = aftr
  Clients = {c1}
  Timeout = 1
  IdleTimeout = 3
  enable_nat_pmp = TRUE
  shared_udp_sock = TRUE
  MaxTime = 2
  MaxQueries = 1
  MaxArrivals = 2
  RxCap = 1
INVARIANT NoAnswerForwardedAsQuery
CHECK_DEADLOCK FALSE
