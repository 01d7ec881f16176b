SPECIFICATION Spec
CONSTANTS
  c1 = c1  c2 = c2
  lanip = lanip  wanip = wanip  aftr = aftr
  LanIP = lanip  WanIP = wanip  AftrIP = aftr
  Clients = {c1, c2}
  Timeout = 1
  IdleTimeout = 3
  enable_nat_pmp = TRUE
  shared_udp_sock = TRUE
  MaxTime = 1
  MaxQueries = 2
  MaxArrivals = 1
  RxCap = 2
INVARIANT AnswerReachesAsker
CHECK_DEADLOCK FALSE
