SPECIFICATION Spec
CONSTANTS
  Configs <- AllConfigs
  MaxFds = 5
  MaxFlaps = 0
INVARIANT MutuallyExclusive
