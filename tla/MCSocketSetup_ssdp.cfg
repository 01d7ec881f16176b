SPECIFICATION Spec
CONSTANTS
  Configs <- SsdpOnly
  MaxFds = 4
  MaxFlaps = 0
PROPERTY JoinsItsGroup
