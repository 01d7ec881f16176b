SPECIFICATION Spec
CONSTANTS
  Configs <- HighOctet
  MaxFds = 4
  MaxFlaps = 0
PROPERTY BindsWhenReady
