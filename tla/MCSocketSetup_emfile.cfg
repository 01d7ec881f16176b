SPECIFICATION Spec
CONSTANTS
  Configs <- DefaultPersistent
  MaxFds = 4
  MaxFlaps = 0
PROPERTY PersistentBinds
