SPECIFICATION Spec
CONSTANTS
  Configs <- ManyConfigs
  MaxFds = 9
  MaxFlaps = 1
INVARIANTS TypeOK ListIsOpen RunsComplete LeakBound
PROPERTIES SignalExitsUnlessBlocked PersistsWhileDescriptorsLast
