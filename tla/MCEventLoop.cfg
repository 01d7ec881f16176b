SPECIFICATION Spec
CONSTANTS
  NSockets = 3
  Slots = {1, 2}
  Timeout = 2
  IdleTimeout = 3
  RxCap = 1
INVARIANT TypeOK
PROPERTIES SignalStops MappingsEnd ServedWhenOthersQuiet
