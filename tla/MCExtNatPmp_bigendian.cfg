SPECIFICATION Spec
CONSTANTS
  Askers <- OneAsker
  Ids = {"map"}
  Length <- QueryLength
  LittleEndian = FALSE
  MaxAnswers = 2
  RxCap = 1
INVARIANT ShimLeadsBack
CHECK_DEADLOCK FALSE
