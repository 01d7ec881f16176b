SPECIFICATION Spec
CONSTANTS
  Askers <- TwoAskers
  Ids = {"map", "long"}
  Length <- QueryLength
  LittleEndian = TRUE
  MaxAnswers = 2
  RxCap = 1
INVARIANTS TypeOK QueryFitsBuffer AftrHearsClientsOnly
PROPERTY ServesQueries
CHECK_DEADLOCK FALSE
