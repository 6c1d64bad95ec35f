SPECIFICATION Spec
CONSTANTS
  Blocks = 2
  Engines = {"key", "implicit"}
  MaxStops = 1
  MaxUpsets = 2
INVARIANTS TypeOK SuccessHasResults AnswerHasResults AtMostOneMore
PROPERTIES Concludes
CHECK_DEADLOCK FALSE
