SPECIFICATION Spec
CONSTANTS
  Blocks = 1
  Engines = {"key", "implicit"}
  MaxStops = 1
  MaxUpsets = 1
PROPERTY StoppedStays
CHECK_DEADLOCK FALSE
