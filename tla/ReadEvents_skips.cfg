SPECIFICATION Spec
CONSTANTS
  MaxMs = 2
  MaxSeq = 21
  MaxEventCount = 3
CHECK_DEADLOCK FALSE
INVARIANTS NothingSkipped
