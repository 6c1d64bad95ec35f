SPECIFICATION Spec
CONSTANTS
  MaxQueries = 4
  MaxRemovals = 2
CHECK_DEADLOCK FALSE
INVARIANTS TypeOK InFlightIsKnown
PROPERTIES  LoadingEnds
