SPECIFICATION Spec
CONSTANTS
  a = a
  b = b
  Jobs <- MCJobs
  AcksLate = TRUE
  MaxXaddFailures = 2
  MaxCrashes = 2
CHECK_DEADLOCK FALSE
INVARIANTS TypeOK ReplayCovers OutcomesAccounted
PROPERTIES DoneFollowsCaching EveryJobAnnounced
