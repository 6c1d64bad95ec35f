SPECIFICATION Spec
CONSTANTS
  RotateAfter = 2
  Slack = 1
  MaxLocalFiles = 2
  Stop = "in time"
  Annotates = {TRUE, FALSE}
  LastFile = 2
  MaxPackets = 2
  MaxFailures = 1
  MaxCrashes = 1
  MaxFlushes = 0
INVARIANTS TypeOK NothingLost
PROPERTY RotatedLeaves
