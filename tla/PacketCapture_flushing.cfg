SPECIFICATION Spec
CONSTANTS
  RotateAfter = 1
  Slack = 1
  MaxLocalFiles = 1
  Stop = "late"
  Annotates = {TRUE, FALSE}
  LastFile = 2
  MaxPackets = 1
  MaxFailures = 1
  MaxCrashes = 0
  MaxFlushes = 1
INVARIANTS OpenFileKept 
