SPECIFICATION Spec
CONSTANTS
  e1 = e1
  e2 = e2
  t1 = t1
  c1 = c1
  c2 = c2
  Events <- MCEvents
  Tabs <- MCTabs
  Channels <- MCChannels
  EventChannel <- MCEventChannel
  TabChannel <- MCTabChannel
  IdsPerMs = 5
  WarmId = 1
  FirstIds = {0, 1}
  MaxMs = 3
  MaxDrops = 1
  MaxFailures = 0
  MaxRestarts = 0
INVARIANTS CatchUpAlways
