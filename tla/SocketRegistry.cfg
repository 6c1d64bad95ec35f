SPECIFICATION Spec
CONSTANTS
  s1 = s1
  s2 = s2
  c1 = c1
  c2 = c2
  e1 = e1
  e2 = e2
  NoChannel = NoChannel
  SocketIds <- MCSocketIds
  Channels <- MCChannels
  Events <- OneEvent
  EventChannel <- MCEventChannel
  Prompt <- MCPrompt
  PingEvery = 2
  GcEvery = 3
  ResponseTimeout = 3
  PongDelay = 1
INVARIANTS TypeOK OpenIsServed EventIsolation SilentForgotten
PROPERTIES PromptKept BroadcastSpec DeadForgotten
