SPECIFICATION Spec
CONSTANTS
  a = a
  b = b
  f = f
  Jobs <- OneOwn
  OwnJobs <- OneOwn
  Transports = {"ws"}
  MaxRetries = 2
  PollDelay = 2
  MaxEventCount = 1
  WsMaxRetries = 1
  WsErrorDelay = 2
  ResponseLag = 2
  MaxEvents <- MCMaxEvents
  MaxPollFailures = 0
  MaxDrops = 3
PROPERTIES FallbackPolls
