SPECIFICATION Spec
CONSTANTS
  a = a
  b = b
  f = f
  Jobs <- MCJobs
  OwnJobs <- TwoOwn
  Transports = {"polling", "ws"}
  MaxRetries = 2
  PollDelay = 2
  MaxEventCount = 1
  WsMaxRetries = 1
  WsErrorDelay = 2
  ResponseLag = 2
  MaxEvents <- MCMaxEvents
  MaxPollFailures = 1
  MaxDrops = 2
INVARIANTS TypeOK PollCursorSound NotForgotten ListenersArePending AbandonedLate
PROPERTIES Settles RetriesDieOut
