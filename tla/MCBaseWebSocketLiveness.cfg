\* Two callers and the stream compete for the lock; no symmetry.
SPECIFICATION FairSpec
CONSTANTS
  None = None
  Streamer = streamer
  Callers = {c1, c2}
  Cancellable = {}
  Sockets = {w1}
  MaxReconnectAttempts = 1
  AttemptCap = 1
PROPERTIES
  DisconnectCompletes
  LossIsResolved
