\* A reconnection without limit, against a caller that connects; nobody is cancelled.
SPECIFICATION Spec
CONSTANTS
  None = None
  Streamer = streamer
  Callers = {c1, c2}
  Cancellable = {}
  Sockets = {w1, w2}
  MaxReconnectAttempts = 0
  AttemptCap = 2
PROPERTY
  SingleConnection
