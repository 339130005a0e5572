\* A caller, the stream and a subscriber on one connector; anyone may be cancelled.
SPECIFICATION UpbitSpec
CONSTANTS
  None = None
  Streamer = streamer
  Callers = {c1}
  Cancellable = {c1, streamer}
  Sockets = {w1, w2}
  MaxReconnectAttempts = 1
  AttemptCap = 1
  Markets = {btc}
  Codes = {btc}
  Subscribers = {u1}
  MaxSubscriptions = 3
SYMMETRY MCSymmetry
INVARIANTS
  UpbitTypeOK
  ServedWhenConnected
  SentOncePerSocket
PROPERTY
  ImplementsRegistry
