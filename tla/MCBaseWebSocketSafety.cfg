\* Two callers and the stream, any of which may be cancelled.
SPECIFICATION Spec
CONSTANTS
  None = None
  Streamer = streamer
  Callers = {c1, c2}
  Cancellable = {c1, c2, streamer}
  Sockets = {w1, w2}
  MaxReconnectAttempts = 2
  AttemptCap = 2
SYMMETRY MCSymmetry
INVARIANTS
  TypeOK
  LockDiscipline
  SingleFlight
  NoFlightWhileConnected
  DoubleCheckUnreachable
  FailurePathLegal
  LockQueueExact
  NoAwaitCycle
  ReadsOwnSocket
PROPERTY
  ImplementsLifecycle
