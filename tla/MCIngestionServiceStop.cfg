\* One task starts and stops the service.
SPECIFICATION Spec
CONSTANTS
  None = None
  Callers = {c1}
  MaxStarts = 1
  MaxConsecutiveFailures = 2
INVARIANT
  StoppedMeansDisconnected
