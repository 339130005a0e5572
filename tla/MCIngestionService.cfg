\* Two tasks start and stop the service against each other, over a connector
\* that has the attribute the filter reads, or has not.
SPECIFICATION FairSpec
CONSTANTS
  None = None
  Callers = {c1, c2}
  MaxStarts = 2
  MaxConsecutiveFailures = 2
INVARIANTS
  TypeOK
  NoOrphanLoop
  FlushAfterLoop
  FailuresBounded
PROPERTY
  StopReturns
