\* Two small transactions and a large one within a minute of the second.
SPECIFICATION Spec
CONSTANTS
  None = None
  Minute = 2
  MaxTime = 4
  MaxTransactions = 3
INVARIANT
  EveryFraudAlerts
