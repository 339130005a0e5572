\* Up to four transactions over twice the length of a minute.
SPECIFICATION Spec
CONSTANTS
  None = None
  Minute = 2
  MaxTime = 5
  MaxTransactions = 4
INVARIANTS
  TypeOK
  FlagExpires
  TimersDue
  AlertsSound
  FreshFraudAlerts
