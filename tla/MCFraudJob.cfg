\* A minute has six units, as the sample data needs; other transactions come
\* within a minute of each other or later.
SPECIFICATION Spec
CONSTANTS
  None = None
  Accounts = {1, 2, 3, 4, 5}
  Collections <- MCCollections
  Minute = 6
  MaxTime = 16
  MaxTransactions = 4
  MaxLength = 3
  TimesUsed = {1, 12}
INVARIANTS
  TypeOK
  AlertsOfEachAccount
  SampleAlerts
  NothingLeftInState
