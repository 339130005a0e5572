\* A small transaction, and a large one of the same account after the minute.
SPECIFICATION Spec
CONSTANTS
  None = None
  Accounts = {1, 2, 3, 4, 5}
  Collections <- MCCollections
  Minute = 6
  MaxTime = 16
  MaxTransactions = 4
  MaxLength = 2
  TimesUsed = {1, 12}
INVARIANT
  AlertsWithinMinute
