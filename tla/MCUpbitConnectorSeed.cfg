\* Nobody calls subscribe(): the first connection is all that subscribes.
SPECIFICATION Spec
CONSTANTS
  Markets = {btc, eth}
  Codes = {btc, eth}
  Subscribers = {}
  MaxSubscriptions = 0
INVARIANT
  SeedsBothTypes
