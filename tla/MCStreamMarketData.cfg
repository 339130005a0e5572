\* The whole process of one use case, for every request and every frame.
SPECIFICATION FairProcess
CONSTANTS
  KrwMarkets <- MCKrwMarkets
  Null = Null
  Text = Text
  Undecodable = Undecodable
  Main = Main
  None = None
  btc = btc
  usdt = usdt
  MaxConsecutiveFailures = 2
  Publishers = {1}
  MaxRetries = 2
  Capacity = 1
  MaxMessages = 3
  Requests <- MCRequests
  Frames <- MCFrames
  Now <- MCNow
\* The use case ends, and with it the process; a refused one ends at once.
CHECK_DEADLOCK FALSE
INVARIANTS
  ProcessTypeOK
  PublishedAsMapped
  OnlyValidPublished
  QuietAtEnd
  FailuresInARow
  NothingUnsentAtEnd
  AcceptedOnce
PROPERTIES
  ImplementsPublisher
  InterruptEnds
  PublishEnds
