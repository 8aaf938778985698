\* Two messages in a row of three kinds of clients, through small pipes; either
\* side may end at any moment.
SPECIFICATION FairSpec
CONSTANTS
  Base = 4
  Width = 2
  Requests <- MCRequests
  Exchanges = 2
  Numeric <- MCNumeric
  Chunk = 3
  PipeCap = 4
INVARIANTS NoStandstill Intact RoundTrip CutRejected
PROPERTIES ExchangeSpec EventuallyTold OrphanEnds
CHECK_DEADLOCK FALSE
