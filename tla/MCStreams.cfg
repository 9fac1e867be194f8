\* A ring of three records that wraps, read in pages of at most two and by
\* two subscriptions through two faults; three signals whose rows meet the row caps and the byte caps at different places.
CONSTANTS
  LastSeq = 5
  Capacity = 3
  PageEntries = 2
  Asks = {1, 2, 5}
  MaxSubs = 2
  MaxFaults = 2
  LastSig = 3
  MaxWidth = 2
  MAX_SAMPLES = 2
  MAX_SERIES = 1
  MAX_READINGS_BYTES = 4
  MAX_CONCERN_PAGE_ROWS = 2
  MAX_CONCERN_PAGE_BYTES = 3
  SWEEP_ROWS = 2
  MAX_EVENT_BODY = 3
  MaxTotal = 1
  MaxChanges = 3
SPECIFICATION StreamsSpec
INVARIANTS TakenOnceInOrder NoSilentLoss EveryRecordOnceOrTold PagesWhole
PROPERTIES CatchUpEnds HeardInTheEnd
CHECK_DEADLOCK FALSE
