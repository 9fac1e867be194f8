\* A relay that only delays and reorders, and a client that never holds more
\* than MAX_INFLIGHT requests outstanding.
CONSTANTS
  Width = 4
  MaxInflight = 2
  ReplaySpan = 4
  LastReq = 6
  LastNonce = 6
  MaxReplays = 0
  MaxUpsets = 0
SPECIFICATION Spec
INVARIANT HonestNeverRefused
CHECK_DEADLOCK FALSE
