\* Two requests in flight, so the window tells reordering from replay; both
\* counters run to exhaustion.
CONSTANTS
  Width = 3
  MaxInflight = 2
  ReplaySpan = 3
  LastReq = 3
  LastNonce = 4
  MaxReplays = 1
  MaxUpsets = 1
SPECIFICATION Spec
INVARIANTS NonceUsedOnce OpenedOnceAsSealed OneAnswerPerRequest CountedWasAltered
CHECK_DEADLOCK FALSE
