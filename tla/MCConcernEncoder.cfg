\* What the encoders write, with nothing changed on the way: every body once, and
\* the other codecs at their least.
CONSTANTS
  MaxChanges = 0
  MaxCode = 4
  MaxLen = 1
  NESTING = 2
  MaxHeads = 1
  MaxOps = 1
  MaxTyped = 0
SPECIFICATION Spec
INVARIANTS EncodedChangeMoved
CHECK_DEADLOCK FALSE
