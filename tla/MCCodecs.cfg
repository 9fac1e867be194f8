\* Two changes reach every pair of faults in a body: a stray field beside a
\* missing one, a repeat beside an unknown key, an outcome changed under its
\* companions. Full COBS blocks are three bytes and a frame holds two of them.
\* Seven heads hold a map of three pairs, or two with a map inside.
CONSTANTS
  MaxChanges = 2
  MaxCode = 4
  MaxLen = 7
  NESTING = 2
  MaxHeads = 7
  MaxOps = 6
  MaxTyped = 3
SPECIFICATION Spec
INVARIANTS EncodedDecodes DecodedWasWritable ItemsExact TablesAgree BudgetsHold
CHECK_DEADLOCK FALSE
