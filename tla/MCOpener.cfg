\* A five-bit word, a span one short of it, and enough nonces for a shift
\* to pass the top of the word.
CONSTANTS
  Width = 5
  Span = 4
  ReservedNonce = 9
SPECIFICATION OpenerSpec
INVARIANT WindowIsHistory
PROPERTY ImplementsFilter
