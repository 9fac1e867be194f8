\* Room for two of three devices on one bus, pages of up to two rows.
CONSTANTS
  Revs = {"r1", "r2"}
  Buses = {1}
  Devs = {d1, d2, d3}
  Addrs = {a1, a2}
  Devices = 2
  MaxRows = 2
  MaxPages = 3
SPECIFICATION Spec
INVARIANTS HeldIsLatest EveryRowJudged
SYMMETRY Symmetry
CHECK_DEADLOCK FALSE
