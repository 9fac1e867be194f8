\* Three slots: one admin, one viewer, one row that only an owner takes.
CONSTANTS
  MaxClients = 3
  MaxAdmins = 1
  MaxViewers = 1
  Keys = {k1, k2, k3}
  Labels = {l1, l2}
  LastGen = 2
  MaxAttempts = 2
  MaxApprovals = 2
  MaxMishaps = 1
SPECIFICATION Spec
SYMMETRY Symmetry
INVARIANTS ToldTrue OneKeyOneSlot
PROPERTIES OwnerStands
CHECK_DEADLOCK FALSE
