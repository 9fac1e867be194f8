SPECIFICATION ConfigSpec
CONSTANTS
  Board <- MCBoard
  Dialects <- MCDialects
  Kinds <- MCKinds
  Writes <- MCWrites
  max_devices = 3
  max_topology_depth = 2
  MAX_CONFIG_BUSES = 2
  MAX_CONFIG_DEVICES = 3
  LastDev = 4
  Clients = {c1, c2}
  Networks = {1, 2}
  Keys = {1}
  MaxVersion = 2
  MaxRepairs = 1
  MaxSwaps = 2
INVARIANTS SentBackAccepted CurrentMeansSame
PROPERTIES ImplementsRegister CacheConverges
CHECK_DEADLOCK FALSE
