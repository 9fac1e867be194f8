\* UART: three bytes of payload and two of checksum; full blocks of two bytes.
\* BLE: two ids, so they wrap; a limit larger than the receiver's MTU; a payload
\* of three fragments. Two faults are too few for a whole turn of the ids.
CONSTANTS
  MaxPayload = 3
  MaxFaults = 2
  MaxCode = 3
  CrcBytes = 2
  Crc <- SumCrc
  MaxFrame = 9
  IncompleteAfter = 2
  MaxWaiting = 3
  Payloads <- MCPayloads
  MaxFrames = 3
  Ids = 2
  IndexMask = 2
  MtuLen = 2
  Limits = {1, 3}
  Timeout = 1
  QueueCap = 2
  MaxSent = 3
  MaxClosed = 1
  MaxBack = 1
SPECIFICATION LinksSpec
INVARIANTS DeliveredAsSent RefusalMeansFault
PROPERTIES AssemblyEnds EnqueuedArrives CleanFrameArrives
CHECK_DEADLOCK FALSE
