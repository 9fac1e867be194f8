\* Two kinds of up to three rows, pages of two rows or three bytes.
CONSTANTS
  LastKind = 2
  MaxId = 3
  Contents = {"narrow", "wide"}
  Width <- MCWidth
  PageRows = 2
  PageBytes = 3
  FirstTables <- MCFirstTables
  MaxBumped = 1
  MaxUnbumped = 1
SPECIFICATION WalkSpec
PROPERTIES CompletedWhole CurrentInTheEnd
CHECK_DEADLOCK FALSE
