SPECIFICATION QuietSpec
CONSTANTS
  A = A
  B = B
  Huge = Huge
  Images = {A, B, Huge}
  Size <- MCSize
  NoImage = NoImage
  PartSize = 4
  Sector = 2
  Chunk = 2
  BeginTries = 2
  DataTries = 2
  EndWaits = 2
  Depth = 2
  MaxUploads = 3
  MaxFaults = 3
INVARIANTS
  TypeOK
  InPlace
  GateIsFresh
  ConfirmedIsWritten
  BootSlotIsWhole
PROPERTY InstallsRequested
CHECK_DEADLOCK FALSE
