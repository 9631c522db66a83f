SPECIFICATION PromptSpec
CONSTANTS
  A = A
  B = B
  Huge = Huge
  Images = {A, B, Huge}
  Size <- MCSize
  NoImage = NoImage
  PartSize = 4
  Sector = 2
  Chunk = 2
  BeginTries = 4
  DataTries = 8
  EndWaits = 5
  Depth = 2
  MaxUploads = 2
  MaxFaults = 3
PROPERTY UploadSucceeds
CHECK_DEADLOCK FALSE
