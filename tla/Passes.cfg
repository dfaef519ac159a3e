SPECIFICATION PassesSpec
CONSTANTS
  MaxText = 5
  MaxFiles = 3
  BufSize = 4
  MinBuf = 2
  Inputs <- MCAnyInputs
  NumWords = 2
  Documents <- MCDocuments
  MaxDocs = 4
  InvfLevel = 2
  InitCheck = 1
  BufferSize = 2
  ChunkLimits <- MCLimits
INVARIANTS
  TypeOK BufferHoldsTail RoomToRead
  NothingRunsOut
PROPERTIES
  Implements Terminates
  TextInverted WholeTextIndexed
CHECK_DEADLOCK FALSE
