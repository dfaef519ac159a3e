SPECIFICATION PassesSpec
CONSTANTS
  MaxText = 3
  MaxFiles = 3
  BufSize = 4
  MinBuf = 2
  Inputs <- MCAnyInputs
  NumWords = 1
  Documents = {}
  MaxDocs = 1
  InvfLevel = 2
  InitCheck = 1
  BufferSize = 2
  ChunkLimits = {1}
INVARIANT WholeText
CHECK_DEADLOCK FALSE
