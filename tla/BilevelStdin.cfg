SPECIFICATION ImgSpec
CONSTANTS
  codevaluebits = 5
  Totals = {1, 2, 5, 8}
  Stdin = "nothing"
  INITVALUE = 1
  INCREMENT = 1
  MAX_T_W = 4
  TEMPLATESIZE = 5
  Pages <- MCEverydayPages
  Residues = {}
  Jobs = {}
  GAP = 1
  Split = TRUE
  FIXEDORDER = 3
  increment = 2
  halveat = 4
  maxnodes = 20
  PPM_CHUNK = 4
  Charset = 3
  MaxSymbols = 1
  SymbolValues = {0, 1, 2}
  OffsetLists <- MCOffsetLists
  OffsetValues <- MCOffsetValues
  maxlevel = 9
INVARIANTS
  FileDecompressed
CHECK_DEADLOCK FALSE
