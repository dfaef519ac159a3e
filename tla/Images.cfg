SPECIFICATION ImgSpec
CONSTANTS
  codevaluebits = 5
  Totals = {1, 2, 5, 8}
  Stdin = "rest"
  INITVALUE = 1
  INCREMENT = 1
  MAX_T_W = 4
  TEMPLATESIZE = 5
  Pages <- MCPages
  Residues <- MCResidues
  Jobs <- MCJobs
  GAP = 1
  Split = TRUE
  FIXEDORDER = 3
  increment = 2
  halveat = 4
  maxnodes = 20
  PPM_CHUNK = 4
  Charset = 3
  MaxSymbols = 6
  SymbolValues = {0, 1, 2}
  OffsetLists <- MCOffsetLists
  OffsetValues <- MCOffsetValues
  maxlevel = 9
INVARIANTS
  DecoderRight PicturesComeBack SymbolsComeBack PagesRedrawn
CHECK_DEADLOCK FALSE
