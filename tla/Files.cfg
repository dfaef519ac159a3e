SPECIFICATION MCSpec
CONSTANTS
  MaxValue = 9
  MaxBlock = 6
  MaxItems = 2
  HuffSymbols = 4
  HuffFreq = 4
  HuffMessage = 2
  LastChar = 4
  WordChars = {1, 2, 3}
  MAXWORDLEN = 2
  PointerSize = 4
  Texts <- MCTexts
  Dictionaries <- MCDictionaries
  HeaderBytes = 1
  MAX_SWAPS = 3
  Reads = 2
  MAX_HUFFCODE_LEN = 6
  HeapPlaces = {8, 20}
  NumWords = 3
  HeaderLen = 1
  FirstByte = 2
  MaxRegion = 2
  Layouts <- MCLayouts
  Entries = 4
  ISR_CACHE = 2
  States = {"empty", "merged"}
  NoRecord = NoRecord
  MG_PAGE_SIZE = 3
  Indexes <- MCIndexes
  MAXBITS = 4
  BitChoices = {0, 1, 2, 3}
  Collections <- MCCollections
  Idf <- MCIdf
  Spellings <- MCWords
  WordSets <- MCWordSets
  Stemmers <- MCStemmers
  Lookbacks = {2, 3}
  BlockSizes = {32, 64}
  IdxBlockSizes = {56, 70}
  MaxLookups = 2
  KeyLists <- MCKeyLists
  Randoms <- MCRandoms
  MAX_TRIES = 2
  Terms = {1, 2, 3}
  FirstTexts <- MCFirstTexts
  MoreTexts <- MCMoreTexts
  InvfLevels = {1, 2}
  InvfStart = 2
  TextStart = 3
  MaxMerges = 2
  ConfigSets <- MCConfigSets
  MaxBuilds = 2
  MaxKills = 2
  ByteBits = 2
  FileCodes <- MCFileCodes
  FileItems = 2
  RndItems = 3
  Rooms = {3, 6}
  RndLengths = {2, 3}
  RegionStarts <- MCRegionStarts
  RegionBits = 6
INVARIANTS
  CodesReadBack
  BitsComeBack
  TextAndDictionary
  BuiltIsCurrent
  UnreadIntact
  Compacted
  SearchesFind
  WeightFilesRight
  WordsFound
  HashIsPerfect
  MergedIsWhole
PROPERTIES
  Finishes
  CacheIsStore
CHECK_DEADLOCK FALSE
