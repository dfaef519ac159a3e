SPECIFICATION MCSpec
CONSTANTS
  Lists = {}
  Terms = {1, 2, 3}
  Postings <- MCPostings
  Real <- MCReal
  Queries = {}
  ItersLimit = 12
  Unlimited = Unlimited
  MaxDocs = {2, Unlimited}
  NumDocs = 6
  InvfLevel = 1
  PostingLists <- MCPostingLists
  SkipModes <- MCOneSkip
  CandidateLists <- MCCandidateLists
  Garbage = {0, 1}
INVARIANTS SkipsLandOnBlocks
CHECK_DEADLOCK FALSE
