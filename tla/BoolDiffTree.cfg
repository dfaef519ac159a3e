SPECIFICATION MCSpec
CONSTANTS
  Lists = {}
  Terms = {1, 2, 3}
  Postings <- MCPostings
  Real <- MCReal
  Queries <- MCQueries
  ItersLimit = 12
  Unlimited = Unlimited
  MaxDocs = {2, Unlimited}
  NumDocs = 6
  InvfLevel = 2
  PostingLists = {}
  SkipModes <- MCOneSkip
  CandidateLists = {}
  Garbage = {0}
INVARIANT DiffTreeReachesAll
CHECK_DEADLOCK FALSE
