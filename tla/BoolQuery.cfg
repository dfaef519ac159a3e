SPECIFICATION MCSpec
CONSTANTS
  Lists <- MCLists
  Terms = {1, 2, 3}
  Postings <- MCPostings
  Real <- MCReal
  Queries <- MCQueries
  ItersLimit = 12
  Unlimited = Unlimited
  MaxDocs = {2, Unlimited}
  NumDocs = 6
  InvfLevel = 2
  PostingLists <- MCPostingLists
  SkipModes <- MCSkipModes
  CandidateLists <- MCCandidateLists
  Garbage = {0}
INVARIANTS
  MeaningKept StepsHold AnsweredRight
  UnreadIntact ResultRight ResultOrdered
  RebuildReadsBack AnswerIsRight
PROPERTY Terminates
CHECK_DEADLOCK FALSE
