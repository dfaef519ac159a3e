SPECIFICATION ProgramSpec
CONSTANTS
  NumDocs = 5
  Levels = {1, 2, 3}
  Queries <- MCQueries
  Infos <- MCInfos
  Scale = 12
  DocTables <- MCDocTables
  Settings <- MCSettings
  Answers <- MCAnswers
  DocBytes <- MCDocBytes
  Matching = {1, 3}
  MaxDepth = 3
  MaxStreams = 4
  MaxCommands = 3
INVARIANTS
  AccumulatorsWhole
  WeightsAreCosine BestReturned
  ParametersHold StreamsClosed BuffersHold
CHECK_DEADLOCK FALSE
