CONSTANTS
  j1 = j1
  j2 = j2
  j3 = j3
  j4 = j4
  Jobs = {j1, j2, j3, j4}
  Process <- MCProcess
  CommandsOf <- MCCommandsOf
  Initial = 3
  Price = 2
  PackageCalls = 2
  HistoryLimit = 1
  MaxKills = 1
SPECIFICATION HomeSpec
INVARIANTS
  FilesAreKept
  TornFilesHaveCause
  OnlyWedgesBlock
CHECK_DEADLOCK FALSE
