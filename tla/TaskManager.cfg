SPECIFICATION FairSpec
CONSTANTS
  MaxLevel = 2
  DefaultLevel = 1
  MaxTasks = 4
  Messages = {m1}
  ExitCodes = {ok}
  NoCode = NoCode
  MaxMessages = 1
  WakeLevels <- AllLevels
INVARIANTS
  TypeOK
  RunQueuesOK
  NoDanglingTask
  WaiterNotLost
  ExitCodeKept
PROPERTIES
  SwitchesToHighest
  EveryoneRuns
  WaitFinishEnds
