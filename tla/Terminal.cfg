SPECIFICATION FairSpec
CONSTANTS
  DataSize = 2
  WriteSizes = {1, 3}
  ReadSizes = {1, 3}
  MaxBytes = 4
  MaxKeys = 1
  Rows = 2
  Columns = 4
  LineMax = 5
  HistoryLen = 2
  Words = {"app", "none", "code", "clear", ">", "|"}
  Prints <- MCPrints
  ExitCodes = {0, 1}
  MaxTyped = 6
  MaxBefore = 2
  MaxAfter = 1
  MaxAhead = 1
  MaxPrints = 1
INVARIANTS
  StrayOnlyIfLeftEarly
PROPERTIES
  IsByteStream
  IsCommandLine
  PipelineEnds
CHECK_DEADLOCK FALSE
