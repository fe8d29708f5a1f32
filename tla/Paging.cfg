SPECIFICATION Spec
CONSTANTS
  Task = {t1, t2}
  Program = {p}
  NFrames = 13
  Held = {0}
  Levels = 2
  Fanout = 3
  ProgramPages = 2
  StackPages = 0
  FilePages = 2
  MaxDemand = 1
  MaxRuns = 2
  MaxEvents = 2
INVARIANTS
  FramesOwned
PROPERTIES
  IsAddressSpace
SYMMETRY Symmetry
CHECK_DEADLOCK FALSE
