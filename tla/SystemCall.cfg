SPECIFICATION Spec
CONSTANTS
  Shells <- MCShells
  Codes = {3}
  MaxCalls = 1
  MaxApps = 2
INVARIANT InItsMode
PROPERTY RunsAsCalled
CHECK_DEADLOCK FALSE
