SPECIFICATION FairSpec
CONSTANTS
  MaxLevel = 3
  DefaultLevel = 1
  MaxTasks = 3
  MaxKeys = 2
  MaxExpiries = 2
INVARIANTS
  NoLostWakeup
  IdleInterruptible
  NothingLost
PROPERTIES
  KeysTakeEffect
