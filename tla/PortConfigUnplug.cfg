SPECIFICATION FairSpec
CONSTANTS
  NumPorts = 3
  CommandRing = 5
  EventRing = 7
  MaxReplugs = 1
PROPERTIES
  WaitingPortServed
CHECK_DEADLOCK FALSE
