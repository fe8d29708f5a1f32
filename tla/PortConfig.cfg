SPECIFICATION FairSpec
CONSTANTS
  NumPorts = 3
  CommandRing = 5
  EventRing = 7
  MaxReplugs = 2
INVARIANTS
  AddressedInTurn
PROPERTIES
  EveryDeviceConfigured
CHECK_DEADLOCK FALSE
