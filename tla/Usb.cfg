SPECIFICATION UsbSpec
CONSTANTS
  NumPorts = 2
  CommandRing = 4
  EventRing = 6
  TransferRing = 8
  MaxReplugs = 0
  DeviceTable = 6
  Spaces <- MCSpaces
  Capabilities <- MCCapabilities
  PoolBase = 72
  Configuration <- MCConfiguration
  Speed <- MCSpeed
  MaxPacket <- MCMaxPacket
  ReportsAt <- MCReportsAt
  Inputs = {1}
  MaxInputs = 2
  MaxFailures = 1
INVARIANTS
  RequestsMatch
  PoolOK
  FindsTheController
  RunsAsSetUp
  EveryDeviceWorks
CHECK_DEADLOCK FALSE
