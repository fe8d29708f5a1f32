SPECIFICATION ClockSpec
CONSTANTS
  Apps = {app1, app2}
  MainTask = main
  Period = 2
  Half = 2
  Delays = {0, 3}
  MaxTick = 5
  MaxTimers = 5
  Firmwares <- MCFirmwares
  OldLength = 2
  HeaderSize = 36
  Narrow = 8
  Wide = 16
  WaitTicks = 4
  Tenths = 2
  TimerFreq = 4
  Rate = 3
  CountMax = 60
  MaxPoll = 2
  MaxTime = 30
SYMMETRY AppSymmetry
INVARIANTS
  ExpiresOnceOnTime
  CursorKeepsRhythm
  TickIsCentisecond
CHECK_DEADLOCK FALSE
