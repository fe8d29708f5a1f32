SPECIFICATION SerialSpec
CONSTANTS
  Callers = {c1, c2}
  Sizes = {1, 2, 3}
  FrameCount = 9
  HeapFrames = 2
  MaxDescriptors = 2
  MapBuffer = 5
  Segments <- MCSegments
  KernelFile = 1
  Volumes = {1, 3}
  MaxVolume = 2
  MaxChanges = 1
SYMMETRY CallerSymmetry
INVARIANTS
  FreeIsAvailable
  Exclusive
  BitmapTrue
  FirstFit
CHECK_DEADLOCK FALSE
