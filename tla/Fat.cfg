SPECIFICATION Spec
CONSTANTS
  Fd = {f1, f2}
  LastCluster = 9
  BytesPerCluster = 2
  EntriesPerCluster = 2
  BaseLen = 1
  ExtLen = 1
  MaxPut = 2
  MaxLen = 2
  LineLen = 3
  PageBytes = 3
  DeletedEntry <- MCDeletedEntry
  MaxSize = 2
  MaxRead = 6
  Path <- MCPath
  Input <- MCInput
INVARIANTS
  VolumeOK
PROPERTY
  IsFileSystem
SYMMETRY Symmetry
VIEW View
