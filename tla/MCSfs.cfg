SPECIFICATION Spec
CONSTANTS
  NBLOCKS = 9
  NDIRECT = 1
  DBPERIDB = 2
  BLOCKSIZE = 2
  DIRPERBLOCK = 2
  Letter = {"a", "b"}
  Byte = {7}
  OldByte = 6
  Edges = {1, 4, 6}
  Lengths = {0, 1, 6}
  MaxOpen = 1
  MaxOps = 2
  Faulty = TRUE
  Losing = FALSE
CHECK_DEADLOCK FALSE
INVARIANTS
  VolumeSound
  SyncIsDurable
PROPERTIES
  FilesIsolated
