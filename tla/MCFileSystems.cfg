SPECIFICATION Spec
CONSTANTS
  Proc = {p1, p2}
  First = p1
  File = {f1, f2}
  Thread = {t1, t2, t3}
  Name = {a, b}
  Null = Null
SYMMETRY Alike
INVARIANTS
  OpenFilesExact
  SemaphoresKept
  VnodesSound
  NamesMean
CHECK_DEADLOCK FALSE
