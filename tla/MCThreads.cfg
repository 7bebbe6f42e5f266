SPECIFICATION FairSpec
CONSTANTS
  Thread = {t1, t2, t3}
  WChan = {w}
  NCPU = 2
  Null = Null
INVARIANTS
  ThreadsKept
  StacksExclusive
PROPERTIES
  IdleEnds
