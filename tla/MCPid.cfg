SPECIFICATION FairSpec
CONSTANTS
  Proc = {k, p1, p2, p3}
  kproc = k
  Status = {ok, bad}
  PROCS_MAX = 4
  PID_MAX = 5
CHECK_DEADLOCK FALSE
INVARIANTS
  PidTableSound
PROPERTIES
  Refines
  WaitEnds
