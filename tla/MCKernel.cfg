SPECIFICATION Spec
CONSTANTS
  Null = Null
  NTHREADS = 3
  NLOCKLOOPS = 1
  NCVLOOPS = 2
  NLOOPS = 2
  NCVS = 2
  NWAITCHANS = 2
  SLEEPALOT_ITERS = 2
  UINT_MAX = 7
INVARIANTS
  SynchTestsPass
  ExecExact
  KernelHeapExact
  UioExact
  ContainersExact
PROPERTY
  TestsAndExecsEnd
CHECK_DEADLOCK FALSE
