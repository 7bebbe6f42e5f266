CONSTANTS
  NFrames = 7
  KernelFrames = 1
  PageTableFrames = 1
  FrameTableFrames = 1
  MaxRequest = 2
  MaxRef = 2
  Caller = {c1, c2}
SPECIFICATION Spec
CHECK_DEADLOCK FALSE
INVARIANTS
  FreeListSound
  RefsAccounted
