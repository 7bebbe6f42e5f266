SPECIFICATION Spec
CONSTANTS
  Null = Null
  Proc = {p1, p2}
  AS = {a1, a2, a3}
  Frame = {f1, f2, f3}
  CPU = {c1, c2}
  Page <- SmallPage
  Segments <- SmallSegments
  StackPages = {"stack"}
  ArgPages = {"stack"}
  hpt_hash <- SmallNoCollision
  TLBSize = 2
SYMMETRY Symmetry
CHECK_DEADLOCK FALSE
INVARIANTS
  RefCountsExact
  AddressSpacesSound
  TLBSound
