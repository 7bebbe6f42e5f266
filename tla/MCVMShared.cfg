SPECIFICATION Spec
CONSTANTS
  Null = Null
  Proc = {p1, p2}
  AS = {a1, a2, a3}
  Frame = {f1, f2, f3, f4}
  CPU = {c1}
  Page <- MCPage
  Segments <- MCSegments
  StackPages = {"stack"}
  ArgPages = {"stack"}
  hpt_hash <- NoCollision
  TLBSize = 2
SYMMETRY Symmetry
CHECK_DEADLOCK FALSE
INVARIANT SharedIsReadOnly
