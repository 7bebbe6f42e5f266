SPECIFICATION Spec
CONSTANTS
  Thread = {t1, t2, t3, t4}
  Sem = {s}
  Lock = {l1, l2, l3}
  CV = {c}
  Nobody = Nobody
  Initial = 1
  MaxCount = 2
SYMMETRY Alike
CHECK_DEADLOCK FALSE
INVARIANTS
  NoLostWakeup
  DeadlocksExact
PROPERTIES
  ImplementsMonitor
