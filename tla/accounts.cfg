SPECIFICATION Spec
CONSTANTS
  User = {u1, u2}
  Person = {boot, p2, p3}
  Bootstrap = boot
  State = {s1}
  Login = {l1, l2}
  Process = {w1, w2}
  Edit = {t1, t2}
  Event = {e1}
  MaxSessions = 1
  MaxBusy = 2
  None = None
SYMMETRY Symmetry
INVARIANTS
  TypeOK
  SessionCap
  OneSessionPerState
  SessionsCurrent
  AdminRemains
  AppliedOnce
CHECK_DEADLOCK FALSE
