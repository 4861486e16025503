SPECIFICATION Spec
CONSTANTS
  n1 = n1
  n2 = n2
  c1 = c1
  c2 = c2
  s1 = s1
  e1 = e1
  e2 = e2
  p = p
  User = {u1, u2}
  Node = {n1, n2}
  Container = {c1, c2}
  Service = {s1}
  EnvironmentOf <- MCEnvironmentOf
  NodeOf <- MCNodeOf
  ProjectOf <- MCProjectOf
  Offer <- MCOffer
  Edit = {t1, t2}
  MaxChanges = 3
  None = None
SYMMETRY Symmetry
INVARIANTS
  TypeOK
  DelegationBounded
  NoLostUpdate
PROPERTIES
  Confined
CHECK_DEADLOCK FALSE
