CONSTANTS
  Admins = {a1, a2}
  Requests = {s1, s2}
  None = None
  MayFail = TRUE
SPECIFICATION MCSpec
CHECK_DEADLOCK FALSE
SYMMETRY Symmetry
INVARIANTS SerialSuperAdminRemains
PROPERTIES ReliableWritesPermitted
