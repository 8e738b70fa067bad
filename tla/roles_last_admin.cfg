CONSTANTS
  Admins = {a1, a2}
  Requests = {s1, s2}
  None = None
  MayFail = FALSE
SPECIFICATION FreeSpec
CHECK_DEADLOCK FALSE
SYMMETRY Symmetry
INVARIANT SuperAdminRemains
