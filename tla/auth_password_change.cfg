CONSTANTS
  Grants = {g1, g2, g3}
  ResetTokens = {t1, t2}
  Requests = {s1}
  None = None
  MaxPasswords = 2
  MayFail = FALSE
SPECIFICATION Spec
CHECK_DEADLOCK FALSE
INVARIANT OldPasswordsRetired
