CONSTANTS
  Grants = {g1, g2, g3}
  ResetTokens = {t1, t2}
  Requests = {s1, s2}
  None = None
  MaxPasswords = 2
  MayFail = TRUE
SPECIFICATION MCSpec
CHECK_DEADLOCK FALSE
SYMMETRY Symmetry
INVARIANTS ReliableResetSingleUse ReliableSuspendedLoggedOut
PROPERTIES TokensNeverRevive BarredAccountsDwindle SerialSessionLedger
