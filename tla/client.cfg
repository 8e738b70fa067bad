CONSTANTS
  Accounts = {a1}
  Serials = {1, 2, 3, 4}
  Tells = {t1}
  Calls = {c1, c2}
  NoAccount = NoAccount
  NoGrant = NoGrant
  MaxBusy = 2
SPECIFICATION MCSpec
CHECK_DEADLOCK FALSE
INVARIANTS OrderlyTabAgrees
PROPERTIES OrderlySessionSurvives EveryCallSettles
