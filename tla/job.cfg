CONSTANTS
  Jobs = {j1, j2}
  Requests = {s1, s2}
  None = None
  MayFail = TRUE
  MaxRacingJobs = 1
SPECIFICATION MCSpec
CHECK_DEADLOCK FALSE
SYMMETRY Symmetry
INVARIANTS GrantedBeforeShown ReliableShownIsOnRecord BarredStaysOff
