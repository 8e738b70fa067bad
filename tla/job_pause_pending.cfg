CONSTANTS
  Jobs = {j1}
  Requests = {s1}
  None = None
  MayFail = FALSE
  MaxRacingJobs = 1
SPECIFICATION MCSpec
CHECK_DEADLOCK FALSE
INVARIANTS ApprovedBeforeShown
