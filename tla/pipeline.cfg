CONSTANTS
  AppIds = {a1, a2, a3}
  LetterFiles = {f1}
  CandidateRequests = {c1, c2}
  RecruiterRequests = {r1, r2}
  None = None
  MaxHistory = 5
  MaxInterviews = 2
  MaxShort = 3
SPECIFICATION MCSpec
SYMMETRY Symmetry
CHECK_DEADLOCK FALSE
INVARIANTS HistoryTracksStatus HiredWasConsidered ApplicationsBounded
PROPERTIES SerialHiringProcess
