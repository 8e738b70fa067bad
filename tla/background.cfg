CONSTANTS
  Jobs = {1, 2}
  Candidates = {c1}
  Attempts = 2
  MaxStalled = 1
  None = None
  MaxTroubles = 2
  MaxChanges = 1
  Admins = {a1}
  Supporters = {s1}
  Matching = {m1, m2}
  Owner = owner
  MaxMatched = 1
  Occurrences = {1, 2}
SPECIFICATION MCSpec
CHECK_DEADLOCK FALSE
INVARIANTS TypeOK SteadyFailureOnRecord SteadyRejectedNotResent DigestReachesAll
  EventsTyped ToldEachTime ReliableRecordKept
PROPERTIES SteadyJobsSettle EveryHandlerSettles
