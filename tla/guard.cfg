CONSTANTS
  Requests = {r1, r2}
  Accounts = {a1}
  Networks = {n1}
  Clients = {u1}
  Sessions = {s1, s2}
  AccountThreshold = 2
  NetworkThreshold = 3
  Timeouts = {1, 3}
  MaxAge = 4
  MaxCount = 4
  None = None
  Operators = {o1, o2}
  Traces = {p1, p2, p3}
  MaxExports = 2
  MaxTroubles = 1
  MaxChanges = 1
SPECIFICATION MCSpec
CHECK_DEADLOCK FALSE
SYMMETRY Symmetry
INVARIANTS AllTyped SteadyGuessesBounded SteadyCountersDie LastTraceKeptOrMissed SteadyOneExportOnePurge
PROPERTIES SteadyActiveKept
