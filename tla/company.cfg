CONSTANTS
  Founder = founder
  Colleagues = {c1}
  Links = {l1, l2}
  Docs = {d1}
  Requests = {s1, s2}
  None = None
  MayFail = TRUE
  MaxRacing = 1
  Accounts = {a1, a2, a3}
  Tokens = {t1, t2}
SPECIFICATION MCSpec
CHECK_DEADLOCK FALSE
SYMMETRY Symmetry
INVARIANTS AllTyped ApprovalWasDecided SerialNobodyLeftBehind SerialLinkSingleUse ReliableInvitationOpensOnce ReliableCompaniesHaveFounders
PROPERTIES VerifiedBeforeSpent
