SPECIFICATION SMFairSpec
CONSTANTS
  u1 = u1
  k1 = k1
  Users = {u1}
  Keys = {k1}
  Claims <- OneKey
  MaxSessionsPerUser = 2
  Polls = {p1, p2}
  Enders = {e1}
  Terminates = TRUE
  MaxTxs = 1
  MaxCreates = 3
  MaxExpiring = 2
INVARIANTS BoundSessionsOpen SessionCap ListedKeysBound
PROPERTIES StaysCovered AbandonedSessionExpires ClosedSessionReleasesPoll
CHECK_DEADLOCK FALSE
