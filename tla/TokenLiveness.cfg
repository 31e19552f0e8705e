SPECIFICATION FairSpec
CONSTANTS
  u1 = u1
  k1 = k1
  r1 = r1
  r2 = r2
  x1 = x1
  x2 = x2
  Users = {u1}
  Keys = {k1}
  Claims <- OneKey
  MaxSessionsPerUser = 2
  Polls = {p1}
  Enders = {e1}
  Terminates = FALSE
  MaxCreates = 1
  MaxExpiring = 1
  MaxTxs = 1
  Reqs = {r1, r2}
  Callbacks = {c1}
  Resources = {x1}
  NoReq = NoReq
PROPERTIES RequestAnswered 
CHECK_DEADLOCK FALSE
