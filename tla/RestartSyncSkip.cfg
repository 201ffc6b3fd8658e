SPECIFICATION FairSpec
CONSTANTS
  w1 = w1
  w2 = w2
  u1 = u1
  u2 = u2
  t1 = t1
  Workers = {w1, w2}
  Users = {u1}
  Temp = {t1}
  Registered0 = {u1}
  RefreshEvery = 2
  MaxFault = 3
  MaxUpdate = 0
  AgentStops = FALSE
  MaxChange = 0
PROPERTIES RestartReinjects
CHECK_DEADLOCK FALSE
