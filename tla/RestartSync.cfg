SPECIFICATION FairSpec
CONSTANTS
  w1 = w1
  w2 = w2
  u1 = u1
  u2 = u2
  t1 = t1
  Workers = {w1, w2}
  Users = {u1, u2}
  Temp = {t1}
  Registered0 = {u1}
  RefreshEvery = 2
  MaxFault = 2
  MaxUpdate = 1
  AgentStops = TRUE
  MaxChange = 1
INVARIANTS TypeOK FlagGuardsWatchdogSync
PROPERTIES PendingSyncHeals FlagClears
CHECK_DEADLOCK FALSE
