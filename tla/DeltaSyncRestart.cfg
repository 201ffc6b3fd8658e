SPECIFICATION FairSpec
CONSTANTS
  u1 = u1
  u2 = u2
  Users = {u1}
  Active0 = {u1}
  Live0 = {u1}
  Cursor0 = 1
  MaxTime = 4
  MaxChange = 0
  MaxFault = 0
  MaxCrash = 0
  MaxRestart = 1
PROPERTIES RoundsRestoreUsers
CHECK_DEADLOCK FALSE
