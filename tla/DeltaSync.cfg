SPECIFICATION FairSpec
CONSTANTS
  u1 = u1
  u2 = u2
  Users = {u1, u2}
  Active0 = {u1}
  Live0 = {u1}
  Cursor0 = 1
  MaxTime = 6
  MaxChange = 2
  MaxFault = 1
  MaxCrash = 1
  MaxRestart = 1
INVARIANTS TypeOK CursorCoversChanges
PROPERTIES RoundsConverge
CHECK_DEADLOCK FALSE
