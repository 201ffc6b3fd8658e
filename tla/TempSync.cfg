SPECIFICATION FairSpec
CONSTANTS
  t1 = t1
  t2 = t2
  s1 = s1
  s2 = s2
  Temp = {t1, t2}
  Syncs = {s1, s2}
  MaxVersion = 4
  MaxFault = 2
  MaxRestart = 2
  MaxStop = 1
INVARIANTS TypeOK CacheIsInXray
PROPERTIES ListsConverge
CHECK_DEADLOCK FALSE
