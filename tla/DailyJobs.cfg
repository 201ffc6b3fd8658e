SPECIFICATION DailySpec
CONSTANTS
  update = update
  clear = clear
  Jobs = {update, clear}
  Hour <- MCHour
  LastPart <- MCLastPart
  Minute = 2
  Day = 4
  MaxTime = 11
  MaxSets = 2
  MaxStops = 2
INVARIANTS DailyTypeOK OnceADay WakesAtItsHour
CHECK_DEADLOCK FALSE
