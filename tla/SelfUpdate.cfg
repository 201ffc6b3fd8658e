SPECIFICATION FairSpec
CONSTANTS
  daily = daily
  command = command
  Callers = {daily, command}
  Page = 2
  Mislabelled = {3}
  MaxRelease = 5
  MaxFault = 3
  MaxCrash = 2
INVARIANTS TypeOK InstalledIsRelease
PROPERTIES KeepsUpgrading Settles UpdatesCease
CHECK_DEADLOCK FALSE
