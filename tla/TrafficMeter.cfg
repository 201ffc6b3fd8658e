SPECIFICATION Spec
CONSTANTS
  eth0 = eth0
  eth1 = eth1
  tx = tx
  rx = rx
  Ifaces = {eth0, eth1}
  Eth0 = eth0
  Dirs = {tx, rx}
  Tx = tx
  DaysPerMonth = 2
  MonthsPerYear = 2
  MaxCount = 2
  MaxDate = 4
  MaxOld = 1
  MaxFault = 1
  MaxReboot = 1
  MaxSwitch = 2
INVARIANTS TypeOK NeverOvercounts ReportsNeverDrop
CHECK_DEADLOCK FALSE
