SPECIFICATION EnvSpec
CONSTANTS
  host = host  proto = proto  node = node  dsn = dsn  tier = tier  v0 = v0  v1 = v1
  Subs = {host, proto}
  Keys = {node, dsn}
  Mapped = {node}
  Tier = tier
  Values = {v0, v1}
  Value0 = v0
  Requests <- MCRequests
  MaxCommand = 3
  MaxFault = 1
  MaxCrash = 1
CHECK_DEADLOCK FALSE
INVARIANTS EnvTypeOK FilesWhole AckedStays FilesAgree
PROPERTIES ConfigTakesEffect
