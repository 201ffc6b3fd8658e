SPECIFICATION Spec
CONSTANTS
  p1 = p1
  p2 = p2
  u0 = u0
  u1 = u1
  Callers = {p1, p2}
  Users = {u0, u1}
  Protected = u0
  Requests <- MCRequests
  Inbounds = 2
  MaxClients = 2
  MaxCrash = 1
SYMMETRY MCSymmetry
INVARIANTS TypeOK CachedIsTheOpenOne FailedClientLeavesCache
PROPERTIES OnlyFailedClientsDropped KeepsPromise
CHECK_DEADLOCK FALSE
