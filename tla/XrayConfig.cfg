SPECIFICATION Spec
CONSTANTS
  host = host
  proto = proto
  d0 = d0
  d1 = d1
  o0 = o0
  o1 = o1
  v0 = v0
  v1 = v1
  Subs = {host, proto}
  Dests = {d0, d1}
  Others = {o0, o1}
  Versions = {v0, v1}
  Version0 = v0
  Dest0 = d0
  Other0 = o0
  MaxCommand = 3
  MaxFault = 1
  MaxCrash = 1
SYMMETRY MCSymmetry
INVARIANTS TypeOK OkMeansServed AloneIsAtomic BinaryIsWhole
CHECK_DEADLOCK FALSE
