SPECIFICATION Spec
CONSTANTS
  uplink = uplink
  downlink = downlink
  Counters = {uplink, downlink}
  Attempts = 1
  Width = 8
  MaxByte = 1
  MaxIdle = 2
  MaxFault = 2
  MaxStop = 1
INVARIANTS TypeOK NeverCountedTwice LostOnlyByFault CpuIsShare
PROPERTIES EverythingArrives
CHECK_DEADLOCK FALSE
