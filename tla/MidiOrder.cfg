SPECIFICATION Spec
CONSTANTS
  NormalCapacity = 2
  RealtimeCapacity = 2
  MaxPackets = 4
INVARIANT DrainsBySequence
CHECK_DEADLOCK FALSE
