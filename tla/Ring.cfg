SPECIFICATION Spec
CONSTANTS
  Capacity = 4
  Spans = {1, 3, 5}
  Last = 9
  Blank = Blank
INVARIANT NoSlotIsShared
PROPERTIES ImplementsFifo FillNeverOverstated
CHECK_DEADLOCK FALSE
