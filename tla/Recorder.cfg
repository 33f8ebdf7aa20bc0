SPECIFICATION Spec
CONSTANTS
  Capacity = 2
  MaxSessions = 3
  None = None
INVARIANTS BufferIsOwned ReportMatchesFile StopIsFinal
PROPERTY SessionsAreReported
