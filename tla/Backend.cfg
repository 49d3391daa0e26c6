\* Shutdown and cancellation at any moment, the queue full at every second response.
CONSTANTS
  r1 = r1 r2 = r2
  Requests <- MCRequests
  MaxQueue = 1
CHECK_DEADLOCK FALSE
SPECIFICATION RunningSpec
INVARIANTS CountIsOngoing AnsweredBeforeStop FinalIsLast
PROPERTIES FinalizeEnds CancelEnds
