\* What the client already has is not sent once more.
CONSTANTS
  Requests <- MCRequests
  MaxChunk = 2
  Holdback = 2
  ThoughtHoldback = 1
  HeadLeast = 1
  TailLeast = 1
  Compared = 2
CHECK_DEADLOCK FALSE
SPECIFICATION Spec
INVARIANT SentOnce
