\* A text map leaves chunks behind.
CONSTANTS
  Count = 3
  Concurrency = 2
SPECIFICATION Spec
INVARIANT NothingOutlives
