SPECIFICATION Spec
CONSTANTS
  A = A
  B = B
  Ends <- BothEnds
  MaxData = 2
  MaxNulls = 2
INVARIANTS
  QueuedSendsArePosted
