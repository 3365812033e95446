SPECIFICATION FairSpec
CONSTANTS
  A = A
  B = B
  Ends <- BothEnds
  MaxData = 2
  MaxNulls = 2
INVARIANTS
  DataFindsListener
  OrderInvariant
  ArrivesInOrder
PROPERTIES
  ImplementsLink
  BothBecomeReady
  DataArrives
