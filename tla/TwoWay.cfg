SPECIFICATION FairSpec
CONSTANTS
  A = A
  B = B
  Ends <- BothEnds
  Clients <- BothEnds
  Servers <- BothEnds
  MaxCalls = 1
  MaxItems = 1
  Methods = {"notify", "value", "value_async", "stream_async"}
INVARIANTS
  IInv
PROPERTIES
  SignalledStops
