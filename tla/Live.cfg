SPECIFICATION ServedSpec
CONSTANTS
  A = A
  B = B
  Ends <- BothEnds
  Clients <- OnlyA
  Servers <- OnlyB
  MaxCalls = 2
  MaxItems = 1
  Methods = {"value_async", "stream"}
INVARIANTS
  SInv
PROPERTIES
  ImplementsRpc
  RequestsAnswered
  StreamsEnd
