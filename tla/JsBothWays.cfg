SPECIFICATION FairSpec
CONSTANTS
  A = A
  B = B
  Ends <- BothEnds
  JsEnds <- OnlyA
  JsClients <- OnlyA
  Clients <- OnlyB
  Servers <- OnlyB
  MaxCalls = 1
  MaxItems = 1
  Methods = {"notify", "value", "stream"}
  Faults = {"decode", "throw", "close"}
INVARIANTS
  AbandonedIsSilent
PROPERTIES
  ImplementsRpc
  PromisesSettle
  RustCallsEnd
