SPECIFICATION Spec
CONSTANTS
  A = A
  B = B
  Ends <- BothEnds
  JsEnds <- OnlyA
  JsClients <- NoEnd
  Clients <- OnlyB
  Servers <- NoEnd
  MaxCalls = 2
  MaxItems = 2
  Methods = {"notify", "value", "stream"}
  Faults = {"encode", "decode", "throw"}
INVARIANTS
  JsSInv
  ItemsArriveWhole
  AbortsTakeEffect
PROPERTIES
  ImplementsRpc
