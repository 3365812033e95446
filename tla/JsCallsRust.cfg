SPECIFICATION Spec
CONSTANTS
  A = A
  B = B
  Ends <- BothEnds
  JsEnds <- OnlyA
  JsClients <- OnlyA
  Clients <- NoEnd
  Servers <- OnlyB
  MaxCalls = 2
  MaxItems = 1
  Methods = {"notify", "value_async", "stream"}
  Faults = {"encode", "decode", "throw", "close", "fail"}
INVARIANTS
  JsTypeOK
  NoCallVanishes
  PromisesMatchMaps
  ItemsArriveWhole
  DoneIsComplete
