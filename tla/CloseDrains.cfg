SPECIFICATION Spec
CONSTANTS
  A = A
  B = B
  Ends <- BothEnds
  Clients <- OnlyA
  Servers <- OnlyB
  MaxCalls = 1
  MaxItems = 1
  Methods = {"value_async", "stream"}
PROPERTIES
  CloseDrains
