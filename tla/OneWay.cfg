SPECIFICATION Spec
CONSTANTS
  A = A
  B = B
  Ends <- BothEnds
  Clients <- OnlyA
  Servers <- OnlyB
  MaxCalls = 2
  MaxItems = 2
  Methods = {"value_async", "stream_async"}
INVARIANTS
  TypeOK
  NoLostCall
  CallbacksMatchCalls
  RunningIsLive
  AbortsAreWanted
  AbortedIsSilent
  StreamIntegrity
  EndedIsComplete
  ReceivedIsPrefix
