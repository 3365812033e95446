SPECIFICATION Spec
CONSTANTS
  GroupBits = 2
  Bits <- SmallBits
  Utf8 <- TwoLetters
  NamedTypes <- Types
  StdNames <- Generics
  MAX_DECLARATIONS = 3
  EQUALITY_DEPTH = 32
  Schema <- Itself
  JsName <- Classes
  Inputs <- Projects
  Values <- Tried
INVARIANTS
  CallsArrive
  EchoReturns
  EncodersAgree
  SeenAsDeclared
  NamesDenote
  HandlersSuffice
CHECK_DEADLOCK FALSE
