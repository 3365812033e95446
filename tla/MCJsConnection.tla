--------------------------- MODULE MCJsConnection ---------------------------
(* TLC instances of JsConnection: A is a JavaScript endpoint.              *)
EXTENDS JsInv, TLC

CONSTANTS A, B
BothEnds == {A, B}
OnlyA == {A}
OnlyB == {B}
NoEnd == {}
=============================================================================
