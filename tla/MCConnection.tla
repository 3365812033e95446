---------------------------- MODULE MCConnection ----------------------------
(* TLC instances of Connection.                                            *)
EXTENDS ConnectionInv, TLC

CONSTANTS A, B
BothEnds == {A, B}
OnlyA == {A}
OnlyB == {B}
=============================================================================
