----------------------------- MODULE MCHandshake ----------------------------
(* Handshake between two ends A and B, of either kind.                     *)
EXTENDS HandshakeInv, TLC

CONSTANTS A, B

BothEnds == {A, B}
=============================================================================
