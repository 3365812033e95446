-------------------------------- MODULE Peers -------------------------------
(***************************************************************************)
(* The two ends of a connection, and the queues between them.              *)
(***************************************************************************)
EXTENDS Naturals, Sequences

CONSTANT Ends    \* the two interfaces of the connection
ASSUME EndsAssumption == \E a, b \in Ends : a # b /\ Ends = {a, b}

Peer(e) == CHOOSE f \in Ends : f # e

(* The messages in a queue, whatever their order.                          *)
InQueue(x, q) == \E i \in DOMAIN q : q[i] = x
=============================================================================
