-------------------------------- MODULE Wire --------------------------------
(***************************************************************************)
(* The messages the two ends of a connection exchange, and the ordered     *)
(* channel towards each of them.                                           *)
(*                                                                         *)
(* channel[e] is everything on its way to end e that the dispatcher of e   *)
(* has not taken yet: the port's own queue, the message events waiting for *)
(* the event loop, and the unbounded queue messages_rx that the listener   *)
(* feeds.  All three are FIFO and lossless once the handshake is over, and *)
(* nothing reads them but the dispatcher, so they are one sequence here.   *)
(*                                                                         *)
(* Message headers are MessageHeader of lib.rs; a payload is reduced to    *)
(* what decides the course of a call: the method a request names and the   *)
(* position of an item in its stream.                                      *)
(***************************************************************************)
EXTENDS Peers

CONSTANTS
  MaxCalls,   \* bound: calls each client makes; it stands for 2^32 or fewer
  MaxItems,   \* bound: items a stream yields
  Methods     \* the shapes of method the service has

(* What `#[web_rpc::service]` distinguishes: MethodOutput, and is_async.   *)
AllMethods == {"notify", "notify_async", "value", "value_async", "stream", "stream_async"}
ValueMethods == {"value", "value_async"}
StreamMethods == {"stream", "stream_async"}
NotifyMethods == {"notify", "notify_async"}

ASSUME BoundsAssumption == MaxCalls \in Nat /\ MaxItems \in Nat
ASSUME MethodsAssumption == Methods \subseteq AllMethods

Seqs == 0 .. MaxCalls - 1
Items == 1 .. MaxItems

RequestMsg(s, m) == [kind |-> "Request", seq |-> s, method |-> m]
AbortMsg(s) == [kind |-> "Abort", seq |-> s]
ResponseMsg(s) == [kind |-> "Response", seq |-> s]
ItemMsg(s, i) == [kind |-> "StreamItem", seq |-> s, item |-> i]
EndMsg(s) == [kind |-> "StreamEnd", seq |-> s]

Message ==
  [kind : {"Request"}, seq : Seqs, method : Methods]
    \cup [kind : {"Abort", "Response", "StreamEnd"}, seq : Seqs]
    \cup [kind : {"StreamItem"}, seq : Seqs, item : Items]

VARIABLE channel

(* post_header and post_message: the port of e delivers to its peer.       *)
Post(e, msg) == channel' = [channel EXCEPT ![Peer(e)] = Append(@, msg)]
=============================================================================
