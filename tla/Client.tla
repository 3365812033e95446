------------------------------- MODULE Client -------------------------------
(***************************************************************************)
(* The client half of an interface (client.rs): the maps that route what   *)
(* comes back, and what the caller holds for each call, a RequestFuture or *)
(* a StreamReceiver.  A call is named by its sequence number.              *)
(*                                                                         *)
(* call[e][s] is the caller's side of call s of end e:                     *)
(*   idle       not made yet                                               *)
(*   notified   a notification: there is nothing to hold                   *)
(*   pending    a RequestFuture whose oneshot is empty                     *)
(*   responded  a RequestFuture whose oneshot is filled but not polled yet *)
(*   done       a RequestFuture that has resolved                          *)
(*   open       a StreamReceiver that can still abort                      *)
(*   closed     a StreamReceiver after close()                             *)
(*   ended      a StreamReceiver that yielded None, never closed           *)
(*   drained    a StreamReceiver that yielded None after close()           *)
(*   dropped    the RequestFuture or StreamReceiver was dropped            *)
(***************************************************************************)
EXTENDS Wire

CONSTANT Clients    \* the ends whose Builder was given a client
ASSUME ClientsAssumption == Clients \subseteq Ends

CallStates ==
  {"idle", "notified", "pending", "responded", "done",
   "open", "closed", "ended", "drained", "dropped"}

VARIABLES
  sequence,         \* State.sequence of each end
  call,             \* what the caller holds for each call
  callbacks,        \* keys of State.callbacks
  streamCallbacks,  \* keys of State.stream_callbacks
  buffer,           \* items in the mpsc channel of each StreamReceiver
  received          \* items each StreamReceiver has yielded

clientVars == <<sequence, call, callbacks, streamCallbacks, buffer, received>>

ClientTypeOK ==
  /\ sequence \in [Ends -> 0 .. MaxCalls]
  /\ call \in [Ends -> [Seqs -> CallStates]]
  /\ callbacks \in [Ends -> SUBSET Seqs]
  /\ streamCallbacks \in [Ends -> SUBSET Seqs]
  /\ buffer \in [Ends -> [Seqs -> Seq(Items)]]
  /\ received \in [Ends -> [Seqs -> Seq(Items)]]

ClientInit ==
  /\ sequence = [e \in Ends |-> 0]
  /\ call = [e \in Ends |-> [s \in Seqs |-> "idle"]]
  /\ callbacks = [e \in Ends |-> {}]
  /\ streamCallbacks = [e \in Ends |-> {}]
  /\ buffer = [e \in Ends |-> [s \in Seqs |-> <<>>]]
  /\ received = [e \in Ends |-> [s \in Seqs |-> <<>>]]

SetCall(e, s, status) == call' = [call EXCEPT ![e][s] = status]

(* State::send.  The counter wraps at 2^32; MaxCalls keeps below that.     *)
Send(e, m) ==
  /\ e \in Clients
  /\ sequence[e] < MaxCalls
  /\ sequence' = [sequence EXCEPT ![e] = @ + 1]
  /\ Post(e, RequestMsg(sequence[e], m))

(* A generated notification method: send, and hold nothing.                *)
Notify(e, m) ==
  /\ m \in NotifyMethods
  /\ Send(e, m)
  /\ SetCall(e, sequence[e], "notified")
  /\ UNCHANGED <<callbacks, streamCallbacks, buffer, received>>

(* A generated method with a value: send, then State::request.             *)
Request(e, m) ==
  /\ m \in ValueMethods
  /\ Send(e, m)
  /\ SetCall(e, sequence[e], "pending")
  /\ callbacks' = [callbacks EXCEPT ![e] = @ \cup {sequence[e]}]
  /\ UNCHANGED <<streamCallbacks, buffer, received>>

(* A generated streaming method: send, then State::stream.                 *)
Stream(e, m) ==
  /\ m \in StreamMethods
  /\ Send(e, m)
  /\ SetCall(e, sequence[e], "open")
  /\ streamCallbacks' = [streamCallbacks EXCEPT ![e] = @ \cup {sequence[e]}]
  /\ UNCHANGED <<callbacks, buffer, received>>

(* RequestFuture::poll finds the oneshot filled, and disarms the abort.    *)
PollResponse(e, s) ==
  /\ call[e][s] = "responded"
  /\ SetCall(e, s, "done")
  /\ UNCHANGED <<channel, sequence, callbacks, streamCallbacks, buffer, received>>

(* Mistake: the abort is posted and the callback stays.                    *)
DropRequestLeaky(e, s) ==
  /\ call[e][s] \in {"pending", "responded"}
  /\ SetCall(e, s, "dropped")
  /\ Post(e, AbortMsg(s))
  /\ UNCHANGED <<sequence, callbacks, streamCallbacks, buffer, received>>

(* Mistake: the abort names the client's latest call, not this one.        *)
DropRequestLatest(e, s) ==
  /\ call[e][s] \in {"pending", "responded"}
  /\ SetCall(e, s, "dropped")
  /\ callbacks' = [callbacks EXCEPT ![e] = @ \ {s}]
  /\ Post(e, AbortMsg(sequence[e] - 1))
  /\ UNCHANGED <<sequence, streamCallbacks, buffer, received>>

(* Dropping a RequestFuture that has not resolved fires its AbortOnDrop,   *)
(* even when the response is already in the oneshot.                       *)
DropRequest(e, s) ==
  /\ call[e][s] \in {"pending", "responded"}
  /\ SetCall(e, s, "dropped")
  /\ callbacks' = [callbacks EXCEPT ![e] = @ \ {s}]
  /\ Post(e, AbortMsg(s))
  /\ UNCHANGED <<sequence, streamCallbacks, buffer, received>>

(* Mistake: the latest item is yielded first.                              *)
PollItemLatest(e, s) ==
  /\ call[e][s] \in {"open", "closed"}
  /\ buffer[e][s] # <<>>
  /\ LET last == Len(buffer[e][s]) IN
       /\ buffer' = [buffer EXCEPT ![e][s] = SubSeq(@, 1, last - 1)]
       /\ received' = [received EXCEPT ![e][s] = Append(@, buffer[e][s][last])]
  /\ UNCHANGED <<channel, sequence, call, callbacks, streamCallbacks>>

(* StreamReceiver::poll_next with an item in the channel.                  *)
PollItem(e, s) ==
  /\ call[e][s] \in {"open", "closed"}
  /\ buffer[e][s] # <<>>
  /\ buffer' = [buffer EXCEPT ![e][s] = Tail(@)]
  /\ received' = [received EXCEPT ![e][s] = Append(@, Head(buffer[e][s]))]
  /\ UNCHANGED <<channel, sequence, call, callbacks, streamCallbacks>>

(* Mistake: an empty channel alone is taken for the end.                   *)
PollNoneEarly(e, s) ==
  /\ buffer[e][s] = <<>>
  /\ \/ call[e][s] = "open" /\ SetCall(e, s, "ended")
     \/ call[e][s] = "closed" /\ SetCall(e, s, "drained")
  /\ UNCHANGED <<channel, sequence, callbacks, streamCallbacks, buffer, received>>

(* StreamReceiver::poll_next with the channel drained and its sender gone: *)
(* the stream is over, and the abort is disarmed.                          *)
PollNone(e, s) ==
  /\ buffer[e][s] = <<>>
  /\ s \notin streamCallbacks[e]
  /\ \/ call[e][s] = "open" /\ SetCall(e, s, "ended")
     \/ call[e][s] = "closed" /\ SetCall(e, s, "drained")
  /\ UNCHANGED <<channel, sequence, callbacks, streamCallbacks, buffer, received>>

(* What AbortOnDrop runs for a stream.                                     *)
FireStreamAbort(e, s) ==
  /\ streamCallbacks' = [streamCallbacks EXCEPT ![e] = @ \ {s}]
  /\ Post(e, AbortMsg(s))

(* StreamReceiver::close: fires the abort and keeps the receiver.          *)
Close(e, s) ==
  /\ call[e][s] = "open"
  /\ SetCall(e, s, "closed")
  /\ FireStreamAbort(e, s)
  /\ UNCHANGED <<sequence, callbacks, buffer, received>>

(* Dropping a StreamReceiver: the abort fires unless close() did so.       *)
DropStream(e, s) ==
  /\ SetCall(e, s, "dropped")
  /\ buffer' = [buffer EXCEPT ![e][s] = <<>>]
  /\ \/ call[e][s] = "open" /\ FireStreamAbort(e, s)
     \/ call[e][s] = "closed" /\ UNCHANGED <<streamCallbacks, channel>>
  /\ UNCHANGED <<sequence, callbacks, received>>

(* What the dispatcher does with a Response: fill and forget the oneshot.  *)
(* A response to a call that was dropped finds no callback.                *)
OnResponse(e, s) ==
  /\ callbacks' = [callbacks EXCEPT ![e] = @ \ {s}]
  /\ IF s \in callbacks[e] THEN SetCall(e, s, "responded") ELSE UNCHANGED call
  /\ UNCHANGED <<sequence, streamCallbacks, buffer, received>>

(* Mistake: the channel holds one item, and try_send drops the others.     *)
OnStreamItemBounded(e, s, i) ==
  /\ IF s \in streamCallbacks[e] /\ buffer[e][s] = <<>>
       THEN buffer' = [buffer EXCEPT ![e][s] = <<i>>]
       ELSE UNCHANGED buffer
  /\ UNCHANGED <<sequence, call, callbacks, streamCallbacks, received>>

(* What it does with a StreamItem: push it to the receiver, if still known. *)
OnStreamItem(e, s, i) ==
  /\ IF s \in streamCallbacks[e]
       THEN buffer' = [buffer EXCEPT ![e][s] = Append(@, i)]
       ELSE UNCHANGED buffer
  /\ UNCHANGED <<sequence, call, callbacks, streamCallbacks, received>>

(* What it does with a StreamEnd: drop the sender.                         *)
OnStreamEnd(e, s) ==
  /\ streamCallbacks' = [streamCallbacks EXCEPT ![e] = @ \ {s}]
  /\ UNCHANGED <<sequence, call, callbacks, buffer, received>>

(* A future that polls the dispatcher: a request without its response, or  *)
(* a receiver with nothing to yield.                                       *)
Polling(e, s) ==
  \/ call[e][s] = "pending"
  \/ call[e][s] = "open" /\ buffer[e][s] = <<>> /\ s \in streamCallbacks[e]

(* Everything the holder of one call may do with it.                       *)
CallerStep(e, s) ==
  \/ PollResponse(e, s)
  \/ DropRequest(e, s)
  \/ PollItem(e, s)
  \/ PollNone(e, s)
  \/ Close(e, s)
  \/ DropStream(e, s)
=============================================================================
