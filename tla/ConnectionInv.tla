---------------------------- MODULE ConnectionInv ----------------------------
(***************************************************************************)
(* The inductive invariant behind the safety properties of Connection.     *)
(* e is the end a message or an execution is at, and Peer(e) the end whose *)
(* client made the call.                                                   *)
(***************************************************************************)
EXTENDS Connection

(* What a caller can hold for a method of each shape.                      *)
HeldFor(m) ==
  IF m \in NotifyMethods THEN {"notified"}
  ELSE IF m \in ValueMethods THEN {"pending", "responded", "done", "dropped"}
  ELSE {"open", "closed", "ended", "drained", "dropped"}

GivenUp == {"dropped", "closed", "drained"}

(* Calls are numbered from zero, and only clients make them.               *)
Numbering ==
  \A e \in Ends, s \in Seqs :
    /\ call[e][s] # "idle" => s < sequence[e]
    /\ sequence[e] > 0 => e \in Clients

(* What the server of e has for call s before it takes the request.        *)
Untouched(e, s) ==
  execution[e][s] = "none" /\ s \notin running[e] /\ s \notin signalled[e]

(* A request on its way is new to the server and has the caller's shape.   *)
RequestsAreFresh ==
  \A e \in Ends, s \in Seqs, m \in Methods :
    \/ InQueue(RequestMsg(s, m), channel[e])
    \/ InQueue([seq |-> s, method |-> m], requests[e])
    => /\ Untouched(e, s)
       /\ call[Peer(e)][s] \in HeldFor(m)

(* No call is requested twice.                                             *)
DistinctRequests(q) ==
  \A i, j \in DOMAIN q :
    q[i].kind = "Request" /\ q[j].kind = "Request" /\ q[i].seq = q[j].seq => i = j

DistinctCalls(q) == \A i, j \in DOMAIN q : q[i].seq = q[j].seq => i = j

RequestsAreDistinct ==
  \A e \in Ends :
    /\ DistinctRequests(channel[e])
    /\ DistinctCalls(requests[e])
    /\ \A s \in Seqs, m, n \in Methods :
         ~ ( /\ InQueue(RequestMsg(s, m), channel[e])
             /\ InQueue([seq |-> s, method |-> n], requests[e]) )

(* An execution runs the method its caller called.                         *)
ExecutionsMatchCalls ==
  \A e \in Ends, s \in Seqs :
    execution[e][s] # "none" =>
      /\ method[e][s] \in Methods
      /\ call[Peer(e)][s] \in HeldFor(method[e][s])

(* An execution under way is registered until it is signalled, and only a  *)
(* stream that has completed has its end marker in the outbox.             *)
ExecutionsAreRegistered ==
  \A e \in Ends, s \in Seqs :
    /\ execution[e][s] \in {"called", "forwarding"} => s \in running[e] \cup signalled[e]
    /\ execution[e][s] = "forwarding" => method[e][s] \in StreamMethods
    /\ InQueue(Entry(s, None), outbox[e]) =>
         execution[e][s] \in {"finished", "aborted"} /\ method[e][s] \in StreamMethods

(* An abort, wherever it is, was sent by a caller that gave the call up.   *)
AbortsAreSent ==
  \A e \in Ends, s \in Seqs :
    \/ InQueue(AbortMsg(s), channel[e])
    \/ InQueue(s, aborts[e])
    \/ s \in signalled[e]
    => call[Peer(e)][s] \in GivenUp

(* A response on its way is the last thing the server did for its call.    *)
ResponsesAreFinal ==
  \A e \in Ends, s \in Seqs :
    InQueue(ResponseMsg(s), channel[Peer(e)]) =>
      execution[e][s] = "finished" /\ s \notin running[e] /\ s \notin signalled[e]

SignalledAreForgotten == \A e \in Ends : signalled[e] \cap running[e] = {}

(* What holds between two interfaces whatever the dispatchers, the select! *)
(* loops and the callers do, in both directions at once, although both     *)
(* number their calls from zero: no call is lost, the maps of both ends    *)
(* are exact, and whatever is on its way belongs to the call of its own    *)
(* direction.  The conjunction is inductive: every step keeps it.          *)
IInv ==
  /\ TypeOK
  /\ Numbering
  /\ CallbacksMatchCalls
  /\ RequestsAreFresh
  /\ RequestsAreDistinct
  /\ ExecutionsMatchCalls
  /\ ExecutionsAreRegistered
  /\ RunningIsLive
  /\ AbortsAreSent
  /\ ResponsesAreFinal
  /\ SignalledAreForgotten
  /\ NoLostCall

-----------------------------------------------------------------------------
(* The inductive invariant behind the properties of streams, on top of     *)
(* IInv.  Here e is the end that made call s.                              *)

(* A stream has made nothing before its method has returned it.            *)
NothingMadeEarly(e, s) ==
  execution[Peer(e)][s] \in {"none", "called"} =>
    /\ produced[Peer(e)][s] = 0
    /\ ~ HasItem(outbox[Peer(e)], s)
    /\ ~ HasItem(channel[e], s)

(* Nothing of a stream is behind its end, the marker in the outbox or the  *)
(* message in the channel, and nothing in the outbox behind the message.   *)
EndComesLast(e, s) ==
  /\ MarkerIsLast(outbox[Peer(e)], s)
  /\ EndMsgIsLast(channel[e], s)
  /\ EndPosted(e, s) =>
       execution[Peer(e)][s] \in {"finished", "aborted"} /\ ~ HasEntry(outbox[Peer(e)], s)

(* An execution is aborted only after its caller has given the call up.    *)
AbortWasWanted(e, s) == execution[Peer(e)][s] = "aborted" => call[e][s] \in GivenUp

Had(e, s) == received[e][s] \o buffer[e][s]

(* What a call has had so far is a prefix of what was made for it.         *)
HadWasMade(e, s) ==
  /\ \E a \in 0 .. produced[Peer(e)][s] : Had(e, s) = FirstItems(a)
  /\ call[e][s] = "idle" => Had(e, s) = <<>>

(* The rest is on its way, for as long as the client routes it.            *)
RestIsComing(e, s) ==
  s \in streamCallbacks[e] =>
    Unbroken(Had(e, s), channel[e], outbox[Peer(e)], s, produced[Peer(e)][s])

(* A receiver that is still open hears of the end of its stream, and then  *)
(* yields None, only after everything that was made.                       *)
EndIsComplete(e, s) ==
  /\ call[e][s] = "open" /\ s \notin streamCallbacks[e] =>
       Had(e, s) = FirstItems(produced[Peer(e)][s]) /\ execution[Peer(e)][s] = "finished"
  /\ call[e][s] = "ended" =>
       /\ received[e][s] = FirstItems(produced[Peer(e)][s])
       /\ execution[Peer(e)][s] = "finished"

(* A response that has arrived was the last act of the execution.          *)
ResponseIsComplete(e, s) == call[e][s] = "responded" => execution[Peer(e)][s] = "finished"

StreamOK(e, s) ==
  /\ NothingMadeEarly(e, s)
  /\ EndComesLast(e, s)
  /\ AbortWasWanted(e, s)
  /\ HadWasMade(e, s)
  /\ RestIsComing(e, s)
  /\ EndIsComplete(e, s)
  /\ ResponseIsComplete(e, s)

StreamsOK == \A e \in Ends, s \in Seqs : StreamOK(e, s)

(* The conjunction is inductive.                                           *)
SInv == IInv /\ StreamsOK
=============================================================================
