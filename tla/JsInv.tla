------------------------------- MODULE JsInv --------------------------------
(***************************************************************************)
(* The inductive invariant behind the safety properties of JsConnection.   *)
(* It is stated call by call: e is the end that made call s, of either     *)
(* kind, and Peer(e) the end that serves it, of either kind.               *)
(***************************************************************************)
EXTENDS JsConnection

(* Each end has the state of its own kind only.                            *)
NoRustState(e) ==
  /\ callbacks[e] = {} /\ streamCallbacks[e] = {}
  /\ requests[e] = <<>> /\ aborts[e] = <<>> /\ outbox[e] = <<>>
  /\ running[e] = {} /\ signalled[e] = {}
  /\ \A s \in Seqs : call[e][s] = "idle" /\ execution[e][s] = "none"

NoJsState(e) ==
  /\ pendingRequests[e] = {} /\ openStreams[e] = {} /\ stopped[e] = {}
  /\ inflightRequests[e] = {} /\ runningIterators[e] = {}
  /\ \A s \in Seqs : promise[e][s] = "idle" /\ handling[e][s] = "none"

OwnKind(e) == IF e \in JsEnds THEN NoRustState(e) ELSE NoJsState(e)

(* What a caller of each kind can have in hand for a method of each shape. *)
HeldFor(m) ==
  IF m \in NotifyMethods THEN {"notified"}
  ELSE IF m \in ValueMethods THEN {"pending", "responded", "done", "dropped"}
  ELSE {"open", "closed", "ended", "drained", "dropped"}

PromisedFor(m) ==
  IF m \in NotifyMethods THEN {"notified"}
  ELSE IF m \in ValueMethods THEN {"pending", "settled", "aborted", "rejected"}
  ELSE {"open", "ending", "closing", "done", "closed", "failed"}

Holds(e, s, m) ==
  IF e \in JsEnds THEN promise[e][s] \in PromisedFor(m) ELSE call[e][s] \in HeldFor(m)

Unmade(e, s) == call[e][s] = "idle" /\ promise[e][s] = "idle"

(* Calls are numbered from zero.                                           *)
Numbered(e, s) ==
  /\ call[e][s] # "idle" => s < sequence[e]
  /\ promise[e][s] # "idle" => s < nextSequence[e]

(* The maps of a caller, of either kind, know the calls it waits for; and  *)
(* nothing is waited for at an endpoint that was closed or has failed.     *)
MapsMatch(e, s) ==
  /\ s \in callbacks[e] <=> call[e][s] = "pending"
  /\ s \in streamCallbacks[e] => call[e][s] = "open"
  /\ promise[e][s] = "pending" => s \in pendingRequests[e]
  /\ promise[e][s] = "open" => s \in openStreams[e]
  /\ s \in pendingRequests[e] => promise[e][s] \in {"pending", "threw"}
  /\ s \in openStreams[e] => promise[e][s] \in {"open", "threw"}
  /\ s \notin pendingRequests[e] \cap openStreams[e]
  /\ e \in closed \cup failure => promise[e][s] \notin {"pending", "open"}
  /\ s \in stopped[e] => promise[e][s] \in {"open", "ending", "closing", "done", "closed", "failed"}

(* Whoever serves a call has at most one of each trace of it: a value's    *)
(* entry belongs to a handler that runs, an end marker to a stream that    *)
(* has completed.                                                          *)
TracesMatch(e, s) ==
  LET f == Peer(e) IN
    /\ s \in running[f] \cup signalled[f] => execution[f][s] # "none"
    /\ execution[f][s] = "forwarding" => method[f][s] \in StreamMethods
    /\ InQueue(Entry(s, None), outbox[f]) => execution[f][s] \in {"finished", "aborted"}
    /\ s \in inflightRequests[f] => handling[f][s] = "running" /\ f \notin closed
    /\ s \in runningIterators[f] => handling[f][s] = "iterating" /\ f \notin closed

(* What is served is what its caller called.                               *)
ServedWasCalled(e, s) ==
  LET f == Peer(e) IN
    /\ execution[f][s] # "none" => method[f][s] \in Methods /\ Holds(e, s, method[f][s])
    /\ handling[f][s] # "none" => ~ Unmade(e, s)

(* A request on its way is new to the end that will serve it.              *)
Untouched(f, s) == execution[f][s] = "none" /\ handling[f][s] = "none"

RequestIsFresh(e, s) ==
  \A m \in Methods :
    \/ InQueue(RequestMsg(s, m), channel[Peer(e)])
    \/ InQueue([seq |-> s, method |-> m], requests[Peer(e)])
    => Untouched(Peer(e), s) /\ Holds(e, s, m)

(* There is one request of a number, in the channel or in the queue.       *)
IsRequest(x, s) == x.kind = "Request" /\ x.seq = s
OneRequest(q, s) == \A i, j \in DOMAIN q : IsRequest(q[i], s) /\ IsRequest(q[j], s) => i = j
OneCall(q, s) == \A i, j \in DOMAIN q : q[i].seq = s /\ q[j].seq = s => i = j

RequestIsAlone(e, s) ==
  /\ OneRequest(channel[Peer(e)], s)
  /\ OneCall(requests[Peer(e)], s)
  /\ ~ (Requested(e, s) /\ Queued(e, s))

(* An abort, wherever it is, was sent by a caller that gave the call up.   *)
AbortWasSent(e, s) ==
  \/ InQueue(AbortMsg(s), channel[Peer(e)])
  \/ InQueue(s, aborts[Peer(e)])
  \/ s \in signalled[Peer(e)]
  => GaveUp(e, s)

(* A response on its way is the last thing that was done for its call.     *)
ResponseIsFinal(e, s) ==
  Answered(e, s) => execution[Peer(e)][s] = "finished" \/ handling[Peer(e)][s] = "over"

(* A handler that is not listened to any more serves a call given up.      *)
ForgottenWasGivenUp(e, s) ==
  LET f == Peer(e) IN
    \/ handling[f][s] = "running" /\ s \notin inflightRequests[f]
    \/ handling[f][s] = "iterating" /\ s \notin runningIterators[f]
    \/ handling[f][s] = "abandoned"
    => f \in closed \/ GaveUp(e, s)

NotVanished(e, s) ==
  ~ Excused(e, s) =>
    /\ call[e][s] = "pending" \/ promise[e][s] = "pending" => ValueUnderWay(e, s)
    /\ s \in streamCallbacks[e] \/ promise[e][s] = "open" => StreamUnderWay(e, s)

(* No request is behind its abort, and once the abort has been taken       *)
(* nothing is left of the call, on its way or at its server.               *)
NoRequestBehind(q, s) ==
  \A i, j \in DOMAIN q : q[i] = AbortMsg(s) /\ i < j => ~ IsRequest(q[j], s)

AbortIsLast(e, s) ==
  e \notin JsEnds /\ Peer(e) \in JsEnds \ failure =>
    /\ NoRequestBehind(channel[Peer(e)], s)
    /\ GaveUp(e, s) /\ ~ InQueue(AbortMsg(s), channel[Peer(e)]) =>
         /\ ~ Requested(e, s)
         /\ s \notin inflightRequests[Peer(e)] \cup runningIterators[Peer(e)]

CallOK(e, s) ==
  /\ Numbered(e, s)
  /\ MapsMatch(e, s)
  /\ TracesMatch(e, s)
  /\ ServedWasCalled(e, s)
  /\ RequestIsFresh(e, s)
  /\ RequestIsAlone(e, s)
  /\ AbortWasSent(e, s)
  /\ ResponseIsFinal(e, s)
  /\ ForgottenWasGivenUp(e, s)
  /\ NotVanished(e, s)
  /\ AbortIsLast(e, s)

(* The conjunction is inductive: every step of the connection keeps it.    *)
JInv ==
  /\ TypeOK
  /\ JsTypeOK
  /\ \A e \in Ends : OwnKind(e)
  /\ \A e \in Ends, s \in Seqs : CallOK(e, s)

-----------------------------------------------------------------------------
(* The inductive invariant behind the properties of streams, and behind    *)
(* the refinement, on top of JInv.                                         *)

(* What call s of e has had, waiting items included.                       *)
Had(e, s) ==
  IF e \in JsEnds THEN delivered[e][s] \o chain[e][s] ELSE received[e][s] \o buffer[e][s]

HasWaiting(e, s) == IF e \in JsEnds THEN chain[e][s] # <<>> ELSE buffer[e][s] # <<>>

(* A call whose request was posted; one that threw or was refused was not. *)
WasSent(e, s) == call[e][s] # "idle" \/ promise[e][s] \notin {"idle", "threw", "refused"}

(* Items of the call are still taken, and all were so far.                 *)
Routed(e, s) == s \in streamCallbacks[e] \/ (promise[e][s] = "open" /\ s \notin broken[e])

(* Its caller has heard, or has been told, that the stream is over.        *)
HasEnded(e, s) == call[e][s] = "ended" \/ promise[e][s] = "done"
HeardEnd(e, s) ==
  \/ call[e][s] = "open" /\ s \notin streamCallbacks[e]
  \/ promise[e][s] = "ending" /\ s \notin broken[e]
  \/ HasEnded(e, s)

Over(f, s) == execution[f][s] \in {"finished", "aborted"} \/ handling[f][s] \in {"over", "abandoned"}

(* What nobody has served has made nothing, and what was served was sent.  *)
NothingMadeEarly(e, s) ==
  Untouched(Peer(e), s) =>
    Made(e, s) = 0 /\ ~ HasItem(outbox[Peer(e)], s) /\ ~ HasItem(channel[e], s)

ServedWasSent(e, s) == ~ Untouched(Peer(e), s) => WasSent(e, s)

(* Nothing of a stream is behind its end.                                  *)
EndComesLast(e, s) ==
  /\ MarkerIsLast(outbox[Peer(e)], s)
  /\ EndMsgIsLast(channel[e], s)
  /\ EndPosted(e, s) => Over(Peer(e), s) /\ ~ HasEntry(outbox[Peer(e)], s)

(* What a call has had is a prefix of what was made for it, and only the   *)
(* caller of a stream has anything.                                        *)
HadWasMade(e, s) ==
  /\ \E a \in 0 .. Made(e, s) : Had(e, s) = FirstItems(a)
  /\ Had(e, s) # <<>> =>
       \/ call[e][s] \in {"open", "closed", "ended", "drained", "dropped"}
       \/ promise[e][s] \in {"open", "ending", "closing", "done", "closed", "failed"}

(* The rest is on its way, for as long as it is taken.                     *)
RestIsComing(e, s) == Routed(e, s) => Whole(Had(e, s), e, s)

(* The end is heard only after everything that was made.                   *)
EndIsComplete(e, s) ==
  /\ HeardEnd(e, s) => Had(e, s) = FirstItems(Made(e, s)) /\ Over(Peer(e), s)
  /\ HasEnded(e, s) => ~ HasWaiting(e, s)

(* A response that has arrived was the last act of the server.             *)
ResponseIsComplete(e, s) ==
  call[e][s] = "responded" => execution[Peer(e)][s] = "finished" \/ handling[Peer(e)][s] = "over"

StreamOK(e, s) ==
  /\ NothingMadeEarly(e, s)
  /\ ServedWasSent(e, s)
  /\ EndComesLast(e, s)
  /\ HadWasMade(e, s)
  /\ RestIsComing(e, s)
  /\ EndIsComplete(e, s)
  /\ ResponseIsComplete(e, s)

(* The conjunction is inductive.                                           *)
JsSInv == JInv /\ \A e \in Ends, s \in Seqs : StreamOK(e, s)
=============================================================================
