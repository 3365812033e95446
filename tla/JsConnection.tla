---------------------------- MODULE JsConnection ----------------------------
(***************************************************************************)
(* A connection with a JavaScript endpoint at one end or at both; the      *)
(* other end is a Rust interface.  The handshake is over (Handshake), so   *)
(* an endpoint posts at once.                                              *)
(***************************************************************************)
EXTENDS Interface, JsEndpoint

(* Calls go to an end that serves: a request to a Rust interface without   *)
(* a server is a panic.                                                    *)
ASSUME SidesAssumption ==
  /\ (Clients \cup Servers) \cap JsEnds = {}
  /\ \A e \in Clients \cup JsClients : Peer(e) \in Servers \cup JsEnds

vars == <<channel, clientVars, serviceVars, jsVars>>

Init ==
  /\ channel = [e \in Ends |-> <<>>]
  /\ ClientInit
  /\ ServiceInit
  /\ JsInit

(* Nothing is left to do at an end.                                        *)
RustSettled(e) ==
  /\ e \in Clients => sequence[e] = MaxCalls
  /\ \A s \in Seqs : call[e][s] \in {"idle", "notified", "done", "ended", "drained", "dropped"}
  /\ e \in Servers => channel[e] = <<>>
  /\ requests[e] = <<>> /\ aborts[e] = <<>> /\ outbox[e] = <<>>
  /\ \A s \in Seqs : execution[e][s] \notin {"called", "forwarding"}

JsSettled(e) ==
  /\ channel[e] = <<>>
  /\ \A s \in Seqs : promise[e][s] \notin {"pending", "open", "ending", "closing"}
  /\ \A s \in Seqs : handling[e][s] \notin {"running", "iterating"}

Settled ==
  /\ \A e \in Ends : IF e \in JsEnds THEN JsSettled(e) ELSE RustSettled(e)
  /\ UNCHANGED vars

Next ==
  \/ \E e \in Ends : InterfaceStep(e) /\ UNCHANGED jsVars
  \/ \E e \in JsEnds : JsStep(e) /\ UNCHANGED <<clientVars, serviceVars>>
  \/ Settled

Spec == Init /\ [][Next]_vars

-----------------------------------------------------------------------------
(* Fairness.  Events are delivered and promise jobs run; the server of a   *)
(* Rust interface is polled when it has been woken.  Handlers and methods  *)
(* return, streams are finite, and callbacks return: the embedder's part.  *)
(* Callers await what they hold; nothing makes them abort, drop or stop.   *)
JsFairness(e) ==
  /\ WF_vars((JsDispatch(e) \/ Discard(e)) /\ UNCHANGED <<clientVars, serviceVars>>)
  /\ \A s \in Seqs :
       /\ WF_vars(RunCallback(e, s) /\ UNCHANGED <<closed, failure, jsHandlerVars, clientVars, serviceVars>>)
       /\ WF_vars(SettleDone(e, s) /\ UNCHANGED <<closed, failure, jsHandlerVars, clientVars, serviceVars>>)
       /\ WF_vars((HandlerSettles(e, s) \/ FinishIteration(e, s)) /\ UNCHANGED <<clientVars, serviceVars>>)

RustFairness(e) ==
  /\ WF_vars(Dispatch(e) /\ UNCHANGED jsVars)
  /\ WF_vars(e \in Servers /\ TakeRequest(e) /\ UNCHANGED <<clientVars, jsVars>>)
  /\ WF_vars(e \in Servers /\ TakeAbort(e) /\ UNCHANGED <<clientVars, jsVars>>)
  /\ WF_vars(e \in Servers /\ (ForwardItem(e) \/ ForwardEnd(e)) /\ UNCHANGED <<clientVars, jsVars>>)
  /\ \A s \in Seqs :
       WF_vars((PollResponse(e, s) \/ PollItem(e, s) \/ PollNone(e, s))
                 /\ UNCHANGED <<serviceVars, jsVars>>)
  /\ \A s \in Seqs :
       WF_vars(e \in Servers /\ (FinishValue(e, s) \/ StartStream(e, s) \/ FinishStream(e, s))
                 /\ UNCHANGED <<clientVars, jsVars>>)

FairSpec ==
  /\ Spec
  /\ \A e \in JsEnds : JsFairness(e)
  /\ \A e \in Ends \ JsEnds : RustFairness(e)

-----------------------------------------------------------------------------
(* Each property is about call s of end e, of either kind, to an end of    *)
(* either kind.                                                            *)

GaveUp(e, s) ==
  IF e \in JsEnds
    THEN promise[e][s] \in {"aborted", "closing", "closed", "failed", "rejected"} \/ s \in stopped[e]
    ELSE call[e][s] \in {"dropped", "closed", "drained"}

(* Items the serving end has made, and what their caller is to have.       *)
Made(e, s) == IF Peer(e) \in JsEnds THEN yielded[Peer(e)][s] ELSE produced[Peer(e)][s]
Whole(had, e, s) == Unbroken(had, channel[e], outbox[Peer(e)], s, Made(e, s))

ValueUnderWay(e, s) ==
  \/ Requested(e, s)
  \/ Queued(e, s)
  \/ InService(e, s)
  \/ s \in inflightRequests[Peer(e)]
  \/ Answered(e, s)

StreamUnderWay(e, s) ==
  \/ Requested(e, s)
  \/ Queued(e, s)
  \/ execution[Peer(e)][s] \in {"called", "forwarding"}
  \/ InQueue(Entry(s, None), outbox[Peer(e)])
  \/ handling[Peer(e)][s] = "iterating"
  \/ EndPosted(e, s)

(* An end that nobody will hear from: it was closed, it has lost messages, *)
(* or its handler failed in a way the protocol has no message for.         *)
Excused(e, s) ==
  Peer(e) \in closed \cup failure \/ handling[Peer(e)][s] \in {"unanswered", "undecoded"}

(* A call somebody waits for is somewhere between the two ends, or its end *)
(* has an excuse.  A stream that its caller has stopped is still waited    *)
(* for by its done.                                                        *)
NoCallVanishes ==
  \A e \in Ends, s \in Seqs :
    ~ Excused(e, s) =>
      /\ call[e][s] = "pending" \/ promise[e][s] = "pending" => ValueUnderWay(e, s)
      /\ s \in streamCallbacks[e] \/ promise[e][s] = "open" => StreamUnderWay(e, s)

(* No promise is left unsettled without an entry that can settle it, and   *)
(* only a call that threw leaves an entry that nobody waits for.           *)
PromisesMatchMaps ==
  \A e \in JsEnds, s \in Seqs :
    /\ promise[e][s] = "pending" => s \in pendingRequests[e]
    /\ promise[e][s] = "open" => s \in openStreams[e]
    /\ s \in pendingRequests[e] => promise[e][s] \in {"pending", "threw"}
    /\ s \in openStreams[e] => promise[e][s] \in {"open", "threw"}
    /\ e \in closed => s \notin inflightRequests[e] \cup runningIterators[e]

(* No item of an open stream is lost, repeated or reordered before its     *)
(* callback, whatever other streams and their callbacks do.                *)
ItemsArriveWhole ==
  \A e \in Ends, s \in Seqs :
    /\ promise[e][s] = "open" /\ s \notin broken[e] =>
         Whole(delivered[e][s] \o chain[e][s], e, s)
    /\ s \in streamCallbacks[e] =>
         Whole(received[e][s] \o buffer[e][s], e, s)

(* done of a stream resolves only when its callback has had every item the *)
(* other end made and that end has stopped, even of a stream that its      *)
(* caller stopped: unlike StreamReceiver::close, close() drains.           *)
DoneIsComplete ==
  \A e \in JsEnds, s \in Seqs :
    promise[e][s] = "done" =>
      /\ delivered[e][s] = FirstItems(Made(e, s))
      /\ execution[Peer(e)][s] \notin {"called", "forwarding"}
      /\ handling[Peer(e)][s] # "iterating"

(* An endpoint abandons a call only when its caller gave it up or the      *)
(* endpoint was closed, and an abandoned call is not answered.             *)
AbandonedIsSilent ==
  \A e \in JsEnds, s \in Seqs :
    \/ handling[e][s] = "running" /\ s \notin inflightRequests[e]
    \/ handling[e][s] = "iterating" /\ s \notin runningIterators[e]
    \/ handling[e][s] = "abandoned"
    => /\ e \in closed \/ GaveUp(Peer(e), s)
       /\ ~ InQueue(ResponseMsg(s), channel[Peer(e)])

(* An abort that has arrived at an endpoint has taken effect: one queue    *)
(* carries requests and aborts, so no abort is taken before its request.   *)
AbortsTakeEffect ==
  \A e \in JsEnds \ failure, s \in Seqs :
    /\ GaveUp(Peer(e), s)
    /\ Peer(e) \notin JsEnds
    /\ ~ InQueue(AbortMsg(s), channel[e])
    => s \notin inflightRequests[e] \cup runningIterators[e]

-----------------------------------------------------------------------------
(* Every request and every done of an endpoint settles, whatever fails.    *)
PromisesSettle ==
  \A e \in JsClients, s \in Seqs :
    promise[e][s] \in {"pending", "open", "ending", "closing"} ~>
      promise[e][s] \notin {"pending", "open", "ending", "closing"}

(* A Rust call to an endpoint comes to an end, unless its handler failed   *)
(* in a way the protocol has no message for.                               *)
RustCallsEnd ==
  \A e \in Clients, s \in Seqs :
    call[e][s] \in {"pending", "open"} ~> call[e][s] \notin {"pending", "open"} \/ Excused(e, s)

-----------------------------------------------------------------------------
(* The connection seen as remote calls.                                    *)
CallerView(e, s) ==
  LET status == promise[e][s] IN
    CASE status \in {"threw", "refused"} -> "idle"
      [] status \in {"pending", "open", "ending"} -> IF s \in stopped[e] THEN "closed" ELSE "waiting"
      [] status \in {"closing", "closed", "failed"} -> "closed"
      [] status = "settled" -> "returned"
      [] status = "done" -> "ended"
      [] status \in {"aborted", "rejected"} -> "gone"
      [] OTHER -> status

RustCallerView(e, s) ==
  LET status == call[e][s] IN
    CASE status \in {"pending", "responded", "open"} -> "waiting"
      [] status \in {"closed", "drained"} -> "closed"
      [] status = "done" -> "returned"
      [] status = "dropped" -> "gone"
      [] OTHER -> status

CalleeView(e, s) ==
  LET status == handling[e][s] IN
    CASE status \in {"none", "undecoded"} -> "idle"
      [] status \in {"running", "iterating"} -> "working"
      [] status \in {"over", "unanswered"} -> "answered"
      [] status = "abandoned" -> "cancelled"

RustCalleeView(e, s) ==
  LET status == execution[e][s] IN
    CASE status = "none" -> "idle"
      [] status \in {"called", "forwarding"} -> "working"
      [] status = "finished" -> "answered"
      [] status = "aborted" -> "cancelled"

Calls == INSTANCE Rpc WITH
  Callers <- Ends,
  Ids <- Seqs,
  MaxMade <- MaxItems,
  caller <- [e \in Ends |-> [s \in Seqs |->
    IF e \in JsEnds THEN CallerView(e, s) ELSE RustCallerView(e, s)]],
  callee <- [e \in Ends |-> [s \in Seqs |->
    IF Peer(e) \in JsEnds THEN CalleeView(Peer(e), s) ELSE RustCalleeView(Peer(e), s)]],
  made <- [e \in Ends |-> [s \in Seqs |-> Made(e, s)]],
  got <- [e \in Ends |-> [s \in Seqs |->
    IF e \in JsEnds THEN Len(delivered[e][s]) ELSE Len(received[e][s])]],
  left <- {e \in Ends : Peer(e) \in closed}

(* Maps, promises and messages of both languages implement the same remote *)
(* calls as two Rust interfaces do.                                        *)
ImplementsRpc == Calls!RpcSpec
=============================================================================
