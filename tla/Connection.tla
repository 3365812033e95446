----------------------------- MODULE Connection -----------------------------
(***************************************************************************)
(* Two Rust interfaces connected after their handshake, each with a        *)
(* client, a server or both.                                               *)
(***************************************************************************)
EXTENDS Interface

(* A deployment error the code answers with a panic: a request that        *)
(* reaches an interface with no server.                                    *)
ASSUME DeploymentAssumption == \A e \in Clients : Peer(e) \in Servers

vars == <<channel, sequence, call, callbacks, streamCallbacks, buffer, received,
          requests, aborts, outbox, running, execution, method, signalled, produced>>

Init ==
  /\ channel = [e \in Ends |-> <<>>]
  /\ ClientInit
  /\ ServiceInit

-----------------------------------------------------------------------------
Terminal == {"notified", "done", "ended", "drained", "dropped"}

(* Nothing is left to do, and nothing is left over but messages to an end  *)
(* that holds no future any more.  TLC reports a deadlock anywhere else.   *)
AllSettled ==
  /\ \A e \in Clients : sequence[e] = MaxCalls
  /\ \A e \in Ends, s \in Seqs : call[e][s] \in Terminal \cup {"idle"}
  /\ \A e \in Servers : channel[e] = <<>> /\ requests[e] = <<>> /\ aborts[e] = <<>>
  /\ \A e \in Ends : outbox[e] = <<>>
  /\ \A e \in Ends, s \in Seqs : execution[e][s] \notin {"called", "forwarding"}

Settled == AllSettled /\ UNCHANGED vars

Next == (\E e \in Ends : InterfaceStep(e)) \/ Settled

Spec == Init /\ [][Next]_vars

-----------------------------------------------------------------------------
(* Fairness.  Every task that owns a future or a server is woken when what *)
(* it waits for is ready, and select! picks among ready branches at random,*)
(* so no branch that stays ready is left out for ever.  A method that is   *)
(* not async returns once it is polled.  Nothing is assumed of async       *)
(* methods, of streams, or of what callers do with what they hold.         *)
SyncReturns(e, s) ==
  /\ method[e][s] \in {"notify", "value", "stream"}
  /\ FinishNotify(e, s) \/ FinishValue(e, s) \/ StartStream(e, s)

RuntimeFairness ==
  /\ \A e \in Ends : WF_vars(Dispatch(e))
  /\ \A e \in Servers :
       /\ WF_vars(TakeRequest(e) /\ UNCHANGED clientVars)
       /\ WF_vars(TakeAbort(e) /\ UNCHANGED clientVars)
       /\ WF_vars((ForwardItem(e) \/ ForwardEnd(e)) /\ UNCHANGED clientVars)
       /\ \A s \in Seqs :
            /\ WF_vars((AbortValue(e, s) \/ AbortStream(e, s)) /\ UNCHANGED clientVars)
            /\ WF_vars(SyncReturns(e, s) /\ UNCHANGED clientVars)

(* The caller awaits what it holds, until it drops it.                     *)
CallerFairness ==
  \A e \in Clients, s \in Seqs :
    WF_vars((PollResponse(e, s) \/ PollItem(e, s) \/ PollNone(e, s)) /\ UNCHANGED serviceVars)

(* Async methods return and streams are finite: the implementor's part.    *)
MethodFairness ==
  \A e \in Servers, s \in Seqs :
    /\ WF_vars((FinishNotify(e, s) \/ FinishValue(e, s)) /\ UNCHANGED clientVars)
    /\ WF_vars(StartStream(e, s) /\ UNCHANGED clientVars)
    /\ WF_vars(FinishStream(e, s) /\ UNCHANGED clientVars)

FairSpec == Spec /\ RuntimeFairness
ServedSpec == Spec /\ RuntimeFairness /\ CallerFairness /\ MethodFairness

-----------------------------------------------------------------------------
NotLost(e, s) ==
  /\ call[e][s] = "pending" =>
       Requested(e, s) \/ Queued(e, s) \/ InService(e, s) \/ Answered(e, s)
  /\ s \in streamCallbacks[e] =>
       Requested(e, s) \/ Queued(e, s) \/ InService(e, s) \/ Ending(e, s) \/ EndPosted(e, s)

(* A call whose caller still waits is never lost: its request, its         *)
(* execution, its end marker or its answer is somewhere between the two    *)
(* ends, however requests, aborts and drops of other calls interleave.     *)
NoLostCall == \A e \in Clients, s \in Seqs : NotLost(e, s)

(* The maps of the client hold exactly what somebody waits for: a dropped, *)
(* closed or finished call leaves no callback behind, and a pending one    *)
(* has its own.                                                            *)
CallbacksMatchCalls ==
  \A e \in Ends, s \in Seqs :
    /\ s \in callbacks[e] <=> call[e][s] = "pending"
    /\ s \in streamCallbacks[e] => call[e][s] = "open"

(* The server's map of running calls leaks nothing: an entry belongs to an *)
(* execution under way or to a stream whose end marker is still queued.    *)
RunningIsLive ==
  \A e \in Ends : \A s \in running[e] :
    \/ execution[e][s] \in {"called", "forwarding"}
    \/ InQueue(Entry(s, None), outbox[e])

(* An abort reaches the call it was meant for and no other, although both  *)
(* directions number their calls from zero: the server signals only        *)
(* executions whose caller has dropped or closed what it held.             *)
AbortsAreWanted ==
  \A e \in Ends : \A s \in signalled[e] :
    call[Peer(e)][s] \in {"dropped", "closed", "drained"}

(* Once the server has signalled a call, it posts no response to it, even  *)
(* when its method runs to completion.                                     *)
AbortedIsSilent ==
  \A e \in Ends : \A s \in signalled[e] :
    /\ s \notin running[e]
    /\ ~ InQueue(ResponseMsg(s), channel[Peer(e)])

(* No item of an open stream is lost, repeated or reordered on its way     *)
(* through the outbox, the channel and the receiver's buffer, whatever     *)
(* other streams do.                                                       *)
StreamIntegrity ==
  \A e \in Ends, s \in Seqs :
    s \in streamCallbacks[e] =>
      Unbroken(received[e][s] \o buffer[e][s], channel[e], outbox[Peer(e)], s, produced[Peer(e)][s])

(* A receiver that was never closed yields None only after every item that *)
(* the stream produced, and after the stream itself has finished.          *)
EndedIsComplete ==
  \A e \in Ends, s \in Seqs :
    call[e][s] = "ended" =>
      /\ received[e][s] = FirstItems(produced[Peer(e)][s])
      /\ execution[Peer(e)][s] = "finished"

(* Whatever a receiver yields, closed or not, is a gapless prefix.         *)
ReceivedIsPrefix ==
  \A e \in Ends, s \in Seqs :
    LET got == received[e][s] \o buffer[e][s] IN got = FirstItems(Len(got))

-----------------------------------------------------------------------------
(* A request whose caller awaits it is answered, if the methods return.    *)
RequestsAnswered ==
  \A e \in Clients, s \in Seqs : call[e][s] = "pending" ~> call[e][s] \in {"done", "dropped"}

(* A stream ends for whoever keeps polling it, if the stream is finite.    *)
StreamsEnd ==
  \A e \in Clients, s \in Seqs :
    call[e][s] \in {"open", "closed"} ~> call[e][s] \in {"ended", "drained", "dropped"}

(* An execution that was signalled stops, even when the method or the      *)
(* stream would go on for ever.                                            *)
SignalledStops ==
  \A e \in Servers, s \in Seqs :
    s \in signalled[e] ~> execution[e][s] \in {"finished", "aborted"}

-----------------------------------------------------------------------------
(* The connection seen as remote calls.                                    *)
CallerView(status) ==
  CASE status \in {"pending", "responded", "open"} -> "waiting"
    [] status \in {"closed", "drained"} -> "closed"
    [] status = "done" -> "returned"
    [] status = "dropped" -> "gone"
    [] OTHER -> status

CalleeView(status) ==
  CASE status = "none" -> "idle"
    [] status \in {"called", "forwarding"} -> "working"
    [] status = "finished" -> "answered"
    [] status = "aborted" -> "cancelled"

Calls == INSTANCE Rpc WITH
  Callers <- Ends,
  Ids <- Seqs,
  MaxMade <- MaxItems,
  caller <- [e \in Ends |-> [s \in Seqs |-> CallerView(call[e][s])]],
  callee <- [e \in Ends |-> [s \in Seqs |-> CalleeView(execution[Peer(e)][s])]],
  made <- [e \in Ends |-> produced[Peer(e)]],
  got <- [e \in Ends |-> [s \in Seqs |-> Len(received[e][s])]],
  left <- {}

(* The queues, maps and messages of both ends implement remote calls: run  *)
(* at most once, answered before they return, complete before they end,    *)
(* cancelled only when given up.                                           *)
ImplementsRpc == Calls!RpcSpec

-----------------------------------------------------------------------------
(* "Dropping the `RequestFuture` cancels the request" and "Dropping the    *)
(* receiver aborts the stream on the server" (lib.rs, client.rs): after a  *)
(* drop the execution is eventually over for good.                         *)
DropCancels ==
  \A e \in Clients, s \in Seqs :
    call[e][s] = "dropped" ~> [](execution[Peer(e)][s] \notin {"called", "forwarding"})

(* "close lets buffered items finish arriving" (lib.rs): a closed receiver *)
(* does not yield None while an item of its stream is still on its way.    *)
CloseDrains ==
  [][\A e \in Ends, s \in Seqs :
       call[e][s] = "closed" /\ call'[e][s] = "drained" => ~ HasItem(channel[e], s)]_vars
=============================================================================
