------------------------------- MODULE Service ------------------------------
(***************************************************************************)
(* The server half of an interface: the select! loop of service.rs and the *)
(* execute future that the service macro generates for each request.       *)
(*                                                                         *)
(* select! polls its branches in a random order and runs the first that is *)
(* ready, so each branch is an action of its own, enabled whenever that    *)
(* branch is ready.                                                        *)
(*                                                                         *)
(* execution[e][s] is the execute future of request s in FuturesUnordered: *)
(*   none        no such future yet                                        *)
(*   called      pushed; the implementation's method has not returned      *)
(*   forwarding  a stream whose items are being forwarded                  *)
(*   finished    the future completed with the method's own outcome        *)
(*   aborted     the future completed because it saw abort_rx              *)
(* A future that completed is gone; the last two states only tell how.     *)
(***************************************************************************)
EXTENDS Wire

CONSTANT Servers    \* the ends whose Builder was given a service, and whose Server is polled
ASSUME ServersAssumption == Servers \subseteq Ends

ExecutionStates == {"none", "called", "forwarding", "finished", "aborted"}

(* A request the dispatcher handed over, and a stream message: an item,    *)
(* or the end marker None.                                                 *)
Inbound == [seq : Seqs, method : Methods]
None == 0
StreamMessage == [seq : Seqs, item : Items \cup {None}]

VARIABLES
  requests,    \* requests_rx: requests the dispatcher handed over
  aborts,      \* aborts_rx: aborts the dispatcher handed over
  outbox,      \* stream_rx: items and end markers of every running stream
  running,     \* keys of running, the map of abort senders
  execution,   \* the execute futures
  method,      \* the method each request named, "none" before it is taken
  signalled,   \* calls whose abort_tx has fired
  produced     \* items each stream has put in the outbox

serviceVars ==
  <<requests, aborts, outbox, running, execution, method, signalled, produced>>

ServiceTypeOK ==
  /\ requests \in [Ends -> Seq(Inbound)]
  /\ aborts \in [Ends -> Seq(Seqs)]
  /\ outbox \in [Ends -> Seq(StreamMessage)]
  /\ running \in [Ends -> SUBSET Seqs]
  /\ execution \in [Ends -> [Seqs -> ExecutionStates]]
  /\ method \in [Ends -> [Seqs -> Methods \cup {"none"}]]
  /\ signalled \in [Ends -> SUBSET Seqs]
  /\ produced \in [Ends -> [Seqs -> 0 .. MaxItems]]

ServiceInit ==
  /\ requests = [e \in Ends |-> <<>>]
  /\ aborts = [e \in Ends |-> <<>>]
  /\ outbox = [e \in Ends |-> <<>>]
  /\ running = [e \in Ends |-> {}]
  /\ execution = [e \in Ends |-> [s \in Seqs |-> "none"]]
  /\ method = [e \in Ends |-> [s \in Seqs |-> "none"]]
  /\ signalled = [e \in Ends |-> {}]
  /\ produced = [e \in Ends |-> [s \in Seqs |-> 0]]

Entry(s, i) == [seq |-> s, item |-> i]

SetExecution(e, s, status) == execution' = [execution EXCEPT ![e][s] = status]
Forget(e, s) == running' = [running EXCEPT ![e] = @ \ {s}]

-----------------------------------------------------------------------------
(* The branches of select!.                                                *)

(* Mistake: the execute future is pushed and no abort sender registered.   *)
TakeRequestUnregistered(e) ==
  /\ requests[e] # <<>>
  /\ LET s == Head(requests[e]).seq IN
       /\ SetExecution(e, s, "called")
       /\ method' = [method EXCEPT ![e][s] = Head(requests[e]).method]
  /\ requests' = [requests EXCEPT ![e] = Tail(@)]
  /\ UNCHANGED <<channel, aborts, outbox, running, signalled, produced>>

(* requests_rx: register an abort sender and push the execute future.      *)
TakeRequest(e) ==
  /\ requests[e] # <<>>
  /\ LET s == Head(requests[e]).seq IN
       /\ running' = [running EXCEPT ![e] = @ \cup {s}]
       /\ SetExecution(e, s, "called")
       /\ method' = [method EXCEPT ![e][s] = Head(requests[e]).method]
  /\ requests' = [requests EXCEPT ![e] = Tail(@)]
  /\ UNCHANGED <<channel, aborts, outbox, signalled, produced>>

(* Mistake: the execution is signalled and stays in running.               *)
TakeAbortKept(e) ==
  /\ aborts[e] # <<>>
  /\ LET s == Head(aborts[e]) IN
       signalled' = IF s \in running[e]
                      THEN [signalled EXCEPT ![e] = @ \cup {s}]
                      ELSE signalled
  /\ aborts' = [aborts EXCEPT ![e] = Tail(@)]
  /\ UNCHANGED <<channel, requests, outbox, running, execution, method, produced>>

(* aborts_rx: signal the execution and forget it, if it is running.        *)
TakeAbort(e) ==
  /\ aborts[e] # <<>>
  /\ LET s == Head(aborts[e]) IN
       /\ Forget(e, s)
       /\ signalled' = IF s \in running[e]
                         THEN [signalled EXCEPT ![e] = @ \cup {s}]
                         ELSE signalled
  /\ aborts' = [aborts EXCEPT ![e] = Tail(@)]
  /\ UNCHANGED <<channel, requests, outbox, execution, method, produced>>

(* Mistake: whatever is in stream_rx is posted as an item.                 *)
ForwardItemAny(e) ==
  /\ outbox[e] # <<>>
  /\ Post(e, ItemMsg(Head(outbox[e]).seq, Head(outbox[e]).item))
  /\ outbox' = [outbox EXCEPT ![e] = Tail(@)]
  /\ UNCHANGED <<requests, aborts, running, execution, method, signalled, produced>>

(* stream_rx with an item: post it.                                        *)
ForwardItem(e) ==
  /\ outbox[e] # <<>>
  /\ Head(outbox[e]).item # None
  /\ Post(e, ItemMsg(Head(outbox[e]).seq, Head(outbox[e]).item))
  /\ outbox' = [outbox EXCEPT ![e] = Tail(@)]
  /\ UNCHANGED <<requests, aborts, running, execution, method, signalled, produced>>

(* Mistake: StreamEnd is posted and the call stays in running.             *)
ForwardEndLeaky(e) ==
  /\ outbox[e] # <<>>
  /\ Head(outbox[e]).item = None
  /\ Post(e, EndMsg(Head(outbox[e]).seq))
  /\ outbox' = [outbox EXCEPT ![e] = Tail(@)]
  /\ UNCHANGED <<requests, aborts, running, execution, method, signalled, produced>>

(* stream_rx with the end marker: forget the call and post StreamEnd.      *)
ForwardEnd(e) ==
  /\ outbox[e] # <<>>
  /\ Head(outbox[e]).item = None
  /\ Forget(e, Head(outbox[e]).seq)
  /\ Post(e, EndMsg(Head(outbox[e]).seq))
  /\ outbox' = [outbox EXCEPT ![e] = Tail(@)]
  /\ UNCHANGED <<requests, aborts, execution, method, signalled, produced>>

(* Mistakes: a response is posted without a look at running; the entry is  *)
(* removed before running is read.                                         *)
CompleteUnchecked(e, s, status, response) ==
  /\ SetExecution(e, s, status)
  /\ Forget(e, s)
  /\ IF response THEN Post(e, ResponseMsg(s)) ELSE UNCHANGED channel
  /\ UNCHANGED <<requests, aborts, outbox, method, signalled, produced>>

CompleteMute(e, s, status, response) ==
  /\ SetExecution(e, s, status)
  /\ Forget(e, s)
  /\ IF response /\ s \in running'[e]
       THEN Post(e, ResponseMsg(s))
       ELSE UNCHANGED channel
  /\ UNCHANGED <<requests, aborts, outbox, method, signalled, produced>>

(* executions: a future completed with `response` or with nothing, and     *)
(* only a call that is still in running is answered.                       *)
Complete(e, s, status, response) ==
  /\ SetExecution(e, s, status)
  /\ Forget(e, s)
  /\ IF response /\ s \in running[e]
       THEN Post(e, ResponseMsg(s))
       ELSE UNCHANGED channel
  /\ UNCHANGED <<requests, aborts, outbox, method, signalled, produced>>

-----------------------------------------------------------------------------
(* The execute future of request s, one action per way it can step.        *)

(* A notification's method returned: ExecuteResult::Response(None).        *)
FinishNotify(e, s) ==
  /\ execution[e][s] = "called"
  /\ method[e][s] \in NotifyMethods
  /\ Complete(e, s, "finished", FALSE)

(* A value method returned: ExecuteResult::Response(Some).                 *)
FinishValue(e, s) ==
  /\ execution[e][s] = "called"
  /\ method[e][s] \in ValueMethods
  /\ Complete(e, s, "finished", TRUE)

(* An async value method sees abort_rx first: ExecuteResult::Response(None). *)
AbortValue(e, s) ==
  /\ execution[e][s] = "called"
  /\ method[e][s] = "value_async"
  /\ s \in signalled[e]
  /\ Complete(e, s, "aborted", FALSE)

(* A streaming method returned its stream.                                 *)
StartStream(e, s) ==
  /\ execution[e][s] = "called"
  /\ method[e][s] \in StreamMethods
  /\ SetExecution(e, s, "forwarding")
  /\ UNCHANGED <<channel, requests, aborts, outbox, running, method, signalled, produced>>

(* The stream yielded an item: it goes to the outbox.                      *)
ProduceItem(e, s) ==
  /\ execution[e][s] = "forwarding"
  /\ produced[e][s] < MaxItems
  /\ produced' = [produced EXCEPT ![e][s] = @ + 1]
  /\ outbox' = [outbox EXCEPT ![e] = Append(@, Entry(s, produced[e][s] + 1))]
  /\ UNCHANGED <<channel, requests, aborts, running, execution, method, signalled>>

(* Mistakes: the end is posted at once and overtakes the items that wait   *)
(* in the outbox; the future completes and no end marker is sent.          *)
EndStreamDirect(e, s, status) ==
  /\ SetExecution(e, s, status)
  /\ Forget(e, s)
  /\ Post(e, EndMsg(s))
  /\ UNCHANGED <<requests, aborts, outbox, method, signalled, produced>>

EndStreamSilent(e, s, status) ==
  /\ SetExecution(e, s, status)
  /\ UNCHANGED <<channel, requests, aborts, outbox, running, method, signalled, produced>>

(* The end marker follows the items, and the future completes with         *)
(* StreamComplete, which posts and removes nothing.                        *)
EndStream(e, s, status) ==
  /\ SetExecution(e, s, status)
  /\ outbox' = [outbox EXCEPT ![e] = Append(@, Entry(s, None))]
  /\ UNCHANGED <<channel, requests, aborts, running, method, signalled, produced>>

(* The stream is exhausted.                                                *)
FinishStream(e, s) ==
  /\ execution[e][s] = "forwarding"
  /\ EndStream(e, s, "finished")

(* Mistake: only the forwarding loop selects on abort_rx, and an async     *)
(* method that was to return the stream does not see it.                   *)
AbortStreamLate(e, s) ==
  /\ s \in signalled[e]
  /\ execution[e][s] = "forwarding"
  /\ EndStream(e, s, "aborted")

(* abort_rx wins against the forwarding loop, or against the async method  *)
(* that was to return the stream.                                          *)
AbortStream(e, s) ==
  /\ s \in signalled[e]
  /\ \/ execution[e][s] = "forwarding"
     \/ execution[e][s] = "called" /\ method[e][s] = "stream_async"
  /\ EndStream(e, s, "aborted")

LoopStep(e) == TakeRequest(e) \/ TakeAbort(e) \/ ForwardItem(e) \/ ForwardEnd(e)

ExecutionStep(e, s) ==
  \/ FinishNotify(e, s)
  \/ FinishValue(e, s)
  \/ AbortValue(e, s)
  \/ StartStream(e, s)
  \/ ProduceItem(e, s)
  \/ FinishStream(e, s)
  \/ AbortStream(e, s)

ServiceStep(e) == e \in Servers /\ (LoopStep(e) \/ \E s \in Seqs : ExecutionStep(e, s))
=============================================================================
