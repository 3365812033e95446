----------------------------- MODULE JsEndpoint -----------------------------
(***************************************************************************)
(* A generated endpoint of endpoint.mjs, after its handshake: the maps     *)
(* that route what comes back, the promises its callers hold, and the      *)
(* handlers that serve the other end.                                      *)
(*                                                                         *)
(* promise[e][s] is what the caller of call s has in hand:                 *)
(*   idle       not called yet                                             *)
(*   notified   a notification                                             *)
(*   threw      the call threw, and returned nothing                       *)
(*   pending    a request that has not settled                             *)
(*   settled    a request that its response has settled                    *)
(*   aborted    a request its caller aborted                               *)
(*   open       a stream that has not ended                                *)
(*   ending     a stream that ended, with callbacks still to run           *)
(*   closing    the same, for a stream that the endpoint's close() ended   *)
(*   done       a stream that ended and whose callbacks have all run       *)
(*   closed     a stream ended by close(), with callbacks run              *)
(*   failed     a stream that an error ended                               *)
(*   rejected   a request that an error settled                            *)
(*   refused    a call on an endpoint that was closed or had failed        *)
(*                                                                         *)
(* handling[e][s] is the handler that serves call s of the other end:      *)
(*   none        not called                                                *)
(*   running     a value or a notification being computed                  *)
(*   iterating   a stream being iterated                                   *)
(*   over        answered, or its stream ended                             *)
(*   abandoned   finished after the call was aborted or the endpoint closed *)
(*   unanswered  finished, and its caller will not hear of it              *)
(*   undecoded   never called: the request could not be decoded            *)
(***************************************************************************)
EXTENDS Wire

CONSTANTS
  JsEnds,      \* the ends that are endpoints of endpoint.mjs
  JsClients,   \* those that call
  Faults       \* what goes wrong in a run of the system

(* encode: a value cannot be encoded or cloned; decode: a message cannot   *)
(* be decoded; throw: a handler or a callback throws; close: somebody      *)
(* closes the endpoint; fail: a messageerror or an error event.  Which     *)
(* methods return a Result, so that a throw is answered, is left open.     *)
AllFaults == {"encode", "decode", "throw", "close", "fail"}

ASSUME JsAssumption == JsClients \subseteq JsEnds /\ JsEnds \subseteq Ends
ASSUME FaultsAssumption == Faults \subseteq AllFaults

VARIABLES
  closed,            \* the ends that are _closed
  failure,           \* the ends with a _failure
  nextSequence,      \* _sequence
  promise,
  pendingRequests,   \* keys of _pendingRequests
  openStreams,       \* keys of _openStreams
  stopped,           \* streams whose own close() was called
  chain,             \* items whose callback waits in the queue of a stream
  broken,            \* streams whose queue a callback has rejected
  delivered,         \* items handed to the callback of a stream
  handling,
  inflightRequests,  \* _inflightRequests
  runningIterators,  \* keys of _runningIterators
  yielded            \* items each served stream has posted

jsCallerVars ==
  <<nextSequence, promise, pendingRequests, openStreams, stopped, chain, broken, delivered>>
jsHandlerVars == <<handling, inflightRequests, runningIterators, yielded>>
jsVars == <<closed, failure, jsCallerVars, jsHandlerVars>>

PromiseStates ==
  {"idle", "notified", "threw", "pending", "settled", "aborted",
   "open", "ending", "closing", "done", "closed", "failed", "rejected", "refused"}
HandlingStates == {"none", "running", "iterating", "over", "abandoned", "unanswered", "undecoded"}

JsTypeOK ==
  /\ closed \subseteq JsEnds /\ failure \subseteq JsEnds
  /\ nextSequence \in [Ends -> 0 .. MaxCalls]
  /\ promise \in [Ends -> [Seqs -> PromiseStates]]
  /\ \A keys \in {pendingRequests, openStreams, stopped, broken,
                   inflightRequests, runningIterators} : keys \in [Ends -> SUBSET Seqs]
  /\ chain \in [Ends -> [Seqs -> Seq(Items)]]
  /\ delivered \in [Ends -> [Seqs -> Seq(Items)]]
  /\ handling \in [Ends -> [Seqs -> HandlingStates]]
  /\ yielded \in [Ends -> [Seqs -> 0 .. MaxItems]]

JsInit ==
  /\ closed = {} /\ failure = {}
  /\ nextSequence = [e \in Ends |-> 0]
  /\ promise = [e \in Ends |-> [s \in Seqs |-> "idle"]]
  /\ pendingRequests = [e \in Ends |-> {}]
  /\ openStreams = [e \in Ends |-> {}]
  /\ stopped = [e \in Ends |-> {}]
  /\ broken = [e \in Ends |-> {}]
  /\ inflightRequests = [e \in Ends |-> {}]
  /\ runningIterators = [e \in Ends |-> {}]
  /\ chain = [e \in Ends |-> [s \in Seqs |-> <<>>]]
  /\ delivered = [e \in Ends |-> [s \in Seqs |-> <<>>]]
  /\ handling = [e \in Ends |-> [s \in Seqs |-> "none"]]
  /\ yielded = [e \in Ends |-> [s \in Seqs |-> 0]]

SetPromise(e, s, status) == promise' = [promise EXCEPT ![e][s] = status]
SetHandling(e, s, status) == handling' = [handling EXCEPT ![e][s] = status]
Insert(keys, e, s) == [keys EXCEPT ![e] = @ \cup {s}]
Delete(keys, e, s) == [keys EXCEPT ![e] = @ \ {s}]

(* _send, of an endpoint that is ready: nothing once it is closed.         *)
JsSend(e, msg) == IF e \in closed THEN UNCHANGED channel ELSE Post(e, msg)

-----------------------------------------------------------------------------
(* Calling the other side.                                                 *)

Refuses(e) == e \in closed \cup failure

(* Every call but a refused notification takes a number.                   *)
Number(e) ==
  /\ e \in JsClients
  /\ nextSequence[e] < MaxCalls
  /\ nextSequence' = [nextSequence EXCEPT ![e] = @ + 1]

JsNotify(e, m) ==
  /\ m \in NotifyMethods
  /\ ~ Refuses(e)
  /\ Number(e)
  /\ SetPromise(e, nextSequence[e], "notified")
  /\ JsSend(e, RequestMsg(nextSequence[e], m))
  /\ UNCHANGED <<pendingRequests, openStreams, stopped, chain, broken, delivered>>

JsRequest(e, m) ==
  /\ m \in ValueMethods
  /\ ~ Refuses(e)
  /\ Number(e)
  /\ SetPromise(e, nextSequence[e], "pending")
  /\ pendingRequests' = Insert(pendingRequests, e, nextSequence[e])
  /\ JsSend(e, RequestMsg(nextSequence[e], m))
  /\ UNCHANGED <<openStreams, stopped, chain, broken, delivered>>

JsStream(e, m) ==
  /\ m \in StreamMethods
  /\ ~ Refuses(e)
  /\ Number(e)
  /\ SetPromise(e, nextSequence[e], "open")
  /\ openStreams' = Insert(openStreams, e, nextSequence[e])
  /\ JsSend(e, RequestMsg(nextSequence[e], m))
  /\ UNCHANGED <<pendingRequests, stopped, chain, broken, delivered>>

(* A request or a stream of an endpoint that is closed or has failed.      *)
CallRefused(e) ==
  /\ Refuses(e)
  /\ Methods \ NotifyMethods # {}
  /\ Number(e)
  /\ SetPromise(e, nextSequence[e], "refused")
  /\ UNCHANGED <<channel, pendingRequests, openStreams, stopped, chain, broken, delivered>>

(* _encodeCall or _send throws at the caller.  By then _stream has filled  *)
(* in _openStreams, and _request, if it was _send, _pendingRequests.       *)
CallThrows(e, m) ==
  /\ "encode" \in Faults
  /\ ~ Refuses(e)
  /\ Number(e)
  /\ SetPromise(e, nextSequence[e], "threw")
  /\ \/ UNCHANGED pendingRequests
     \/ m \in ValueMethods /\ pendingRequests' = Insert(pendingRequests, e, nextSequence[e])
  /\ openStreams' =
       IF m \in StreamMethods THEN Insert(openStreams, e, nextSequence[e]) ELSE openStreams
  /\ UNCHANGED <<channel, stopped, chain, broken, delivered>>

(* Mistake: the abort names the latest call, not this one.                 *)
AbortRequestLatest(e, s) ==
  /\ promise[e][s] = "pending"
  /\ s \in pendingRequests[e]
  /\ pendingRequests' = Delete(pendingRequests, e, s)
  /\ SetPromise(e, s, "aborted")
  /\ JsSend(e, AbortMsg(nextSequence[e] - 1))
  /\ UNCHANGED <<nextSequence, openStreams, stopped, chain, broken, delivered>>

(* promise.abort(): nothing for a request that is not pending.             *)
AbortRequest(e, s) ==
  /\ promise[e][s] = "pending"
  /\ s \in pendingRequests[e]
  /\ pendingRequests' = Delete(pendingRequests, e, s)
  /\ SetPromise(e, s, "aborted")
  /\ JsSend(e, AbortMsg(s))
  /\ UNCHANGED <<nextSequence, openStreams, stopped, chain, broken, delivered>>

(* Mistake: the entry is deleted, as StreamReceiver::close does.           *)
StopStreamForgets(e, s) ==
  /\ promise[e][s] \in {"open", "ending", "closing", "done", "closed", "failed"}
  /\ s \notin stopped[e]
  /\ stopped' = Insert(stopped, e, s)
  /\ openStreams' = Delete(openStreams, e, s)
  /\ JsSend(e, AbortMsg(s))
  /\ UNCHANGED <<nextSequence, promise, pendingRequests, chain, broken, delivered>>

(* The close() of one stream: posts an abort, and keeps the entry, whether *)
(* or not the stream has ended by itself.                                  *)
StopStream(e, s) ==
  /\ promise[e][s] \in {"open", "ending", "closing", "done", "closed", "failed"}
  /\ s \notin stopped[e]
  /\ stopped' = Insert(stopped, e, s)
  /\ JsSend(e, AbortMsg(s))
  /\ UNCHANGED <<nextSequence, promise, pendingRequests, openStreams, chain, broken, delivered>>

(* The queue of a stream runs its next callback.  One that throws rejects  *)
(* the queue, and those behind it are skipped.                             *)
RunCallback(e, s) ==
  /\ chain[e][s] # <<>>
  /\ delivered' = [delivered EXCEPT ![e][s] = Append(@, Head(chain[e][s]))]
  /\ \/ chain' = [chain EXCEPT ![e][s] = Tail(@)] /\ UNCHANGED broken
     \/ /\ "throw" \in Faults
        /\ chain' = [chain EXCEPT ![e][s] = <<>>]
        /\ broken' = Insert(broken, e, s)
  /\ UNCHANGED <<channel, nextSequence, promise, pendingRequests, openStreams, stopped>>

(* Mistake: done does not wait for the queue.                              *)
SettleDoneEarly(e, s) ==
  /\ \/ promise[e][s] = "ending" /\ SetPromise(e, s, IF s \in broken[e] THEN "failed" ELSE "done")
     \/ promise[e][s] = "closing" /\ SetPromise(e, s, "closed")
  /\ UNCHANGED <<channel, nextSequence, pendingRequests, openStreams, stopped, chain, broken, delivered>>

(* done settles behind the last callback.                                  *)
SettleDone(e, s) ==
  /\ chain[e][s] = <<>>
  /\ \/ promise[e][s] = "ending" /\ SetPromise(e, s, IF s \in broken[e] THEN "failed" ELSE "done")
     \/ promise[e][s] = "closing" /\ SetPromise(e, s, "closed")
  /\ UNCHANGED <<channel, nextSequence, pendingRequests, openStreams, stopped, chain, broken, delivered>>

-----------------------------------------------------------------------------
(* _dispatch, one action for each kind of message.                         *)

(* The next message event of e, and what its handler posts in answer.      *)
Arrives(e, kind) ==
  /\ e \in JsEnds \ closed
  /\ channel[e] # <<>>
  /\ Head(channel[e]).kind = kind

TakeAndPost(e, messages) ==
  channel' = [channel EXCEPT ![e] = Tail(@), ![Peer(e)] = @ \o messages]

(* Mistake: the promise settles whether or not the call is pending.        *)
JsOnResponseAny(e) ==
  /\ Arrives(e, "Response")
  /\ TakeAndPost(e, <<>>)
  /\ LET s == Head(channel[e]).seq IN
       /\ pendingRequests' = Delete(pendingRequests, e, s)
       /\ SetPromise(e, s, "settled")
  /\ UNCHANGED <<closed, failure, jsHandlerVars>>
  /\ UNCHANGED <<nextSequence, openStreams, stopped, chain, broken, delivered>>

(* A Response settles its promise, either way.                             *)
JsOnResponse(e) ==
  /\ Arrives(e, "Response")
  /\ TakeAndPost(e, <<>>)
  /\ LET s == Head(channel[e]).seq IN
       /\ pendingRequests' = Delete(pendingRequests, e, s)
       /\ IF s \in pendingRequests[e] THEN SetPromise(e, s, "settled") ELSE UNCHANGED promise
  /\ UNCHANGED <<closed, failure, jsHandlerVars>>
  /\ UNCHANGED <<nextSequence, openStreams, stopped, chain, broken, delivered>>

(* Mistake: an item of a stream that its caller has stopped is dropped.    *)
JsOnStreamItemStopped(e) ==
  /\ Arrives(e, "StreamItem")
  /\ TakeAndPost(e, <<>>)
  /\ LET s == Head(channel[e]).seq IN
       chain' = IF s \in openStreams[e] \ (stopped[e] \cup broken[e])
                  THEN [chain EXCEPT ![e][s] = Append(@, Head(channel[e]).item)]
                  ELSE chain
  /\ UNCHANGED <<closed, failure, jsHandlerVars>>
  /\ UNCHANGED <<nextSequence, promise, pendingRequests, openStreams, stopped, broken, delivered>>

(* A StreamItem of an open stream queues its callback, or is skipped when  *)
(* an earlier callback threw; one that cannot be decoded ends the stream.  *)
JsOnStreamItem(e) ==
  /\ Arrives(e, "StreamItem")
  /\ TakeAndPost(e, <<>>)
  /\ LET s == Head(channel[e]).seq IN
       \/ /\ chain' = IF s \in openStreams[e] \ broken[e]
                        THEN [chain EXCEPT ![e][s] = Append(@, Head(channel[e]).item)]
                        ELSE chain
          /\ UNCHANGED <<promise, openStreams>>
       \/ /\ "decode" \in Faults
          /\ s \in openStreams[e]
          /\ openStreams' = Delete(openStreams, e, s)
          /\ SetPromise(e, s, "failed")
          /\ UNCHANGED chain
  /\ UNCHANGED <<closed, failure, jsHandlerVars>>
  /\ UNCHANGED <<nextSequence, pendingRequests, stopped, broken, delivered>>

(* Mistake: the end is queued as if it were an item.                       *)
JsOnStreamEndQueued(e) ==
  /\ Arrives(e, "StreamEnd")
  /\ TakeAndPost(e, <<>>)
  /\ LET s == Head(channel[e]).seq IN
       /\ openStreams' = Delete(openStreams, e, s)
       /\ chain' = [chain EXCEPT ![e][s] = Append(@, 0)]
       /\ IF s \in openStreams[e] THEN SetPromise(e, s, "ending") ELSE UNCHANGED promise
  /\ UNCHANGED <<closed, failure, jsHandlerVars>>
  /\ UNCHANGED <<nextSequence, pendingRequests, stopped, broken, delivered>>

(* A StreamEnd lets done settle behind the callbacks.                      *)
JsOnStreamEnd(e) ==
  /\ Arrives(e, "StreamEnd")
  /\ TakeAndPost(e, <<>>)
  /\ LET s == Head(channel[e]).seq IN
       /\ openStreams' = Delete(openStreams, e, s)
       /\ IF s \in openStreams[e] THEN SetPromise(e, s, "ending") ELSE UNCHANGED promise
  /\ UNCHANGED <<closed, failure, jsHandlerVars>>
  /\ UNCHANGED <<nextSequence, pendingRequests, stopped, chain, broken, delivered>>

(* A Request: _onRequest, with the first half of _runStream.  Nothing is   *)
(* answered to one that cannot be decoded, the handler of a notification   *)
(* runs at once, and a stream whose handler throws ends at once.           *)
JsOnRequest(e) ==
  /\ Arrives(e, "Request")
  /\ LET s == Head(channel[e]).seq
         m == Head(channel[e]).method IN
       \/ /\ "decode" \in Faults
          /\ SetHandling(e, s, "undecoded")
          /\ TakeAndPost(e, <<>>)
          /\ UNCHANGED <<inflightRequests, runningIterators>>
       \/ /\ m \in NotifyMethods
          /\ SetHandling(e, s, "over")
          /\ TakeAndPost(e, <<>>)
          /\ UNCHANGED <<inflightRequests, runningIterators>>
       \/ /\ m \in ValueMethods
          /\ SetHandling(e, s, "running")
          /\ inflightRequests' = Insert(inflightRequests, e, s)
          /\ TakeAndPost(e, <<>>)
          /\ UNCHANGED runningIterators
       \/ /\ m \in StreamMethods
          /\ SetHandling(e, s, "iterating")
          /\ runningIterators' = Insert(runningIterators, e, s)
          /\ TakeAndPost(e, <<>>)
          /\ UNCHANGED inflightRequests
       \/ /\ m \in StreamMethods
          /\ "throw" \in Faults
          /\ SetHandling(e, s, "over")
          /\ TakeAndPost(e, <<EndMsg(s)>>)
          /\ UNCHANGED <<inflightRequests, runningIterators>>
  /\ UNCHANGED <<closed, failure, jsCallerVars, yielded>>

(* Mistakes: a stream is not forgotten; every request in flight is.        *)
JsOnAbortValues(e) ==
  /\ Arrives(e, "Abort")
  /\ TakeAndPost(e, <<>>)
  /\ inflightRequests' = Delete(inflightRequests, e, Head(channel[e]).seq)
  /\ UNCHANGED <<closed, failure, jsCallerVars, handling, runningIterators, yielded>>

JsOnAbortAll(e) ==
  /\ Arrives(e, "Abort")
  /\ TakeAndPost(e, <<>>)
  /\ inflightRequests' = [inflightRequests EXCEPT ![e] = {}]
  /\ runningIterators' = Delete(runningIterators, e, Head(channel[e]).seq)
  /\ UNCHANGED <<closed, failure, jsCallerVars, handling, yielded>>

(* An Abort: the call is forgotten, and its handler goes on by itself.     *)
JsOnAbort(e) ==
  /\ Arrives(e, "Abort")
  /\ TakeAndPost(e, <<>>)
  /\ inflightRequests' = Delete(inflightRequests, e, Head(channel[e]).seq)
  /\ runningIterators' = Delete(runningIterators, e, Head(channel[e]).seq)
  /\ UNCHANGED <<closed, failure, jsCallerVars, handling, yielded>>

JsDispatch(e) ==
  \/ JsOnResponse(e)
  \/ JsOnStreamItem(e)
  \/ JsOnStreamEnd(e)
  \/ JsOnRequest(e)
  \/ JsOnAbort(e)

-----------------------------------------------------------------------------
(* Serving the other side.                                                 *)

(* The promise of a value's handler settles: a call that is no longer      *)
(* in flight is not answered, and neither is one whose handler threw, if   *)
(* it has no Err to answer with, or whose result cannot be encoded.        *)
HandlerSettles(e, s) ==
  /\ handling[e][s] = "running"
  /\ inflightRequests' = Delete(inflightRequests, e, s)
  /\ \/ s \notin inflightRequests[e] /\ SetHandling(e, s, "abandoned") /\ UNCHANGED channel
     \/ s \in inflightRequests[e] /\ SetHandling(e, s, "over") /\ JsSend(e, ResponseMsg(s))
     \/ /\ s \in inflightRequests[e]
        /\ Faults \cap {"throw", "encode"} # {}
        /\ SetHandling(e, s, "unanswered")
        /\ UNCHANGED channel
  /\ UNCHANGED <<closed, failure, jsCallerVars, runningIterators, yielded>>

(* Mistake: an item that cannot be encoded is skipped, and the loop goes on. *)
YieldSkips(e, s) ==
  /\ handling[e][s] = "iterating"
  /\ s \in runningIterators[e]
  /\ yielded[e][s] < MaxItems
  /\ yielded' = [yielded EXCEPT ![e][s] = @ + 1]
  /\ JsSend(e, ItemMsg(s, yielded[e][s] + 1)) \/ UNCHANGED channel
  /\ UNCHANGED <<closed, failure, jsCallerVars, handling, inflightRequests, runningIterators>>

(* The loop of _runStream gets an item and the call is still running.      *)
Yield(e, s) ==
  /\ handling[e][s] = "iterating"
  /\ s \in runningIterators[e]
  /\ yielded[e][s] < MaxItems
  /\ yielded' = [yielded EXCEPT ![e][s] = @ + 1]
  /\ JsSend(e, ItemMsg(s, yielded[e][s] + 1))
  /\ UNCHANGED <<closed, failure, jsCallerVars, handling, inflightRequests, runningIterators>>

(* Mistake: only the map hears of the end, not the caller.                 *)
FinishIterationMute(e, s) ==
  /\ handling[e][s] = "iterating"
  /\ SetHandling(e, s, IF s \in runningIterators[e] THEN "over" ELSE "abandoned")
  /\ runningIterators' = Delete(runningIterators, e, s)
  /\ UNCHANGED <<channel, closed, failure, jsCallerVars, inflightRequests, yielded>>

(* The loop ends: the iterator is done or throws, an item cannot be        *)
(* encoded, or an item comes after the call was forgotten.                 *)
FinishIteration(e, s) ==
  /\ handling[e][s] = "iterating"
  /\ SetHandling(e, s, IF s \in runningIterators[e] THEN "over" ELSE "abandoned")
  /\ runningIterators' = Delete(runningIterators, e, s)
  /\ JsSend(e, EndMsg(s))
  /\ UNCHANGED <<closed, failure, jsCallerVars, inflightRequests, yielded>>

-----------------------------------------------------------------------------
(* The end of an endpoint.                                                 *)

(* Mistake: the maps are cleared and nothing is settled.                   *)
SettleAllSilently(e, status) ==
  /\ pendingRequests' = [pendingRequests EXCEPT ![e] = {}]
  /\ openStreams' = [openStreams EXCEPT ![e] = {}]
  /\ UNCHANGED <<nextSequence, promise, stopped, chain, broken, delivered>>

(* Every pending request is rejected, and every open stream becomes status. *)
SettleAll(e, status) ==
  /\ promise' = [promise EXCEPT ![e] = [s \in Seqs |->
       CASE @[s] = "pending" -> "rejected"
         [] @[s] = "open" -> status
         [] OTHER -> @[s]]]
  /\ pendingRequests' = [pendingRequests EXCEPT ![e] = {}]
  /\ openStreams' = [openStreams EXCEPT ![e] = {}]
  /\ UNCHANGED <<nextSequence, stopped, chain, broken, delivered>>

(* Mistake: everything is given up, but the endpoint is not marked closed. *)
CloseEndpointUnmarked(e) ==
  /\ "close" \in Faults
  /\ e \in JsEnds \ closed
  /\ SettleAll(e, "closing")
  /\ inflightRequests' = [inflightRequests EXCEPT ![e] = {}]
  /\ runningIterators' = [runningIterators EXCEPT ![e] = {}]
  /\ UNCHANGED <<channel, closed, failure, handling, yielded>>

(* close(): handlers go on by themselves, and nothing is posted any more.  *)
CloseEndpoint(e) ==
  /\ "close" \in Faults
  /\ e \in JsEnds \ closed
  /\ closed' = closed \cup {e}
  /\ SettleAll(e, "closing")
  /\ inflightRequests' = [inflightRequests EXCEPT ![e] = {}]
  /\ runningIterators' = [runningIterators EXCEPT ![e] = {}]
  /\ UNCHANGED <<channel, failure, handling, yielded>>

(* _fail, from an error event or from a message that cannot be             *)
(* deserialized and is lost.  What the endpoint serves goes on.            *)
Fail(e) ==
  /\ "fail" \in Faults
  /\ e \in JsEnds \ closed
  /\ \/ e \notin failure /\ UNCHANGED channel
     \/ channel[e] # <<>> /\ TakeAndPost(e, <<>>)
  /\ failure' = failure \cup {e}
  /\ IF e \in failure THEN UNCHANGED jsCallerVars ELSE SettleAll(e, "failed")
  /\ UNCHANGED <<closed, jsHandlerVars>>

(* A message event of a closed endpoint: nobody listens.                   *)
Discard(e) ==
  /\ e \in closed
  /\ channel[e] # <<>>
  /\ TakeAndPost(e, <<>>)
  /\ UNCHANGED jsVars

-----------------------------------------------------------------------------
JsCall(e) ==
  \/ \E m \in Methods : JsNotify(e, m) \/ JsRequest(e, m) \/ JsStream(e, m) \/ CallThrows(e, m)
  \/ CallRefused(e)

JsCallerStep(e, s) ==
  \/ AbortRequest(e, s)
  \/ StopStream(e, s)
  \/ RunCallback(e, s)
  \/ SettleDone(e, s)

JsHandlerStep(e, s) == HandlerSettles(e, s) \/ Yield(e, s) \/ FinishIteration(e, s)

JsStep(e) ==
  \/ JsCall(e) /\ UNCHANGED <<closed, failure, jsHandlerVars>>
  \/ \E s \in Seqs : JsCallerStep(e, s) /\ UNCHANGED <<closed, failure, jsHandlerVars>>
  \/ \E s \in Seqs : JsHandlerStep(e, s)
  \/ JsDispatch(e)
  \/ CloseEndpoint(e)
  \/ Fail(e)
  \/ Discard(e)
=============================================================================
