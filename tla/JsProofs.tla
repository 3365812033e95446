------------------------------ MODULE JsProofs ------------------------------
(***************************************************************************)
(* The safety of a connection with a JavaScript endpoint at one end or at  *)
(* both, for every number of calls and items, every set of methods and     *)
(* every set of faults.                                                    *)
(*                                                                         *)
(* A step concerns one call, on its caller's side or on its server's.  The *)
(* lemmas say what a step leaves alone (Same...), then that the invariant  *)
(* of a call survives each kind of move, and last which move each action   *)
(* is.                                                                     *)
(***************************************************************************)
EXTENDS JsInv, InterfaceProofs

-----------------------------------------------------------------------------
(* What a queue of messages holds of the request of call s, and of the     *)
(* answer to it, does not change.                                          *)
SameDown(q, r, s) ==
  /\ \A m \in Methods : InQueue(RequestMsg(s, m), r) <=> InQueue(RequestMsg(s, m), q)
  /\ InQueue(AbortMsg(s), r) <=> InQueue(AbortMsg(s), q)
  /\ OneRequest(q, s) => OneRequest(r, s)
  /\ NoRequestBehind(q, s) => NoRequestBehind(r, s)

SameUp(q, r, s) ==
  /\ InQueue(ResponseMsg(s), r) <=> InQueue(ResponseMsg(s), q)
  /\ InQueue(EndMsg(s), r) <=> InQueue(EndMsg(s), q)

LEMMA SameQueue == \A q, s : SameDown(q, q, s) /\ SameUp(q, q, s)
BY DEF SameDown, SameUp

(* One more message in a queue.                                            *)
LEMMA AddedFlags ==
  ASSUME NEW q \in Seq(Message), NEW y \in Message, NEW s \in Seqs
  PROVE  /\ \A m \in Methods : InQueue(RequestMsg(s, m), Append(q, y)) <=>
              InQueue(RequestMsg(s, m), q) \/ (y.kind = "Request" /\ y.seq = s /\ y.method = m)
         /\ InQueue(AbortMsg(s), Append(q, y)) <=>
              InQueue(AbortMsg(s), q) \/ (y.kind = "Abort" /\ y.seq = s)
         /\ InQueue(ResponseMsg(s), Append(q, y)) <=>
              InQueue(ResponseMsg(s), q) \/ (y.kind = "Response" /\ y.seq = s)
         /\ InQueue(EndMsg(s), Append(q, y)) <=>
              InQueue(EndMsg(s), q) \/ (y.kind = "StreamEnd" /\ y.seq = s)
<1>1. \A x : InQueue(x, Append(q, y)) <=> InQueue(x, q) \/ x = y
  BY QueueAppend
<1>2. /\ \A m \in Methods : y = RequestMsg(s, m) <=> y.kind = "Request" /\ y.seq = s /\ y.method = m
      /\ y = AbortMsg(s) <=> y.kind = "Abort" /\ y.seq = s
      /\ y = ResponseMsg(s) <=> y.kind = "Response" /\ y.seq = s
      /\ y = EndMsg(s) <=> y.kind = "StreamEnd" /\ y.seq = s
  BY MessageShapes, MessageFacts
<1> QED
  BY <1>1, <1>2

(* One message less.                                                       *)
LEMMA TakenFlags ==
  ASSUME NEW q \in Seq(Message), q # <<>>, NEW s \in Seqs, NEW y, y = Head(q)
  PROVE  /\ y \in Message /\ Tail(q) \in Seq(Message)
         /\ \A m \in Methods : InQueue(RequestMsg(s, m), q) <=>
              \/ InQueue(RequestMsg(s, m), Tail(q))
              \/ y.kind = "Request" /\ y.seq = s /\ y.method = m
         /\ InQueue(AbortMsg(s), q) <=>
              InQueue(AbortMsg(s), Tail(q)) \/ (y.kind = "Abort" /\ y.seq = s)
         /\ InQueue(ResponseMsg(s), q) <=>
              InQueue(ResponseMsg(s), Tail(q)) \/ (y.kind = "Response" /\ y.seq = s)
         /\ InQueue(EndMsg(s), q) <=>
              InQueue(EndMsg(s), Tail(q)) \/ (y.kind = "StreamEnd" /\ y.seq = s)
<1>1. /\ y \in Message /\ Tail(q) \in Seq(Message)
      /\ \A x : InQueue(x, q) <=> x = y \/ InQueue(x, Tail(q))
  BY QueueTail
<1>2. /\ \A m \in Methods : y = RequestMsg(s, m) <=> y.kind = "Request" /\ y.seq = s /\ y.method = m
      /\ y = AbortMsg(s) <=> y.kind = "Abort" /\ y.seq = s
      /\ y = ResponseMsg(s) <=> y.kind = "Response" /\ y.seq = s
      /\ y = EndMsg(s) <=> y.kind = "StreamEnd" /\ y.seq = s
  BY <1>1, MessageShapes, MessageFacts
<1> QED
  BY <1>1, <1>2

(* The order of requests and aborts, after an append and after a take.     *)
LEMMA AddedOrder ==
  ASSUME NEW q \in Seq(Message), NEW y \in Message, NEW s \in Seqs
  PROVE  /\ ~ IsRequest(y, s) =>
              /\ OneRequest(q, s) => OneRequest(Append(q, y), s)
              /\ NoRequestBehind(q, s) => NoRequestBehind(Append(q, y), s)
         /\ (\A m \in Methods : ~ InQueue(RequestMsg(s, m), q)) => OneRequest(Append(q, y), s)
         /\ ~ InQueue(AbortMsg(s), q) => NoRequestBehind(Append(q, y), s)
<1> DEFINE n == Len(q)
           r == Append(q, y)
<1>1. /\ n \in Nat /\ DOMAIN q = 1 .. n /\ DOMAIN r = 1 .. n + 1 /\ r[n + 1] = y
      /\ \A i \in 1 .. n : r[i] = q[i] /\ q[i] \in Message
  BY Positions
<1> HIDE DEF n, r
<1>2. ASSUME ~ IsRequest(y, s), OneRequest(q, s)
      PROVE  OneRequest(r, s)
  BY <1>1, <1>2 DEF OneRequest
<1>3. ASSUME ~ IsRequest(y, s), NoRequestBehind(q, s)
      PROVE  NoRequestBehind(r, s)
  BY <1>1, <1>3 DEF NoRequestBehind
<1>4. ASSUME \A m \in Methods : ~ InQueue(RequestMsg(s, m), q)
      PROVE  OneRequest(r, s)
  <2>1. \A i \in 1 .. n : ~ IsRequest(q[i], s)
    BY <1>1, <1>4, MessageShapes DEF InQueue, IsRequest
  <2> QED
    BY <1>1, <2>1 DEF OneRequest
<1>5. ASSUME ~ InQueue(AbortMsg(s), q)
      PROVE  NoRequestBehind(r, s)
  BY <1>1, <1>5 DEF NoRequestBehind, InQueue
<1> QED
  BY <1>2, <1>3, <1>4, <1>5 DEF r

LEMMA TakenOrder ==
  ASSUME NEW q \in Seq(Message), q # <<>>, NEW s \in Seqs
  PROVE  /\ OneRequest(q, s) =>
              /\ OneRequest(Tail(q), s)
              /\ IsRequest(Head(q), s) => \A m \in Methods : ~ InQueue(RequestMsg(s, m), Tail(q))
         /\ NoRequestBehind(q, s) =>
              /\ NoRequestBehind(Tail(q), s)
              /\ Head(q) = AbortMsg(s) => \A m \in Methods : ~ InQueue(RequestMsg(s, m), Tail(q))
<1> DEFINE n == Len(q)
           r == Tail(q)
           h == Head(q)
<1>1. /\ n \in Nat /\ DOMAIN q = 1 .. n /\ 1 \in DOMAIN q /\ h = q[1]
      /\ DOMAIN r = 1 .. n - 1
      /\ \A i \in 1 .. n - 1 : r[i] = q[i + 1]
  BY Positions
<1> HIDE DEF n, r, h
<1>2. \A i \in DOMAIN r : i + 1 \in DOMAIN q /\ 1 < i + 1 /\ r[i] = q[i + 1]
  BY <1>1
<1>3. \A m \in Methods, i \in DOMAIN r : r[i] = RequestMsg(s, m) => IsRequest(q[i + 1], s)
  BY <1>2, MessageFacts DEF IsRequest
<1>4. ASSUME OneRequest(q, s)
      PROVE  /\ OneRequest(r, s)
             /\ IsRequest(h, s) => \A m \in Methods : ~ InQueue(RequestMsg(s, m), r)
  <2>1. ASSUME NEW i \in DOMAIN r, NEW j \in DOMAIN r, IsRequest(r[i], s), IsRequest(r[j], s)
        PROVE  i = j
    <3>1. i + 1 = j + 1
      BY <1>2, <1>4, <2>1 DEF OneRequest
    <3> QED
      BY <1>1, <3>1
  <2>2. ASSUME IsRequest(h, s), NEW m \in Methods, NEW i \in DOMAIN r, r[i] = RequestMsg(s, m)
        PROVE  FALSE
    <3>1. i + 1 \in DOMAIN q /\ 1 # i + 1 /\ IsRequest(q[i + 1], s)
      BY <1>1, <1>2, <1>3, <2>2
    <3> QED
      BY <1>1, <1>4, <2>2, <3>1 DEF OneRequest
  <2> QED
    BY <2>1, <2>2 DEF OneRequest, InQueue
<1>5. ASSUME NoRequestBehind(q, s)
      PROVE  /\ NoRequestBehind(r, s)
             /\ h = AbortMsg(s) => \A m \in Methods : ~ InQueue(RequestMsg(s, m), r)
  <2>1. ASSUME NEW i \in DOMAIN r, NEW j \in DOMAIN r, r[i] = AbortMsg(s), i < j
        PROVE  ~ IsRequest(r[j], s)
    <3>1. i + 1 < j + 1
      BY <1>1, <2>1
    <3> QED
      BY <1>2, <1>5, <2>1, <3>1 DEF NoRequestBehind
  <2>2. ASSUME h = AbortMsg(s), NEW m \in Methods, NEW i \in DOMAIN r, r[i] = RequestMsg(s, m)
        PROVE  FALSE
    <3>1. i + 1 \in DOMAIN q /\ 1 < i + 1 /\ IsRequest(q[i + 1], s)
      BY <1>1, <1>2, <1>3, <2>2
    <3> QED
      BY <1>1, <1>5, <2>2, <3>1 DEF NoRequestBehind
  <2> QED
    BY <2>1, <2>2 DEF NoRequestBehind, InQueue
<1> QED
  BY <1>4, <1>5 DEF r, h

(* So a message of another call, or of the other direction, changes        *)
(* nothing for this one.                                                   *)
LEMMA AddedSame ==
  ASSUME NEW q \in Seq(Message), NEW y \in Message, NEW s \in Seqs
  PROVE  /\ y.seq # s \/ y.kind \notin {"Request", "Abort"} => SameDown(q, Append(q, y), s)
         /\ y.seq # s \/ y.kind \notin {"Response", "StreamEnd"} => SameUp(q, Append(q, y), s)
BY AddedFlags, AddedOrder DEF SameDown, SameUp, IsRequest

LEMMA TakenSame ==
  ASSUME NEW q \in Seq(Message), q # <<>>, NEW s \in Seqs
  PROVE  /\ Head(q).seq # s \/ Head(q).kind \notin {"Request", "Abort"} => SameDown(q, Tail(q), s)
         /\ Head(q).seq # s \/ Head(q).kind \notin {"Response", "StreamEnd"} => SameUp(q, Tail(q), s)
BY TakenFlags, TakenOrder DEF SameDown, SameUp, IsRequest

-----------------------------------------------------------------------------
(* What a step leaves alone: what the caller has of call s, and what its   *)
(* server has; and the two ends stay as they are.                          *)
SameCaller(e, s) ==
  /\ call'[e][s] = call[e][s] /\ promise'[e][s] = promise[e][s]
  /\ s < sequence[e] => s < sequence'[e]
  /\ s < nextSequence[e] => s < nextSequence'[e]
  /\ s \in callbacks'[e] <=> s \in callbacks[e]
  /\ s \in streamCallbacks'[e] <=> s \in streamCallbacks[e]
  /\ s \in pendingRequests'[e] <=> s \in pendingRequests[e]
  /\ s \in openStreams'[e] <=> s \in openStreams[e]
  /\ s \in stopped'[e] <=> s \in stopped[e]

SameServer(f, s) ==
  /\ execution'[f][s] = execution[f][s] /\ method'[f][s] = method[f][s]
  /\ s \in running'[f] <=> s \in running[f]
  /\ s \in signalled'[f] <=> s \in signalled[f]
  /\ \A m \in Methods :
       InQueue([seq |-> s, method |-> m], requests'[f]) <=>
         InQueue([seq |-> s, method |-> m], requests[f])
  /\ OneCall(requests[f], s) => OneCall(requests'[f], s)
  /\ InQueue(s, aborts'[f]) <=> InQueue(s, aborts[f])
  /\ InQueue(Entry(s, None), outbox'[f]) <=> InQueue(Entry(s, None), outbox[f])
  /\ handling'[f][s] = handling[f][s]
  /\ s \in inflightRequests'[f] <=> s \in inflightRequests[f]
  /\ s \in runningIterators'[f] <=> s \in runningIterators[f]

SameEnd(f) == /\ f \in closed' <=> f \in closed
              /\ f \in failure' <=> f \in failure

SameEnds == closed' = closed /\ failure' = failure

(* Then the call is as it was.                                             *)
LEMMA Frame ==
  ASSUME NEW e \in Ends, NEW s \in Seqs, CallOK(e, s), SameEnds,
         SameCaller(e, s), SameServer(Peer(e), s),
         SameDown(channel[Peer(e)], channel'[Peer(e)], s), SameUp(channel[e], channel'[e], s)
  PROVE  CallOK(e, s)'
<1> USE DEF CallOK, SameEnds, SameCaller, SameServer, SameDown, SameUp
<1>1. /\ \A m : Holds(e, s, m)' <=> Holds(e, s, m)
      /\ GaveUp(e, s)' <=> GaveUp(e, s)
      /\ Unmade(e, s)' <=> Unmade(e, s)
  BY DEF Holds, GaveUp, Unmade
<1>2. Numbered(e, s)' /\ MapsMatch(e, s)'
  BY DEF Numbered, MapsMatch
<1>3. TracesMatch(e, s)' /\ ServedWasCalled(e, s)'
  BY <1>1 DEF TracesMatch, ServedWasCalled
<1>4. RequestIsFresh(e, s)'
  BY <1>1 DEF RequestIsFresh, Untouched
<1>5. RequestIsAlone(e, s)'
  BY DEF RequestIsAlone, Requested, Queued
<1>6. AbortWasSent(e, s)' /\ ResponseIsFinal(e, s)' /\ ForgottenWasGivenUp(e, s)'
  BY <1>1 DEF AbortWasSent, ResponseIsFinal, ForgottenWasGivenUp, Answered
<1>7. NotVanished(e, s)'
  BY DEF NotVanished, Excused, ValueUnderWay, StreamUnderWay, Requested, Queued, InService,
         Answered, EndPosted
<1>8. AbortIsLast(e, s)'
  BY <1>1 DEF AbortIsLast, Requested
<1> QED
  BY <1>2, <1>3, <1>4, <1>5, <1>6, <1>7, <1>8

-----------------------------------------------------------------------------
(* A post changes something for the call it is about, a take for the call  *)
(* its message is about, and neither changes anything for another.         *)
LEMMA PostElse ==
  ASSUME channel \in [Ends -> Seq(Message)], NEW g \in Ends, NEW y \in Message, Post(g, y)
  PROVE  /\ channel' \in [Ends -> Seq(Message)]
         /\ channel'[Peer(g)] = Append(channel[Peer(g)], y)
         /\ channel'[g] = channel[g]
         /\ \A d \in Ends, t \in Seqs :
              /\ d # g \/ y.seq # t \/ y.kind \notin {"Request", "Abort"} =>
                   SameDown(channel[Peer(d)], channel'[Peer(d)], t)
              /\ d = g \/ y.seq # t \/ y.kind \notin {"Response", "StreamEnd"} =>
                   SameUp(channel[d], channel'[d], t)
<1>1. PICK p \in Ends : p = Peer(g) /\ p # g /\ Peer(p) = g
  BY PeerProps
<1>2. /\ channel' \in [Ends -> Seq(Message)]
      /\ channel'[p] = Append(channel[p], y) /\ channel'[g] = channel[g]
      /\ channel[p] \in Seq(Message)
  BY <1>1, PostEffect
<1>3. \A d \in Ends : d = g \/ d = p
  BY <1>1, EndsAssumption
<1>4. \A d \in Ends, t \in Seqs :
        /\ d # g \/ y.seq # t \/ y.kind \notin {"Request", "Abort"} =>
             SameDown(channel[Peer(d)], channel'[Peer(d)], t)
        /\ d = g \/ y.seq # t \/ y.kind \notin {"Response", "StreamEnd"} =>
             SameUp(channel[d], channel'[d], t)
  BY <1>1, <1>2, <1>3, SameQueue, AddedSame
<1> QED
  BY <1>1, <1>2, <1>4

TakesHead(g) ==
  /\ channel[g] # <<>>
  /\ channel'[g] = Tail(channel[g])
  /\ channel'[Peer(g)] = channel[Peer(g)]

LEMMA TakeElse ==
  ASSUME channel \in [Ends -> Seq(Message)], NEW g \in Ends, NEW y, y = Head(channel[g]),
         TakesHead(g)
  PROVE  /\ y \in Message /\ channel[g] \in Seq(Message) /\ channel[g] # <<>>
         /\ \A d \in Ends, t \in Seqs :
              /\ d = g \/ y.seq # t \/ y.kind \notin {"Request", "Abort"} =>
                   SameDown(channel[Peer(d)], channel'[Peer(d)], t)
              /\ d # g \/ y.seq # t \/ y.kind \notin {"Response", "StreamEnd"} =>
                   SameUp(channel[d], channel'[d], t)
<1>1. PICK p \in Ends : p = Peer(g) /\ p # g /\ Peer(p) = g
  BY PeerProps
<1>2. \A d \in Ends : d = g \/ d = p
  BY <1>1, EndsAssumption
<1>3. /\ channel'[g] = Tail(channel[g]) /\ channel'[p] = channel[p]
      /\ channel[g] \in Seq(Message) /\ channel[g] # <<>>
  BY <1>1 DEF TakesHead
<1>4. \A d \in Ends, t \in Seqs :
        /\ d = g \/ y.seq # t \/ y.kind \notin {"Request", "Abort"} =>
             SameDown(channel[Peer(d)], channel'[Peer(d)], t)
        /\ d # g \/ y.seq # t \/ y.kind \notin {"Response", "StreamEnd"} =>
             SameUp(channel[d], channel'[d], t)
  BY <1>1, <1>2, <1>3, SameQueue, TakenSame
<1> QED
  BY <1>3, <1>4, QueueTail

-----------------------------------------------------------------------------
(* A call that has been made moves on at its caller, who may post an abort *)
(* when it gives the call up, or has taken an answer it no longer awaits.  *)
MovesOn(e, s) ==
  /\ Numbered(e, s)' /\ MapsMatch(e, s)'
  /\ \A m \in Methods : Holds(e, s, m) => Holds(e, s, m)'
  /\ GaveUp(e, s) => GaveUp(e, s)'
  /\ Unmade(e, s)' => Unmade(e, s)
  /\ call'[e][s] = "pending" => call[e][s] = "pending"
  /\ promise'[e][s] = "pending" => promise[e][s] = "pending"
  /\ s \in streamCallbacks'[e] => s \in streamCallbacks[e]
  /\ promise'[e][s] = "open" => promise[e][s] = "open"

MayAbort(e, s) ==
  LET q == channel[Peer(e)]
      r == channel'[Peer(e)] IN
    /\ \A m \in Methods : InQueue(RequestMsg(s, m), r) <=> InQueue(RequestMsg(s, m), q)
    /\ OneRequest(q, s) => OneRequest(r, s)
    /\ NoRequestBehind(q, s) => NoRequestBehind(r, s)
    /\ InQueue(AbortMsg(s), q) => InQueue(AbortMsg(s), r)
    /\ InQueue(AbortMsg(s), r) => InQueue(AbortMsg(s), q) \/ GaveUp(e, s)'
    /\ e \notin JsEnds /\ GaveUp(e, s)' => GaveUp(e, s) \/ InQueue(AbortMsg(s), r)

MayHear(e, s) ==
  /\ Answered(e, s)' => Answered(e, s)
  /\ EndPosted(e, s)' => EndPosted(e, s)
  /\ Answered(e, s) /\ ~ Answered(e, s)' => "pending" \notin {call'[e][s], promise'[e][s]}
  /\ EndPosted(e, s) /\ ~ EndPosted(e, s)' => s \notin streamCallbacks'[e] /\ promise'[e][s] # "open"

LEMMA CallerMovesTo ==
  ASSUME NEW e \in Ends, NEW s \in Seqs, CallOK(e, s), SameEnd(Peer(e)), SameServer(Peer(e), s),
         MovesOn(e, s), MayAbort(e, s), MayHear(e, s)
  PROVE  CallOK(e, s)'
<1> USE DEF CallOK, SameEnd, SameServer, MovesOn, MayAbort, MayHear
<1>1. TracesMatch(e, s)' /\ ServedWasCalled(e, s)'
  BY DEF TracesMatch, ServedWasCalled
<1>2. RequestIsFresh(e, s)'
  BY DEF RequestIsFresh, Untouched
<1>3. RequestIsAlone(e, s)'
  BY DEF RequestIsAlone, Requested, Queued
<1>4. AbortWasSent(e, s)' /\ ResponseIsFinal(e, s)' /\ ForgottenWasGivenUp(e, s)'
  BY DEF AbortWasSent, ResponseIsFinal, ForgottenWasGivenUp
<1>5. NotVanished(e, s)'
  <2>1. Excused(e, s)' <=> Excused(e, s)
    BY DEF Excused
  <2>2. /\ Requested(e, s)' <=> Requested(e, s)
        /\ Queued(e, s)' <=> Queued(e, s)
        /\ InService(e, s)' <=> InService(e, s)
    BY DEF Requested, Queued, InService
  <2> QED
    BY <2>1, <2>2 DEF NotVanished, ValueUnderWay, StreamUnderWay
<1>6. AbortIsLast(e, s)'
  BY DEF AbortIsLast, Requested
<1> QED
  BY <1>1, <1>2, <1>3, <1>4, <1>5, <1>6

LEMMA CallerMoves ==
  ASSUME NEW e \in Ends, NEW s \in Seqs, CallOK(e, s), SameEnds, SameServer(Peer(e), s),
         MovesOn(e, s), MayAbort(e, s), MayHear(e, s)
  PROVE  CallOK(e, s)'
BY CallerMovesTo DEF SameEnds, SameEnd

(* A call that is made is new to both ends.                                *)
LEMMA UnmadeFacts ==
  ASSUME NEW e \in Ends, NEW s \in Seqs, CallOK(e, s), Unmade(e, s)
  PROVE  /\ \A m \in Methods : ~ Holds(e, s, m)
         /\ ~ GaveUp(e, s)
         /\ Untouched(Peer(e), s)
         /\ ~ Requested(e, s) /\ ~ Queued(e, s)
         /\ ~ InQueue(AbortMsg(s), channel[Peer(e)])
         /\ ~ InQueue(s, aborts[Peer(e)]) /\ s \notin signalled[Peer(e)]
         /\ ~ Answered(e, s)
<1> USE DEF CallOK
<1>1. \A m \in Methods : ~ Holds(e, s, m)
  BY DEF Unmade, Holds, HeldFor, PromisedFor
<1>2. ~ GaveUp(e, s)
  BY DEF Unmade, GaveUp, MapsMatch
<1> QED
  BY <1>1, <1>2
  DEF Untouched, ServedWasCalled, RequestIsFresh, AbortWasSent, ResponseIsFinal, Requested, Queued

LEMMA NewMove ==
  ASSUME NEW e \in Ends, NEW s \in Seqs, NEW m \in Methods,
         CallOK(e, s), SameEnds, SameServer(Peer(e), s), Unmade(e, s),
         channel \in [Ends -> Seq(Message)], Post(e, RequestMsg(s, m)),
         Numbered(e, s)', MapsMatch(e, s)', Holds(e, s, m)', ~ GaveUp(e, s)'
  PROVE  CallOK(e, s)'
<1> DEFINE q == channel[Peer(e)]
           r == channel'[Peer(e)]
<1>1. /\ RequestMsg(s, m) \in Message /\ RequestMsg(s, m).kind = "Request"
      /\ RequestMsg(s, m).seq = s /\ RequestMsg(s, m).method = m
  BY MessageFacts
<1>2. r = Append(q, RequestMsg(s, m)) /\ SameUp(channel[e], channel'[e], s) /\ q \in Seq(Message)
  BY <1>1, PostElse, PeerProps
<1>3. /\ \A n \in Methods : InQueue(RequestMsg(s, n), r) <=> InQueue(RequestMsg(s, n), q) \/ n = m
      /\ InQueue(AbortMsg(s), r) <=> InQueue(AbortMsg(s), q)
  BY <1>1, <1>2, AddedFlags
<1>4. /\ \A n \in Methods : ~ Holds(e, s, n)
      /\ ~ GaveUp(e, s)
      /\ Untouched(Peer(e), s)
      /\ ~ Requested(e, s) /\ ~ Queued(e, s)
      /\ ~ InQueue(AbortMsg(s), q)
      /\ ~ InQueue(s, aborts[Peer(e)]) /\ s \notin signalled[Peer(e)]
      /\ ~ Answered(e, s)
  BY UnmadeFacts
<1>5. OneRequest(r, s) /\ NoRequestBehind(r, s)
  BY <1>1, <1>2, <1>4, AddedOrder DEF Requested
<1> HIDE DEF q, r
<1> USE DEF CallOK, SameEnds, SameServer, SameUp
<1>6. TracesMatch(e, s)'
  BY DEF TracesMatch
<1>7. ServedWasCalled(e, s)'
  BY <1>4 DEF ServedWasCalled, Untouched
<1>8. RequestIsFresh(e, s)'
  BY <1>3, <1>4 DEF RequestIsFresh, Untouched, Requested, Queued, q, r
<1>9. RequestIsAlone(e, s)'
  BY <1>4, <1>5 DEF RequestIsAlone, Queued, r
<1>10. AbortWasSent(e, s)'
  BY <1>3, <1>4 DEF AbortWasSent, q, r
<1>13. ResponseIsFinal(e, s)'
  <2>1. ~ Answered(e, s)'
    BY <1>2, <1>4 DEF Answered
  <2> QED
    BY <2>1 DEF ResponseIsFinal
<1>14. ForgottenWasGivenUp(e, s)'
  BY <1>4 DEF ForgottenWasGivenUp, Untouched
<1>11. NotVanished(e, s)'
  BY <1>3 DEF NotVanished, ValueUnderWay, StreamUnderWay, Requested, r
<1>12. AbortIsLast(e, s)'
  BY <1>5 DEF AbortIsLast, r
<1> QED
  BY <1>6, <1>7, <1>8, <1>9, <1>10, <1>11, <1>12, <1>13, <1>14

-----------------------------------------------------------------------------
(* When a caller moves, every call but its own is left alone.              *)
LEMMA CallerFrame ==
  ASSUME NEW e \in Ends, NEW s \in Seqs, \A d \in Ends, t \in Seqs : CallOK(d, t),
         SameEnds, \A f \in Ends, t \in Seqs : SameServer(f, t),
         \A d \in Ends, t \in Seqs : d # e \/ t # s =>
           /\ SameCaller(d, t)
           /\ SameDown(channel[Peer(d)], channel'[Peer(d)], t)
           /\ SameUp(channel[d], channel'[d], t),
         CallOK(e, s)'
  PROVE  \A d \in Ends, t \in Seqs : CallOK(d, t)'
BY Frame, PeerProps

(* It posts nothing, it posts an abort, or it takes an answer.             *)
LEMMA NothingPosted ==
  ASSUME NEW e \in Ends, NEW s \in Seqs, channel' = channel,
         e \notin JsEnds /\ GaveUp(e, s)' => GaveUp(e, s)
  PROVE  /\ MayAbort(e, s) /\ MayHear(e, s)
         /\ \A d \in Ends, t \in Seqs : /\ SameDown(channel[Peer(d)], channel'[Peer(d)], t)
                                        /\ SameUp(channel[d], channel'[d], t)
BY SameQueue DEF MayAbort, MayHear, Answered, EndPosted

LEMMA AbortPosted ==
  ASSUME NEW e \in Ends, NEW s \in Seqs, channel \in [Ends -> Seq(Message)],
         Post(e, AbortMsg(s)), GaveUp(e, s)'
  PROVE  /\ MayAbort(e, s) /\ MayHear(e, s)
         /\ \A d \in Ends, t \in Seqs : d # e \/ t # s =>
              /\ SameDown(channel[Peer(d)], channel'[Peer(d)], t)
              /\ SameUp(channel[d], channel'[d], t)
<1>1. AbortMsg(s) \in Message /\ AbortMsg(s).kind = "Abort" /\ AbortMsg(s).seq = s
  BY MessageFacts
<1>2. /\ channel[Peer(e)] \in Seq(Message)
      /\ channel'[Peer(e)] = Append(channel[Peer(e)], AbortMsg(s)) /\ channel'[e] = channel[e]
      /\ \A d \in Ends, t \in Seqs :
           /\ d # e \/ t # s => SameDown(channel[Peer(d)], channel'[Peer(d)], t)
           /\ SameUp(channel[d], channel'[d], t)
  BY <1>1, PostElse, PeerProps
<1>3. MayAbort(e, s)
  BY <1>1, <1>2, AddedFlags, AddedOrder DEF MayAbort, IsRequest
<1> QED
  BY <1>2, <1>3 DEF MayHear, Answered, EndPosted

LEMMA AnswerTaken ==
  ASSUME NEW e \in Ends, NEW s \in Seqs, channel \in [Ends -> Seq(Message)], TakesHead(e),
         NEW y, y = Head(channel[e]), y.seq = s, y.kind \notin {"Request", "Abort"},
         e \notin JsEnds /\ GaveUp(e, s)' => GaveUp(e, s),
         y.kind = "Response" => "pending" \notin {call'[e][s], promise'[e][s]},
         y.kind = "StreamEnd" => s \notin streamCallbacks'[e] /\ promise'[e][s] # "open"
  PROVE  /\ MayAbort(e, s) /\ MayHear(e, s)
         /\ \A d \in Ends, t \in Seqs : d # e \/ t # s =>
              /\ SameDown(channel[Peer(d)], channel'[Peer(d)], t)
              /\ SameUp(channel[d], channel'[d], t)
<1>1. /\ channel[e] \in Seq(Message) /\ channel[e] # <<>> /\ channel'[e] = Tail(channel[e])
      /\ channel'[Peer(e)] = channel[Peer(e)]
      /\ \A d \in Ends, t \in Seqs : d # e \/ t # s =>
           /\ SameDown(channel[Peer(d)], channel'[Peer(d)], t)
           /\ SameUp(channel[d], channel'[d], t)
  BY TakeElse DEF TakesHead
<1>2. MayAbort(e, s)
  BY <1>1 DEF MayAbort
<1>3. MayHear(e, s)
  BY <1>1, TakenFlags DEF MayHear, Answered, EndPosted
<1> QED
  BY <1>1, <1>2, <1>3

-----------------------------------------------------------------------------
(* A Rust interface.  Only a Rust end takes its steps, and a step of one   *)
(* end changes what that end has.                                          *)
LEMMA RustEnd ==
  ASSUME JInv, NEW e \in Ends, InterfaceStep(e)
  PROVE  e \notin JsEnds
<1>1. SUFFICES ASSUME e \in JsEnds PROVE FALSE
  OBVIOUS
<1>2. e \notin Clients /\ e \notin Servers /\ \A s \in Seqs : call[e][s] = "idle"
  BY <1>1, SidesAssumption DEF JInv, OwnKind, NoRustState
<1>3. ~ Driven(e)
  BY <1>2 DEF Driven, Polling
<1>4. ~ NewCall(e) /\ ~ ServiceStep(e)
  BY <1>2 DEF NewCall, Notify, Request, Stream, Send, ServiceStep
<1>5. ~ Dispatch(e)
  BY <1>3
  DEF Dispatch, DispatchRequest, DispatchAbort, DispatchResponse, DispatchStreamItem,
      DispatchStreamEnd, TakeMessage
<1>6. \A s \in Seqs : ~ CallerStep(e, s)
  BY <1>2 DEF CallerStep, PollResponse, DropRequest, PollItem, PollNone, Close, DropStream
<1> QED
  BY <1>4, <1>5, <1>6 DEF InterfaceStep

LEMMA ServerUnchanged ==
  ASSUME UNCHANGED <<serviceVars, jsVars>>
  PROVE  SameEnds /\ \A f \in Ends, t \in Seqs : SameServer(f, t)
BY DEF serviceVars, jsVars, jsHandlerVars, SameEnds, SameServer

(* What a Rust caller's step writes.                                       *)
LEMMA RustCallerWrites ==
  ASSUME TypeOK, NEW e \in Ends, NEW s \in Seqs, NEW to \in CallStates, SetCall(e, s, to),
         \/ callbacks' = callbacks
         \/ callbacks' = [callbacks EXCEPT ![e] = @ \ {s}],
         \/ streamCallbacks' = streamCallbacks
         \/ streamCallbacks' = [streamCallbacks EXCEPT ![e] = @ \ {s}],
         sequence' = sequence, UNCHANGED jsVars
  PROVE  /\ call'[e][s] = to /\ promise'[e][s] = promise[e][s]
         /\ s \in callbacks'[e] => s \in callbacks[e]
         /\ s \in streamCallbacks'[e] => s \in streamCallbacks[e]
         /\ \A d \in Ends, t \in Seqs : d # e \/ t # s => SameCaller(d, t)
<1>1. /\ call'[e][s] = to
      /\ \A d \in Ends, t \in Seqs : d # e \/ t # s => call'[d][t] = call[d][t]
  BY DEF SetCall, TypeOK, ClientTypeOK
<1>2. /\ s \in callbacks'[e] => s \in callbacks[e]
      /\ \A d \in Ends, t \in Seqs : d # e \/ t # s => (t \in callbacks'[d] <=> t \in callbacks[d])
  BY DEF TypeOK, ClientTypeOK
<1>3. /\ s \in streamCallbacks'[e] => s \in streamCallbacks[e]
      /\ \A d \in Ends, t \in Seqs : d # e \/ t # s =>
           (t \in streamCallbacks'[d] <=> t \in streamCallbacks[d])
  BY DEF TypeOK, ClientTypeOK
<1> QED
  BY <1>1, <1>2, <1>3 DEF SameCaller, jsVars, jsCallerVars

LEMMA RustCallerOK ==
  ASSUME JInv, NEW e \in Ends, NEW s \in Seqs, e \notin JsEnds, CallerStep(e, s),
         UNCHANGED <<serviceVars, jsVars>>
  PROVE  \A d \in Ends, t \in Seqs : CallOK(d, t)'
<1> USE DEF JInv
<1>1. SameEnds /\ \A f \in Ends, t \in Seqs : SameServer(f, t)
  BY ServerUnchanged
<1>2. Numbered(e, s) /\ MapsMatch(e, s) /\ promise[e][s] = "idle" /\ Peer(e) \in Ends
  BY PeerProps DEF CallOK, OwnKind, NoJsState
<1>3. CASE PollItem(e, s)
  <2>1. \A d \in Ends, t \in Seqs : SameCaller(d, t)
    BY <1>3 DEF PollItem, SameCaller, jsVars, jsCallerVars
  <2>2. channel' = channel
    BY <1>3 DEF PollItem
  <2> QED
    BY <1>1, <2>1, <2>2, Frame, SameQueue, PeerProps
<1>4. ASSUME NEW to \in CallStates, SetCall(e, s, to),
             callbacks' = callbacks \/ callbacks' = [callbacks EXCEPT ![e] = @ \ {s}],
             \/ streamCallbacks' = streamCallbacks
             \/ streamCallbacks' = [streamCallbacks EXCEPT ![e] = @ \ {s}],
             sequence' = sequence,
             s \notin callbacks'[e], s \notin streamCallbacks'[e],
             \/ call[e][s] = "responded" /\ to = "done" /\ channel' = channel
             \/ call[e][s] = "open" /\ to = "ended" /\ channel' = channel
             \/ call[e][s] = "closed" /\ to \in {"drained", "dropped"} /\ channel' = channel
             \/ /\ call[e][s] \in {"pending", "responded", "open"}
                /\ to \in {"closed", "dropped"}
                /\ call[e][s] # "open" => to = "dropped"
                /\ Post(e, AbortMsg(s))
      PROVE  \A d \in Ends, t \in Seqs : CallOK(d, t)'
    <2>1. /\ call'[e][s] = to /\ promise'[e][s] = "idle"
          /\ \A d \in Ends, t \in Seqs : d # e \/ t # s => SameCaller(d, t)
      BY <1>2, <1>4, RustCallerWrites
    <2>2. MapsMatch(e, s)' /\ Numbered(e, s)'
      BY <1>2, <1>4, <2>1 DEF MapsMatch, Numbered, jsVars, jsCallerVars
    <2>3. MovesOn(e, s)
      BY <1>2, <1>4, <2>1, <2>2 DEF MovesOn, Holds, HeldFor, GaveUp, Unmade
    <2>4. GaveUp(e, s)' <=> to \in {"dropped", "closed", "drained"}
      BY <2>1 DEF GaveUp
    <2>5. GaveUp(e, s) <=> call[e][s] \in {"dropped", "closed", "drained"}
      BY DEF GaveUp
    <2>6. CASE channel' = channel /\ (GaveUp(e, s)' => GaveUp(e, s))
      BY <1>1, <1>2, <2>1, <2>3, <2>6, NothingPosted, CallerMoves, CallerFrame
    <2>7. CASE Post(e, AbortMsg(s)) /\ to \in {"closed", "dropped"}
      BY <1>1, <1>2, <2>1, <2>3, <2>4, <2>7, AbortPosted, CallerMoves, CallerFrame DEF TypeOK
    <2> QED
      BY <1>4, <2>4, <2>5, <2>6, <2>7
<1>5. CASE PollResponse(e, s)
  BY <1>2, <1>4, <1>5 DEF PollResponse, CallStates, MapsMatch
<1>6. CASE DropRequest(e, s)
  <2>1. s \notin callbacks'[e] /\ s \notin streamCallbacks'[e]
    BY <1>2, <1>6 DEF DropRequest, MapsMatch, TypeOK, ClientTypeOK
  <2> QED
    BY <1>4, <1>6, <2>1 DEF DropRequest, CallStates
<1>7. CASE PollNone(e, s)
  BY <1>2, <1>4, <1>7 DEF PollNone, CallStates, MapsMatch
<1>8. CASE Close(e, s)
  <2>1. s \notin callbacks'[e] /\ s \notin streamCallbacks'[e]
    BY <1>2, <1>8 DEF Close, FireStreamAbort, MapsMatch, TypeOK, ClientTypeOK
  <2> QED
    BY <1>4, <1>8, <2>1 DEF Close, FireStreamAbort, CallStates
<1>9. CASE DropStream(e, s)
  <2>1. s \notin callbacks'[e] /\ s \notin streamCallbacks'[e]
    BY <1>2, <1>9 DEF DropStream, FireStreamAbort, MapsMatch, TypeOK, ClientTypeOK
  <2>2. "dropped" \in CallStates
    BY DEF CallStates
  <2>3. CASE call[e][s] = "open" /\ FireStreamAbort(e, s)
    BY <1>4, <1>9, <2>1, <2>2, <2>3 DEF DropStream, FireStreamAbort
  <2>4. CASE call[e][s] = "closed" /\ UNCHANGED <<streamCallbacks, channel>>
    BY <1>4, <1>9, <2>1, <2>2, <2>4 DEF DropStream
  <2> QED
    BY <1>9, <2>3, <2>4 DEF DropStream
<1> QED
  BY <1>3, <1>5, <1>6, <1>7, <1>8, <1>9 DEF CallerStep

LEMMA RustNewOK ==
  ASSUME JInv, NEW e \in Ends, e \notin JsEnds, NewCall(e), UNCHANGED <<serviceVars, jsVars>>
  PROVE  \A d \in Ends, t \in Seqs : CallOK(d, t)'
<1> USE DEF JInv
<1>1. SameEnds /\ \A f \in Ends, t \in Seqs : SameServer(f, t)
  BY ServerUnchanged
<1>2. PICK m \in Methods : Notify(e, m) \/ Request(e, m) \/ Stream(e, m)
  BY DEF NewCall
<1>3. Send(e, m)
  BY <1>2 DEF Notify, Request, Stream
<1>4. PICK s \in Seqs : s = sequence[e]
  BY <1>3, BoundsAssumption DEF Send, TypeOK, ClientTypeOK, Seqs
<1>5. Post(e, RequestMsg(s, m)) /\ sequence' = [sequence EXCEPT ![e] = @ + 1]
  BY <1>3, <1>4 DEF Send
<1>6. /\ CallOK(e, s) /\ promise[e][s] = "idle" /\ s \notin stopped[e]
      /\ s \notin pendingRequests[e] /\ s \notin openStreams[e] /\ Peer(e) \in Ends
  BY PeerProps DEF OwnKind, NoJsState
<1>7. call[e][s] = "idle" /\ s \notin callbacks[e] /\ s \notin streamCallbacks[e]
  <2>1. ~ (s < sequence[e])
    BY <1>4 DEF TypeOK, ClientTypeOK, Seqs
  <2> QED
    BY <1>6, <2>1 DEF CallOK, Numbered, MapsMatch
<1>8. PICK held \in HeldFor(m) :
        /\ held \in {"notified", "pending", "open"}
        /\ SetCall(e, s, held)
        /\ callbacks' = [callbacks EXCEPT ![e] = @ \cup (IF held = "pending" THEN {s} ELSE {})]
        /\ streamCallbacks' =
             [streamCallbacks EXCEPT ![e] = @ \cup (IF held = "open" THEN {s} ELSE {})]
  <2>1. CASE Notify(e, m)
    BY <1>4, <2>1 DEF Notify, HeldFor, TypeOK, ClientTypeOK
  <2>2. CASE Request(e, m)
    BY <1>4, <2>2 DEF Request, HeldFor, TypeOK, ClientTypeOK, NotifyMethods, ValueMethods
  <2>3. CASE Stream(e, m)
    BY <1>4, <2>3
    DEF Stream, HeldFor, TypeOK, ClientTypeOK, NotifyMethods, ValueMethods, StreamMethods
  <2> QED
    BY <1>2, <2>1, <2>2, <2>3
<1>9. /\ call'[e][s] = held
      /\ \A d \in Ends, t \in Seqs : d # e \/ t # s => call'[d][t] = call[d][t]
      /\ s \in callbacks'[e] <=> held = "pending"
      /\ s \in streamCallbacks'[e] => held = "open"
      /\ \A d \in Ends, t \in Seqs : d # e \/ t # s =>
           /\ t \in callbacks'[d] <=> t \in callbacks[d]
           /\ t \in streamCallbacks'[d] <=> t \in streamCallbacks[d]
  BY <1>7, <1>8 DEF SetCall, TypeOK, ClientTypeOK
<1>10. /\ s < sequence'[e]
       /\ \A d \in Ends, t \in Seqs : t < sequence[d] => t < sequence'[d]
  BY <1>4, <1>5 DEF TypeOK, ClientTypeOK, Seqs
<1>11. \A d \in Ends, t \in Seqs : d # e \/ t # s => SameCaller(d, t)
  BY <1>9, <1>10 DEF SameCaller, jsVars, jsCallerVars
<1>12. \A d \in Ends, t \in Seqs : d # e \/ t # s =>
         /\ SameDown(channel[Peer(d)], channel'[Peer(d)], t)
         /\ SameUp(channel[d], channel'[d], t)
  <2>1. RequestMsg(s, m) \in Message /\ RequestMsg(s, m).kind = "Request" /\ RequestMsg(s, m).seq = s
    BY MessageFacts
  <2> QED
    BY <1>5, <2>1, PostElse DEF TypeOK
<1>13. UNCHANGED <<promise, stopped, pendingRequests, openStreams, nextSequence>>
  BY DEF jsVars, jsCallerVars
<1>14. Numbered(e, s)' /\ MapsMatch(e, s)'
  BY <1>6, <1>8, <1>9, <1>10, <1>13 DEF Numbered, MapsMatch
<1>15. Holds(e, s, m)' /\ ~ GaveUp(e, s)' /\ Unmade(e, s)
  BY <1>6, <1>7, <1>8, <1>9 DEF Holds, GaveUp, Unmade
<1>16. CallOK(e, s)'
  BY <1>1, <1>5, <1>6, <1>14, <1>15, NewMove DEF TypeOK
<1> QED
  BY <1>1, <1>11, <1>12, <1>16, CallerFrame

(* The dispatcher hands an answer to its caller.                           *)
LEMMA RustAnswerOK ==
  ASSUME JInv, NEW e \in Ends, e \notin JsEnds,
         DispatchResponse(e) \/ DispatchStreamItem(e) \/ DispatchStreamEnd(e), UNCHANGED jsVars
  PROVE  \A d \in Ends, t \in Seqs : CallOK(d, t)'
<1> USE DEF JInv
<1>1. SameEnds /\ \A f \in Ends, t \in Seqs : SameServer(f, t)
  BY ServerUnchanged DEF DispatchResponse, DispatchStreamItem, DispatchStreamEnd
<1>2. PICK kind \in {"Response", "StreamItem", "StreamEnd"} : TakeMessage(e, kind)
  BY DEF DispatchResponse, DispatchStreamItem, DispatchStreamEnd
<1>3. PICK y \in Message, s \in Seqs : y = Head(channel[e]) /\ s = y.seq /\ y.kind = kind
  BY <1>2, TakeEffect, MessageShapes DEF TypeOK
<1>4. TakesHead(e)
  BY <1>2, TakeEffect, PeerProps DEF TakesHead, TypeOK
<1>5. Numbered(e, s) /\ MapsMatch(e, s) /\ promise[e][s] = "idle" /\ Peer(e) \in Ends
      /\ CallOK(e, s)
  BY PeerProps DEF CallOK, OwnKind, NoJsState
<1>6. PICK to \in CallStates :
        /\ SetCall(e, s, to) /\ sequence' = sequence
        /\ to = call[e][s] \/ (call[e][s] = "pending" /\ to = "responded")
        /\ kind = "Response" => to # "pending"
        /\ callbacks' = (IF kind = "Response" THEN [callbacks EXCEPT ![e] = @ \ {s}] ELSE callbacks)
        /\ kind # "Response" => to = call[e][s]
        /\ streamCallbacks' = (IF kind = "StreamEnd"
             THEN [streamCallbacks EXCEPT ![e] = @ \ {s}] ELSE streamCallbacks)
  <2>1. ASSUME call' = call
        PROVE  SetCall(e, s, call[e][s]) /\ call[e][s] \in CallStates
    BY <2>1 DEF SetCall, TypeOK, ClientTypeOK
  <2>2. CASE DispatchResponse(e)
    <3>1. kind = "Response"
      BY <1>3, <2>2 DEF DispatchResponse, TakeMessage
    <3>2. CASE s \in callbacks[e]
      BY <1>3, <1>5, <2>2, <3>1, <3>2 DEF DispatchResponse, OnResponse, MapsMatch, CallStates
    <3>3. CASE s \notin callbacks[e]
      BY <1>3, <1>5, <2>1, <2>2, <3>1, <3>3 DEF DispatchResponse, OnResponse, MapsMatch
    <3> QED
      BY <3>2, <3>3
  <2>3. CASE DispatchStreamItem(e)
    <3>1. kind = "StreamItem"
      BY <1>3, <2>3 DEF DispatchStreamItem, TakeMessage
    <3> QED
      BY <1>3, <2>1, <2>3, <3>1 DEF DispatchStreamItem, OnStreamItem
  <2>4. CASE DispatchStreamEnd(e)
    <3>1. kind = "StreamEnd"
      BY <1>3, <2>4 DEF DispatchStreamEnd, TakeMessage
    <3> QED
      BY <1>3, <2>1, <2>4, <3>1 DEF DispatchStreamEnd, OnStreamEnd
  <2> QED
    BY <2>2, <2>3, <2>4
<1>7. /\ call'[e][s] = to /\ promise'[e][s] = "idle"
      /\ \A d \in Ends, t \in Seqs : d # e \/ t # s => SameCaller(d, t)
  BY <1>5, <1>6, RustCallerWrites
<1>8. /\ s \in callbacks'[e] <=> s \in callbacks[e] /\ kind # "Response"
      /\ s \in streamCallbacks'[e] <=> s \in streamCallbacks[e] /\ kind # "StreamEnd"
  BY <1>6 DEF TypeOK, ClientTypeOK
<1>9. Numbered(e, s)' /\ MapsMatch(e, s)'
  BY <1>5, <1>6, <1>7, <1>8 DEF Numbered, MapsMatch, jsVars, jsCallerVars
<1>10. MovesOn(e, s)
  BY <1>5, <1>6, <1>7, <1>8, <1>9 DEF MovesOn, Holds, HeldFor, GaveUp, Unmade
<1>11. GaveUp(e, s)' => GaveUp(e, s)
  BY <1>6, <1>7 DEF GaveUp
<1>12. /\ MayAbort(e, s) /\ MayHear(e, s)
       /\ \A d \in Ends, t \in Seqs : d # e \/ t # s =>
            /\ SameDown(channel[Peer(d)], channel'[Peer(d)], t)
            /\ SameUp(channel[d], channel'[d], t)
  BY <1>3, <1>4, <1>6, <1>7, <1>8, <1>11, AnswerTaken DEF TypeOK
<1>13. CallOK(e, s)'
  BY <1>1, <1>5, <1>10, <1>12, CallerMoves
<1> QED
  BY <1>1, <1>7, <1>12, <1>13, CallerFrame

-----------------------------------------------------------------------------
(* The queue of requests the dispatcher handed over: one more, one less.   *)
LEMMA CallsAdded ==
  ASSUME NEW q \in Seq(Inbound), NEW y \in Inbound, NEW s \in Seqs
  PROVE  /\ \A m \in Methods : InQueue([seq |-> s, method |-> m], Append(q, y)) <=>
              InQueue([seq |-> s, method |-> m], q) \/ (y.seq = s /\ y.method = m)
         /\ y.seq # s /\ OneCall(q, s) => OneCall(Append(q, y), s)
         /\ (\A m \in Methods : ~ InQueue([seq |-> s, method |-> m], q)) => OneCall(Append(q, y), s)
<1> DEFINE n == Len(q)
           r == Append(q, y)
<1>1. /\ n \in Nat /\ DOMAIN q = 1 .. n /\ DOMAIN r = 1 .. n + 1 /\ r[n + 1] = y
      /\ \A i \in 1 .. n : r[i] = q[i] /\ q[i] \in Inbound
  BY Positions
<1>2. \A m \in Methods : y = [seq |-> s, method |-> m] <=> y.seq = s /\ y.method = m
  BY DEF Inbound
<1>3. \A x : InQueue(x, r) <=> InQueue(x, q) \/ x = y
  BY QueueAppend
<1> HIDE DEF n, r
<1>4. y.seq # s /\ OneCall(q, s) => OneCall(r, s)
  BY <1>1 DEF OneCall
<1>5. ASSUME \A m \in Methods : ~ InQueue([seq |-> s, method |-> m], q)
      PROVE  OneCall(r, s)
  <2>1. ASSUME NEW i \in 1 .. n, q[i].seq = s
        PROVE  FALSE
    <3>1. q[i].method \in Methods /\ q[i] = [seq |-> s, method |-> q[i].method]
      BY <1>1, <2>1 DEF Inbound
    <3> QED
      BY <1>1, <1>5, <3>1 DEF InQueue
  <2> QED
    BY <1>1, <2>1 DEF OneCall
<1> QED
  BY <1>2, <1>3, <1>4, <1>5 DEF r

LEMMA CallsTaken ==
  ASSUME NEW q \in Seq(Inbound), q # <<>>, NEW s \in Seqs, NEW y, y = Head(q)
  PROVE  /\ y \in Inbound /\ y.seq \in Seqs /\ y.method \in Methods
         /\ \A m \in Methods : InQueue([seq |-> s, method |-> m], q) <=>
              InQueue([seq |-> s, method |-> m], Tail(q)) \/ (y.seq = s /\ y.method = m)
         /\ OneCall(q, s) =>
              /\ OneCall(Tail(q), s)
              /\ y.seq = s => \A m \in Methods : ~ InQueue([seq |-> s, method |-> m], Tail(q))
<1> DEFINE n == Len(q)
           r == Tail(q)
<1>1. /\ n \in Nat /\ DOMAIN q = 1 .. n /\ 1 \in DOMAIN q /\ y = q[1]
      /\ DOMAIN r = 1 .. n - 1
      /\ \A i \in 1 .. n - 1 : r[i] = q[i + 1]
  BY Positions
<1>2. y \in Inbound /\ \A x : InQueue(x, q) <=> x = y \/ InQueue(x, r)
  BY QueueTail
<1>3. /\ y.seq \in Seqs /\ y.method \in Methods
      /\ \A m \in Methods : y = [seq |-> s, method |-> m] <=> y.seq = s /\ y.method = m
  BY <1>2 DEF Inbound
<1> HIDE DEF n, r
<1>4. \A i \in DOMAIN r : i + 1 \in DOMAIN q /\ 1 # i + 1 /\ r[i] = q[i + 1]
  BY <1>1
<1>5. ASSUME OneCall(q, s)
      PROVE  /\ OneCall(r, s)
             /\ y.seq = s => \A m \in Methods : ~ InQueue([seq |-> s, method |-> m], r)
  <2>1. ASSUME NEW i \in DOMAIN r, NEW j \in DOMAIN r, r[i].seq = s, r[j].seq = s
        PROVE  i = j
    <3>1. i + 1 = j + 1
      BY <1>4, <1>5, <2>1 DEF OneCall
    <3> QED
      BY <1>1, <3>1
  <2>2. ASSUME y.seq = s, NEW m \in Methods, NEW i \in DOMAIN r, r[i] = [seq |-> s, method |-> m]
        PROVE  FALSE
    <3>1. i + 1 \in DOMAIN q /\ 1 # i + 1 /\ q[i + 1].seq = s
      BY <1>4, <2>2
    <3> QED
      BY <1>1, <1>5, <2>2, <3>1 DEF OneCall
  <2> QED
    BY <2>1, <2>2 DEF OneCall, InQueue
<1> QED
  BY <1>2, <1>3, <1>5 DEF r

-----------------------------------------------------------------------------
(* When a server moves, its call is the only one that is not left alone,   *)
(* and what the caller of that call has is what it had.                    *)
LEMMA ServerFrame ==
  ASSUME NEW g \in Ends, NEW s \in Seqs, \A d \in Ends, t \in Seqs : CallOK(d, t),
         SameEnds, \A d \in Ends, t \in Seqs : SameCaller(d, t),
         \A f \in Ends, t \in Seqs : f # g \/ t # s => SameServer(f, t),
         \A d \in Ends, t \in Seqs : d # Peer(g) \/ t # s =>
           /\ SameDown(channel[Peer(d)], channel'[Peer(d)], t)
           /\ SameUp(channel[d], channel'[d], t),
         CallOK(Peer(g), s)'
  PROVE  \A d \in Ends, t \in Seqs : CallOK(d, t)'
<1>1. ASSUME NEW d \in Ends, NEW t \in Seqs, d # Peer(g) \/ t # s
      PROVE  CallOK(d, t)'
  <2>1. Peer(d) \in Ends /\ (Peer(d) # g \/ t # s)
    BY <1>1, PeerProps
  <2> QED
    BY <1>1, <2>1, Frame
<1> QED
  BY <1>1

LEMMA CallerUnchanged ==
  ASSUME UNCHANGED <<clientVars, jsCallerVars>>
  PROVE  \A d \in Ends, t \in Seqs : SameCaller(d, t)
BY DEF clientVars, jsCallerVars, SameCaller

LEMMA CallerKeeps ==
  ASSUME NEW e \in Ends, NEW s \in Seqs, CallOK(e, s), SameEnds \/ SameEnd(e), SameCaller(e, s)
  PROVE  /\ Numbered(e, s)' /\ MapsMatch(e, s)'
         /\ \A m : Holds(e, s, m)' <=> Holds(e, s, m)
         /\ GaveUp(e, s)' <=> GaveUp(e, s)
         /\ Unmade(e, s)' <=> Unmade(e, s)
         /\ call'[e][s] = call[e][s] /\ promise'[e][s] = promise[e][s]
         /\ s \in streamCallbacks'[e] <=> s \in streamCallbacks[e]
BY DEF CallOK, SameEnds, SameEnd, SameCaller, Numbered, MapsMatch, Holds, GaveUp, Unmade

(* What is asked of the step of a Rust server.                             *)
AsksNoMore(g, s) ==
  \A m \in Methods :
    \/ InQueue(RequestMsg(s, m), channel'[g])
    \/ InQueue([seq |-> s, method |-> m], requests'[g])
    => /\ \/ InQueue(RequestMsg(s, m), channel[g])
          \/ InQueue([seq |-> s, method |-> m], requests[g])
       /\ execution'[g][s] = execution[g][s]

AbortsNoMore(g, s) ==
  \/ InQueue(AbortMsg(s), channel'[g]) \/ InQueue(s, aborts'[g]) \/ s \in signalled'[g]
  => InQueue(AbortMsg(s), channel[g]) \/ InQueue(s, aborts[g]) \/ s \in signalled[g]

ServesCalled(g, s) ==
  execution'[g][s] # "none" =>
    \/ execution[g][s] # "none" /\ method'[g][s] = method[g][s]
    \/ /\ method'[g][s] \in Methods
       /\ InQueue([seq |-> s, method |-> method'[g][s]], requests[g])

KeepsUnderWay(e, s) ==
  /\ "pending" \in {call[e][s], promise[e][s]} /\ ValueUnderWay(e, s) => ValueUnderWay(e, s)'
  /\ s \in streamCallbacks[e] \/ promise[e][s] = "open" =>
       (StreamUnderWay(e, s) => StreamUnderWay(e, s)')

LEMMA RustServerMoves ==
  ASSUME NEW e \in Ends, NEW s \in Seqs, NEW g \in Ends, g = Peer(e), g \notin JsEnds,
         CallOK(e, s), SameEnds, SameCaller(e, s), jsHandlerVars' = jsHandlerVars,
         handling[g][s] = "none",
         TracesMatch(e, s)', RequestIsAlone(e, s)',
         AsksNoMore(g, s), AbortsNoMore(g, s), ServesCalled(g, s), KeepsUnderWay(e, s),
         Answered(e, s)' => \/ Answered(e, s) /\ execution'[g][s] = execution[g][s]
                            \/ execution'[g][s] = "finished"
  PROVE  CallOK(e, s)'
<1> USE DEF CallOK
<1>1. /\ Numbered(e, s)' /\ MapsMatch(e, s)'
      /\ \A m : Holds(e, s, m)' <=> Holds(e, s, m)
      /\ GaveUp(e, s)' <=> GaveUp(e, s)
      /\ Unmade(e, s)' <=> Unmade(e, s)
      /\ call'[e][s] = call[e][s] /\ promise'[e][s] = promise[e][s]
      /\ s \in streamCallbacks'[e] <=> s \in streamCallbacks[e]
  BY CallerKeeps
<1>2. ServedWasCalled(e, s)'
  BY <1>1 DEF ServedWasCalled, ServesCalled, RequestIsFresh, jsHandlerVars
<1>3. RequestIsFresh(e, s)'
  BY <1>1 DEF RequestIsFresh, AsksNoMore, Untouched, jsHandlerVars
<1>4. AbortWasSent(e, s)'
  BY <1>1 DEF AbortWasSent, AbortsNoMore
<1>5. ResponseIsFinal(e, s)' /\ ForgottenWasGivenUp(e, s)'
  BY <1>1 DEF ResponseIsFinal, ForgottenWasGivenUp, jsHandlerVars
<1>6. NotVanished(e, s)'
  <2>1. Excused(e, s)' <=> Excused(e, s)
    BY DEF Excused, SameEnds, jsHandlerVars
  <2> QED
    BY <1>1, <2>1 DEF NotVanished, KeepsUnderWay
<1>7. AbortIsLast(e, s)'
  BY DEF AbortIsLast
<1> QED
  BY <1>1, <1>2, <1>3, <1>4, <1>5, <1>6, <1>7

LEMMA RustContext ==
  ASSUME JInv, NEW g \in Ends, g \notin JsEnds, UNCHANGED <<clientVars, jsVars>>
  PROVE  /\ SameEnds /\ jsHandlerVars' = jsHandlerVars
         /\ \A d \in Ends, t \in Seqs : SameCaller(d, t)
         /\ Peer(g) \in Ends /\ Peer(g) # g /\ Peer(Peer(g)) = g
         /\ \A d \in Ends : d = g \/ d = Peer(g)
         /\ \A s \in Seqs : /\ CallOK(Peer(g), s) /\ TracesMatch(Peer(g), s)
                            /\ RequestIsAlone(Peer(g), s)
                            /\ handling[g][s] = "none"
                            /\ s \notin inflightRequests'[g] /\ s \notin runningIterators'[g]
<1>1. /\ Peer(g) \in Ends /\ Peer(g) # g /\ Peer(Peer(g)) = g
      /\ \A d \in Ends : d = g \/ d = Peer(g)
  BY PeerProps, EndsAssumption
<1>2. SameEnds /\ jsHandlerVars' = jsHandlerVars /\ jsCallerVars' = jsCallerVars
  BY DEF SameEnds, jsVars
<1>3. \A d \in Ends, t \in Seqs : SameCaller(d, t)
  BY <1>2, CallerUnchanged
<1>4. NoJsState(g)
  BY DEF JInv, OwnKind
<1> QED
  BY <1>1, <1>2, <1>3, <1>4 DEF JInv, CallOK, NoJsState, jsHandlerVars

(* A Rust server moved, for call s of its peer.                            *)
LEMMA RustServerOK ==
  ASSUME JInv, NEW g \in Ends, g \notin JsEnds, UNCHANGED <<clientVars, jsVars>>, NEW s \in Seqs,
         \A f \in Ends, t \in Seqs : f # g \/ t # s => SameServer(f, t),
         \A d \in Ends, t \in Seqs : d # Peer(g) \/ t # s =>
           /\ SameDown(channel[Peer(d)], channel'[Peer(d)], t)
           /\ SameUp(channel[d], channel'[d], t),
         TracesMatch(Peer(g), s)', RequestIsAlone(Peer(g), s)',
         AsksNoMore(g, s), AbortsNoMore(g, s), ServesCalled(g, s), KeepsUnderWay(Peer(g), s),
         Answered(Peer(g), s)' =>
           \/ Answered(Peer(g), s) /\ execution'[g][s] = execution[g][s]
           \/ execution'[g][s] = "finished"
  PROVE  \A d \in Ends, t \in Seqs : CallOK(d, t)'
<1>1. /\ SameEnds /\ jsHandlerVars' = jsHandlerVars
      /\ \A d \in Ends, t \in Seqs : SameCaller(d, t)
      /\ Peer(g) \in Ends /\ Peer(Peer(g)) = g
      /\ CallOK(Peer(g), s) /\ handling[g][s] = "none"
  BY RustContext
<1>2. CallOK(Peer(g), s)'
  BY <1>1, RustServerMoves
<1>3. \A d \in Ends, t \in Seqs : CallOK(d, t)
  BY DEF JInv
<1> QED
  BY <1>1, <1>2, <1>3, ServerFrame

(* The dispatcher hands over a request.                                    *)
LEMMA RustRequestOK ==
  ASSUME JInv, NEW g \in Ends, g \notin JsEnds, DispatchRequest(g), UNCHANGED jsVars
  PROVE  \A d \in Ends, t \in Seqs : CallOK(d, t)'
<1>1. UNCHANGED <<clientVars, aborts, outbox, running, execution, method, signalled, produced>>
  BY DEF DispatchRequest
<1>2. PICK e \in Ends : e = Peer(g) /\ e # g /\ Peer(e) = g /\ \A d \in Ends : d = g \/ d = e
  BY <1>1, RustContext
<1>3. /\ UNCHANGED jsHandlerVars
      /\ \A s \in Seqs : TracesMatch(e, s) /\ RequestIsAlone(e, s)
                         /\ s \notin inflightRequests'[g] /\ s \notin runningIterators'[g]
  BY <1>1, <1>2, RustContext
<1>4. PICK y \in Message, s \in Seqs, m \in Methods :
        /\ y = Head(channel[g]) /\ y.kind = "Request" /\ y.seq = s /\ y.method = m
        /\ TakesHead(g)
  BY <1>2, TakeEffect, MessageShapes DEF DispatchRequest, TakesHead, JInv, TypeOK
<1>5. /\ channel[g] \in Seq(Message) /\ channel[g] # <<>> /\ channel'[g] = Tail(channel[g])
      /\ channel'[e] = channel[e]
      /\ \A d \in Ends, t \in Seqs : d # e \/ t # s => SameDown(channel[Peer(d)], channel'[Peer(d)], t)
      /\ \A d \in Ends, t \in Seqs : SameUp(channel[d], channel'[d], t)
  BY <1>2, <1>4, TakeElse DEF TakesHead, JInv, TypeOK
<1>6. /\ \A n \in Methods : InQueue(RequestMsg(s, n), channel[g]) <=>
           InQueue(RequestMsg(s, n), channel'[g]) \/ n = m
      /\ InQueue(AbortMsg(s), channel[g]) <=> InQueue(AbortMsg(s), channel'[g])
  BY <1>4, <1>5, TakenFlags
<1>7. /\ OneRequest(channel'[g], s) /\ \A n \in Methods : ~ InQueue(RequestMsg(s, n), channel'[g])
  BY <1>2, <1>3, <1>4, <1>5, TakenOrder DEF RequestIsAlone, IsRequest
<1>8. \A n \in Methods : ~ InQueue([seq |-> s, method |-> n], requests[g])
  BY <1>2, <1>3, <1>6 DEF RequestIsAlone, Requested, Queued
<1>9. PICK z \in Inbound : /\ z.seq = s /\ z.method = m
                          /\ requests'[g] = Append(requests[g], z)
                          /\ requests[g] \in Seq(Inbound)
                          /\ requests'[e] = requests[e]
  <2> DEFINE z == [seq |-> s, method |-> m]
  <2>1. z \in Inbound /\ z.seq = s /\ z.method = m
    BY DEF Inbound
  <2>2. /\ requests \in [Ends -> Seq(Inbound)]
        /\ requests' = [requests EXCEPT ![g] = Append(@, z)]
    BY <1>4 DEF DispatchRequest, JInv, TypeOK, ServiceTypeOK
  <2> HIDE DEF z
  <2> QED
    BY <1>2, <2>1, <2>2
<1>10. /\ \A n \in Methods : InQueue([seq |-> s, method |-> n], requests'[g]) <=> n = m
       /\ OneCall(requests'[g], s)
       /\ \A t \in Seqs : t # s =>
            /\ \A n \in Methods : InQueue([seq |-> t, method |-> n], requests'[g]) <=>
                                     InQueue([seq |-> t, method |-> n], requests[g])
            /\ OneCall(requests[g], t) => OneCall(requests'[g], t)
  BY <1>8, <1>9, CallsAdded
<1>11. \A f \in Ends, t \in Seqs : f # g \/ t # s => SameServer(f, t)
  BY <1>1, <1>2, <1>3, <1>9, <1>10 DEF SameServer, jsHandlerVars
<1>12. TracesMatch(e, s)'
  BY <1>1, <1>2, <1>3 DEF TracesMatch
<1>13. RequestIsAlone(e, s)'
  BY <1>2, <1>7, <1>10 DEF RequestIsAlone, Requested
<1>14. AsksNoMore(g, s) /\ AbortsNoMore(g, s) /\ ServesCalled(g, s)
  BY <1>1, <1>6, <1>10 DEF AsksNoMore, AbortsNoMore, ServesCalled
<1>15. Answered(e, s)' => Answered(e, s) /\ execution'[g][s] = execution[g][s]
  BY <1>1, <1>5 DEF Answered
<1>16. KeepsUnderWay(e, s)
  BY <1>1, <1>2, <1>3, <1>5, <1>10
  DEF KeepsUnderWay, ValueUnderWay, StreamUnderWay, Requested, Queued, InService, Answered,
      EndPosted, jsHandlerVars
<1> QED
  BY <1>1, <1>2, <1>5, <1>11, <1>12, <1>13, <1>14, <1>15, <1>16, RustServerOK

(* It hands over an abort.                                                 *)
LEMMA RustAbortOK ==
  ASSUME JInv, NEW g \in Ends, g \notin JsEnds, DispatchAbort(g), UNCHANGED jsVars
  PROVE  \A d \in Ends, t \in Seqs : CallOK(d, t)'
<1>1. UNCHANGED <<clientVars, requests, outbox, running, execution, method, signalled, produced>>
  BY DEF DispatchAbort
<1>2. PICK e \in Ends : e = Peer(g) /\ e # g /\ Peer(e) = g /\ \A d \in Ends : d = g \/ d = e
  BY <1>1, RustContext
<1>3. /\ UNCHANGED jsHandlerVars
      /\ \A s \in Seqs : TracesMatch(e, s) /\ RequestIsAlone(e, s)
                         /\ s \notin inflightRequests'[g] /\ s \notin runningIterators'[g]
  BY <1>1, <1>2, RustContext
<1>4. PICK y \in Message, s \in Seqs :
        y = Head(channel[g]) /\ y.kind = "Abort" /\ y.seq = s /\ TakesHead(g)
  BY <1>2, TakeEffect, MessageShapes DEF DispatchAbort, TakesHead, JInv, TypeOK
<1>5. /\ channel[g] \in Seq(Message) /\ channel[g] # <<>> /\ channel'[g] = Tail(channel[g])
      /\ channel'[e] = channel[e]
      /\ \A d \in Ends, t \in Seqs : d # e \/ t # s => SameDown(channel[Peer(d)], channel'[Peer(d)], t)
      /\ \A d \in Ends, t \in Seqs : SameUp(channel[d], channel'[d], t)
  BY <1>2, <1>4, TakeElse DEF TakesHead, JInv, TypeOK
<1>6. /\ \A n \in Methods : InQueue(RequestMsg(s, n), channel[g]) <=> InQueue(RequestMsg(s, n), channel'[g])
      /\ InQueue(AbortMsg(s), channel[g])
      /\ OneRequest(channel[g], s) => OneRequest(channel'[g], s)
  BY <1>4, <1>5, TakenFlags, TakenOrder
<1>7. aborts'[g] = Append(aborts[g], s) /\ aborts[g] \in Seq(Seqs) /\ aborts'[e] = aborts[e]
  BY <1>2, <1>4 DEF DispatchAbort, JInv, TypeOK, ServiceTypeOK
<1>8. \A t \in Seqs : InQueue(t, aborts'[g]) <=> InQueue(t, aborts[g]) \/ t = s
  BY <1>7, QueueAppend
<1>9. \A f \in Ends, t \in Seqs : f # g \/ t # s => SameServer(f, t)
  BY <1>1, <1>2, <1>3, <1>7, <1>8 DEF SameServer, jsHandlerVars
<1>10. TracesMatch(e, s)' /\ RequestIsAlone(e, s)'
  BY <1>1, <1>2, <1>3, <1>6 DEF TracesMatch, RequestIsAlone, Requested, Queued
<1>11. AsksNoMore(g, s) /\ AbortsNoMore(g, s) /\ ServesCalled(g, s)
  BY <1>1, <1>6 DEF AsksNoMore, AbortsNoMore, ServesCalled
<1>12. Answered(e, s)' => Answered(e, s) /\ execution'[g][s] = execution[g][s]
  BY <1>1, <1>5 DEF Answered
<1>13. KeepsUnderWay(e, s)
  BY <1>1, <1>2, <1>3, <1>5, <1>6
  DEF KeepsUnderWay, ValueUnderWay, StreamUnderWay, Requested, Queued, InService, Answered,
      EndPosted, jsHandlerVars
<1> QED
  BY <1>1, <1>2, <1>5, <1>9, <1>10, <1>11, <1>12, <1>13, RustServerOK

-----------------------------------------------------------------------------
(* The loop of a Rust server: it starts a call.                            *)
LEMMA RustTakeRequestOK ==
  ASSUME JInv, NEW g \in Ends, g \notin JsEnds, TakeRequest(g), UNCHANGED <<clientVars, jsVars>>
  PROVE  \A d \in Ends, t \in Seqs : CallOK(d, t)'
<1>1. UNCHANGED <<channel, aborts, outbox, signalled, produced>>
  BY DEF TakeRequest
<1>2. PICK e \in Ends : e = Peer(g) /\ e # g /\ Peer(e) = g /\ \A d \in Ends : d = g \/ d = e
  BY RustContext
<1>3. /\ UNCHANGED jsHandlerVars
      /\ \A s \in Seqs : /\ CallOK(e, s) /\ TracesMatch(e, s) /\ RequestIsAlone(e, s)
                         /\ s \notin inflightRequests'[g] /\ s \notin runningIterators'[g]
  BY <1>2, RustContext
<1>4. requests[g] \in Seq(Inbound) /\ requests[g] # <<>>
  BY DEF TakeRequest, JInv, TypeOK, ServiceTypeOK
<1>5. PICK s \in Seqs, m \in Methods : s = Head(requests[g]).seq /\ m = Head(requests[g]).method
  <2>1. Head(requests[g]) \in Inbound
    BY <1>4, QueueTail
  <2> QED
    BY <2>1 DEF Inbound
<1>6. requests'[g] = Tail(requests[g]) /\ requests'[e] = requests[e]
  BY <1>2 DEF TakeRequest, JInv, TypeOK, ServiceTypeOK
<1>7. /\ execution'[g][s] = "called" /\ method'[g][s] = m /\ s \in running'[g]
      /\ \A f \in Ends, t \in Seqs : f # g \/ t # s =>
           /\ execution'[f][t] = execution[f][t] /\ method'[f][t] = method[f][t]
           /\ t \in running'[f] <=> t \in running[f]
  BY <1>5 DEF TakeRequest, SetExecution, JInv, TypeOK, ServiceTypeOK
<1>8. \A t \in Seqs :
        /\ \A n \in Methods : InQueue([seq |-> t, method |-> n], requests[g]) <=>
             InQueue([seq |-> t, method |-> n], requests'[g]) \/ (s = t /\ m = n)
        /\ OneCall(requests[g], t) =>
             /\ OneCall(requests'[g], t)
             /\ s = t => \A n \in Methods : ~ InQueue([seq |-> t, method |-> n], requests'[g])
  BY <1>4, <1>5, <1>6, CallsTaken
<1>9. /\ InQueue([seq |-> s, method |-> m], requests[g])
      /\ \A n \in Methods : ~ InQueue([seq |-> s, method |-> n], requests'[g])
      /\ OneCall(requests'[g], s) /\ ~ Requested(e, s)
  BY <1>2, <1>3, <1>8 DEF RequestIsAlone, Queued
<1>10. \A f \in Ends, t \in Seqs : f # g \/ t # s => SameServer(f, t)
  BY <1>1, <1>2, <1>3, <1>6, <1>7, <1>8 DEF SameServer, jsHandlerVars
<1>11. TracesMatch(e, s)'
  <2>1. ~ InQueue(Entry(s, None), outbox[g])
    BY <1>2, <1>3, <1>9 DEF CallOK, RequestIsFresh, Untouched, TracesMatch
  <2> QED
    BY <1>1, <1>2, <1>3, <1>7, <2>1 DEF TracesMatch
<1>12. RequestIsAlone(e, s)'
  BY <1>1, <1>2, <1>3, <1>9 DEF RequestIsAlone, Requested, Queued
<1>13. AsksNoMore(g, s) /\ AbortsNoMore(g, s) /\ ServesCalled(g, s)
  BY <1>1, <1>2, <1>7, <1>9 DEF AsksNoMore, AbortsNoMore, ServesCalled, Requested
<1>14. Answered(e, s)' => execution'[g][s] = "finished"
  BY <1>1, <1>2, <1>3, <1>9 DEF CallOK, RequestIsFresh, Untouched, ResponseIsFinal, Answered
<1>15. KeepsUnderWay(e, s)
  BY <1>2, <1>7 DEF KeepsUnderWay, ValueUnderWay, StreamUnderWay, InService
<1> QED
  BY <1>1, <1>2, <1>10, <1>11, <1>12, <1>13, <1>14, <1>15, SameQueue, RustServerOK

(* It signals a call that is running.                                      *)
LEMMA RustTakeAbortOK ==
  ASSUME JInv, NEW g \in Ends, g \notin JsEnds, TakeAbort(g), UNCHANGED <<clientVars, jsVars>>
  PROVE  \A d \in Ends, t \in Seqs : CallOK(d, t)'
<1>1. UNCHANGED <<channel, requests, outbox, execution, method, produced>>
  BY DEF TakeAbort
<1>2. PICK e \in Ends : e = Peer(g) /\ e # g /\ Peer(e) = g /\ \A d \in Ends : d = g \/ d = e
  BY RustContext
<1>3. /\ UNCHANGED jsHandlerVars
      /\ \A s \in Seqs : /\ CallOK(e, s) /\ TracesMatch(e, s) /\ RequestIsAlone(e, s)
                         /\ s \notin inflightRequests'[g] /\ s \notin runningIterators'[g]
  BY <1>2, RustContext
<1>4. PICK s \in Seqs :
        /\ s = Head(aborts[g]) /\ aborts'[g] = Tail(aborts[g]) /\ aborts'[e] = aborts[e]
        /\ \A x : InQueue(x, aborts[g]) <=> x = s \/ InQueue(x, aborts'[g])
  <2>1. aborts[g] \in Seq(Seqs) /\ aborts[g] # <<>> /\ aborts' = [aborts EXCEPT ![g] = Tail(@)]
        /\ aborts \in [Ends -> Seq(Seqs)]
    BY DEF TakeAbort, JInv, TypeOK, ServiceTypeOK
  <2> QED
    BY <1>2, <2>1, QueueTail
<1>5. /\ s \notin running'[g]
      /\ s \in signalled'[g] <=> s \in signalled[g] \/ s \in running[g]
      /\ \A f \in Ends, t \in Seqs : f # g \/ t # s =>
           /\ t \in running'[f] <=> t \in running[f]
           /\ t \in signalled'[f] <=> t \in signalled[f]
  BY <1>4 DEF TakeAbort, Forget, JInv, TypeOK, ServiceTypeOK
<1>6. \A f \in Ends, t \in Seqs : f # g \/ t # s => SameServer(f, t)
  BY <1>1, <1>2, <1>3, <1>4, <1>5 DEF SameServer, jsHandlerVars
<1>7. TracesMatch(e, s)' /\ RequestIsAlone(e, s)'
  BY <1>1, <1>2, <1>3, <1>5 DEF TracesMatch, RequestIsAlone, Requested, Queued
<1>8. AsksNoMore(g, s) /\ AbortsNoMore(g, s) /\ ServesCalled(g, s)
  BY <1>1, <1>4, <1>5 DEF AsksNoMore, AbortsNoMore, ServesCalled
<1>9. Answered(e, s)' => Answered(e, s) /\ execution'[g][s] = execution[g][s]
  BY <1>1 DEF Answered
<1>10. GaveUp(e, s)
  BY <1>2, <1>3, <1>4 DEF CallOK, AbortWasSent
<1>11. "pending" \notin {call[e][s], promise[e][s]}
  <2>1. MapsMatch(e, s) /\ OwnKind(e)
    BY <1>2, <1>3 DEF CallOK, JInv
  <2>2. e \in JsEnds => call[e][s] = "idle"
    BY <2>1 DEF OwnKind, NoRustState
  <2>3. e \notin JsEnds => promise[e][s] = "idle"
    BY <2>1 DEF OwnKind, NoJsState
  <2> QED
    BY <1>10, <2>1, <2>2, <2>3 DEF GaveUp, MapsMatch
<1>12. KeepsUnderWay(e, s)
  BY <1>1, <1>2, <1>3, <1>11
  DEF KeepsUnderWay, StreamUnderWay, Requested, Queued, EndPosted, jsHandlerVars
<1> QED
  BY <1>1, <1>2, <1>6, <1>7, <1>8, <1>9, <1>12, SameQueue, RustServerOK

(* A call that is served is not on its way, and its caller awaits what its *)
(* method gives.                                                           *)
LEMMA Serving ==
  ASSUME JInv, NEW g \in Ends, g \notin JsEnds, NEW s \in Seqs, execution[g][s] # "none",
         NEW e, e = Peer(g)
  PROVE  /\ ~ Requested(e, s) /\ ~ Queued(e, s)
         /\ method[g][s] \in NotifyMethods \cup ValueMethods =>
              s \notin streamCallbacks[e] /\ promise[e][s] # "open"
         /\ method[g][s] \in NotifyMethods \cup StreamMethods =>
              "pending" \notin {call[e][s], promise[e][s]}
         /\ GaveUp(e, s) => "pending" \notin {call[e][s], promise[e][s]}
<1>1. e \in Ends /\ Peer(e) = g
  BY PeerProps
<1>2. /\ MapsMatch(e, s) /\ RequestIsFresh(e, s) /\ ServedWasCalled(e, s)
      /\ OwnKind(e)
  BY <1>1 DEF JInv, CallOK
<1>3. ~ Requested(e, s) /\ ~ Queued(e, s)
  BY <1>1, <1>2 DEF RequestIsFresh, Requested, Queued, Untouched
<1>4. /\ e \in JsEnds => call[e][s] = "idle"
      /\ e \notin JsEnds => promise[e][s] = "idle"
  BY <1>2 DEF OwnKind, NoRustState, NoJsState
<1>5. Holds(e, s, method[g][s])
  BY <1>1, <1>2 DEF ServedWasCalled
<1>6. GaveUp(e, s) => "pending" \notin {call[e][s], promise[e][s]}
  BY <1>2, <1>4 DEF GaveUp, MapsMatch
<1>7. /\ method[g][s] \in NotifyMethods \cup ValueMethods => call[e][s] # "open" /\ promise[e][s] # "open"
      /\ method[g][s] \in NotifyMethods \cup StreamMethods =>
           call[e][s] # "pending" /\ promise[e][s] # "pending"
  BY <1>4, <1>5 DEF Holds, HeldFor, PromisedFor, NotifyMethods, ValueMethods, StreamMethods
<1> QED
  BY <1>2, <1>3, <1>6, <1>7 DEF MapsMatch

(* It posts an item, and nothing changes that the invariant speaks of.     *)
LEMMA RustForwardItemOK ==
  ASSUME JInv, NEW g \in Ends, g \notin JsEnds, ForwardItem(g), UNCHANGED <<clientVars, jsVars>>
  PROVE  \A d \in Ends, t \in Seqs : CallOK(d, t)'
<1>1. UNCHANGED <<requests, aborts, running, execution, method, signalled, produced>>
  BY DEF ForwardItem
<1>2. /\ SameEnds /\ UNCHANGED jsHandlerVars
      /\ \A d \in Ends, t \in Seqs : SameCaller(d, t)
  BY RustContext
<1>3. /\ outbox \in [Ends -> Seq(StreamMessage)] /\ outbox[g] # <<>>
      /\ outbox' = [outbox EXCEPT ![g] = Tail(@)]
  BY DEF ForwardItem, JInv, TypeOK, ServiceTypeOK
<1>4. PICK y \in StreamMessage : /\ y = Head(outbox[g]) /\ y.item # None
                                /\ Post(g, ItemMsg(y.seq, y.item))
  BY <1>3, QueueTail DEF ForwardItem
<1>5. \A x : InQueue(x, outbox[g]) <=> x = y \/ InQueue(x, outbox'[g])
  BY <1>3, <1>4, QueueTail
<1>6. \A t : Entry(t, None) # y
  BY <1>4 DEF Entry
<1>7. \A f \in Ends : \A t : InQueue(Entry(t, None), outbox'[f]) <=> InQueue(Entry(t, None), outbox[f])
  BY <1>3, <1>5, <1>6
<1>8. \A f \in Ends, t \in Seqs : SameServer(f, t)
  BY <1>1, <1>2, <1>7 DEF SameServer, jsHandlerVars
<1>9. ItemMsg(y.seq, y.item) \in Message /\ ItemMsg(y.seq, y.item).kind = "StreamItem"
  BY <1>4, MessageFacts DEF StreamMessage
<1>10. \A d \in Ends, t \in Seqs : /\ SameDown(channel[Peer(d)], channel'[Peer(d)], t)
                                   /\ SameUp(channel[d], channel'[d], t)
  BY <1>4, <1>9, PostElse DEF JInv, TypeOK
<1> QED
  BY <1>2, <1>8, <1>10, Frame, PeerProps DEF JInv

(* It posts the end of a stream.                                           *)
LEMMA RustForwardEndOK ==
  ASSUME JInv, NEW g \in Ends, g \notin JsEnds, ForwardEnd(g), UNCHANGED <<clientVars, jsVars>>
  PROVE  \A d \in Ends, t \in Seqs : CallOK(d, t)'
<1>1. UNCHANGED <<requests, aborts, execution, method, signalled, produced>>
  BY DEF ForwardEnd
<1>2. PICK e \in Ends : e = Peer(g) /\ e # g /\ Peer(e) = g /\ \A d \in Ends : d = g \/ d = e
  BY RustContext
<1>3. /\ UNCHANGED jsHandlerVars
      /\ \A s \in Seqs : /\ CallOK(e, s) /\ TracesMatch(e, s) /\ RequestIsAlone(e, s)
                         /\ s \notin inflightRequests'[g] /\ s \notin runningIterators'[g]
  BY <1>2, RustContext
<1>4. /\ outbox \in [Ends -> Seq(StreamMessage)] /\ outbox[g] # <<>>
      /\ outbox' = [outbox EXCEPT ![g] = Tail(@)]
  BY DEF ForwardEnd, JInv, TypeOK, ServiceTypeOK
<1>5. PICK s \in Seqs : Head(outbox[g]) = Entry(s, None) /\ Head(outbox[g]).seq = s
  <2>1. Head(outbox[g]) \in StreamMessage /\ Head(outbox[g]).item = None
    BY <1>4, QueueTail DEF ForwardEnd
  <2> QED
    BY <2>1 DEF StreamMessage, Entry
<1>6. \A x : InQueue(x, outbox[g]) <=> x = Entry(s, None) \/ InQueue(x, outbox'[g])
  BY <1>4, <1>5, QueueTail
<1>7. \A t : t # s => Entry(t, None) # Entry(s, None)
  BY DEF Entry
<1>8. /\ InQueue(Entry(s, None), outbox[g])
      /\ \A f \in Ends, t \in Seqs : f # g \/ t # s =>
           (InQueue(Entry(t, None), outbox'[f]) <=> InQueue(Entry(t, None), outbox[f]))
  BY <1>4, <1>6, <1>7
<1>9. /\ s \notin running'[g]
      /\ \A f \in Ends, t \in Seqs : f # g \/ t # s => (t \in running'[f] <=> t \in running[f])
  BY <1>5 DEF ForwardEnd, Forget, JInv, TypeOK, ServiceTypeOK
<1>10. \A f \in Ends, t \in Seqs : f # g \/ t # s => SameServer(f, t)
  BY <1>1, <1>3, <1>8, <1>9 DEF SameServer, jsHandlerVars
<1>11. Post(g, EndMsg(s)) /\ EndMsg(s) \in Message /\ EndMsg(s).kind = "StreamEnd" /\ EndMsg(s).seq = s
  BY <1>5, MessageFacts DEF ForwardEnd
<1>12. /\ channel[e] \in Seq(Message)
       /\ channel'[e] = Append(channel[e], EndMsg(s)) /\ channel'[g] = channel[g]
       /\ \A d \in Ends, t \in Seqs : d # e \/ t # s =>
            /\ SameDown(channel[Peer(d)], channel'[Peer(d)], t)
            /\ SameUp(channel[d], channel'[d], t)
  BY <1>2, <1>11, PostElse DEF JInv, TypeOK
<1>13. EndPosted(e, s)' /\ (Answered(e, s)' <=> Answered(e, s))
  BY <1>11, <1>12, AddedFlags DEF EndPosted, Answered
<1>14. execution[g][s] \in {"finished", "aborted"}
  BY <1>2, <1>3, <1>8 DEF TracesMatch
<1>15. TracesMatch(e, s)' /\ RequestIsAlone(e, s)'
  BY <1>1, <1>2, <1>3, <1>9, <1>12, <1>14 DEF TracesMatch, RequestIsAlone, Requested, Queued
<1>16. AsksNoMore(g, s) /\ AbortsNoMore(g, s) /\ ServesCalled(g, s)
  BY <1>1, <1>12 DEF AsksNoMore, AbortsNoMore, ServesCalled
<1>17. KeepsUnderWay(e, s)
  BY <1>1, <1>2, <1>3, <1>12, <1>13, <1>14
  DEF KeepsUnderWay, ValueUnderWay, StreamUnderWay, Requested, Queued, InService, jsHandlerVars
<1> QED
  BY <1>1, <1>2, <1>10, <1>12, <1>13, <1>15, <1>16, <1>17, RustServerOK

-----------------------------------------------------------------------------
(* An execution completes.                                                 *)
LEMMA RustCompleteOK ==
  ASSUME JInv, NEW g \in Ends, g \notin JsEnds, NEW s \in Seqs, UNCHANGED <<clientVars, jsVars>>,
         NEW status \in {"finished", "aborted"}, NEW response \in BOOLEAN,
         Complete(g, s, status, response), execution[g][s] = "called",
         method[g][s] \in NotifyMethods \cup ValueMethods,
         response => status = "finished",
         ~ response => method[g][s] \in NotifyMethods \/ s \in signalled[g]
  PROVE  \A d \in Ends, t \in Seqs : CallOK(d, t)'
<1>1. UNCHANGED <<requests, aborts, outbox, method, signalled, produced>>
  BY DEF Complete
<1>2. PICK e \in Ends : e = Peer(g) /\ e # g /\ Peer(e) = g /\ \A d \in Ends : d = g \/ d = e
  BY RustContext
<1>3. /\ UNCHANGED jsHandlerVars
      /\ CallOK(e, s) /\ TracesMatch(e, s) /\ RequestIsAlone(e, s)
      /\ s \notin inflightRequests'[g] /\ s \notin runningIterators'[g]
  BY <1>2, RustContext
<1>4. /\ execution'[g][s] = status /\ s \notin running'[g]
      /\ \A f \in Ends, t \in Seqs : f # g \/ t # s =>
           /\ execution'[f][t] = execution[f][t]
           /\ t \in running'[f] <=> t \in running[f]
  BY DEF Complete, SetExecution, Forget, JInv, TypeOK, ServiceTypeOK, ExecutionStates
<1>5. \A f \in Ends, t \in Seqs : f # g \/ t # s => SameServer(f, t)
  BY <1>1, <1>3, <1>4 DEF SameServer, jsHandlerVars
<1>6. ResponseMsg(s) \in Message /\ ResponseMsg(s).kind = "Response" /\ ResponseMsg(s).seq = s
  BY MessageFacts
<1>7. /\ channel'[g] = channel[g]
      /\ \A d \in Ends, t \in Seqs : d # e \/ t # s =>
           /\ SameDown(channel[Peer(d)], channel'[Peer(d)], t)
           /\ SameUp(channel[d], channel'[d], t)
      /\ Answered(e, s) => Answered(e, s)'
      /\ response /\ s \in running[g] => Answered(e, s)'
      /\ Answered(e, s)' => Answered(e, s) \/ response
  <2>1. CASE response /\ s \in running[g]
    <3>1. Post(g, ResponseMsg(s))
      BY <2>1 DEF Complete
    <3>2. /\ channel[e] \in Seq(Message)
          /\ channel'[e] = Append(channel[e], ResponseMsg(s)) /\ channel'[g] = channel[g]
          /\ \A d \in Ends, t \in Seqs : d # e \/ t # s =>
               /\ SameDown(channel[Peer(d)], channel'[Peer(d)], t)
               /\ SameUp(channel[d], channel'[d], t)
      BY <1>2, <1>6, <3>1, PostElse DEF JInv, TypeOK
    <3>3. Answered(e, s)'
      BY <1>6, <3>2, AddedFlags DEF Answered
    <3> QED
      BY <2>1, <3>2, <3>3
  <2>2. CASE ~ (response /\ s \in running[g])
    <3>1. channel' = channel
      BY <2>2 DEF Complete
    <3> QED
      BY <2>2, <3>1, SameQueue DEF Answered
  <2> QED
    BY <2>1, <2>2
<1>8. ~ Answered(e, s)
  BY <1>2, <1>3, RustContext DEF CallOK, ResponseIsFinal
<1>9. TracesMatch(e, s)' /\ RequestIsAlone(e, s)'
  BY <1>1, <1>2, <1>3, <1>4, <1>7 DEF TracesMatch, RequestIsAlone, Requested, Queued
<1>10. /\ ~ Requested(e, s) /\ ~ Queued(e, s)
       /\ s \notin streamCallbacks[e] /\ promise[e][s] # "open"
       /\ ~ response => "pending" \notin {call[e][s], promise[e][s]}
  <2>1. s \in signalled[g] => GaveUp(e, s)
    BY <1>2, <1>3 DEF CallOK, AbortWasSent
  <2> QED
    BY <1>2, <2>1, Serving
<1>11. AsksNoMore(g, s) /\ AbortsNoMore(g, s) /\ ServesCalled(g, s)
  BY <1>1, <1>2, <1>4, <1>7, <1>10
  DEF AsksNoMore, AbortsNoMore, ServesCalled, Requested, Queued
<1>12. KeepsUnderWay(e, s)
  BY <1>2, <1>3, <1>7, <1>10 DEF KeepsUnderWay, ValueUnderWay, InService, jsHandlerVars
<1> QED
  BY <1>1, <1>2, <1>4, <1>5, <1>7, <1>8, <1>9, <1>11, <1>12, RustServerOK

(* A stream starts, or ends.                                               *)
LEMMA RustStreamOK ==
  ASSUME JInv, NEW g \in Ends, g \notin JsEnds, NEW s \in Seqs, UNCHANGED <<clientVars, jsVars>>,
         NEW status, SetExecution(g, s, status),
         UNCHANGED <<channel, requests, aborts, running, method, signalled, produced>>,
         method[g][s] \in StreamMethods,
         \/ execution[g][s] = "called" /\ status = "forwarding" /\ outbox' = outbox
         \/ /\ execution[g][s] \in {"called", "forwarding"} /\ status \in {"finished", "aborted"}
            /\ outbox' = [outbox EXCEPT ![g] = Append(@, Entry(s, None))]
  PROVE  \A d \in Ends, t \in Seqs : CallOK(d, t)'
<1>1. PICK e \in Ends : e = Peer(g) /\ e # g /\ Peer(e) = g /\ \A d \in Ends : d = g \/ d = e
  BY RustContext
<1>2. /\ UNCHANGED jsHandlerVars
      /\ CallOK(e, s) /\ TracesMatch(e, s) /\ RequestIsAlone(e, s)
      /\ s \notin inflightRequests'[g] /\ s \notin runningIterators'[g]
      /\ handling[g][s] = "none"
  BY <1>1, RustContext
<1>3. /\ execution'[g][s] = status
      /\ \A f \in Ends, t \in Seqs : f # g \/ t # s => execution'[f][t] = execution[f][t]
  BY DEF SetExecution, JInv, TypeOK, ServiceTypeOK, ExecutionStates
<1>4. \/ outbox' = outbox /\ status = "forwarding"
      \/ /\ \A x : InQueue(x, outbox'[g]) <=> InQueue(x, outbox[g]) \/ x = Entry(s, None)
         /\ outbox'[e] = outbox[e] /\ status # "forwarding"
  <2>1. Entry(s, None) \in StreamMessage /\ outbox \in [Ends -> Seq(StreamMessage)]
    BY DEF Entry, None, StreamMessage, JInv, TypeOK, ServiceTypeOK
  <2>2. \A x : InQueue(x, Append(outbox[g], Entry(s, None))) <=>
                InQueue(x, outbox[g]) \/ x = Entry(s, None)
    BY <2>1, QueueAppend
  <2>3. CASE outbox' = [outbox EXCEPT ![g] = Append(@, Entry(s, None))]
    BY <1>1, <2>1, <2>2, <2>3
  <2> QED
    BY <2>3
<1>5. \A t : t # s => Entry(t, None) # Entry(s, None)
  BY DEF Entry
<1>6. \A f \in Ends, t \in Seqs : f # g \/ t # s =>
        (InQueue(Entry(t, None), outbox'[f]) <=> InQueue(Entry(t, None), outbox[f]))
  BY <1>1, <1>4, <1>5
<1>7. \A f \in Ends, t \in Seqs : f # g \/ t # s => SameServer(f, t)
  BY <1>2, <1>3, <1>6 DEF SameServer, jsHandlerVars
<1>8. TracesMatch(e, s)' /\ RequestIsAlone(e, s)'
  <2>1. ~ InQueue(Entry(s, None), outbox[g])
    BY <1>1, <1>2 DEF TracesMatch
  <2> QED
    BY <1>1, <1>2, <1>3, <1>4, <2>1 DEF TracesMatch, RequestIsAlone, Requested, Queued
<1>9. ~ Requested(e, s) /\ ~ Queued(e, s) /\ "pending" \notin {call[e][s], promise[e][s]}
  BY <1>1, Serving
<1>10. AsksNoMore(g, s) /\ AbortsNoMore(g, s) /\ ServesCalled(g, s)
  BY <1>1, <1>9 DEF AsksNoMore, AbortsNoMore, ServesCalled, Requested, Queued
<1>11. ~ Answered(e, s)'
  BY <1>1, <1>2 DEF CallOK, ResponseIsFinal, Answered
<1>12. KeepsUnderWay(e, s)
  BY <1>1, <1>3, <1>4, <1>9 DEF KeepsUnderWay, StreamUnderWay
<1> QED
  BY <1>1, <1>7, <1>8, <1>10, <1>11, <1>12, SameQueue, RustServerOK

(* An item of a stream is no concern of the invariant.                     *)
LEMMA RustProduceOK ==
  ASSUME JInv, NEW g \in Ends, g \notin JsEnds, NEW s \in Seqs, ProduceItem(g, s),
         UNCHANGED <<clientVars, jsVars>>
  PROVE  \A d \in Ends, t \in Seqs : CallOK(d, t)'
<1>1. UNCHANGED <<channel, requests, aborts, running, execution, method, signalled>>
  BY DEF ProduceItem
<1>2. /\ SameEnds /\ UNCHANGED jsHandlerVars
      /\ \A d \in Ends, t \in Seqs : SameCaller(d, t)
  BY RustContext
<1>3. PICK i \in Items : outbox' = [outbox EXCEPT ![g] = Append(@, Entry(s, i))]
  <2>1. produced[g][s] \in 0 .. MaxItems /\ produced[g][s] < MaxItems /\ MaxItems \in Nat
    BY BoundsAssumption DEF ProduceItem, JInv, TypeOK, ServiceTypeOK
  <2>2. produced[g][s] + 1 \in Items
    BY <2>1 DEF Items
  <2> QED
    BY <2>2 DEF ProduceItem
<1>4. /\ Entry(s, i) \in StreamMessage /\ outbox \in [Ends -> Seq(StreamMessage)]
      /\ \A t : Entry(t, None) # Entry(s, i)
  <2>1. outbox \in [Ends -> Seq(StreamMessage)]
    BY DEF JInv, TypeOK, ServiceTypeOK
  <2>2. Entry(s, i) \in StreamMessage /\ i # None
    BY DEF Entry, None, StreamMessage, Items
  <2> QED
    BY <2>1, <2>2 DEF Entry
<1>5. \A f \in Ends : \A t : InQueue(Entry(t, None), outbox'[f]) <=> InQueue(Entry(t, None), outbox[f])
  BY <1>3, <1>4, QueueAppend
<1>6. \A f \in Ends, t \in Seqs : SameServer(f, t)
  BY <1>1, <1>2, <1>5 DEF SameServer, jsHandlerVars
<1> QED
  BY <1>1, <1>2, <1>6, SameQueue, Frame, PeerProps DEF JInv

(* So every step of a Rust end keeps the invariant of every call.          *)
LEMMA RustStepOK ==
  ASSUME JInv, NEW g \in Ends, InterfaceStep(g), UNCHANGED jsVars
  PROVE  \A d \in Ends, t \in Seqs : CallOK(d, t)'
<1>1. g \notin JsEnds
  BY RustEnd
<1>2. CASE NewCall(g) /\ UNCHANGED serviceVars
  BY <1>1, <1>2, RustNewOK
<1>3. ASSUME NEW s \in Seqs, CallerStep(g, s), UNCHANGED serviceVars
      PROVE  \A d \in Ends, t \in Seqs : CallOK(d, t)'
  BY <1>1, <1>3, RustCallerOK
<1>4. CASE Dispatch(g)
  BY <1>1, <1>4, RustRequestOK, RustAbortOK, RustAnswerOK DEF Dispatch
<1>5. CASE LoopStep(g) /\ UNCHANGED clientVars
  BY <1>1, <1>5, RustTakeRequestOK, RustTakeAbortOK, RustForwardItemOK, RustForwardEndOK
  DEF LoopStep
<1>6. ASSUME NEW s \in Seqs, ExecutionStep(g, s), UNCHANGED clientVars
      PROVE  \A d \in Ends, t \in Seqs : CallOK(d, t)'
  <2>1. CASE FinishNotify(g, s)
    BY <1>1, <1>6, <2>1, RustCompleteOK DEF FinishNotify
  <2>2. CASE FinishValue(g, s)
    BY <1>1, <1>6, <2>2, RustCompleteOK DEF FinishValue
  <2>3. CASE AbortValue(g, s)
    <3>1. method[g][s] \in ValueMethods
      BY <2>3 DEF AbortValue, ValueMethods
    <3> QED
      BY <1>1, <1>6, <2>3, <3>1, RustCompleteOK DEF AbortValue
  <2>4. CASE StartStream(g, s)
    BY <1>1, <1>6, <2>4, RustStreamOK DEF StartStream
  <2>5. CASE ProduceItem(g, s)
    BY <1>1, <1>6, <2>5, RustProduceOK
  <2>6. CASE FinishStream(g, s) \/ AbortStream(g, s)
    <3>1. PICK status \in {"finished", "aborted"} : EndStream(g, s, status)
      BY <2>6 DEF FinishStream, AbortStream
    <3>2. /\ execution[g][s] \in {"called", "forwarding"}
          /\ execution[g][s] = "called" => method[g][s] = "stream_async"
      BY <2>6 DEF FinishStream, AbortStream
    <3>3. execution[g][s] = "forwarding" => method[g][s] \in StreamMethods
      BY <1>1, <1>6, PeerProps, RustContext DEF TracesMatch
    <3>4. method[g][s] \in StreamMethods
      BY <3>2, <3>3 DEF StreamMethods
    <3> QED
      BY <1>1, <1>6, <3>1, <3>2, <3>4, RustStreamOK DEF EndStream
  <2> QED
    BY <1>6, <2>1, <2>2, <2>3, <2>4, <2>5, <2>6 DEF ExecutionStep
<1> QED
  BY <1>2, <1>3, <1>4, <1>5, <1>6 DEF InterfaceStep, ServiceStep

-----------------------------------------------------------------------------
(* A JavaScript endpoint.                                                  *)
LEMMA JsContext ==
  ASSUME JInv, NEW e \in JsEnds
  PROVE  /\ e \in Ends /\ Peer(e) \in Ends /\ Peer(e) # e /\ Peer(Peer(e)) = e
         /\ \A d \in Ends : d = e \/ d = Peer(e)
         /\ NoRustState(e)
         /\ \A d \in Ends, t \in Seqs : CallOK(d, t)
BY JsAssumption, PeerProps, EndsAssumption DEF JInv, OwnKind

LEMMA JsServerUnchanged ==
  ASSUME UNCHANGED <<closed, failure, jsHandlerVars, serviceVars>>
  PROVE  SameEnds /\ \A f \in Ends, t \in Seqs : SameServer(f, t)
BY DEF serviceVars, jsHandlerVars, SameEnds, SameServer

(* What a handler of a message takes and posts.                            *)
LEMMA TakeAndPostEffect ==
  ASSUME channel \in [Ends -> Seq(Message)], NEW e \in Ends, channel[e] # <<>>,
         NEW messages \in Seq(Message), TakeAndPost(e, messages)
  PROVE  /\ channel' \in [Ends -> Seq(Message)]
         /\ Head(channel[e]) \in Message
         /\ channel'[e] = Tail(channel[e])
         /\ channel'[Peer(e)] = channel[Peer(e)] \o messages
         /\ messages = <<>> => TakesHead(e)
<1>1. Peer(e) \in Ends /\ Peer(e) # e
  BY PeerProps
<1>2. /\ Head(channel[e]) \in Message /\ Tail(channel[e]) \in Seq(Message)
      /\ channel[Peer(e)] \in Seq(Message) /\ channel[Peer(e)] \o messages \in Seq(Message)
  BY <1>1, QueueTail
<1>3. /\ channel' \in [Ends -> Seq(Message)]
      /\ channel'[e] = Tail(channel[e])
      /\ channel'[Peer(e)] = channel[Peer(e)] \o messages
  BY <1>1, <1>2 DEF TakeAndPost
<1>4. channel[Peer(e)] \o <<>> = channel[Peer(e)]
  BY <1>2
<1> QED
  BY <1>2, <1>3, <1>4 DEF TakesHead

LEMMA TakeAndPostOne ==
  ASSUME channel \in [Ends -> Seq(Message)], NEW e \in Ends, channel[e] # <<>>,
         NEW y \in Message, TakeAndPost(e, <<y>>)
  PROVE  /\ channel' \in [Ends -> Seq(Message)]
         /\ channel'[e] = Tail(channel[e])
         /\ channel'[Peer(e)] = Append(channel[Peer(e)], y)
<1>1. channel[Peer(e)] \in Seq(Message) /\ <<y>> \in Seq(Message)
  BY PeerProps
<1>2. channel[Peer(e)] \o <<y>> = Append(channel[Peer(e)], y)
  BY <1>1
<1> QED
  BY <1>1, <1>2, TakeAndPostEffect

(* The ways of a promise.                                                  *)
Moves(from, to) ==
  \/ from = to
  \/ from = "idle" /\ to \in {"threw", "refused"}
  \/ from = "pending" /\ to \in {"aborted", "rejected"}
  \/ from \in {"pending", "threw"} /\ to = "settled"
  \/ from \in {"open", "threw"} /\ to \in {"ending", "failed", "closing"}
  \/ from = "ending" /\ to \in {"done", "failed"}
  \/ from = "closing" /\ to = "closed"

LEMMA PromiseMoves ==
  ASSUME JInv, NEW e \in JsEnds, NEW s \in Seqs, UNCHANGED clientVars,
         Moves(promise[e][s], promise'[e][s]),
         s \in stopped[e] => s \in stopped'[e],
         Numbered(e, s)', MapsMatch(e, s)'
  PROVE  MovesOn(e, s)
<1>1. call[e][s] = "idle" /\ s \notin streamCallbacks[e] /\ call'[e][s] = "idle"
      /\ s \notin streamCallbacks'[e]
  BY JsContext DEF NoRustState, clientVars
<1>2. /\ \A m \in Methods : Holds(e, s, m) => Holds(e, s, m)'
      /\ GaveUp(e, s) => GaveUp(e, s)'
  BY DEF Moves, Holds, PromisedFor, GaveUp
<1> QED
  BY <1>1, <1>2 DEF MovesOn, Unmade, Moves

(* A promise moves, and its endpoint goes on.                              *)
LEMMA JsMoveOK ==
  ASSUME JInv, NEW e \in JsEnds, NEW s \in Seqs,
         UNCHANGED <<closed, failure, jsHandlerVars, clientVars, serviceVars>>,
         Moves(promise[e][s], promise'[e][s]),
         s \in stopped[e] => s \in stopped'[e],
         Numbered(e, s)', MapsMatch(e, s)', MayAbort(e, s), MayHear(e, s),
         \A d \in Ends, t \in Seqs : d # e \/ t # s =>
           /\ SameCaller(d, t)
           /\ SameDown(channel[Peer(d)], channel'[Peer(d)], t)
           /\ SameUp(channel[d], channel'[d], t)
  PROVE  \A d \in Ends, t \in Seqs : CallOK(d, t)'
<1>1. e \in Ends /\ Peer(e) \in Ends /\ \A d \in Ends, t \in Seqs : CallOK(d, t)
  BY JsContext
<1>2. SameEnds /\ \A f \in Ends, t \in Seqs : SameServer(f, t)
  BY JsServerUnchanged
<1>3. MovesOn(e, s)
  BY PromiseMoves
<1>4. CallOK(e, s)'
  BY <1>1, <1>2, <1>3, CallerMoves
<1> QED
  BY <1>1, <1>2, <1>4, CallerFrame

(* What the step of an endpoint's caller writes.                           *)
LEMMA JsCallerWrites ==
  ASSUME JInv, NEW e \in JsEnds, NEW s \in Seqs, UNCHANGED clientVars,
         NEW to \in PromiseStates, SetPromise(e, s, to),
         \/ pendingRequests' = pendingRequests
         \/ pendingRequests' = Delete(pendingRequests, e, s)
         \/ pendingRequests' = Insert(pendingRequests, e, s),
         \/ openStreams' = openStreams
         \/ openStreams' = Delete(openStreams, e, s)
         \/ openStreams' = Insert(openStreams, e, s),
         stopped' = stopped \/ stopped' = Insert(stopped, e, s),
         nextSequence' = nextSequence \/ Number(e)
  PROVE  /\ promise'[e][s] = to /\ call'[e][s] = "idle"
         /\ s \notin callbacks'[e] /\ s \notin streamCallbacks'[e]
         /\ s \in stopped'[e] <=> s \in stopped[e] \/ stopped' # stopped
         /\ \A d \in Ends, t \in Seqs : d # e \/ t # s => SameCaller(d, t)
<1>1. /\ NoRustState(e) /\ call' = call /\ callbacks' = callbacks
      /\ streamCallbacks' = streamCallbacks /\ sequence' = sequence /\ e \in Ends
  BY JsContext DEF clientVars
<1>2. /\ promise'[e][s] = to
      /\ \A d \in Ends, t \in Seqs : d # e \/ t # s => promise'[d][t] = promise[d][t]
  BY <1>1 DEF SetPromise, JInv, JsTypeOK
<1>3. \A d \in Ends, t \in Seqs : d # e \/ t # s => (t \in pendingRequests'[d] <=> t \in pendingRequests[d])
  BY <1>1 DEF Insert, Delete, JInv, JsTypeOK
<1>4. \A d \in Ends, t \in Seqs : d # e \/ t # s => (t \in openStreams'[d] <=> t \in openStreams[d])
  BY <1>1 DEF Insert, Delete, JInv, JsTypeOK
<1>5. /\ \A d \in Ends, t \in Seqs : d # e \/ t # s => (t \in stopped'[d] <=> t \in stopped[d])
      /\ s \in stopped'[e] <=> s \in stopped[e] \/ stopped' # stopped
  BY <1>1 DEF Insert, JInv, JsTypeOK
<1>6. \A d \in Ends, t \in Seqs : t < nextSequence[d] => t < nextSequence'[d]
  <2>1. nextSequence \in [Ends -> 0 .. MaxCalls] /\ MaxCalls \in Nat
    BY BoundsAssumption DEF JInv, JsTypeOK
  <2>2. \A d \in Ends : nextSequence[d] \in Nat /\ nextSequence'[d] \in {nextSequence[d], nextSequence[d] + 1}
    BY <1>1, <2>1 DEF Number
  <2>3. \A t \in Seqs : t \in Nat
    BY DEF Seqs
  <2> QED
    BY <2>2, <2>3
<1> QED
  BY <1>1, <1>2, <1>3, <1>4, <1>5, <1>6 DEF SameCaller, NoRustState

(* The caller's own steps.                                                 *)
LEMMA JsCallerOK ==
  ASSUME JInv, NEW e \in JsEnds, NEW s \in Seqs, JsCallerStep(e, s),
         UNCHANGED <<closed, failure, jsHandlerVars, clientVars, serviceVars>>
  PROVE  \A d \in Ends, t \in Seqs : CallOK(d, t)'
<1>1. /\ e \in Ends /\ Peer(e) \in Ends /\ MapsMatch(e, s) /\ Numbered(e, s)
      /\ \A d \in Ends, t \in Seqs : CallOK(d, t)
  BY JsContext DEF CallOK
<1>2. /\ pendingRequests \in [Ends -> SUBSET Seqs] /\ openStreams \in [Ends -> SUBSET Seqs]
      /\ stopped \in [Ends -> SUBSET Seqs] /\ channel \in [Ends -> Seq(Message)]
      /\ promise[e][s] \in PromiseStates
  BY <1>1 DEF JInv, JsTypeOK, TypeOK
<1>3. ASSUME channel' = channel \/ (JsSend(e, AbortMsg(s)) /\ GaveUp(e, s)')
      PROVE  /\ MayAbort(e, s) /\ MayHear(e, s)
             /\ \A d \in Ends, t \in Seqs : d # e \/ t # s =>
                  /\ SameDown(channel[Peer(d)], channel'[Peer(d)], t)
                  /\ SameUp(channel[d], channel'[d], t)
  <2>1. CASE channel' = channel
    BY <1>1, <2>1, NothingPosted
  <2>2. CASE Post(e, AbortMsg(s)) /\ GaveUp(e, s)'
    BY <1>1, <1>2, <2>2, AbortPosted
  <2> QED
    BY <1>3, <2>1, <2>2 DEF JsSend
<1>4. CASE AbortRequest(e, s)
  <2>1. /\ promise[e][s] = "pending" /\ SetPromise(e, s, "aborted")
        /\ pendingRequests' = Delete(pendingRequests, e, s) /\ JsSend(e, AbortMsg(s))
        /\ UNCHANGED <<nextSequence, openStreams, stopped>>
    BY <1>4 DEF AbortRequest
  <2>2. /\ promise'[e][s] = "aborted" /\ call'[e][s] = "idle"
        /\ s \notin callbacks'[e] /\ s \notin streamCallbacks'[e]
        /\ \A d \in Ends, t \in Seqs : d # e \/ t # s => SameCaller(d, t)
    BY <2>1, JsCallerWrites DEF PromiseStates
  <2>3. s \notin pendingRequests'[e]
    BY <1>1, <1>2, <2>1 DEF Delete
  <2>4. Numbered(e, s)' /\ MapsMatch(e, s)' /\ GaveUp(e, s)'
    BY <1>1, <2>1, <2>2, <2>3 DEF Numbered, MapsMatch, GaveUp
  <2> QED
    BY <1>3, <2>1, <2>2, <2>4, JsMoveOK DEF Moves
<1>5. CASE StopStream(e, s)
  <2>1. /\ promise[e][s] \in {"open", "ending", "closing", "done", "closed", "failed"}
        /\ promise' = promise /\ stopped' = Insert(stopped, e, s) /\ JsSend(e, AbortMsg(s))
        /\ UNCHANGED <<nextSequence, openStreams, pendingRequests>>
    BY <1>5 DEF StopStream
  <2>2. SetPromise(e, s, promise[e][s])
    BY <1>1, <2>1 DEF SetPromise, JInv, JsTypeOK
  <2>3. /\ promise'[e][s] = promise[e][s] /\ call'[e][s] = "idle"
        /\ s \notin callbacks'[e] /\ s \notin streamCallbacks'[e]
        /\ \A d \in Ends, t \in Seqs : d # e \/ t # s => SameCaller(d, t)
    BY <1>2, <2>1, <2>2, JsCallerWrites
  <2>4. s \in stopped'[e]
    BY <1>1, <1>2, <2>1 DEF Insert
  <2>5. Numbered(e, s)' /\ MapsMatch(e, s)' /\ GaveUp(e, s)'
    BY <1>1, <2>1, <2>3, <2>4 DEF Numbered, MapsMatch, GaveUp
  <2> QED
    BY <1>3, <2>1, <2>3, <2>4, <2>5, JsMoveOK DEF Moves
<1>6. CASE RunCallback(e, s)
  <2>1. /\ channel' = channel
        /\ UNCHANGED <<nextSequence, promise, pendingRequests, openStreams, stopped>>
    BY <1>6 DEF RunCallback
  <2>2. \A d \in Ends, t \in Seqs : SameCaller(d, t)
    BY <2>1 DEF SameCaller, clientVars
  <2> QED
    BY <1>1, <2>1, <2>2, JsServerUnchanged, SameQueue, Frame, PeerProps
<1>7. CASE SettleDone(e, s)
  <2>1. PICK to \in {"done", "failed", "closed"} :
          /\ SetPromise(e, s, to)
          /\ \/ promise[e][s] = "ending" /\ to \in {"done", "failed"}
             \/ promise[e][s] = "closing" /\ to = "closed"
          /\ UNCHANGED <<channel, nextSequence, pendingRequests, openStreams, stopped>>
    BY <1>7 DEF SettleDone
  <2>2. /\ promise'[e][s] = to /\ call'[e][s] = "idle"
        /\ s \notin callbacks'[e] /\ s \notin streamCallbacks'[e]
        /\ \A d \in Ends, t \in Seqs : d # e \/ t # s => SameCaller(d, t)
    BY <2>1, JsCallerWrites DEF PromiseStates
  <2>3. Numbered(e, s)' /\ MapsMatch(e, s)'
    BY <1>1, <2>1, <2>2 DEF Numbered, MapsMatch
  <2> QED
    BY <1>3, <2>1, <2>2, <2>3, JsMoveOK DEF Moves
<1> QED
  BY <1>4, <1>5, <1>6, <1>7 DEF JsCallerStep

(* A call of an endpoint, whether or not it is posted.                     *)
LEMMA JsCallOK ==
  ASSUME JInv, NEW e \in JsEnds, JsCall(e),
         UNCHANGED <<closed, failure, jsHandlerVars, clientVars, serviceVars>>
  PROVE  \A d \in Ends, t \in Seqs : CallOK(d, t)'
<1>1. /\ e \in Ends /\ Peer(e) \in Ends
      /\ \A d \in Ends, t \in Seqs : CallOK(d, t)
  BY JsContext
<1>2. /\ pendingRequests \in [Ends -> SUBSET Seqs] /\ openStreams \in [Ends -> SUBSET Seqs]
      /\ nextSequence \in [Ends -> 0 .. MaxCalls] /\ channel \in [Ends -> Seq(Message)]
  BY DEF JInv, JsTypeOK, TypeOK
<1>3. Number(e)
  BY DEF JsCall, JsNotify, JsRequest, JsStream, CallRefused, CallThrows
<1>4. PICK s \in Seqs :
        /\ s = nextSequence[e]
        /\ nextSequence' = [nextSequence EXCEPT ![e] = @ + 1]
        /\ s < nextSequence'[e] /\ ~ (s < nextSequence[e])
  <2>1. nextSequence[e] \in 0 .. MaxCalls /\ nextSequence[e] < MaxCalls /\ MaxCalls \in Nat
    BY <1>1, <1>2, <1>3, BoundsAssumption DEF Number
  <2>2. nextSequence[e] \in Seqs /\ nextSequence[e] < nextSequence[e] + 1
    BY <2>1 DEF Seqs
  <2>3. nextSequence' = [nextSequence EXCEPT ![e] = @ + 1]
    BY <1>3 DEF Number
  <2> QED
    BY <1>1, <1>2, <2>1, <2>2, <2>3
<1>5. /\ promise[e][s] = "idle" /\ call[e][s] = "idle" /\ Unmade(e, s)
      /\ MapsMatch(e, s) /\ s \notin pendingRequests[e] /\ s \notin openStreams[e]
      /\ s \notin stopped[e] /\ s \notin callbacks[e] /\ s \notin streamCallbacks[e]
  BY <1>1, <1>4, JsContext DEF CallOK, Numbered, NoRustState, Unmade, MapsMatch
<1>6. ASSUME NEW m \in Methods, NEW to \in PromisedFor(m), to \in {"notified", "pending", "open"},
             SetPromise(e, s, to), Post(e, RequestMsg(s, m)), ~ Refuses(e),
             pendingRequests' = IF to = "pending" THEN Insert(pendingRequests, e, s) ELSE pendingRequests,
             openStreams' = IF to = "open" THEN Insert(openStreams, e, s) ELSE openStreams,
             stopped' = stopped
      PROVE  \A d \in Ends, t \in Seqs : CallOK(d, t)'
  <2>1. to \in PromiseStates
    BY <1>6 DEF PromiseStates
  <2>2. /\ promise'[e][s] = to /\ call'[e][s] = "idle"
        /\ s \notin callbacks'[e] /\ s \notin streamCallbacks'[e]
        /\ \A d \in Ends, t \in Seqs : d # e \/ t # s => SameCaller(d, t)
    BY <1>3, <1>6, <2>1, JsCallerWrites
  <2>3. /\ s \in pendingRequests'[e] <=> to = "pending"
        /\ s \in openStreams'[e] <=> to = "open"
    BY <1>1, <1>2, <1>5, <1>6 DEF Insert
  <2>4. Numbered(e, s)' /\ MapsMatch(e, s)' /\ Holds(e, s, m)' /\ ~ GaveUp(e, s)'
    BY <1>4, <1>5, <1>6, <2>2, <2>3 DEF Numbered, MapsMatch, Holds, GaveUp, Refuses
  <2>5. SameEnds /\ \A f \in Ends, t \in Seqs : SameServer(f, t)
    BY JsServerUnchanged
  <2>6. CallOK(e, s)'
    BY <1>1, <1>2, <1>5, <1>6, <2>4, <2>5, NewMove
  <2>7. \A d \in Ends, t \in Seqs : d # e \/ t # s =>
          /\ SameDown(channel[Peer(d)], channel'[Peer(d)], t)
          /\ SameUp(channel[d], channel'[d], t)
    <3>1. RequestMsg(s, m) \in Message /\ RequestMsg(s, m).kind = "Request" /\ RequestMsg(s, m).seq = s
      BY MessageFacts
    <3> QED
      BY <1>1, <1>2, <1>6, <3>1, PostElse
  <2> QED
    BY <1>1, <2>2, <2>5, <2>6, <2>7, CallerFrame
<1>7. ASSUME NEW to \in {"refused", "threw"}, SetPromise(e, s, to), channel' = channel,
             pendingRequests' = pendingRequests \/ pendingRequests' = Insert(pendingRequests, e, s),
             openStreams' = openStreams \/ openStreams' = Insert(openStreams, e, s),
             to = "refused" => pendingRequests' = pendingRequests /\ openStreams' = openStreams,
             pendingRequests' = pendingRequests \/ openStreams' = openStreams,
             stopped' = stopped
      PROVE  \A d \in Ends, t \in Seqs : CallOK(d, t)'
  <2>1. to \in PromiseStates
    BY <1>7 DEF PromiseStates
  <2>2. /\ promise'[e][s] = to /\ call'[e][s] = "idle"
        /\ s \notin callbacks'[e] /\ s \notin streamCallbacks'[e]
        /\ \A d \in Ends, t \in Seqs : d # e \/ t # s => SameCaller(d, t)
    BY <1>3, <1>7, <2>1, JsCallerWrites
  <2>5. /\ s \in pendingRequests'[e] => pendingRequests' # pendingRequests
        /\ s \in openStreams'[e] => openStreams' # openStreams
    BY <1>5
  <2>3. Numbered(e, s)' /\ MapsMatch(e, s)'
    BY <1>4, <1>5, <1>7, <2>2, <2>5 DEF Numbered, MapsMatch
  <2>4. /\ MayAbort(e, s) /\ MayHear(e, s)
        /\ \A d \in Ends, t \in Seqs : /\ SameDown(channel[Peer(d)], channel'[Peer(d)], t)
                                       /\ SameUp(channel[d], channel'[d], t)
    BY <1>1, <1>7, NothingPosted
  <2> QED
    BY <1>5, <1>7, <2>2, <2>3, <2>4, JsMoveOK DEF Moves
<1>8. PICK m : \/ m \in Methods /\ (JsNotify(e, m) \/ JsRequest(e, m) \/ JsStream(e, m) \/ CallThrows(e, m))
               \/ CallRefused(e)
  BY DEF JsCall
<1>9. CASE m \in Methods /\ JsNotify(e, m)
  BY <1>4, <1>6, <1>9 DEF JsNotify, JsSend, Refuses, PromisedFor
<1>10. CASE m \in Methods /\ JsRequest(e, m)
  BY <1>4, <1>6, <1>10
  DEF JsRequest, JsSend, Refuses, PromisedFor, NotifyMethods, ValueMethods
<1>11. CASE m \in Methods /\ JsStream(e, m)
  BY <1>4, <1>6, <1>11
  DEF JsStream, JsSend, Refuses, PromisedFor, NotifyMethods, ValueMethods, StreamMethods
<1>12. CASE m \in Methods /\ CallThrows(e, m)
  <2>1. ~ (m \in ValueMethods /\ m \in StreamMethods)
    BY DEF ValueMethods, StreamMethods
  <2> QED
    BY <1>4, <1>7, <1>12, <2>1 DEF CallThrows
<1>13. CASE CallRefused(e)
  BY <1>4, <1>7, <1>13 DEF CallRefused
<1> QED
  BY <1>8, <1>9, <1>10, <1>11, <1>12, <1>13

(* What comes back to it.                                                  *)
LEMMA JsAnswerOK ==
  ASSUME JInv, NEW e \in JsEnds, JsOnResponse(e) \/ JsOnStreamItem(e) \/ JsOnStreamEnd(e),
         UNCHANGED <<clientVars, serviceVars>>
  PROVE  \A d \in Ends, t \in Seqs : CallOK(d, t)'
<1>1. /\ e \in Ends /\ Peer(e) \in Ends /\ channel \in [Ends -> Seq(Message)]
      /\ \A d \in Ends, t \in Seqs : CallOK(d, t)
  BY JsContext DEF JInv, TypeOK
<1>2. PICK kind \in {"Response", "StreamItem", "StreamEnd"} :
        /\ Arrives(e, kind) /\ TakeAndPost(e, <<>>)
        /\ UNCHANGED <<closed, failure, jsHandlerVars>>
        /\ kind = "Response" => JsOnResponse(e)
        /\ kind = "StreamItem" => JsOnStreamItem(e)
        /\ kind = "StreamEnd" => JsOnStreamEnd(e)
  BY DEF JsOnResponse, JsOnStreamItem, JsOnStreamEnd
<1>3. channel[e] # <<>> /\ Head(channel[e]).kind = kind /\ Head(channel[e]) \in Message /\ TakesHead(e)
  <2>1. <<>> \in Seq(Message)
    OBVIOUS
  <2>2. channel[e] # <<>> /\ Head(channel[e]).kind = kind
    BY <1>2 DEF Arrives
  <2> QED
    BY <1>1, <1>2, <2>1, <2>2, TakeAndPostEffect
<1>4. PICK y \in Message, s \in Seqs : y = Head(channel[e]) /\ y.kind = kind /\ y.seq = s
  BY <1>3, MessageShapes
<1>5. MapsMatch(e, s) /\ Numbered(e, s)
  BY <1>1 DEF CallOK
<1>6. PICK to \in PromiseStates :
        /\ SetPromise(e, s, to)
        /\ pendingRequests' = (IF kind = "Response" THEN Delete(pendingRequests, e, s) ELSE pendingRequests)
        /\ \/ to = promise[e][s]
           \/ kind = "Response" /\ s \in pendingRequests[e] /\ to = "settled"
           \/ kind # "Response" /\ s \in openStreams[e] /\ to \in {"failed", "ending"}
        /\ kind = "Response" => to # "pending"
        /\ \/ openStreams' = openStreams /\ (kind = "StreamEnd" => s \notin openStreams[e])
              /\ (kind # "Response" => to = promise[e][s])
           \/ openStreams' = Delete(openStreams, e, s) /\ kind # "Response" /\ to # "open"
        /\ UNCHANGED <<nextSequence, stopped>>
  <2>1. promise \in [Ends -> [Seqs -> PromiseStates]] /\ openStreams \in [Ends -> SUBSET Seqs]
    BY DEF JInv, JsTypeOK
  <2>2. promise' = promise => SetPromise(e, s, promise[e][s])
    BY <1>1, <2>1 DEF SetPromise
  <2>3. promise[e][s] \in PromiseStates /\ {"settled", "failed", "ending"} \subseteq PromiseStates
    BY <1>1, <2>1 DEF PromiseStates
  <2>4. CASE kind = "Response"
    <3>1. CASE s \in pendingRequests[e]
      BY <1>2, <1>4, <2>3, <2>4, <3>1 DEF JsOnResponse
    <3>2. CASE s \notin pendingRequests[e]
      BY <1>2, <1>4, <1>5, <2>2, <2>3, <2>4, <3>2 DEF JsOnResponse, MapsMatch
    <3> QED
      BY <3>1, <3>2
  <2>5. CASE kind = "StreamItem"
    <3>1. CASE UNCHANGED <<promise, openStreams>>
      BY <1>2, <1>4, <2>2, <2>3, <2>5, <3>1 DEF JsOnStreamItem
    <3>2. CASE /\ s \in openStreams[e] /\ openStreams' = Delete(openStreams, e, s)
               /\ SetPromise(e, s, "failed")
      BY <1>2, <1>4, <2>3, <2>5, <3>2 DEF JsOnStreamItem
    <3> QED
      BY <1>2, <1>4, <2>5, <3>1, <3>2 DEF JsOnStreamItem
  <2>6. CASE kind = "StreamEnd"
    <3>1. CASE s \in openStreams[e]
      BY <1>2, <1>4, <2>3, <2>6, <3>1 DEF JsOnStreamEnd
    <3>2. CASE s \notin openStreams[e]
      BY <1>2, <1>4, <1>5, <2>2, <2>3, <2>6, <3>2 DEF JsOnStreamEnd, MapsMatch
    <3> QED
      BY <3>1, <3>2
  <2> QED
    BY <2>4, <2>5, <2>6
<1>7. /\ promise'[e][s] = to /\ call'[e][s] = "idle"
      /\ s \notin callbacks'[e] /\ s \notin streamCallbacks'[e]
      /\ \A d \in Ends, t \in Seqs : d # e \/ t # s => SameCaller(d, t)
  BY <1>6, JsCallerWrites
<1>8. /\ s \in pendingRequests'[e] <=> s \in pendingRequests[e] /\ kind # "Response"
      /\ \/ s \in openStreams'[e] <=> s \in openStreams[e]
         \/ s \notin openStreams'[e]
      /\ openStreams' = Delete(openStreams, e, s) => s \notin openStreams'[e]
  BY <1>1, <1>6 DEF Delete, JInv, JsTypeOK
<1>9. Numbered(e, s)' /\ MapsMatch(e, s)'
  <2>1. UNCHANGED <<closed, failure, nextSequence, stopped>>
    BY <1>2, <1>6
  <2>2. CASE to = promise[e][s]
    BY <1>5, <1>6, <1>7, <1>8, <2>1, <2>2 DEF Numbered, MapsMatch
  <2>3. CASE kind = "Response" /\ s \in pendingRequests[e] /\ to = "settled"
    BY <1>5, <1>6, <1>7, <1>8, <2>1, <2>3 DEF Numbered, MapsMatch
  <2>4. CASE kind # "Response" /\ s \in openStreams[e] /\ to \in {"failed", "ending"}
    <3>1. s \notin openStreams'[e] /\ s \notin pendingRequests'[e]
      BY <1>5, <1>6, <1>8, <2>4 DEF MapsMatch
    <3> QED
      BY <1>5, <1>7, <2>1, <2>4, <3>1 DEF Numbered, MapsMatch
  <2> QED
    BY <1>6, <2>2, <2>3, <2>4
<1>10. Moves(promise[e][s], promise'[e][s])
  BY <1>5, <1>6, <1>7 DEF Moves, MapsMatch
<1>11. kind = "StreamEnd" => to # "open"
  BY <1>5, <1>6 DEF MapsMatch
<1>12. /\ MayAbort(e, s) /\ MayHear(e, s)
       /\ \A d \in Ends, t \in Seqs : d # e \/ t # s =>
            /\ SameDown(channel[Peer(d)], channel'[Peer(d)], t)
            /\ SameUp(channel[d], channel'[d], t)
  BY <1>1, <1>3, <1>4, <1>6, <1>7, <1>11, AnswerTaken
<1> QED
  BY <1>2, <1>6, <1>7, <1>9, <1>10, <1>12, JsMoveOK

-----------------------------------------------------------------------------
(* The step of an endpoint that serves call s of its peer.                 *)
JsAsksNoMore(g, s) ==
  \A m \in Methods : InQueue(RequestMsg(s, m), channel'[g]) =>
    InQueue(RequestMsg(s, m), channel[g]) /\ handling'[g][s] = handling[g][s]

JsStaysUnderWay(e, s) == Excused(e, s)' \/ (~ Excused(e, s) /\ KeepsUnderWay(e, s))

LEMMA JsServerMoves ==
  ASSUME NEW e \in Ends, NEW s \in Seqs, NEW g \in Ends, g = Peer(e), g \in JsEnds, Peer(g) = e,
         CallOK(e, s), SameEnds, SameCaller(e, s), serviceVars' = serviceVars, NoRustState(g),
         TracesMatch(e, s)', OneRequest(channel'[g], s), JsAsksNoMore(g, s),
         InQueue(AbortMsg(s), channel'[g]) => InQueue(AbortMsg(s), channel[g]),
         handling'[g][s] # "none" => handling[g][s] # "none" \/ Requested(e, s),
         Answered(e, s)' => \/ Answered(e, s) /\ handling'[g][s] = handling[g][s]
                            \/ handling'[g][s] = "over",
         ForgottenWasGivenUp(e, s)', JsStaysUnderWay(e, s), AbortIsLast(e, s)'
  PROVE  CallOK(e, s)'
<1> USE DEF CallOK
<1>1. /\ Numbered(e, s)' /\ MapsMatch(e, s)'
      /\ \A m : Holds(e, s, m)' <=> Holds(e, s, m)
      /\ GaveUp(e, s)' <=> GaveUp(e, s)
      /\ Unmade(e, s)' <=> Unmade(e, s)
      /\ call'[e][s] = call[e][s] /\ promise'[e][s] = promise[e][s]
      /\ s \in streamCallbacks'[e] <=> s \in streamCallbacks[e]
  BY CallerKeeps
<1>2. /\ execution' = execution /\ method' = method /\ requests' = requests /\ aborts' = aborts
      /\ signalled' = signalled /\ execution[g][s] = "none"
      /\ requests[g] = <<>> /\ aborts[g] = <<>> /\ signalled[g] = {}
  BY DEF serviceVars, NoRustState
<1>3. \A x : ~ InQueue(x, <<>>)
  BY DEF InQueue
<1>4. ServedWasCalled(e, s)'
  <2>1. Requested(e, s) => ~ Unmade(e, s)
    BY UnmadeFacts
  <2> QED
    BY <1>1, <1>2, <2>1 DEF ServedWasCalled
<1>5. RequestIsFresh(e, s)'
  BY <1>1, <1>2, <1>3 DEF RequestIsFresh, JsAsksNoMore, Untouched
<1>6. RequestIsAlone(e, s)'
  <2>1. OneCall(requests[g], s)
    BY DEF RequestIsAlone
  <2>2. ~ Queued(e, s)'
    BY <1>2, <1>3 DEF Queued
  <2> QED
    BY <1>2, <2>1, <2>2 DEF RequestIsAlone
<1>7. AbortWasSent(e, s)'
  BY <1>1, <1>2, <1>3 DEF AbortWasSent
<1>8. ResponseIsFinal(e, s)'
  BY <1>2 DEF ResponseIsFinal
<1>9. NotVanished(e, s)'
  BY <1>1 DEF NotVanished, JsStaysUnderWay, KeepsUnderWay
<1> QED
  BY <1>1, <1>4, <1>5, <1>6, <1>7, <1>8, <1>9

LEMMA JsServerOK ==
  ASSUME JInv, NEW g \in JsEnds, NEW s \in Seqs, UNCHANGED <<clientVars, serviceVars, jsCallerVars>>,
         SameEnds,
         \A f \in Ends, t \in Seqs : f # g \/ t # s => SameServer(f, t),
         \A d \in Ends, t \in Seqs : d # Peer(g) \/ t # s =>
           /\ SameDown(channel[Peer(d)], channel'[Peer(d)], t)
           /\ SameUp(channel[d], channel'[d], t),
         TracesMatch(Peer(g), s)', OneRequest(channel'[g], s), JsAsksNoMore(g, s),
         InQueue(AbortMsg(s), channel'[g]) => InQueue(AbortMsg(s), channel[g]),
         handling'[g][s] # "none" => handling[g][s] # "none" \/ Requested(Peer(g), s),
         Answered(Peer(g), s)' => \/ Answered(Peer(g), s) /\ handling'[g][s] = handling[g][s]
                                  \/ handling'[g][s] = "over",
         ForgottenWasGivenUp(Peer(g), s)', JsStaysUnderWay(Peer(g), s), AbortIsLast(Peer(g), s)'
  PROVE  \A d \in Ends, t \in Seqs : CallOK(d, t)'
<1>1. /\ g \in Ends /\ Peer(g) \in Ends /\ Peer(Peer(g)) = g /\ NoRustState(g)
      /\ \A d \in Ends, t \in Seqs : CallOK(d, t)
  BY JsContext
<1>2. \A d \in Ends, t \in Seqs : SameCaller(d, t)
  BY CallerUnchanged
<1>3. CallOK(Peer(g), s)'
  BY <1>1, <1>2, JsServerMoves
<1> QED
  BY <1>1, <1>2, <1>3, ServerFrame

(* What it writes of its handlers.                                         *)
LEMMA JsServerWrites ==
  ASSUME JInv, NEW g \in JsEnds, NEW s \in Seqs, UNCHANGED serviceVars,
         NEW to \in HandlingStates, SetHandling(g, s, to),
         \/ inflightRequests' = inflightRequests
         \/ inflightRequests' = Delete(inflightRequests, g, s)
         \/ inflightRequests' = Insert(inflightRequests, g, s),
         \/ runningIterators' = runningIterators
         \/ runningIterators' = Delete(runningIterators, g, s)
         \/ runningIterators' = Insert(runningIterators, g, s)
  PROVE  /\ handling'[g][s] = to
         /\ inflightRequests' = Delete(inflightRequests, g, s) => s \notin inflightRequests'[g]
         /\ runningIterators' = Delete(runningIterators, g, s) => s \notin runningIterators'[g]
         /\ inflightRequests' = Insert(inflightRequests, g, s) => s \in inflightRequests'[g]
         /\ runningIterators' = Insert(runningIterators, g, s) => s \in runningIterators'[g]
         /\ \A f \in Ends, t \in Seqs : f # g \/ t # s => SameServer(f, t)
         /\ execution'[g][s] = "none" /\ outbox'[g] = <<>> /\ outbox[g] = <<>>
         /\ running'[g] = {} /\ signalled'[g] = {}
<1>1. g \in Ends /\ NoRustState(g)
  BY JsContext
<1>2. /\ handling \in [Ends -> [Seqs -> HandlingStates]]
      /\ inflightRequests \in [Ends -> SUBSET Seqs] /\ runningIterators \in [Ends -> SUBSET Seqs]
  BY DEF JInv, JsTypeOK
<1>3. /\ handling'[g][s] = to
      /\ \A f \in Ends, t \in Seqs : f # g \/ t # s => handling'[f][t] = handling[f][t]
  BY <1>1, <1>2 DEF SetHandling
<1>4. /\ inflightRequests' = Delete(inflightRequests, g, s) => s \notin inflightRequests'[g]
      /\ inflightRequests' = Insert(inflightRequests, g, s) => s \in inflightRequests'[g]
      /\ \A f \in Ends, t \in Seqs : f # g \/ t # s =>
           (t \in inflightRequests'[f] <=> t \in inflightRequests[f])
  BY <1>1, <1>2 DEF Delete, Insert
<1>5. /\ runningIterators' = Delete(runningIterators, g, s) => s \notin runningIterators'[g]
      /\ runningIterators' = Insert(runningIterators, g, s) => s \in runningIterators'[g]
      /\ \A f \in Ends, t \in Seqs : f # g \/ t # s =>
           (t \in runningIterators'[f] <=> t \in runningIterators[f])
  BY <1>1, <1>2 DEF Delete, Insert
<1> QED
  BY <1>1, <1>3, <1>4, <1>5 DEF SameServer, serviceVars, NoRustState

(* A call that a handler serves is on its way no more.                     *)
LEMMA JsServing ==
  ASSUME JInv, NEW g \in JsEnds, NEW s \in Seqs, NEW e, e = Peer(g)
  PROVE  /\ e \in Ends /\ Peer(e) = g /\ e # g /\ \A d \in Ends : d = g \/ d = e
         /\ CallOK(e, s) /\ TracesMatch(e, s) /\ OneRequest(channel[g], s)
         /\ handling[g][s] # "none" => ~ Requested(e, s)
         /\ handling[g][s] # "over" => ~ Answered(e, s)
         /\ GaveUp(e, s) => "pending" \notin {call[e][s], promise[e][s]}
         /\ ~ Queued(e, s) /\ ~ InService(e, s) /\ execution[g][s] = "none"
<1>1. /\ e \in Ends /\ Peer(e) = g /\ e # g /\ \A d \in Ends : d = g \/ d = e
      /\ NoRustState(g) /\ CallOK(e, s) /\ OwnKind(e)
  BY JsContext DEF JInv
<1>2. TracesMatch(e, s) /\ OneRequest(channel[g], s) /\ MapsMatch(e, s)
  BY <1>1 DEF CallOK, RequestIsAlone
<1>3. \A x : ~ InQueue(x, <<>>)
  BY DEF InQueue
<1>4. /\ e \in JsEnds => call[e][s] = "idle"
      /\ e \notin JsEnds => promise[e][s] = "idle"
  BY <1>1 DEF OwnKind, NoRustState, NoJsState
<1>5. GaveUp(e, s) => "pending" \notin {call[e][s], promise[e][s]}
  BY <1>2, <1>4 DEF GaveUp, MapsMatch
<1>6. ~ Queued(e, s) /\ ~ InService(e, s) /\ execution[g][s] = "none"
  BY <1>1, <1>3 DEF Queued, InService, NoRustState
<1>7. /\ handling[g][s] # "none" => ~ Requested(e, s)
      /\ handling[g][s] # "over" => ~ Answered(e, s)
  BY <1>1, <1>6 DEF CallOK, RequestIsFresh, Requested, Untouched, ResponseIsFinal
<1> QED
  BY <1>1, <1>2, <1>5, <1>6, <1>7

(* It posts to its peer, unless it is closed.                              *)
LEMMA JsPosted ==
  ASSUME JInv, NEW g \in JsEnds, NEW s \in Seqs, NEW y \in Message, y.seq = s,
         y.kind \in {"Response", "StreamItem", "StreamEnd"}, JsSend(g, y)
  PROVE  /\ channel'[g] = channel[g]
         /\ \A d \in Ends, t \in Seqs : d # Peer(g) \/ t # s \/ y.kind = "StreamItem" =>
              /\ SameDown(channel[Peer(d)], channel'[Peer(d)], t)
              /\ SameUp(channel[d], channel'[d], t)
         /\ Answered(Peer(g), s) => Answered(Peer(g), s)'
         /\ Answered(Peer(g), s)' => Answered(Peer(g), s) \/ y.kind = "Response"
         /\ EndPosted(Peer(g), s) => EndPosted(Peer(g), s)'
         /\ g \notin closed /\ y.kind = "Response" => Answered(Peer(g), s)'
         /\ g \notin closed /\ y.kind = "StreamEnd" => EndPosted(Peer(g), s)'
<1>1. /\ g \in Ends /\ Peer(g) \in Ends /\ Peer(g) # g /\ Peer(Peer(g)) = g
      /\ \A d \in Ends : d = g \/ d = Peer(g)
  BY JsContext
<1>2. CASE channel' = channel /\ g \in closed
  BY <1>2, SameQueue DEF Answered, EndPosted
<1>3. CASE Post(g, y)
  <2>1. /\ channel[Peer(g)] \in Seq(Message)
        /\ channel'[Peer(g)] = Append(channel[Peer(g)], y) /\ channel'[g] = channel[g]
        /\ \A d \in Ends, t \in Seqs :
             /\ SameDown(channel[Peer(d)], channel'[Peer(d)], t)
             /\ d # Peer(g) \/ t # s \/ y.kind = "StreamItem" => SameUp(channel[d], channel'[d], t)
    BY <1>1, <1>3, PostElse DEF JInv, TypeOK
  <2>2. /\ Answered(Peer(g), s)' <=> Answered(Peer(g), s) \/ y.kind = "Response"
        /\ EndPosted(Peer(g), s)' <=> EndPosted(Peer(g), s) \/ y.kind = "StreamEnd"
    BY <1>1, <2>1, AddedFlags DEF Answered, EndPosted
  <2> QED
    BY <2>1, <2>2
<1> QED
  BY <1>2, <1>3 DEF JsSend

(* A handler of a value settles.                                           *)
LEMMA JsHandlerSettlesOK ==
  ASSUME JInv, NEW g \in JsEnds, NEW s \in Seqs, HandlerSettles(g, s),
         UNCHANGED <<clientVars, serviceVars>>
  PROVE  \A d \in Ends, t \in Seqs : CallOK(d, t)'
<1>1. PICK e \in Ends : e = Peer(g)
  BY JsServing
<1>2. /\ Peer(e) = g /\ e # g /\ \A d \in Ends : d = g \/ d = e
      /\ CallOK(e, s) /\ TracesMatch(e, s) /\ OneRequest(channel[g], s)
      /\ ~ Requested(e, s) /\ ~ Answered(e, s) /\ ~ Queued(e, s) /\ ~ InService(e, s)
      /\ execution[g][s] = "none" /\ handling[g][s] = "running" /\ g \in Ends
  BY <1>1, JsServing, JsContext DEF HandlerSettles
<1>3. PICK to \in HandlingStates :
        /\ SetHandling(g, s, to)
        /\ inflightRequests' = Delete(inflightRequests, g, s)
        /\ runningIterators' = runningIterators
        /\ \/ s \notin inflightRequests[g] /\ to = "abandoned" /\ UNCHANGED channel
           \/ s \in inflightRequests[g] /\ to = "over" /\ JsSend(g, ResponseMsg(s))
           \/ s \in inflightRequests[g] /\ to = "unanswered" /\ UNCHANGED channel
        /\ UNCHANGED <<closed, failure, jsCallerVars>>
  BY DEF HandlerSettles, HandlingStates
<1>4. /\ handling'[g][s] = to /\ s \notin inflightRequests'[g]
      /\ \A f \in Ends, t \in Seqs : f # g \/ t # s => SameServer(f, t)
      /\ execution'[g][s] = "none" /\ outbox'[g] = <<>> /\ outbox[g] = <<>>
      /\ running'[g] = {} /\ signalled'[g] = {}
  BY <1>3, JsServerWrites
<1>5. /\ ResponseMsg(s) \in Message /\ ResponseMsg(s).seq = s /\ ResponseMsg(s).kind = "Response"
  BY MessageFacts
<1>6. /\ channel'[g] = channel[g]
      /\ \A d \in Ends, t \in Seqs : d # e \/ t # s =>
           /\ SameDown(channel[Peer(d)], channel'[Peer(d)], t)
           /\ SameUp(channel[d], channel'[d], t)
      /\ EndPosted(e, s) => EndPosted(e, s)'
      /\ Answered(e, s)' => to = "over"
      /\ to = "over" /\ g \notin closed => Answered(e, s)'
  <2>1. CASE UNCHANGED channel /\ to # "over"
    BY <1>2, <2>1, SameQueue DEF Answered, EndPosted
  <2>2. CASE JsSend(g, ResponseMsg(s)) /\ to = "over"
    BY <1>1, <1>2, <1>5, <2>2, JsPosted
  <2> QED
    BY <1>3, <2>1, <2>2
<1>7. \A x : ~ InQueue(x, <<>>)
  BY DEF InQueue
<1>8. TracesMatch(e, s)'
  BY <1>2, <1>3, <1>4, <1>7 DEF TracesMatch
<1>9. JsAsksNoMore(g, s)
  BY <1>2, <1>6 DEF JsAsksNoMore, Requested
<1>10. ForgottenWasGivenUp(e, s)'
  <2>1. to = "abandoned" => g \in closed \/ GaveUp(e, s)
    BY <1>2, <1>3 DEF CallOK, ForgottenWasGivenUp
  <2>2. (GaveUp(e, s)' <=> GaveUp(e, s)) /\ closed' = closed
    BY <1>3 DEF GaveUp, clientVars, jsCallerVars
  <2> QED
    BY <1>2, <1>3, <1>4, <2>1, <2>2 DEF ForgottenWasGivenUp
<1>11. JsStaysUnderWay(e, s)
  <2>1. s \in inflightRequests[g] => g \notin closed
    BY <1>2 DEF TracesMatch
  <2>2. Excused(e, s) => Excused(e, s)'
    BY <1>2, <1>3 DEF Excused
  <2>3. to = "unanswered" => Excused(e, s)'
    BY <1>2, <1>4 DEF Excused
  <2>4. ValueUnderWay(e, s) => s \in inflightRequests[g]
    BY <1>2 DEF ValueUnderWay
  <2>5. to = "over" /\ s \in inflightRequests[g] => ValueUnderWay(e, s)'
    BY <1>6, <2>1 DEF ValueUnderWay
  <2>6. StreamUnderWay(e, s) => StreamUnderWay(e, s)'
    BY <1>2, <1>4, <1>6, <1>7 DEF StreamUnderWay
  <2> QED
    BY <1>3, <2>2, <2>3, <2>4, <2>5, <2>6 DEF JsStaysUnderWay, KeepsUnderWay
<1>12. AbortIsLast(e, s)'
  <2>1. AbortIsLast(e, s) /\ (GaveUp(e, s)' <=> GaveUp(e, s))
    BY <1>2, <1>3 DEF CallOK, GaveUp, clientVars, jsCallerVars
  <2> QED
    BY <1>2, <1>3, <1>4, <1>6, <2>1 DEF AbortIsLast, Requested
<1> QED
  BY <1>1, <1>2, <1>3, <1>4, <1>6, <1>8, <1>9, <1>10, <1>11, <1>12, JsServerOK DEF SameEnds

(* A stream yields an item, or it ends.                                    *)
LEMMA JsYieldOK ==
  ASSUME JInv, NEW g \in JsEnds, NEW s \in Seqs, Yield(g, s), UNCHANGED <<clientVars, serviceVars>>
  PROVE  \A d \in Ends, t \in Seqs : CallOK(d, t)'
<1>1. /\ g \in Ends /\ \A d \in Ends, t \in Seqs : CallOK(d, t)
  BY JsContext
<1>2. PICK i \in Items : JsSend(g, ItemMsg(s, i))
  <2>1. yielded[g][s] \in 0 .. MaxItems /\ yielded[g][s] < MaxItems /\ MaxItems \in Nat
    BY <1>1, BoundsAssumption DEF Yield, JInv, JsTypeOK
  <2>2. yielded[g][s] + 1 \in Items
    BY <2>1 DEF Items
  <2> QED
    BY <2>2 DEF Yield
<1>3. ItemMsg(s, i) \in Message /\ ItemMsg(s, i).kind = "StreamItem" /\ ItemMsg(s, i).seq = s
  BY MessageFacts
<1>4. \A d \in Ends, t \in Seqs : /\ SameDown(channel[Peer(d)], channel'[Peer(d)], t)
                                  /\ SameUp(channel[d], channel'[d], t)
  BY <1>2, <1>3, JsPosted
<1>5. /\ SameEnds /\ \A d \in Ends, t \in Seqs : SameCaller(d, t)
      /\ \A f \in Ends, t \in Seqs : SameServer(f, t)
  BY CallerUnchanged DEF Yield, SameEnds, SameServer, serviceVars
<1> QED
  BY <1>1, <1>4, <1>5, Frame, PeerProps

LEMMA JsFinishOK ==
  ASSUME JInv, NEW g \in JsEnds, NEW s \in Seqs, FinishIteration(g, s),
         UNCHANGED <<clientVars, serviceVars>>
  PROVE  \A d \in Ends, t \in Seqs : CallOK(d, t)'
<1>1. PICK e \in Ends : e = Peer(g)
  BY JsServing
<1>2. /\ Peer(e) = g /\ e # g /\ \A d \in Ends : d = g \/ d = e
      /\ CallOK(e, s) /\ TracesMatch(e, s) /\ OneRequest(channel[g], s)
      /\ ~ Requested(e, s) /\ ~ Answered(e, s) /\ ~ Queued(e, s) /\ ~ InService(e, s)
      /\ execution[g][s] = "none" /\ handling[g][s] = "iterating" /\ g \in Ends
  BY <1>1, JsServing, JsContext DEF FinishIteration
<1>3. PICK to \in HandlingStates :
        /\ SetHandling(g, s, to)
        /\ to = (IF s \in runningIterators[g] THEN "over" ELSE "abandoned")
        /\ runningIterators' = Delete(runningIterators, g, s)
        /\ inflightRequests' = inflightRequests
        /\ JsSend(g, EndMsg(s))
        /\ UNCHANGED <<closed, failure, jsCallerVars>>
  BY DEF FinishIteration, HandlingStates
<1>4. /\ handling'[g][s] = to /\ s \notin runningIterators'[g]
      /\ \A f \in Ends, t \in Seqs : f # g \/ t # s => SameServer(f, t)
      /\ execution'[g][s] = "none" /\ outbox'[g] = <<>> /\ outbox[g] = <<>>
      /\ running'[g] = {} /\ signalled'[g] = {}
  BY <1>3, JsServerWrites
<1>5. /\ EndMsg(s) \in Message /\ EndMsg(s).seq = s /\ EndMsg(s).kind = "StreamEnd"
  BY MessageFacts
<1>6. /\ channel'[g] = channel[g]
      /\ \A d \in Ends, t \in Seqs : d # e \/ t # s =>
           /\ SameDown(channel[Peer(d)], channel'[Peer(d)], t)
           /\ SameUp(channel[d], channel'[d], t)
      /\ ~ Answered(e, s)'
      /\ g \notin closed => EndPosted(e, s)'
  BY <1>1, <1>2, <1>3, <1>5, JsPosted
<1>7. \A x : ~ InQueue(x, <<>>)
  BY DEF InQueue
<1>8. TracesMatch(e, s)'
  BY <1>2, <1>3, <1>4, <1>7 DEF TracesMatch
<1>9. JsAsksNoMore(g, s)
  BY <1>2, <1>6 DEF JsAsksNoMore, Requested
<1>10. ForgottenWasGivenUp(e, s)'
  <2>1. to = "abandoned" => g \in closed \/ GaveUp(e, s)
    BY <1>2, <1>3 DEF CallOK, ForgottenWasGivenUp
  <2>2. (GaveUp(e, s)' <=> GaveUp(e, s)) /\ closed' = closed
    BY <1>3 DEF GaveUp, clientVars, jsCallerVars
  <2> QED
    BY <1>2, <1>3, <1>4, <2>1, <2>2 DEF ForgottenWasGivenUp
<1>11. JsStaysUnderWay(e, s)
  <2>1. Excused(e, s) => Excused(e, s)'
    BY <1>2, <1>3 DEF Excused
  <2>2. ~ ValueUnderWay(e, s)
    BY <1>2 DEF ValueUnderWay, TracesMatch
  <2>3. g \in closed => Excused(e, s)
    BY <1>2 DEF Excused
  <2>4. g \notin closed => StreamUnderWay(e, s)'
    BY <1>6 DEF StreamUnderWay
  <2> QED
    BY <2>1, <2>2, <2>3, <2>4 DEF JsStaysUnderWay, KeepsUnderWay
<1>12. AbortIsLast(e, s)'
  <2>1. AbortIsLast(e, s) /\ (GaveUp(e, s)' <=> GaveUp(e, s))
    BY <1>2, <1>3 DEF CallOK, GaveUp, clientVars, jsCallerVars
  <2> QED
    BY <1>2, <1>3, <1>4, <1>6, <2>1 DEF AbortIsLast, Requested
<1> QED
  BY <1>1, <1>2, <1>3, <1>4, <1>6, <1>8, <1>9, <1>10, <1>11, <1>12, JsServerOK DEF SameEnds

(* A request arrives.                                                      *)
LEMMA JsRequestOK ==
  ASSUME JInv, NEW g \in JsEnds, JsOnRequest(g), UNCHANGED <<clientVars, serviceVars>>
  PROVE  \A d \in Ends, t \in Seqs : CallOK(d, t)'
<1>1. /\ g \in Ends /\ g \notin closed /\ channel \in [Ends -> Seq(Message)]
      /\ channel[g] # <<>> /\ Head(channel[g]).kind = "Request"
      /\ UNCHANGED <<closed, failure, jsCallerVars>>
  BY JsContext DEF JsOnRequest, Arrives, JInv, TypeOK
<1>2. PICK y \in Message, s \in Seqs, m \in Methods :
        y = Head(channel[g]) /\ y.kind = "Request" /\ y.seq = s /\ y.method = m
  <2>1. Head(channel[g]) \in Message
    BY <1>1, QueueTail
  <2> QED
    BY <1>1, <2>1, MessageShapes
<1>3. PICK e \in Ends : e = Peer(g)
  BY JsServing
<1>4. /\ Peer(e) = g /\ e # g /\ \A d \in Ends : d = g \/ d = e
      /\ CallOK(e, s) /\ TracesMatch(e, s) /\ OneRequest(channel[g], s)
      /\ ~ Queued(e, s) /\ ~ InService(e, s) /\ execution[g][s] = "none"
  BY <1>3, JsServing
<1>5. /\ \A n \in Methods : InQueue(RequestMsg(s, n), channel[g]) <=>
           InQueue(RequestMsg(s, n), Tail(channel[g])) \/ n = m
      /\ InQueue(AbortMsg(s), channel[g]) <=> InQueue(AbortMsg(s), Tail(channel[g]))
      /\ OneRequest(Tail(channel[g]), s)
      /\ \A n \in Methods : ~ InQueue(RequestMsg(s, n), Tail(channel[g]))
      /\ NoRequestBehind(channel[g], s) => NoRequestBehind(Tail(channel[g]), s)
  <2>1. IsRequest(Head(channel[g]), s) /\ channel[g] \in Seq(Message)
    BY <1>1, <1>2 DEF IsRequest
  <2> QED
    BY <1>1, <1>2, <1>4, <2>1, TakenFlags, TakenOrder
<1>6. Requested(e, s) /\ Untouched(g, s) /\ Holds(e, s, m)
  BY <1>4, <1>5 DEF Requested, CallOK, RequestIsFresh
<1>7. handling[g][s] = "none" /\ s \notin inflightRequests[g] /\ s \notin runningIterators[g]
      /\ ~ Answered(e, s)
  BY <1>3, <1>4, <1>6, JsServing DEF Untouched, TracesMatch
<1>8. PICK to \in HandlingStates, ends \in BOOLEAN :
        /\ SetHandling(g, s, to)
        /\ ends => TakeAndPost(g, <<EndMsg(s)>>)
        /\ ~ ends => TakeAndPost(g, <<>>)
        /\ inflightRequests' = (IF to = "running" THEN Insert(inflightRequests, g, s) ELSE inflightRequests)
        /\ runningIterators' = (IF to = "iterating" THEN Insert(runningIterators, g, s) ELSE runningIterators)
        /\ \/ to = "undecoded" /\ ~ ends
           \/ to = "over" /\ m \in NotifyMethods /\ ~ ends
           \/ to = "running" /\ m \in ValueMethods /\ ~ ends
           \/ to = "iterating" /\ m \in StreamMethods /\ ~ ends
           \/ to = "over" /\ m \in StreamMethods /\ ends
  BY <1>2 DEF JsOnRequest, HandlingStates
<1>9. /\ handling'[g][s] = to
      /\ s \in inflightRequests'[g] <=> to = "running"
      /\ s \in runningIterators'[g] <=> to = "iterating"
      /\ \A f \in Ends, t \in Seqs : f # g \/ t # s => SameServer(f, t)
      /\ execution'[g][s] = "none" /\ outbox'[g] = <<>> /\ outbox[g] = <<>>
      /\ running'[g] = {} /\ signalled'[g] = {}
  BY <1>7, <1>8, JsServerWrites
<1>10. /\ channel'[g] = Tail(channel[g])
       /\ ends => channel'[e] = Append(channel[e], EndMsg(s))
       /\ ~ ends => channel'[e] = channel[e]
  <2>1. <<>> \in Seq(Message) /\ EndMsg(s) \in Message
    BY MessageFacts
  <2>2. CASE ends
    BY <1>1, <1>3, <1>8, <2>1, <2>2, TakeAndPostOne
  <2>3. CASE ~ ends
    BY <1>1, <1>3, <1>8, <2>1, <2>3, TakeAndPostEffect DEF TakesHead
  <2> QED
    BY <2>2, <2>3
<1>11. /\ \A d \in Ends, t \in Seqs : d # e \/ t # s =>
            /\ SameDown(channel[Peer(d)], channel'[Peer(d)], t)
            /\ SameUp(channel[d], channel'[d], t)
       /\ ~ Answered(e, s)'
       /\ EndPosted(e, s) => EndPosted(e, s)'
       /\ ends => EndPosted(e, s)'
  <2>1. EndMsg(s) \in Message /\ EndMsg(s).kind = "StreamEnd" /\ EndMsg(s).seq = s
    BY MessageFacts
  <2>2. \A t \in Seqs : /\ t # s => SameDown(channel[g], Tail(channel[g]), t)
                       /\ SameUp(channel[g], Tail(channel[g]), t)
    BY <1>1, <1>2, TakenSame
  <2>3. \A t \in Seqs : /\ t # s => SameUp(channel[e], Append(channel[e], EndMsg(s)), t)
                       /\ SameDown(channel[e], Append(channel[e], EndMsg(s)), t)
    BY <1>1, <2>1, AddedSame
  <2>4. /\ InQueue(EndMsg(s), Append(channel[e], EndMsg(s)))
        /\ InQueue(ResponseMsg(s), Append(channel[e], EndMsg(s))) <=> InQueue(ResponseMsg(s), channel[e])
    BY <1>1, <2>1, AddedFlags
  <2>5. ~ Answered(e, s)' /\ (EndPosted(e, s) => EndPosted(e, s)')
        /\ (ends => EndPosted(e, s)')
    BY <1>7, <1>10, <2>4 DEF Answered, EndPosted
  <2>6. \A t \in Seqs : /\ t # s => SameDown(channel[g], channel'[g], t) /\ SameUp(channel[e], channel'[e], t)
                       /\ SameUp(channel[g], channel'[g], t) /\ SameDown(channel[e], channel'[e], t)
    BY <1>10, <2>2, <2>3, SameQueue
  <2> QED
    BY <1>3, <1>4, <2>5, <2>6
<1>12. \A x : ~ InQueue(x, <<>>)
  BY DEF InQueue
<1>13. TracesMatch(e, s)'
  BY <1>1, <1>4, <1>9, <1>12 DEF TracesMatch
<1>14. /\ OneRequest(channel'[g], s) /\ JsAsksNoMore(g, s)
       /\ InQueue(AbortMsg(s), channel'[g]) => InQueue(AbortMsg(s), channel[g])
  BY <1>5, <1>10 DEF JsAsksNoMore
<1>15. ForgottenWasGivenUp(e, s)'
  BY <1>4, <1>8, <1>9 DEF ForgottenWasGivenUp
<1>16. JsStaysUnderWay(e, s)
  <2>1. OwnKind(e) /\ MapsMatch(e, s)
    BY <1>4 DEF JInv, CallOK
  <2>2. /\ e \in JsEnds => call[e][s] = "idle"
        /\ e \notin JsEnds => promise[e][s] = "idle"
    BY <2>1 DEF OwnKind, NoRustState, NoJsState
  <2>3. /\ "pending" \in {call[e][s], promise[e][s]} => m \in ValueMethods
        /\ s \in streamCallbacks[e] \/ promise[e][s] = "open" => m \in StreamMethods
    <3>1. m \in NotifyMethods \cup ValueMethods \cup StreamMethods
      BY MethodsAssumption DEF AllMethods, NotifyMethods, ValueMethods, StreamMethods
    <3>2. /\ call[e][s] \in {"pending", "open"} => call[e][s] \in HeldFor(m)
          /\ promise[e][s] \in {"pending", "open"} => promise[e][s] \in PromisedFor(m)
      BY <1>6, <2>2 DEF Holds
    <3>3. s \in streamCallbacks[e] => call[e][s] = "open"
      BY <2>1 DEF MapsMatch
    <3> QED
      BY <3>1, <3>2, <3>3 DEF HeldFor, PromisedFor
  <2>4. ~ (m \in ValueMethods /\ m \in StreamMethods) /\ ~ (m \in NotifyMethods /\ m \in ValueMethods)
        /\ ~ (m \in NotifyMethods /\ m \in StreamMethods)
    BY DEF NotifyMethods, ValueMethods, StreamMethods
  <2>5. /\ to = "undecoded" => Excused(e, s)'
        /\ Excused(e, s) => Excused(e, s)'
    BY <1>1, <1>4, <1>7, <1>9 DEF Excused
  <2>6. to = "running" => ValueUnderWay(e, s)'
    BY <1>4, <1>9 DEF ValueUnderWay
  <2>7. to = "iterating" \/ ends => StreamUnderWay(e, s)'
    BY <1>4, <1>9, <1>11 DEF StreamUnderWay
  <2> QED
    BY <1>8, <2>3, <2>4, <2>5, <2>6, <2>7 DEF JsStaysUnderWay, KeepsUnderWay
<1>17. AbortIsLast(e, s)'
  <2>1. AbortIsLast(e, s) /\ (GaveUp(e, s)' <=> GaveUp(e, s)) /\ failure' = failure
    BY <1>1, <1>4 DEF CallOK, GaveUp, clientVars, jsCallerVars
  <2>2. ASSUME e \notin JsEnds, g \in JsEnds \ failure
        PROVE  /\ NoRequestBehind(channel'[g], s)
               /\ ~ (GaveUp(e, s) /\ ~ InQueue(AbortMsg(s), channel'[g]))
    BY <1>4, <1>5, <1>6, <1>10, <2>1, <2>2 DEF AbortIsLast
  <2> QED
    BY <1>4, <2>1, <2>2 DEF AbortIsLast
<1> QED
  BY <1>1, <1>3, <1>6, <1>9, <1>11, <1>13, <1>14, <1>15, <1>16, <1>17, JsServerOK DEF SameEnds

(* An abort arrives.                                                       *)
LEMMA JsAbortOK ==
  ASSUME JInv, NEW g \in JsEnds, JsOnAbort(g), UNCHANGED <<clientVars, serviceVars>>
  PROVE  \A d \in Ends, t \in Seqs : CallOK(d, t)'
<1>1. /\ g \in Ends /\ channel \in [Ends -> Seq(Message)]
      /\ channel[g] # <<>> /\ Head(channel[g]).kind = "Abort"
      /\ UNCHANGED <<closed, failure, jsCallerVars, handling>>
  BY JsContext DEF JsOnAbort, Arrives, JInv, TypeOK
<1>2. PICK y \in Message, s \in Seqs : y = Head(channel[g]) /\ y.kind = "Abort" /\ y.seq = s
  <2>1. Head(channel[g]) \in Message
    BY <1>1, QueueTail
  <2> QED
    BY <1>1, <2>1, MessageShapes
<1>3. PICK e \in Ends : e = Peer(g)
  BY JsServing
<1>4. /\ Peer(e) = g /\ e # g /\ \A d \in Ends : d = g \/ d = e
      /\ CallOK(e, s) /\ TracesMatch(e, s) /\ OneRequest(channel[g], s)
      /\ GaveUp(e, s) => "pending" \notin {call[e][s], promise[e][s]}
  BY <1>3, JsServing
<1>5. y = AbortMsg(s)
  BY <1>2, MessageShapes
<1>6. TakesHead(g) /\ channel'[g] = Tail(channel[g]) /\ channel'[e] = channel[e]
  <2>1. <<>> \in Seq(Message)
    OBVIOUS
  <2> QED
    BY <1>1, <1>3, <2>1, TakeAndPostEffect DEF JsOnAbort, TakesHead
<1>7. /\ \A n \in Methods : InQueue(RequestMsg(s, n), channel[g]) <=> InQueue(RequestMsg(s, n), channel'[g])
      /\ InQueue(AbortMsg(s), channel[g])
      /\ OneRequest(channel'[g], s)
      /\ NoRequestBehind(channel[g], s) =>
           /\ NoRequestBehind(channel'[g], s)
           /\ \A n \in Methods : ~ InQueue(RequestMsg(s, n), channel'[g])
  BY <1>1, <1>2, <1>4, <1>5, <1>6, TakenFlags, TakenOrder
<1>8. \A d \in Ends, t \in Seqs : d # e \/ t # s =>
        /\ SameDown(channel[Peer(d)], channel'[Peer(d)], t)
        /\ SameUp(channel[d], channel'[d], t)
  BY <1>1, <1>2, <1>4, <1>6, TakeElse
<1>9. PICK to \in HandlingStates : SetHandling(g, s, to) /\ to = handling[g][s]
  BY <1>1 DEF SetHandling, JInv, JsTypeOK
<1>10. /\ inflightRequests' = Delete(inflightRequests, g, s)
       /\ runningIterators' = Delete(runningIterators, g, s)
  BY <1>2 DEF JsOnAbort
<1>11. /\ handling'[g][s] = to /\ s \notin inflightRequests'[g] /\ s \notin runningIterators'[g]
       /\ \A f \in Ends, t \in Seqs : f # g \/ t # s => SameServer(f, t)
       /\ execution'[g][s] = "none" /\ outbox'[g] = <<>> /\ outbox[g] = <<>>
       /\ running'[g] = {} /\ signalled'[g] = {}
  BY <1>9, <1>10, JsServerWrites
<1>12. \A x : ~ InQueue(x, <<>>)
  BY DEF InQueue
<1>13. TracesMatch(e, s)'
  BY <1>4, <1>11, <1>12 DEF TracesMatch
<1>14. GaveUp(e, s) /\ GaveUp(e, s)'
  <2>1. GaveUp(e, s)
    BY <1>4, <1>7 DEF CallOK, AbortWasSent
  <2> QED
    BY <1>1, <2>1 DEF GaveUp, clientVars, jsCallerVars
<1>15. JsAsksNoMore(g, s) /\ ForgottenWasGivenUp(e, s)'
  BY <1>4, <1>7, <1>9, <1>11, <1>14 DEF JsAsksNoMore, ForgottenWasGivenUp
<1>16. Answered(e, s)' => Answered(e, s) /\ handling'[g][s] = handling[g][s]
  BY <1>6, <1>9, <1>11 DEF Answered
<1>17. JsStaysUnderWay(e, s)
  <2>1. Excused(e, s) => Excused(e, s)'
    BY <1>1, <1>4 DEF Excused
  <2>2. StreamUnderWay(e, s) => StreamUnderWay(e, s)'
    BY <1>1, <1>4, <1>6, <1>7
    DEF StreamUnderWay, Requested, Queued, EndPosted, serviceVars
  <2> QED
    BY <1>4, <1>14, <2>1, <2>2 DEF JsStaysUnderWay, KeepsUnderWay
<1>18. AbortIsLast(e, s)'
  <2>1. AbortIsLast(e, s) /\ failure' = failure
    BY <1>1, <1>4 DEF CallOK
  <2> QED
    BY <1>4, <1>7, <1>11, <2>1 DEF AbortIsLast, Requested
<1> QED
  BY <1>1, <1>3, <1>7, <1>8, <1>9, <1>11, <1>13, <1>15, <1>16, <1>17, <1>18, JsServerOK DEF SameEnds

-----------------------------------------------------------------------------
(* An endpoint that is closed or has failed, or that throws away what      *)
(* still arrives: nothing is waited for there, and it is an excuse for     *)
(* what its peer waits for.                                                *)
Loses(e) ==
  /\ e \in closed' \cup failure'
  /\ \A d \in Ends : d # e => SameEnd(d)
  /\ (e \in closed => e \in closed') /\ (e \in failure => e \in failure')
  /\ \A s \in Seqs :
       /\ promise[e][s] = "idle" => promise'[e][s] = "idle"
       /\ Moves(promise[e][s], promise'[e][s]) /\ promise'[e][s] \notin {"pending", "open"}
       /\ s \in pendingRequests'[e] => s \in pendingRequests[e] /\ promise'[e][s] = "threw"
       /\ s \in openStreams'[e] => s \in openStreams[e] /\ promise'[e][s] = "threw"
       /\ s \in inflightRequests'[e] => s \in inflightRequests[e]
       /\ s \in runningIterators'[e] => s \in runningIterators[e]
  /\ e \in closed' => \A s \in Seqs : s \notin inflightRequests'[e] /\ s \notin runningIterators'[e]
  /\ e \notin closed' =>
       UNCHANGED <<inflightRequests, runningIterators>>
  /\ \A d \in Ends, s \in Seqs : d # e =>
       /\ promise'[d][s] = promise[d][s]
       /\ s \in pendingRequests'[d] <=> s \in pendingRequests[d]
       /\ s \in openStreams'[d] <=> s \in openStreams[d]
       /\ s \in inflightRequests'[d] <=> s \in inflightRequests[d]
       /\ s \in runningIterators'[d] <=> s \in runningIterators[d]
  /\ UNCHANGED <<clientVars, serviceVars, handling, nextSequence, stopped>>
  /\ channel' = channel \/ TakesHead(e)

LEMMA JsCallsLost ==
  ASSUME JInv, NEW e \in JsEnds, Loses(e), NEW s \in Seqs
  PROVE  CallOK(e, s)'
<1>1. /\ e \in Ends /\ Peer(e) \in Ends /\ Peer(e) # e /\ CallOK(e, s)
      /\ Numbered(e, s) /\ MapsMatch(e, s) /\ call'[e][s] = "idle"
      /\ s \notin callbacks'[e] /\ s \notin streamCallbacks'[e]
      /\ channel \in [Ends -> Seq(Message)]
  BY JsContext DEF CallOK, NoRustState, Loses, clientVars, JInv, TypeOK
<1>2. SameEnd(Peer(e)) /\ SameServer(Peer(e), s)
  BY <1>1 DEF Loses, SameServer, serviceVars
<1>3. /\ promise'[e][s] \notin {"pending", "open"} /\ Moves(promise[e][s], promise'[e][s])
      /\ promise[e][s] = "idle" => promise'[e][s] = "idle"
      /\ UNCHANGED <<clientVars, nextSequence, stopped>>
  BY DEF Loses
<1>4. Numbered(e, s)'
  BY <1>1, <1>3 DEF Numbered
<1>5. MapsMatch(e, s)'
  <2>1. s \in stopped'[e] =>
          promise'[e][s] \in {"open", "ending", "closing", "done", "closed", "failed"}
    BY <1>1, <1>3 DEF MapsMatch, Moves
  <2>2. /\ s \in pendingRequests'[e] => promise'[e][s] \in {"pending", "threw"}
        /\ s \in openStreams'[e] => promise'[e][s] \in {"open", "threw"}
        /\ s \notin pendingRequests'[e] \cap openStreams'[e]
    BY <1>1 DEF Loses, MapsMatch
  <2> QED
    BY <1>1, <1>3, <2>1, <2>2 DEF MapsMatch
<1>6. MovesOn(e, s)
  BY <1>3, <1>4, <1>5, PromiseMoves
<1>7. MayAbort(e, s) /\ MayHear(e, s)
  <2>1. CASE channel' = channel
    BY <1>1, <2>1, NothingPosted
  <2>2. CASE TakesHead(e)
    <3>1. channel'[Peer(e)] = channel[Peer(e)]
      BY <2>2 DEF TakesHead
    <3>2. (Answered(e, s)' => Answered(e, s)) /\ (EndPosted(e, s)' => EndPosted(e, s))
      BY <1>1, <2>2, TakenFlags DEF TakesHead, Answered, EndPosted
    <3> QED
      BY <1>1, <1>3, <3>1, <3>2 DEF MayAbort, MayHear
  <2> QED
    BY <2>1, <2>2 DEF Loses
<1> QED
  BY <1>1, <1>2, <1>6, <1>7, CallerMovesTo

LEMMA JsPeerLost ==
  ASSUME JInv, NEW e \in JsEnds, Loses(e), NEW s \in Seqs, NEW d, d = Peer(e)
  PROVE  CallOK(d, s)'
<1>1. /\ e \in Ends /\ d \in Ends /\ d # e /\ Peer(d) = e /\ CallOK(d, s) /\ NoRustState(e)
      /\ channel \in [Ends -> Seq(Message)] /\ channel[e] \in Seq(Message)
  BY JsContext DEF JInv, TypeOK
<1>2. SameEnd(d) /\ SameCaller(d, s)
  BY <1>1 DEF Loses, SameCaller, clientVars
<1>3. /\ Numbered(d, s)' /\ MapsMatch(d, s)'
      /\ \A m : Holds(d, s, m)' <=> Holds(d, s, m)
      /\ GaveUp(d, s)' <=> GaveUp(d, s)
      /\ Unmade(d, s)' <=> Unmade(d, s)
  BY <1>1, <1>2, CallerKeeps
<1>4. /\ \A m \in Methods : InQueue(RequestMsg(s, m), channel'[e]) => InQueue(RequestMsg(s, m), channel[e])
      /\ InQueue(AbortMsg(s), channel'[e]) => InQueue(AbortMsg(s), channel[e])
      /\ OneRequest(channel[e], s) => OneRequest(channel'[e], s)
      /\ NoRequestBehind(channel[e], s) =>
           /\ NoRequestBehind(channel'[e], s)
           /\ InQueue(AbortMsg(s), channel[e]) /\ ~ InQueue(AbortMsg(s), channel'[e]) =>
                \A m \in Methods : ~ InQueue(RequestMsg(s, m), channel'[e])
      /\ channel'[d] = channel[d]
  <2>1. CASE channel' = channel
    BY <2>1
  <2>2. CASE TakesHead(e)
    <3>1. channel[e] # <<>> /\ channel'[e] = Tail(channel[e]) /\ channel'[d] = channel[d]
      BY <2>2 DEF TakesHead
    <3>2. PICK y \in Message : y = Head(channel[e])
      BY <1>1, <3>1, QueueTail
    <3>3. y.kind = "Abort" /\ y.seq = s => y = AbortMsg(s)
      BY MessageShapes
    <3> QED
      BY <1>1, <3>1, <3>2, <3>3, TakenFlags, TakenOrder
  <2> QED
    BY <2>1, <2>2 DEF Loses
<1>5. /\ UNCHANGED <<execution, method, requests, aborts, signalled, running, outbox, handling>>
      /\ execution[e][s] = "none" /\ requests[e] = <<>> /\ aborts[e] = <<>>
      /\ signalled[e] = {} /\ running[e] = {} /\ outbox[e] = <<>>
  BY <1>1 DEF Loses, serviceVars, NoRustState
<1>6. \A x : ~ InQueue(x, <<>>)
  BY DEF InQueue
<1>7. TracesMatch(d, s)'
  BY <1>1, <1>5, <1>6 DEF Loses, TracesMatch, CallOK
<1>8. ServedWasCalled(d, s)' /\ RequestIsFresh(d, s)'
  BY <1>1, <1>3, <1>4, <1>5, <1>6 DEF ServedWasCalled, RequestIsFresh, Untouched, CallOK
<1>9. RequestIsAlone(d, s)'
  <2>1. ~ Queued(d, s)'
    BY <1>1, <1>5, <1>6 DEF Queued
  <2> QED
    BY <1>1, <1>4, <1>5, <2>1 DEF RequestIsAlone, CallOK
<1>10. AbortWasSent(d, s)' /\ ResponseIsFinal(d, s)'
  BY <1>1, <1>3, <1>4, <1>5, <1>6 DEF AbortWasSent, ResponseIsFinal, Answered, CallOK
<1>11. ForgottenWasGivenUp(d, s)'
  <2>1. CASE e \in closed'
    BY <1>1, <2>1 DEF ForgottenWasGivenUp
  <2>2. CASE e \notin closed'
    BY <1>1, <1>3, <1>5, <2>2 DEF ForgottenWasGivenUp, Loses, CallOK
  <2> QED
    BY <2>1, <2>2
<1>12. NotVanished(d, s)'
  <2>1. Excused(d, s)'
    BY <1>1 DEF Excused, Loses
  <2> QED
    BY <2>1 DEF NotVanished
<1>13. AbortIsLast(d, s)'
  <2>1. CASE e \in failure'
    BY <1>1, <2>1 DEF AbortIsLast
  <2>2. CASE e \notin failure' /\ e \in failure
    BY <2>2 DEF Loses
  <2>3. CASE e \notin failure' /\ e \notin failure
    <3>1. e \in closed'
      BY <2>3 DEF Loses
    <3>2. s \notin inflightRequests'[e] /\ s \notin runningIterators'[e]
      BY <3>1 DEF Loses
    <3> QED
      BY <1>1, <1>3, <1>4, <2>3, <3>2 DEF AbortIsLast, Requested, CallOK
  <2> QED
    BY <2>1, <2>2, <2>3
<1> QED
  BY <1>3, <1>7, <1>8, <1>9, <1>10, <1>11, <1>12, <1>13 DEF CallOK

LEMMA SettleAllWrites ==
  ASSUME JInv, NEW e \in JsEnds, NEW status \in {"closing", "failed"}, SettleAll(e, status)
  PROVE  /\ \A s \in Seqs :
              /\ promise[e][s] = "idle" => promise'[e][s] = "idle"
              /\ Moves(promise[e][s], promise'[e][s])
              /\ promise'[e][s] \notin {"pending", "open"}
              /\ s \notin pendingRequests'[e] /\ s \notin openStreams'[e]
         /\ \A d \in Ends, s \in Seqs : d # e =>
              /\ promise'[d][s] = promise[d][s]
              /\ s \in pendingRequests'[d] <=> s \in pendingRequests[d]
              /\ s \in openStreams'[d] <=> s \in openStreams[d]
<1>1. /\ e \in Ends /\ promise \in [Ends -> [Seqs -> PromiseStates]]
      /\ pendingRequests \in [Ends -> SUBSET Seqs] /\ openStreams \in [Ends -> SUBSET Seqs]
  BY JsContext DEF JInv, JsTypeOK
<1>2. \A s \in Seqs : promise'[e][s] =
        (CASE promise[e][s] = "pending" -> "rejected"
           [] promise[e][s] = "open" -> status
           [] OTHER -> promise[e][s])
  BY <1>1 DEF SettleAll
<1>3. \A d \in Ends, s \in Seqs : d # e => promise'[d][s] = promise[d][s]
  BY <1>1 DEF SettleAll
<1>4. /\ pendingRequests'[e] = {} /\ openStreams'[e] = {}
      /\ \A d \in Ends : d # e => /\ pendingRequests'[d] = pendingRequests[d]
                                  /\ openStreams'[d] = openStreams[d]
  BY <1>1 DEF SettleAll
<1>5. \A s \in Seqs : /\ promise[e][s] = "idle" => promise'[e][s] = "idle"
                      /\ Moves(promise[e][s], promise'[e][s])
                      /\ promise'[e][s] \notin {"pending", "open"}
  BY <1>2 DEF Moves
<1> QED
  BY <1>3, <1>4, <1>5

LEMMA EndingLoses ==
  ASSUME JInv, NEW e \in JsEnds, CloseEndpoint(e) \/ Fail(e) \/ Discard(e),
         UNCHANGED <<clientVars, serviceVars>>
  PROVE  Loses(e)
<1>1. /\ e \in Ends /\ Peer(e) \in Ends /\ Peer(Peer(e)) = e
      /\ \A s \in Seqs : MapsMatch(e, s) /\ TracesMatch(Peer(e), s)
      /\ inflightRequests \in [Ends -> SUBSET Seqs] /\ runningIterators \in [Ends -> SUBSET Seqs]
      /\ channel \in [Ends -> Seq(Message)]
  BY JsContext DEF CallOK, JInv, JsTypeOK, TypeOK
<1>2. \A s \in Seqs : Moves(promise[e][s], promise[e][s])
  BY DEF Moves
<1>3. \A s \in Seqs : e \in closed \cup failure =>
        /\ promise[e][s] \notin {"pending", "open"}
        /\ s \in pendingRequests[e] => promise[e][s] = "threw"
        /\ s \in openStreams[e] => promise[e][s] = "threw"
  BY <1>1 DEF MapsMatch
<1>4. \A s \in Seqs : e \in closed => s \notin inflightRequests[e] /\ s \notin runningIterators[e]
  BY <1>1 DEF TracesMatch
<1>5. channel[e] # <<>> /\ TakeAndPost(e, <<>>) => TakesHead(e)
  <2>1. <<>> \in Seq(Message)
    OBVIOUS
  <2> QED
    BY <1>1, <2>1, TakeAndPostEffect
<1>6. CASE CloseEndpoint(e)
  <2>1. /\ inflightRequests'[e] = {} /\ runningIterators'[e] = {}
        /\ \A d \in Ends : d # e => /\ inflightRequests'[d] = inflightRequests[d]
                                    /\ runningIterators'[d] = runningIterators[d]
    BY <1>1, <1>6 DEF CloseEndpoint
  <2>2. /\ closed' = closed \cup {e} /\ SettleAll(e, "closing")
        /\ UNCHANGED <<channel, failure, handling, nextSequence, stopped>>
    BY <1>6 DEF CloseEndpoint, SettleAll
  <2>3. \A d \in Ends : d # e => SameEnd(d)
    BY <2>2 DEF SameEnd
  <2> QED
    BY <2>1, <2>2, <2>3, SettleAllWrites DEF Loses
<1>7. CASE Fail(e)
  <2>1. /\ failure' = failure \cup {e} /\ e \notin closed /\ closed' = closed
        /\ UNCHANGED <<handling, inflightRequests, runningIterators, nextSequence, stopped>>
    BY <1>7 DEF Fail, SettleAll, jsHandlerVars, jsCallerVars
  <2>2. channel' = channel \/ TakesHead(e)
    BY <1>5, <1>7 DEF Fail
  <2>3. \A d \in Ends : d # e => SameEnd(d)
    BY <2>1 DEF SameEnd
  <2>4. CASE e \notin failure
    <3>1. SettleAll(e, "failed")
      BY <1>7, <2>4 DEF Fail
    <3> QED
      BY <2>1, <2>2, <2>3, <3>1, SettleAllWrites DEF Loses
  <2>5. CASE e \in failure
    <3>1. UNCHANGED <<promise, pendingRequests, openStreams>>
      BY <1>7, <2>5 DEF Fail, jsCallerVars
    <3> QED
      BY <1>2, <1>3, <2>1, <2>2, <2>3, <2>5, <3>1 DEF Loses
  <2> QED
    BY <2>4, <2>5
<1>8. CASE Discard(e)
  <2>1. /\ TakesHead(e) /\ e \in closed
        /\ UNCHANGED <<closed, failure, handling, inflightRequests, runningIterators,
                       nextSequence, stopped, promise, pendingRequests, openStreams>>
    BY <1>5, <1>8 DEF Discard, jsVars, jsCallerVars, jsHandlerVars
  <2>2. \A d \in Ends : d # e => SameEnd(d)
    BY <2>1 DEF SameEnd
  <2> QED
    BY <1>2, <1>3, <1>4, <2>1, <2>2 DEF Loses
<1> QED
  BY <1>6, <1>7, <1>8

(* Every step of an endpoint.                                              *)
LEMMA JsStepOK ==
  ASSUME JInv, NEW e \in JsEnds, JsStep(e), UNCHANGED <<clientVars, serviceVars>>
  PROVE  \A d \in Ends, t \in Seqs : CallOK(d, t)'
<1>1. CASE JsCall(e) /\ UNCHANGED <<closed, failure, jsHandlerVars>>
  BY <1>1, JsCallOK
<1>2. ASSUME NEW s \in Seqs, JsCallerStep(e, s), UNCHANGED <<closed, failure, jsHandlerVars>>
      PROVE  \A d \in Ends, t \in Seqs : CallOK(d, t)'
  BY <1>2, JsCallerOK
<1>3. ASSUME NEW s \in Seqs, JsHandlerStep(e, s)
      PROVE  \A d \in Ends, t \in Seqs : CallOK(d, t)'
  BY <1>3, JsHandlerSettlesOK, JsYieldOK, JsFinishOK DEF JsHandlerStep
<1>4. CASE JsDispatch(e)
  BY <1>4, JsAnswerOK, JsRequestOK, JsAbortOK DEF JsDispatch
<1>5. CASE CloseEndpoint(e) \/ Fail(e) \/ Discard(e)
  <2>1. Loses(e)
    BY <1>5, EndingLoses
  <2>2. \A t \in Seqs : CallOK(e, t)' /\ CallOK(Peer(e), t)'
    BY <2>1, JsCallsLost, JsPeerLost
  <2> QED
    BY <2>2, JsContext
<1> QED
  BY <1>1, <1>2, <1>3, <1>4, <1>5 DEF JsStep

-----------------------------------------------------------------------------
(* A step of an interface leaves the tables of the other end alone.        *)
OthersRust(g) ==
  \A d \in Ends : d # g =>
    /\ call'[d] = call[d] /\ callbacks'[d] = callbacks[d]
    /\ streamCallbacks'[d] = streamCallbacks[d]
    /\ requests'[d] = requests[d] /\ aborts'[d] = aborts[d] /\ outbox'[d] = outbox[d]
    /\ running'[d] = running[d] /\ signalled'[d] = signalled[d] /\ execution'[d] = execution[d]

LEMMA RustRows ==
  ASSUME TypeOK, NEW g \in Ends, InterfaceStep(g)
  PROVE  OthersRust(g)
<1> USE DEF TypeOK, OthersRust
<1>1. CASE UNCHANGED serviceVars
  <2>1. UNCHANGED <<requests, aborts, outbox, running, signalled, execution>>
    BY <1>1 DEF serviceVars
  <2>2. CASE NewCall(g)
    <3>1. PICK m \in Methods : Notify(g, m) \/ Request(g, m) \/ Stream(g, m)
      BY <2>2 DEF NewCall
    <3> QED
      BY <2>1, <3>1 DEF Notify, Request, Stream, SetCall, ClientTypeOK
  <2>3. ASSUME NEW s \in Seqs, CallerStep(g, s)
        PROVE  OthersRust(g)
    <3>1. CASE PollResponse(g, s) \/ DropRequest(g, s) \/ PollItem(g, s) \/ PollNone(g, s)
      BY <2>1, <3>1 DEF PollResponse, DropRequest, PollItem, PollNone, SetCall, ClientTypeOK
    <3>2. CASE Close(g, s) \/ DropStream(g, s)
      BY <2>1, <3>2 DEF Close, DropStream, FireStreamAbort, SetCall, ClientTypeOK
    <3> QED
      BY <2>3, <3>1, <3>2 DEF CallerStep
  <2>4. CASE DispatchResponse(g) \/ DispatchStreamItem(g) \/ DispatchStreamEnd(g)
    BY <2>1, <2>4
    DEF DispatchResponse, DispatchStreamItem, DispatchStreamEnd, OnResponse, OnStreamItem,
        OnStreamEnd, SetCall, ClientTypeOK
  <2>5. CASE DispatchRequest(g) \/ DispatchAbort(g)
    BY <2>1, <2>5 DEF DispatchRequest, DispatchAbort, clientVars
  <2>6. CASE UNCHANGED clientVars
    BY <2>1, <2>6 DEF clientVars
  <2> QED
    BY <2>2, <2>3, <2>4, <2>5, <2>6 DEF InterfaceStep, Dispatch
<1>2. CASE UNCHANGED clientVars
  <2>1. UNCHANGED <<call, callbacks, streamCallbacks>>
    BY <1>2 DEF clientVars
  <2>2. CASE DispatchRequest(g) \/ DispatchAbort(g)
    BY <2>1, <2>2 DEF DispatchRequest, DispatchAbort, ServiceTypeOK
  <2>3. CASE TakeRequest(g) \/ TakeAbort(g)
    BY <2>1, <2>3 DEF TakeRequest, TakeAbort, SetExecution, Forget, ServiceTypeOK
  <2>4. CASE ForwardItem(g) \/ ForwardEnd(g)
    BY <2>1, <2>4 DEF ForwardItem, ForwardEnd, Forget, ServiceTypeOK
  <2>5. ASSUME NEW s \in Seqs, ExecutionStep(g, s)
        PROVE  OthersRust(g)
    <3>1. ASSUME NEW status, NEW response, Complete(g, s, status, response)
          PROVE  OthersRust(g)
      BY <2>1, <3>1 DEF Complete, SetExecution, Forget, ServiceTypeOK
    <3>2. CASE FinishNotify(g, s) \/ FinishValue(g, s) \/ AbortValue(g, s)
      BY <3>1, <3>2 DEF FinishNotify, FinishValue, AbortValue
    <3>3. CASE StartStream(g, s) \/ ProduceItem(g, s)
      BY <2>1, <3>3 DEF StartStream, ProduceItem, SetExecution, ServiceTypeOK
    <3>4. CASE FinishStream(g, s) \/ AbortStream(g, s)
      BY <2>1, <3>4 DEF FinishStream, AbortStream, EndStream, SetExecution, ServiceTypeOK
    <3> QED
      BY <2>5, <3>2, <3>3, <3>4 DEF ExecutionStep
  <2>6. CASE UNCHANGED serviceVars
    BY <1>1, <2>6
  <2> QED
    BY <1>2, <2>2, <2>3, <2>4, <2>5, <2>6, <1>1
    DEF InterfaceStep, ServiceStep, LoopStep, Dispatch, DispatchResponse, DispatchStreamItem,
        DispatchStreamEnd
<1> QED
  BY <1>1, <1>2
  DEF InterfaceStep, ServiceStep, Dispatch, DispatchRequest, DispatchAbort, DispatchResponse,
      DispatchStreamItem, DispatchStreamEnd

LEMMA RustKindOK ==
  ASSUME JInv, NEW g \in Ends, InterfaceStep(g), UNCHANGED jsVars
  PROVE  TypeOK' /\ JsTypeOK' /\ \A e \in Ends : OwnKind(e)'
<1>1. TypeOK' 
  BY NewCallType, CallerType, DispatchType, LoopType, ExecutionType
  DEF InterfaceStep, ServiceStep, JInv
<1>2. JsTypeOK'
  BY DEF JInv, JsTypeOK, jsVars, jsCallerVars, jsHandlerVars
<1>3. ASSUME NEW e \in Ends
      PROVE  OwnKind(e)'
  <2>1. CASE e \in JsEnds
    <3>1. e # g /\ OthersRust(g)
      BY <2>1, RustEnd, RustRows DEF JInv
    <3>2. NoRustState(e)
      BY <2>1 DEF JInv, OwnKind
    <3>3. NoRustState(e)'
      BY <3>1, <3>2 DEF NoRustState, OthersRust
    <3> QED
      BY <2>1, <3>3 DEF OwnKind
  <2>2. CASE e \notin JsEnds
    <3>1. NoJsState(e)
      BY <2>2 DEF JInv, OwnKind
    <3>2. NoJsState(e)'
      BY <3>1 DEF NoJsState, jsVars, jsCallerVars, jsHandlerVars
    <3> QED
      BY <2>2, <3>2 DEF OwnKind
  <2> QED
    BY <2>1, <2>2
<1> QED
  BY <1>1, <1>2, <1>3

-----------------------------------------------------------------------------
(* A step of an endpoint leaves the tables of the other end alone.         *)
OthersJs(e) ==
  \A d \in Ends : d # e =>
    /\ promise'[d] = promise[d] /\ handling'[d] = handling[d]
    /\ pendingRequests'[d] = pendingRequests[d] /\ openStreams'[d] = openStreams[d]
    /\ stopped'[d] = stopped[d]
    /\ inflightRequests'[d] = inflightRequests[d] /\ runningIterators'[d] = runningIterators[d]

(* The types of its tables, one by one.                                    *)
TablesOK ==
  /\ closed \subseteq JsEnds /\ failure \subseteq JsEnds
  /\ nextSequence \in [Ends -> 0 .. MaxCalls]
  /\ promise \in [Ends -> [Seqs -> PromiseStates]]
  /\ pendingRequests \in [Ends -> SUBSET Seqs]
  /\ openStreams \in [Ends -> SUBSET Seqs]
  /\ stopped \in [Ends -> SUBSET Seqs]
  /\ broken \in [Ends -> SUBSET Seqs]
  /\ inflightRequests \in [Ends -> SUBSET Seqs]
  /\ runningIterators \in [Ends -> SUBSET Seqs]
  /\ chain \in [Ends -> [Seqs -> Seq(Items)]]
  /\ delivered \in [Ends -> [Seqs -> Seq(Items)]]
  /\ handling \in [Ends -> [Seqs -> HandlingStates]]
  /\ yielded \in [Ends -> [Seqs -> 0 .. MaxItems]]

LEMMA TablesAreTyped == JsTypeOK <=> TablesOK
BY DEF JsTypeOK, TablesOK

(* A table of which only the row of e is written, with an entry of its type. *)
Row(old, new, S, e) == new \in [Ends -> S] /\ \A d \in Ends : d # e => new[d] = old[d]

JsRows(e) ==
  /\ channel' \in [Ends -> Seq(Message)]
  /\ closed' \subseteq JsEnds /\ failure' \subseteq JsEnds
  /\ Row(nextSequence, nextSequence', 0 .. MaxCalls, e)
  /\ Row(promise, promise', [Seqs -> PromiseStates], e)
  /\ Row(pendingRequests, pendingRequests', SUBSET Seqs, e)
  /\ Row(openStreams, openStreams', SUBSET Seqs, e)
  /\ Row(stopped, stopped', SUBSET Seqs, e)
  /\ Row(broken, broken', SUBSET Seqs, e)
  /\ Row(inflightRequests, inflightRequests', SUBSET Seqs, e)
  /\ Row(runningIterators, runningIterators', SUBSET Seqs, e)
  /\ Row(chain, chain', [Seqs -> Seq(Items)], e)
  /\ Row(delivered, delivered', [Seqs -> Seq(Items)], e)
  /\ Row(handling, handling', [Seqs -> HandlingStates], e)
  /\ Row(yielded, yielded', [Seqs -> 0 .. MaxItems], e)

LEMMA RowsKeep ==
  ASSUME NEW e \in Ends, JsRows(e)
  PROVE  TablesOK' /\ OthersJs(e) /\ channel' \in [Ends -> Seq(Message)]
BY DEF JsRows, Row, TablesOK, OthersJs

(* A table that is not written.                                            *)
LEMMA SameRows ==
  ASSUME TypeOK, TablesOK, NEW e \in JsEnds
  PROVE  /\ e \in Ends /\ channel \in [Ends -> Seq(Message)]
         /\ closed \subseteq JsEnds /\ failure \subseteq JsEnds
         /\ Row(nextSequence, nextSequence, 0 .. MaxCalls, e)
         /\ Row(promise, promise, [Seqs -> PromiseStates], e)
         /\ Row(pendingRequests, pendingRequests, SUBSET Seqs, e)
         /\ Row(openStreams, openStreams, SUBSET Seqs, e)
         /\ Row(stopped, stopped, SUBSET Seqs, e)
         /\ Row(broken, broken, SUBSET Seqs, e)
         /\ Row(inflightRequests, inflightRequests, SUBSET Seqs, e)
         /\ Row(runningIterators, runningIterators, SUBSET Seqs, e)
         /\ Row(chain, chain, [Seqs -> Seq(Items)], e)
         /\ Row(delivered, delivered, [Seqs -> Seq(Items)], e)
         /\ Row(handling, handling, [Seqs -> HandlingStates], e)
         /\ Row(yielded, yielded, [Seqs -> 0 .. MaxItems], e)
BY JsAssumption DEF TypeOK, TablesOK, Row

(* The tables that a step about call s writes.                             *)
LEMMA KeysWritten ==
  ASSUME NEW keys \in [Ends -> SUBSET Seqs], NEW e \in Ends, NEW s \in Seqs
  PROVE  /\ Row(keys, Insert(keys, e, s), SUBSET Seqs, e)
         /\ Row(keys, Delete(keys, e, s), SUBSET Seqs, e)
BY DEF Insert, Delete, Row

LEMMA RowsWritten ==
  ASSUME TablesOK, NEW e \in JsEnds, NEW s \in Seqs
  PROVE  /\ \A to \in PromiseStates : SetPromise(e, s, to) =>
              Row(promise, promise', [Seqs -> PromiseStates], e)
         /\ \A to \in HandlingStates : SetHandling(e, s, to) =>
              Row(handling, handling', [Seqs -> HandlingStates], e)
         /\ Row(pendingRequests, Insert(pendingRequests, e, s), SUBSET Seqs, e)
         /\ Row(pendingRequests, Delete(pendingRequests, e, s), SUBSET Seqs, e)
         /\ Row(openStreams, Insert(openStreams, e, s), SUBSET Seqs, e)
         /\ Row(openStreams, Delete(openStreams, e, s), SUBSET Seqs, e)
         /\ Row(stopped, Insert(stopped, e, s), SUBSET Seqs, e)
         /\ Row(broken, Insert(broken, e, s), SUBSET Seqs, e)
         /\ Row(inflightRequests, Insert(inflightRequests, e, s), SUBSET Seqs, e)
         /\ Row(inflightRequests, Delete(inflightRequests, e, s), SUBSET Seqs, e)
         /\ Row(runningIterators, Insert(runningIterators, e, s), SUBSET Seqs, e)
         /\ Row(runningIterators, Delete(runningIterators, e, s), SUBSET Seqs, e)
<1>1. e \in Ends
  BY JsAssumption
<1>2. ASSUME NEW to \in PromiseStates, SetPromise(e, s, to)
      PROVE  Row(promise, promise', [Seqs -> PromiseStates], e)
  BY <1>1, <1>2 DEF SetPromise, Row, TablesOK
<1>3. ASSUME NEW to \in HandlingStates, SetHandling(e, s, to)
      PROVE  Row(handling, handling', [Seqs -> HandlingStates], e)
  BY <1>1, <1>3 DEF SetHandling, Row, TablesOK
<1>4. /\ pendingRequests \in [Ends -> SUBSET Seqs] /\ openStreams \in [Ends -> SUBSET Seqs]
      /\ stopped \in [Ends -> SUBSET Seqs] /\ broken \in [Ends -> SUBSET Seqs]
      /\ inflightRequests \in [Ends -> SUBSET Seqs] /\ runningIterators \in [Ends -> SUBSET Seqs]
  BY DEF TablesOK
<1>5. /\ Row(pendingRequests, Insert(pendingRequests, e, s), SUBSET Seqs, e)
      /\ Row(pendingRequests, Delete(pendingRequests, e, s), SUBSET Seqs, e)
  BY <1>1, <1>4, KeysWritten
<1>6. /\ Row(openStreams, Insert(openStreams, e, s), SUBSET Seqs, e)
      /\ Row(openStreams, Delete(openStreams, e, s), SUBSET Seqs, e)
  BY <1>1, <1>4, KeysWritten
<1>7. /\ Row(stopped, Insert(stopped, e, s), SUBSET Seqs, e)
      /\ Row(broken, Insert(broken, e, s), SUBSET Seqs, e)
  BY <1>1, <1>4, KeysWritten
<1>8. /\ Row(inflightRequests, Insert(inflightRequests, e, s), SUBSET Seqs, e)
      /\ Row(inflightRequests, Delete(inflightRequests, e, s), SUBSET Seqs, e)
  BY <1>1, <1>4, KeysWritten
<1>9. /\ Row(runningIterators, Insert(runningIterators, e, s), SUBSET Seqs, e)
      /\ Row(runningIterators, Delete(runningIterators, e, s), SUBSET Seqs, e)
  BY <1>1, <1>4, KeysWritten
<1> QED
  BY <1>2, <1>3, <1>5, <1>6, <1>7, <1>8, <1>9

LEMMA JsSendType ==
  ASSUME channel \in [Ends -> Seq(Message)], NEW e \in Ends, NEW msg \in Message, JsSend(e, msg)
  PROVE  channel' \in [Ends -> Seq(Message)]
BY PostEffect DEF JsSend

LEMMA TakeAndPostType ==
  ASSUME channel \in [Ends -> Seq(Message)], NEW e \in Ends, channel[e] # <<>>
  PROVE  /\ Head(channel[e]) \in Message
         /\ TakeAndPost(e, <<>>) => channel' \in [Ends -> Seq(Message)]
         /\ \A s \in Seqs : TakeAndPost(e, <<EndMsg(s)>>) => channel' \in [Ends -> Seq(Message)]
<1>1. <<>> \in Seq(Message)
  OBVIOUS
<1>2. \A s \in Seqs : EndMsg(s) \in Message
  BY MessageFacts
<1>3. Head(channel[e]) \in Message
  BY QueueTail
<1> QED
  BY <1>1, <1>2, <1>3, TakeAndPostEffect, TakeAndPostOne

LEMMA JsCallType ==
  ASSUME TypeOK, TablesOK, NEW e \in JsEnds, JsCall(e), UNCHANGED <<closed, failure, jsHandlerVars>>
  PROVE  JsRows(e)
<1>1. PICK m : \/ m \in Methods /\ (JsNotify(e, m) \/ JsRequest(e, m) \/ JsStream(e, m) \/ CallThrows(e, m))
               \/ CallRefused(e)
  BY DEF JsCall
<1>2. Number(e)
  BY <1>1 DEF JsNotify, JsRequest, JsStream, CallRefused, CallThrows
<1>3. e \in Ends /\ nextSequence \in [Ends -> 0 .. MaxCalls]
  BY JsAssumption DEF TablesOK
<1>4. PICK s \in Seqs : s = nextSequence[e] /\ Row(nextSequence, nextSequence', 0 .. MaxCalls, e)
  <2>1. nextSequence[e] \in 0 .. MaxCalls /\ nextSequence[e] < MaxCalls /\ MaxCalls \in Nat
    BY <1>2, <1>3, BoundsAssumption DEF Number
  <2>2. nextSequence[e] + 1 \in 0 .. MaxCalls /\ nextSequence[e] \in Seqs
    BY <2>1 DEF Seqs
  <2> QED
    BY <1>2, <1>3, <2>2 DEF Number, Row
<1>5. m \in Methods /\ JsSend(e, RequestMsg(s, m)) => channel' \in [Ends -> Seq(Message)]
  <2>1. m \in Methods => RequestMsg(s, m) \in Message
    BY MessageFacts
  <2> QED
    BY <1>3, <2>1, JsSendType DEF TypeOK
<1>6. CASE m \in Methods /\ JsNotify(e, m)
  BY <1>4, <1>5, <1>6, SameRows, RowsWritten DEF JsRows, JsNotify, PromiseStates, jsHandlerVars
<1>7. CASE m \in Methods /\ JsRequest(e, m)
  BY <1>4, <1>5, <1>7, SameRows, RowsWritten DEF JsRows, JsRequest, PromiseStates, jsHandlerVars
<1>8. CASE m \in Methods /\ JsStream(e, m)
  BY <1>4, <1>5, <1>8, SameRows, RowsWritten DEF JsRows, JsStream, PromiseStates, jsHandlerVars
<1>9. CASE m \in Methods /\ CallThrows(e, m)
  BY <1>4, <1>9, SameRows, RowsWritten DEF JsRows, CallThrows, PromiseStates, jsHandlerVars
<1>10. CASE CallRefused(e)
  BY <1>4, <1>10, SameRows, RowsWritten DEF JsRows, CallRefused, PromiseStates, jsHandlerVars
<1> QED
  BY <1>1, <1>6, <1>7, <1>8, <1>9, <1>10

LEMMA JsCallerType ==
  ASSUME TypeOK, TablesOK, NEW e \in JsEnds, NEW s \in Seqs, JsCallerStep(e, s),
         UNCHANGED <<closed, failure, jsHandlerVars>>
  PROVE  JsRows(e)
<1>1. e \in Ends /\ channel \in [Ends -> Seq(Message)]
  BY SameRows
<1>2. JsSend(e, AbortMsg(s)) => channel' \in [Ends -> Seq(Message)]
  BY <1>1, JsSendType, MessageFacts
<1>3. CASE AbortRequest(e, s)
  BY <1>2, <1>3, SameRows, RowsWritten DEF JsRows, AbortRequest, PromiseStates, jsHandlerVars
<1>4. CASE StopStream(e, s)
  BY <1>2, <1>4, SameRows, RowsWritten DEF JsRows, StopStream, jsHandlerVars
<1>5. CASE RunCallback(e, s)
  <2>1. chain \in [Ends -> [Seqs -> Seq(Items)]] /\ delivered \in [Ends -> [Seqs -> Seq(Items)]]
    BY DEF TablesOK
  <2>2. Head(chain[e][s]) \in Items /\ Tail(chain[e][s]) \in Seq(Items) /\ <<>> \in Seq(Items)
    BY <1>1, <1>5, <2>1, QueueTail DEF RunCallback
  <2>3. [delivered EXCEPT ![e][s] = Append(@, Head(chain[e][s]))] \in [Ends -> [Seqs -> Seq(Items)]]
    BY <1>1, <2>1, <2>2, AppendType
  <2>4. Row(delivered, delivered', [Seqs -> Seq(Items)], e)
    BY <1>1, <1>5, <2>1, <2>3 DEF RunCallback, Row
  <2>5. Row(chain, [chain EXCEPT ![e][s] = Tail(@)], [Seqs -> Seq(Items)], e)
    BY <1>1, <2>1, <2>2 DEF Row
  <2>6. Row(chain, [chain EXCEPT ![e][s] = <<>>], [Seqs -> Seq(Items)], e)
    BY <1>1, <2>1, <2>2 DEF Row
  <2> QED
    BY <1>5, <2>4, <2>5, <2>6, SameRows, RowsWritten DEF JsRows, RunCallback, jsHandlerVars
<1>6. CASE SettleDone(e, s)
  <2>1. PICK to \in PromiseStates : SetPromise(e, s, to)
    BY <1>6 DEF SettleDone, PromiseStates
  <2> QED
    BY <1>6, <2>1, SameRows, RowsWritten DEF JsRows, SettleDone, jsHandlerVars
<1> QED
  BY <1>3, <1>4, <1>5, <1>6 DEF JsCallerStep

LEMMA JsHandlerType ==
  ASSUME TypeOK, TablesOK, NEW e \in JsEnds, NEW s \in Seqs, JsHandlerStep(e, s)
  PROVE  JsRows(e)
<1>1. e \in Ends /\ channel \in [Ends -> Seq(Message)]
  BY SameRows
<1>2. /\ JsSend(e, ResponseMsg(s)) => channel' \in [Ends -> Seq(Message)]
      /\ JsSend(e, EndMsg(s)) => channel' \in [Ends -> Seq(Message)]
      /\ \A i \in Items : JsSend(e, ItemMsg(s, i)) => channel' \in [Ends -> Seq(Message)]
  <2>1. ResponseMsg(s) \in Message /\ EndMsg(s) \in Message /\ \A i \in Items : ItemMsg(s, i) \in Message
    BY MessageFacts
  <2> QED
    BY <1>1, <2>1, JsSendType
<1>3. CASE HandlerSettles(e, s)
  <2>1. PICK to \in HandlingStates : SetHandling(e, s, to)
    BY <1>3 DEF HandlerSettles, HandlingStates
  <2> QED
    BY <1>2, <1>3, <2>1, SameRows, RowsWritten DEF JsRows, HandlerSettles, jsCallerVars
<1>4. CASE Yield(e, s)
  <2>1. yielded \in [Ends -> [Seqs -> 0 .. MaxItems]]
    BY DEF TablesOK
  <2>2. yielded[e][s] \in 0 .. MaxItems /\ yielded[e][s] < MaxItems /\ MaxItems \in Nat
    BY <1>1, <1>4, <2>1, BoundsAssumption DEF Yield
  <2>3. yielded[e][s] + 1 \in Items /\ yielded[e][s] + 1 \in 0 .. MaxItems
    BY <2>2 DEF Items
  <2>4. Row(yielded, yielded', [Seqs -> 0 .. MaxItems], e)
    BY <1>1, <1>4, <2>1, <2>3 DEF Yield, Row
  <2> QED
    BY <1>2, <1>4, <2>3, <2>4, SameRows DEF JsRows, Yield, jsCallerVars
<1>5. CASE FinishIteration(e, s)
  <2>1. PICK to \in HandlingStates : SetHandling(e, s, to)
    BY <1>5 DEF FinishIteration, HandlingStates
  <2> QED
    BY <1>2, <1>5, <2>1, SameRows, RowsWritten DEF JsRows, FinishIteration, jsCallerVars
<1> QED
  BY <1>3, <1>4, <1>5 DEF JsHandlerStep

LEMMA JsDispatchType ==
  ASSUME TypeOK, TablesOK, NEW e \in JsEnds, JsDispatch(e)
  PROVE  JsRows(e)
<1>1. e \in Ends /\ channel \in [Ends -> Seq(Message)]
  BY SameRows
<1>2. channel[e] # <<>>
  BY DEF JsDispatch, JsOnResponse, JsOnStreamItem, JsOnStreamEnd, JsOnRequest, JsOnAbort, Arrives
<1>3. PICK s \in Seqs : s = Head(channel[e]).seq
  BY <1>1, <1>2, TakeAndPostType, MessageShapes
<1>4. /\ TakeAndPost(e, <<>>) => channel' \in [Ends -> Seq(Message)]
      /\ TakeAndPost(e, <<EndMsg(s)>>) => channel' \in [Ends -> Seq(Message)]
  BY <1>1, <1>2, TakeAndPostType
<1>5. CASE JsOnResponse(e)
  BY <1>3, <1>4, <1>5, SameRows, RowsWritten DEF JsRows, JsOnResponse, PromiseStates, jsHandlerVars
<1>6. CASE JsOnStreamItem(e)
  <2>1. Head(channel[e]).item \in Items
    BY <1>1, <1>2, <1>6, TakeAndPostType, MessageShapes DEF JsOnStreamItem, Arrives
  <2>2. chain \in [Ends -> [Seqs -> Seq(Items)]]
    BY DEF TablesOK
  <2>3. [chain EXCEPT ![e][s] = Append(@, Head(channel[e]).item)] \in [Ends -> [Seqs -> Seq(Items)]]
    BY <1>1, <2>1, <2>2, AppendType
  <2>4. Row(chain, [chain EXCEPT ![e][s] = Append(@, Head(channel[e]).item)],
            [Seqs -> Seq(Items)], e)
    BY <1>1, <2>2, <2>3 DEF Row
  <2> QED
    BY <1>3, <1>4, <1>6, <2>4, SameRows, RowsWritten
    DEF JsRows, JsOnStreamItem, PromiseStates, jsHandlerVars
<1>7. CASE JsOnStreamEnd(e)
  BY <1>3, <1>4, <1>7, SameRows, RowsWritten DEF JsRows, JsOnStreamEnd, PromiseStates, jsHandlerVars
<1>8. CASE JsOnRequest(e)
  <2>1. /\ channel' \in [Ends -> Seq(Message)]
        /\ \E to \in HandlingStates : SetHandling(e, s, to)
        /\ \/ UNCHANGED inflightRequests
           \/ inflightRequests' = Insert(inflightRequests, e, s)
        /\ \/ UNCHANGED runningIterators
           \/ runningIterators' = Insert(runningIterators, e, s)
        /\ UNCHANGED <<closed, failure, jsCallerVars, yielded>>
    BY <1>3, <1>4, <1>8 DEF JsOnRequest, HandlingStates
  <2> QED
    BY <2>1, SameRows, RowsWritten DEF JsRows, jsCallerVars
<1>9. CASE JsOnAbort(e)
  BY <1>3, <1>4, <1>9, SameRows, RowsWritten DEF JsRows, JsOnAbort, jsCallerVars
<1> QED
  BY <1>5, <1>6, <1>7, <1>8, <1>9 DEF JsDispatch

LEMMA JsEndingType ==
  ASSUME TypeOK, TablesOK, NEW e \in JsEnds, CloseEndpoint(e) \/ Fail(e) \/ Discard(e)
  PROVE  JsRows(e)
<1>1. e \in Ends /\ channel \in [Ends -> Seq(Message)]
  BY SameRows
<1>2. channel[e] # <<>> /\ TakeAndPost(e, <<>>) => channel' \in [Ends -> Seq(Message)]
  BY <1>1, TakeAndPostType
<1>3. ASSUME NEW keys \in [Ends -> SUBSET Seqs]
      PROVE  Row(keys, [keys EXCEPT ![e] = {}], SUBSET Seqs, e)
  BY <1>1 DEF Row
<1>4. ASSUME NEW status \in {"closing", "failed"}, SettleAll(e, status)
      PROVE  /\ Row(promise, promise', [Seqs -> PromiseStates], e)
             /\ Row(pendingRequests, pendingRequests', SUBSET Seqs, e)
             /\ Row(openStreams, openStreams', SUBSET Seqs, e)
             /\ UNCHANGED <<nextSequence, stopped, chain, broken, delivered>>
  <2>1. promise \in [Ends -> [Seqs -> PromiseStates]]
    BY DEF TablesOK
  <2>2. \A s \in Seqs : (CASE promise[e][s] = "pending" -> "rejected"
                           [] promise[e][s] = "open" -> status
                           [] OTHER -> promise[e][s]) \in PromiseStates
    BY <1>1, <2>1 DEF PromiseStates
  <2>3. Row(promise, promise', [Seqs -> PromiseStates], e)
    BY <1>1, <1>4, <2>1, <2>2 DEF SettleAll, Row
  <2>4. /\ pendingRequests' = [pendingRequests EXCEPT ![e] = {}]
        /\ openStreams' = [openStreams EXCEPT ![e] = {}]
        /\ pendingRequests \in [Ends -> SUBSET Seqs] /\ openStreams \in [Ends -> SUBSET Seqs]
    BY <1>4 DEF SettleAll, TablesOK
  <2> QED
    BY <1>3, <1>4, <2>3, <2>4 DEF SettleAll
<1>5. CASE CloseEndpoint(e)
  <2>1. /\ inflightRequests \in [Ends -> SUBSET Seqs] /\ runningIterators \in [Ends -> SUBSET Seqs]
        /\ closed' \subseteq JsEnds
    BY <1>5 DEF TablesOK, CloseEndpoint
  <2>2. /\ Row(inflightRequests, inflightRequests', SUBSET Seqs, e)
        /\ Row(runningIterators, runningIterators', SUBSET Seqs, e)
    BY <1>3, <1>5, <2>1 DEF CloseEndpoint
  <2> QED
    BY <1>4, <1>5, <2>1, <2>2, SameRows DEF JsRows, CloseEndpoint
<1>6. CASE Fail(e)
  <2>1. channel' \in [Ends -> Seq(Message)]
    BY <1>1, <1>2, <1>6 DEF Fail
  <2>2. failure' \subseteq JsEnds
    BY <1>6, SameRows DEF Fail
  <2>3. CASE UNCHANGED jsCallerVars
    BY <1>6, <2>1, <2>2, <2>3, SameRows DEF JsRows, Fail, jsCallerVars, jsHandlerVars
  <2>4. CASE SettleAll(e, "failed")
    BY <1>4, <1>6, <2>1, <2>2, <2>4, SameRows DEF JsRows, Fail, jsHandlerVars
  <2> QED
    BY <1>6, <2>3, <2>4 DEF Fail
<1>7. CASE Discard(e)
  BY <1>2, <1>7, SameRows DEF JsRows, Discard, jsVars, jsCallerVars, jsHandlerVars
<1> QED
  BY <1>5, <1>6, <1>7

LEMMA JsKindOK ==
  ASSUME JInv, NEW g \in JsEnds, JsStep(g), UNCHANGED <<clientVars, serviceVars>>
  PROVE  TypeOK' /\ JsTypeOK' /\ \A e \in Ends : OwnKind(e)'
<1>1. TablesOK' /\ OthersJs(g) /\ channel' \in [Ends -> Seq(Message)]
  <2>1. JsRows(g)
    BY JsCallType, JsCallerType, JsHandlerType, JsDispatchType, JsEndingType, TablesAreTyped
    DEF JsStep, JInv
  <2> QED
    BY <2>1, JsAssumption, RowsKeep
<1>2. TypeOK'
  BY <1>1
  DEF JInv, TypeOK, ClientTypeOK, ServiceTypeOK, clientVars, serviceVars
<1>3. ASSUME NEW e \in Ends
      PROVE  OwnKind(e)'
  <2>1. CASE e \in JsEnds
    <3>1. NoRustState(e)
      BY <2>1 DEF JInv, OwnKind
    <3>2. NoRustState(e)'
      BY <3>1 DEF NoRustState, clientVars, serviceVars
    <3> QED
      BY <2>1, <3>2 DEF OwnKind
  <2>2. CASE e \notin JsEnds
    <3>1. NoJsState(e) /\ e # g
      BY <2>2 DEF JInv, OwnKind
    <3>2. NoJsState(e)'
      BY <1>1, <3>1 DEF NoJsState, OthersJs
    <3> QED
      BY <2>2, <3>2 DEF OwnKind
  <2> QED
    BY <2>1, <2>2
<1>4. JsTypeOK' <=> TablesOK'
  BY TablesAreTyped, PTL
<1> QED
  BY <1>1, <1>2, <1>3, <1>4

-----------------------------------------------------------------------------
(* The invariant holds at the start, and every step keeps it.              *)
LEMMA InitJ == Init => JInv
<1> SUFFICES ASSUME Init PROVE JInv
  OBVIOUS
<1> USE DEF Init, ClientInit, ServiceInit, JsInit
<1>1. TypeOK
  BY BoundsAssumption DEF TypeOK, ClientTypeOK, ServiceTypeOK, CallStates, ExecutionStates
<1>2. JsTypeOK
  BY BoundsAssumption DEF JsTypeOK, PromiseStates, HandlingStates
<1>3. \A e \in Ends : OwnKind(e)
  BY DEF OwnKind, NoRustState, NoJsState
<1>4. ASSUME NEW e \in Ends, NEW s \in Seqs
      PROVE  CallOK(e, s)
  <2>1. Peer(e) \in Ends /\ \A x : ~ InQueue(x, <<>>)
    BY PeerProps DEF InQueue
  <2>2. Numbered(e, s) /\ MapsMatch(e, s)
    BY DEF Numbered, MapsMatch
  <2>3. TracesMatch(e, s) /\ ServedWasCalled(e, s) /\ RequestIsFresh(e, s) /\ AbortWasSent(e, s)
    BY <2>1 DEF TracesMatch, ServedWasCalled, RequestIsFresh, AbortWasSent
  <2>4. RequestIsAlone(e, s)
    BY <2>1 DEF RequestIsAlone, OneRequest, OneCall, Requested
  <2>5. ResponseIsFinal(e, s) /\ ForgottenWasGivenUp(e, s) /\ NotVanished(e, s)
    BY <2>1 DEF ResponseIsFinal, Answered, ForgottenWasGivenUp, NotVanished
  <2>6. AbortIsLast(e, s)
    BY <2>1 DEF AbortIsLast, NoRequestBehind, Requested
  <2> QED
    BY <2>2, <2>3, <2>4, <2>5, <2>6 DEF CallOK
<1> QED
  BY <1>1, <1>2, <1>3, <1>4 DEF JInv

LEMMA StepJ == JInv /\ [Next]_vars => JInv'
<1> SUFFICES ASSUME JInv, [Next]_vars PROVE JInv'
  OBVIOUS
<1>1. ASSUME NEW g \in Ends, InterfaceStep(g), UNCHANGED jsVars
      PROVE  JInv'
  <2>1. \A d \in Ends, t \in Seqs : CallOK(d, t)'
    BY <1>1, RustStepOK
  <2>2. TypeOK' /\ JsTypeOK' /\ \A e \in Ends : OwnKind(e)'
    BY <1>1, RustKindOK
  <2> QED
    BY <2>1, <2>2 DEF JInv
<1>2. ASSUME NEW g \in JsEnds, JsStep(g), UNCHANGED <<clientVars, serviceVars>>
      PROVE  JInv'
  <2>1. \A d \in Ends, t \in Seqs : CallOK(d, t)'
    BY <1>2, JsStepOK
  <2>2. TypeOK' /\ JsTypeOK' /\ \A e \in Ends : OwnKind(e)'
    BY <1>2, JsKindOK
  <2> QED
    BY <2>1, <2>2 DEF JInv
<1>3. CASE UNCHANGED vars
  <2>1. SameEnds /\ \A d \in Ends, t \in Seqs : SameCaller(d, t) /\ SameServer(Peer(d), t)
    BY <1>3 DEF vars, clientVars, serviceVars, jsVars, jsCallerVars, jsHandlerVars, SameEnds,
                SameCaller, SameServer
  <2>2. \A d \in Ends, t \in Seqs : /\ SameDown(channel[Peer(d)], channel'[Peer(d)], t)
                                    /\ SameUp(channel[d], channel'[d], t)
    BY <1>3, SameQueue DEF vars
  <2>3. \A d \in Ends, t \in Seqs : CallOK(d, t)'
    BY <2>1, <2>2, Frame DEF JInv
  <2>4. TypeOK' /\ JsTypeOK'
    BY <1>3
    DEF JInv, TypeOK, ClientTypeOK, ServiceTypeOK, JsTypeOK, vars, clientVars, serviceVars,
        jsVars, jsCallerVars, jsHandlerVars
  <2>5. \A e \in Ends : OwnKind(e)'
    BY <1>3
    DEF JInv, OwnKind, NoRustState, NoJsState, vars, clientVars, serviceVars, jsVars,
        jsCallerVars, jsHandlerVars
  <2> QED
    BY <2>3, <2>4, <2>5 DEF JInv
<1> QED
  BY <1>1, <1>2, <1>3 DEF Next, Settled

(* Every reachable state of a connection with endpoints satisfies JInv.    *)
THEOREM JsInvariant == Spec => []JInv
BY InitJ, StepJ, PTL DEF Spec

-----------------------------------------------------------------------------
(* The maps, promises and handlers of endpoint.mjs stay well formed,       *)
(* whatever is called, aborted, closed, lost or thrown.                    *)
THEOREM JsTypeCorrect == Spec => []JsTypeOK
<1>1. JInv => JsTypeOK
  BY DEF JInv
<1> QED
  BY <1>1, JsInvariant, PTL

(* A promise of endpoint.mjs that has not settled has the entry that will  *)
(* settle it, every entry has its promise or belongs to a call that threw, *)
(* and close() leaves nothing that could still be answered.                *)
THEOREM NoPromiseIsOrphaned == Spec => []PromisesMatchMaps
<1>1. ASSUME JInv
      PROVE  PromisesMatchMaps
  <2>1. ASSUME NEW e \in JsEnds, NEW s \in Seqs
        PROVE  /\ MapsMatch(e, s)
               /\ e \in closed => s \notin inflightRequests[e] \cup runningIterators[e]
    <3>1. CallOK(e, s) /\ CallOK(Peer(e), s) /\ Peer(Peer(e)) = e
      BY <1>1, JsContext
    <3> QED
      BY <3>1 DEF CallOK, TracesMatch
  <2> QED
    BY <2>1 DEF PromisesMatchMaps, MapsMatch
<1> QED
  BY <1>1, JsInvariant, PTL

(* A handler of endpoint.mjs is abandoned only when its caller gave the    *)
(* call up or the endpoint was closed, and no response to it is on its way. *)
THEOREM AbandonedStaySilent == Spec => []AbandonedIsSilent
<1>1. ASSUME JInv
      PROVE  AbandonedIsSilent
  <2>1. ASSUME NEW e \in JsEnds, NEW s \in Seqs
        PROVE  /\ ForgottenWasGivenUp(Peer(e), s) /\ ResponseIsFinal(Peer(e), s)
               /\ Peer(Peer(e)) = e /\ execution[e][s] = "none"
    BY <1>1, JsContext DEF CallOK, NoRustState
  <2> QED
    BY <2>1 DEF AbandonedIsSilent, ForgottenWasGivenUp, ResponseIsFinal, Answered
<1> QED
  BY <1>1, JsInvariant, PTL

(* An abort posted by a Rust caller stops the call at the endpoint as soon *)
(* as it has arrived: it never overtakes the request it aborts, and the    *)
(* request never comes after it.                                           *)
THEOREM ArrivedAbortsTakeEffect == Spec => []AbortsTakeEffect
<1>1. ASSUME JInv
      PROVE  AbortsTakeEffect
  <2>1. ASSUME NEW e \in JsEnds, NEW s \in Seqs
        PROVE  AbortIsLast(Peer(e), s) /\ Peer(Peer(e)) = e
    BY <1>1, JsContext DEF CallOK
  <2> QED
    BY <2>1 DEF AbortsTakeEffect, AbortIsLast
<1> QED
  BY <1>1, JsInvariant, PTL

(* A call that somebody waits for, in Rust or in JavaScript, is somewhere  *)
(* between the two ends: in a channel, in a queue, in a handler or in its  *)
(* answer; unless the serving end was closed, has lost messages, or has    *)
(* failed in a way for which the protocol has no message.                  *)
THEOREM CallsAreSomewhere == Spec => []NoCallVanishes
<1>1. JInv => NoCallVanishes
  BY DEF JInv, CallOK, NotVanished, NoCallVanishes
<1> QED
  BY <1>1, JsInvariant, PTL
=============================================================================
