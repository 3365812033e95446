----------------------------- MODULE StreamProofs ----------------------------
(***************************************************************************)
(* Connection keeps SInv: no item of a stream is lost, repeated or         *)
(* reordered, and no receiver is told of the end too early, for every      *)
(* number of calls and items and every set of clients, servers and methods.*)
(* A step of the connection touches one call at most; whatever it does to  *)
(* the queues leaves the others as they were (OtherCalls).                 *)
(*                                                                         *)
(* With that, Connection implements Rpc: every step of the queues, the     *)
(* maps and the dispatcher is a step of the remote calls it serves or      *)
(* leaves them as they are.                                                *)
(***************************************************************************)
EXTENDS ConnectionProofs

-----------------------------------------------------------------------------
(* Everything StreamOK says of call s stays true when the server's side of *)
(* the call is left alone, the queues are left alone as far as it is       *)
(* concerned, and what it says of the client's side is shown to hold.      *)
LEMMA ServerSideKept ==
  ASSUME TypeOK, NEW e \in Ends, NEW s \in Seqs, StreamOK(e, s),
         KeepsChannel(channel[e], channel'[e], s),
         KeepsOutbox(outbox[Peer(e)], outbox'[Peer(e)], s),
         execution'[Peer(e)][s] = execution[Peer(e)][s],
         produced'[Peer(e)][s] = produced[Peer(e)][s],
         call[e][s] \in GivenUp => call'[e][s] \in GivenUp,
         s \in streamCallbacks'[e] => s \in streamCallbacks[e] /\ Had(e, s)' = Had(e, s),
         HadWasMade(e, s)', EndIsComplete(e, s)', ResponseIsComplete(e, s)'
  PROVE  StreamOK(e, s)'
<1>1. produced[Peer(e)][s] \in Nat
  BY PeerProps, BoundsAssumption DEF TypeOK, ServiceTypeOK
<1>2. NothingMadeEarly(e, s)'
  BY DEF StreamOK, NothingMadeEarly, KeepsChannel, KeepsOutbox
<1>3. EndComesLast(e, s)'
  BY DEF StreamOK, EndComesLast, EndPosted, KeepsChannel, KeepsOutbox
<1>4. AbortWasWanted(e, s)'
  BY DEF StreamOK, AbortWasWanted
<1>5. RestIsComing(e, s)'
  BY <1>1 DEF StreamOK, RestIsComing, Unbroken, KeepsChannel, KeepsOutbox
<1> QED
  BY <1>2, <1>3, <1>4, <1>5 DEF StreamOK

(* In particular when the client's side is left alone as well.             *)
LEMMA OtherCalls ==
  ASSUME TypeOK, NEW e \in Ends, NEW s \in Seqs, StreamOK(e, s),
         KeepsChannel(channel[e], channel'[e], s),
         KeepsOutbox(outbox[Peer(e)], outbox'[Peer(e)], s),
         execution'[Peer(e)][s] = execution[Peer(e)][s],
         produced'[Peer(e)][s] = produced[Peer(e)][s],
         call'[e][s] = call[e][s], received'[e][s] = received[e][s],
         buffer'[e][s] = buffer[e][s],
         s \in streamCallbacks'[e] <=> s \in streamCallbacks[e]
  PROVE  StreamOK(e, s)'
<1>1. Had(e, s)' = Had(e, s)
  BY DEF Had
<1>2. HadWasMade(e, s)'
  BY <1>1 DEF StreamOK, HadWasMade
<1>3. EndIsComplete(e, s)' /\ ResponseIsComplete(e, s)'
  BY <1>1 DEF StreamOK, EndIsComplete, ResponseIsComplete
<1> QED
  BY <1>1, <1>2, <1>3, ServerSideKept

-----------------------------------------------------------------------------
(* Posting what is neither an item nor the end of stream t is of no        *)
(* concern to it,                                                          *)
LEMMA PostUnnoticed ==
  ASSUME TypeOK, NEW e \in Ends, NEW msg \in Message, Post(e, msg), NEW f \in Ends, NEW t,
         f = Peer(e) => ~ IsItem(msg, t) /\ msg # EndMsg(t)
  PROVE  KeepsChannel(channel[f], channel'[f], t)
<1>1. /\ channel[f] \in Seq(Message)
      /\ f = Peer(e) => channel'[f] = Append(channel[f], msg)
      /\ f # Peer(e) => channel'[f] = channel[f]
  BY PostEffect DEF TypeOK
<1> QED
  BY <1>1, ChannelAppend, KeepsSame

(* and neither is taking what is not an item of it.                        *)
LEMMA TakeUnnoticed ==
  ASSUME TypeOK, NEW e \in Ends, NEW kind, TakeMessage(e, kind), NEW f \in Ends, NEW t,
         f = e => ~ IsItem(Head(channel[e]), t)
  PROVE  KeepsChannel(channel[f], channel'[f], t)
<1>1. /\ channel[f] \in Seq(Message)
      /\ f = e => channel[f] # <<>> /\ channel'[f] = Tail(channel[f])
      /\ f # e => channel'[f] = channel[f]
  BY TakeEffect DEF TypeOK
<1> QED
  BY <1>1, ChannelTail, KeepsSame

-----------------------------------------------------------------------------
(* A new call finds nothing of an earlier one under its number.            *)
LEMMA NewCallStream ==
  ASSUME SInv, NEW e \in Ends, NewCall(e), UNCHANGED serviceVars
  PROVE  StreamsOK'
<1>1. PICK m \in Methods : Notify(e, m) \/ Request(e, m) \/ Stream(e, m)
  BY DEF NewCall
<1>2. PICK s \in Seqs : /\ s = sequence[e]
                       /\ Post(e, RequestMsg(s, m))
                       /\ call[e][s] = "idle"
  <2>1. Send(e, m)
    BY <1>1 DEF Notify, Request, Stream
  <2>2. sequence[e] \in Seqs
    BY <2>1, BoundsAssumption DEF Send, SInv, IInv, TypeOK, ClientTypeOK, Seqs
  <2>3. ~ (sequence[e] < sequence[e])
    BY <2>2 DEF Seqs
  <2> QED
    BY <2>1, <2>2, <2>3 DEF Send, SInv, IInv, Numbering
<1>3. TypeOK /\ RequestMsg(s, m) \in Message
  BY MessageFacts DEF SInv, IInv
<1>4. /\ UNCHANGED <<buffer, received>>
      /\ call'[e][s] \in {"notified", "pending", "open"}
      /\ call'[e][s] = "open" => s \in streamCallbacks'[e]
      /\ \A f \in Ends, t \in Seqs : f # e \/ t # s =>
           call'[f][t] = call[f][t] /\ (t \in streamCallbacks'[f] <=> t \in streamCallbacks[f])
  <2> USE <1>2, <1>3 DEF SetCall, TypeOK, ClientTypeOK
  <2>1. CASE Notify(e, m)
    BY <2>1 DEF Notify
  <2>2. CASE Request(e, m)
    BY <2>2 DEF Request
  <2>3. CASE Stream(e, m)
    BY <2>3 DEF Stream
  <2> QED
    BY <1>1, <2>1, <2>2, <2>3
<1>5. \A f \in Ends, t \in Seqs :
        /\ KeepsChannel(channel[f], channel'[f], t)
        /\ KeepsOutbox(outbox[Peer(f)], outbox'[Peer(f)], t)
  <2>1. \A t : ~ IsItem(RequestMsg(s, m), t) /\ RequestMsg(s, m) # EndMsg(t)
    BY ItemShapes, MessageFacts
  <2> QED
    BY <1>2, <1>3, <2>1, PostUnnoticed, KeepsSame DEF serviceVars
<1>6. ASSUME NEW f \in Ends, NEW t \in Seqs
      PROVE  StreamOK(f, t)'
  <2>1. CASE f # e \/ t # s
    BY <1>3, <1>4, <1>5, <2>1, OtherCalls DEF SInv, StreamsOK, serviceVars
  <2>2. CASE f = e /\ t = s
    <3> USE <2>2
    <3>1. StreamOK(f, t) /\ Peer(f) \in Ends /\ Peer(Peer(f)) = f
      BY PeerProps DEF SInv, StreamsOK
    <3>2. execution[Peer(f)][t] = "none"
      BY <1>2, <3>1 DEF SInv, IInv, ExecutionsMatchCalls, HeldFor
    <3>3. /\ produced[Peer(f)][t] = 0 /\ Had(f, t) = <<>>
          /\ ~ HasItem(outbox[Peer(f)], t) /\ ~ HasItem(channel[f], t)
      BY <1>2, <3>1, <3>2 DEF StreamOK, NothingMadeEarly, HadWasMade
    <3>4. channel'[f] = channel[f]
      BY <1>2, <1>3, <3>1, PostEffect, PeerProps DEF TypeOK
    <3>5. NothingMadeEarly(f, t)' /\ EndComesLast(f, t)' /\ AbortWasWanted(f, t)'
      BY <3>1, <3>2, <3>4
      DEF StreamOK, NothingMadeEarly, EndComesLast, EndPosted, AbortWasWanted, serviceVars
    <3>6. Had(f, t)' = <<>> /\ FirstItems(0) = <<>>
      BY <1>4, <3>3, FirstItemsFacts DEF Had
    <3>7. HadWasMade(f, t)'
      BY <1>4, <3>3, <3>6 DEF HadWasMade, serviceVars
    <3>8. RestIsComing(f, t)'
      <4>1. Carries(channel'[f], t, 0, 0) /\ Carries(outbox'[Peer(f)], t, 0, 0)
        BY <3>3, <3>4, CarriesNone DEF serviceVars
      <4> QED
        BY <3>3, <3>6, <4>1 DEF RestIsComing, Unbroken, serviceVars
    <3>9. EndIsComplete(f, t)' /\ ResponseIsComplete(f, t)'
      BY <1>4 DEF EndIsComplete, ResponseIsComplete
    <3> QED
      BY <3>5, <3>7, <3>8, <3>9 DEF StreamOK
  <2> QED
    BY <2>1, <2>2
<1> QED
  BY <1>6 DEF StreamsOK

-----------------------------------------------------------------------------
(* Whatever the holder of a call does: what it has had stays a prefix, and *)
(* it sees the end of a stream it never closed only after every item.      *)
LEMMA CallerStream ==
  ASSUME SInv, NEW e \in Ends, NEW s \in Seqs, CallerStep(e, s), UNCHANGED serviceVars
  PROVE  StreamsOK'
<1>1. TypeOK /\ AbortMsg(s) \in Message /\ CallbacksMatchCalls
  BY MessageFacts DEF SInv, IInv
<1>2. channel' = channel \/ Post(e, AbortMsg(s))
  BY DEF CallerStep, PollResponse, DropRequest, PollItem, PollNone, Close, DropStream,
         FireStreamAbort
<1>3. ASSUME NEW f \in Ends, NEW t \in Seqs
      PROVE  /\ KeepsChannel(channel[f], channel'[f], t)
             /\ KeepsOutbox(outbox[Peer(f)], outbox'[Peer(f)], t)
  <2>1. ~ IsItem(AbortMsg(s), t) /\ AbortMsg(s) # EndMsg(t)
    BY ItemShapes, MessageFacts
  <2>2. CASE channel' = channel
    BY <2>2, KeepsSame DEF serviceVars
  <2>3. CASE Post(e, AbortMsg(s))
    BY <1>1, <2>1, <2>3, PostUnnoticed, KeepsSame DEF serviceVars
  <2> QED
    BY <1>2, <2>2, <2>3
<1>4. ASSUME NEW f \in Ends, NEW t \in Seqs, f # e \/ t # s
      PROVE  StreamOK(f, t)'
  <2>1. /\ call'[f][t] = call[f][t] /\ received'[f][t] = received[f][t]
        /\ buffer'[f][t] = buffer[f][t]
        /\ t \in streamCallbacks'[f] <=> t \in streamCallbacks[f]
    BY <1>1, <1>4
    DEF CallerStep, PollResponse, DropRequest, PollItem, PollNone, Close, DropStream,
        FireStreamAbort, SetCall, TypeOK, ClientTypeOK
  <2> QED
    BY <1>1, <1>3, <2>1, OtherCalls DEF SInv, StreamsOK, serviceVars
<1>5. StreamOK(e, s)'
  <2>1. /\ StreamOK(e, s) /\ Peer(e) \in Ends
        /\ received[e][s] \in Seq(Items) /\ buffer[e][s] \in Seq(Items)
        /\ produced[Peer(e)][s] \in 0 .. MaxItems
    BY <1>1, PeerProps DEF SInv, StreamsOK, TypeOK, ClientTypeOK, ServiceTypeOK
  <2>2. /\ KeepsChannel(channel[e], channel'[e], s)
        /\ KeepsOutbox(outbox[Peer(e)], outbox'[Peer(e)], s)
        /\ execution' = execution /\ produced' = produced
    BY <1>3 DEF serviceVars
  <2>3. PICK a \in 0 .. produced[Peer(e)][s] : Had(e, s) = FirstItems(a)
    BY <2>1 DEF StreamOK, HadWasMade
  <2>4. SUFFICES
          /\ call[e][s] \in GivenUp => call'[e][s] \in GivenUp
          /\ s \in streamCallbacks'[e] => s \in streamCallbacks[e] /\ Had(e, s)' = Had(e, s)
          /\ \E b \in 0 .. produced[Peer(e)][s] : Had(e, s)' = FirstItems(b)
          /\ call'[e][s] # "idle"
          /\ EndIsComplete(e, s)' /\ ResponseIsComplete(e, s)'
    BY <1>1, <2>1, <2>2, ServerSideKept DEF HadWasMade
  <2>5. ASSUME UNCHANGED <<buffer, received>>
        PROVE  Had(e, s)' = Had(e, s)
    BY <2>5 DEF Had
  <2> USE DEF SetCall, TypeOK, ClientTypeOK, GivenUp
  <2>6. CASE PollResponse(e, s)
    <3>1. /\ UNCHANGED <<streamCallbacks, buffer, received>>
          /\ call[e][s] = "responded" /\ call'[e][s] = "done"
      BY <1>1, <2>6 DEF PollResponse
    <3>2. EndIsComplete(e, s)' /\ ResponseIsComplete(e, s)'
      BY <3>1 DEF EndIsComplete, ResponseIsComplete
    <3>3. call[e][s] \notin GivenUp /\ call'[e][s] # "idle"
      BY <3>1
    <3> QED
      BY <2>3, <2>5, <3>1, <3>2, <3>3
  <2>7. CASE DropRequest(e, s)
    <3>1. /\ UNCHANGED <<streamCallbacks, buffer, received>>
          /\ call'[e][s] = "dropped"
      BY <1>1, <2>7 DEF DropRequest
    <3> QED
      BY <2>3, <2>5, <3>1 DEF EndIsComplete, ResponseIsComplete
  <2>8. CASE PollItem(e, s)
    <3>1. /\ UNCHANGED <<streamCallbacks, call>>
          /\ call[e][s] \in {"open", "closed"} /\ buffer[e][s] # <<>>
          /\ buffer'[e][s] = Tail(buffer[e][s])
          /\ received'[e][s] = Append(received[e][s], Head(buffer[e][s]))
      BY <1>1, <2>8 DEF PollItem
    <3>2. Had(e, s)' = Had(e, s)
      <4>1. Append(received[e][s], Head(buffer[e][s])) \o Tail(buffer[e][s])
              = received[e][s] \o buffer[e][s]
        BY <2>1, <3>1, HadFacts
      <4> QED
        BY <3>1, <4>1 DEF Had
    <3>3. EndIsComplete(e, s)' /\ ResponseIsComplete(e, s)'
      BY <2>1, <2>2, <3>1, <3>2 DEF StreamOK, EndIsComplete, ResponseIsComplete
    <3> QED
      BY <2>3, <3>1, <3>2, <3>3
  <2>9. CASE PollNone(e, s)
    <3>1. /\ UNCHANGED <<streamCallbacks, buffer, received>>
          /\ buffer[e][s] = <<>> /\ s \notin streamCallbacks[e]
          /\ \/ call[e][s] = "open" /\ call'[e][s] = "ended"
             \/ call[e][s] = "closed" /\ call'[e][s] = "drained"
      BY <1>1, <2>9 DEF PollNone
    <3>2. Had(e, s) = received[e][s]
      BY <2>1, <3>1, HadFacts DEF Had
    <3>3. EndIsComplete(e, s)' /\ ResponseIsComplete(e, s)'
      BY <2>1, <2>2, <3>1, <3>2 DEF StreamOK, EndIsComplete, ResponseIsComplete
    <3>4. (call[e][s] \in GivenUp => call'[e][s] \in GivenUp) /\ call'[e][s] # "idle"
      BY <3>1
    <3> QED
      BY <2>3, <2>5, <3>1, <3>3, <3>4
  <2>10. CASE Close(e, s)
    <3>1. /\ UNCHANGED <<buffer, received>> /\ s \notin streamCallbacks'[e]
          /\ call'[e][s] = "closed"
      BY <1>1, <2>10 DEF Close, FireStreamAbort
    <3> QED
      BY <2>3, <2>5, <3>1 DEF EndIsComplete, ResponseIsComplete
  <2>11. CASE DropStream(e, s)
    <3>1. /\ received' = received /\ buffer'[e][s] = <<>> /\ s \notin streamCallbacks'[e]
          /\ call'[e][s] = "dropped"
      BY <1>1, <2>11 DEF DropStream, FireStreamAbort, CallbacksMatchCalls
    <3>2. Had(e, s)' = received[e][s]
      <4>1. received[e][s] \o <<>> = received[e][s]
        BY <2>1, HadFacts
      <4> QED
        BY <3>1, <4>1 DEF Had
    <3>3. /\ received[e][s] = FirstItems(Len(received[e][s]))
          /\ Len(received[e][s]) \in 0 .. a
      <4>1. a \in Nat /\ received[e][s] \o buffer[e][s] = FirstItems(a)
        BY <2>1, <2>3 DEF Had
      <4>2. received[e][s] = FirstItems(Len(received[e][s]))
        BY <2>1, <4>1, HadFacts
      <4>3. Len(received[e][s]) + Len(buffer[e][s]) = a
        BY <2>1, <4>1, HadFacts
      <4>4. Len(received[e][s]) \in Nat /\ Len(buffer[e][s]) \in Nat
        BY <2>1
      <4>5. \A i, j \in Nat : i + j = a => i \in 0 .. a
        OBVIOUS
      <4>6. Len(received[e][s]) \in 0 .. a
        BY <4>3, <4>4, <4>5, Zenon
      <4> QED
        BY <4>2, <4>6, Zenon
    <3> QED
      BY <2>1, <2>3, <3>1, <3>2, <3>3 DEF EndIsComplete, ResponseIsComplete
  <2> QED
    BY <2>6, <2>7, <2>8, <2>9, <2>10, <2>11 DEF CallerStep
<1> QED
  BY <1>4, <1>5 DEF StreamsOK

-----------------------------------------------------------------------------
(* The dispatcher routes a message that belongs to no stream.  A response  *)
(* it fills a oneshot with was the last act of the execution.              *)
LEMMA DispatchOtherStream ==
  ASSUME SInv, NEW e \in Ends, DispatchRequest(e) \/ DispatchAbort(e) \/ DispatchResponse(e)
  PROVE  StreamsOK'
<1>1. TypeOK
  BY DEF SInv, IInv
<1>2. PICK kind \in {"Request", "Abort", "Response"} :
        TakeMessage(e, kind) /\ (kind = "Response" <=> DispatchResponse(e))
  <2>1. \A k, l : TakeMessage(e, k) /\ TakeMessage(e, l) => k = l
    BY DEF TakeMessage
  <2> QED
    BY <2>1 DEF DispatchRequest, DispatchAbort, DispatchResponse
<1>3. PICK msg \in Message : msg = Head(channel[e]) /\ msg.kind = kind /\ msg.seq \in Seqs
  BY <1>1, <1>2, TakeEffect, MessageShapes DEF TypeOK
<1>4. ASSUME NEW f \in Ends, NEW t \in Seqs
      PROVE  /\ KeepsChannel(channel[f], channel'[f], t)
             /\ KeepsOutbox(outbox[Peer(f)], outbox'[Peer(f)], t)
             /\ UNCHANGED <<outbox, execution, produced, received, buffer, streamCallbacks>>
  <2>1. ~ IsItem(msg, t)
    BY <1>3, MessageShapes, ItemShapes
  <2>2. UNCHANGED <<outbox, execution, produced, received, buffer, streamCallbacks>>
    BY DEF DispatchRequest, DispatchAbort, DispatchResponse, OnResponse, clientVars, serviceVars
  <2> QED
    BY <1>1, <1>2, <1>3, <2>1, <2>2, TakeUnnoticed, KeepsSame
<1>5. ASSUME NEW f \in Ends, NEW t \in Seqs, call'[f][t] = call[f][t]
      PROVE  StreamOK(f, t)'
  BY <1>1, <1>4, <1>5, OtherCalls DEF SInv, StreamsOK
<1>6. ASSUME NEW f \in Ends, NEW t \in Seqs, call'[f][t] # call[f][t]
      PROVE  StreamOK(f, t)'
  <2>1. /\ kind = "Response" /\ OnResponse(e, msg.seq)
        /\ f = e /\ t = msg.seq /\ t \in callbacks[f] /\ call'[f][t] = "responded"
    <3>1. DispatchResponse(e)
      BY <1>6 DEF DispatchRequest, DispatchAbort, DispatchResponse, clientVars
    <3>2. kind = "Response" /\ OnResponse(e, msg.seq)
      BY <1>2, <1>3, <3>1 DEF DispatchResponse
    <3>3. msg.seq \in callbacks[e] /\ call' = [call EXCEPT ![e][msg.seq] = "responded"]
      BY <1>6, <3>2 DEF OnResponse, SetCall
    <3>4. f = e /\ t = msg.seq
      BY <1>1, <1>3, <1>6, <3>3 DEF TypeOK, ClientTypeOK
    <3> QED
      BY <1>1, <3>2, <3>3, <3>4 DEF TypeOK, ClientTypeOK
  <2>2. call[f][t] = "pending"
    BY <2>1 DEF SInv, IInv, CallbacksMatchCalls
  <2>3. execution[Peer(f)][t] = "finished"
    <3>1. InQueue(ResponseMsg(t), channel[f])
      BY <1>1, <1>2, <1>3, <2>1, TakeEffect, MessageShapes DEF TypeOK
    <3> QED
      BY <3>1, PeerProps DEF SInv, IInv, ResponsesAreFinal
  <2>4. StreamOK(f, t) /\ Had(f, t)' = Had(f, t)
    BY <1>4 DEF SInv, StreamsOK, Had
  <2>5. HadWasMade(f, t)' /\ EndIsComplete(f, t)' /\ ResponseIsComplete(f, t)'
    BY <1>4, <2>1, <2>3, <2>4
    DEF StreamOK, HadWasMade, EndIsComplete, ResponseIsComplete
  <2>6. /\ call[f][t] \notin GivenUp
        /\ execution'[Peer(f)][t] = execution[Peer(f)][t]
        /\ produced'[Peer(f)][t] = produced[Peer(f)][t]
        /\ t \in streamCallbacks'[f] => t \in streamCallbacks[f]
    BY <1>4, <2>2 DEF GivenUp
  <2> QED
    BY <1>1, <1>4, <2>4, <2>5, <2>6, ServerSideKept
<1> QED
  BY <1>5, <1>6 DEF StreamsOK

(* It pushes an item to its receiver: it is the next one.                  *)
LEMMA DispatchItemStream ==
  ASSUME SInv, NEW e \in Ends, DispatchStreamItem(e)
  PROVE  StreamsOK'
<1>1. TypeOK /\ channel \in [Ends -> Seq(Message)] /\ TakeMessage(e, "StreamItem")
  BY DEF SInv, IInv, TypeOK, DispatchStreamItem
<1>2. PICK s \in Seqs, i \in Items : Head(channel[e]) = ItemMsg(s, i)
  BY <1>1, TakeEffect, MessageShapes
<1>3. /\ OnStreamItem(e, s, i)
      /\ UNCHANGED <<call, outbox, execution, produced, received, streamCallbacks>>
  BY <1>2, MessageFacts DEF DispatchStreamItem, OnStreamItem, serviceVars
<1>4. i # None /\ i \in Nat
  BY BoundsAssumption DEF Items, None
<1>5. ASSUME NEW f \in Ends, NEW t \in Seqs, f # e \/ t # s
      PROVE  StreamOK(f, t)'
  <2>1. KeepsChannel(channel[f], channel'[f], t)
    <3>1. f = e => ~ IsItem(Head(channel[e]), t)
      BY <1>2, <1>5, ItemShapes
    <3> QED
      BY <1>1, <3>1, TakeUnnoticed
  <2>2. KeepsOutbox(outbox[Peer(f)], outbox'[Peer(f)], t)
    BY <1>3, KeepsSame
  <2>3. buffer'[f][t] = buffer[f][t]
    BY <1>1, <1>3, <1>5 DEF OnStreamItem, TypeOK, ClientTypeOK
  <2> QED
    BY <1>1, <1>3, <2>1, <2>2, <2>3, OtherCalls DEF SInv, StreamsOK
<1>6. StreamOK(e, s)'
  <2>1. /\ StreamOK(e, s) /\ channel[e] \in Seq(Message) /\ channel[e] # <<>>
        /\ channel'[e] = Tail(channel[e])
        /\ received[e][s] \in Seq(Items) /\ buffer[e][s] \in Seq(Items)
        /\ produced[Peer(e)][s] \in Nat
    BY <1>1, TakeEffect, PeerProps, BoundsAssumption
    DEF SInv, StreamsOK, TypeOK, ClientTypeOK, ServiceTypeOK
  <2>2. IsItem(Head(channel[e]), s) /\ Head(channel[e]).item = i
    BY <1>2, <1>4, ItemShapes, MessageFacts
  <2>3. /\ HasItem(channel'[e], s) => HasItem(channel[e], s)
        /\ EndMsgIsLast(channel[e], s) => EndMsgIsLast(channel'[e], s)
        /\ InQueue(EndMsg(s), channel'[e]) => InQueue(EndMsg(s), channel[e])
    BY <2>1, ChannelTail
  <2>4. NothingMadeEarly(e, s)' /\ EndComesLast(e, s)' /\ AbortWasWanted(e, s)'
    BY <1>3, <2>1, <2>3
    DEF StreamOK, NothingMadeEarly, EndComesLast, EndPosted, AbortWasWanted
  <2>5. CASE s \notin streamCallbacks[e]
    <3>1. buffer' = buffer /\ Had(e, s)' = Had(e, s)
      BY <1>3, <2>5 DEF OnStreamItem, Had
    <3>2. HadWasMade(e, s)' /\ EndIsComplete(e, s)' /\ ResponseIsComplete(e, s)'
      BY <1>3, <2>1, <3>1 DEF StreamOK, HadWasMade, EndIsComplete, ResponseIsComplete
    <3>3. RestIsComing(e, s)'
      BY <1>3, <2>5 DEF RestIsComing
    <3> QED
      BY <2>4, <3>2, <3>3 DEF StreamOK
  <2>6. CASE s \in streamCallbacks[e]
    <3>1. call[e][s] = "open"
      BY <2>6 DEF SInv, IInv, CallbacksMatchCalls
    <3>2. PICK a \in 0 .. produced[Peer(e)][s], b \in 0 .. produced[Peer(e)][s] :
            /\ a <= b /\ Had(e, s) = FirstItems(a)
            /\ Carries(channel[e], s, a, b)
            /\ Carries(outbox[Peer(e)], s, b, produced[Peer(e)][s])
      BY <2>1, <2>6 DEF StreamOK, RestIsComing, Unbroken
    <3>3. a \in Nat /\ b \in Nat
      BY <2>1
    <3>4. a < b /\ i = a + 1 /\ Carries(channel'[e], s, a + 1, b)
      BY <2>1, <2>2, <3>2, <3>3, CarriesTail
    <3>5. Had(e, s)' = FirstItems(a + 1)
      <4>1. buffer'[e][s] = Append(buffer[e][s], i) /\ received'[e][s] = received[e][s]
        BY <1>1, <1>3, <2>6 DEF OnStreamItem, TypeOK, ClientTypeOK
      <4>2. received[e][s] \o Append(buffer[e][s], i)
              = Append(received[e][s] \o buffer[e][s], i)
        BY <2>1, HadFacts
      <4>3. Append(FirstItems(a), i) = FirstItems(a + 1)
        BY <3>3, <3>4, FirstItemsFacts
      <4> QED
        BY <3>2, <4>1, <4>2, <4>3 DEF Had
    <3>6. a + 1 \in 0 .. produced[Peer(e)][s] /\ a + 1 <= b
      BY <2>1, <3>3, <3>4
    <3>7. RestIsComing(e, s)'
      BY <1>3, <3>2, <3>4, <3>5, <3>6 DEF RestIsComing, Unbroken
    <3>8. HadWasMade(e, s)'
      BY <1>3, <3>1, <3>5, <3>6 DEF HadWasMade
    <3>9. EndIsComplete(e, s)' /\ ResponseIsComplete(e, s)'
      BY <1>3, <2>6, <3>1 DEF EndIsComplete, ResponseIsComplete
    <3> QED
      BY <2>4, <3>7, <3>8, <3>9 DEF StreamOK
  <2> QED
    BY <2>5, <2>6
<1> QED
  BY <1>5, <1>6 DEF StreamsOK

(* It drops the sender of a receiver: every item came before.              *)
LEMMA DispatchEndStream ==
  ASSUME SInv, NEW e \in Ends, DispatchStreamEnd(e)
  PROVE  StreamsOK'
<1>1. TypeOK /\ channel \in [Ends -> Seq(Message)] /\ TakeMessage(e, "StreamEnd")
  BY DEF SInv, IInv, TypeOK, DispatchStreamEnd
<1>2. PICK s \in Seqs : Head(channel[e]) = EndMsg(s)
  BY <1>1, TakeEffect, MessageShapes
<1>3. /\ streamCallbacks' = [streamCallbacks EXCEPT ![e] = @ \ {s}]
      /\ UNCHANGED <<call, outbox, execution, produced, received, buffer>>
  BY <1>2, MessageFacts DEF DispatchStreamEnd, OnStreamEnd, serviceVars
<1>4. ASSUME NEW f \in Ends, NEW t \in Seqs
      PROVE  /\ KeepsChannel(channel[f], channel'[f], t)
             /\ KeepsOutbox(outbox[Peer(f)], outbox'[Peer(f)], t)
             /\ t \in streamCallbacks'[f] <=> t \in streamCallbacks[f] /\ ~ (f = e /\ t = s)
  <2>1. ~ IsItem(Head(channel[e]), t)
    BY <1>2, ItemShapes
  <2>2. KeepsChannel(channel[f], channel'[f], t)
    BY <1>1, <2>1, TakeUnnoticed
  <2>3. KeepsOutbox(outbox[Peer(f)], outbox'[Peer(f)], t)
    BY <1>3, KeepsSame
  <2> QED
    BY <1>1, <1>3, <2>2, <2>3 DEF TypeOK, ClientTypeOK
<1>5. ASSUME NEW f \in Ends, NEW t \in Seqs, f # e \/ t # s
      PROVE  StreamOK(f, t)'
  BY <1>1, <1>3, <1>4, <1>5, OtherCalls DEF SInv, StreamsOK
<1>6. StreamOK(e, s)'
  <2>1. /\ StreamOK(e, s) /\ channel[e] \in Seq(Message) /\ channel[e] # <<>>
        /\ produced[Peer(e)][s] \in Nat
    BY <1>1, TakeEffect, PeerProps, BoundsAssumption
    DEF SInv, StreamsOK, TypeOK, ServiceTypeOK
  <2>2. /\ Had(e, s)' = Had(e, s) /\ s \notin streamCallbacks'[e]
        /\ call'[e][s] = call[e][s] /\ received'[e][s] = received[e][s]
        /\ execution'[Peer(e)][s] = execution[Peer(e)][s]
        /\ produced'[Peer(e)][s] = produced[Peer(e)][s]
    BY <1>3, <1>4 DEF Had
  <2>3. ASSUME s \in streamCallbacks[e]
        PROVE  Had(e, s) = FirstItems(produced[Peer(e)][s]) /\ execution[Peer(e)][s] = "finished"
    <3>1. EndPosted(e, s)
      BY <1>1, <1>2, TakeEffect DEF EndPosted
    <3>2. /\ execution[Peer(e)][s] \in {"finished", "aborted"}
          /\ ~ HasItem(outbox[Peer(e)], s)
      BY <2>1, <3>1 DEF StreamOK, EndComesLast, HasEntry, HasItem, IsItem
    <3>3. ~ HasItem(channel[e], s)
      BY <1>2, <2>1, ChannelTail DEF StreamOK, EndComesLast
    <3>4. PICK a \in 0 .. produced[Peer(e)][s], b \in 0 .. produced[Peer(e)][s] :
            /\ a <= b /\ Had(e, s) = FirstItems(a)
            /\ Carries(channel[e], s, a, b)
            /\ Carries(outbox[Peer(e)], s, b, produced[Peer(e)][s])
      BY <2>1, <2>3 DEF StreamOK, RestIsComing, Unbroken
    <3>5. a \in Nat /\ b \in Nat /\ b <= produced[Peer(e)][s]
      BY <2>1
    <3>6. a = b /\ b = produced[Peer(e)][s]
      BY <2>1, <3>2, <3>3, <3>4, <3>5, CarriesNone
    <3>7. call[e][s] \notin GivenUp
      BY <2>3 DEF SInv, IInv, CallbacksMatchCalls, GivenUp
    <3> QED
      BY <2>1, <3>2, <3>4, <3>6, <3>7 DEF StreamOK, AbortWasWanted
  <2>4. HadWasMade(e, s)' /\ EndIsComplete(e, s)' /\ ResponseIsComplete(e, s)'
    BY <2>1, <2>2, <2>3 DEF StreamOK, HadWasMade, EndIsComplete, ResponseIsComplete
  <2> QED
    BY <1>1, <1>4, <2>1, <2>2, <2>4, ServerSideKept
<1> QED
  BY <1>5, <1>6 DEF StreamsOK

-----------------------------------------------------------------------------
(* A step of the server that puts nothing in its outbox, takes nothing from *)
(* it and posts nothing of a stream: at most one execution moves on.       *)
LEMMA QuietServerStream ==
  ASSUME SInv, NEW e \in Ends, NEW s \in Seqs,
         UNCHANGED <<clientVars, outbox, produced>>,
         \A f \in Ends, t \in Seqs : KeepsChannel(channel[f], channel'[f], t),
         \A f \in Ends, t \in Seqs : f # e \/ t # s => execution'[f][t] = execution[f][t],
         execution[e][s] \in {"finished", "aborted"} => execution'[e][s] = execution[e][s],
         execution'[e][s] \in {"none", "called"} => execution[e][s] \in {"none", "called"},
         execution'[e][s] = "aborted" =>
           execution[e][s] = "aborted" \/ call[Peer(e)][s] \in GivenUp
  PROVE  StreamsOK'
<1>1. TypeOK
  BY DEF SInv, IInv
<1>2. ASSUME NEW f \in Ends, NEW t \in Seqs
      PROVE  /\ StreamOK(f, t) /\ KeepsOutbox(outbox[Peer(f)], outbox'[Peer(f)], t)
             /\ Peer(f) \in Ends /\ (f # Peer(e) => Peer(f) # e)
  BY PeerProps, KeepsSame DEF SInv, StreamsOK
<1>3. ASSUME NEW f \in Ends, NEW t \in Seqs, f # Peer(e) \/ t # s
      PROVE  StreamOK(f, t)'
  <2>1. execution'[Peer(f)][t] = execution[Peer(f)][t]
    BY <1>2, <1>3
  <2> QED
    BY <1>1, <1>2, <2>1, OtherCalls DEF clientVars
<1>4. ASSUME NEW f \in Ends, f = Peer(e)
      PROVE  StreamOK(f, s)'
  <2>1. Peer(f) = e /\ StreamOK(f, s) /\ KeepsChannel(channel[f], channel'[f], s)
        /\ produced[e][s] \in Nat
    BY <1>1, <1>2, <1>4, PeerProps, BoundsAssumption DEF TypeOK, ServiceTypeOK
  <2>2. NothingMadeEarly(f, s)'
    BY <2>1 DEF StreamOK, NothingMadeEarly, KeepsChannel
  <2>3. EndComesLast(f, s)'
    BY <2>1 DEF StreamOK, EndComesLast, EndPosted, KeepsChannel
  <2>4. AbortWasWanted(f, s)'
    BY <1>4, <2>1 DEF StreamOK, AbortWasWanted, clientVars
  <2>5. HadWasMade(f, s)'
    BY <2>1 DEF StreamOK, HadWasMade, Had, clientVars
  <2>6. RestIsComing(f, s)'
    <3>1. /\ Had(f, s)' = Had(f, s) /\ outbox' = outbox /\ streamCallbacks' = streamCallbacks
          /\ produced'[Peer(f)][s] = produced[Peer(f)][s] /\ produced[Peer(f)][s] \in Nat
          /\ \A a, b \in Nat :
               a <= b /\ Carries(channel[f], s, a, b) => Carries(channel'[f], s, a, b)
      BY <2>1 DEF Had, KeepsChannel, clientVars
    <3>2. RestIsComing(f, s)
      BY <2>1 DEF StreamOK
    <3> QED
      BY <3>1, <3>2 DEF RestIsComing, Unbroken
  <2>7. EndIsComplete(f, s)' /\ ResponseIsComplete(f, s)'
    BY <2>1 DEF StreamOK, EndIsComplete, ResponseIsComplete, Had, clientVars
  <2> QED
    BY <2>2, <2>3, <2>4, <2>5, <2>6, <2>7 DEF StreamOK
<1> QED
  BY <1>3, <1>4 DEF StreamsOK

(* Taking a request or an abort, completing, and starting a stream are     *)
(* such steps.                                                             *)
LEMMA TakingStream ==
  ASSUME SInv, NEW e \in Ends, TakeRequest(e) \/ TakeAbort(e), UNCHANGED clientVars
  PROVE  StreamsOK'
<1>1. TypeOK /\ UNCHANGED <<channel, outbox, produced>>
  BY DEF SInv, IInv, TakeRequest, TakeAbort
<1>2. \A f \in Ends, t \in Seqs : KeepsChannel(channel[f], channel'[f], t)
  BY <1>1, KeepsSame
<1>3. CASE TakeRequest(e)
  <2>1. PICK s \in Seqs, m \in Methods :
          /\ Head(requests[e]) = [seq |-> s, method |-> m]
          /\ InQueue([seq |-> s, method |-> m], requests[e])
    <3>1. requests[e] \in Seq(Inbound) /\ requests[e] # <<>>
      BY <1>1, <1>3 DEF TakeRequest, TypeOK, ServiceTypeOK
    <3>2. Head(requests[e]) \in Inbound /\ InQueue(Head(requests[e]), requests[e])
      BY <3>1, QueueTail
    <3> QED
      BY <3>2 DEF Inbound
  <2>2. execution[e][s] = "none"
    BY <2>1 DEF SInv, IInv, RequestsAreFresh, Untouched
  <2>3. execution' = [execution EXCEPT ![e][s] = "called"]
    <3>1. Head(requests[e]).seq = s
      BY <2>1
    <3> QED
      BY <1>3, <3>1 DEF TakeRequest, SetExecution
  <2>4. /\ execution'[e][s] = "called"
        /\ \A f \in Ends, t \in Seqs : f # e \/ t # s => execution'[f][t] = execution[f][t]
    BY <1>1, <2>3 DEF TypeOK, ServiceTypeOK
  <2> QED
    BY <1>1, <1>2, <2>2, <2>4, QuietServerStream
<1>4. CASE TakeAbort(e)
  <2>1. Head(aborts[e]) \in Seqs /\ execution' = execution
    BY <1>1, <1>4, QueueTail DEF TakeAbort, TypeOK, ServiceTypeOK
  <2> QED
    BY <1>1, <1>2, <2>1, QuietServerStream
<1> QED
  BY <1>3, <1>4

LEMMA CompletingStream ==
  ASSUME SInv, NEW e \in Ends, NEW s \in Seqs,
         FinishNotify(e, s) \/ FinishValue(e, s) \/ AbortValue(e, s) \/ StartStream(e, s),
         UNCHANGED clientVars
  PROVE  StreamsOK'
<1>1. TypeOK /\ ResponseMsg(s) \in Message
  BY MessageFacts DEF SInv, IInv
<1>2. /\ UNCHANGED <<outbox, produced>>
      /\ channel' = channel \/ Post(e, ResponseMsg(s))
      /\ execution[e][s] = "called"
      /\ \/ SetExecution(e, s, "finished")
         \/ SetExecution(e, s, "forwarding")
         \/ SetExecution(e, s, "aborted") /\ s \in signalled[e]
  BY DEF FinishNotify, FinishValue, AbortValue, StartStream, Complete
<1>3. ASSUME NEW f \in Ends, NEW t \in Seqs
      PROVE  KeepsChannel(channel[f], channel'[f], t)
  <2>1. ~ IsItem(ResponseMsg(s), t) /\ ResponseMsg(s) # EndMsg(t)
    BY ItemShapes, MessageFacts
  <2> QED
    BY <1>1, <1>2, <2>1, PostUnnoticed, KeepsSame
<1>4. /\ execution'[e][s] \in {"finished", "forwarding", "aborted"}
      /\ execution'[e][s] = "aborted" => s \in signalled[e]
      /\ \A f \in Ends, t \in Seqs : f # e \/ t # s => execution'[f][t] = execution[f][t]
  BY <1>1, <1>2 DEF SetExecution, TypeOK, ServiceTypeOK
<1>5. s \in signalled[e] => call[Peer(e)][s] \in GivenUp
  BY DEF SInv, IInv, AbortsAreSent
<1> QED
  BY <1>1, <1>2, <1>3, <1>4, <1>5, QuietServerStream

-----------------------------------------------------------------------------
(* The server posts the next item of a stream.                             *)
LEMMA ForwardItemStream ==
  ASSUME SInv, NEW e \in Ends, ForwardItem(e), UNCHANGED clientVars
  PROVE  StreamsOK'
<1>1. /\ TypeOK /\ outbox \in [Ends -> Seq(StreamMessage)]
      /\ outbox[e] # <<>> /\ outbox' = [outbox EXCEPT ![e] = Tail(@)]
      /\ UNCHANGED <<execution, produced>>
  BY DEF SInv, IInv, TypeOK, ServiceTypeOK, ForwardItem
<1>2. PICK s \in Seqs, i \in Items : Head(outbox[e]) = Entry(s, i) /\ Post(e, ItemMsg(s, i))
  <2>1. Head(outbox[e]) \in StreamMessage /\ Head(outbox[e]).item # None
    BY <1>1, QueueTail DEF ForwardItem
  <2>2. PICK s \in Seqs, i \in Items : Head(outbox[e]) = [seq |-> s, item |-> i]
    BY <2>1 DEF StreamMessage
  <2>3. Head(outbox[e]).seq = s /\ Head(outbox[e]).item = i
    BY <2>2
  <2> QED
    BY <2>2, <2>3 DEF ForwardItem, Entry
<1>3. ItemMsg(s, i) \in Message /\ i # None /\ Entry(s, i).seq = s /\ Entry(s, i).item = i
  BY MessageFacts, BoundsAssumption DEF Items, None, Entry
<1>4. PICK p \in Ends : p = Peer(e) /\ Peer(p) = e /\ \A f \in Ends : f # p => Peer(f) # e
  BY PeerProps
<1>5. ASSUME NEW f \in Ends, NEW t \in Seqs, f # p \/ t # s
      PROVE  StreamOK(f, t)'
  <2>1. KeepsChannel(channel[f], channel'[f], t)
    <3>1. f = Peer(e) => ~ IsItem(ItemMsg(s, i), t) /\ ItemMsg(s, i) # EndMsg(t)
      BY <1>4, <1>5, ItemShapes, MessageFacts
    <3> QED
      BY <1>1, <1>2, <1>3, <3>1, PostUnnoticed
  <2>2. KeepsOutbox(outbox[Peer(f)], outbox'[Peer(f)], t)
    <3>1. CASE f = p
      BY <1>1, <1>2, <1>3, <1>4, <1>5, <3>1, OutboxTail
    <3>2. CASE f # p
      BY <1>1, <1>4, <3>2, PeerProps, KeepsSame
    <3> QED
      BY <3>1, <3>2
  <2> QED
    BY <1>1, <2>1, <2>2, OtherCalls DEF SInv, StreamsOK, clientVars
<1>6. StreamOK(p, s)'
  <2> DEFINE n == produced[e][s]
             x == ItemMsg(s, i)
  <2>1. /\ StreamOK(p, s) /\ n \in Nat
        /\ channel[p] \in Seq(Message) /\ outbox[e] \in Seq(StreamMessage)
        /\ channel'[p] = Append(channel[p], x) /\ outbox'[e] = Tail(outbox[e])
    <3>1. channel'[p] = Append(channel[p], x)
      BY <1>1, <1>2, <1>3, <1>4, PostEffect DEF TypeOK
    <3>2. n \in Nat
      BY <1>1, BoundsAssumption DEF TypeOK, ServiceTypeOK
    <3> QED
      BY <1>1, <3>1, <3>2 DEF SInv, StreamsOK, TypeOK
  <2>2. IsItem(x, s) /\ x.item = i /\ IsItem(Head(outbox[e]), s) /\ Head(outbox[e]).item = i
    BY <1>2, <1>3, ItemShapes, MessageFacts
  <2>3. HasItem(outbox[e], s) /\ HasEntry(outbox[e], s)
    BY <1>1, <2>1, <2>2, Positions DEF HasItem, HasEntry, IsItem
  <2>4. NothingMadeEarly(p, s)'
    BY <1>1, <1>4, <2>1, <2>3 DEF StreamOK, NothingMadeEarly
  <2>5. EndComesLast(p, s)'
    <3>1. ~ InQueue(EndMsg(s), channel[p])
      BY <1>4, <2>1, <2>3 DEF StreamOK, EndComesLast, EndPosted
    <3>2. x # EndMsg(s)
      BY MessageFacts
    <3>3. ~ InQueue(EndMsg(s), channel'[p])
      BY <1>3, <2>1, <3>1, <3>2, QueueAppend
    <3>4. EndMsgIsLast(channel'[p], s)
      BY <3>3 DEF EndMsgIsLast, InQueue
    <3>5. MarkerIsLast(outbox'[e], s)
      BY <1>1, <1>4, <2>1, OutboxTail DEF StreamOK, EndComesLast
    <3> QED
      BY <1>4, <3>3, <3>4, <3>5 DEF EndComesLast, EndPosted
  <2>6. RestIsComing(p, s)'
    <3> SUFFICES ASSUME s \in streamCallbacks[p]
                 PROVE  RestIsComing(p, s)'
      BY DEF RestIsComing, clientVars
    <3>1. PICK a \in 0 .. n, b \in 0 .. n :
            /\ a <= b /\ Had(p, s) = FirstItems(a)
            /\ Carries(channel[p], s, a, b)
            /\ Carries(outbox[e], s, b, n)
      BY <1>4, <2>1 DEF StreamOK, RestIsComing, Unbroken
    <3>2. a \in Nat /\ b \in Nat /\ b <= n
      BY <2>1
    <3>3. b < n /\ i = b + 1 /\ Carries(outbox'[e], s, b + 1, n)
      BY <1>1, <2>1, <2>2, <3>1, <3>2, CarriesTail
    <3>4. Carries(channel'[p], s, a, b + 1)
      BY <1>3, <2>1, <2>2, <3>1, <3>2, <3>3, CarriesAppend
    <3>5. b + 1 \in 0 .. n /\ a <= b + 1
      BY <2>1, <3>1, <3>2, <3>3
    <3>6. Had(p, s)' = FirstItems(a) /\ produced' = produced
      BY <1>1, <3>1 DEF Had, clientVars
    <3> QED
      BY <1>4, <3>3, <3>4, <3>5, <3>6 DEF RestIsComing, Unbroken
  <2>7. /\ AbortWasWanted(p, s)' /\ HadWasMade(p, s)'
        /\ EndIsComplete(p, s)' /\ ResponseIsComplete(p, s)'
    BY <1>1, <2>1
    DEF StreamOK, AbortWasWanted, HadWasMade, EndIsComplete, ResponseIsComplete, Had, clientVars
  <2> QED
    BY <2>4, <2>5, <2>6, <2>7 DEF StreamOK
<1> QED
  BY <1>5, <1>6 DEF StreamsOK

(* The server posts the end of a stream: nothing of it is behind.          *)
LEMMA ForwardEndStream ==
  ASSUME SInv, NEW e \in Ends, ForwardEnd(e), UNCHANGED clientVars
  PROVE  StreamsOK'
<1>1. /\ TypeOK /\ outbox \in [Ends -> Seq(StreamMessage)]
      /\ outbox[e] # <<>> /\ outbox' = [outbox EXCEPT ![e] = Tail(@)]
      /\ UNCHANGED <<execution, produced>>
  BY DEF SInv, IInv, TypeOK, ServiceTypeOK, ForwardEnd
<1>2. PICK s \in Seqs : /\ Head(outbox[e]) = Entry(s, None) /\ Post(e, EndMsg(s))
                       /\ InQueue(Entry(s, None), outbox[e])
  <2>1. /\ Head(outbox[e]) \in StreamMessage /\ Head(outbox[e]).item = None
        /\ InQueue(Head(outbox[e]), outbox[e])
    BY <1>1, QueueTail DEF ForwardEnd
  <2>2. PICK s \in Seqs : Head(outbox[e]) = [seq |-> s, item |-> None]
    BY <2>1 DEF StreamMessage
  <2>3. Head(outbox[e]).seq = s
    BY <2>2
  <2> QED
    BY <2>1, <2>2, <2>3 DEF ForwardEnd, Entry
<1>3. EndMsg(s) \in Message /\ Entry(s, None).seq = s
  BY MessageFacts DEF Entry
<1>4. PICK p \in Ends : p = Peer(e) /\ Peer(p) = e /\ \A f \in Ends : f # p => Peer(f) # e
  BY PeerProps
<1>5. ASSUME NEW f \in Ends, NEW t \in Seqs, f # p \/ t # s
      PROVE  StreamOK(f, t)'
  <2>1. KeepsChannel(channel[f], channel'[f], t)
    <3>1. f = Peer(e) => ~ IsItem(EndMsg(s), t) /\ EndMsg(s) # EndMsg(t)
      BY <1>4, <1>5, ItemShapes, MessageFacts
    <3> QED
      BY <1>1, <1>2, <1>3, <3>1, PostUnnoticed
  <2>2. KeepsOutbox(outbox[Peer(f)], outbox'[Peer(f)], t)
    <3>1. CASE f = p
      BY <1>1, <1>2, <1>3, <1>4, <1>5, <3>1, OutboxTail
    <3>2. CASE f # p
      BY <1>1, <1>4, <3>2, PeerProps, KeepsSame
    <3> QED
      BY <3>1, <3>2
  <2> QED
    BY <1>1, <2>1, <2>2, OtherCalls DEF SInv, StreamsOK, clientVars
<1>6. StreamOK(p, s)'
  <2> DEFINE n == produced[e][s]
  <2>1. /\ StreamOK(p, s) /\ n \in Nat
        /\ channel[p] \in Seq(Message) /\ outbox[e] \in Seq(StreamMessage)
        /\ channel'[p] = Append(channel[p], EndMsg(s)) /\ outbox'[e] = Tail(outbox[e])
    <3>1. channel'[p] = Append(channel[p], EndMsg(s))
      BY <1>1, <1>2, <1>3, <1>4, PostEffect DEF TypeOK
    <3>2. n \in Nat
      BY <1>1, BoundsAssumption DEF TypeOK, ServiceTypeOK
    <3> QED
      BY <1>1, <3>1, <3>2 DEF SInv, StreamsOK, TypeOK
  <2>2. ~ IsItem(EndMsg(s), s) /\ ~ IsItem(Head(outbox[e]), s)
    BY <1>2, ItemShapes
  <2>3. /\ HasItem(channel'[p], s) => HasItem(channel[p], s)
        /\ EndMsgIsLast(channel[p], s) => EndMsgIsLast(channel'[p], s)
    BY <1>3, <2>1, <2>2, ChannelAppend
  <2>4. MarkerIsLast(outbox[e], s)
    BY <1>4, <2>1 DEF StreamOK, EndComesLast
  <2>5. /\ HasItem(outbox'[e], s) => HasItem(outbox[e], s)
        /\ MarkerIsLast(outbox'[e], s) /\ ~ HasEntry(outbox'[e], s)
    BY <1>1, <1>2, <2>1, <2>4, OutboxTail
  <2>6. NothingMadeEarly(p, s)'
    BY <1>1, <1>4, <2>1, <2>3, <2>5 DEF StreamOK, NothingMadeEarly
  <2>7. EndComesLast(p, s)'
    <3>1. execution[e][s] \in {"finished", "aborted"}
      BY <1>2 DEF SInv, IInv, ExecutionsAreRegistered
    <3> QED
      BY <1>1, <1>4, <2>1, <2>3, <2>5, <3>1 DEF StreamOK, EndComesLast
  <2>8. RestIsComing(p, s)'
    <3> SUFFICES ASSUME s \in streamCallbacks[p]
                 PROVE  RestIsComing(p, s)'
      BY DEF RestIsComing, clientVars
    <3>1. PICK a \in 0 .. n, b \in 0 .. n :
            /\ a <= b /\ Had(p, s) = FirstItems(a)
            /\ Carries(channel[p], s, a, b)
            /\ Carries(outbox[e], s, b, n)
      BY <1>4, <2>1 DEF StreamOK, RestIsComing, Unbroken
    <3>2. a \in Nat /\ b \in Nat /\ b <= n
      BY <2>1
    <3>3. Carries(outbox'[e], s, b, n)
      BY <1>1, <2>1, <2>2, <3>1, <3>2, CarriesTail
    <3>4. Carries(channel'[p], s, a, b)
      BY <1>3, <2>1, <2>2, <3>1, <3>2, CarriesAppend
    <3>5. Had(p, s)' = FirstItems(a) /\ produced' = produced
      BY <1>1, <3>1 DEF Had, clientVars
    <3> QED
      BY <1>4, <3>1, <3>3, <3>4, <3>5 DEF RestIsComing, Unbroken
  <2>9. /\ AbortWasWanted(p, s)' /\ HadWasMade(p, s)'
        /\ EndIsComplete(p, s)' /\ ResponseIsComplete(p, s)'
    BY <1>1, <2>1
    DEF StreamOK, AbortWasWanted, HadWasMade, EndIsComplete, ResponseIsComplete, Had, clientVars
  <2> QED
    BY <2>6, <2>7, <2>8, <2>9 DEF StreamOK
<1> QED
  BY <1>5, <1>6 DEF StreamsOK

-----------------------------------------------------------------------------
(* A stream makes its next item, or is over: item or marker goes behind    *)
(* whatever the stream already has in the outbox.                          *)
LEMMA ProducingStream ==
  ASSUME SInv, NEW e \in Ends, NEW s \in Seqs,
         ProduceItem(e, s) \/ FinishStream(e, s) \/ AbortStream(e, s),
         UNCHANGED clientVars
  PROVE  StreamsOK'
<1> DEFINE n == produced[e][s]
<1>1. /\ TypeOK /\ outbox \in [Ends -> Seq(StreamMessage)] /\ n \in Nat
      /\ execution \in [Ends -> [Seqs -> ExecutionStates]]
      /\ produced \in [Ends -> [Seqs -> 0 .. MaxItems]]
  BY BoundsAssumption DEF SInv, IInv, TypeOK, ServiceTypeOK
<1>2. /\ channel' = channel
      /\ execution[e][s] \in {"called", "forwarding"}
      /\ \A f \in Ends, t \in Seqs : f # e \/ t # s =>
           execution'[f][t] = execution[f][t] /\ produced'[f][t] = produced[f][t]
  BY <1>1
  DEF ProduceItem, FinishStream, AbortStream, EndStream, SetExecution
<1>3. PICK i \in Items \cup {None} :
        /\ outbox' = [outbox EXCEPT ![e] = Append(@, Entry(s, i))]
        /\ \/ /\ i = n + 1 /\ i # None /\ produced'[e][s] = n + 1
              /\ execution'[e][s] = "forwarding"
           \/ /\ i = None /\ produced'[e][s] = n
              /\ execution'[e][s] \in {"finished", "aborted"}
              /\ execution'[e][s] = "aborted" => s \in signalled[e]
  <2>1. CASE ProduceItem(e, s)
    <3>1. n + 1 \in Items /\ n + 1 # None
      BY <1>1, <2>1, BoundsAssumption DEF ProduceItem, Items, None
    <3>2. produced'[e][s] = n + 1 /\ execution'[e][s] = "forwarding"
      BY <1>1, <2>1 DEF ProduceItem
    <3> QED
      BY <2>1, <3>1, <3>2 DEF ProduceItem
  <2>2. CASE FinishStream(e, s) \/ AbortStream(e, s)
    <3>1. PICK status \in {"finished", "aborted"} :
            EndStream(e, s, status) /\ (status = "aborted" => s \in signalled[e])
      BY <2>2 DEF FinishStream, AbortStream
    <3>2. execution'[e][s] = status /\ produced' = produced
      BY <1>1, <3>1 DEF EndStream, SetExecution
    <3>3. outbox' = [outbox EXCEPT ![e] = Append(@, Entry(s, None))]
      BY <3>1 DEF EndStream
    <3> QED
      BY <3>1, <3>2, <3>3
  <2> QED
    BY <2>1, <2>2
<1>4. /\ Entry(s, i) \in StreamMessage /\ Entry(s, i).seq = s /\ Entry(s, i).item = i
      /\ IsItem(Entry(s, i), s) <=> i # None
  BY ItemShapes DEF Entry, StreamMessage
<1>5. PICK p \in Ends : p = Peer(e) /\ Peer(p) = e /\ \A f \in Ends : f # p => Peer(f) # e
  BY PeerProps
<1>6. ASSUME NEW f \in Ends, NEW t \in Seqs, f # p \/ t # s
      PROVE  StreamOK(f, t)'
  <2>1. KeepsOutbox(outbox[Peer(f)], outbox'[Peer(f)], t)
    <3>1. CASE f = p
      BY <1>1, <1>3, <1>4, <1>5, <1>6, <3>1, OutboxAppend
    <3>2. CASE f # p
      BY <1>1, <1>3, <1>5, <3>2, PeerProps, KeepsSame
    <3> QED
      BY <3>1, <3>2
  <2>2. /\ execution'[Peer(f)][t] = execution[Peer(f)][t]
        /\ produced'[Peer(f)][t] = produced[Peer(f)][t]
    BY <1>2, <1>5, <1>6, PeerProps
  <2>3. KeepsChannel(channel[f], channel'[f], t)
    BY <1>2, KeepsSame
  <2> QED
    BY <1>1, <2>1, <2>2, <2>3, OtherCalls DEF SInv, StreamsOK, clientVars
<1>7. StreamOK(p, s)'
  <2>1. /\ StreamOK(p, s) /\ outbox'[e] = Append(outbox[e], Entry(s, i))
        /\ Had(p, s)' = Had(p, s)
        /\ execution'[e][s] \in {"forwarding", "finished", "aborted"}
        /\ produced'[e][s] \in {n, n + 1}
    BY <1>1, <1>3 DEF SInv, StreamsOK, Had, clientVars
  <2>2. NothingMadeEarly(p, s)'
    BY <1>5, <2>1 DEF NothingMadeEarly
  <2>3. EndComesLast(p, s)'
    <3>1. ~ InQueue(Entry(s, None), outbox[e])
      BY <1>2 DEF SInv, IInv, ExecutionsAreRegistered
    <3>2. MarkerIsLast(outbox'[e], s)
      BY <1>1, <1>4, <2>1, <3>1, OutboxAppend
    <3>3. ~ InQueue(EndMsg(s), channel[p]) /\ EndMsgIsLast(channel[p], s)
      BY <1>2, <1>5, <2>1 DEF StreamOK, EndComesLast, EndPosted
    <3> QED
      BY <1>2, <1>5, <3>2, <3>3 DEF EndComesLast, EndPosted
  <2>4. AbortWasWanted(p, s)'
    BY <1>3, <1>5 DEF AbortWasWanted, SInv, IInv, AbortsAreSent, clientVars
  <2>5. HadWasMade(p, s)'
    <3>1. PICK a \in 0 .. n : Had(p, s) = FirstItems(a)
      BY <1>5, <2>1 DEF StreamOK, HadWasMade
    <3>2. a \in 0 .. produced'[e][s]
      BY <1>1, <2>1
    <3>3. call'[p][s] = "idle" => Had(p, s) = <<>>
      BY <2>1 DEF StreamOK, HadWasMade, clientVars
    <3> QED
      BY <1>5, <2>1, <3>1, <3>2, <3>3 DEF HadWasMade
  <2>6. RestIsComing(p, s)'
    <3> SUFFICES ASSUME s \in streamCallbacks[p]
                 PROVE  RestIsComing(p, s)'
      BY DEF RestIsComing, clientVars
    <3>1. PICK a \in 0 .. n, b \in 0 .. n :
            /\ a <= b /\ Had(p, s) = FirstItems(a)
            /\ Carries(channel[p], s, a, b)
            /\ Carries(outbox[e], s, b, n)
      BY <1>5, <2>1 DEF StreamOK, RestIsComing, Unbroken
    <3>2. a \in Nat /\ b \in Nat /\ b <= n
      BY <1>1
    <3>3. Carries(outbox'[e], s, b, produced'[e][s])
      BY <1>1, <1>3, <1>4, <2>1, <3>1, <3>2, CarriesAppend
    <3>4. a \in 0 .. produced'[e][s] /\ b \in 0 .. produced'[e][s]
      BY <1>1, <2>1
    <3> QED
      BY <1>2, <1>5, <2>1, <3>1, <3>3, <3>4 DEF RestIsComing, Unbroken
  <2>7. EndIsComplete(p, s)' /\ ResponseIsComplete(p, s)'
    BY <1>2, <1>5, <2>1 DEF StreamOK, EndIsComplete, ResponseIsComplete, clientVars
  <2> QED
    BY <2>2, <2>3, <2>4, <2>5, <2>6, <2>7 DEF StreamOK
<1> QED
  BY <1>6, <1>7 DEF StreamsOK

-----------------------------------------------------------------------------
(* Nothing has been made to begin with.                                    *)
LEMMA InitStreams == Init => SInv
<1> SUFFICES ASSUME Init, NEW e \in Ends, NEW s \in Seqs PROVE StreamOK(e, s)
  BY InitInv DEF SInv, StreamsOK
<1>1. /\ channel[e] = <<>> /\ outbox[Peer(e)] = <<>> /\ execution[Peer(e)][s] = "none"
      /\ produced[Peer(e)][s] = 0 /\ call[e][s] = "idle" /\ streamCallbacks[e] = {}
      /\ received[e][s] = <<>> /\ buffer[e][s] = <<>>
  BY PeerProps DEF Init, ClientInit, ServiceInit
<1>2. \A t : ~ HasItem(<<>>, t)
  BY DEF HasItem
<1>3. NothingMadeEarly(e, s) /\ AbortWasWanted(e, s) /\ ResponseIsComplete(e, s)
  BY <1>1, <1>2 DEF NothingMadeEarly, AbortWasWanted, ResponseIsComplete
<1>4. EndComesLast(e, s)
  BY <1>1 DEF EndComesLast, MarkerIsLast, EndMsgIsLast, EndPosted, InQueue
<1>5. HadWasMade(e, s)
  <2>1. Had(e, s) = <<>> /\ FirstItems(0) = <<>>
    BY <1>1, FirstItemsFacts DEF Had
  <2> QED
    BY <1>1, <2>1 DEF HadWasMade
<1>6. RestIsComing(e, s) /\ EndIsComplete(e, s)
  BY <1>1 DEF RestIsComing, EndIsComplete
<1> QED
  BY <1>3, <1>4, <1>5, <1>6 DEF StreamOK

(* One step of the whole connection keeps the invariant.                   *)
LEMMA StepStreams == SInv /\ [Next]_vars => SInv'
<1> SUFFICES ASSUME SInv, [Next]_vars PROVE SInv'
  OBVIOUS
<1>1. IInv'
  BY StepInv DEF SInv
<1> SUFFICES StreamsOK'
  BY <1>1 DEF SInv
<1>2. CASE UNCHANGED vars
  <2>1. ASSUME NEW f \in Ends, NEW t \in Seqs
        PROVE  StreamOK(f, t)'
    BY <1>2, KeepsSame, OtherCalls DEF SInv, IInv, StreamsOK, vars
  <2> QED
    BY <2>1 DEF StreamsOK
<1>3. CASE \E e \in Ends : NewCall(e) /\ UNCHANGED serviceVars
  BY <1>3, NewCallStream
<1>4. CASE \E e \in Ends, s \in Seqs : CallerStep(e, s) /\ UNCHANGED serviceVars
  BY <1>4, CallerStream
<1>5. CASE \E e \in Ends : Dispatch(e)
  BY <1>5, DispatchOtherStream, DispatchItemStream, DispatchEndStream DEF Dispatch
<1>6. CASE \E e \in Ends : ServiceStep(e) /\ UNCHANGED clientVars
  <2>1. PICK e \in Ends : ServiceStep(e) /\ UNCHANGED clientVars
    BY <1>6
  <2>2. CASE LoopStep(e)
    BY <2>1, <2>2, TakingStream, ForwardItemStream, ForwardEndStream DEF LoopStep
  <2>3. CASE \E s \in Seqs : ExecutionStep(e, s)
    BY <2>1, <2>3, CompletingStream, ProducingStream DEF ExecutionStep
  <2> QED
    BY <2>1, <2>2, <2>3 DEF ServiceStep
<1>7. CASE Settled
  BY <1>2, <1>7 DEF Settled
<1> QED
  BY <1>2, <1>3, <1>4, <1>5, <1>6, <1>7 DEF Next, InterfaceStep

-----------------------------------------------------------------------------
(* The invariant of streams holds of every reachable state.                *)
THEOREM StreamInvariant == Spec => []SInv
BY InitStreams, StepStreams, PTL DEF Spec

(* Between the forwarding loop of the service, the dispatcher and the      *)
(* receiver's queue, no item of an open stream is lost, repeated or        *)
(* reordered, however many streams share the connection.                   *)
THEOREM StreamsStayWhole == Spec => []StreamIntegrity
<1>1. SInv => StreamIntegrity
  BY DEF SInv, StreamsOK, StreamOK, RestIsComing, Had, StreamIntegrity
<1> QED
  BY <1>1, StreamInvariant, PTL

(* A receiver that was never closed yields None only when it has yielded   *)
(* everything its stream made, and the stream itself is exhausted.         *)
THEOREM EndMeansComplete == Spec => []EndedIsComplete
<1>1. SInv => EndedIsComplete
  BY DEF SInv, StreamsOK, StreamOK, EndIsComplete, EndedIsComplete
<1> QED
  BY <1>1, StreamInvariant, PTL

(* What a receiver yields has no gap, also when it was closed or its       *)
(* stream was aborted on the way.                                          *)
THEOREM ReceivedHasNoGap == Spec => []ReceivedIsPrefix
<1>1. ASSUME SInv PROVE ReceivedIsPrefix
  <2>1. ASSUME NEW e \in Ends, NEW s \in Seqs
        PROVE  Had(e, s) = FirstItems(Len(Had(e, s)))
    <3>1. produced[Peer(e)][s] \in Nat
      BY <1>1, PeerProps, BoundsAssumption DEF SInv, IInv, TypeOK, ServiceTypeOK
    <3>2. PICK a \in Nat : Had(e, s) = FirstItems(a)
      BY <1>1, <3>1 DEF SInv, StreamsOK, StreamOK, HadWasMade
    <3> QED
      BY <3>2, FirstItemsFacts
  <2> QED
    BY <2>1 DEF ReceivedIsPrefix, Had
<1> QED
  BY <1>1, StreamInvariant, PTL
-----------------------------------------------------------------------------
(* What Rpc sees of a state.                                               *)
Callers == [e \in Ends |-> [s \in Seqs |-> CallerView(call[e][s])]]
Callees == [e \in Ends |-> [s \in Seqs |-> CalleeView(execution[Peer(e)][s])]]
Made == [e \in Ends |-> produced[Peer(e)]]
Got == [e \in Ends |-> [s \in Seqs |-> Len(received[e][s])]]

CallerViews == {"idle", "notified", "waiting", "closed", "returned", "ended", "gone"}
CalleeViews == {"idle", "working", "answered", "cancelled"}

(* The views of the states of a call and of an execution.                  *)
LEMMA CallerViewOf ==
  ASSUME NEW c \in CallStates
  PROVE  /\ CallerView(c) \in CallerViews
         /\ CallerView(c) = "idle" <=> c = "idle"
         /\ c = "notified" => CallerView(c) = "notified"
         /\ CallerView(c) = "waiting" <=> c \in {"pending", "responded", "open"}
         /\ CallerView(c) = "closed" <=> c \in {"closed", "drained"}
         /\ CallerView(c) = "returned" <=> c = "done"
         /\ CallerView(c) = "ended" <=> c = "ended"
         /\ CallerView(c) = "gone" <=> c = "dropped"
<1>1. CASE c \in {"pending", "responded", "open"}
  BY <1>1 DEF CallerView, CallerViews
<1>2. CASE c \in {"closed", "drained"}
  BY <1>2 DEF CallerView, CallerViews
<1>3. CASE c \in {"idle", "notified", "done", "ended", "dropped"}
  BY <1>3 DEF CallerView, CallerViews
<1> QED
  BY <1>1, <1>2, <1>3 DEF CallStates

LEMMA CalleeViewOf ==
  ASSUME NEW x \in ExecutionStates
  PROVE  /\ CalleeView(x) \in CalleeViews
         /\ CalleeView(x) = "idle" <=> x = "none"
         /\ CalleeView(x) = "working" <=> x \in {"called", "forwarding"}
         /\ CalleeView(x) = "answered" <=> x = "finished"
         /\ CalleeView(x) = "cancelled" <=> x = "aborted"
BY DEF CalleeView, CalleeViews, ExecutionStates

ViewsOK ==
  /\ Callers \in [Ends -> [Seqs -> CallerViews]]
  /\ Callees \in [Ends -> [Seqs -> CalleeViews]]
  /\ Made \in [Ends -> [Seqs -> 0 .. MaxItems]]
  /\ Got \in [Ends -> [Seqs -> Nat]]
  /\ \A e \in Ends, s \in Seqs :
       /\ Callers[e][s] = CallerView(call[e][s])
       /\ Callees[e][s] = CalleeView(execution[Peer(e)][s])
       /\ Made[e][s] = produced[Peer(e)][s]
       /\ Got[e][s] = Len(received[e][s])

LEMMA Views == TypeOK => ViewsOK
<1> SUFFICES ASSUME TypeOK PROVE ViewsOK
  OBVIOUS
<1>1. /\ produced \in [Ends -> [Seqs -> 0 .. MaxItems]]
      /\ execution \in [Ends -> [Seqs -> ExecutionStates]]
      /\ call \in [Ends -> [Seqs -> CallStates]]
      /\ received \in [Ends -> [Seqs -> Seq(Items)]]
  BY DEF TypeOK, ServiceTypeOK, ClientTypeOK
<1>2. \A e \in Ends : produced[Peer(e)] \in [Seqs -> 0 .. MaxItems]
  BY <1>1, PeerProps
<1>3. \A e \in Ends, s \in Seqs : CallerView(call[e][s]) \in CallerViews
  BY <1>1, CallerViewOf
<1>4. \A e \in Ends, s \in Seqs : CalleeView(execution[Peer(e)][s]) \in CalleeViews
  BY <1>1, PeerProps, CalleeViewOf
<1>5. \A e \in Ends, s \in Seqs : Len(received[e][s]) \in Nat
  BY <1>1
<1> QED
  BY <1>2, <1>3, <1>4, <1>5 DEF ViewsOK, Callers, Callees, Made, Got

-----------------------------------------------------------------------------
(* What Rpc sees of a step that changes the status of one call,            *)
LEMMA CallerMove ==
  ASSUME TypeOK, TypeOK', NEW e \in Ends, NEW s \in Seqs, NEW from,
         CallerView(call[e][s]) \in from,
         \A f \in Ends, t \in Seqs : f # e \/ t # s => call'[f][t] = call[f][t],
         UNCHANGED <<execution, produced, received>>
  PROVE  Calls!CallerMoves(e, s, from, CallerView(call'[e][s]))
<1>1. ViewsOK /\ ViewsOK'
  BY Views, PTL
<1>2. Callers' = [Callers EXCEPT ![e][s] = CallerView(call'[e][s])]
  <2>1. /\ Callers \in [Ends -> [Seqs -> CallerViews]]
        /\ Callers' \in [Ends -> [Seqs -> CallerViews]]
        /\ Callers'[e][s] = CallerView(call'[e][s])
        /\ \A f \in Ends, t \in Seqs : f # e \/ t # s => Callers'[f][t] = Callers[f][t]
    BY <1>1 DEF ViewsOK
  <2>2. Callers' = [Callers EXCEPT ![e][s] = Callers'[e][s]]
    BY <2>1, TableUpdate
  <2> QED
    BY <2>1, <2>2
<1>3. UNCHANGED <<Callees, Made, Got>> /\ Callers[e][s] \in from
  BY <1>1 DEF Callees, Made, Got, ViewsOK
<1> QED
  BY <1>2, <1>3 DEF Calls!CallerMoves, Callers, Callees, Made, Got

(* the state of one execution,                                             *)
LEMMA CalleeMove ==
  ASSUME TypeOK, TypeOK', NEW e \in Ends, NEW s \in Seqs,
         \A f \in Ends, t \in Seqs : f # e \/ t # s => execution'[f][t] = execution[f][t],
         UNCHANGED <<call, produced, received>>
  PROVE  Calls!CalleeMoves(Peer(e), s, CalleeView(execution[e][s]), CalleeView(execution'[e][s]))
<1>1. ViewsOK /\ ViewsOK'
  BY Views, PTL
<1>2. PICK p \in Ends : p = Peer(e) /\ Peer(p) = e /\ \A f \in Ends : f # p => Peer(f) # e
  BY PeerProps
<1>3. Callees' = [Callees EXCEPT ![p][s] = CalleeView(execution'[e][s])]
  <2>1. /\ Callees \in [Ends -> [Seqs -> CalleeViews]]
        /\ Callees' \in [Ends -> [Seqs -> CalleeViews]]
        /\ Callees'[p][s] = CalleeView(execution'[e][s])
        /\ \A f \in Ends, t \in Seqs : f # p \/ t # s => Callees'[f][t] = Callees[f][t]
    BY <1>1, <1>2, PeerProps DEF ViewsOK
  <2>2. Callees' = [Callees EXCEPT ![p][s] = Callees'[p][s]]
    BY <2>1, TableUpdate
  <2> QED
    BY <2>1, <2>2
<1>4. UNCHANGED <<Callers, Made, Got>> /\ Callees[p][s] = CalleeView(execution[e][s])
  BY <1>1, <1>2 DEF Callers, Made, Got, ViewsOK
<1> QED
  BY <1>2, <1>3, <1>4 DEF Calls!CalleeMoves, Callers, Callees, Made, Got

(* or none of what it sees.                                                *)
LEMMA NoMove ==
  ASSUME TypeOK, TypeOK',
         \A e \in Ends, s \in Seqs :
           /\ CallerView(call'[e][s]) = CallerView(call[e][s])
           /\ CalleeView(execution'[e][s]) = CalleeView(execution[e][s]),
         UNCHANGED <<produced, received>>
  PROVE  UNCHANGED Calls!rpcVars
<1>1. ViewsOK /\ ViewsOK'
  BY Views, PTL
<1>2. \A e \in Ends, s \in Seqs : Callers'[e][s] = Callers[e][s] /\ Callees'[e][s] = Callees[e][s]
  BY <1>1, PeerProps DEF ViewsOK
<1>3. Callers' = Callers /\ Callees' = Callees
  BY <1>1, <1>2, TableSame DEF ViewsOK
<1>4. UNCHANGED <<Made, Got>>
  BY DEF Made, Got
<1> QED
  BY <1>3, <1>4 DEF Calls!rpcVars, Callers, Callees, Made, Got

(* A caller lets go of a call.                                             *)
LEMMA LetGo ==
  ASSUME TypeOK, TypeOK', NEW e \in Ends, NEW s \in Seqs,
         <<CallerView(call[e][s]), CallerView(call'[e][s])>> \in Calls!GivenUp,
         \A f \in Ends, t \in Seqs : f # e \/ t # s => call'[f][t] = call[f][t],
         UNCHANGED <<execution, produced, received>>
  PROVE  Calls!GiveUp(e)
<1>1. ViewsOK /\ ViewsOK'
  BY Views, PTL
<1> DEFINE to == [i \in Seqs |-> CallerView(call'[e][s])]
<1>2. to \in [Seqs -> {"closed", "gone"}]
  <2>1. CallerView(call'[e][s]) \in {"closed", "gone"}
    BY DEF Calls!GivenUp
  <2> QED
    BY <2>1
<1>3. \A i \in {s} : <<Callers[e][i], to[i]>> \in Calls!GivenUp
  <2>1. Callers[e][s] = CallerView(call[e][s])
    BY <1>1 DEF ViewsOK
  <2>2. to[s] = CallerView(call'[e][s])
    OBVIOUS
  <2> HIDE DEF to, Callers
  <2>3. <<Callers[e][s], to[s]>> \in Calls!GivenUp
    BY <2>1, <2>2, Zenon
  <2> QED
    BY <2>3
<1>4. Callers' = [Callers EXCEPT ![e] = [i \in Seqs |-> IF i \in {s} THEN to[i] ELSE @[i]]]
  <2>1. /\ Callers \in [Ends -> [Seqs -> CallerViews]]
        /\ Callers' \in [Ends -> [Seqs -> CallerViews]]
        /\ Callers'[e][s] = CallerView(call'[e][s])
        /\ \A f \in Ends, t \in Seqs : f # e \/ t # s => Callers'[f][t] = Callers[f][t]
    BY <1>1 DEF ViewsOK
  <2>2. Callers'[e] = [i \in Seqs |-> IF i \in {s} THEN to[i] ELSE Callers[e][i]]
    <3>1. Callers'[e] \in [Seqs -> CallerViews]
      BY <2>1
    <3>2. \A i \in Seqs : Callers'[e][i] = IF i \in {s} THEN to[i] ELSE Callers[e][i]
      BY <2>1
    <3> HIDE DEF to, Callers
    <3> QED
      BY <3>1, <3>2
  <2>3. Callers' = [Callers EXCEPT ![e] = Callers'[e]]
    <3>1. Callers' = [Callers EXCEPT ![e][s] = Callers'[e][s]]
      BY <2>1, TableUpdate
    <3> QED
      BY <2>1, <3>1
  <2> QED
    BY <2>2, <2>3
<1>5. UNCHANGED <<Callees, Made, Got>>
  BY DEF Callees, Made, Got
<1>6. {s} \in SUBSET Seqs
  OBVIOUS
<1> HIDE DEF to
<1> QED
  BY <1>2, <1>3, <1>4, <1>5, <1>6 DEF Calls!GiveUp, Callers, Callees, Made, Got

(* A callee makes an item, and a caller gets one.                          *)
LEMMA ItemMade ==
  ASSUME TypeOK, TypeOK', NEW e \in Ends, NEW s \in Seqs, ProduceItem(e, s),
         UNCHANGED clientVars
  PROVE  Calls!MakeItem(Peer(e), s)
<1>1. ViewsOK /\ ViewsOK'
  BY Views, PTL
<1>2. PICK p \in Ends : p = Peer(e) /\ Peer(p) = e /\ \A f \in Ends : f # p => Peer(f) # e
  BY PeerProps
<1>3. /\ execution[e][s] = "forwarding" /\ produced[e][s] < MaxItems
      /\ execution' = execution /\ produced'[e][s] = produced[e][s] + 1
      /\ \A f \in Ends, t \in Seqs : f # e \/ t # s => produced'[f][t] = produced[f][t]
  BY DEF ProduceItem, TypeOK, ServiceTypeOK
<1>4. Callees[p][s] = "working" /\ Made[p][s] < MaxItems
  <2>1. Callees[p][s] = CalleeView("forwarding") /\ Made[p][s] < MaxItems
    BY <1>1, <1>2, <1>3 DEF ViewsOK
  <2> QED
    BY <2>1, CalleeViewOf DEF ExecutionStates
<1>5. Made' = [Made EXCEPT ![p][s] = @ + 1]
  <2>1. /\ Made \in [Ends -> [Seqs -> 0 .. MaxItems]]
        /\ Made' \in [Ends -> [Seqs -> 0 .. MaxItems]]
        /\ \A f \in Ends, t \in Seqs :
             Made[f][t] = produced[Peer(f)][t] /\ Made'[f][t] = produced'[Peer(f)][t]
    BY <1>1 DEF ViewsOK
  <2> HIDE DEF Made
  <2>3. Made'[p][s] = Made[p][s] + 1
    BY <1>2, <1>3, <2>1
  <2>4. ASSUME NEW f \in Ends, NEW t \in Seqs, f # p \/ t # s
        PROVE  Made'[f][t] = Made[f][t]
    <3>1. Peer(f) \in Ends /\ (Peer(f) # e \/ t # s)
      BY <1>2, <2>4, PeerProps
    <3> QED
      BY <1>3, <2>1, <3>1
  <2>2. Made' = [Made EXCEPT ![p][s] = Made'[p][s]]
    BY <2>1, <2>4, TableUpdate
  <2> QED
    BY <2>2, <2>3
<1>6. UNCHANGED <<Callers, Callees, Got>>
  BY <1>3 DEF Callers, Callees, Got, clientVars
<1> QED
  BY <1>2, <1>4, <1>5, <1>6 DEF Calls!MakeItem, Callers, Callees, Made, Got

LEMMA ItemGot ==
  ASSUME SInv, TypeOK', NEW e \in Ends, NEW s \in Seqs, PollItem(e, s), UNCHANGED serviceVars
  PROVE  Calls!GetItem(e, s)
<1>1. TypeOK /\ ViewsOK /\ ViewsOK'
  BY Views, PTL DEF SInv, IInv
<1>2. /\ call' = call /\ call[e][s] \in {"open", "closed"}
      /\ received'[e][s] = Append(received[e][s], Head(buffer[e][s])) /\ buffer[e][s] # <<>>
      /\ received[e][s] \in Seq(Items) /\ buffer[e][s] \in Seq(Items)
      /\ \A f \in Ends, t \in Seqs : f # e \/ t # s => received'[f][t] = received[f][t]
  BY <1>1 DEF PollItem, TypeOK, ClientTypeOK
<1>3. Len(received[e][s]) < produced[Peer(e)][s]
  <2>1. produced[Peer(e)][s] \in Nat
    BY <1>1, PeerProps, BoundsAssumption DEF TypeOK, ServiceTypeOK
  <2>2. PICK a \in 0 .. produced[Peer(e)][s] : received[e][s] \o buffer[e][s] = FirstItems(a)
    BY <2>1 DEF SInv, StreamsOK, StreamOK, HadWasMade, Had
  <2>3. a \in Nat /\ a <= produced[Peer(e)][s]
    BY <2>1
  <2>4. Len(received[e][s]) + Len(buffer[e][s]) = a
    BY <1>2, <2>2, <2>3, HadFacts
  <2>5. Len(received[e][s]) \in Nat /\ Len(buffer[e][s]) \in Nat \ {0}
    BY <1>2
  <2>6. \A i, j, k, l \in Nat : i + j = k /\ j # 0 /\ k <= l => i < l
    OBVIOUS
  <2> QED
    BY <2>1, <2>3, <2>4, <2>5, <2>6
<1>4. Callers[e][s] \in {"waiting", "closed"} /\ Got[e][s] < Made[e][s]
  <2>1. /\ Callers[e][s] = CallerView(call[e][s]) /\ Got[e][s] < Made[e][s]
        /\ call[e][s] \in CallStates
    BY <1>1, <1>2, <1>3 DEF ViewsOK, CallStates
  <2> QED
    BY <1>2, <2>1, CallerViewOf
<1>5. Got' = [Got EXCEPT ![e][s] = @ + 1]
  <2>1. Len(received'[e][s]) = Len(received[e][s]) + 1
    <3>1. Head(buffer[e][s]) \in Items
      BY <1>2
    <3> QED
      BY <1>2, <3>1
  <2>2. /\ Got \in [Ends -> [Seqs -> Nat]] /\ Got' \in [Ends -> [Seqs -> Nat]]
        /\ Got'[e][s] = Got[e][s] + 1
        /\ \A f \in Ends, t \in Seqs : f # e \/ t # s => Got'[f][t] = Got[f][t]
    <3>1. /\ Got \in [Ends -> [Seqs -> Nat]] /\ Got' \in [Ends -> [Seqs -> Nat]]
          /\ \A f \in Ends, t \in Seqs :
               Got[f][t] = Len(received[f][t]) /\ Got'[f][t] = Len(received'[f][t])
      BY <1>1 DEF ViewsOK
    <3>2. \A f \in Ends, t \in Seqs : f # e \/ t # s => received'[f][t] = received[f][t]
      BY <1>2
    <3> HIDE DEF Got
    <3>3. Got'[e][s] = Got[e][s] + 1
      BY <2>1, <3>1, Zenon
    <3>4. ASSUME NEW f \in Ends, NEW t \in Seqs, f # e \/ t # s
          PROVE  Got'[f][t] = Got[f][t]
      <4>1. Got[f][t] = Len(received[f][t]) /\ Got'[f][t] = Len(received'[f][t])
        BY <3>1, Zenon
      <4>2. received'[f][t] = received[f][t]
        BY <3>2, <3>4, Zenon
      <4> QED
        BY <4>1, <4>2, Zenon
    <3> QED
      BY <3>1, <3>3, <3>4, Zenon
  <2>3. Got' = [Got EXCEPT ![e][s] = Got'[e][s]]
    BY <2>2, TableUpdate
  <2> QED
    BY <2>2, <2>3
<1>6. UNCHANGED <<Callers, Callees, Made>>
  BY <1>2 DEF Callers, Callees, Made, serviceVars
<1> QED
  BY <1>4, <1>5, <1>6 DEF Calls!GetItem, Callers, Callees, Made, Got

-----------------------------------------------------------------------------
(* A new call is a call made.                                              *)
LEMMA NewCallRpc ==
  ASSUME SInv, TypeOK', NEW e \in Ends, NewCall(e), UNCHANGED serviceVars
  PROVE  Calls!RpcNext
<1>1. TypeOK /\ Numbering
  BY DEF SInv, IInv
<1>2. /\ e \in Clients /\ sequence[e] \in Seqs
      /\ \E held \in {"notified", "pending", "open"} : SetCall(e, sequence[e], held)
      /\ received' = received
  BY <1>1, BoundsAssumption
  DEF NewCall, Notify, Request, Stream, Send, TypeOK, ClientTypeOK, Seqs
<1>3. PICK s \in Seqs : s = sequence[e]
  BY <1>2
<1>4. PICK held \in {"notified", "pending", "open"} : SetCall(e, s, held)
  BY <1>2, <1>3
<1>5. call \in [Ends -> [Seqs -> CallStates]]
  BY <1>1 DEF TypeOK, ClientTypeOK
<1>6. call[e][s] = "idle"
  <2>1. ~ (s < sequence[e])
    BY <1>1, <1>3 DEF TypeOK, ClientTypeOK, Seqs
  <2> QED
    BY <1>1, <2>1 DEF Numbering
<1>7. call'[e][s] = held /\ \A f \in Ends, t \in Seqs : f # e \/ t # s => call'[f][t] = call[f][t]
  BY <1>4, <1>5 DEF SetCall
<1>8. CallerView(call[e][s]) \in {"idle"} /\ CallerView(call'[e][s]) \in {"notified", "waiting"}
  BY <1>6, <1>7 DEF CallerView
<1>9. Calls!CallerMoves(e, s, {"idle"}, CallerView(call'[e][s]))
  BY <1>1, <1>2, <1>7, <1>8, CallerMove DEF serviceVars
<1>10. Calls!MakeCall(e, s)
  BY <1>8, <1>9 DEF Calls!MakeCall
<1> QED
  BY <1>10 DEF Calls!RpcNext

(* What the holder of a call does returns it, gets an item, ends it, gives *)
(* it up, or is not seen.                                                  *)
LEMMA CallerRpc ==
  ASSUME SInv, TypeOK', NEW e \in Ends, NEW s \in Seqs, CallerStep(e, s), UNCHANGED serviceVars
  PROVE  Calls!RpcNext \/ UNCHANGED Calls!rpcVars
<1>1. /\ TypeOK /\ StreamOK(e, s)
      /\ call \in [Ends -> [Seqs -> CallStates]] /\ call[e][s] \in CallStates
  BY DEF SInv, IInv, StreamsOK, TypeOK, ClientTypeOK
<1>2. UNCHANGED <<execution, produced>>
  BY DEF serviceVars
<1>3. ASSUME NEW to, SetCall(e, s, to)
      PROVE  /\ call'[e][s] = to
             /\ \A f \in Ends, t \in Seqs : f # e \/ t # s => call'[f][t] = call[f][t]
  BY <1>1, <1>3 DEF SetCall
<1>4. ViewsOK
  BY <1>1, Views
<1>5. Callers[e][s] = CallerView(call[e][s]) /\ Callees[e][s] = CalleeView(execution[Peer(e)][s])
      /\ Made[e][s] = produced[Peer(e)][s] /\ Got[e][s] = Len(received[e][s])
  BY <1>4 DEF ViewsOK
<1>6. ASSUME NEW to, SetCall(e, s, to), received' = received,
             <<CallerView(call[e][s]), CallerView(to)>> \in Calls!GivenUp
      PROVE  Calls!RpcNext
  <2>1. call'[e][s] = to /\ \A f \in Ends, t \in Seqs : f # e \/ t # s => call'[f][t] = call[f][t]
    BY <1>3, <1>6
  <2>2. <<CallerView(call[e][s]), CallerView(call'[e][s])>> \in Calls!GivenUp
    BY <1>6, <2>1
  <2>3. Calls!GiveUp(e)
    BY <1>1, <1>2, <1>6, <2>1, <2>2, LetGo
  <2> QED
    BY <2>3 DEF Calls!RpcNext
<1>7. CASE PollResponse(e, s)
  <2>1. call[e][s] = "responded" /\ SetCall(e, s, "done") /\ received' = received
    BY <1>7 DEF PollResponse
  <2>2. Callees[e][s] = "answered"
    <3>1. execution[Peer(e)][s] = "finished"
      BY <1>1, <2>1 DEF StreamOK, ResponseIsComplete
    <3> QED
      BY <1>5, <3>1 DEF CalleeView
  <2>3. call'[e][s] = "done" /\ \A f \in Ends, t \in Seqs : f # e \/ t # s => call'[f][t] = call[f][t]
    BY <1>3, <2>1
  <2>4. CallerView(call[e][s]) \in {"waiting"} /\ CallerView(call'[e][s]) = "returned"
    BY <2>1, <2>3 DEF CallerView
  <2>5. Calls!CallerMoves(e, s, {"waiting"}, CallerView(call'[e][s]))
    BY <1>1, <1>2, <2>1, <2>3, <2>4, CallerMove
  <2>6. Calls!Return(e, s)
    BY <2>2, <2>4, <2>5 DEF Calls!Return, Callees
  <2> QED
    BY <2>6 DEF Calls!RpcNext
<1>8. CASE DropRequest(e, s)
  <2>1. call[e][s] \in {"pending", "responded"} /\ SetCall(e, s, "dropped") /\ received' = received
    BY <1>8 DEF DropRequest
  <2>2. <<CallerView(call[e][s]), CallerView("dropped")>> \in Calls!GivenUp
    BY <2>1 DEF CallerView, Calls!GivenUp
  <2> QED
    BY <1>6, <2>1, <2>2
<1>9. CASE PollItem(e, s)
  BY <1>9, ItemGot DEF Calls!RpcNext
<1>10. CASE PollNone(e, s) /\ call[e][s] = "open"
  <2>1. /\ buffer[e][s] = <<>> /\ s \notin streamCallbacks[e] /\ received' = received
        /\ call[e][s] = "open" /\ SetCall(e, s, "ended")
    BY <1>10 DEF PollNone
  <2>2. Had(e, s) = FirstItems(produced[Peer(e)][s]) /\ execution[Peer(e)][s] = "finished"
    BY <1>1, <2>1 DEF StreamOK, EndIsComplete
  <2>3. produced[Peer(e)][s] \in Nat /\ received[e][s] \in Seq(Items)
    BY <1>1, PeerProps, BoundsAssumption DEF TypeOK, ServiceTypeOK, ClientTypeOK
  <2>4. Had(e, s) = received[e][s]
    BY <2>1, <2>3, HadFacts DEF Had
  <2>5. Len(received[e][s]) = produced[Peer(e)][s]
    <3>1. Len(FirstItems(produced[Peer(e)][s])) = produced[Peer(e)][s]
      BY <2>3, FirstItemsFacts
    <3> QED
      BY <2>2, <2>4, <3>1, Zenon
  <2>6. Callees[e][s] = "answered" /\ Got[e][s] = Made[e][s]
    BY <1>5, <2>2, <2>5 DEF CalleeView
  <2>7. call'[e][s] = "ended" /\ \A f \in Ends, t \in Seqs : f # e \/ t # s => call'[f][t] = call[f][t]
    BY <1>3, <2>1
  <2>8. CallerView(call[e][s]) \in {"waiting", "closed"} /\ CallerView(call'[e][s]) = "ended"
    BY <2>1, <2>7 DEF CallerView
  <2>9. Calls!CallerMoves(e, s, {"waiting", "closed"}, CallerView(call'[e][s]))
    BY <1>1, <1>2, <2>1, <2>7, <2>8, CallerMove
  <2>10. Calls!EndOfStream(e, s)
    BY <2>6, <2>8, <2>9 DEF Calls!EndOfStream, Callees, Got, Made
  <2> QED
    BY <2>10 DEF Calls!RpcNext
<1>11. CASE PollNone(e, s) /\ call[e][s] = "closed"
  <2>1. received' = received /\ SetCall(e, s, "drained")
    BY <1>11 DEF PollNone
  <2>2. call'[e][s] = "drained" /\ \A f \in Ends, t \in Seqs : f # e \/ t # s => call'[f][t] = call[f][t]
    BY <1>3, <2>1
  <2>3. \A f \in Ends, t \in Seqs : CallerView(call'[f][t]) = CallerView(call[f][t])
    <3>1. CallerView(call'[e][s]) = CallerView(call[e][s])
      BY <1>11, <2>2 DEF CallerView
    <3> QED
      BY <2>2, <3>1
  <2> QED
    BY <1>1, <1>2, <2>1, <2>3, NoMove
<1>12. CASE Close(e, s)
  <2>1. call[e][s] = "open" /\ SetCall(e, s, "closed") /\ received' = received
    BY <1>12 DEF Close
  <2>2. <<CallerView(call[e][s]), CallerView("closed")>> \in Calls!GivenUp
    BY <2>1 DEF CallerView, Calls!GivenUp
  <2> QED
    BY <1>6, <2>1, <2>2
<1>13. CASE DropStream(e, s)
  <2>1. call[e][s] \in {"open", "closed"} /\ SetCall(e, s, "dropped") /\ received' = received
    BY <1>13 DEF DropStream
  <2>2. <<CallerView(call[e][s]), CallerView("dropped")>> \in Calls!GivenUp
    BY <2>1 DEF CallerView, Calls!GivenUp
  <2> QED
    BY <1>6, <2>1, <2>2
<1> QED
  BY <1>7, <1>8, <1>9, <1>10, <1>11, <1>12, <1>13 DEF CallerStep, PollNone

(* The dispatcher is not seen: what it routes is seen once it is polled.   *)
LEMMA DispatchRpc ==
  ASSUME SInv, TypeOK', NEW e \in Ends, Dispatch(e)
  PROVE  UNCHANGED Calls!rpcVars
<1>1. /\ TypeOK /\ CallbacksMatchCalls
      /\ call \in [Ends -> [Seqs -> CallStates]]
  BY DEF SInv, IInv, TypeOK, ClientTypeOK
<1>2. UNCHANGED <<execution, produced, received>>
  BY DEF Dispatch, DispatchRequest, DispatchAbort, DispatchResponse, DispatchStreamItem,
         DispatchStreamEnd, OnResponse, OnStreamItem, OnStreamEnd, clientVars, serviceVars
<1>3. \A f \in Ends, t \in Seqs :
        \/ call'[f][t] = call[f][t]
        \/ call[f][t] = "pending" /\ call'[f][t] = "responded"
  <2>1. CASE DispatchResponse(e)
    <3>1. PICK s \in Seqs : OnResponse(e, s)
      BY <1>1, <2>1, TakeEffect, MessageShapes DEF DispatchResponse, TypeOK
    <3>2. CASE s \in callbacks[e]
      <4>1. call[e][s] = "pending" /\ SetCall(e, s, "responded")
        BY <1>1, <3>1, <3>2 DEF OnResponse, CallbacksMatchCalls
      <4> QED
        BY <1>1, <4>1 DEF SetCall
    <3>3. CASE s \notin callbacks[e]
      BY <3>1, <3>3 DEF OnResponse
    <3> QED
      BY <3>2, <3>3
  <2>2. CASE ~ DispatchResponse(e)
    BY <2>2 DEF Dispatch, DispatchRequest, DispatchAbort, DispatchStreamItem,
                DispatchStreamEnd, OnStreamItem, OnStreamEnd, clientVars
  <2> QED
    BY <2>1, <2>2
<1>4. CallerView("pending") = CallerView("responded")
  BY DEF CallerView
<1>5. \A f \in Ends, t \in Seqs : CallerView(call'[f][t]) = CallerView(call[f][t])
  BY <1>3, <1>4
<1> QED
  BY <1>1, <1>2, <1>5, NoMove

(* Taking a request starts the work; the other branches of select! are not *)
(* seen.                                                                   *)
LEMMA LoopRpc ==
  ASSUME SInv, TypeOK', NEW e \in Ends, LoopStep(e), UNCHANGED clientVars
  PROVE  Calls!RpcNext \/ UNCHANGED Calls!rpcVars
<1>1. TypeOK /\ RequestsAreFresh
  BY DEF SInv, IInv
<1>2. UNCHANGED <<call, received>>
  BY DEF clientVars
<1>3. CASE TakeRequest(e)
  <2>1. /\ requests[e] # <<>> /\ requests[e] \in Seq(Inbound) /\ produced' = produced
        /\ SetExecution(e, Head(requests[e]).seq, "called")
        /\ execution \in [Ends -> [Seqs -> ExecutionStates]]
    BY <1>1, <1>3 DEF TakeRequest, TypeOK, ServiceTypeOK
  <2>2. PICK s \in Seqs, m \in Methods : Head(requests[e]) = [seq |-> s, method |-> m]
    <3>1. Head(requests[e]) \in Inbound
      BY <2>1
    <3> QED
      BY <3>1 DEF Inbound
  <2>3. InQueue([seq |-> s, method |-> m], requests[e])
    BY <2>1, <2>2, QueueTail
  <2>4. execution[e][s] = "none" /\ call[Peer(e)][s] # "idle"
    BY <1>1, <2>3 DEF RequestsAreFresh, Untouched, HeldFor
  <2>5. /\ execution'[e][s] = "called"
        /\ \A f \in Ends, t \in Seqs : f # e \/ t # s => execution'[f][t] = execution[f][t]
    BY <2>1, <2>2 DEF SetExecution
  <2>6. CalleeView(execution[e][s]) = "idle" /\ CalleeView(execution'[e][s]) = "working"
    BY <2>4, <2>5 DEF CalleeView
  <2>7. Calls!CalleeMoves(Peer(e), s, "idle", "working")
    <3>1. Calls!CalleeMoves(Peer(e), s, CalleeView(execution[e][s]), CalleeView(execution'[e][s]))
      BY <1>1, <1>2, <2>1, <2>5, CalleeMove
    <3> QED
      BY <2>6, <3>1
  <2>8. Callers[Peer(e)][s] # "idle"
    <3>1. Callers[Peer(e)][s] = CallerView(call[Peer(e)][s]) /\ call[Peer(e)][s] \in CallStates
      BY <1>1, Views, PeerProps DEF ViewsOK, TypeOK, ClientTypeOK
    <3> QED
      BY <2>4, <3>1, CallerViewOf
  <2>9. Calls!StartWork(Peer(e), s)
    BY <2>7, <2>8 DEF Calls!StartWork, Callers
  <2> QED
    BY <2>9, PeerProps DEF Calls!RpcNext
<1>4. CASE TakeAbort(e) \/ ForwardItem(e) \/ ForwardEnd(e)
  <2>1. UNCHANGED <<execution, produced>>
    BY <1>4 DEF TakeAbort, ForwardItem, ForwardEnd
  <2> QED
    BY <1>1, <1>2, <2>1, NoMove
<1> QED
  BY <1>3, <1>4 DEF LoopStep

(* An execution makes an item, answers or is cancelled.                    *)
LEMMA ExecutionRpc ==
  ASSUME SInv, TypeOK', NEW e \in Ends, NEW s \in Seqs, ExecutionStep(e, s), UNCHANGED clientVars
  PROVE  Calls!RpcNext \/ UNCHANGED Calls!rpcVars
<1>1. /\ TypeOK /\ AbortsAreSent
      /\ execution \in [Ends -> [Seqs -> ExecutionStates]]
      /\ call \in [Ends -> [Seqs -> CallStates]]
  BY DEF SInv, IInv, TypeOK, ServiceTypeOK, ClientTypeOK
<1>2. UNCHANGED <<call, received>> /\ Peer(e) \in Ends
  BY PeerProps DEF clientVars
<1>3. ASSUME NEW to, SetExecution(e, s, to), produced' = produced,
             execution[e][s] \in {"called", "forwarding"}
      PROVE  Calls!CalleeMoves(Peer(e), s, "working", CalleeView(to))
  <2>1. /\ execution'[e][s] = to
        /\ \A f \in Ends, t \in Seqs : f # e \/ t # s => execution'[f][t] = execution[f][t]
    BY <1>1, <1>3 DEF SetExecution
  <2>2. CalleeView(execution[e][s]) = "working"
    BY <1>3 DEF CalleeView
  <2>3. Calls!CalleeMoves(Peer(e), s, CalleeView(execution[e][s]), CalleeView(execution'[e][s]))
    BY <1>1, <1>2, <1>3, <2>1, CalleeMove
  <2> QED
    BY <2>1, <2>2, <2>3
<1>4. CASE FinishNotify(e, s) \/ FinishValue(e, s) \/ FinishStream(e, s)
  <2>1. /\ SetExecution(e, s, "finished") /\ produced' = produced
        /\ execution[e][s] \in {"called", "forwarding"}
    BY <1>4 DEF FinishNotify, FinishValue, FinishStream, Complete, EndStream
  <2>2. Calls!CalleeMoves(Peer(e), s, "working", CalleeView("finished"))
    BY <1>3, <2>1
  <2>3. Calls!Answer(Peer(e), s)
    BY <2>2 DEF Calls!Answer, CalleeView
  <2> QED
    BY <1>2, <2>3 DEF Calls!RpcNext
<1>5. CASE AbortValue(e, s) \/ AbortStream(e, s)
  <2>1. /\ SetExecution(e, s, "aborted") /\ produced' = produced /\ s \in signalled[e]
        /\ execution[e][s] \in {"called", "forwarding"}
    BY <1>5 DEF AbortValue, AbortStream, Complete, EndStream
  <2>2. Calls!CalleeMoves(Peer(e), s, "working", CalleeView("aborted"))
    BY <1>3, <2>1
  <2>3. CalleeView("aborted") = "cancelled"
    BY DEF CalleeView
  <2>4. Callers[Peer(e)][s] \in {"closed", "gone"}
    <3>1. call[Peer(e)][s] \in {"dropped", "closed", "drained"}
      BY <1>1, <2>1 DEF AbortsAreSent, GivenUp
    <3>2. Callers[Peer(e)][s] = CallerView(call[Peer(e)][s])
      BY <1>1, <1>2, Views DEF ViewsOK
    <3> QED
      BY <3>1, <3>2 DEF CallerView
  <2>5. Calls!Cancel(Peer(e), s)
    BY <2>2, <2>3, <2>4 DEF Calls!Cancel, Callers
  <2> QED
    BY <1>2, <2>5 DEF Calls!RpcNext
<1>6. CASE ProduceItem(e, s)
  <2>1. Calls!MakeItem(Peer(e), s)
    BY <1>1, <1>6, ItemMade
  <2> QED
    BY <1>2, <2>1 DEF Calls!RpcNext
<1>7. CASE StartStream(e, s)
  <2>1. /\ SetExecution(e, s, "forwarding") /\ produced' = produced
        /\ execution[e][s] = "called"
    BY <1>7 DEF StartStream
  <2>2. /\ execution'[e][s] = "forwarding"
        /\ \A f \in Ends, t \in Seqs : f # e \/ t # s => execution'[f][t] = execution[f][t]
    BY <1>1, <2>1 DEF SetExecution
  <2>3. CalleeView("called") = CalleeView("forwarding")
    BY DEF CalleeView
  <2>4. \A f \in Ends, t \in Seqs : CalleeView(execution'[f][t]) = CalleeView(execution[f][t])
    BY <2>1, <2>2, <2>3
  <2> QED
    BY <1>1, <1>2, <2>1, <2>4, NoMove
<1> QED
  BY <1>4, <1>5, <1>6, <1>7 DEF ExecutionStep

-----------------------------------------------------------------------------
(* The connection starts as Rpc does.                                      *)
LEMMA InitRpc == Init => Calls!RpcInit
<1> SUFFICES ASSUME Init PROVE Calls!RpcInit
  OBVIOUS
<1>1. \A e \in Ends, s \in Seqs :
        /\ call[e][s] = "idle" /\ received[e][s] = <<>>
        /\ execution[Peer(e)][s] = "none" /\ produced[Peer(e)] = [t \in Seqs |-> 0]
  BY PeerProps DEF Init, ClientInit, ServiceInit
<1>2. CallerView("idle") = "idle" /\ CalleeView("none") = "idle"
  BY DEF CallerView, CalleeView
<1>3. \A e \in Ends : produced[Peer(e)] = [t \in Seqs |-> 0]
  BY PeerProps DEF Init, ServiceInit
<1>4. /\ Callers = [e \in Ends |-> [s \in Seqs |-> "idle"]]
      /\ Callees = [e \in Ends |-> [s \in Seqs |-> "idle"]]
  BY <1>1, <1>2 DEF Callers, Callees
<1>5. /\ Made = [e \in Ends |-> [s \in Seqs |-> 0]]
      /\ Got = [e \in Ends |-> [s \in Seqs |-> 0]]
  BY <1>1, <1>3 DEF Made, Got
<1> QED
  BY <1>4, <1>5 DEF Calls!RpcInit, Callers, Callees, Made, Got

(* Every step of the connection is one of Rpc, or none.                    *)
LEMMA StepRpc == SInv /\ [Next]_vars => [Calls!RpcNext]_(Calls!rpcVars)
<1> SUFFICES ASSUME SInv, [Next]_vars PROVE Calls!RpcNext \/ UNCHANGED Calls!rpcVars
  OBVIOUS
<1>1. TypeOK /\ TypeOK'
  BY StepType DEF SInv, IInv
<1>2. CASE UNCHANGED vars
  BY <1>1, <1>2, NoMove DEF vars
<1>3. CASE \E e \in Ends : NewCall(e) /\ UNCHANGED serviceVars
  BY <1>1, <1>3, NewCallRpc
<1>4. CASE \E e \in Ends, s \in Seqs : CallerStep(e, s) /\ UNCHANGED serviceVars
  BY <1>1, <1>4, CallerRpc
<1>5. CASE \E e \in Ends : Dispatch(e)
  BY <1>1, <1>5, DispatchRpc
<1>6. CASE \E e \in Ends : ServiceStep(e) /\ UNCHANGED clientVars
  BY <1>1, <1>6, LoopRpc, ExecutionRpc DEF ServiceStep
<1> QED
  BY <1>2, <1>3, <1>4, <1>5, <1>6 DEF Next, InterfaceStep, Settled

(* The queues, the maps and the messages of both ends implement remote     *)
(* calls: each is run at most once and only after it was made, returns     *)
(* only after it was answered, ends only when everything its stream made   *)
(* has been had, and is cancelled only when its caller gave it up.         *)
THEOREM ConnectionIsRpc == Spec => ImplementsRpc
BY InitRpc, StepRpc, StreamInvariant, PTL DEF Spec, ImplementsRpc, Calls!RpcSpec
=============================================================================
