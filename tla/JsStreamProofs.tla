--------------------------- MODULE JsStreamProofs ---------------------------
(***************************************************************************)
(* A connection with an endpoint keeps JsSInv: whatever the kinds of its   *)
(* ends, no item of a stream is lost, repeated or reordered on its way to  *)
(* receiver or callback, and nobody is told of the end of a stream before  *)
(* having had everything it made; for every number of calls and items,     *)
(* every set of methods and every set of faults.                           *)
(*                                                                         *)
(* A step concerns one call, on its caller's side or on its server's, and  *)
(* leaves the others as they were (OnlyOne).                               *)
(*                                                                         *)
(* On top of JsSInv, the connection implements Rpc: what a step changes of *)
(* what is seen of its call is one of CallerSteps or of CalleeSteps.       *)
(***************************************************************************)
EXTENDS JsProofs

-----------------------------------------------------------------------------
(* The items of one stream, between its server and its caller: what is of  *)
(* no concern to it,                                                       *)
LEMMA WholeKept ==
  ASSUME NEW had, NEW q, NEW r, NEW o, NEW p, NEW s, NEW n \in Nat,
         Unbroken(had, q, o, s, n), KeepsChannel(q, r, s), KeepsOutbox(o, p, s)
  PROVE  Unbroken(had, r, p, s, n)
BY DEF Unbroken, KeepsChannel, KeepsOutbox

(* an item that its caller takes,                                          *)
LEMMA WholeTaken ==
  ASSUME NEW had, NEW q \in Seq(Message), NEW o, NEW s, NEW n \in Nat,
         Unbroken(had, q, o, s, n), q # <<>>, IsItem(Head(q), s)
  PROVE  /\ Unbroken(Append(had, Head(q).item), Tail(q), o, s, n)
         /\ \E a \in 0 .. n : Append(had, Head(q).item) = FirstItems(a)
<1>1. PICK a \in 0 .. n, b \in 0 .. n :
        /\ a <= b /\ had = FirstItems(a) /\ Carries(q, s, a, b) /\ Carries(o, s, b, n)
  BY DEF Unbroken
<1>2. a \in Nat /\ b \in Nat /\ b <= n
  OBVIOUS
<1>3. a < b /\ Head(q).item = a + 1 /\ Carries(Tail(q), s, a + 1, b)
  BY <1>1, <1>2, CarriesTail
<1>4. Append(had, Head(q).item) = FirstItems(a + 1)
  BY <1>1, <1>2, <1>3, FirstItemsFacts
<1>5. a + 1 \in 0 .. n /\ a + 1 <= b
  BY <1>2, <1>3
<1> QED
  BY <1>1, <1>3, <1>4, <1>5 DEF Unbroken

(* an item that goes from the outbox to the channel,                       *)
LEMMA WholeForwarded ==
  ASSUME NEW had, NEW q \in Seq(Message), NEW o \in Seq(StreamMessage), NEW s, NEW n \in Nat,
         Unbroken(had, q, o, s, n), o # <<>>, IsItem(Head(o), s),
         NEW y \in Message, y = ItemMsg(s, Head(o).item)
  PROVE  Unbroken(had, Append(q, y), Tail(o), s, n)
<1>1. PICK a \in 0 .. n, b \in 0 .. n :
        /\ a <= b /\ had = FirstItems(a) /\ Carries(q, s, a, b) /\ Carries(o, s, b, n)
  BY DEF Unbroken
<1>2. a \in Nat /\ b \in Nat /\ b <= n
  OBVIOUS
<1>3. b < n /\ Head(o).item = b + 1 /\ Carries(Tail(o), s, b + 1, n)
  BY <1>1, <1>2, CarriesTail
<1>4. IsItem(y, s) /\ y.item = b + 1
  <2>1. Head(o).item # None
    BY DEF IsItem
  <2> QED
    BY <1>3, <2>1, ItemShapes, MessageFacts
<1>5. Carries(Append(q, y), s, a, b + 1)
  BY <1>1, <1>2, <1>4, CarriesAppend
<1>6. b + 1 \in 0 .. n /\ a <= b + 1
  BY <1>1, <1>2, <1>3
<1> QED
  BY <1>1, <1>3, <1>5, <1>6 DEF Unbroken

(* an item that is made, and goes to the outbox or to the channel,         *)
LEMMA WholeMade ==
  ASSUME NEW had, NEW q \in Seq(Message), NEW o \in Seq(StreamMessage), NEW s, NEW n \in Nat,
         Unbroken(had, q, o, s, n)
  PROVE  /\ \A y \in StreamMessage : IsItem(y, s) /\ y.item = n + 1 =>
              Unbroken(had, q, Append(o, y), s, n + 1)
         /\ \A y \in Message : IsItem(y, s) /\ y.item = n + 1 /\ ~ HasItem(o, s) =>
              Unbroken(had, Append(q, y), o, s, n + 1)
<1>1. PICK a \in 0 .. n, b \in 0 .. n :
        /\ a <= b /\ had = FirstItems(a) /\ Carries(q, s, a, b) /\ Carries(o, s, b, n)
  BY DEF Unbroken
<1>2. /\ a \in Nat /\ b \in Nat /\ b <= n /\ n + 1 \in 0 .. n + 1 /\ b <= n + 1
      /\ a \in 0 .. n + 1 /\ b \in 0 .. n + 1
  OBVIOUS
<1>3. ASSUME NEW y \in StreamMessage, IsItem(y, s), y.item = n + 1
      PROVE  Unbroken(had, q, Append(o, y), s, n + 1)
  <2>1. Carries(Append(o, y), s, b, n + 1)
    BY <1>1, <1>2, <1>3, CarriesAppend
  <2> QED
    BY <1>1, <1>2, <2>1 DEF Unbroken
<1>4. ASSUME NEW y \in Message, IsItem(y, s), y.item = n + 1, ~ HasItem(o, s)
      PROVE  Unbroken(had, Append(q, y), o, s, n + 1)
  <2>1. b = n
    BY <1>1, <1>2, <1>4, CarriesNone
  <2>2. Carries(Append(q, y), s, a, n + 1) /\ Carries(o, s, n + 1, n + 1)
    BY <1>1, <1>2, <1>4, <2>1, CarriesAppend, CarriesNone
  <2>3. a <= n + 1
    BY <1>2
  <2> QED
    BY <1>1, <1>2, <2>2, <2>3 DEF Unbroken
<1> QED
  BY <1>3, <1>4

(* and its end, which finds nothing on its way.                            *)
LEMMA WholeEnded ==
  ASSUME NEW had, NEW q, NEW o, NEW s, NEW n \in Nat,
         Unbroken(had, q, o, s, n), ~ HasItem(q, s), ~ HasItem(o, s)
  PROVE  had = FirstItems(n)
<1>1. PICK a \in 0 .. n, b \in 0 .. n :
        /\ a <= b /\ had = FirstItems(a) /\ Carries(q, s, a, b) /\ Carries(o, s, b, n)
  BY DEF Unbroken
<1>2. a \in Nat /\ b \in Nat /\ b <= n
  OBVIOUS
<1>3. a = b /\ b = n
  BY <1>1, <1>2, CarriesNone
<1> QED
  BY <1>1, <1>3

-----------------------------------------------------------------------------
(* The types of what a stream is made of.                                  *)
LEMMA StreamTypes ==
  ASSUME JInv, NEW e \in Ends, NEW s \in Seqs
  PROVE  /\ Peer(e) \in Ends /\ Peer(e) # e /\ Peer(Peer(e)) = e
         /\ \A d \in Ends : d = e \/ d = Peer(e)
         /\ channel[e] \in Seq(Message) /\ outbox[e] \in Seq(StreamMessage)
         /\ Made(e, s) \in Nat /\ Made(e, s) \in 0 .. MaxItems
         /\ received[e][s] \in Seq(Items) /\ buffer[e][s] \in Seq(Items)
         /\ delivered[e][s] \in Seq(Items) /\ chain[e][s] \in Seq(Items)
         /\ Had(e, s) \in Seq(Items)
<1>1. /\ Peer(e) \in Ends /\ Peer(e) # e /\ Peer(Peer(e)) = e
      /\ \A d \in Ends : d = e \/ d = Peer(e)
  BY PeerProps, EndsAssumption
<1>2. channel[e] \in Seq(Message) /\ outbox[e] \in Seq(StreamMessage)
  BY DEF JInv, TypeOK, ServiceTypeOK
<1>3. Made(e, s) \in 0 .. MaxItems
  BY <1>1 DEF Made, JInv, TypeOK, ServiceTypeOK, JsTypeOK
<1>4. /\ received[e][s] \in Seq(Items) /\ buffer[e][s] \in Seq(Items)
      /\ delivered[e][s] \in Seq(Items) /\ chain[e][s] \in Seq(Items)
  BY DEF JInv, TypeOK, ClientTypeOK, JsTypeOK
<1>5. Had(e, s) \in Seq(Items)
  BY <1>4, HadFacts DEF Had
<1> QED
  BY <1>1, <1>2, <1>3, <1>4, <1>5, BoundsAssumption

(* What a step leaves alone of a stream: the queues as far as it goes,     *)
(* what its server has of it, and what its caller has.                     *)
QueuesKept(e, s) ==
  /\ KeepsChannel(channel[e], channel'[e], s)
  /\ KeepsOutbox(outbox[Peer(e)], outbox'[Peer(e)], s)

SameServing(f, s) ==
  /\ execution'[f][s] = execution[f][s] /\ handling'[f][s] = handling[f][s]
  /\ produced'[f][s] = produced[f][s] /\ yielded'[f][s] = yielded[f][s]

SameHolding(e, s) ==
  /\ call'[e][s] = call[e][s] /\ promise'[e][s] = promise[e][s]
  /\ s \in streamCallbacks'[e] <=> s \in streamCallbacks[e]
  /\ s \in broken'[e] <=> s \in broken[e]
  /\ received'[e][s] = received[e][s] /\ buffer'[e][s] = buffer[e][s]
  /\ delivered'[e][s] = delivered[e][s] /\ chain'[e][s] = chain[e][s]

SameStream(e, s) == QueuesKept(e, s) /\ SameServing(Peer(e), s) /\ SameHolding(e, s)

LEMMA SameHad ==
  ASSUME NEW e, NEW s, SameHolding(e, s)
  PROVE  /\ Had(e, s)' = Had(e, s) /\ (HasWaiting(e, s)' <=> HasWaiting(e, s))
         /\ WasSent(e, s)' <=> WasSent(e, s)
         /\ Routed(e, s)' <=> Routed(e, s)
         /\ HeardEnd(e, s)' <=> HeardEnd(e, s)
         /\ HasEnded(e, s)' <=> HasEnded(e, s)
BY DEF SameHolding, Had, HasWaiting, WasSent, Routed, HeardEnd, HasEnded

LEMMA SameMade ==
  ASSUME NEW e, NEW s, SameServing(Peer(e), s)
  PROVE  /\ Made(e, s)' = Made(e, s)
         /\ Over(Peer(e), s)' <=> Over(Peer(e), s)
         /\ Untouched(Peer(e), s)' <=> Untouched(Peer(e), s)
BY DEF SameServing, Made, Over, Untouched

(* The caller of a stream does something: what the server has, and what is *)
(* on its way, stays as it was.                                            *)
LEMMA HolderMoves ==
  ASSUME JInv, NEW e \in Ends, NEW s \in Seqs, StreamOK(e, s),
         QueuesKept(e, s), SameServing(Peer(e), s),
         WasSent(e, s) => WasSent(e, s)',
         Routed(e, s)' => Routed(e, s) /\ Had(e, s)' = Had(e, s),
         HadWasMade(e, s)', EndIsComplete(e, s)', ResponseIsComplete(e, s)'
  PROVE  StreamOK(e, s)'
<1>1. Made(e, s) \in Nat
  BY StreamTypes
<1>2. /\ Made(e, s)' = Made(e, s)
      /\ Over(Peer(e), s)' <=> Over(Peer(e), s)
      /\ Untouched(Peer(e), s)' <=> Untouched(Peer(e), s)
  BY SameMade
<1>3. NothingMadeEarly(e, s)' /\ ServedWasSent(e, s)'
  BY <1>2 DEF StreamOK, NothingMadeEarly, ServedWasSent, QueuesKept, KeepsChannel, KeepsOutbox
<1>4. EndComesLast(e, s)'
  BY <1>2 DEF StreamOK, EndComesLast, EndPosted, QueuesKept, KeepsChannel, KeepsOutbox
<1>5. RestIsComing(e, s)'
  BY <1>1, <1>2, WholeKept DEF StreamOK, RestIsComing, Whole, QueuesKept
<1> QED
  BY <1>3, <1>4, <1>5 DEF StreamOK

(* A stream that a step leaves alone,                                      *)
LEMMA StreamFrame ==
  ASSUME JInv, NEW e \in Ends, NEW s \in Seqs, StreamOK(e, s), SameStream(e, s)
  PROVE  StreamOK(e, s)'
<1>1. /\ Had(e, s)' = Had(e, s) /\ (HasWaiting(e, s)' <=> HasWaiting(e, s))
      /\ WasSent(e, s)' <=> WasSent(e, s)
      /\ Routed(e, s)' <=> Routed(e, s)
      /\ HeardEnd(e, s)' <=> HeardEnd(e, s)
      /\ HasEnded(e, s)' <=> HasEnded(e, s)
  BY SameHad DEF SameStream
<1>2. Made(e, s)' = Made(e, s) /\ (Over(Peer(e), s)' <=> Over(Peer(e), s))
  BY SameMade DEF SameStream
<1>3. HadWasMade(e, s)'
  BY <1>1, <1>2 DEF StreamOK, HadWasMade, SameStream, SameHolding
<1>4. EndIsComplete(e, s)'
  BY <1>1, <1>2 DEF StreamOK, EndIsComplete
<1>5. ResponseIsComplete(e, s)'
  BY DEF StreamOK, ResponseIsComplete, SameStream, SameHolding, SameServing
<1> QED
  BY <1>1, <1>3, <1>4, <1>5, HolderMoves DEF SameStream

(* and a step that leaves alone all streams but one.                       *)
LEMMA OnlyOne ==
  ASSUME JsSInv, NEW e \in Ends, NEW s \in Seqs, StreamOK(e, s)',
         \A d \in Ends, t \in Seqs : d # e \/ t # s => SameStream(d, t)
  PROVE  \A d \in Ends, t \in Seqs : StreamOK(d, t)'
BY StreamFrame DEF JsSInv

(* The server of a stream does something, and what the caller has stays as *)
(* it was.                                                                 *)
LEMMA ServerMoves ==
  ASSUME JInv, NEW e \in Ends, NEW s \in Seqs, StreamOK(e, s), SameHolding(e, s),
         WasSent(e, s), ~ Untouched(Peer(e), s)', EndComesLast(e, s)', RestIsComing(e, s)',
         Made(e, s)' \in {Made(e, s), Made(e, s) + 1},
         Over(Peer(e), s) => Over(Peer(e), s)' /\ Made(e, s)' = Made(e, s),
         execution[Peer(e)][s] = "finished" => execution'[Peer(e)][s] = "finished",
         handling[Peer(e)][s] = "over" => handling'[Peer(e)][s] = "over"
  PROVE  StreamOK(e, s)'
<1>1. /\ Had(e, s)' = Had(e, s) /\ (HasWaiting(e, s)' <=> HasWaiting(e, s))
      /\ WasSent(e, s)' <=> WasSent(e, s)
      /\ HeardEnd(e, s)' <=> HeardEnd(e, s)
      /\ HasEnded(e, s)' <=> HasEnded(e, s)
  BY SameHad
<1>2. HadWasMade(e, s)'
  <2>1. PICK a \in 0 .. Made(e, s) : Had(e, s) = FirstItems(a)
    BY DEF StreamOK, HadWasMade
  <2>2. a \in 0 .. Made(e, s)'
    <3>1. Made(e, s) \in Nat
      BY StreamTypes
    <3> QED
      BY <3>1
  <2> QED
    BY <1>1, <2>1, <2>2 DEF StreamOK, HadWasMade, SameHolding
<1>3. NothingMadeEarly(e, s)' /\ ServedWasSent(e, s)'
  BY <1>1 DEF NothingMadeEarly, ServedWasSent
<1>4. EndIsComplete(e, s)' /\ ResponseIsComplete(e, s)'
  BY <1>1 DEF StreamOK, EndIsComplete, ResponseIsComplete, SameHolding
<1> QED
  BY <1>2, <1>3, <1>4 DEF StreamOK

(* It makes nothing, and what is on its way stays.                         *)
LEMMA ServerQuiet ==
  ASSUME JInv, NEW e \in Ends, NEW s \in Seqs, StreamOK(e, s), SameHolding(e, s),
         QueuesKept(e, s), WasSent(e, s), ~ Untouched(Peer(e), s)',
         produced'[Peer(e)][s] = produced[Peer(e)][s], yielded'[Peer(e)][s] = yielded[Peer(e)][s],
         Over(Peer(e), s) => Over(Peer(e), s)',
         execution[Peer(e)][s] = "finished" => execution'[Peer(e)][s] = "finished",
         handling[Peer(e)][s] = "over" => handling'[Peer(e)][s] = "over"
  PROVE  StreamOK(e, s)'
<1>1. Made(e, s)' = Made(e, s) /\ Made(e, s) \in Nat
  BY StreamTypes DEF Made
<1>2. Had(e, s)' = Had(e, s) /\ (Routed(e, s)' <=> Routed(e, s))
  BY SameHad
<1>3. EndComesLast(e, s)'
  BY DEF StreamOK, EndComesLast, EndPosted, QueuesKept, KeepsChannel, KeepsOutbox
<1>4. RestIsComing(e, s)'
  BY <1>1, <1>2, WholeKept DEF StreamOK, RestIsComing, Whole, QueuesKept
<1> QED
  BY <1>1, <1>3, <1>4, ServerMoves

-----------------------------------------------------------------------------
(* A message that is neither an item nor the end of stream t leaves it     *)
(* alone, posted or taken.                                                 *)
LEMMA PostKept ==
  ASSUME JInv, NEW g \in Ends, NEW y \in Message, Post(g, y), NEW d \in Ends, NEW t,
         d = Peer(g) => ~ IsItem(y, t) /\ y # EndMsg(t)
  PROVE  KeepsChannel(channel[d], channel'[d], t)
<1>1. /\ channel[d] \in Seq(Message)
      /\ d = Peer(g) => channel'[d] = Append(channel[d], y)
      /\ d # Peer(g) => channel'[d] = channel[d]
  BY PostEffect DEF JInv, TypeOK
<1> QED
  BY <1>1, ChannelAppend, KeepsSame

LEMMA TakeKept ==
  ASSUME JInv, NEW g \in Ends, TakesHead(g), NEW d \in Ends, NEW t,
         d = g => ~ IsItem(Head(channel[g]), t)
  PROVE  KeepsChannel(channel[d], channel'[d], t)
<1>1. channel[g] \in Seq(Message) /\ (d = g \/ d = Peer(g))
  BY PeerProps, EndsAssumption DEF JInv, TypeOK
<1> QED
  BY <1>1, ChannelTail, KeepsSame DEF TakesHead

(* Requests, aborts and responses concern no stream.                       *)
LEMMA PlainMessages ==
  ASSUME NEW y \in Message
  PROVE  /\ y.kind \in {"Request", "Abort", "Response"} =>
              \A t : ~ IsItem(y, t) /\ y # EndMsg(t)
         /\ y.kind = "StreamEnd" => \A t : ~ IsItem(y, t)
         /\ \A t : IsItem(y, t) => y.seq = t /\ y.kind = "StreamItem"
         /\ y.kind = "StreamItem" => \A t : IsItem(y, t) <=> y.seq = t
<1>1. \A i \in Items : i # None
  BY BoundsAssumption DEF Items, None
<1>2. y.kind \in {"Request", "Abort", "Response", "StreamItem", "StreamEnd"}
  BY DEF Message
<1> QED
  BY <1>1, <1>2, MessageShapes, MessageFacts, ItemShapes

LEMMA MessageTaken ==
  ASSUME JInv, NEW g \in Ends, NEW kind, TakeMessage(g, kind)
  PROVE  TakesHead(g) /\ Head(channel[g]) \in Message /\ Head(channel[g]).kind = kind
BY TakeEffect, PeerProps DEF JInv, TypeOK, TakesHead

-----------------------------------------------------------------------------
(* What the notions of a caller are in JavaScript.                         *)
LEMMA JsHolds ==
  ASSUME NEW e, NEW s, e \in JsEnds, call[e][s] = "idle", s \notin streamCallbacks[e]
  PROVE  /\ Had(e, s) = delivered[e][s] \o chain[e][s]
         /\ HasWaiting(e, s) <=> chain[e][s] # <<>>
         /\ WasSent(e, s) <=> promise[e][s] \notin {"idle", "threw", "refused"}
         /\ Routed(e, s) <=> promise[e][s] = "open" /\ s \notin broken[e]
         /\ HasEnded(e, s) <=> promise[e][s] = "done"
         /\ HeardEnd(e, s) <=>
              (promise[e][s] = "ending" /\ s \notin broken[e]) \/ promise[e][s] = "done"
BY DEF Had, HasWaiting, WasSent, Routed, HasEnded, HeardEnd

(* What a caller has stays a prefix when it loses what waits.              *)
LEMMA PrefixKept ==
  ASSUME NEW r \in Seq(Items), NEW b \in Seq(Items), NEW n \in Nat, NEW a \in 0 .. n,
         r \o b = FirstItems(a)
  PROVE  \E c \in 0 .. n : r = FirstItems(c)
<1>1. r = FirstItems(Len(r)) /\ Len(r) + Len(b) = a
  <2>1. a \in Nat
    OBVIOUS
  <2> QED
    BY <2>1, HadFacts
<1>2. Len(r) \in Nat /\ Len(b) \in Nat
  OBVIOUS
<1>3. \A i, j \in Nat : i + j = a => i \in 0 .. n
  OBVIOUS
<1> QED
  BY <1>1, <1>2, <1>3, Zenon

-----------------------------------------------------------------------------
(* A Rust caller.  The streams it does not touch stay as they are.         *)
LEMMA RustCallerRows ==
  ASSUME JsSInv, NEW e \in Ends, NEW s \in Seqs, CallerStep(e, s), UNCHANGED <<serviceVars, jsVars>>
  PROVE  /\ \A d \in Ends, t \in Seqs : QueuesKept(d, t) /\ SameServing(Peer(d), t)
         /\ \A d \in Ends, t \in Seqs : d # e \/ t # s => SameHolding(d, t)
<1>1. channel' = channel \/ Post(e, AbortMsg(s))
  BY DEF CallerStep, PollResponse, DropRequest, PollItem, PollNone, Close, DropStream,
         FireStreamAbort
<1>2. ASSUME NEW d \in Ends, NEW t \in Seqs
      PROVE  QueuesKept(d, t) /\ SameServing(Peer(d), t)
  <2>1. AbortMsg(s) \in Message /\ ~ IsItem(AbortMsg(s), t) /\ AbortMsg(s) # EndMsg(t)
    BY MessageFacts, ItemShapes
  <2>2. KeepsChannel(channel[d], channel'[d], t)
    BY <1>1, <2>1, PostKept, KeepsSame DEF JsSInv
  <2>3. outbox' = outbox
    BY DEF serviceVars
  <2> QED
    BY <2>2, <2>3, KeepsSame DEF QueuesKept, SameServing, serviceVars, jsVars, jsHandlerVars
<1>3. ASSUME NEW d \in Ends, NEW t \in Seqs, d # e \/ t # s
      PROVE  SameHolding(d, t)
  <2>1. /\ call'[d][t] = call[d][t] /\ received'[d][t] = received[d][t]
        /\ buffer'[d][t] = buffer[d][t]
        /\ t \in streamCallbacks'[d] <=> t \in streamCallbacks[d]
    BY <1>3
    DEF CallerStep, PollResponse, DropRequest, PollItem, PollNone, Close, DropStream,
        FireStreamAbort, SetCall, JsSInv, JInv, TypeOK, ClientTypeOK
  <2> QED
    BY <2>1 DEF SameHolding, jsVars, jsCallerVars
<1> QED
  BY <1>2, <1>3

(* Whatever its holder does, it has had a prefix, and it sees the end of a *)
(* stream only after every item.                                           *)
LEMMA RustCallerStreams ==
  ASSUME JsSInv, NEW e \in Ends, NEW s \in Seqs, e \notin JsEnds, CallerStep(e, s),
         UNCHANGED <<serviceVars, jsVars>>
  PROVE  \A d \in Ends, t \in Seqs : StreamOK(d, t)'
<1>1. /\ JInv /\ StreamOK(e, s) /\ MapsMatch(e, s) /\ promise[e][s] = "idle"
      /\ promise' = promise /\ Peer(e) \in Ends
  BY PeerProps DEF JsSInv, JInv, CallOK, OwnKind, NoJsState, jsVars, jsCallerVars
<1>2. /\ \A d \in Ends, t \in Seqs : QueuesKept(d, t) /\ SameServing(Peer(d), t)
      /\ \A d \in Ends, t \in Seqs : d # e \/ t # s => SameHolding(d, t)
  BY RustCallerRows
<1>3. SUFFICES StreamOK(e, s)'
  BY <1>2, OnlyOne DEF SameStream
<1>4. /\ received[e][s] \in Seq(Items) /\ buffer[e][s] \in Seq(Items) /\ Made(e, s) \in Nat
      /\ Made(e, s)' = Made(e, s) /\ (Over(Peer(e), s)' <=> Over(Peer(e), s))
  BY <1>1, <1>2, StreamTypes, SameMade
<1>5. /\ Had(e, s) = received[e][s] \o buffer[e][s]
      /\ Had(e, s)' = received'[e][s] \o buffer'[e][s]
      /\ WasSent(e, s)' <=> call'[e][s] # "idle"
      /\ Routed(e, s) <=> s \in streamCallbacks[e]
      /\ Routed(e, s)' <=> s \in streamCallbacks'[e]
      /\ HasEnded(e, s)' <=> call'[e][s] = "ended"
      /\ HasWaiting(e, s)' <=> buffer'[e][s] # <<>>
      /\ HeardEnd(e, s) <=>
           (call[e][s] = "open" /\ s \notin streamCallbacks[e]) \/ call[e][s] = "ended"
      /\ HeardEnd(e, s)' <=>
           (call'[e][s] = "open" /\ s \notin streamCallbacks'[e]) \/ call'[e][s] = "ended"
  BY <1>1 DEF Had, HasWaiting, WasSent, Routed, HasEnded, HeardEnd
<1>6. PICK a \in 0 .. Made(e, s) : Had(e, s) = FirstItems(a)
  BY <1>1 DEF StreamOK, HadWasMade
<1>7. SUFFICES
        /\ s \in streamCallbacks'[e] => s \in streamCallbacks[e] /\ Had(e, s)' = Had(e, s)
        /\ \E b \in 0 .. Made(e, s) : Had(e, s)' = FirstItems(b)
        /\ call'[e][s] # "idle"
        /\ Had(e, s)' # <<>> => call'[e][s] \in {"open", "closed", "ended", "drained", "dropped"}
        /\ HeardEnd(e, s)' => HeardEnd(e, s) /\ Had(e, s)' = Had(e, s)
        /\ HasEnded(e, s)' => buffer'[e][s] = <<>>
        /\ call'[e][s] # "responded"
  <2>1. HadWasMade(e, s)'
    BY <1>4, <1>7 DEF HadWasMade
  <2>2. EndIsComplete(e, s)'
    BY <1>1, <1>4, <1>5, <1>7 DEF StreamOK, EndIsComplete
  <2>3. ResponseIsComplete(e, s)'
    BY <1>7 DEF ResponseIsComplete
  <2> QED
    BY <1>1, <1>2, <1>5, <1>7, <2>1, <2>2, <2>3, HolderMoves
<1>8. Had(e, s) # <<>> => call[e][s] \in {"open", "closed", "ended", "drained", "dropped"}
  BY <1>1 DEF StreamOK, HadWasMade
<1>9. ASSUME UNCHANGED <<buffer, received>>
      PROVE  Had(e, s)' = Had(e, s)
  BY <1>5, <1>9
<1> USE DEF SetCall, JInv, TypeOK, ClientTypeOK
<1>10. CASE PollResponse(e, s)
  <2>1. /\ UNCHANGED <<streamCallbacks, buffer, received>>
        /\ call[e][s] = "responded" /\ call'[e][s] = "done"
    BY <1>1, <1>10 DEF PollResponse
  <2> QED
    BY <1>5, <1>6, <1>8, <1>9, <2>1
<1>11. CASE DropRequest(e, s)
  <2>1. /\ UNCHANGED <<streamCallbacks, buffer, received>>
        /\ call'[e][s] = "dropped"
    BY <1>1, <1>11 DEF DropRequest
  <2> QED
    BY <1>5, <1>6, <1>9, <2>1
<1>12. CASE PollItem(e, s)
  <2>1. /\ UNCHANGED <<streamCallbacks, call>>
        /\ call[e][s] \in {"open", "closed"} /\ buffer[e][s] # <<>>
        /\ buffer'[e][s] = Tail(buffer[e][s])
        /\ received'[e][s] = Append(received[e][s], Head(buffer[e][s]))
    BY <1>1, <1>12 DEF PollItem
  <2>2. Append(received[e][s], Head(buffer[e][s])) \o Tail(buffer[e][s])
          = received[e][s] \o buffer[e][s]
    BY <1>4, <2>1, HadFacts
  <2> QED
    BY <1>5, <1>6, <2>1, <2>2
<1>13. CASE PollNone(e, s)
  <2>1. /\ UNCHANGED <<streamCallbacks, buffer, received>>
        /\ buffer[e][s] = <<>> /\ s \notin streamCallbacks[e]
        /\ \/ call[e][s] = "open" /\ call'[e][s] = "ended"
           \/ call[e][s] = "closed" /\ call'[e][s] = "drained"
    BY <1>1, <1>13 DEF PollNone
  <2> QED
    BY <1>5, <1>6, <1>9, <2>1
<1>14. CASE Close(e, s)
  <2>1. /\ UNCHANGED <<buffer, received>> /\ s \notin streamCallbacks'[e]
        /\ call'[e][s] = "closed"
    BY <1>1, <1>14 DEF Close, FireStreamAbort
  <2> QED
    BY <1>5, <1>6, <1>9, <2>1
<1>15. CASE DropStream(e, s)
  <2>1. /\ received' = received /\ buffer'[e][s] = <<>> /\ s \notin streamCallbacks'[e]
        /\ call'[e][s] = "dropped"
    BY <1>1, <1>15 DEF DropStream, FireStreamAbort, MapsMatch
  <2>2. Had(e, s)' = received[e][s]
    BY <1>4, <1>5, <2>1, HadFacts
  <2>3. \E c \in 0 .. Made(e, s) : received[e][s] = FirstItems(c)
    <3>1. received[e][s] \o buffer[e][s] = FirstItems(a)
      BY <1>5, <1>6
    <3> HIDE DEF JInv, TypeOK, ClientTypeOK
    <3> QED
      BY <1>4, <3>1, PrefixKept
  <2> QED
    BY <1>5, <2>1, <2>2, <2>3
<1> QED
  BY <1>10, <1>11, <1>12, <1>13, <1>14, <1>15 DEF CallerStep

-----------------------------------------------------------------------------
(* A new call finds nothing of an earlier one under its number.            *)
LEMMA NewStream ==
  ASSUME JsSInv, NEW e \in Ends, NEW s \in Seqs, Unmade(e, s),
         UNCHANGED <<serviceVars, jsHandlerVars, received, buffer, delivered, chain, broken>>,
         channel' = channel \/ \E m \in Methods : Post(e, RequestMsg(s, m)),
         call'[e][s] \in {"idle", "notified", "pending", "open"},
         call'[e][s] = "open" => s \in streamCallbacks'[e],
         promise'[e][s] \in {"idle", "notified", "pending", "open", "threw", "refused"},
         \A d \in Ends, t \in Seqs : d # e \/ t # s =>
           /\ call'[d][t] = call[d][t] /\ promise'[d][t] = promise[d][t]
           /\ t \in streamCallbacks'[d] <=> t \in streamCallbacks[d]
  PROVE  \A d \in Ends, t \in Seqs : StreamOK(d, t)'
<1>1. ASSUME NEW d \in Ends, NEW t \in Seqs
      PROVE  QueuesKept(d, t) /\ SameServing(Peer(d), t)
  <2>1. \A m \in Methods : /\ RequestMsg(s, m) \in Message
                           /\ ~ IsItem(RequestMsg(s, m), t) /\ RequestMsg(s, m) # EndMsg(t)
    BY MessageFacts, ItemShapes
  <2>2. KeepsChannel(channel[d], channel'[d], t)
    BY <2>1, PostKept, KeepsSame DEF JsSInv
  <2>3. outbox' = outbox
    BY DEF serviceVars
  <2> QED
    BY <2>2, <2>3, KeepsSame DEF QueuesKept, SameServing, serviceVars, jsHandlerVars
<1>2. ASSUME NEW d \in Ends, NEW t \in Seqs, d # e \/ t # s
      PROVE  SameHolding(d, t)
  BY <1>2 DEF SameHolding
<1>3. StreamOK(e, s) /\ Untouched(Peer(e), s) /\ Peer(e) \in Ends /\ ~ WasSent(e, s) /\ JInv
  BY UnmadeFacts, PeerProps DEF JsSInv, JInv, WasSent, Unmade
<1>4. /\ Made(e, s) = 0 /\ Had(e, s) = <<>>
      /\ ~ HasItem(outbox[Peer(e)], s) /\ ~ HasItem(channel[e], s)
  BY <1>3 DEF StreamOK, NothingMadeEarly, HadWasMade, Unmade
<1>5. /\ Made(e, s)' = 0 /\ Had(e, s)' = <<>> /\ Untouched(Peer(e), s)' /\ ~ Over(Peer(e), s)
      /\ ~ Over(Peer(e), s)' /\ outbox' = outbox
  BY <1>1, <1>3, <1>4, SameMade DEF Had, Untouched, Over, serviceVars
<1>6. channel'[e] = channel[e]
  <2>1. e # Peer(Peer(e)) \/ Peer(e) # e
    BY PeerProps
  <2> QED
    BY MessageFacts, PostEffect, PeerProps DEF JsSInv, JInv, TypeOK
<1>7. StreamOK(e, s)'
  <2>1. NothingMadeEarly(e, s)' /\ ServedWasSent(e, s)' /\ EndComesLast(e, s)'
    BY <1>3, <1>4, <1>5, <1>6
    DEF StreamOK, NothingMadeEarly, ServedWasSent, EndComesLast, EndPosted
  <2>2. HadWasMade(e, s)'
    BY <1>5, FirstItemsFacts DEF HadWasMade
  <2>3. RestIsComing(e, s)'
    <3>1. /\ Carries(channel'[e], s, 0, 0) /\ Carries(outbox'[Peer(e)], s, 0, 0)
          /\ FirstItems(0) = <<>>
      BY <1>4, <1>5, <1>6, CarriesNone, FirstItemsFacts
    <3> QED
      BY <1>5, <3>1 DEF RestIsComing, Whole, Unbroken
  <2>4. EndIsComplete(e, s)' /\ ResponseIsComplete(e, s)'
    BY DEF EndIsComplete, ResponseIsComplete, HeardEnd, HasEnded
  <2> QED
    BY <2>1, <2>2, <2>3, <2>4 DEF StreamOK
<1> QED
  BY <1>1, <1>2, <1>7, OnlyOne DEF SameStream

LEMMA RustNewStreams ==
  ASSUME JsSInv, NEW e \in Ends, e \notin JsEnds, NewCall(e), UNCHANGED <<serviceVars, jsVars>>
  PROVE  \A d \in Ends, t \in Seqs : StreamOK(d, t)'
<1>1. TypeOK /\ \A d \in Ends, t \in Seqs : CallOK(d, t)
  BY DEF JsSInv, JInv
<1>2. PICK m \in Methods : Notify(e, m) \/ Request(e, m) \/ Stream(e, m)
  BY DEF NewCall
<1>3. PICK s \in Seqs : s = sequence[e] /\ Post(e, RequestMsg(s, m))
  <2>1. Send(e, m)
    BY <1>2 DEF Notify, Request, Stream
  <2>2. sequence[e] \in Seqs
    BY <1>1, <2>1, BoundsAssumption DEF Send, TypeOK, ClientTypeOK, Seqs
  <2> QED
    BY <2>1, <2>2 DEF Send
<1>4. call[e][s] = "idle" /\ promise[e][s] = "idle"
  <2>1. ~ (s < sequence[e])
    BY <1>1, <1>3 DEF TypeOK, ClientTypeOK, Seqs
  <2>2. call[e][s] = "idle"
    BY <1>1, <2>1 DEF CallOK, Numbered
  <2> QED
    BY <2>2 DEF JsSInv, JInv, OwnKind, NoJsState
<1>5. /\ UNCHANGED <<buffer, received>>
      /\ call'[e][s] \in {"notified", "pending", "open"}
      /\ call'[e][s] = "open" => s \in streamCallbacks'[e]
      /\ \A f \in Ends, t \in Seqs : f # e \/ t # s =>
           call'[f][t] = call[f][t] /\ (t \in streamCallbacks'[f] <=> t \in streamCallbacks[f])
  <2> USE <1>1, <1>3 DEF SetCall, TypeOK, ClientTypeOK
  <2>1. CASE Notify(e, m)
    BY <2>1 DEF Notify
  <2>2. CASE Request(e, m)
    BY <2>2 DEF Request
  <2>3. CASE Stream(e, m)
    BY <2>3 DEF Stream
  <2> QED
    BY <1>2, <2>1, <2>2, <2>3
<1> QED
  BY <1>3, <1>4, <1>5, NewStream DEF Unmade, jsVars, jsCallerVars

-----------------------------------------------------------------------------
(* What comes back to a caller.  It takes an item of its stream, which is  *)
(* the next one if items are still taken;                                  *)
LEMMA HolderTakes ==
  ASSUME JInv, NEW e \in Ends, NEW s \in Seqs, StreamOK(e, s),
         TakesHead(e), IsItem(Head(channel[e]), s),
         outbox'[Peer(e)] = outbox[Peer(e)], SameServing(Peer(e), s),
         WasSent(e, s) => WasSent(e, s)',
         \/ /\ ~ Routed(e, s)' /\ Had(e, s)' = Had(e, s)
            /\ HeardEnd(e, s)' => HeardEnd(e, s)
            /\ HasEnded(e, s)' => HasEnded(e, s) /\ (HasWaiting(e, s)' => HasWaiting(e, s))
         \/ /\ Routed(e, s) /\ Had(e, s)' = Append(Had(e, s), Head(channel[e]).item)
            /\ ~ HeardEnd(e, s)' /\ ~ HasEnded(e, s)',
         Had(e, s)' # <<>> =>
           \/ call'[e][s] \in {"open", "closed", "ended", "drained", "dropped"}
           \/ promise'[e][s] \in {"open", "ending", "closing", "done", "closed", "failed"},
         ResponseIsComplete(e, s)'
  PROVE  StreamOK(e, s)'
<1>1. /\ Made(e, s) \in Nat /\ channel[e] \in Seq(Message) /\ channel[e] # <<>>
      /\ channel'[e] = Tail(channel[e])
  BY StreamTypes DEF TakesHead
<1>2. /\ Made(e, s)' = Made(e, s)
      /\ Over(Peer(e), s)' <=> Over(Peer(e), s)
      /\ Untouched(Peer(e), s)' <=> Untouched(Peer(e), s)
  BY SameMade
<1>3. /\ HasItem(channel'[e], s) => HasItem(channel[e], s)
      /\ EndMsgIsLast(channel[e], s) => EndMsgIsLast(channel'[e], s)
      /\ InQueue(EndMsg(s), channel'[e]) => InQueue(EndMsg(s), channel[e])
  BY <1>1, ChannelTail
<1>4. NothingMadeEarly(e, s)' /\ ServedWasSent(e, s)' /\ EndComesLast(e, s)'
  BY <1>2, <1>3 DEF StreamOK, NothingMadeEarly, ServedWasSent, EndComesLast, EndPosted
<1>5. CASE Had(e, s)' = Had(e, s) /\ ~ Routed(e, s)'
             /\ (HeardEnd(e, s)' => HeardEnd(e, s))
             /\ (HasEnded(e, s)' => HasEnded(e, s) /\ (HasWaiting(e, s)' => HasWaiting(e, s)))
  <2>1. HadWasMade(e, s)' /\ EndIsComplete(e, s)' /\ RestIsComing(e, s)'
    BY <1>2, <1>5 DEF StreamOK, HadWasMade, EndIsComplete, RestIsComing
  <2> QED
    BY <1>4, <2>1 DEF StreamOK
<1>6. CASE Routed(e, s) /\ Had(e, s)' = Append(Had(e, s), Head(channel[e]).item)
             /\ ~ HeardEnd(e, s)' /\ ~ HasEnded(e, s)'
  <2>1. Unbroken(Had(e, s), channel[e], outbox[Peer(e)], s, Made(e, s))
    BY <1>6 DEF StreamOK, RestIsComing, Whole
  <2>2. /\ Unbroken(Had(e, s)', channel'[e], outbox[Peer(e)], s, Made(e, s))
        /\ \E a \in 0 .. Made(e, s) : Had(e, s)' = FirstItems(a)
    BY <1>1, <1>6, <2>1, WholeTaken
  <2>3. HadWasMade(e, s)' /\ RestIsComing(e, s)' /\ EndIsComplete(e, s)'
    BY <1>2, <1>6, <2>2 DEF HadWasMade, RestIsComing, EndIsComplete, Whole
  <2> QED
    BY <1>4, <2>3 DEF StreamOK
<1> QED
  BY <1>5, <1>6

(* or it takes the end, and has had every item before it.                  *)
LEMMA EndTaken ==
  ASSUME JInv, NEW e \in Ends, NEW s \in Seqs, StreamOK(e, s),
         channel[e] # <<>>, Head(channel[e]) = EndMsg(s)
  PROVE  /\ WasSent(e, s)
         /\ Routed(e, s) => Had(e, s) = FirstItems(Made(e, s)) /\ Over(Peer(e), s)
<1>1. Made(e, s) \in Nat /\ channel[e] \in Seq(Message)
  BY StreamTypes
<1>2. EndPosted(e, s)
  BY <1>1, QueueTail DEF EndPosted
<1>3. Over(Peer(e), s) /\ ~ HasItem(outbox[Peer(e)], s) /\ EndMsgIsLast(channel[e], s)
  BY <1>2 DEF StreamOK, EndComesLast, HasEntry, HasItem, IsItem
<1>4. WasSent(e, s)
  BY <1>3 DEF StreamOK, ServedWasSent, Untouched, Over
<1>5. ~ HasItem(channel[e], s)
  BY <1>1, <1>3, ChannelTail
<1> QED
  BY <1>1, <1>3, <1>4, <1>5, WholeEnded DEF StreamOK, RestIsComing, Whole

(* A message concerns the stream whose number it carries and no other.     *)
LEMMA TakesOne ==
  ASSUME JInv, NEW e \in Ends, TakesHead(e), NEW y, y = Head(channel[e]),
         UNCHANGED <<outbox, execution, produced, handling, yielded>>,
         \A d \in Ends, t \in Seqs : d # e \/ t # y.seq => SameHolding(d, t)
  PROVE  /\ y \in Message /\ y.seq \in Seqs /\ Peer(e) \in Ends
         /\ \A d \in Ends, t \in Seqs : d # e \/ t # y.seq => SameStream(d, t)
         /\ \A f, t : SameServing(f, t)
         /\ y.kind # "StreamItem" => QueuesKept(e, y.seq)
<1>1. channel[e] \in Seq(Message) /\ y \in Message /\ y.seq \in Seqs /\ Peer(e) \in Ends
  BY PeerProps, QueueTail, MessageShapes DEF TakesHead, JInv, TypeOK
<1>2. \A f, t : SameServing(f, t)
  BY DEF SameServing
<1>3. ASSUME NEW d \in Ends, NEW t \in Seqs, d = e => ~ IsItem(y, t)
      PROVE  QueuesKept(d, t)
  BY <1>3, TakeKept, KeepsSame DEF QueuesKept
<1> QED
  BY <1>1, <1>2, <1>3, PlainMessages DEF SameStream

(* What arrives at a Rust interface.                                       *)
LEMMA RustDispatchStreams ==
  ASSUME JsSInv, NEW e \in Ends, e \notin JsEnds, Dispatch(e), UNCHANGED jsVars
  PROVE  \A d \in Ends, t \in Seqs : StreamOK(d, t)'
<1>1. JInv /\ TypeOK
  BY DEF JsSInv, JInv
<1>2. PICK y : y = Head(channel[e])
  OBVIOUS
<1>3. PICK kind : /\ TakeMessage(e, kind)
                  /\ DispatchResponse(e) => kind = "Response"
                  /\ DispatchStreamItem(e) => kind = "StreamItem"
                  /\ DispatchStreamEnd(e) => kind = "StreamEnd"
                  /\ DispatchRequest(e) => kind = "Request"
                  /\ DispatchAbort(e) => kind = "Abort"
  <2>1. \A k, l : TakeMessage(e, k) /\ TakeMessage(e, l) => k = l
    BY DEF TakeMessage
  <2> QED
    BY <2>1
    DEF Dispatch, DispatchRequest, DispatchAbort, DispatchResponse, DispatchStreamItem,
        DispatchStreamEnd
<1>4. TakesHead(e) /\ y \in Message /\ y.kind = kind /\ y.seq \in Seqs
  BY <1>1, <1>2, <1>3, MessageTaken, MessageShapes
<1>5. UNCHANGED <<outbox, execution, produced, received, promise, delivered, chain, broken,
                  handling, yielded>>
  BY DEF Dispatch, DispatchRequest, DispatchAbort, DispatchResponse, DispatchStreamItem,
         DispatchStreamEnd, OnResponse, OnStreamItem, OnStreamEnd, clientVars, serviceVars,
         jsVars, jsCallerVars, jsHandlerVars
<1>6. PICK s \in Seqs : s = y.seq
  BY <1>4
<1>7. /\ StreamOK(e, s) /\ MapsMatch(e, s) /\ ResponseIsFinal(e, s) /\ promise[e][s] = "idle"
      /\ Peer(e) \in Ends /\ received[e][s] \in Seq(Items) /\ buffer[e][s] \in Seq(Items)
  BY <1>1, PeerProps
  DEF JsSInv, JInv, CallOK, OwnKind, NoJsState, TypeOK, ClientTypeOK
<1>8. /\ Had(e, s) = received[e][s] \o buffer[e][s]
      /\ Had(e, s)' = received[e][s] \o buffer'[e][s]
      /\ WasSent(e, s) <=> call[e][s] # "idle"
      /\ WasSent(e, s)' <=> call'[e][s] # "idle"
      /\ Routed(e, s) <=> s \in streamCallbacks[e]
      /\ Routed(e, s)' <=> s \in streamCallbacks'[e]
      /\ HasEnded(e, s) <=> call[e][s] = "ended"
      /\ HasEnded(e, s)' <=> call'[e][s] = "ended"
      /\ HasWaiting(e, s) <=> buffer[e][s] # <<>>
      /\ HasWaiting(e, s)' <=> buffer'[e][s] # <<>>
      /\ HeardEnd(e, s) <=>
           (call[e][s] = "open" /\ s \notin streamCallbacks[e]) \/ call[e][s] = "ended"
      /\ HeardEnd(e, s)' <=>
           (call'[e][s] = "open" /\ s \notin streamCallbacks'[e]) \/ call'[e][s] = "ended"
  BY <1>5, <1>7 DEF Had, HasWaiting, WasSent, Routed, HasEnded, HeardEnd
<1>9. \A d \in Ends, t \in Seqs : d # e \/ t # s => SameHolding(d, t)
  <2> USE DEF TypeOK, ClientTypeOK
  <2>1. CASE DispatchRequest(e) \/ DispatchAbort(e)
    BY <1>5, <2>1 DEF DispatchRequest, DispatchAbort, SameHolding, clientVars
  <2>2. CASE DispatchResponse(e)
    BY <1>1, <1>2, <1>5, <1>6, <2>2 DEF DispatchResponse, OnResponse, SetCall, SameHolding
  <2>3. CASE DispatchStreamItem(e)
    BY <1>1, <1>2, <1>5, <1>6, <2>3 DEF DispatchStreamItem, OnStreamItem, SameHolding
  <2>4. CASE DispatchStreamEnd(e)
    BY <1>1, <1>2, <1>5, <1>6, <2>4 DEF DispatchStreamEnd, OnStreamEnd, SameHolding
  <2> QED
    BY <2>1, <2>2, <2>3, <2>4 DEF Dispatch
<1>10. /\ \A d \in Ends, t \in Seqs : d # e \/ t # s => SameStream(d, t)
       /\ \A f, t : SameServing(f, t)
       /\ kind # "StreamItem" => QueuesKept(e, s)
  BY <1>1, <1>2, <1>4, <1>5, <1>6, <1>9, TakesOne
<1>11. SUFFICES StreamOK(e, s)'
  BY <1>10, OnlyOne
<1>12. CASE DispatchRequest(e) \/ DispatchAbort(e)
  <2>1. SameHolding(e, s) /\ kind # "StreamItem"
    BY <1>3, <1>5, <1>12 DEF DispatchRequest, DispatchAbort, SameHolding, clientVars
  <2> QED
    BY <1>1, <1>7, <1>10, <2>1, StreamFrame DEF SameStream
<1>13. CASE DispatchResponse(e)
  <2>1. /\ kind = "Response" /\ UNCHANGED <<streamCallbacks, buffer>>
        /\ IF s \in callbacks[e] THEN call'[e][s] = "responded" ELSE call' = call
    BY <1>1, <1>2, <1>3, <1>6, <1>13 DEF DispatchResponse, OnResponse, SetCall, TypeOK, ClientTypeOK
  <2>2. Answered(e, s)
    BY <1>1, <1>2, <1>4, <1>6, <2>1, QueueTail, MessageShapes DEF Answered, TakesHead, TypeOK
  <2>3. CASE s \notin callbacks[e]
    <3>1. SameHolding(e, s)
      BY <1>5, <2>1, <2>3 DEF SameHolding
    <3> QED
      BY <1>1, <1>7, <1>10, <2>1, <3>1, StreamFrame DEF SameStream
  <2>4. CASE s \in callbacks[e]
    <3>1. call[e][s] = "pending" /\ call'[e][s] = "responded" /\ Had(e, s)' = Had(e, s)
      BY <1>7, <1>8, <2>1, <2>4 DEF MapsMatch
    <3>2. /\ Made(e, s)' = Made(e, s)
          /\ execution'[Peer(e)][s] = execution[Peer(e)][s]
          /\ handling'[Peer(e)][s] = handling[Peer(e)][s]
      BY <1>5, <1>10, SameMade
    <3>3. HadWasMade(e, s)' /\ EndIsComplete(e, s)' /\ ResponseIsComplete(e, s)'
      BY <1>7, <1>8, <2>2, <3>1, <3>2
      DEF StreamOK, HadWasMade, EndIsComplete, ResponseIsComplete, ResponseIsFinal
    <3> QED
      BY <1>1, <1>7, <1>8, <1>10, <2>1, <3>1, <3>3, HolderMoves
  <2> QED
    BY <2>3, <2>4
<1>14. CASE DispatchStreamItem(e)
  <2>1. /\ UNCHANGED <<call, streamCallbacks>>
        /\ s \in streamCallbacks[e] => buffer'[e][s] = Append(buffer[e][s], y.item)
        /\ s \notin streamCallbacks[e] => buffer'[e][s] = buffer[e][s]
    <3>1. OnStreamItem(e, s, y.item)
      BY <1>2, <1>6, <1>14 DEF DispatchStreamItem
    <3> QED
      BY <1>1, <3>1 DEF OnStreamItem, TypeOK, ClientTypeOK
  <2>2. y.item \in Items /\ IsItem(y, s)
    BY <1>3, <1>4, <1>6, <1>14, MessageShapes, PlainMessages
  <2>3. CASE s \in streamCallbacks[e]
    <3>1. Had(e, s)' = Append(Had(e, s), y.item) /\ call[e][s] = "open"
      <4>1. received[e][s] \o Append(buffer[e][s], y.item)
              = Append(received[e][s] \o buffer[e][s], y.item)
        BY <1>7, <2>2, HadFacts
      <4> QED
        BY <1>7, <1>8, <2>1, <2>3, <4>1 DEF MapsMatch
    <3>2. ResponseIsComplete(e, s)'
      BY <2>1, <3>1 DEF ResponseIsComplete
    <3> QED
      BY <1>1, <1>2, <1>4, <1>5, <1>7, <1>8, <1>10, <2>1, <2>2, <2>3, <3>1, <3>2, HolderTakes
  <2>4. CASE s \notin streamCallbacks[e]
    <3>1. ResponseIsComplete(e, s)' /\ Had(e, s)' = Had(e, s)
      BY <1>5, <1>7, <1>8, <2>1, <2>4 DEF StreamOK, ResponseIsComplete
    <3>2. Had(e, s)' # <<>> => call'[e][s] \in {"open", "closed", "ended", "drained", "dropped"}
      BY <1>7, <2>1, <3>1 DEF StreamOK, HadWasMade
    <3> QED
      BY <1>1, <1>2, <1>4, <1>5, <1>7, <1>8, <1>10, <2>1, <2>2, <2>4, <3>1, <3>2, HolderTakes
  <2> QED
    BY <2>3, <2>4
<1>15. CASE DispatchStreamEnd(e)
  <2>1. /\ UNCHANGED <<call, buffer>> /\ kind = "StreamEnd" /\ s \notin streamCallbacks'[e]
    BY <1>1, <1>2, <1>3, <1>6, <1>15 DEF DispatchStreamEnd, OnStreamEnd, TypeOK, ClientTypeOK
  <2>2. Routed(e, s) => Had(e, s) = FirstItems(Made(e, s)) /\ Over(Peer(e), s)
    BY <1>1, <1>2, <1>4, <1>6, <1>7, <2>1, MessageShapes, EndTaken DEF TakesHead
  <2>3. Made(e, s)' = Made(e, s) /\ (Over(Peer(e), s)' <=> Over(Peer(e), s))
    BY <1>10, SameMade
  <2>4. HadWasMade(e, s)' /\ EndIsComplete(e, s)' /\ ResponseIsComplete(e, s)'
    BY <1>5, <1>7, <1>8, <2>1, <2>2, <2>3
    DEF StreamOK, HadWasMade, EndIsComplete, ResponseIsComplete
  <2> QED
    BY <1>1, <1>7, <1>8, <1>10, <2>1, <2>4, HolderMoves
<1> QED
  BY <1>12, <1>13, <1>14, <1>15 DEF Dispatch

-----------------------------------------------------------------------------
(* A server of either kind acts on call s of its peer.                     *)
LEMMA ServedOne ==
  ASSUME JsSInv, NEW g \in Ends, NEW s \in Seqs, UNCHANGED <<clientVars, jsCallerVars>>,
         \A f \in Ends, t \in Seqs : f # g \/ t # s => SameServing(f, t),
         \A d \in Ends, t \in Seqs : d # Peer(g) \/ t # s => QueuesKept(d, t),
         SameHolding(Peer(g), s) => StreamOK(Peer(g), s)'
  PROVE  \A d \in Ends, t \in Seqs : StreamOK(d, t)'
<1>1. \A d, t : SameHolding(d, t)
  BY DEF SameHolding, clientVars, jsCallerVars
<1>2. Peer(g) \in Ends /\ \A d \in Ends : Peer(d) \in Ends /\ (d # Peer(g) => Peer(d) # g)
  BY PeerProps
<1> QED
  BY <1>1, <1>2, OnlyOne DEF SameStream

LEMMA HeldWasSent ==
  ASSUME NEW e, NEW s, NEW m, Holds(e, s, m)
  PROVE  WasSent(e, s)
BY DEF Holds, HeldFor, PromisedFor, WasSent

(* A Rust server that makes nothing and moves nothing of a stream.         *)
LEMMA RustQuietStreams ==
  ASSUME JsSInv, NEW g \in Ends, g \notin JsEnds, NEW s \in Seqs,
         UNCHANGED <<clientVars, jsVars, outbox, produced>>,
         channel' = channel \/ Post(g, ResponseMsg(s)),
         \A f \in Ends, t \in Seqs : f # g \/ t # s => execution'[f][t] = execution[f][t],
         execution[g][s] \in {"none", "called"},
         execution[g][s] = "none" => WasSent(Peer(g), s),
         execution'[g][s] # "none"
  PROVE  \A d \in Ends, t \in Seqs : StreamOK(d, t)'
<1>1. PICK e \in Ends : e = Peer(g) /\ Peer(e) = g /\ handling[g][s] = "none" /\ StreamOK(e, s)
  BY PeerProps DEF JsSInv, JInv, OwnKind, NoJsState
<1>2. \A d \in Ends, t \in Seqs : QueuesKept(d, t)
  <2>1. \A t : /\ ResponseMsg(s) \in Message
                /\ ~ IsItem(ResponseMsg(s), t) /\ ResponseMsg(s) # EndMsg(t)
    BY MessageFacts, ItemShapes
  <2> QED
    BY <2>1, PostKept, KeepsSame DEF QueuesKept, JsSInv
<1>3. \A f \in Ends, t \in Seqs : f # g \/ t # s => SameServing(f, t)
  BY DEF SameServing, jsVars, jsHandlerVars
<1>4. WasSent(e, s) /\ ~ Untouched(Peer(e), s)' /\ ~ Over(Peer(e), s) /\ handling[g][s] # "over"
  BY <1>1 DEF StreamOK, ServedWasSent, Untouched, Over
<1>5. SameHolding(e, s) => StreamOK(e, s)'
  BY <1>1, <1>2, <1>4, ServerQuiet DEF JsSInv, jsVars, jsHandlerVars
<1> QED
  BY <1>1, <1>2, <1>3, <1>5, ServedOne DEF jsVars

LEMMA RustTakingStreams ==
  ASSUME JsSInv, NEW g \in Ends, g \notin JsEnds, TakeRequest(g) \/ TakeAbort(g),
         UNCHANGED <<clientVars, jsVars>>
  PROVE  \A d \in Ends, t \in Seqs : StreamOK(d, t)'
<1>1. JInv /\ TypeOK /\ UNCHANGED <<channel, outbox, produced>>
  BY DEF JsSInv, JInv, TakeRequest, TakeAbort
<1>2. CASE TakeRequest(g)
  <2>1. requests[g] \in Seq(Inbound) /\ requests[g] # <<>>
    BY <1>1, <1>2 DEF TakeRequest, TypeOK, ServiceTypeOK
  <2>2. PICK s \in Seqs, m \in Methods :
          /\ Head(requests[g]).seq = s
          /\ InQueue([seq |-> s, method |-> m], requests[g])
    <3>1. Head(requests[g]) \in Inbound /\ InQueue(Head(requests[g]), requests[g])
      BY <2>1, QueueTail
    <3> QED
      BY <3>1 DEF Inbound
  <2>3. execution[g][s] = "none" /\ WasSent(Peer(g), s)
    <3>1. RequestIsFresh(Peer(g), s) /\ Peer(Peer(g)) = g
      BY <1>1, PeerProps DEF JInv, CallOK
    <3> QED
      BY <2>2, <3>1, HeldWasSent DEF RequestIsFresh, Untouched
  <2>4. /\ execution'[g][s] = "called"
        /\ \A f \in Ends, t \in Seqs : f # g \/ t # s => execution'[f][t] = execution[f][t]
    BY <1>1, <1>2, <2>2 DEF TakeRequest, SetExecution, TypeOK, ServiceTypeOK
  <2> QED
    BY <1>1, <2>3, <2>4, RustQuietStreams
<1>3. CASE TakeAbort(g)
  <2>1. \A d \in Ends, t \in Seqs : SameStream(d, t)
    BY <1>1, <1>3, KeepsSame
    DEF TakeAbort, SameStream, QueuesKept, SameServing, SameHolding, clientVars, jsVars,
        jsCallerVars, jsHandlerVars
  <2> QED
    BY <2>1, StreamFrame DEF JsSInv
<1> QED
  BY <1>2, <1>3

LEMMA RustCompletingStreams ==
  ASSUME JsSInv, NEW g \in Ends, g \notin JsEnds, NEW s \in Seqs,
         FinishNotify(g, s) \/ FinishValue(g, s) \/ AbortValue(g, s) \/ StartStream(g, s),
         UNCHANGED <<clientVars, jsVars>>
  PROVE  \A d \in Ends, t \in Seqs : StreamOK(d, t)'
<1>1. /\ UNCHANGED <<outbox, produced>>
      /\ channel' = channel \/ Post(g, ResponseMsg(s))
      /\ execution[g][s] = "called"
      /\ \E status \in {"finished", "forwarding", "aborted"} : SetExecution(g, s, status)
  BY DEF FinishNotify, FinishValue, AbortValue, StartStream, Complete
<1>2. /\ execution'[g][s] # "none"
      /\ \A f \in Ends, t \in Seqs : f # g \/ t # s => execution'[f][t] = execution[f][t]
  BY <1>1 DEF SetExecution, JsSInv, JInv, TypeOK, ServiceTypeOK
<1> QED
  BY <1>1, <1>2, RustQuietStreams

(* What a Rust server takes from its outbox and posts.                     *)
LEMMA RustForwardingStreams ==
  ASSUME JsSInv, NEW g \in Ends, g \notin JsEnds, ForwardItem(g) \/ ForwardEnd(g),
         UNCHANGED <<clientVars, jsVars>>
  PROVE  \A d \in Ends, t \in Seqs : StreamOK(d, t)'
<1>1. /\ JInv /\ channel \in [Ends -> Seq(Message)] /\ outbox \in [Ends -> Seq(StreamMessage)]
      /\ outbox[g] # <<>> /\ outbox' = [outbox EXCEPT ![g] = Tail(@)]
      /\ UNCHANGED <<execution, produced, handling, yielded>>
  BY DEF JsSInv, JInv, TypeOK, ServiceTypeOK, ForwardItem, ForwardEnd, jsVars, jsHandlerVars
<1>2. PICK s \in Seqs, i \in Items \cup {None} : Head(outbox[g]) = Entry(s, i)
  <2>1. Head(outbox[g]) \in StreamMessage
    BY <1>1, QueueTail
  <2> QED
    BY <2>1 DEF StreamMessage, Entry
<1>3. Entry(s, i).seq = s /\ Entry(s, i).item = i /\ (IsItem(Entry(s, i), s) <=> i # None)
  BY ItemShapes DEF Entry
<1>4. PICK y \in Message :
        /\ Post(g, y) /\ y.seq = s
        /\ i # None => y = ItemMsg(s, i) /\ y.kind = "StreamItem"
        /\ i = None => y = EndMsg(s) /\ y.kind = "StreamEnd"
  <2>1. CASE ForwardItem(g)
    BY <1>2, <1>3, <2>1, MessageFacts DEF ForwardItem
  <2>2. CASE ForwardEnd(g)
    BY <1>2, <1>3, <2>2, MessageFacts DEF ForwardEnd
  <2> QED
    BY <2>1, <2>2
<1>5. PICK e \in Ends : /\ e = Peer(g) /\ Peer(e) = g /\ StreamOK(e, s) /\ TracesMatch(e, s)
                        /\ \A d \in Ends : d # e => Peer(d) # g
  BY PeerProps DEF JsSInv, JInv, CallOK
<1>6. ASSUME NEW d \in Ends, NEW t \in Seqs, d # Peer(g) \/ t # s
      PROVE  QueuesKept(d, t)
  <2>1. KeepsChannel(channel[d], channel'[d], t)
    <3>1. d = Peer(g) => ~ IsItem(y, t) /\ y # EndMsg(t)
      BY <1>4, <1>6, PlainMessages, MessageFacts
    <3> QED
      BY <1>1, <1>4, <3>1, PostKept
  <2>2. KeepsOutbox(outbox[Peer(d)], outbox'[Peer(d)], t)
    <3>1. CASE d = e
      BY <1>1, <1>2, <1>3, <1>5, <1>6, <3>1, OutboxTail
    <3>2. CASE d # e
      BY <1>1, <1>5, <3>2, PeerProps, KeepsSame
    <3> QED
      BY <3>1, <3>2
  <2> QED
    BY <2>1, <2>2 DEF QueuesKept
<1>7. ASSUME SameHolding(e, s)
      PROVE  StreamOK(e, s)'
  <2>1. /\ channel[e] \in Seq(Message) /\ outbox[g] \in Seq(StreamMessage)
        /\ channel'[e] = Append(channel[e], y) /\ outbox'[g] = Tail(outbox[g])
        /\ Made(e, s) \in Nat /\ Made(e, s)' = Made(e, s)
    <3>1. Made(e, s)' = Made(e, s)
      BY <1>1 DEF Made
    <3> QED
      BY <1>1, <1>4, <1>5, <3>1, PostEffect, StreamTypes
  <2>2. /\ Had(e, s)' = Had(e, s) /\ (Routed(e, s)' <=> Routed(e, s))
    BY <1>7, SameHad
  <2>3. HasEntry(outbox[g], s) /\ (i # None => HasItem(outbox[g], s))
    BY <1>1, <1>2, <1>3, Positions DEF HasItem, HasEntry, IsItem
  <2>4. MarkerIsLast(outbox[g], s) /\ EndMsgIsLast(channel[e], s) /\ ~ EndPosted(e, s)
    BY <1>5, <2>3 DEF StreamOK, EndComesLast
  <2>5. MarkerIsLast(outbox'[g], s) /\ (i = None => ~ HasEntry(outbox'[g], s))
    BY <1>1, <1>2, <2>1, <2>4, OutboxTail
  <2>6. CASE i # None
    <3>1. ~ Untouched(Peer(e), s) /\ WasSent(e, s)
      BY <1>5, <2>3, <2>6 DEF StreamOK, NothingMadeEarly, ServedWasSent
    <3>2. ~ EndPosted(e, s)'
      BY <1>4, <2>1, <2>4, <2>6, QueueAppend, MessageFacts DEF EndPosted
    <3>3. EndComesLast(e, s)'
      BY <1>5, <2>5, <3>2 DEF EndComesLast, EndPosted, EndMsgIsLast, InQueue
    <3>4. RestIsComing(e, s)'
      <4>1. IsItem(Head(outbox[g]), s) /\ Head(outbox[g]).item = i
        BY <1>2, <1>3, <2>6
      <4>2. ASSUME Unbroken(Had(e, s), channel[e], outbox[g], s, Made(e, s))
            PROVE  Unbroken(Had(e, s), channel'[e], outbox'[g], s, Made(e, s))
        <5>1. y = ItemMsg(s, Head(outbox[g]).item)
          BY <1>4, <2>6, <4>1
        <5>2. Unbroken(Had(e, s), Append(channel[e], y), Tail(outbox[g]), s, Made(e, s))
          BY <1>1, <2>1, <4>1, <4>2, <5>1, WholeForwarded
        <5> QED
          BY <2>1, <5>2
      <4> QED
        BY <1>5, <2>1, <2>2, <4>2 DEF StreamOK, RestIsComing, Whole
    <3>5. ~ Untouched(Peer(e), s)' /\ (Over(Peer(e), s)' <=> Over(Peer(e), s))
      BY <1>1, <3>1 DEF Untouched, Over
    <3> QED
      BY <1>1, <1>5, <1>7, <2>1, <3>1, <3>3, <3>4, <3>5, ServerMoves
  <2>7. CASE i = None
    <3>1. execution[g][s] \in {"finished", "aborted"}
      <4>1. InQueue(Entry(s, None), outbox[g])
        BY <1>1, <1>2, <2>7, QueueTail
      <4> QED
        BY <1>5, <4>1 DEF TracesMatch
    <3>2. ~ Untouched(Peer(e), s) /\ WasSent(e, s) /\ Over(Peer(e), s)
      BY <1>5, <3>1 DEF StreamOK, ServedWasSent, Untouched, Over
    <3>3. ~ IsItem(y, s) /\ ~ IsItem(Head(outbox[g]), s)
      BY <1>2, <1>3, <1>4, <2>7, ItemShapes
    <3>4. ~ Untouched(Peer(e), s)' /\ (Over(Peer(e), s)' <=> Over(Peer(e), s))
      BY <1>1, <3>2 DEF Untouched, Over
    <3>5. EndComesLast(e, s)'
      <4>1. EndMsgIsLast(channel'[e], s)
        BY <2>1, <2>4, <3>3, ChannelAppend
      <4> QED
        BY <1>5, <2>5, <2>7, <3>2, <3>4, <4>1 DEF EndComesLast
    <3>6. ASSUME Unbroken(Had(e, s), channel[e], outbox[g], s, Made(e, s))
          PROVE  Unbroken(Had(e, s), channel'[e], outbox'[g], s, Made(e, s))
      <4>1. PICK a \in 0 .. Made(e, s), b \in 0 .. Made(e, s) :
              /\ a <= b /\ Had(e, s) = FirstItems(a)
              /\ Carries(channel[e], s, a, b) /\ Carries(outbox[g], s, b, Made(e, s))
        BY <3>6 DEF Unbroken
      <4>2. a \in Nat /\ b \in Nat /\ b <= Made(e, s)
        BY <2>1
      <4>3. Carries(channel'[e], s, a, b) /\ Carries(outbox'[g], s, b, Made(e, s))
        BY <1>1, <2>1, <3>3, <4>1, <4>2, CarriesAppend, CarriesTail
      <4> QED
        BY <4>1, <4>3 DEF Unbroken
    <3>7. RestIsComing(e, s)'
      BY <1>5, <2>1, <2>2, <3>6 DEF StreamOK, RestIsComing, Whole
    <3> QED
      BY <1>1, <1>5, <1>7, <2>1, <3>2, <3>4, <3>5, <3>7, ServerMoves
  <2> QED
    BY <2>6, <2>7
<1>8. \A f \in Ends, t \in Seqs : f # g \/ t # s => SameServing(f, t)
  BY <1>1 DEF SameServing
<1> QED
  BY <1>5, <1>6, <1>7, <1>8, ServedOne DEF jsVars

(* What a Rust server puts in its outbox: an item or the end of a stream.  *)
LEMMA RustProducingStreams ==
  ASSUME JsSInv, NEW g \in Ends, g \notin JsEnds, NEW s \in Seqs,
         ProduceItem(g, s) \/ FinishStream(g, s) \/ AbortStream(g, s),
         UNCHANGED <<clientVars, jsVars>>
  PROVE  \A d \in Ends, t \in Seqs : StreamOK(d, t)'
<1> DEFINE n == produced[g][s]
<1>1. /\ JInv /\ outbox \in [Ends -> Seq(StreamMessage)] /\ n \in Nat
      /\ execution \in [Ends -> [Seqs -> ExecutionStates]]
      /\ produced \in [Ends -> [Seqs -> 0 .. MaxItems]]
      /\ UNCHANGED <<channel, handling, yielded>>
  BY BoundsAssumption
  DEF JsSInv, JInv, TypeOK, ServiceTypeOK, jsVars, jsHandlerVars, ProduceItem, FinishStream,
      AbortStream, EndStream
<1>2. /\ execution[g][s] \in {"called", "forwarding"}
      /\ \A f \in Ends, t \in Seqs : f # g \/ t # s =>
           execution'[f][t] = execution[f][t] /\ produced'[f][t] = produced[f][t]
  BY <1>1
  DEF ProduceItem, FinishStream, AbortStream, EndStream, SetExecution
<1>3. PICK i \in Items \cup {None} :
        /\ outbox' = [outbox EXCEPT ![g] = Append(@, Entry(s, i))]
        /\ \/ /\ i = n + 1 /\ i # None /\ produced'[g][s] = n + 1
              /\ execution'[g][s] = "forwarding"
           \/ /\ i = None /\ produced'[g][s] = n
              /\ execution'[g][s] \in {"finished", "aborted"}
  <2>1. CASE ProduceItem(g, s)
    <3>1. n + 1 \in Items /\ n + 1 # None
      BY <1>1, <2>1, BoundsAssumption DEF ProduceItem, Items, None
    <3>2. produced'[g][s] = n + 1 /\ execution'[g][s] = "forwarding"
      BY <1>1, <2>1 DEF ProduceItem
    <3> QED
      BY <2>1, <3>1, <3>2 DEF ProduceItem
  <2>2. CASE FinishStream(g, s) \/ AbortStream(g, s)
    <3>1. PICK status \in {"finished", "aborted"} : EndStream(g, s, status)
      BY <2>2 DEF FinishStream, AbortStream
    <3>2. execution'[g][s] = status /\ produced' = produced
      BY <1>1, <3>1 DEF EndStream, SetExecution
    <3>3. outbox' = [outbox EXCEPT ![g] = Append(@, Entry(s, None))]
      BY <3>1 DEF EndStream
    <3> QED
      BY <3>1, <3>2, <3>3
  <2> QED
    BY <2>1, <2>2
<1>4. /\ Entry(s, i) \in StreamMessage /\ Entry(s, i).seq = s /\ Entry(s, i).item = i
      /\ IsItem(Entry(s, i), s) <=> i # None
  BY ItemShapes DEF Entry, StreamMessage
<1>5. PICK e \in Ends : /\ e = Peer(g) /\ Peer(e) = g /\ StreamOK(e, s) /\ TracesMatch(e, s)
                        /\ handling[g][s] = "none" /\ \A d \in Ends : d # e => Peer(d) # g
  BY PeerProps DEF JsSInv, JInv, CallOK, OwnKind, NoJsState
<1>6. ASSUME NEW d \in Ends, NEW t \in Seqs, d # Peer(g) \/ t # s
      PROVE  QueuesKept(d, t)
  <2>1. KeepsOutbox(outbox[Peer(d)], outbox'[Peer(d)], t)
    <3>1. CASE d = e
      BY <1>1, <1>3, <1>4, <1>5, <1>6, <3>1, OutboxAppend
    <3>2. CASE d # e
      BY <1>1, <1>3, <1>5, <3>2, PeerProps, KeepsSame
    <3> QED
      BY <3>1, <3>2
  <2> QED
    BY <1>1, <2>1, KeepsSame DEF QueuesKept
<1>7. ASSUME SameHolding(e, s)
      PROVE  StreamOK(e, s)'
  <2>1. /\ outbox[g] \in Seq(StreamMessage) /\ outbox'[g] = Append(outbox[g], Entry(s, i))
        /\ Made(e, s) = n /\ Made(e, s)' = produced'[g][s]
    BY <1>1, <1>3, <1>5 DEF Made
  <2>2. Had(e, s)' = Had(e, s) /\ (Routed(e, s)' <=> Routed(e, s))
    BY <1>7, SameHad
  <2>3. ~ Untouched(g, s) /\ ~ Over(g, s) /\ WasSent(e, s) /\ ~ Untouched(g, s)'
    BY <1>2, <1>3, <1>5 DEF StreamOK, ServedWasSent, Untouched, Over
  <2>4. ~ EndPosted(e, s) /\ ~ EndPosted(e, s)' /\ EndMsgIsLast(channel'[e], s)
    BY <1>1, <1>5, <2>3 DEF StreamOK, EndComesLast, EndPosted
  <2>5. MarkerIsLast(outbox'[g], s)
    <3>1. ~ InQueue(Entry(s, None), outbox[g])
      BY <1>2, <1>5 DEF TracesMatch
    <3> QED
      BY <1>4, <2>1, <3>1, OutboxAppend
  <2>6. EndComesLast(e, s)'
    BY <1>5, <2>4, <2>5 DEF EndComesLast
  <2>7. ASSUME Unbroken(Had(e, s), channel[e], outbox[g], s, n)
        PROVE  Unbroken(Had(e, s), channel[e], outbox'[g], s, produced'[g][s])
    <3>1. CASE i = n + 1 /\ i # None /\ produced'[g][s] = n + 1
      <4>1. IsItem(Entry(s, i), s) /\ Entry(s, i).item = n + 1
        BY <1>4, <3>1
      <4>2. channel[e] \in Seq(Message)
        BY <1>1, StreamTypes
      <4> HIDE DEF n
      <4>3. Unbroken(Had(e, s), channel[e], Append(outbox[g], Entry(s, i)), s, n + 1)
        BY <1>1, <1>4, <2>1, <2>7, <4>1, <4>2, WholeMade
      <4> QED
        BY <2>1, <3>1, <4>3
    <3>2. CASE i = None /\ produced'[g][s] = n
      <4>1. PICK a \in 0 .. n, b \in 0 .. n :
              /\ a <= b /\ Had(e, s) = FirstItems(a)
              /\ Carries(channel[e], s, a, b) /\ Carries(outbox[g], s, b, n)
        BY <2>7 DEF Unbroken
      <4>2. a \in Nat /\ b \in Nat /\ b <= n
        BY <1>1
      <4>3. Carries(outbox'[g], s, b, n)
        BY <1>1, <1>4, <2>1, <3>2, <4>1, <4>2, CarriesAppend
      <4> QED
        BY <3>2, <4>1, <4>3 DEF Unbroken
    <3> QED
      BY <1>3, <3>1, <3>2
  <2>8. RestIsComing(e, s)'
    BY <1>1, <1>5, <2>1, <2>2, <2>7 DEF StreamOK, RestIsComing, Whole
  <2> QED
    BY <1>1, <1>2, <1>3, <1>5, <1>7, <2>1, <2>3, <2>6, <2>8, ServerMoves
<1>8. \A f \in Ends, t \in Seqs : f # g \/ t # s => SameServing(f, t)
  BY <1>1, <1>2 DEF SameServing
<1> QED
  BY <1>5, <1>6, <1>7, <1>8, ServedOne DEF jsVars

(* Every step of a Rust interface.                                         *)
LEMMA RustStreams ==
  ASSUME JsSInv, NEW g \in Ends, InterfaceStep(g), UNCHANGED jsVars
  PROVE  \A d \in Ends, t \in Seqs : StreamOK(d, t)'
<1>1. g \notin JsEnds
  BY RustEnd DEF JsSInv
<1>2. CASE NewCall(g) /\ UNCHANGED serviceVars
  BY <1>1, <1>2, RustNewStreams
<1>3. ASSUME NEW s \in Seqs, CallerStep(g, s), UNCHANGED serviceVars
      PROVE  \A d \in Ends, t \in Seqs : StreamOK(d, t)'
  BY <1>1, <1>3, RustCallerStreams
<1>4. CASE Dispatch(g)
  BY <1>1, <1>4, RustDispatchStreams
<1>5. CASE LoopStep(g) /\ UNCHANGED clientVars
  BY <1>1, <1>5, RustTakingStreams, RustForwardingStreams DEF LoopStep
<1>6. ASSUME NEW s \in Seqs, ExecutionStep(g, s), UNCHANGED clientVars
      PROVE  \A d \in Ends, t \in Seqs : StreamOK(d, t)'
  BY <1>1, <1>6, RustCompletingStreams, RustProducingStreams DEF ExecutionStep
<1> QED
  BY <1>2, <1>3, <1>4, <1>5, <1>6 DEF InterfaceStep, ServiceStep
-----------------------------------------------------------------------------
(* A caller in JavaScript.  What it holds of the calls it does not touch   *)
(* stays as it is.                                                         *)
LEMMA JsHoldingElse ==
  ASSUME JInv, NEW e \in JsEnds, NEW s \in Seqs, UNCHANGED clientVars,
         promise' = promise \/ \E to : SetPromise(e, s, to),
         broken' = broken \/ broken' = Insert(broken, e, s),
         chain' = chain \/ \E x : chain' = [chain EXCEPT ![e][s] = x],
         delivered' = delivered \/ \E x : delivered' = [delivered EXCEPT ![e][s] = x]
  PROVE  \A d \in Ends, t \in Seqs : d # e \/ t # s => SameHolding(d, t)
<1> SUFFICES ASSUME NEW d \in Ends, NEW t \in Seqs, d # e \/ t # s PROVE SameHolding(d, t)
  OBVIOUS
<1>1. e \in Ends
  BY JsContext
<1> USE DEF JInv, JsTypeOK
<1>2. promise'[d][t] = promise[d][t]
  BY <1>1 DEF SetPromise
<1>3. t \in broken'[d] <=> t \in broken[d]
  BY <1>1 DEF Insert
<1>4. chain'[d][t] = chain[d][t]
  BY <1>1
<1>5. delivered'[d][t] = delivered[d][t]
  BY <1>1
<1> QED
  BY <1>2, <1>3, <1>4, <1>5 DEF SameHolding, clientVars

LEMMA JsNewStreams ==
  ASSUME JsSInv, NEW e \in JsEnds, JsCall(e),
         UNCHANGED <<closed, failure, jsHandlerVars, clientVars, serviceVars>>
  PROVE  \A d \in Ends, t \in Seqs : StreamOK(d, t)'
<1>1. JInv /\ e \in Ends /\ NoRustState(e) /\ \A d \in Ends, t \in Seqs : CallOK(d, t)
  BY JsContext DEF JsSInv
<1>2. Number(e)
  BY DEF JsCall, JsNotify, JsRequest, JsStream, CallRefused, CallThrows
<1>3. PICK s \in Seqs : s = nextSequence[e] /\ ~ (s < nextSequence[e])
  <2>1. nextSequence[e] \in 0 .. MaxCalls /\ nextSequence[e] < MaxCalls /\ MaxCalls \in Nat
    BY <1>1, <1>2, BoundsAssumption DEF Number, JInv, JsTypeOK
  <2> QED
    BY <2>1 DEF Seqs
<1>4. Unmade(e, s)
  BY <1>1, <1>3 DEF CallOK, Numbered, NoRustState, Unmade
<1>5. /\ \E to \in {"notified", "pending", "open", "threw", "refused"} : SetPromise(e, s, to)
      /\ channel' = channel \/ \E m \in Methods : Post(e, RequestMsg(s, m))
      /\ UNCHANGED <<chain, broken, delivered>>
  BY <1>3 DEF JsCall, JsNotify, JsRequest, JsStream, CallRefused, CallThrows, JsSend
<1>6. promise'[e][s] \in {"notified", "pending", "open", "threw", "refused"}
  BY <1>1, <1>5 DEF SetPromise, JInv, JsTypeOK
<1>7. \A d \in Ends, t \in Seqs : d # e \/ t # s => SameHolding(d, t)
  BY <1>1, <1>5, JsHoldingElse
<1>8. call'[e][s] = "idle" /\ UNCHANGED <<received, buffer>>
  BY <1>1 DEF NoRustState, clientVars
<1> QED
  BY <1>1, <1>4, <1>5, <1>6, <1>7, <1>8, NewStream DEF SameHolding

(* What its own steps leave alone.                                         *)
LEMMA JsCallerRows ==
  ASSUME JsSInv, NEW e \in JsEnds, NEW s \in Seqs, JsCallerStep(e, s),
         UNCHANGED <<closed, failure, jsHandlerVars, clientVars, serviceVars>>
  PROVE  /\ \A d \in Ends, t \in Seqs : QueuesKept(d, t) /\ SameServing(Peer(d), t)
         /\ \A d \in Ends, t \in Seqs : d # e \/ t # s => SameHolding(d, t)
<1>1. JInv /\ e \in Ends
  BY JsContext DEF JsSInv
<1>2. channel' = channel \/ Post(e, AbortMsg(s))
  BY DEF JsCallerStep, AbortRequest, StopStream, RunCallback, SettleDone, JsSend
<1>3. ASSUME NEW d \in Ends, NEW t \in Seqs
      PROVE  QueuesKept(d, t) /\ SameServing(Peer(d), t)
  <2>1. AbortMsg(s) \in Message /\ ~ IsItem(AbortMsg(s), t) /\ AbortMsg(s) # EndMsg(t)
    BY MessageFacts, ItemShapes
  <2>2. KeepsChannel(channel[d], channel'[d], t)
    BY <1>1, <1>2, <2>1, PostKept, KeepsSame
  <2>3. outbox' = outbox
    BY DEF serviceVars
  <2> QED
    BY <2>2, <2>3, KeepsSame DEF QueuesKept, SameServing, serviceVars, jsHandlerVars
<1>4. promise' = promise \/ \E to : SetPromise(e, s, to)
  BY DEF JsCallerStep, AbortRequest, StopStream, RunCallback, SettleDone
<1>5. broken' = broken \/ broken' = Insert(broken, e, s)
  BY DEF JsCallerStep, AbortRequest, StopStream, RunCallback, SettleDone
<1>6. /\ chain' = chain \/ \E x : chain' = [chain EXCEPT ![e][s] = x]
      /\ delivered' = delivered \/ \E x : delivered' = [delivered EXCEPT ![e][s] = x]
  BY DEF JsCallerStep, AbortRequest, StopStream, RunCallback, SettleDone
<1> QED
  BY <1>1, <1>3, <1>4, <1>5, <1>6, JsHoldingElse
(* Something that waits is something.                                      *)
LEMMA SomeWaiting ==
  ASSUME NEW r \in Seq(Items), NEW b \in Seq(Items), b # <<>>
  PROVE  r \o b # <<>>
<1>1. Len(r) \in Nat /\ Len(b) \in Nat /\ Len(b) # 0 /\ Len(r \o b) = Len(r) + Len(b)
  OBVIOUS
<1>2. Len(r \o b) # 0
  BY <1>1
<1> QED
  BY <1>2

(* Whatever it does, its callback has had a prefix, and done resolves only *)
(* after every item.                                                       *)
LEMMA JsCallerStreams ==
  ASSUME JsSInv, NEW e \in JsEnds, NEW s \in Seqs, JsCallerStep(e, s),
         UNCHANGED <<closed, failure, jsHandlerVars, clientVars, serviceVars>>
  PROVE  \A d \in Ends, t \in Seqs : StreamOK(d, t)'
<1>1. /\ JInv /\ e \in Ends /\ StreamOK(e, s) /\ call[e][s] = "idle" /\ call' = call
      /\ s \notin streamCallbacks[e] /\ streamCallbacks' = streamCallbacks
  BY JsContext DEF JsSInv, NoRustState, clientVars
<1>2. /\ \A d \in Ends, t \in Seqs : QueuesKept(d, t) /\ SameServing(Peer(d), t)
      /\ \A d \in Ends, t \in Seqs : d # e \/ t # s => SameHolding(d, t)
  BY JsCallerRows
<1>3. SUFFICES StreamOK(e, s)'
  BY <1>1, <1>2, OnlyOne DEF SameStream
<1>4. /\ delivered[e][s] \in Seq(Items) /\ chain[e][s] \in Seq(Items) /\ Made(e, s) \in Nat
      /\ Made(e, s)' = Made(e, s) /\ (Over(Peer(e), s)' <=> Over(Peer(e), s))
  BY <1>1, <1>2, StreamTypes, SameMade
<1>5. /\ Had(e, s) = delivered[e][s] \o chain[e][s]
      /\ HasWaiting(e, s) <=> chain[e][s] # <<>>
      /\ WasSent(e, s) <=> promise[e][s] \notin {"idle", "threw", "refused"}
      /\ Routed(e, s) <=> promise[e][s] = "open" /\ s \notin broken[e]
      /\ HasEnded(e, s) <=> promise[e][s] = "done"
      /\ HeardEnd(e, s) <=>
           (promise[e][s] = "ending" /\ s \notin broken[e]) \/ promise[e][s] = "done"
  BY <1>1, JsHolds
<1>6. /\ Had(e, s)' = delivered'[e][s] \o chain'[e][s]
      /\ HasWaiting(e, s)' <=> chain'[e][s] # <<>>
      /\ WasSent(e, s)' <=> promise'[e][s] \notin {"idle", "threw", "refused"}
      /\ Routed(e, s)' <=> promise'[e][s] = "open" /\ s \notin broken'[e]
      /\ HasEnded(e, s)' <=> promise'[e][s] = "done"
      /\ HeardEnd(e, s)' <=>
           (promise'[e][s] = "ending" /\ s \notin broken'[e]) \/ promise'[e][s] = "done"
  BY <1>1 DEF Had, HasWaiting, WasSent, Routed, HasEnded, HeardEnd
<1>7. PICK a \in 0 .. Made(e, s) : Had(e, s) = FirstItems(a)
  BY <1>1 DEF StreamOK, HadWasMade
<1>8. SUFFICES
        /\ Routed(e, s)' => Routed(e, s) /\ Had(e, s)' = Had(e, s)
        /\ \E b \in 0 .. Made(e, s) : Had(e, s)' = FirstItems(b)
        /\ WasSent(e, s) => WasSent(e, s)'
        /\ Had(e, s)' # <<>> =>
             promise'[e][s] \in {"open", "ending", "closing", "done", "closed", "failed"}
        /\ HeardEnd(e, s)' => HeardEnd(e, s) /\ Had(e, s)' = Had(e, s)
        /\ HasEnded(e, s)' => ~ HasWaiting(e, s)'
  <2>1. HadWasMade(e, s)'
    BY <1>4, <1>8 DEF HadWasMade
  <2>2. EndIsComplete(e, s)'
    BY <1>1, <1>4, <1>8 DEF StreamOK, EndIsComplete
  <2>3. ResponseIsComplete(e, s)'
    BY <1>1 DEF ResponseIsComplete
  <2> QED
    BY <1>1, <1>2, <1>8, <2>1, <2>2, <2>3, HolderMoves
<1>9. /\ Had(e, s) # <<>> =>
           promise[e][s] \in {"open", "ending", "closing", "done", "closed", "failed"}
      /\ promise[e][s] = "done" => chain[e][s] = <<>>
  BY <1>1, <1>5 DEF StreamOK, HadWasMade, EndIsComplete
<1>10. ASSUME UNCHANGED <<delivered, chain>>
       PROVE  Had(e, s)' = Had(e, s)
  BY <1>5, <1>6, <1>10
<1> USE DEF SetPromise, JInv, JsTypeOK
<1>11. CASE AbortRequest(e, s)
  <2>1. /\ UNCHANGED <<delivered, chain, broken>> /\ promise[e][s] = "pending"
        /\ promise'[e][s] = "aborted"
    BY <1>1, <1>11 DEF AbortRequest
  <2> QED
    BY <1>5, <1>6, <1>7, <1>9, <1>10, <2>1
<1>12. CASE StopStream(e, s)
  <2>1. UNCHANGED <<delivered, chain, broken, promise>>
    BY <1>12 DEF StopStream
  <2> QED
    BY <1>5, <1>6, <1>7, <1>9, <1>10, <2>1
<1>13. CASE RunCallback(e, s)
  <2>1. /\ chain[e][s] # <<>> /\ promise' = promise
        /\ delivered'[e][s] = Append(delivered[e][s], Head(chain[e][s]))
        /\ \/ chain'[e][s] = Tail(chain[e][s]) /\ broken' = broken
           \/ chain'[e][s] = <<>> /\ s \in broken'[e]
    <3>1. broken' = Insert(broken, e, s) => s \in broken'[e]
      BY <1>1 DEF Insert
    <3>2. delivered'[e][s] = Append(delivered[e][s], Head(chain[e][s]))
      BY <1>1, <1>13 DEF RunCallback
    <3>3. \A x : chain' = [chain EXCEPT ![e][s] = x] => chain'[e][s] = x
      <4>1. chain \in [Ends -> [Seqs -> Seq(Items)]]
        BY <1>1
      <4> QED
        BY <1>1, <4>1
    <3> QED
      BY <1>13, <3>1, <3>2, <3>3 DEF RunCallback
  <2>2. Append(delivered[e][s], Head(chain[e][s])) \o Tail(chain[e][s])
          = delivered[e][s] \o chain[e][s]
    BY <1>4, <2>1, HadFacts
  <2>3. promise[e][s] \in {"open", "ending", "closing", "closed", "failed"}
    <3>1. Had(e, s) # <<>>
      BY <1>4, <1>5, <2>1, SomeWaiting
    <3> QED
      BY <1>9, <2>1, <3>1
  <2>4. CASE chain'[e][s] = Tail(chain[e][s]) /\ broken' = broken
    BY <1>5, <1>6, <1>7, <2>1, <2>2, <2>3, <2>4
  <2>5. CASE chain'[e][s] = <<>> /\ s \in broken'[e]
    <3>1. /\ Append(delivered[e][s], Head(chain[e][s])) \in Seq(Items)
          /\ Tail(chain[e][s]) \in Seq(Items)
      BY <1>4, <2>1
    <3>2. Had(e, s)' = Append(delivered[e][s], Head(chain[e][s]))
      BY <1>6, <2>1, <2>5, <3>1, HadFacts
    <3>3. \E b \in 0 .. Made(e, s) : Append(delivered[e][s], Head(chain[e][s])) = FirstItems(b)
      <4>1. Append(delivered[e][s], Head(chain[e][s])) \o Tail(chain[e][s]) = FirstItems(a)
        BY <1>5, <1>7, <2>2
      <4> HIDE DEF JInv, JsTypeOK
      <4> QED
        BY <1>4, <3>1, <4>1, PrefixKept
    <3> QED
      BY <1>6, <2>1, <2>3, <2>5, <3>2, <3>3
  <2> QED
    BY <2>1, <2>4, <2>5
<1>14. CASE SettleDone(e, s)
  <2>1. /\ UNCHANGED <<delivered, chain, broken>> /\ chain[e][s] = <<>>
        /\ \/ promise[e][s] = "ending" /\ s \in broken[e] /\ promise'[e][s] = "failed"
           \/ promise[e][s] = "ending" /\ s \notin broken[e] /\ promise'[e][s] = "done"
           \/ promise[e][s] = "closing" /\ promise'[e][s] = "closed"
    BY <1>1, <1>14 DEF SettleDone
  <2> QED
    BY <1>5, <1>6, <1>7, <1>9, <1>10, <2>1
<1> QED
  BY <1>11, <1>12, <1>13, <1>14 DEF JsCallerStep
(* What arrives for a caller in JavaScript.                                *)
LEMMA JsAnswerStreams ==
  ASSUME JsSInv, NEW e \in JsEnds, JsOnResponse(e) \/ JsOnStreamItem(e) \/ JsOnStreamEnd(e),
         UNCHANGED <<clientVars, serviceVars>>
  PROVE  \A d \in Ends, t \in Seqs : StreamOK(d, t)'
<1>1. JInv /\ e \in Ends /\ Peer(e) \in Ends /\ channel \in [Ends -> Seq(Message)]
  BY JsContext DEF JsSInv, JInv, TypeOK
<1>2. PICK kind \in {"Response", "StreamItem", "StreamEnd"} :
        /\ Arrives(e, kind) /\ TakeAndPost(e, <<>>)
        /\ kind = "Response" => JsOnResponse(e)
        /\ kind = "StreamItem" => JsOnStreamItem(e)
        /\ kind = "StreamEnd" => JsOnStreamEnd(e)
  BY DEF JsOnResponse, JsOnStreamItem, JsOnStreamEnd
<1>3. channel[e] # <<>> /\ Head(channel[e]).kind = kind /\ Head(channel[e]) \in Message /\ TakesHead(e)
  <2>1. <<>> \in Seq(Message)
    OBVIOUS
  <2>2. channel[e] # <<>> /\ Head(channel[e]).kind = kind
    BY <1>2 DEF Arrives
  <2> QED
    BY <1>1, <1>2, <2>1, <2>2, TakeAndPostEffect
<1>4. PICK y \in Message, s \in Seqs : y = Head(channel[e]) /\ y.kind = kind /\ y.seq = s
  BY <1>3, MessageShapes
<1>5. UNCHANGED <<outbox, execution, produced, handling, yielded, call, streamCallbacks, received,
                  buffer, delivered, broken>>
  BY DEF JsOnResponse, JsOnStreamItem, JsOnStreamEnd, clientVars, serviceVars, jsHandlerVars
<1>6. /\ StreamOK(e, s) /\ MapsMatch(e, s) /\ ResponseIsFinal(e, s)
      /\ call[e][s] = "idle" /\ s \notin streamCallbacks[e]
      /\ delivered[e][s] \in Seq(Items) /\ chain[e][s] \in Seq(Items)
  BY <1>1, JsContext DEF JsSInv, CallOK, NoRustState, JInv, JsTypeOK
<1>7. /\ Had(e, s) = delivered[e][s] \o chain[e][s]
      /\ HasWaiting(e, s) <=> chain[e][s] # <<>>
      /\ WasSent(e, s) <=> promise[e][s] \notin {"idle", "threw", "refused"}
      /\ Routed(e, s) <=> promise[e][s] = "open" /\ s \notin broken[e]
      /\ HasEnded(e, s) <=> promise[e][s] = "done"
      /\ HeardEnd(e, s) <=>
           (promise[e][s] = "ending" /\ s \notin broken[e]) \/ promise[e][s] = "done"
  BY <1>6, JsHolds
<1>8. /\ Had(e, s)' = delivered[e][s] \o chain'[e][s]
      /\ HasWaiting(e, s)' <=> chain'[e][s] # <<>>
      /\ WasSent(e, s)' <=> promise'[e][s] \notin {"idle", "threw", "refused"}
      /\ Routed(e, s)' <=> promise'[e][s] = "open" /\ s \notin broken[e]
      /\ HasEnded(e, s)' <=> promise'[e][s] = "done"
      /\ HeardEnd(e, s)' <=>
           (promise'[e][s] = "ending" /\ s \notin broken[e]) \/ promise'[e][s] = "done"
  BY <1>5, <1>6 DEF Had, HasWaiting, WasSent, Routed, HasEnded, HeardEnd
<1>9. /\ promise' = promise \/ \E to : SetPromise(e, s, to)
      /\ chain' = chain \/ \E x : chain' = [chain EXCEPT ![e][s] = x]
  <2>1. CASE kind = "Response"
    BY <1>2, <1>4, <2>1 DEF JsOnResponse
  <2>2. CASE kind = "StreamItem"
    BY <1>2, <1>4, <2>2 DEF JsOnStreamItem
  <2>3. CASE kind = "StreamEnd"
    BY <1>2, <1>4, <2>3 DEF JsOnStreamEnd
  <2> QED
    BY <2>1, <2>2, <2>3
<1>10. \A d \in Ends, t \in Seqs : d # e \/ t # s => SameHolding(d, t)
  BY <1>1, <1>5, <1>9, JsHoldingElse
<1>11. /\ \A d \in Ends, t \in Seqs : d # e \/ t # s => SameStream(d, t)
       /\ \A f, t : SameServing(f, t)
       /\ kind # "StreamItem" => QueuesKept(e, s)
  BY <1>1, <1>3, <1>4, <1>5, <1>10, TakesOne
<1>12. SUFFICES StreamOK(e, s)'
  BY <1>1, <1>11, OnlyOne
<1>13. Made(e, s)' = Made(e, s) /\ (Over(Peer(e), s)' <=> Over(Peer(e), s))
  BY <1>11, SameMade
<1>14. ResponseIsComplete(e, s)'
  BY <1>5, <1>6 DEF ResponseIsComplete
<1>15. /\ \E a \in 0 .. Made(e, s) : Had(e, s) = FirstItems(a)
       /\ Had(e, s) # <<>> =>
            promise[e][s] \in {"open", "ending", "closing", "done", "closed", "failed"}
       /\ HeardEnd(e, s) => Had(e, s) = FirstItems(Made(e, s)) /\ Over(Peer(e), s)
       /\ HasEnded(e, s) => ~ HasWaiting(e, s)
  BY <1>6 DEF StreamOK, HadWasMade, EndIsComplete
<1>16. ASSUME promise' = promise, chain' = chain
       PROVE  SameHolding(e, s)
  BY <1>5, <1>16 DEF SameHolding
<1>17. /\ \A to : SetPromise(e, s, to) => promise'[e][s] = to
       /\ \A x : chain' = [chain EXCEPT ![e][s] = x] => chain'[e][s] = x
  <2>1. promise \in [Ends -> [Seqs -> PromiseStates]] /\ chain \in [Ends -> [Seqs -> Seq(Items)]]
    BY <1>1 DEF JInv, JsTypeOK
  <2>2. \A to : SetPromise(e, s, to) => promise'[e][s] = to
    BY <1>1, <2>1 DEF SetPromise
  <2>3. \A x : chain' = [chain EXCEPT ![e][s] = x] => chain'[e][s] = x
    BY <1>1, <2>1
  <2> QED
    BY <2>2, <2>3
<1>18. CASE kind = "Response"
  <2>1. /\ chain' = chain
        /\ \/ s \notin pendingRequests[e] /\ promise' = promise
           \/ s \in pendingRequests[e] /\ promise'[e][s] = "settled"
    BY <1>2, <1>4, <1>18, <1>17 DEF JsOnResponse
  <2>2. Answered(e, s)
    BY <1>1, <1>3, <1>4, <1>18, QueueTail, MessageShapes DEF Answered
  <2>3. promise[e][s] # "threw"
    BY <1>6, <1>7, <2>2 DEF StreamOK, ServedWasSent, Untouched, ResponseIsFinal
  <2>4. CASE promise' = promise
    BY <1>1, <1>6, <1>11, <1>16, <1>18, <2>1, <2>4, StreamFrame DEF SameStream
  <2>5. CASE s \in pendingRequests[e] /\ promise'[e][s] = "settled"
    <3>1. promise[e][s] = "pending"
      BY <1>6, <2>3, <2>5 DEF MapsMatch
    <3>2. Had(e, s)' = Had(e, s) /\ Had(e, s) = <<>>
      BY <1>7, <1>8, <1>15, <2>1, <3>1
    <3>3. HadWasMade(e, s)' /\ EndIsComplete(e, s)'
      BY <1>8, <1>13, <1>15, <2>5, <3>2 DEF HadWasMade, EndIsComplete
    <3> QED
      BY <1>1, <1>6, <1>8, <1>11, <1>14, <1>18, <2>5, <3>3, HolderMoves
  <2> QED
    BY <2>1, <2>4, <2>5
<1>19. CASE kind = "StreamItem"
  <2>1. \/ /\ promise' = promise
           /\ chain'[e][s] = IF s \in openStreams[e] \ broken[e]
                               THEN Append(chain[e][s], y.item) ELSE chain[e][s]
        \/ s \in openStreams[e] /\ promise'[e][s] = "failed" /\ chain' = chain
    <3>1. JsOnStreamItem(e)
      BY <1>2, <1>19
    <3>2. \/ /\ chain' = IF s \in openStreams[e] \ broken[e]
                           THEN [chain EXCEPT ![e][s] = Append(@, y.item)] ELSE chain
             /\ promise' = promise
          \/ s \in openStreams[e] /\ SetPromise(e, s, "failed") /\ chain' = chain
      BY <1>4, <3>1 DEF JsOnStreamItem
    <3> QED
      BY <1>17, <3>2
  <2>2. y.item \in Items /\ IsItem(y, s)
    BY <1>4, <1>19, MessageShapes, PlainMessages
  <2>3. WasSent(e, s)
    <3>1. HasItem(channel[e], s)
      BY <1>1, <1>3, <1>4, <2>2, Positions DEF HasItem
    <3> QED
      BY <1>6, <3>1 DEF StreamOK, NothingMadeEarly, ServedWasSent
  <2>4. s \in openStreams[e] <=> promise[e][s] = "open"
    BY <1>6, <1>7, <2>3 DEF MapsMatch
  <2>5. CASE promise' = promise /\ chain'[e][s] = Append(chain[e][s], y.item) /\ Routed(e, s)
    <3>1. Had(e, s)' = Append(Had(e, s), y.item)
      <4>1. delivered[e][s] \o Append(chain[e][s], y.item) = Append(delivered[e][s] \o chain[e][s], y.item)
        BY <1>6, <2>2, HadFacts
      <4> QED
        BY <1>7, <1>8, <2>5, <4>1
    <3>2. promise'[e][s] = "open" /\ ~ HeardEnd(e, s)' /\ ~ HasEnded(e, s)' /\ WasSent(e, s)'
      BY <1>7, <1>8, <2>5
    <3> QED
      BY <1>1, <1>3, <1>4, <1>5, <1>6, <1>11, <1>14, <2>2, <2>5, <3>1, <3>2, HolderTakes
  <2>6. CASE promise' = promise /\ chain'[e][s] = chain[e][s] /\ ~ Routed(e, s)
    <3>1. /\ Had(e, s)' = Had(e, s) /\ ~ Routed(e, s)' /\ (HeardEnd(e, s)' => HeardEnd(e, s))
          /\ HasEnded(e, s)' => HasEnded(e, s) /\ (HasWaiting(e, s)' => HasWaiting(e, s))
          /\ WasSent(e, s)'
      BY <1>7, <1>8, <2>3, <2>6
    <3>2. Had(e, s)' # <<>> =>
            promise'[e][s] \in {"open", "ending", "closing", "done", "closed", "failed"}
      BY <1>15, <2>6, <3>1
    <3> QED
      BY <1>1, <1>3, <1>4, <1>5, <1>6, <1>11, <1>14, <2>2, <3>1, <3>2, HolderTakes
  <2>7. CASE promise'[e][s] = "failed" /\ chain' = chain
    <3>1. /\ Had(e, s)' = Had(e, s) /\ ~ Routed(e, s)' /\ ~ HeardEnd(e, s)' /\ ~ HasEnded(e, s)'
          /\ WasSent(e, s)'
      BY <1>7, <1>8, <2>7
    <3> QED
      BY <1>1, <1>3, <1>4, <1>5, <1>6, <1>11, <1>14, <2>2, <2>7, <3>1, HolderTakes
  <2> QED
    BY <1>7, <2>1, <2>4, <2>5, <2>6, <2>7
<1>20. CASE kind = "StreamEnd"
  <2>1. /\ chain' = chain
        /\ \/ s \notin openStreams[e] /\ promise' = promise
           \/ s \in openStreams[e] /\ promise'[e][s] = "ending"
    BY <1>2, <1>4, <1>20, <1>17 DEF JsOnStreamEnd
  <2>2. /\ WasSent(e, s)
        /\ Routed(e, s) => Had(e, s) = FirstItems(Made(e, s)) /\ Over(Peer(e), s)
    BY <1>1, <1>3, <1>4, <1>6, <1>20, MessageShapes, EndTaken
  <2>3. CASE promise' = promise
    BY <1>1, <1>6, <1>11, <1>16, <1>20, <2>1, <2>3, StreamFrame DEF SameStream
  <2>4. CASE s \in openStreams[e] /\ promise'[e][s] = "ending"
    <3>1. promise[e][s] = "open"
      BY <1>6, <1>7, <2>2, <2>4 DEF MapsMatch
    <3>2. Had(e, s)' = Had(e, s)
      BY <1>7, <1>8, <2>1
    <3>3. HadWasMade(e, s)' /\ EndIsComplete(e, s)'
      BY <1>7, <1>8, <1>13, <1>15, <2>2, <2>4, <3>1, <3>2 DEF HadWasMade, EndIsComplete
    <3> QED
      BY <1>1, <1>6, <1>8, <1>11, <1>14, <1>20, <2>4, <3>3, HolderMoves
  <2> QED
    BY <2>1, <2>3, <2>4
<1> QED
  BY <1>18, <1>19, <1>20
-----------------------------------------------------------------------------
(* A server in JavaScript.  An end that is posted holds up no item,        *)
LEMMA WholePosted ==
  ASSUME NEW had, NEW q \in Seq(Message), NEW o, NEW s, NEW n \in Nat,
         Unbroken(had, q, o, s, n), NEW y \in Message, ~ IsItem(y, s)
  PROVE  Unbroken(had, Append(q, y), o, s, n)
<1>1. PICK a \in 0 .. n, b \in 0 .. n :
        /\ a <= b /\ had = FirstItems(a) /\ Carries(q, s, a, b) /\ Carries(o, s, b, n)
  BY DEF Unbroken
<1>2. a \in Nat /\ b \in Nat
  OBVIOUS
<1>3. Carries(Append(q, y), s, a, b)
  BY <1>1, <1>2, ChannelAppend
<1> QED
  BY <1>1, <1>3 DEF Unbroken

(* and is the last of its stream, whose handler is done.                   *)
LEMMA JsEndPosts ==
  ASSUME JsSInv, NEW g \in JsEnds, NEW e \in Ends, e = Peer(g), NEW s \in Seqs,
         SameHolding(e, s), UNCHANGED <<serviceVars, yielded>>,
         channel'[e] = Append(channel[e], EndMsg(s)),
         ~ Over(g, s), WasSent(e, s), handling'[g][s] \in {"over", "abandoned"}
  PROVE  StreamOK(e, s)'
<1>1. /\ JInv /\ Peer(e) = g /\ StreamOK(e, s) /\ outbox[g] = <<>> /\ outbox' = outbox
      /\ execution' = execution /\ channel[e] \in Seq(Message)
      /\ Made(e, s) \in Nat /\ Made(e, s)' = Made(e, s)
  BY JsContext, StreamTypes DEF JsSInv, NoRustState, serviceVars, Made
<1>2. EndMsg(s) \in Message /\ ~ IsItem(EndMsg(s), s)
  BY MessageFacts, ItemShapes
<1>3. ~ Untouched(g, s)' /\ Over(g, s)' /\ handling[g][s] # "over"
  BY DEF Untouched, Over
<1>4. EndComesLast(e, s)'
  <2>1. EndMsgIsLast(channel'[e], s)
    BY <1>1, <1>2, ChannelAppend DEF StreamOK, EndComesLast
  <2>2. MarkerIsLast(outbox'[g], s) /\ ~ HasEntry(outbox'[g], s)
    BY <1>1 DEF MarkerIsLast, HasEntry
  <2> QED
    BY <1>1, <1>3, <2>1, <2>2 DEF EndComesLast
<1>5. RestIsComing(e, s)'
  <2>1. Routed(e, s)' => Routed(e, s) /\ Had(e, s)' = Had(e, s)
    BY SameHad
  <2>2. Unbroken(Had(e, s), channel[e], outbox[g], s, Made(e, s)) =>
          Unbroken(Had(e, s), channel'[e], outbox[g], s, Made(e, s))
    BY <1>1, <1>2, WholePosted
  <2> QED
    BY <1>1, <2>1, <2>2 DEF StreamOK, RestIsComing, Whole
<1> QED
  BY <1>1, <1>3, <1>4, <1>5, ServerMoves

(* What it posts concerns the stream whose number it carries and no other. *)
LEMMA JsPostsOne ==
  ASSUME JInv, NEW g \in JsEnds, NEW y \in Message, JsSend(g, y), UNCHANGED outbox,
         NEW d \in Ends, NEW t \in Seqs, d = Peer(g) => ~ IsItem(y, t) /\ y # EndMsg(t)
  PROVE  QueuesKept(d, t)
<1>1. g \in Ends
  BY JsContext
<1>2. KeepsChannel(channel[d], channel'[d], t)
  BY <1>1, PostKept, KeepsSame DEF JsSend
<1> QED
  BY <1>2, KeepsSame DEF QueuesKept

(* A handler settles, or its stream ends.                                  *)
LEMMA JsSettlingStreams ==
  ASSUME JsSInv, NEW g \in JsEnds, NEW s \in Seqs, HandlerSettles(g, s) \/ FinishIteration(g, s),
         UNCHANGED <<clientVars, serviceVars>>
  PROVE  \A d \in Ends, t \in Seqs : StreamOK(d, t)'
<1>1. PICK e \in Ends : e = Peer(g) /\ Peer(e) = g /\ StreamOK(e, s) /\ g \in Ends
                        /\ JInv /\ execution[g][s] = "none"
  BY JsContext DEF JsSInv, NoRustState
<1>2. /\ UNCHANGED <<jsCallerVars, yielded, outbox, execution, produced>>
      /\ handling[g][s] \in {"running", "iterating"}
      /\ \E to \in {"abandoned", "over", "unanswered"} : SetHandling(g, s, to)
  BY DEF HandlerSettles, FinishIteration, serviceVars
<1>3. /\ handling'[g][s] \in {"abandoned", "over", "unanswered"}
      /\ \A f \in Ends, t \in Seqs : f # g \/ t # s => SameServing(f, t)
  BY <1>1, <1>2 DEF SetHandling, SameServing, JInv, JsTypeOK
<1>4. WasSent(e, s) /\ ~ Over(g, s) /\ ~ Untouched(g, s)'
  BY <1>1, <1>2, <1>3 DEF StreamOK, ServedWasSent, Untouched, Over
<1>5. ASSUME SameHolding(e, s), QueuesKept(e, s)
      PROVE  StreamOK(e, s)'
  BY <1>1, <1>2, <1>4, <1>5, ServerQuiet
<1>6. ASSUME NEW d \in Ends, NEW t \in Seqs
      PROVE  /\ channel' = channel => QueuesKept(d, t)
             /\ JsSend(g, ResponseMsg(s)) => QueuesKept(d, t)
             /\ JsSend(g, EndMsg(s)) /\ (d # e \/ t # s) => QueuesKept(d, t)
  <2>1. /\ ResponseMsg(s) \in Message /\ ~ IsItem(ResponseMsg(s), t) /\ ResponseMsg(s) # EndMsg(t)
        /\ EndMsg(s) \in Message /\ ~ IsItem(EndMsg(s), t) /\ (t # s => EndMsg(s) # EndMsg(t))
    BY MessageFacts, ItemShapes
  <2>2. channel' = channel => QueuesKept(d, t)
    BY <1>2, KeepsSame DEF QueuesKept
  <2> QED
    BY <1>1, <1>2, <2>1, <2>2, JsPostsOne
<1>7. CASE HandlerSettles(g, s)
  <2>1. channel' = channel \/ JsSend(g, ResponseMsg(s))
    BY <1>7 DEF HandlerSettles
  <2> QED
    BY <1>1, <1>2, <1>3, <1>5, <1>6, <2>1, ServedOne
<1>8. CASE FinishIteration(g, s)
  <2>1. JsSend(g, EndMsg(s)) /\ handling'[g][s] \in {"abandoned", "over"}
    BY <1>1, <1>8 DEF FinishIteration, SetHandling, JInv, JsTypeOK
  <2>2. ASSUME SameHolding(e, s)
        PROVE  StreamOK(e, s)'
    <3>1. CASE channel' = channel
      BY <1>1, <1>5, <1>6, <2>2, <3>1
    <3>2. CASE Post(g, EndMsg(s))
      <4>1. channel'[e] = Append(channel[e], EndMsg(s))
        BY <1>1, <3>2, PostEffect, MessageFacts DEF JInv, TypeOK
      <4> QED
        BY <1>1, <1>2, <1>4, <2>1, <2>2, <4>1, JsEndPosts
    <3> QED
      BY <2>1, <3>1, <3>2 DEF JsSend
  <2> QED
    BY <1>1, <1>2, <1>3, <1>6, <2>1, <2>2, ServedOne
<1> QED
  BY <1>7, <1>8
(* The loop of a stream posts its next item.                               *)
LEMMA JsYieldStreams ==
  ASSUME JsSInv, NEW g \in JsEnds, NEW s \in Seqs, Yield(g, s), UNCHANGED <<clientVars, serviceVars>>
  PROVE  \A d \in Ends, t \in Seqs : StreamOK(d, t)'
<1> DEFINE n == yielded[g][s]
<1>1. PICK e \in Ends : /\ e = Peer(g) /\ Peer(e) = g /\ StreamOK(e, s) /\ TracesMatch(e, s)
                        /\ g \in Ends /\ JInv /\ execution[g][s] = "none" /\ outbox[g] = <<>>
  BY JsContext DEF JsSInv, NoRustState, CallOK
<1>2. /\ UNCHANGED <<jsCallerVars, handling, outbox, execution, produced>>
      /\ handling[g][s] = "iterating" /\ n \in Nat
      /\ yielded' = [yielded EXCEPT ![g][s] = n + 1]
      /\ yielded \in [Ends -> [Seqs -> 0 .. MaxItems]]
  BY <1>1, BoundsAssumption DEF Yield, serviceVars, JInv, JsTypeOK
<1>3. /\ yielded'[g][s] = n + 1
      /\ \A f \in Ends, t \in Seqs : f # g \/ t # s => SameServing(f, t)
  BY <1>1, <1>2 DEF SameServing
<1>4. PICK y \in Message :
        /\ y = ItemMsg(s, n + 1) /\ y.item = n + 1 /\ y.kind = "StreamItem" /\ y.seq = s
        /\ IsItem(y, s) /\ Post(g, y)
  <2>1. n + 1 \in Items /\ n + 1 # None
    BY <1>1, <1>2, BoundsAssumption DEF Yield, Items, None, JInv, JsTypeOK
  <2>2. g \notin closed
    BY <1>1 DEF TracesMatch, Yield
  <2> QED
    BY <2>1, <2>2, MessageFacts, ItemShapes DEF Yield, JsSend
<1>5. \A d \in Ends, t \in Seqs : d # e \/ t # s => QueuesKept(d, t)
  <2>1. \A t : t # s => ~ IsItem(y, t)
    BY <1>4, ItemShapes
  <2>2. \A t : y # EndMsg(t)
    BY <1>4, MessageFacts
  <2> QED
    BY <1>1, <1>2, <1>4, <2>1, <2>2, PostKept, KeepsSame DEF QueuesKept
<1>6. ASSUME SameHolding(e, s)
      PROVE  StreamOK(e, s)'
  <2>1. /\ channel[e] \in Seq(Message) /\ channel'[e] = Append(channel[e], y)
        /\ Made(e, s) = n /\ Made(e, s)' = n + 1
    BY <1>1, <1>3, <1>4, PostEffect DEF Made, JInv, TypeOK
  <2>2. Had(e, s)' = Had(e, s) /\ (Routed(e, s)' <=> Routed(e, s))
    BY <1>6, SameHad
  <2>3. ~ Untouched(g, s) /\ ~ Over(g, s) /\ WasSent(e, s) /\ ~ Untouched(g, s)'
    BY <1>1, <1>2 DEF StreamOK, ServedWasSent, Untouched, Over
  <2>4. ~ InQueue(EndMsg(s), channel'[e])
    BY <1>1, <1>4, <2>1, <2>3, QueueAppend, MessageFacts DEF StreamOK, EndComesLast, EndPosted
  <2>5. EndComesLast(e, s)'
    BY <1>1, <1>2, <2>4 DEF EndComesLast, EndPosted, EndMsgIsLast, MarkerIsLast, InQueue
  <2>6. RestIsComing(e, s)'
    <3>1. ~ HasItem(<<>>, s)
      BY DEF HasItem
    <3>2. ASSUME Unbroken(Had(e, s), channel[e], <<>>, s, n)
          PROVE  Unbroken(Had(e, s), channel'[e], <<>>, s, n + 1)
      <4>1. <<>> \in Seq(StreamMessage)
        OBVIOUS
      <4> HIDE DEF n
      <4> QED
        BY <1>2, <1>4, <2>1, <3>1, <3>2, <4>1, WholeMade
    <3> QED
      BY <1>1, <1>2, <2>1, <2>2, <3>2 DEF StreamOK, RestIsComing, Whole
  <2> QED
    BY <1>1, <1>2, <1>6, <2>1, <2>3, <2>5, <2>6, ServerMoves
<1> QED
  BY <1>1, <1>2, <1>3, <1>5, <1>6, ServedOne

(* A request arrives; it is new, and was sent.                             *)
LEMMA JsRequestStreams ==
  ASSUME JsSInv, NEW g \in JsEnds, JsOnRequest(g), UNCHANGED <<clientVars, serviceVars>>
  PROVE  \A d \in Ends, t \in Seqs : StreamOK(d, t)'
<1>1. /\ JInv /\ g \in Ends /\ channel \in [Ends -> Seq(Message)]
      /\ channel[g] # <<>> /\ Head(channel[g]).kind = "Request"
      /\ UNCHANGED <<jsCallerVars, yielded, outbox, execution, produced>>
  BY JsContext DEF JsOnRequest, Arrives, JsSInv, JInv, TypeOK, serviceVars
<1>2. PICK y \in Message, s \in Seqs, m \in Methods :
        y = Head(channel[g]) /\ y.kind = "Request" /\ y.seq = s /\ y = RequestMsg(s, m)
  <2>1. Head(channel[g]) \in Message
    BY <1>1, QueueTail
  <2> QED
    BY <1>1, <2>1, MessageShapes
<1>3. PICK e \in Ends : /\ e = Peer(g) /\ Peer(e) = g /\ e # g /\ StreamOK(e, s)
                        /\ RequestIsFresh(e, s) /\ \A d \in Ends : d = e \/ d = g
  BY <1>1, JsContext DEF JsSInv, CallOK
<1>4. Untouched(g, s) /\ ~ Over(g, s) /\ WasSent(e, s)
  <2>1. InQueue(RequestMsg(s, m), channel[g])
    BY <1>1, <1>2, QueueTail
  <2>2. Untouched(g, s) /\ Holds(e, s, m)
    BY <1>3, <2>1 DEF RequestIsFresh
  <2> QED
    BY <2>2, HeldWasSent DEF Untouched, Over
<1>5. /\ \E to \in {"undecoded", "over", "running", "iterating"} : SetHandling(g, s, to)
      /\ \/ TakeAndPost(g, <<>>)
         \/ TakeAndPost(g, <<EndMsg(s)>>) /\ SetHandling(g, s, "over")
  BY <1>2 DEF JsOnRequest
<1>6. /\ handling'[g][s] \in {"undecoded", "over", "running", "iterating"}
      /\ SetHandling(g, s, "over") => handling'[g][s] = "over"
      /\ \A f \in Ends, t \in Seqs : f # g \/ t # s => handling'[f][t] = handling[f][t]
  BY <1>1, <1>5 DEF SetHandling, JInv, JsTypeOK
<1>7. \A f \in Ends, t \in Seqs : f # g \/ t # s => SameServing(f, t)
  BY <1>1, <1>6 DEF SameServing
<1>8. /\ channel'[g] = Tail(channel[g])
      /\ \/ channel'[e] = channel[e]
         \/ channel'[e] = Append(channel[e], EndMsg(s)) /\ handling'[g][s] = "over"
  <2>1. <<>> \in Seq(Message) /\ EndMsg(s) \in Message
    BY MessageFacts
  <2>2. CASE TakeAndPost(g, <<>>)
    BY <1>1, <1>3, <2>1, <2>2, TakeAndPostEffect DEF TakesHead
  <2>3. CASE TakeAndPost(g, <<EndMsg(s)>>) /\ SetHandling(g, s, "over")
    BY <1>1, <1>3, <1>6, <2>1, <2>3, TakeAndPostOne
  <2> QED
    BY <1>5, <2>2, <2>3
<1>9. ASSUME NEW d \in Ends, NEW t \in Seqs, d # e \/ t # s \/ channel'[e] = channel[e]
      PROVE  QueuesKept(d, t)
  <2>1. CASE d = g
    <3>1. ~ IsItem(Head(channel[g]), t) /\ channel[g] \in Seq(Message)
      BY <1>1, <1>2, ItemShapes
    <3> QED
      BY <1>1, <1>8, <2>1, <3>1, ChannelTail, KeepsSame DEF QueuesKept
  <2>2. CASE d = e /\ channel'[e] = channel[e]
    BY <1>1, <2>2, KeepsSame DEF QueuesKept
  <2>3. CASE d = e /\ t # s /\ channel'[e] = Append(channel[e], EndMsg(s))
    <3>1. /\ EndMsg(s) \in Message /\ ~ IsItem(EndMsg(s), t) /\ EndMsg(s) # EndMsg(t)
          /\ channel[e] \in Seq(Message)
      BY <1>1, <2>3, MessageFacts, ItemShapes
    <3>2. KeepsChannel(channel[e], Append(channel[e], EndMsg(s)), t)
      BY <3>1, ChannelAppend
    <3> QED
      BY <1>1, <2>3, <3>2, KeepsSame DEF QueuesKept
  <2> QED
    BY <1>3, <1>8, <1>9, <2>1, <2>2, <2>3
<1>10. ASSUME SameHolding(e, s)
       PROVE  StreamOK(e, s)'
  <2>1. CASE channel'[e] = channel[e]
    <3>1. QueuesKept(e, s) /\ ~ Untouched(g, s)' /\ handling[g][s] # "over"
      BY <1>4, <1>6, <1>9, <2>1 DEF Untouched
    <3> QED
      BY <1>1, <1>3, <1>4, <1>10, <3>1, ServerQuiet DEF Untouched
  <2>2. CASE channel'[e] = Append(channel[e], EndMsg(s)) /\ handling'[g][s] = "over"
    BY <1>1, <1>3, <1>4, <1>10, <2>2, JsEndPosts
  <2> QED
    BY <1>8, <2>1, <2>2
<1> QED
  BY <1>1, <1>3, <1>7, <1>9, <1>10, ServedOne

(* An abort arrives.                                                       *)
LEMMA JsAbortStreams ==
  ASSUME JsSInv, NEW g \in JsEnds, JsOnAbort(g), UNCHANGED <<clientVars, serviceVars>>
  PROVE  \A d \in Ends, t \in Seqs : StreamOK(d, t)'
<1>1. /\ JInv /\ g \in Ends /\ channel \in [Ends -> Seq(Message)]
      /\ channel[g] # <<>> /\ Head(channel[g]).kind = "Abort" /\ TakeAndPost(g, <<>>)
      /\ UNCHANGED <<jsCallerVars, handling, yielded, outbox, execution, produced>>
  BY JsContext DEF JsOnAbort, Arrives, JsSInv, JInv, TypeOK, serviceVars
<1>2. TakesHead(g) /\ Head(channel[g]) \in Message
  <2>1. <<>> \in Seq(Message)
    OBVIOUS
  <2> QED
    BY <1>1, <2>1, TakeAndPostEffect
<1>3. \A d \in Ends, t \in Seqs : QueuesKept(d, t)
  BY <1>1, <1>2, PlainMessages, TakeKept, KeepsSame DEF QueuesKept
<1>4. \A d \in Ends, t \in Seqs : SameStream(d, t)
  BY <1>1, <1>3 DEF SameStream, SameServing, SameHolding, clientVars, jsCallerVars
<1> QED
  BY <1>4, StreamFrame DEF JsSInv
-----------------------------------------------------------------------------
(* An endpoint that is closed or fails: its streams are taken no more, and *)
(* nobody hears of their ends; a message of its channel may be lost.       *)
LEMMA StreamCut ==
  ASSUME JInv, NEW e \in Ends, NEW s \in Seqs, StreamOK(e, s),
         channel' = channel \/ TakesHead(e), outbox' = outbox, SameServing(Peer(e), s),
         ~ Routed(e, s)', Had(e, s)' = Had(e, s), WasSent(e, s) => WasSent(e, s)',
         HeardEnd(e, s)' => HeardEnd(e, s),
         HasEnded(e, s)' => HasEnded(e, s) /\ (HasWaiting(e, s)' => HasWaiting(e, s)),
         Had(e, s)' # <<>> =>
           \/ call'[e][s] \in {"open", "closed", "ended", "drained", "dropped"}
           \/ promise'[e][s] \in {"open", "ending", "closing", "done", "closed", "failed"},
         ResponseIsComplete(e, s)'
  PROVE  StreamOK(e, s)'
<1>1. /\ Made(e, s)' = Made(e, s)
      /\ Over(Peer(e), s)' <=> Over(Peer(e), s)
      /\ Untouched(Peer(e), s)' <=> Untouched(Peer(e), s)
  BY SameMade
<1>2. /\ HasItem(channel'[e], s) => HasItem(channel[e], s)
      /\ EndMsgIsLast(channel[e], s) => EndMsgIsLast(channel'[e], s)
      /\ InQueue(EndMsg(s), channel'[e]) => InQueue(EndMsg(s), channel[e])
  <2>1. channel[e] \in Seq(Message)
    BY DEF JInv, TypeOK
  <2> QED
    BY <2>1, ChannelTail DEF TakesHead
<1>3. NothingMadeEarly(e, s)' /\ ServedWasSent(e, s)' /\ EndComesLast(e, s)'
  BY <1>1, <1>2 DEF StreamOK, NothingMadeEarly, ServedWasSent, EndComesLast, EndPosted
<1>4. HadWasMade(e, s)' /\ EndIsComplete(e, s)' /\ RestIsComing(e, s)'
  BY <1>1 DEF StreamOK, HadWasMade, EndIsComplete, RestIsComing
<1> QED
  BY <1>3, <1>4 DEF StreamOK

(* What becomes of its promises.                                           *)
LEMMA EndingPromises ==
  ASSUME JInv, NEW e \in JsEnds, CloseEndpoint(e) \/ Fail(e) \/ Discard(e)
  PROVE  /\ \A s \in Seqs :
              /\ promise'[e][s] \notin {"pending", "open"}
              /\ \/ promise'[e][s] = promise[e][s]
                 \/ promise[e][s] = "pending" /\ promise'[e][s] = "rejected"
                 \/ promise[e][s] = "open" /\ promise'[e][s] \in {"closing", "failed"}
         /\ \A d \in Ends, s \in Seqs : d # e => promise'[d][s] = promise[d][s]
<1>1. /\ e \in Ends /\ promise \in [Ends -> [Seqs -> PromiseStates]]
      /\ \A s \in Seqs : e \in closed \cup failure => promise[e][s] \notin {"pending", "open"}
  BY JsContext DEF JInv, JsTypeOK, CallOK, MapsMatch
<1>2. ASSUME NEW status \in {"closing", "failed"}, SettleAll(e, status)
      PROVE  /\ \A s \in Seqs : promise'[e][s] =
                  (CASE promise[e][s] = "pending" -> "rejected"
                     [] promise[e][s] = "open" -> status
                     [] OTHER -> promise[e][s])
             /\ \A d \in Ends, s \in Seqs : d # e => promise'[d][s] = promise[d][s]
  BY <1>1, <1>2 DEF SettleAll
<1>3. CASE \E status \in {"closing", "failed"} : SettleAll(e, status)
  BY <1>2, <1>3
<1>4. CASE promise' = promise /\ e \in closed \cup failure
  BY <1>1, <1>4
<1>5. CASE CloseEndpoint(e)
  BY <1>3, <1>5 DEF CloseEndpoint
<1>6. CASE Fail(e)
  <2>1. CASE e \in failure
    BY <1>4, <1>6, <2>1 DEF Fail, jsCallerVars
  <2>2. CASE e \notin failure
    BY <1>3, <1>6, <2>2 DEF Fail
  <2> QED
    BY <2>1, <2>2
<1>7. CASE Discard(e)
  BY <1>4, <1>7 DEF Discard, jsVars, jsCallerVars
<1> QED
  BY <1>5, <1>6, <1>7

LEMMA JsEndingStreams ==
  ASSUME JsSInv, NEW e \in JsEnds, CloseEndpoint(e) \/ Fail(e) \/ Discard(e),
         UNCHANGED <<clientVars, serviceVars>>
  PROVE  \A d \in Ends, t \in Seqs : StreamOK(d, t)'
<1>1. /\ JInv /\ e \in Ends /\ NoRustState(e) /\ \A d \in Ends, t \in Seqs : StreamOK(d, t)
      /\ \A d \in Ends : d # e => d = Peer(e)
      /\ channel \in [Ends -> Seq(Message)]
  BY JsContext DEF JsSInv, JInv, TypeOK
<1>2. /\ UNCHANGED <<handling, yielded, execution, produced, outbox, call, streamCallbacks, received,
                     buffer, delivered, chain, broken>>
      /\ channel' = channel \/ (channel[e] # <<>> /\ TakeAndPost(e, <<>>))
  BY DEF CloseEndpoint, Fail, Discard, SettleAll, jsVars, jsCallerVars, jsHandlerVars, clientVars,
         serviceVars
<1>3. channel' = channel \/ TakesHead(e)
  <2>1. <<>> \in Seq(Message)
    OBVIOUS
  <2> QED
    BY <1>1, <1>2, <2>1, TakeAndPostEffect
<1>4. \A f, t : SameServing(f, t)
  BY <1>2 DEF SameServing
<1>5. ASSUME NEW d \in Ends, NEW t \in Seqs, d # e
      PROVE  StreamOK(d, t)'
  <2>1. channel'[d] = channel[d]
    BY <1>1, <1>3, <1>5 DEF TakesHead
  <2>2. SameHolding(d, t)
    BY <1>1, <1>2, <1>5, EndingPromises DEF SameHolding
  <2> QED
    BY <1>1, <1>2, <1>4, <2>1, <2>2, StreamFrame, KeepsSame DEF SameStream, QueuesKept
<1>6. ASSUME NEW s \in Seqs
      PROVE  StreamOK(e, s)'
  <2>1. /\ promise'[e][s] \notin {"pending", "open"}
        /\ \/ promise'[e][s] = promise[e][s]
           \/ promise[e][s] = "pending" /\ promise'[e][s] = "rejected"
           \/ promise[e][s] = "open" /\ promise'[e][s] \in {"closing", "failed"}
    BY <1>1, EndingPromises
  <2>2. call[e][s] = "idle" /\ s \notin streamCallbacks[e] /\ StreamOK(e, s)
    BY <1>1 DEF NoRustState
  <2>3. /\ Had(e, s)' = Had(e, s) /\ (HasWaiting(e, s)' <=> HasWaiting(e, s))
        /\ ~ Routed(e, s)' /\ (WasSent(e, s) => WasSent(e, s)')
        /\ HeardEnd(e, s)' => HeardEnd(e, s)
        /\ HasEnded(e, s)' => HasEnded(e, s)
    BY <1>2, <2>1, <2>2 DEF Had, HasWaiting, Routed, WasSent, HeardEnd, HasEnded
  <2>4. Had(e, s)' # <<>> =>
          promise'[e][s] \in {"open", "ending", "closing", "done", "closed", "failed"}
    BY <2>1, <2>2, <2>3 DEF StreamOK, HadWasMade
  <2>5. ResponseIsComplete(e, s)'
    BY <1>2, <2>2 DEF ResponseIsComplete
  <2> QED
    BY <1>1, <1>2, <1>3, <1>4, <2>2, <2>3, <2>4, <2>5, StreamCut
<1> QED
  BY <1>5, <1>6

(* Every step of an endpoint.                                              *)
LEMMA JsStreams ==
  ASSUME JsSInv, NEW e \in JsEnds, JsStep(e), UNCHANGED <<clientVars, serviceVars>>
  PROVE  \A d \in Ends, t \in Seqs : StreamOK(d, t)'
<1>1. CASE JsCall(e) /\ UNCHANGED <<closed, failure, jsHandlerVars>>
  BY <1>1, JsNewStreams
<1>2. ASSUME NEW s \in Seqs, JsCallerStep(e, s), UNCHANGED <<closed, failure, jsHandlerVars>>
      PROVE  \A d \in Ends, t \in Seqs : StreamOK(d, t)'
  BY <1>2, JsCallerStreams
<1>3. ASSUME NEW s \in Seqs, JsHandlerStep(e, s)
      PROVE  \A d \in Ends, t \in Seqs : StreamOK(d, t)'
  BY <1>3, JsSettlingStreams, JsYieldStreams DEF JsHandlerStep
<1>4. CASE JsDispatch(e)
  BY <1>4, JsAnswerStreams, JsRequestStreams, JsAbortStreams DEF JsDispatch
<1>5. CASE CloseEndpoint(e) \/ Fail(e) \/ Discard(e)
  BY <1>5, JsEndingStreams
<1> QED
  BY <1>1, <1>2, <1>3, <1>4, <1>5 DEF JsStep

-----------------------------------------------------------------------------
(* The invariant holds at the start, and every step keeps it.              *)
LEMMA InitStreams == Init => JsSInv
<1> SUFFICES ASSUME Init, NEW e \in Ends, NEW s \in Seqs PROVE StreamOK(e, s)
  BY InitJ DEF JsSInv
<1>1. /\ Peer(e) \in Ends /\ channel[e] = <<>> /\ outbox[Peer(e)] = <<>>
      /\ call[e][s] = "idle" /\ promise[e][s] = "idle" /\ streamCallbacks[e] = {}
      /\ received[e][s] = <<>> /\ buffer[e][s] = <<>> /\ delivered[e][s] = <<>> /\ chain[e][s] = <<>>
      /\ execution[Peer(e)][s] = "none" /\ handling[Peer(e)][s] = "none"
      /\ produced[Peer(e)][s] = 0 /\ yielded[Peer(e)][s] = 0
  BY PeerProps DEF Init, ClientInit, ServiceInit, JsInit
<1>2. /\ ~ HasItem(<<>>, s) /\ Made(e, s) = 0 /\ Had(e, s) = <<>>
      /\ ~ Routed(e, s) /\ ~ HeardEnd(e, s) /\ ~ HasEnded(e, s) /\ Untouched(Peer(e), s)
  BY <1>1 DEF HasItem, Made, Had, Routed, HeardEnd, HasEnded, Untouched
<1>3. NothingMadeEarly(e, s) /\ ServedWasSent(e, s)
  BY <1>1, <1>2 DEF NothingMadeEarly, ServedWasSent
<1>4. EndComesLast(e, s)
  BY <1>1 DEF EndComesLast, MarkerIsLast, EndMsgIsLast, EndPosted, InQueue
<1>5. HadWasMade(e, s)
  BY <1>2, FirstItemsFacts DEF HadWasMade
<1>6. RestIsComing(e, s) /\ EndIsComplete(e, s) /\ ResponseIsComplete(e, s)
  BY <1>1, <1>2 DEF RestIsComing, EndIsComplete, ResponseIsComplete
<1> QED
  BY <1>3, <1>4, <1>5, <1>6 DEF StreamOK

LEMMA StepStreams == JsSInv /\ [Next]_vars => JsSInv'
<1> SUFFICES ASSUME JsSInv, [Next]_vars PROVE JsSInv'
  OBVIOUS
<1>1. JInv'
  BY StepJ DEF JsSInv
<1>2. \A e \in Ends, s \in Seqs : StreamOK(e, s)'
  <2>1. ASSUME NEW g \in Ends, InterfaceStep(g), UNCHANGED jsVars
        PROVE  \A d \in Ends, t \in Seqs : StreamOK(d, t)'
    BY <2>1, RustStreams
  <2>2. ASSUME NEW g \in JsEnds, JsStep(g), UNCHANGED <<clientVars, serviceVars>>
        PROVE  \A d \in Ends, t \in Seqs : StreamOK(d, t)'
    BY <2>2, JsStreams
  <2>3. CASE UNCHANGED vars
    <3>1. \A d \in Ends, t \in Seqs : SameStream(d, t)
      BY <2>3, KeepsSame
      DEF SameStream, QueuesKept, SameServing, SameHolding, vars, clientVars, serviceVars, jsVars,
          jsCallerVars, jsHandlerVars
    <3> QED
      BY <3>1, StreamFrame DEF JsSInv
  <2> QED
    BY <2>1, <2>2, <2>3 DEF Next, Settled
<1> QED
  BY <1>1, <1>2 DEF JsSInv

(* Every reachable state of a connection with endpoints satisfies JsSInv.  *)
THEOREM JsStreamInvariant == Spec => []JsSInv
BY InitStreams, StepStreams, PTL DEF Spec
-----------------------------------------------------------------------------
(* Between the two ends of a stream nothing is lost, repeated or reordered *)
(* for as long as its caller takes items, in Rust or in JavaScript: what   *)
(* the callback has had, what waits for it in the queue of promises, what  *)
(* the channel carries and what the server holds are together what the     *)
(* server has made.                                                        *)
THEOREM ItemsStayWhole == Spec => []ItemsArriveWhole
<1>1. ASSUME JsSInv
      PROVE  ItemsArriveWhole
  <2>1. ASSUME NEW e \in Ends, NEW s \in Seqs
        PROVE  /\ promise[e][s] = "open" /\ s \notin broken[e] =>
                    Whole(delivered[e][s] \o chain[e][s], e, s)
               /\ s \in streamCallbacks[e] =>
                    Whole(received[e][s] \o buffer[e][s], e, s)
    <3>1. RestIsComing(e, s) /\ OwnKind(e)
      BY <1>1 DEF JsSInv, JInv, StreamOK
    <3>2. promise[e][s] # "idle" => e \in JsEnds
      BY <3>1 DEF OwnKind, NoJsState
    <3>3. s \in streamCallbacks[e] => e \notin JsEnds
      BY <3>1 DEF OwnKind, NoRustState
    <3> QED
      BY <3>1, <3>2, <3>3 DEF RestIsComing, Routed, Had
  <2> QED
    BY <2>1 DEF ItemsArriveWhole
<1> QED
  BY <1>1, JsStreamInvariant, PTL

(* done of a stream of endpoint.mjs resolves only when its callback has    *)
(* had every item that the other end made and that end has stopped, even   *)
(* of a stream that its caller has stopped.                                *)
THEOREM DoneMeansComplete == Spec => []DoneIsComplete
<1>1. ASSUME JsSInv
      PROVE  DoneIsComplete
  <2>1. ASSUME NEW e \in JsEnds, NEW s \in Seqs, promise[e][s] = "done"
        PROVE  /\ delivered[e][s] = FirstItems(Made(e, s))
               /\ execution[Peer(e)][s] \notin {"called", "forwarding"}
               /\ handling[Peer(e)][s] # "iterating"
    <3>1. /\ JInv /\ e \in Ends /\ Peer(e) \in Ends /\ EndIsComplete(e, s) /\ OwnKind(Peer(e))
          /\ delivered[e][s] \in Seq(Items)
      BY <1>1, JsContext, StreamTypes DEF JsSInv, JInv, StreamOK
    <3>2. Had(e, s) = FirstItems(Made(e, s)) /\ Over(Peer(e), s) /\ chain[e][s] = <<>>
      BY <2>1, <3>1 DEF EndIsComplete, HasEnded, HeardEnd, HasWaiting
    <3>3. Had(e, s) = delivered[e][s]
      BY <3>1, <3>2, HadFacts DEF Had
    <3>4. execution[Peer(e)][s] = "none" \/ handling[Peer(e)][s] = "none"
      BY <3>1 DEF OwnKind, NoRustState, NoJsState
    <3> QED
      BY <3>2, <3>3, <3>4 DEF Over
  <2> QED
    BY <2>1 DEF DoneIsComplete
<1> QED
  BY <1>1, JsStreamInvariant, PTL
-----------------------------------------------------------------------------
(* The connection implements Rpc.  What Rpc sees of call s of e.           *)
CallerSeen(e, s) == IF e \in JsEnds THEN CallerView(e, s) ELSE RustCallerView(e, s)
CalleeSeen(e, s) ==
  IF Peer(e) \in JsEnds THEN CalleeView(Peer(e), s) ELSE RustCalleeView(Peer(e), s)
Handed(e, s) == IF e \in JsEnds THEN Len(delivered[e][s]) ELSE Len(received[e][s])

Callers == [e \in Ends |-> [s \in Seqs |-> CallerSeen(e, s)]]
Callees == [e \in Ends |-> [s \in Seqs |-> CalleeSeen(e, s)]]
AllMade == [e \in Ends |-> [s \in Seqs |-> Made(e, s)]]
AllHanded == [e \in Ends |-> [s \in Seqs |-> Handed(e, s)]]
Left == {e \in Ends : Peer(e) \in closed}

CallerViews == {"idle", "notified", "waiting", "closed", "returned", "ended", "gone"}
CalleeViews == {"idle", "working", "answered", "cancelled"}

SameCallee(e, s) == CalleeSeen(e, s)' = CalleeSeen(e, s) /\ Made(e, s)' = Made(e, s)
SameSeen(e, s) ==
  /\ CallerSeen(e, s)' = CallerSeen(e, s) /\ Handed(e, s)' = Handed(e, s)
  /\ SameCallee(e, s)

ViewsOK ==
  /\ Callers \in [Ends -> [Seqs -> CallerViews]]
  /\ Callees \in [Ends -> [Seqs -> CalleeViews]]
  /\ AllMade \in [Ends -> [Seqs -> Nat]]
  /\ AllHanded \in [Ends -> [Seqs -> Nat]]
  /\ \A e \in Ends, s \in Seqs :
       /\ Callers[e][s] = CallerSeen(e, s)
       /\ Callees[e][s] = CalleeSeen(e, s)
       /\ AllMade[e][s] = Made(e, s)
       /\ AllHanded[e][s] = Handed(e, s)

(* The views of a promise, a call, a handler and an execution.             *)
LEMMA PromiseSeen ==
  ASSUME NEW e, NEW s, promise[e][s] \in PromiseStates
  PROVE  /\ CallerView(e, s) \in CallerViews
         /\ promise[e][s] \in {"idle", "threw", "refused"} => CallerView(e, s) = "idle"
         /\ CallerView(e, s) = "idle" => promise[e][s] \in {"idle", "threw", "refused"}
         /\ promise[e][s] = "notified" => CallerView(e, s) = "notified"
         /\ promise[e][s] \in {"pending", "open", "ending"} =>
              CallerView(e, s) = IF s \in stopped[e] THEN "closed" ELSE "waiting"
         /\ promise[e][s] \in {"closing", "closed", "failed"} => CallerView(e, s) = "closed"
         /\ promise[e][s] = "settled" => CallerView(e, s) = "returned"
         /\ promise[e][s] = "done" => CallerView(e, s) = "ended"
         /\ promise[e][s] \in {"aborted", "rejected"} => CallerView(e, s) = "gone"
<1>1. CASE promise[e][s] \in {"idle", "threw", "refused"}
  BY <1>1 DEF CallerView, CallerViews
<1>2. CASE promise[e][s] \in {"pending", "open", "ending"}
  BY <1>2 DEF CallerView, CallerViews
<1>3. CASE promise[e][s] \in {"closing", "closed", "failed"}
  BY <1>3 DEF CallerView, CallerViews
<1>4. CASE promise[e][s] \in {"notified", "settled", "done", "aborted", "rejected"}
  BY <1>4 DEF CallerView, CallerViews
<1> QED
  BY <1>1, <1>2, <1>3, <1>4 DEF PromiseStates

LEMMA CallSeen ==
  ASSUME NEW e, NEW s, call[e][s] \in CallStates
  PROVE  /\ RustCallerView(e, s) \in CallerViews
         /\ RustCallerView(e, s) = "idle" <=> call[e][s] = "idle"
         /\ call[e][s] = "notified" => RustCallerView(e, s) = "notified"
         /\ call[e][s] \in {"pending", "responded", "open"} => RustCallerView(e, s) = "waiting"
         /\ call[e][s] \in {"closed", "drained"} => RustCallerView(e, s) = "closed"
         /\ call[e][s] = "done" => RustCallerView(e, s) = "returned"
         /\ call[e][s] = "ended" => RustCallerView(e, s) = "ended"
         /\ call[e][s] = "dropped" => RustCallerView(e, s) = "gone"
<1>1. CASE call[e][s] \in {"pending", "responded", "open"}
  BY <1>1 DEF RustCallerView, CallerViews
<1>2. CASE call[e][s] \in {"closed", "drained"}
  BY <1>2 DEF RustCallerView, CallerViews
<1>3. CASE call[e][s] \in {"idle", "notified", "done", "ended", "dropped"}
  BY <1>3 DEF RustCallerView, CallerViews
<1> QED
  BY <1>1, <1>2, <1>3 DEF CallStates

LEMMA HandlingSeen ==
  ASSUME NEW e, NEW s, handling[e][s] \in HandlingStates
  PROVE  /\ CalleeView(e, s) \in CalleeViews
         /\ handling[e][s] \in {"none", "undecoded"} => CalleeView(e, s) = "idle"
         /\ handling[e][s] \in {"running", "iterating"} => CalleeView(e, s) = "working"
         /\ handling[e][s] \in {"over", "unanswered"} => CalleeView(e, s) = "answered"
         /\ handling[e][s] = "abandoned" => CalleeView(e, s) = "cancelled"
BY DEF CalleeView, CalleeViews, HandlingStates

LEMMA ExecutionSeen ==
  ASSUME NEW e, NEW s, execution[e][s] \in ExecutionStates
  PROVE  /\ RustCalleeView(e, s) \in CalleeViews
         /\ execution[e][s] = "none" => RustCalleeView(e, s) = "idle"
         /\ execution[e][s] \in {"called", "forwarding"} => RustCalleeView(e, s) = "working"
         /\ execution[e][s] = "finished" => RustCalleeView(e, s) = "answered"
         /\ execution[e][s] = "aborted" => RustCalleeView(e, s) = "cancelled"
BY DEF RustCalleeView, CalleeViews, ExecutionStates

LEMMA Views == JInv => ViewsOK
<1> SUFFICES ASSUME JInv PROVE ViewsOK
  OBVIOUS
<1>1. ASSUME NEW e \in Ends, NEW s \in Seqs
      PROVE  /\ CallerSeen(e, s) \in CallerViews /\ CalleeSeen(e, s) \in CalleeViews
             /\ Made(e, s) \in Nat /\ Handed(e, s) \in Nat
  <2>1. /\ promise[e][s] \in PromiseStates /\ call[e][s] \in CallStates
        /\ handling[Peer(e)][s] \in HandlingStates /\ execution[Peer(e)][s] \in ExecutionStates
    BY PeerProps DEF JInv, JsTypeOK, TypeOK, ClientTypeOK, ServiceTypeOK
  <2>2. Made(e, s) \in Nat /\ Len(delivered[e][s]) \in Nat /\ Len(received[e][s]) \in Nat
    BY StreamTypes
  <2>3. CallerView(e, s) \in CallerViews /\ RustCallerView(e, s) \in CallerViews
    BY <2>1, PromiseSeen, CallSeen
  <2>4. CalleeView(Peer(e), s) \in CalleeViews /\ RustCalleeView(Peer(e), s) \in CalleeViews
    BY <2>1, HandlingSeen, ExecutionSeen
  <2> QED
    BY <2>2, <2>3, <2>4 DEF CallerSeen, CalleeSeen, Handed
<1> QED
  BY <1>1 DEF ViewsOK, Callers, Callees, AllMade, AllHanded

LEMMA ViewsAcross == ASSUME JInv, JInv' PROVE ViewsOK /\ ViewsOK'
BY Views, PTL

-----------------------------------------------------------------------------
(* What Rpc sees of a step that changes the status of one caller,          *)
LEMMA CallerStepSeen ==
  ASSUME JInv, JInv', NEW e \in Ends, NEW s \in Seqs, NEW from, CallerSeen(e, s) \in from,
         NEW to, CallerSeen(e, s)' = to,
         Handed(e, s)' = Handed(e, s), SameCallee(e, s),
         \A d \in Ends, t \in Seqs : d # e \/ t # s => SameSeen(d, t), closed' = closed
  PROVE  Calls!CallerMoves(e, s, from, to)
<1>1. ViewsOK /\ ViewsOK'
  BY ViewsAcross
<1>2. Callers' = [Callers EXCEPT ![e][s] = to]
  <2>1. /\ Callers \in [Ends -> [Seqs -> CallerViews]]
        /\ Callers' \in [Ends -> [Seqs -> CallerViews]]
        /\ Callers'[e][s] = to
        /\ \A d \in Ends, t \in Seqs : d # e \/ t # s => Callers'[d][t] = Callers[d][t]
    BY <1>1 DEF ViewsOK, SameSeen
  <2>2. Callers' = [Callers EXCEPT ![e][s] = Callers'[e][s]]
    BY <2>1, TableUpdate
  <2> QED
    BY <2>1, <2>2
<1>3. \A d \in Ends, t \in Seqs :
        /\ Callees'[d][t] = Callees[d][t] /\ AllMade'[d][t] = AllMade[d][t]
        /\ AllHanded'[d][t] = AllHanded[d][t]
  BY <1>1 DEF ViewsOK, SameSeen, SameCallee
<1>4. Callees' = Callees /\ AllMade' = AllMade /\ AllHanded' = AllHanded
  BY <1>1, <1>3, TableSame DEF ViewsOK
<1>5. Left' = Left /\ Callers[e][s] \in from
  BY <1>1 DEF Left, ViewsOK
<1> QED
  BY <1>2, <1>4, <1>5
  DEF Calls!CallerMoves, Callers, Callees, AllMade, AllHanded, Left, CallerSeen, CalleeSeen, Handed

(* of one callee,                                                          *)
LEMMA CalleeStepSeen ==
  ASSUME JInv, JInv', NEW e \in Ends, NEW s \in Seqs,
         NEW from, CalleeSeen(e, s) = from, NEW to, CalleeSeen(e, s)' = to,
         CallerSeen(e, s)' = CallerSeen(e, s), Handed(e, s)' = Handed(e, s),
         Made(e, s)' = Made(e, s),
         \A d \in Ends, t \in Seqs : d # e \/ t # s => SameSeen(d, t), closed' = closed
  PROVE  Calls!CalleeMoves(e, s, from, to)
<1>1. ViewsOK /\ ViewsOK'
  BY ViewsAcross
<1>2. Callees' = [Callees EXCEPT ![e][s] = to]
  <2>1. /\ Callees \in [Ends -> [Seqs -> CalleeViews]]
        /\ Callees' \in [Ends -> [Seqs -> CalleeViews]]
        /\ Callees'[e][s] = to
        /\ \A d \in Ends, t \in Seqs : d # e \/ t # s => Callees'[d][t] = Callees[d][t]
    BY <1>1 DEF ViewsOK, SameSeen, SameCallee
  <2>2. Callees' = [Callees EXCEPT ![e][s] = Callees'[e][s]]
    BY <2>1, TableUpdate
  <2> QED
    BY <2>1, <2>2
<1>3. \A d \in Ends, t \in Seqs :
        /\ Callers'[d][t] = Callers[d][t] /\ AllMade'[d][t] = AllMade[d][t]
        /\ AllHanded'[d][t] = AllHanded[d][t]
  BY <1>1 DEF ViewsOK, SameSeen, SameCallee
<1>4. Callers' = Callers /\ AllMade' = AllMade /\ AllHanded' = AllHanded
  BY <1>1, <1>3, TableSame DEF ViewsOK
<1>5. Left' = Left /\ Callees[e][s] = from
  BY <1>1 DEF Left, ViewsOK
<1> QED
  BY <1>2, <1>4, <1>5
  DEF Calls!CalleeMoves, Callers, Callees, AllMade, AllHanded, Left, CallerSeen, CalleeSeen, Handed

(* or of nobody.                                                           *)
LEMMA NothingSeen ==
  ASSUME JInv, JInv', \A e \in Ends, s \in Seqs : SameSeen(e, s), closed' = closed
  PROVE  UNCHANGED Calls!rpcVars
<1>1. ViewsOK /\ ViewsOK'
  BY ViewsAcross
<1>2. \A d \in Ends, t \in Seqs :
        /\ Callers'[d][t] = Callers[d][t] /\ AllMade'[d][t] = AllMade[d][t]
        /\ AllHanded'[d][t] = AllHanded[d][t] /\ Callees'[d][t] = Callees[d][t]
  BY <1>1 DEF ViewsOK, SameSeen, SameCallee
<1>3. Callers' = Callers /\ AllMade' = AllMade /\ AllHanded' = AllHanded /\ Callees' = Callees
  BY <1>1, <1>2, TableSame DEF ViewsOK
<1>4. Left' = Left
  BY DEF Left
<1> QED
  BY <1>3, <1>4
  DEF Calls!rpcVars, Callers, Callees, AllMade, AllHanded, Left, CallerSeen, CalleeSeen, Handed

(* A caller gives some of its calls up, and may leave its peer's.          *)
LEMMA GivingUpSeen ==
  ASSUME JInv, JInv', NEW e \in Ends,
         \A s \in Seqs :
           \/ CallerSeen(e, s)' = CallerSeen(e, s)
           \/ <<CallerSeen(e, s), CallerSeen(e, s)'>> \in Calls!GivenUp,
         \A d \in Ends, s \in Seqs :
           /\ SameCallee(d, s) /\ Handed(d, s)' = Handed(d, s)
           /\ d # e => CallerSeen(d, s)' = CallerSeen(d, s),
         closed' = closed \/ closed' = closed \cup {e}
  PROVE  Calls!GiveUp(e)
<1>1. ViewsOK /\ ViewsOK'
  BY ViewsAcross
<1> DEFINE given == {s \in Seqs : CallerSeen(e, s)' # CallerSeen(e, s)}
           to == [s \in Seqs |-> IF s \in given THEN CallerSeen(e, s)' ELSE "gone"]
<1>2. \A s \in given : CallerSeen(e, s)' \in {"closed", "gone"} /\ Callers[e][s] = CallerSeen(e, s)
  BY <1>1 DEF Calls!GivenUp, ViewsOK
<1>3. to \in [Seqs -> {"closed", "gone"}] /\ given \in SUBSET Seqs
  BY <1>2
<1>4. \A s \in given : <<Callers[e][s], to[s]>> \in Calls!GivenUp
  <2> SUFFICES ASSUME NEW s \in given PROVE <<Callers[e][s], to[s]>> \in Calls!GivenUp
    OBVIOUS
  <2>1. Callers[e][s] = CallerSeen(e, s) /\ to[s] = CallerSeen(e, s)'
    BY <1>2
  <2>2. <<CallerSeen(e, s), CallerSeen(e, s)'>> \in Calls!GivenUp
    OBVIOUS
  <2> HIDE DEF to, given, Callers
  <2> QED
    BY <2>1, <2>2, Zenon
<1>5. Callers' = [Callers EXCEPT ![e] = [s \in Seqs |-> IF s \in given THEN to[s] ELSE @[s]]]
  <2>1. Callers \in [Ends -> [Seqs -> CallerViews]] /\ Callers' \in [Ends -> [Seqs -> CallerViews]]
    BY <1>1 DEF ViewsOK
  <2>2. \A s \in Seqs : Callers'[e][s] = IF s \in given THEN to[s] ELSE Callers[e][s]
    BY <1>1 DEF ViewsOK
  <2>3. \A d \in Ends : d # e => Callers'[d] = Callers[d]
    <3> SUFFICES ASSUME NEW d \in Ends, d # e PROVE Callers'[d] = Callers[d]
      OBVIOUS
    <3>1. \A s \in Seqs : Callers'[d][s] = Callers[d][s]
      BY <1>1 DEF ViewsOK
    <3>2. Callers[d] \in [Seqs -> CallerViews] /\ Callers'[d] \in [Seqs -> CallerViews]
      BY <2>1
    <3> HIDE DEF Callers
    <3> QED
      BY <3>1, <3>2
  <2> HIDE DEF to, given, Callers
  <2>4. Callers'[e] = [s \in Seqs |-> IF s \in given THEN to[s] ELSE Callers[e][s]]
    <3>1. Callers'[e] \in [Seqs -> CallerViews]
      BY <2>1
    <3> QED
      BY <2>2, <3>1
  <2> QED
    BY <2>1, <2>3, <2>4
<1>6. Callees' = Callees /\ AllMade' = AllMade /\ AllHanded' = AllHanded
  <2>1. \A d \in Ends, t \in Seqs :
          /\ AllHanded'[d][t] = AllHanded[d][t] /\ AllMade'[d][t] = AllMade[d][t]
          /\ Callees'[d][t] = Callees[d][t]
    BY <1>1 DEF ViewsOK, SameCallee
  <2> QED
    BY <1>1, <2>1, TableSame DEF ViewsOK
<1>7. Left' = Left \/ \E d \in Ends : Left' = Left \cup {d}
  <2>1. CASE closed' = closed
    BY <2>1 DEF Left
  <2>2. CASE closed' = closed \cup {e}
    <3>1. PICK p \in Ends : p = Peer(e) /\ Peer(p) = e /\ \A f \in Ends : f # p => Peer(f) # e
      BY PeerProps
    <3>2. Left' = Left \cup {p}
      BY <2>2, <3>1 DEF Left
    <3> QED
      BY <3>2
  <2> QED
    BY <2>1, <2>2
<1> HIDE DEF to, given
<1> QED
  BY <1>3, <1>4, <1>5, <1>6, <1>7
  DEF Calls!GiveUp, Callers, Callees, AllMade, AllHanded, Left, CallerSeen, CalleeSeen, Handed

(* A callee makes an item, and a caller gets one.                          *)
LEMMA MakingSeen ==
  ASSUME JInv, JInv', NEW e \in Ends, NEW s \in Seqs,
         CallerSeen(e, s)' = CallerSeen(e, s), Handed(e, s)' = Handed(e, s),
         CalleeSeen(e, s)' = CalleeSeen(e, s), CalleeSeen(e, s) = "working",
         Made(e, s) < MaxItems, Made(e, s)' = Made(e, s) + 1,
         \A d \in Ends, t \in Seqs : d # e \/ t # s => SameSeen(d, t), closed' = closed
  PROVE  Calls!MakeItem(e, s)
<1>1. ViewsOK /\ ViewsOK'
  BY ViewsAcross
<1>2. AllMade' = [AllMade EXCEPT ![e][s] = @ + 1] /\ AllMade[e][s] < MaxItems
  <2>1. /\ AllMade \in [Ends -> [Seqs -> Nat]]
        /\ AllMade' \in [Ends -> [Seqs -> Nat]]
        /\ AllMade'[e][s] = AllMade[e][s] + 1 /\ AllMade[e][s] < MaxItems
        /\ \A d \in Ends, t \in Seqs : d # e \/ t # s => AllMade'[d][t] = AllMade[d][t]
    BY <1>1 DEF ViewsOK, SameSeen, SameCallee
  <2> HIDE DEF AllMade
  <2>2. AllMade' = [AllMade EXCEPT ![e][s] = AllMade'[e][s]]
    BY <2>1, TableUpdate
  <2> QED
    BY <2>1, <2>2
<1>3. \A d \in Ends, t \in Seqs :
        /\ Callers'[d][t] = Callers[d][t] /\ Callees'[d][t] = Callees[d][t]
        /\ AllHanded'[d][t] = AllHanded[d][t]
  BY <1>1 DEF ViewsOK, SameSeen, SameCallee
<1>4. Callers' = Callers /\ Callees' = Callees /\ AllHanded' = AllHanded
  BY <1>1, <1>3, TableSame DEF ViewsOK
<1>5. Left' = Left /\ Callees[e][s] = "working"
  BY <1>1 DEF Left, ViewsOK
<1> QED
  BY <1>2, <1>4, <1>5
  DEF Calls!MakeItem, Callers, Callees, AllMade, AllHanded, Left, CallerSeen, CalleeSeen, Handed

LEMMA GettingSeen ==
  ASSUME JInv, JInv', NEW e \in Ends, NEW s \in Seqs,
         CallerSeen(e, s)' = CallerSeen(e, s), CallerSeen(e, s) \in {"waiting", "closed"},
         SameCallee(e, s), Handed(e, s) < Made(e, s), Handed(e, s)' = Handed(e, s) + 1,
         \A d \in Ends, t \in Seqs : d # e \/ t # s => SameSeen(d, t), closed' = closed
  PROVE  Calls!GetItem(e, s)
<1>1. ViewsOK /\ ViewsOK'
  BY ViewsAcross
<1>2. AllHanded' = [AllHanded EXCEPT ![e][s] = @ + 1] /\ AllHanded[e][s] < AllMade[e][s]
  <2>1. /\ AllHanded \in [Ends -> [Seqs -> Nat]]
        /\ AllHanded' \in [Ends -> [Seqs -> Nat]]
        /\ AllHanded'[e][s] = AllHanded[e][s] + 1 /\ AllHanded[e][s] < AllMade[e][s]
        /\ \A d \in Ends, t \in Seqs : d # e \/ t # s => AllHanded'[d][t] = AllHanded[d][t]
    BY <1>1 DEF ViewsOK, SameSeen, SameCallee
  <2> HIDE DEF AllHanded
  <2>2. AllHanded' = [AllHanded EXCEPT ![e][s] = AllHanded'[e][s]]
    BY <2>1, TableUpdate
  <2> QED
    BY <2>1, <2>2
<1>3. \A d \in Ends, t \in Seqs :
        /\ Callers'[d][t] = Callers[d][t] /\ Callees'[d][t] = Callees[d][t]
        /\ AllMade'[d][t] = AllMade[d][t]
  BY <1>1 DEF ViewsOK, SameSeen, SameCallee
<1>4. Callers' = Callers /\ Callees' = Callees /\ AllMade' = AllMade
  BY <1>1, <1>3, TableSame DEF ViewsOK
<1>5. Left' = Left /\ Callers[e][s] \in {"waiting", "closed"}
  BY <1>1 DEF Left, ViewsOK
<1> QED
  BY <1>2, <1>4, <1>5
  DEF Calls!GetItem, Callers, Callees, AllMade, AllHanded, Left, CallerSeen, CalleeSeen, Handed

(* What Rpc sees of a call whose two sides a step leaves alone.            *)
SameSide(e, s) ==
  /\ call'[e][s] = call[e][s] /\ promise'[e][s] = promise[e][s]
  /\ s \in stopped'[e] <=> s \in stopped[e]
  /\ received'[e][s] = received[e][s] /\ delivered'[e][s] = delivered[e][s]

LEMMA SideSeen ==
  ASSUME NEW e, NEW s, SameSide(e, s)
  PROVE  CallerSeen(e, s)' = CallerSeen(e, s) /\ Handed(e, s)' = Handed(e, s)
<1>1. CallerView(e, s)' = CallerView(e, s)
  BY DEF SameSide, CallerView
<1>2. RustCallerView(e, s)' = RustCallerView(e, s)
  BY DEF SameSide, RustCallerView
<1> QED
  BY <1>1, <1>2 DEF SameSide, CallerSeen, Handed

LEMMA ServingSeen ==
  ASSUME NEW e, NEW s, SameServing(Peer(e), s)
  PROVE  SameCallee(e, s)
<1>1. CalleeView(Peer(e), s)' = CalleeView(Peer(e), s)
  BY DEF SameServing, CalleeView
<1>2. RustCalleeView(Peer(e), s)' = RustCalleeView(Peer(e), s)
  BY DEF SameServing, RustCalleeView
<1> QED
  BY <1>1, <1>2, SameMade DEF SameCallee, CalleeSeen
LEMMA SeenSame ==
  ASSUME NEW e, NEW s, SameSide(e, s), SameServing(Peer(e), s)
  PROVE  SameSeen(e, s)
BY SideSeen, ServingSeen DEF SameSeen

(* What the views say of an end of either kind.                            *)
LEMMA CallerKindSeen ==
  ASSUME JInv, NEW e \in Ends, NEW s \in Seqs
  PROVE  /\ CallerSeen(e, s) = "idle" <=> ~ WasSent(e, s)
         /\ GaveUp(e, s) /\ ~ HasEnded(e, s) => CallerSeen(e, s) \in {"closed", "gone"}
<1>1. /\ promise[e][s] \in PromiseStates /\ call[e][s] \in CallStates
      /\ CallOK(e, s)
  BY DEF JInv, JsTypeOK, TypeOK, ClientTypeOK
<1>2. CASE e \in JsEnds
  <2>1. call[e][s] = "idle" /\ CallerSeen(e, s) = CallerView(e, s)
    BY <1>2 DEF JInv, OwnKind, NoRustState, CallerSeen
  <2>2. CallerSeen(e, s) = "idle" <=> ~ WasSent(e, s)
    BY <1>1, <2>1, PromiseSeen DEF WasSent
  <2>3. GaveUp(e, s) <=>
          promise[e][s] \in {"aborted", "closing", "closed", "failed", "rejected"} \/ s \in stopped[e]
    BY <1>2 DEF GaveUp
  <2>4. s \in stopped[e] =>
          promise[e][s] \in {"open", "ending", "closing", "done", "closed", "failed"}
    BY <1>1 DEF CallOK, MapsMatch
  <2> QED
    BY <1>1, <2>1, <2>2, <2>3, <2>4, PromiseSeen DEF HasEnded
<1>3. CASE e \notin JsEnds
  <2>1. promise[e][s] = "idle" /\ CallerSeen(e, s) = RustCallerView(e, s)
    BY <1>3 DEF JInv, OwnKind, NoJsState, CallerSeen
  <2> QED
    BY <1>1, <1>3, <2>1, CallSeen DEF WasSent, GaveUp
<1> QED
  BY <1>2, <1>3

LEMMA CalleeKindSeen ==
  ASSUME JInv, NEW e \in Ends, NEW s \in Seqs
  PROVE  /\ Over(Peer(e), s) => CalleeSeen(e, s) \in {"answered", "cancelled"}
         /\ execution[Peer(e)][s] = "finished" => CalleeSeen(e, s) = "answered"
         /\ handling[Peer(e)][s] \in {"over", "unanswered"} => CalleeSeen(e, s) = "answered"
         /\ execution[Peer(e)][s] \in {"called", "forwarding"} => CalleeSeen(e, s) = "working"
         /\ handling[Peer(e)][s] \in {"running", "iterating"} => CalleeSeen(e, s) = "working"
         /\ Untouched(Peer(e), s) => CalleeSeen(e, s) = "idle"
<1>1. /\ Peer(e) \in Ends
      /\ handling[Peer(e)][s] \in HandlingStates /\ execution[Peer(e)][s] \in ExecutionStates
  BY PeerProps DEF JInv, JsTypeOK, TypeOK, ServiceTypeOK
<1>2. CASE Peer(e) \in JsEnds
  <2>1. execution[Peer(e)][s] = "none" /\ CalleeSeen(e, s) = CalleeView(Peer(e), s)
    BY <1>1, <1>2 DEF JInv, OwnKind, NoRustState, CalleeSeen
  <2> QED
    BY <1>1, <2>1, HandlingSeen DEF Over, Untouched
<1>3. CASE Peer(e) \notin JsEnds
  <2>1. handling[Peer(e)][s] = "none" /\ CalleeSeen(e, s) = RustCalleeView(Peer(e), s)
    BY <1>1, <1>3 DEF JInv, OwnKind, NoJsState, CalleeSeen
  <2> QED
    BY <1>1, <2>1, ExecutionSeen DEF Over, Untouched
<1> QED
  BY <1>2, <1>3

(* A call to which something waits to be handed has had less than was      *)
(* made; one that has everything, and waits for nothing, has had all.      *)
LEMMA HandedOfMade ==
  ASSUME JsSInv, NEW e \in Ends, NEW s \in Seqs
  PROVE  /\ HasWaiting(e, s) => Handed(e, s) < Made(e, s)
         /\ Had(e, s) = FirstItems(Made(e, s)) /\ ~ HasWaiting(e, s) => Handed(e, s) = Made(e, s)
<1>1. JInv /\ HadWasMade(e, s)
  BY DEF JsSInv, StreamOK
<1>2. PICK r \in Seq(Items), b \in Seq(Items) :
        /\ Had(e, s) = r \o b /\ Handed(e, s) = Len(r) /\ (HasWaiting(e, s) <=> b # <<>>)
  <2>1. /\ received[e][s] \in Seq(Items) /\ buffer[e][s] \in Seq(Items)
        /\ delivered[e][s] \in Seq(Items) /\ chain[e][s] \in Seq(Items)
    BY <1>1, StreamTypes
  <2>2. CASE e \in JsEnds
    BY <2>1, <2>2 DEF Had, HasWaiting, Handed
  <2>3. CASE e \notin JsEnds
    BY <2>1, <2>3 DEF Had, HasWaiting, Handed
  <2> QED
    BY <2>2, <2>3
<1>3. PICK n \in Nat : n = Made(e, s)
  BY <1>1, StreamTypes
<1>4. PICK a \in 0 .. n : r \o b = FirstItems(a)
  BY <1>1, <1>2, <1>3 DEF HadWasMade
<1>5. a \in Nat /\ a <= n /\ Len(FirstItems(a)) = a /\ Len(FirstItems(n)) = n
  BY <1>3, FirstItemsFacts
<1>6. /\ Len(r \o b) = Len(r) + Len(b) /\ Len(r) \in Nat /\ Len(b) \in Nat
      /\ b # <<>> => Len(b) # 0
      /\ b = <<>> => Len(b) = 0
  OBVIOUS
<1>7. b # <<>> => Len(r) < n
  BY <1>4, <1>5, <1>6
<1>8. r \o b = FirstItems(n) /\ b = <<>> => Len(r) = n
  BY <1>5, <1>6
<1> QED
  BY <1>2, <1>3, <1>7, <1>8
-----------------------------------------------------------------------------
(* The steps of Rpc that one call of a caller can take,                    *)
LEMMA CallerSteps ==
  ASSUME JInv, JInv', NEW e \in Ends, NEW s \in Seqs, closed' = closed,
         \A d \in Ends, t \in Seqs : SameServing(Peer(d), t),
         \A d \in Ends, t \in Seqs : d # e \/ t # s => SameSide(d, t),
         NEW from, CallerSeen(e, s) = from, NEW to, CallerSeen(e, s)' = to,
         \/ Handed(e, s)' = Handed(e, s) /\
              \/ from = to
              \/ <<from, to>> \in Calls!GivenUp
              \/ from = "idle" /\ to \in {"notified", "waiting"}
              \/ from = "waiting" /\ to = "returned" /\ CalleeSeen(e, s) = "answered"
              \/ /\ from \in {"waiting", "closed"} /\ to = "ended"
                 /\ CalleeSeen(e, s) \in {"answered", "cancelled"} /\ Handed(e, s) = Made(e, s)
         \/ /\ from = to /\ from \in {"waiting", "closed"}
            /\ Handed(e, s) < Made(e, s) /\ Handed(e, s)' = Handed(e, s) + 1
  PROVE  Calls!RpcNext \/ UNCHANGED Calls!rpcVars
<1>1. /\ \A d \in Ends, t \in Seqs : d # e \/ t # s => SameSeen(d, t)
      /\ \A d \in Ends, t \in Seqs : SameCallee(d, t)
  BY SeenSame, ServingSeen
<1>2. /\ Callees[e][s] = CalleeSeen(e, s) /\ AllMade[e][s] = Made(e, s)
      /\ AllHanded[e][s] = Handed(e, s)
  BY Views DEF ViewsOK
<1>3. ASSUME Handed(e, s)' = Handed(e, s)
      PROVE  \A S : from \in S => Calls!CallerMoves(e, s, S, to)
  BY <1>1, <1>3, CallerStepSeen
<1>4. CASE Handed(e, s)' = Handed(e, s) /\ from = to
  <2>1. \A d \in Ends, t \in Seqs : SameSeen(d, t)
    BY <1>1, <1>4 DEF SameSeen
  <2> QED
    BY <2>1, NothingSeen
<1>5. CASE Handed(e, s)' = Handed(e, s) /\ <<from, to>> \in Calls!GivenUp
  <2>1. \A d \in Ends, t \in Seqs :
          /\ SameCallee(d, t) /\ Handed(d, t)' = Handed(d, t)
          /\ d # e => CallerSeen(d, t)' = CallerSeen(d, t)
    BY <1>1, <1>5 DEF SameSeen
  <2>2. \A t \in Seqs :
          \/ CallerSeen(e, t)' = CallerSeen(e, t)
          \/ <<CallerSeen(e, t), CallerSeen(e, t)'>> \in Calls!GivenUp
    BY <1>1, <1>5 DEF SameSeen
  <2>3. Calls!GiveUp(e)
    BY <2>1, <2>2, GivingUpSeen
  <2> QED
    BY <2>3 DEF Calls!RpcNext
<1>6. CASE /\ Handed(e, s)' = Handed(e, s) /\ from = "idle" /\ to \in {"notified", "waiting"}
  <2>1. Calls!MakeCall(e, s)
    BY <1>3, <1>6 DEF Calls!MakeCall
  <2> QED
    BY <2>1 DEF Calls!RpcNext
<1>7. CASE /\ Handed(e, s)' = Handed(e, s)
           /\ from = "waiting" /\ to = "returned" /\ CalleeSeen(e, s) = "answered"
  <2>1. Calls!CallerMoves(e, s, {"waiting"}, "returned") /\ Callees[e][s] = "answered"
    BY <1>2, <1>3, <1>7
  <2>2. Calls!Return(e, s)
    BY <2>1 DEF Calls!Return, Callees, CalleeSeen
  <2> QED
    BY <2>2 DEF Calls!RpcNext
<1>8. CASE /\ Handed(e, s)' = Handed(e, s) /\ from \in {"waiting", "closed"} /\ to = "ended"
           /\ CalleeSeen(e, s) \in {"answered", "cancelled"} /\ Handed(e, s) = Made(e, s)
  <2>1. /\ Calls!CallerMoves(e, s, {"waiting", "closed"}, "ended")
        /\ Callees[e][s] \in {"answered", "cancelled"} /\ AllHanded[e][s] = AllMade[e][s]
    BY <1>2, <1>3, <1>8
  <2>2. Calls!EndOfStream(e, s)
    BY <2>1 DEF Calls!EndOfStream, Callees, CalleeSeen, AllMade, AllHanded, Handed
  <2> QED
    BY <2>2 DEF Calls!RpcNext
<1>9. CASE /\ from = to /\ from \in {"waiting", "closed"}
           /\ Handed(e, s) < Made(e, s) /\ Handed(e, s)' = Handed(e, s) + 1
  <2>1. Calls!GetItem(e, s)
    BY <1>1, <1>9, GettingSeen
  <2> QED
    BY <2>1 DEF Calls!RpcNext
<1> QED
  BY <1>4, <1>5, <1>6, <1>7, <1>8, <1>9

(* and those that the call it serves can.                                  *)
LEMMA CalleeSteps ==
  ASSUME JInv, JInv', NEW e \in Ends, NEW s \in Seqs, closed' = closed,
         \A d \in Ends, t \in Seqs : SameSide(d, t),
         \A d \in Ends, t \in Seqs : d # e \/ t # s => SameServing(Peer(d), t),
         NEW from, CalleeSeen(e, s) = from, NEW to, CalleeSeen(e, s)' = to,
         \/ Made(e, s)' = Made(e, s) /\
              \/ from = to
              \/ from = "idle" /\ to \in {"working", "answered"} /\ CallerSeen(e, s) # "idle"
              \/ from = "working" /\ to = "answered"
              \/ /\ from = "working" /\ to = "cancelled"
                 /\ CallerSeen(e, s) \in {"closed", "gone"} \/ Peer(e) \in closed
         \/ /\ from = "working" /\ to = "working"
            /\ Made(e, s) < MaxItems /\ Made(e, s)' = Made(e, s) + 1
  PROVE  Calls!RpcNext \/ UNCHANGED Calls!rpcVars
<1>1. /\ \A d \in Ends, t \in Seqs : d # e \/ t # s => SameSeen(d, t)
      /\ CallerSeen(e, s)' = CallerSeen(e, s) /\ Handed(e, s)' = Handed(e, s)
  BY SeenSame, SideSeen
<1>2. Callers[e][s] = CallerSeen(e, s)
  BY Views DEF ViewsOK
<1>3. ASSUME Made(e, s)' = Made(e, s)
      PROVE  Calls!CalleeMoves(e, s, from, to)
  BY <1>1, <1>3, CalleeStepSeen
<1>4. CASE Made(e, s)' = Made(e, s) /\ from = to
  <2>1. \A d \in Ends, t \in Seqs : SameSeen(d, t)
    BY <1>1, <1>4 DEF SameSeen, SameCallee
  <2> QED
    BY <2>1, NothingSeen
<1>5. CASE /\ Made(e, s)' = Made(e, s)
           /\ from = "idle" /\ to \in {"working", "answered"} /\ CallerSeen(e, s) # "idle"
  <2>1. Calls!CalleeMoves(e, s, "idle", to) /\ Callers[e][s] # "idle"
    BY <1>2, <1>3, <1>5
  <2>2. Calls!StartWork(e, s)
    BY <1>5, <2>1 DEF Calls!StartWork, Callers, CallerSeen
  <2> QED
    BY <2>2 DEF Calls!RpcNext
<1>6. CASE Made(e, s)' = Made(e, s) /\ from = "working" /\ to = "answered"
  <2>1. Calls!Answer(e, s)
    BY <1>3, <1>6 DEF Calls!Answer
  <2> QED
    BY <2>1 DEF Calls!RpcNext
<1>7. CASE /\ Made(e, s)' = Made(e, s) /\ from = "working" /\ to = "cancelled"
           /\ CallerSeen(e, s) \in {"closed", "gone"} \/ Peer(e) \in closed
  <2>1. /\ Calls!CalleeMoves(e, s, "working", "cancelled")
        /\ Callers[e][s] \in {"closed", "gone"} \/ e \in Left
    BY <1>2, <1>3, <1>7 DEF Left
  <2>2. Calls!Cancel(e, s)
    BY <2>1 DEF Calls!Cancel, Callers, CallerSeen, Left
  <2> QED
    BY <2>2 DEF Calls!RpcNext
<1>8. CASE /\ from = "working" /\ to = "working"
           /\ Made(e, s) < MaxItems /\ Made(e, s)' = Made(e, s) + 1
  <2>1. Calls!MakeItem(e, s)
    BY <1>1, <1>8, MakingSeen
  <2> QED
    BY <2>1 DEF Calls!RpcNext
<1> QED
  BY <1>4, <1>5, <1>6, <1>7, <1>8
-----------------------------------------------------------------------------
(* The steps of a Rust interface.  A new call is a call made;              *)
LEMMA RustNewRpc ==
  ASSUME JsSInv, JInv', NEW e \in Ends, e \notin JsEnds, NewCall(e), UNCHANGED <<serviceVars, jsVars>>
  PROVE  Calls!RpcNext \/ UNCHANGED Calls!rpcVars
<1>1. JInv /\ TypeOK /\ \A d \in Ends, t \in Seqs : CallOK(d, t)
  BY DEF JsSInv, JInv
<1>2. PICK m \in Methods : Notify(e, m) \/ Request(e, m) \/ Stream(e, m)
  BY DEF NewCall
<1>3. PICK s \in Seqs : s = sequence[e]
  <2>1. Send(e, m)
    BY <1>2 DEF Notify, Request, Stream
  <2> QED
    BY <1>1, <2>1, BoundsAssumption DEF Send, TypeOK, ClientTypeOK, Seqs
<1>4. call[e][s] = "idle"
  <2>1. ~ (s < sequence[e])
    BY <1>1, <1>3 DEF TypeOK, ClientTypeOK, Seqs
  <2> QED
    BY <1>1, <2>1 DEF CallOK, Numbered
<1>5. /\ UNCHANGED received /\ call'[e][s] \in {"notified", "pending", "open"}
      /\ \A f \in Ends, t \in Seqs : f # e \/ t # s => call'[f][t] = call[f][t]
  BY <1>1, <1>2, <1>3 DEF Notify, Request, Stream, SetCall, TypeOK, ClientTypeOK
<1>6. /\ CallerSeen(e, s) = "idle" /\ CallerSeen(e, s)' \in {"notified", "waiting"}
      /\ Handed(e, s)' = Handed(e, s)
  BY <1>4, <1>5 DEF CallerSeen, RustCallerView, Handed
<1>7. /\ \A d \in Ends, t \in Seqs : SameServing(Peer(d), t)
      /\ \A d \in Ends, t \in Seqs : d # e \/ t # s => SameSide(d, t)
  BY <1>5 DEF SameServing, SameSide, serviceVars, jsVars, jsCallerVars, jsHandlerVars
<1>8. closed' = closed
  BY DEF jsVars
<1> QED
  BY <1>1, <1>6, <1>7, <1>8, CallerSteps

(* what its holder does with a call returns it, gets an item, ends it,     *)
(* gives it up, or is not seen;                                            *)
LEMMA RustCallerRpc ==
  ASSUME JsSInv, JInv', NEW e \in Ends, NEW s \in Seqs, e \notin JsEnds, CallerStep(e, s),
         UNCHANGED <<serviceVars, jsVars>>
  PROVE  Calls!RpcNext \/ UNCHANGED Calls!rpcVars
<1>1. /\ JInv /\ TypeOK /\ StreamOK(e, s) /\ Peer(e) \in Ends
      /\ received[e][s] \in Seq(Items) /\ buffer[e][s] \in Seq(Items)
  BY PeerProps DEF JsSInv, JInv, TypeOK, ClientTypeOK
<1>2. /\ \A d \in Ends, t \in Seqs : SameServing(Peer(d), t)
      /\ \A d \in Ends, t \in Seqs : d # e \/ t # s => SameSide(d, t)
      /\ closed' = closed
  BY RustCallerRows DEF SameHolding, SameSide, jsVars, jsCallerVars
<1>3. /\ Handed(e, s) = Len(received[e][s]) /\ Handed(e, s)' = Len(received'[e][s])
      /\ HasWaiting(e, s) <=> buffer[e][s] # <<>>
  BY DEF Handed, HasWaiting
<1>4. ASSUME NEW from, NEW to, call[e][s] = from, SetCall(e, s, to), received' = received
      PROVE  /\ call'[e][s] = to /\ Handed(e, s)' = Handed(e, s)
             /\ CallerSeen(e, s) = RustCallerView(e, s)
             /\ CallerSeen(e, s)' = RustCallerView(e, s)'
  BY <1>1, <1>3, <1>4 DEF SetCall, TypeOK, ClientTypeOK, CallerSeen
<1>5. CASE PollResponse(e, s)
  <2>1. call[e][s] = "responded" /\ SetCall(e, s, "done") /\ received' = received
    BY <1>5 DEF PollResponse
  <2>2. CalleeSeen(e, s) = "answered"
    BY <1>1, <2>1, CalleeKindSeen DEF StreamOK, ResponseIsComplete
  <2>3. /\ CallerSeen(e, s) = "waiting" /\ CallerSeen(e, s)' = "returned"
        /\ Handed(e, s)' = Handed(e, s)
    BY <1>4, <2>1 DEF RustCallerView
  <2> QED
    BY <1>1, <1>2, <2>2, <2>3, CallerSteps
<1>6. CASE DropRequest(e, s) \/ Close(e, s) \/ DropStream(e, s)
  <2>1. /\ received' = received
        /\ \/ /\ call[e][s] \in {"pending", "responded", "open", "closed"}
              /\ SetCall(e, s, "dropped")
           \/ call[e][s] = "open" /\ SetCall(e, s, "closed")
    BY <1>6 DEF DropRequest, Close, DropStream
  <2>2. /\ <<CallerSeen(e, s), CallerSeen(e, s)'>> \in Calls!GivenUp
        /\ Handed(e, s)' = Handed(e, s)
    BY <1>4, <2>1 DEF RustCallerView, Calls!GivenUp
  <2> QED
    BY <1>1, <1>2, <2>2, CallerSteps
<1>7. CASE PollItem(e, s)
  <2>1. /\ call' = call /\ call[e][s] \in {"open", "closed"} /\ buffer[e][s] # <<>>
        /\ received'[e][s] = Append(received[e][s], Head(buffer[e][s]))
    BY <1>1, <1>7 DEF PollItem, TypeOK, ClientTypeOK
  <2>2. CallerSeen(e, s)' = CallerSeen(e, s) /\ CallerSeen(e, s) \in {"waiting", "closed"}
    BY <2>1 DEF CallerSeen, RustCallerView
  <2>3. Handed(e, s)' = Handed(e, s) + 1
    <3>1. Head(buffer[e][s]) \in Items
      BY <1>1, <2>1
    <3> QED
      BY <1>1, <1>3, <2>1, <3>1
  <2>4. Handed(e, s) < Made(e, s)
    BY <1>3, <2>1, HandedOfMade
  <2> QED
    BY <1>1, <1>2, <2>2, <2>3, <2>4, CallerSteps
<1>8. CASE PollNone(e, s) /\ call[e][s] = "open"
  <2>1. /\ buffer[e][s] = <<>> /\ s \notin streamCallbacks[e] /\ received' = received
        /\ call[e][s] = "open" /\ SetCall(e, s, "ended")
    BY <1>8 DEF PollNone
  <2>2. Had(e, s) = FirstItems(Made(e, s)) /\ Over(Peer(e), s)
    BY <1>1, <2>1 DEF StreamOK, EndIsComplete, HeardEnd
  <2>3. Handed(e, s) = Made(e, s) /\ CalleeSeen(e, s) \in {"answered", "cancelled"}
    BY <1>1, <1>3, <2>1, <2>2, HandedOfMade, CalleeKindSeen
  <2>4. /\ CallerSeen(e, s) = "waiting" /\ CallerSeen(e, s)' = "ended"
        /\ Handed(e, s)' = Handed(e, s)
    BY <1>4, <2>1 DEF RustCallerView
  <2> QED
    BY <1>1, <1>2, <2>3, <2>4, CallerSteps
<1>9. CASE PollNone(e, s) /\ call[e][s] = "closed"
  <2>1. received' = received /\ SetCall(e, s, "drained")
    BY <1>9 DEF PollNone
  <2>2. CallerSeen(e, s)' = CallerSeen(e, s) /\ Handed(e, s)' = Handed(e, s)
    BY <1>4, <1>9, <2>1 DEF RustCallerView
  <2> QED
    BY <1>1, <1>2, <2>2, CallerSteps
<1> QED
  BY <1>5, <1>6, <1>7, <1>8, <1>9 DEF CallerStep, PollNone

(* the dispatcher is not seen;                                             *)
LEMMA RustDispatchRpc ==
  ASSUME JsSInv, JInv', NEW e \in Ends, e \notin JsEnds, Dispatch(e), UNCHANGED jsVars
  PROVE  UNCHANGED Calls!rpcVars
<1>1. /\ JInv /\ TypeOK /\ \A s \in Seqs : MapsMatch(e, s)
      /\ call \in [Ends -> [Seqs -> CallStates]]
  BY DEF JsSInv, JInv, CallOK, TypeOK, ClientTypeOK
<1>2. UNCHANGED <<execution, produced, received, closed, promise, stopped, delivered, handling,
                  yielded>>
  BY DEF Dispatch, DispatchRequest, DispatchAbort, DispatchResponse, DispatchStreamItem,
         DispatchStreamEnd, OnResponse, OnStreamItem, OnStreamEnd, clientVars, serviceVars,
         jsVars, jsCallerVars, jsHandlerVars
<1>3. \A f \in Ends, t \in Seqs :
        \/ call'[f][t] = call[f][t]
        \/ call[f][t] = "pending" /\ call'[f][t] = "responded"
  <2>1. CASE DispatchResponse(e)
    <3>1. PICK s : s = Head(channel[e]).seq /\ OnResponse(e, s)
      BY <2>1 DEF DispatchResponse
    <3>2. s \in Seqs
      <4>1. TakeMessage(e, "Response")
        BY <2>1 DEF DispatchResponse
      <4> QED
        BY <1>1, <3>1, <4>1, MessageTaken, MessageShapes
    <3>3. CASE s \in callbacks[e]
      <4>1. call[e][s] = "pending" /\ SetCall(e, s, "responded")
        BY <1>1, <3>1, <3>2, <3>3 DEF OnResponse, MapsMatch
      <4> QED
        BY <1>1, <4>1 DEF SetCall
    <3>4. CASE s \notin callbacks[e]
      BY <3>1, <3>4 DEF OnResponse
    <3> QED
      BY <3>3, <3>4
  <2>2. CASE ~ DispatchResponse(e)
    BY <2>2 DEF Dispatch, DispatchRequest, DispatchAbort, DispatchStreamItem,
                DispatchStreamEnd, OnStreamItem, OnStreamEnd, clientVars
  <2> QED
    BY <2>1, <2>2
<1>4. ASSUME NEW f \in Ends, NEW t \in Seqs
      PROVE  SameSeen(f, t)
  <2>1. SameServing(Peer(f), t)
    BY <1>2 DEF SameServing
  <2>2. RustCallerView(f, t)' = RustCallerView(f, t)
    BY <1>3 DEF RustCallerView
  <2>3. CallerView(f, t)' = CallerView(f, t) /\ Handed(f, t)' = Handed(f, t)
    BY <1>2 DEF CallerView, Handed
  <2> QED
    BY <2>1, <2>2, <2>3, ServingSeen DEF SameSeen, CallerSeen
<1> QED
  BY <1>1, <1>2, <1>4, NothingSeen
(* A handler that still works for a call that was given up.                *)
LEMMA UnwantedSeen ==
  ASSUME JsSInv, NEW e \in Ends, NEW s \in Seqs, GaveUp(e, s), ~ Over(Peer(e), s)
  PROVE  CallerSeen(e, s) \in {"closed", "gone"}
<1>1. JInv /\ EndIsComplete(e, s)
  BY DEF JsSInv, StreamOK
<1>2. ~ HasEnded(e, s)
  BY <1>1 DEF EndIsComplete, HeardEnd
<1> QED
  BY <1>1, <1>2, CallerKindSeen

(* what its server does with an execution starts, makes an item, answers   *)
(* or cancels, or is not seen.                                             *)
LEMMA RustLoopRpc ==
  ASSUME JsSInv, JInv', NEW g \in Ends, g \notin JsEnds, LoopStep(g), UNCHANGED <<clientVars, jsVars>>
  PROVE  Calls!RpcNext \/ UNCHANGED Calls!rpcVars
<1>1. JInv /\ TypeOK /\ closed' = closed /\ \A d \in Ends, t \in Seqs : SameSide(d, t)
  BY DEF JsSInv, JInv, SameSide, clientVars, jsVars, jsCallerVars
<1>2. CASE TakeRequest(g)
  <2>1. PICK e \in Ends : e = Peer(g) /\ Peer(e) = g /\ \A d \in Ends : d # e => Peer(d) # g
    BY PeerProps
  <2>2. requests[g] \in Seq(Inbound) /\ requests[g] # <<>>
    BY <1>1, <1>2 DEF TakeRequest, TypeOK, ServiceTypeOK
  <2>3. PICK s \in Seqs, m \in Methods :
          /\ Head(requests[g]).seq = s
          /\ InQueue([seq |-> s, method |-> m], requests[g])
    <3>1. Head(requests[g]) \in Inbound /\ InQueue(Head(requests[g]), requests[g])
      BY <2>2, QueueTail
    <3> QED
      BY <3>1 DEF Inbound
  <2>4. Untouched(g, s) /\ WasSent(e, s)
    BY <1>1, <2>1, <2>3, HeldWasSent DEF JInv, CallOK, RequestIsFresh
  <2>5. /\ execution'[g][s] = "called" /\ produced' = produced
        /\ \A f \in Ends, t \in Seqs : f # g \/ t # s => execution'[f][t] = execution[f][t]
    BY <1>1, <1>2, <2>3 DEF TakeRequest, SetExecution, TypeOK, ServiceTypeOK
  <2>6. /\ \A d \in Ends, t \in Seqs : d # e \/ t # s => SameServing(Peer(d), t)
        /\ Made(e, s)' = Made(e, s)
    BY <2>1, <2>5, PeerProps DEF SameServing, Made, jsVars, jsHandlerVars
  <2>7. CalleeSeen(e, s) = "idle" /\ CallerSeen(e, s) # "idle"
    BY <1>1, <2>1, <2>4, CallerKindSeen, CalleeKindSeen
  <2>8. CalleeSeen(e, s)' = "working"
    BY <2>1, <2>5 DEF CalleeSeen, RustCalleeView
  <2> QED
    BY <1>1, <2>6, <2>7, <2>8, CalleeSteps
<1>3. CASE TakeAbort(g) \/ ForwardItem(g) \/ ForwardEnd(g)
  <2>1. \A d, t : SameServing(d, t)
    BY <1>3 DEF TakeAbort, ForwardItem, ForwardEnd, SameServing, jsVars, jsHandlerVars
  <2>2. \A d \in Ends, t \in Seqs : SameSeen(d, t)
    BY <1>1, <2>1, SeenSame
  <2> QED
    BY <1>1, <2>2, NothingSeen
<1> QED
  BY <1>2, <1>3 DEF LoopStep

LEMMA RustExecutionRpc ==
  ASSUME JsSInv, JInv', NEW g \in Ends, g \notin JsEnds, NEW s \in Seqs, ExecutionStep(g, s),
         UNCHANGED <<clientVars, jsVars>>
  PROVE  Calls!RpcNext \/ UNCHANGED Calls!rpcVars
<1>1. JInv /\ TypeOK /\ closed' = closed /\ \A d \in Ends, t \in Seqs : SameSide(d, t)
  BY DEF JsSInv, JInv, SameSide, clientVars, jsVars, jsCallerVars
<1>2. PICK e \in Ends : e = Peer(g) /\ Peer(e) = g /\ \A d \in Ends : d # e => Peer(d) # g
  BY PeerProps
<1>3. /\ execution \in [Ends -> [Seqs -> ExecutionStates]]
      /\ produced \in [Ends -> [Seqs -> 0 .. MaxItems]]
      /\ execution[g][s] \in {"called", "forwarding"}
  BY <1>1
  DEF TypeOK, ServiceTypeOK, ExecutionStep, FinishNotify, FinishValue, AbortValue, StartStream,
      ProduceItem, FinishStream, AbortStream
<1>4. /\ CalleeSeen(e, s) = "working" /\ CalleeSeen(e, s)' = RustCalleeView(g, s)'
      /\ Made(e, s) = produced[g][s] /\ Made(e, s)' = produced'[g][s]
  BY <1>1, <1>2, <1>3, CalleeKindSeen DEF CalleeSeen, Made
<1>5. ASSUME NEW to, SetExecution(g, s, to), produced' = produced
      PROVE  /\ execution'[g][s] = to /\ Made(e, s)' = Made(e, s)
             /\ \A d \in Ends, t \in Seqs : d # e \/ t # s => SameServing(Peer(d), t)
  <2>1. /\ execution'[g][s] = to
        /\ \A f \in Ends, t \in Seqs : f # g \/ t # s => execution'[f][t] = execution[f][t]
    BY <1>3, <1>5 DEF SetExecution
  <2> QED
    BY <1>2, <1>4, <1>5, <2>1, PeerProps DEF SameServing, jsVars, jsHandlerVars
<1>6. CASE FinishNotify(g, s) \/ FinishValue(g, s) \/ FinishStream(g, s)
  <2>1. SetExecution(g, s, "finished") /\ produced' = produced
    BY <1>6 DEF FinishNotify, FinishValue, FinishStream, Complete, EndStream
  <2>2. CalleeSeen(e, s)' = "answered"
    BY <1>4, <1>5, <2>1 DEF RustCalleeView
  <2> QED
    BY <1>1, <1>4, <1>5, <2>1, <2>2, CalleeSteps
<1>7. CASE AbortValue(g, s) \/ AbortStream(g, s)
  <2>1. SetExecution(g, s, "aborted") /\ produced' = produced /\ s \in signalled[g]
    BY <1>7 DEF AbortValue, AbortStream, Complete, EndStream
  <2>2. CalleeSeen(e, s)' = "cancelled"
    BY <1>4, <1>5, <2>1 DEF RustCalleeView
  <2>3. GaveUp(e, s)
    BY <1>1, <1>2, <2>1 DEF JInv, CallOK, AbortWasSent
  <2>4. ~ Over(Peer(e), s)
    BY <1>1, <1>2, <1>3 DEF JInv, OwnKind, NoJsState, Over
  <2>5. CallerSeen(e, s) \in {"closed", "gone"}
    BY <2>3, <2>4, UnwantedSeen
  <2> QED
    BY <1>1, <1>4, <1>5, <2>1, <2>2, <2>5, CalleeSteps
<1>8. CASE StartStream(g, s)
  <2>1. SetExecution(g, s, "forwarding") /\ produced' = produced
    BY <1>8 DEF StartStream
  <2>2. CalleeSeen(e, s)' = "working"
    BY <1>4, <1>5, <2>1 DEF RustCalleeView
  <2> QED
    BY <1>1, <1>4, <1>5, <2>1, <2>2, CalleeSteps
<1>9. CASE ProduceItem(g, s)
  <2>1. /\ execution' = execution /\ produced[g][s] < MaxItems
        /\ produced'[g][s] = produced[g][s] + 1
        /\ \A f \in Ends, t \in Seqs : f # g \/ t # s => produced'[f][t] = produced[f][t]
    BY <1>3, <1>9 DEF ProduceItem
  <2>2. CalleeSeen(e, s)' = "working"
    BY <1>3, <1>4, <2>1 DEF RustCalleeView
  <2>3. \A d \in Ends, t \in Seqs : d # e \/ t # s => SameServing(Peer(d), t)
    BY <1>2, <2>1, PeerProps DEF SameServing, jsVars, jsHandlerVars
  <2> QED
    BY <1>1, <1>4, <2>1, <2>2, <2>3, CalleeSteps
<1> QED
  BY <1>6, <1>7, <1>8, <1>9 DEF ExecutionStep

LEMMA RustRpc ==
  ASSUME JsSInv, JInv', NEW g \in Ends, InterfaceStep(g), UNCHANGED jsVars
  PROVE  Calls!RpcNext \/ UNCHANGED Calls!rpcVars
<1>1. g \notin JsEnds
  BY RustEnd DEF JsSInv
<1>2. CASE NewCall(g) /\ UNCHANGED serviceVars
  BY <1>1, <1>2, RustNewRpc
<1>3. ASSUME NEW s \in Seqs, CallerStep(g, s), UNCHANGED serviceVars
      PROVE  Calls!RpcNext \/ UNCHANGED Calls!rpcVars
  BY <1>1, <1>3, RustCallerRpc
<1>4. CASE Dispatch(g)
  BY <1>1, <1>4, RustDispatchRpc
<1>5. CASE LoopStep(g) /\ UNCHANGED clientVars
  BY <1>1, <1>5, RustLoopRpc
<1>6. ASSUME NEW s \in Seqs, ExecutionStep(g, s), UNCHANGED clientVars
      PROVE  Calls!RpcNext \/ UNCHANGED Calls!rpcVars
  BY <1>1, <1>6, RustExecutionRpc
<1> QED
  BY <1>2, <1>3, <1>4, <1>5, <1>6 DEF InterfaceStep, ServiceStep
-----------------------------------------------------------------------------
(* The steps of an endpoint.  A new call is a call made, unless it threw   *)
(* or was refused;                                                         *)
LEMMA JsNewRpc ==
  ASSUME JsSInv, JInv', NEW e \in JsEnds, JsCall(e),
         UNCHANGED <<closed, failure, jsHandlerVars, clientVars, serviceVars>>
  PROVE  Calls!RpcNext \/ UNCHANGED Calls!rpcVars
<1>1. JInv /\ e \in Ends /\ NoRustState(e) /\ \A d \in Ends, t \in Seqs : CallOK(d, t)
  BY JsContext DEF JsSInv
<1>2. Number(e)
  BY DEF JsCall, JsNotify, JsRequest, JsStream, CallRefused, CallThrows
<1>3. PICK s \in Seqs : s = nextSequence[e] /\ ~ (s < nextSequence[e])
  <2>1. nextSequence[e] \in 0 .. MaxCalls /\ nextSequence[e] < MaxCalls /\ MaxCalls \in Nat
    BY <1>1, <1>2, BoundsAssumption DEF Number, JInv, JsTypeOK
  <2> QED
    BY <2>1 DEF Seqs
<1>4. promise[e][s] = "idle" /\ s \notin stopped[e]
  BY <1>1, <1>3 DEF CallOK, Numbered, MapsMatch
<1>5. /\ \E to \in {"notified", "pending", "open", "threw", "refused"} : SetPromise(e, s, to)
      /\ UNCHANGED <<stopped, delivered>>
  BY <1>3 DEF JsCall, JsNotify, JsRequest, JsStream, CallRefused, CallThrows
<1>6. /\ promise'[e][s] \in {"notified", "pending", "open", "threw", "refused"}
      /\ \A d \in Ends, t \in Seqs : d # e \/ t # s => promise'[d][t] = promise[d][t]
  BY <1>1, <1>5 DEF SetPromise, JInv, JsTypeOK
<1>7. /\ \A d \in Ends, t \in Seqs : SameServing(Peer(d), t)
      /\ \A d \in Ends, t \in Seqs : d # e \/ t # s => SameSide(d, t)
  BY <1>5, <1>6 DEF SameServing, SameSide, serviceVars, clientVars, jsHandlerVars
<1>8. /\ CallerSeen(e, s) = "idle" /\ CallerSeen(e, s)' \in {"idle", "notified", "waiting"}
      /\ Handed(e, s)' = Handed(e, s)
  BY <1>4, <1>5, <1>6 DEF CallerSeen, CallerView, Handed
<1> QED
  BY <1>1, <1>7, <1>8, CallerSteps

(* its caller gives a call up, is handed an item, or is told that a stream *)
(* has ended, when it has had everything;                                  *)
LEMMA JsCallerRpc ==
  ASSUME JsSInv, JInv', NEW e \in JsEnds, NEW s \in Seqs, JsCallerStep(e, s),
         UNCHANGED <<closed, failure, jsHandlerVars, clientVars, serviceVars>>
  PROVE  Calls!RpcNext \/ UNCHANGED Calls!rpcVars
<1>1. /\ JInv /\ e \in Ends /\ StreamOK(e, s) /\ MapsMatch(e, s)
      /\ promise[e][s] \in PromiseStates
  <2>1. JInv /\ e \in Ends /\ CallOK(e, s)
    BY JsContext DEF JsSInv
  <2>2. StreamOK(e, s)
    BY <2>1 DEF JsSInv
  <2>3. promise[e][s] \in PromiseStates
    BY <2>1 DEF JInv, JsTypeOK
  <2> QED
    BY <2>1, <2>2, <2>3 DEF CallOK
<1>2. /\ \A d \in Ends, t \in Seqs : SameServing(Peer(d), t)
      /\ \A d \in Ends, t \in Seqs : d # e \/ t # s => SameSide(d, t)
  <2>1. stopped' = stopped \/ stopped' = Insert(stopped, e, s)
    BY DEF JsCallerStep, AbortRequest, StopStream, RunCallback, SettleDone
  <2>2. stopped \in [Ends -> SUBSET Seqs]
    BY <1>1 DEF JInv, JsTypeOK
  <2>3. \A d \in Ends, t \in Seqs : d # e \/ t # s => (t \in stopped'[d] <=> t \in stopped[d])
    BY <1>1, <2>1, <2>2 DEF Insert
  <2> QED
    BY <2>3, JsCallerRows DEF SameHolding, SameSide
<1>3. /\ CallerSeen(e, s) = CallerView(e, s) /\ CallerSeen(e, s)' = CallerView(e, s)'
      /\ Handed(e, s) = Len(delivered[e][s]) /\ Handed(e, s)' = Len(delivered'[e][s])
      /\ HasWaiting(e, s) <=> chain[e][s] # <<>>
  BY DEF CallerSeen, Handed, HasWaiting
<1>4. ASSUME NEW to, SetPromise(e, s, to) PROVE promise'[e][s] = to
  BY <1>1, <1>4 DEF SetPromise, JInv, JsTypeOK
<1>5. CASE AbortRequest(e, s)
  <2>1. /\ promise[e][s] = "pending" /\ promise'[e][s] = "aborted" /\ delivered' = delivered
        /\ s \notin stopped[e]
    BY <1>1, <1>4, <1>5 DEF AbortRequest, MapsMatch
  <2>2. /\ <<CallerSeen(e, s), CallerSeen(e, s)'>> \in Calls!GivenUp
        /\ Handed(e, s)' = Handed(e, s)
    BY <1>3, <2>1 DEF CallerView, Calls!GivenUp
  <2> QED
    BY <1>1, <1>2, <2>2, CallerSteps
<1>6. CASE StopStream(e, s)
  <2>1. /\ promise' = promise /\ delivered' = delivered
        /\ s \notin stopped[e] /\ s \in stopped'[e]
        /\ promise[e][s] \in {"open", "ending", "closing", "done", "closed", "failed"}
    BY <1>1, <1>6 DEF StopStream, Insert, JInv, JsTypeOK
  <2>2. /\ \/ CallerSeen(e, s)' = CallerSeen(e, s)
           \/ <<CallerSeen(e, s), CallerSeen(e, s)'>> \in Calls!GivenUp
        /\ Handed(e, s)' = Handed(e, s)
    BY <1>3, <2>1 DEF CallerView, Calls!GivenUp
  <2> QED
    BY <1>1, <1>2, <2>2, CallerSteps
<1>7. CASE RunCallback(e, s)
  <2>1. /\ chain[e][s] # <<>> /\ promise' = promise /\ stopped' = stopped
        /\ delivered'[e][s] = Append(delivered[e][s], Head(chain[e][s]))
        /\ chain[e][s] \in Seq(Items) /\ delivered[e][s] \in Seq(Items)
    BY <1>1, <1>7 DEF RunCallback, JInv, JsTypeOK
  <2>2. promise[e][s] \in {"open", "ending", "closing", "closed", "failed"}
    <3>1. Had(e, s) # <<>> /\ call[e][s] = "idle"
      BY <1>1, <2>1, SomeWaiting, JsContext DEF Had, NoRustState
    <3>2. ~ HasEnded(e, s)
      BY <1>1, <1>3, <2>1 DEF StreamOK, EndIsComplete
    <3> QED
      BY <1>1, <3>1, <3>2 DEF StreamOK, HadWasMade, HasEnded
  <2>3. CallerSeen(e, s)' = CallerSeen(e, s) /\ CallerSeen(e, s) \in {"waiting", "closed"}
    BY <1>3, <2>1, <2>2 DEF CallerView
  <2>4. Handed(e, s)' = Handed(e, s) + 1
    <3>1. Head(chain[e][s]) \in Items
      BY <2>1
    <3> QED
      BY <1>3, <2>1, <3>1
  <2>5. Handed(e, s) < Made(e, s)
    BY <1>1, <1>3, <2>1, HandedOfMade
  <2> QED
    BY <1>1, <1>2, <2>3, <2>4, <2>5, CallerSteps
<1>8. CASE SettleDone(e, s)
  <2>1. /\ chain[e][s] = <<>> /\ delivered' = delivered /\ stopped' = stopped
        /\ \/ /\ promise[e][s] = "ending" /\ s \notin broken[e]
              /\ promise'[e][s] = "done"
           \/ promise[e][s] = "ending" /\ promise'[e][s] = "failed"
           \/ promise[e][s] = "closing" /\ promise'[e][s] = "closed"
    BY <1>1, <1>4, <1>8 DEF SettleDone
  <2>2. Handed(e, s)' = Handed(e, s)
    BY <1>3, <2>1
  <2>3. CASE promise[e][s] = "ending" /\ s \notin broken[e] /\ promise'[e][s] = "done"
    <3>1. Had(e, s) = FirstItems(Made(e, s)) /\ Over(Peer(e), s)
      BY <1>1, <2>3 DEF StreamOK, EndIsComplete, HeardEnd
    <3>2. Handed(e, s) = Made(e, s) /\ CalleeSeen(e, s) \in {"answered", "cancelled"}
      BY <1>1, <1>3, <2>1, <3>1, HandedOfMade, CalleeKindSeen
    <3>3. CallerSeen(e, s) \in {"waiting", "closed"} /\ CallerSeen(e, s)' = "ended"
      BY <1>3, <2>3 DEF CallerView
    <3> QED
      BY <1>1, <1>2, <2>2, <3>2, <3>3, CallerSteps
  <2>4. CASE \/ promise[e][s] = "ending" /\ promise'[e][s] = "failed"
             \/ promise[e][s] = "closing" /\ promise'[e][s] = "closed"
    <3>1. \/ CallerSeen(e, s)' = CallerSeen(e, s)
          \/ <<CallerSeen(e, s), CallerSeen(e, s)'>> \in Calls!GivenUp
      BY <1>3, <2>4 DEF CallerView, Calls!GivenUp
    <3> QED
      BY <1>1, <1>2, <2>2, <3>1, CallerSteps
  <2> QED
    BY <2>1, <2>3, <2>4
<1> QED
  BY <1>5, <1>6, <1>7, <1>8 DEF JsCallerStep

(* what comes back to it returns a call or, if it cannot be decoded, gives *)
(* up a stream, and else is not seen;                                      *)
LEMMA JsAnswerRpc ==
  ASSUME JsSInv, JInv', NEW e \in JsEnds, JsOnResponse(e) \/ JsOnStreamItem(e) \/ JsOnStreamEnd(e),
         UNCHANGED <<clientVars, serviceVars>>
  PROVE  Calls!RpcNext \/ UNCHANGED Calls!rpcVars
<1>1. JInv /\ TypeOK /\ e \in Ends /\ NoRustState(e) /\ \A d \in Ends, t \in Seqs : CallOK(d, t)
  BY JsContext DEF JsSInv, JInv
<1>2. PICK y : y = Head(channel[e])
  OBVIOUS
<1>3. /\ channel[e] # <<>> /\ channel[e] \in Seq(Message) /\ y \in Message /\ y.seq \in Seqs
      /\ InQueue(y, channel[e])
  BY <1>1, <1>2, QueueTail, MessageShapes
  DEF JsOnResponse, JsOnStreamItem, JsOnStreamEnd, Arrives, TypeOK
<1>4. PICK s \in Seqs : s = y.seq
  BY <1>3
<1>5. StreamOK(e, s) /\ MapsMatch(e, s) /\ ResponseIsFinal(e, s)
  BY <1>1 DEF JsSInv, CallOK
<1>6. UNCHANGED <<closed, stopped, delivered, call, received>>
      /\ \A f, t : SameServing(f, t)
  BY DEF JsOnResponse, JsOnStreamItem, JsOnStreamEnd, SameServing, clientVars, serviceVars,
         jsHandlerVars
<1>7. promise' = promise \/ \E to : SetPromise(e, s, to)
  BY <1>2, <1>4 DEF JsOnResponse, JsOnStreamItem, JsOnStreamEnd
<1>8. \A d \in Ends, t \in Seqs : d # e \/ t # s => SameSide(d, t)
  <2>1. promise \in [Ends -> [Seqs -> PromiseStates]]
    BY <1>1 DEF JInv, JsTypeOK
  <2>2. \A d \in Ends, t \in Seqs : d # e \/ t # s => promise'[d][t] = promise[d][t]
    BY <1>1, <1>7, <2>1 DEF SetPromise
  <2> QED
    BY <1>6, <2>2 DEF SameSide
<1>9. /\ CallerSeen(e, s) = CallerView(e, s) /\ CallerSeen(e, s)' = CallerView(e, s)'
      /\ Handed(e, s)' = Handed(e, s)
  BY <1>6 DEF CallerSeen, Handed
<1>10. ~ Untouched(Peer(e), s) => promise[e][s] # "threw"
  BY <1>1, <1>5 DEF StreamOK, ServedWasSent, WasSent, NoRustState
<1>11. ASSUME NEW to, SetPromise(e, s, to) PROVE promise'[e][s] = to
  BY <1>1, <1>11 DEF SetPromise, JInv, JsTypeOK
<1>12. CASE promise' = promise
  <2>1. CallerSeen(e, s)' = CallerSeen(e, s)
    BY <1>6, <1>9, <1>12 DEF CallerView
  <2> QED
    BY <1>1, <1>6, <1>8, <1>9, <2>1, CallerSteps
<1>13. CASE JsOnResponse(e) /\ promise' # promise
  <2>1. s \in pendingRequests[e] /\ SetPromise(e, s, "settled") /\ y = ResponseMsg(s)
    BY <1>2, <1>3, <1>4, <1>13, MessageShapes DEF JsOnResponse, Arrives
  <2>2. execution[Peer(e)][s] = "finished" \/ handling[Peer(e)][s] = "over"
    BY <1>3, <1>5, <2>1 DEF ResponseIsFinal, Answered
  <2>3. promise[e][s] = "pending" /\ s \notin stopped[e]
    BY <1>5, <1>10, <2>1, <2>2 DEF MapsMatch, Untouched
  <2>4. CallerSeen(e, s) = "waiting" /\ CallerSeen(e, s)' = "returned"
    BY <1>9, <1>11, <2>1, <2>3 DEF CallerView
  <2>5. CalleeSeen(e, s) = "answered"
    BY <1>1, <2>2, CalleeKindSeen
  <2> QED
    BY <1>1, <1>6, <1>8, <1>9, <2>4, <2>5, CallerSteps
<1>14. CASE JsOnStreamItem(e) /\ promise' # promise
  <2>1. s \in openStreams[e] /\ SetPromise(e, s, "failed") /\ y.kind = "StreamItem"
    BY <1>2, <1>4, <1>14 DEF JsOnStreamItem, Arrives
  <2>2. HasItem(channel[e], s)
    BY <1>3, <1>4, <2>1, PlainMessages DEF HasItem, InQueue
  <2>3. promise[e][s] = "open"
    BY <1>5, <1>10, <2>1, <2>2 DEF MapsMatch, StreamOK, NothingMadeEarly
  <2>4. \/ CallerSeen(e, s)' = CallerSeen(e, s)
        \/ <<CallerSeen(e, s), CallerSeen(e, s)'>> \in Calls!GivenUp
    BY <1>6, <1>9, <1>11, <2>1, <2>3 DEF CallerView, Calls!GivenUp
  <2> QED
    BY <1>1, <1>6, <1>8, <1>9, <2>4, CallerSteps
<1>15. CASE JsOnStreamEnd(e) /\ promise' # promise
  <2>1. s \in openStreams[e] /\ SetPromise(e, s, "ending") /\ y = EndMsg(s)
    BY <1>2, <1>3, <1>4, <1>15, MessageShapes DEF JsOnStreamEnd, Arrives
  <2>2. promise[e][s] = "open"
    <3>1. WasSent(e, s)
      BY <1>1, <1>2, <1>3, <1>5, <2>1, EndTaken
    <3> QED
      BY <1>1, <1>5, <2>1, <3>1 DEF MapsMatch, WasSent, NoRustState
  <2>3. CallerSeen(e, s)' = CallerSeen(e, s)
    BY <1>6, <1>9, <1>11, <2>1, <2>2 DEF CallerView
  <2> QED
    BY <1>1, <1>6, <1>8, <1>9, <2>3, CallerSteps
<1> QED
  BY <1>12, <1>13, <1>14, <1>15
-----------------------------------------------------------------------------
(* The handlers of an endpoint: a request that arrives starts a call that  *)
(* was made, unless it cannot be decoded;                                  *)
LEMMA JsRequestRpc ==
  ASSUME JsSInv, JInv', NEW g \in JsEnds, JsOnRequest(g), UNCHANGED <<clientVars, serviceVars>>
  PROVE  Calls!RpcNext \/ UNCHANGED Calls!rpcVars
<1>1. /\ JInv /\ g \in Ends /\ channel \in [Ends -> Seq(Message)]
      /\ channel[g] # <<>> /\ Head(channel[g]).kind = "Request"
  BY JsContext DEF JsOnRequest, Arrives, JsSInv, JInv, TypeOK
<1>2. PICK y \in Message, s \in Seqs, m \in Methods :
        y = Head(channel[g]) /\ y.kind = "Request" /\ y.seq = s /\ y = RequestMsg(s, m)
  <2>1. Head(channel[g]) \in Message
    BY <1>1, QueueTail
  <2> QED
    BY <1>1, <2>1, MessageShapes
<1>3. PICK e \in Ends : /\ e = Peer(g) /\ Peer(e) = g /\ RequestIsFresh(e, s)
                        /\ \A d \in Ends : d # e => Peer(d) # g
  BY <1>1, JsContext, PeerProps DEF CallOK
<1>4. Untouched(g, s) /\ WasSent(e, s)
  <2>1. InQueue(RequestMsg(s, m), channel[g])
    BY <1>1, <1>2, QueueTail
  <2> QED
    BY <1>3, <2>1, HeldWasSent DEF RequestIsFresh
<1>5. /\ UNCHANGED <<jsCallerVars, yielded, execution, produced, closed, call, received>>
      /\ \A d \in Ends, t \in Seqs : SameSide(d, t)
  BY DEF JsOnRequest, SameSide, clientVars, serviceVars, jsCallerVars
<1>6. /\ handling'[g][s] \in {"undecoded", "over", "running", "iterating"}
      /\ \A f \in Ends, t \in Seqs : f # g \/ t # s => handling'[f][t] = handling[f][t]
  <2>1. \E to \in {"undecoded", "over", "running", "iterating"} : SetHandling(g, s, to)
    BY <1>2 DEF JsOnRequest
  <2>2. handling \in [Ends -> [Seqs -> HandlingStates]]
    BY <1>1 DEF JInv, JsTypeOK
  <2> QED
    BY <1>1, <2>1, <2>2 DEF SetHandling
<1>7. /\ \A d \in Ends, t \in Seqs : d # e \/ t # s => SameServing(Peer(d), t)
      /\ Made(e, s)' = Made(e, s)
  BY <1>3, <1>5, <1>6, PeerProps DEF SameServing, Made
<1>8. CalleeSeen(e, s) = "idle" /\ CallerSeen(e, s) # "idle"
  BY <1>1, <1>3, <1>4, CallerKindSeen, CalleeKindSeen
<1>9. CalleeSeen(e, s)' \in {"idle", "working", "answered"}
  BY <1>3, <1>6 DEF CalleeSeen, CalleeView
<1> QED
  BY <1>1, <1>5, <1>7, <1>8, <1>9, CalleeSteps

(* an abort that arrives is not seen;                                      *)
LEMMA JsAbortRpc ==
  ASSUME JsSInv, JInv', NEW g \in JsEnds, JsOnAbort(g), UNCHANGED <<clientVars, serviceVars>>
  PROVE  UNCHANGED Calls!rpcVars
<1>1. /\ UNCHANGED <<jsCallerVars, handling, yielded, execution, produced, closed, call, received>>
      /\ JInv
  BY DEF JsOnAbort, JsSInv, clientVars, serviceVars
<1>2. \A d \in Ends, t \in Seqs : SameSeen(d, t)
  BY <1>1, SeenSame DEF SameSide, SameServing, jsCallerVars
<1> QED
  BY <1>1, <1>2, NothingSeen

(* a handler answers, makes an item, or goes on for a call whose caller    *)
(* has given it up, or that its own endpoint was closed under.             *)
LEMMA JsHandlerRpc ==
  ASSUME JsSInv, JInv', NEW g \in JsEnds, NEW s \in Seqs, JsHandlerStep(g, s),
         UNCHANGED <<clientVars, serviceVars>>
  PROVE  Calls!RpcNext \/ UNCHANGED Calls!rpcVars
<1>1. /\ JInv /\ g \in Ends /\ NoRustState(g)
      /\ \A d \in Ends, t \in Seqs : CallOK(d, t)
  BY JsContext DEF JsSInv
<1>2. PICK e \in Ends : e = Peer(g) /\ Peer(e) = g /\ \A d \in Ends : d # e => Peer(d) # g
  BY <1>1, PeerProps
<1>3. /\ UNCHANGED <<jsCallerVars, execution, produced, closed, call, received>>
      /\ \A d \in Ends, t \in Seqs : SameSide(d, t)
      /\ handling[g][s] \in {"running", "iterating"}
  BY DEF JsHandlerStep, HandlerSettles, Yield, FinishIteration, SameSide, clientVars, serviceVars,
         jsCallerVars
<1>4. /\ handling \in [Ends -> [Seqs -> HandlingStates]]
      /\ yielded \in [Ends -> [Seqs -> 0 .. MaxItems]]
  BY <1>1 DEF JInv, JsTypeOK
<1>5. /\ CalleeSeen(e, s) = "working" /\ CalleeSeen(e, s)' = CalleeView(g, s)'
      /\ Made(e, s) = yielded[g][s] /\ Made(e, s)' = yielded'[g][s]
  BY <1>1, <1>2, <1>3, CalleeKindSeen DEF CalleeSeen, Made
<1>6. CASE HandlerSettles(g, s) \/ FinishIteration(g, s)
  <2>1. /\ yielded' = yielded
        /\ \/ SetHandling(g, s, "over") \/ SetHandling(g, s, "unanswered")
           \/ /\ SetHandling(g, s, "abandoned")
              /\ \/ handling[g][s] = "running" /\ s \notin inflightRequests[g]
                 \/ handling[g][s] = "iterating" /\ s \notin runningIterators[g]
    BY <1>6 DEF HandlerSettles, FinishIteration
  <2>2. ASSUME NEW to, SetHandling(g, s, to)
        PROVE  /\ handling'[g][s] = to
               /\ \A d \in Ends, t \in Seqs : d # e \/ t # s => SameServing(Peer(d), t)
    <3>1. /\ handling'[g][s] = to
          /\ \A f \in Ends, t \in Seqs : f # g \/ t # s => handling'[f][t] = handling[f][t]
      BY <1>1, <1>4, <2>2 DEF SetHandling
    <3> QED
      BY <1>2, <1>3, <2>1, <3>1, PeerProps DEF SameServing
  <2>3. CASE SetHandling(g, s, "over") \/ SetHandling(g, s, "unanswered")
    <3>1. CalleeSeen(e, s)' = "answered"
      BY <1>5, <2>2, <2>3 DEF CalleeView
    <3> QED
      BY <1>1, <1>3, <1>5, <2>1, <2>2, <2>3, <3>1, CalleeSteps
  <2>4. CASE /\ SetHandling(g, s, "abandoned")
             /\ \/ handling[g][s] = "running" /\ s \notin inflightRequests[g]
                \/ handling[g][s] = "iterating" /\ s \notin runningIterators[g]
    <3>1. CalleeSeen(e, s)' = "cancelled"
      BY <1>5, <2>2, <2>4 DEF CalleeView
    <3>2. g \in closed \/ GaveUp(e, s)
      BY <1>1, <1>2, <2>4 DEF CallOK, ForgottenWasGivenUp
    <3>3. ~ Over(g, s)
      BY <1>1, <1>3 DEF NoRustState, Over
    <3>4. CallerSeen(e, s) \in {"closed", "gone"} \/ Peer(e) \in closed
      BY <1>2, <3>2, <3>3, UnwantedSeen
    <3> QED
      BY <1>1, <1>3, <1>5, <2>1, <2>2, <2>4, <3>1, <3>4, CalleeSteps
  <2> QED
    BY <2>1, <2>3, <2>4
<1>7. CASE Yield(g, s)
  <2>1. /\ handling' = handling /\ yielded[g][s] < MaxItems
        /\ yielded'[g][s] = yielded[g][s] + 1
        /\ \A f \in Ends, t \in Seqs : f # g \/ t # s => yielded'[f][t] = yielded[f][t]
    BY <1>1, <1>4, <1>7 DEF Yield
  <2>2. CalleeSeen(e, s)' = "working"
    BY <1>3, <1>5, <2>1 DEF CalleeView
  <2>3. \A d \in Ends, t \in Seqs : d # e \/ t # s => SameServing(Peer(d), t)
    BY <1>2, <1>3, <2>1, PeerProps DEF SameServing
  <2> QED
    BY <1>1, <1>3, <1>5, <2>1, <2>2, <2>3, CalleeSteps
<1> QED
  BY <1>6, <1>7 DEF JsHandlerStep

(* An endpoint that is closed or fails gives up every call it waits for,   *)
(* and one that is closed leaves its peer's.                               *)
LEMMA JsEndingRpc ==
  ASSUME JsSInv, JInv', NEW e \in JsEnds, CloseEndpoint(e) \/ Fail(e) \/ Discard(e),
         UNCHANGED <<clientVars, serviceVars>>
  PROVE  Calls!RpcNext \/ UNCHANGED Calls!rpcVars
<1>1. JInv /\ e \in Ends /\ \A d \in Ends, t \in Seqs : CallOK(d, t)
  BY JsContext DEF JsSInv
<1>2. /\ UNCHANGED <<handling, yielded, execution, produced, call, received, delivered, stopped>>
      /\ closed' = closed \/ closed' = closed \cup {e}
  BY DEF CloseEndpoint, Fail, Discard, SettleAll, jsVars, jsCallerVars, jsHandlerVars, clientVars,
         serviceVars
<1>3. \A d \in Ends, t \in Seqs : SameCallee(d, t) /\ Handed(d, t)' = Handed(d, t)
  BY <1>2, ServingSeen DEF SameServing, Handed
<1>4. \A d \in Ends, t \in Seqs : d # e => CallerSeen(d, t)' = CallerSeen(d, t)
  BY <1>1, <1>2, EndingPromises, SideSeen DEF SameSide
<1>5. ASSUME NEW s \in Seqs
      PROVE  \/ CallerSeen(e, s)' = CallerSeen(e, s)
             \/ <<CallerSeen(e, s), CallerSeen(e, s)'>> \in Calls!GivenUp
  <2>1. CallerSeen(e, s) = CallerView(e, s) /\ CallerSeen(e, s)' = CallerView(e, s)'
    BY DEF CallerSeen
  <2>2. promise[e][s] = "pending" => s \notin stopped[e]
    BY <1>1 DEF CallOK, MapsMatch
  <2>3. CASE promise'[e][s] = promise[e][s]
    BY <1>2, <2>1, <2>3 DEF CallerView
  <2>4. CASE promise[e][s] = "pending" /\ promise'[e][s] = "rejected"
    BY <2>1, <2>2, <2>4 DEF CallerView, Calls!GivenUp
  <2>5. CASE promise[e][s] = "open" /\ promise'[e][s] \in {"closing", "failed"}
    BY <2>1, <2>5 DEF CallerView, Calls!GivenUp
  <2> QED
    BY <1>1, <2>3, <2>4, <2>5, EndingPromises
<1>6. Calls!GiveUp(e)
  BY <1>1, <1>2, <1>3, <1>4, <1>5, GivingUpSeen
<1> QED
  BY <1>1, <1>6 DEF Calls!RpcNext

LEMMA JsRpc ==
  ASSUME JsSInv, JInv', NEW e \in JsEnds, JsStep(e), UNCHANGED <<clientVars, serviceVars>>
  PROVE  Calls!RpcNext \/ UNCHANGED Calls!rpcVars
<1>1. CASE JsCall(e) /\ UNCHANGED <<closed, failure, jsHandlerVars>>
  BY <1>1, JsNewRpc
<1>2. ASSUME NEW s \in Seqs, JsCallerStep(e, s), UNCHANGED <<closed, failure, jsHandlerVars>>
      PROVE  Calls!RpcNext \/ UNCHANGED Calls!rpcVars
  BY <1>2, JsCallerRpc
<1>3. ASSUME NEW s \in Seqs, JsHandlerStep(e, s)
      PROVE  Calls!RpcNext \/ UNCHANGED Calls!rpcVars
  BY <1>3, JsHandlerRpc
<1>4. CASE JsDispatch(e)
  BY <1>4, JsAnswerRpc, JsRequestRpc, JsAbortRpc DEF JsDispatch
<1>5. CASE CloseEndpoint(e) \/ Fail(e) \/ Discard(e)
  BY <1>5, JsEndingRpc
<1> QED
  BY <1>1, <1>2, <1>3, <1>4, <1>5 DEF JsStep

-----------------------------------------------------------------------------
(* The connection starts as Rpc does.                                      *)
LEMMA InitRpc == Init => Calls!RpcInit
<1> SUFFICES ASSUME Init PROVE Calls!RpcInit
  OBVIOUS
<1>1. ASSUME NEW e \in Ends, NEW s \in Seqs
      PROVE  /\ CallerSeen(e, s) = "idle" /\ CalleeSeen(e, s) = "idle"
             /\ Made(e, s) = 0 /\ Handed(e, s) = 0
  <2>1. /\ Peer(e) \in Ends
        /\ call[e][s] = "idle" /\ promise[e][s] = "idle"
        /\ received[e][s] = <<>> /\ delivered[e][s] = <<>>
        /\ execution[Peer(e)][s] = "none" /\ handling[Peer(e)][s] = "none"
        /\ produced[Peer(e)][s] = 0 /\ yielded[Peer(e)][s] = 0
    BY PeerProps DEF Init, ClientInit, ServiceInit, JsInit
  <2>2. CallerView(e, s) = "idle" /\ RustCallerView(e, s) = "idle"
    BY <2>1 DEF CallerView, RustCallerView
  <2>3. CalleeView(Peer(e), s) = "idle" /\ RustCalleeView(Peer(e), s) = "idle"
    BY <2>1 DEF CalleeView, RustCalleeView
  <2>4. Made(e, s) = 0
    BY <2>1 DEF Made
  <2> QED
    BY <2>1, <2>2, <2>3, <2>4 DEF CallerSeen, CalleeSeen, Handed
<1>2. /\ Callers = [e \in Ends |-> [s \in Seqs |-> "idle"]]
      /\ Callees = [e \in Ends |-> [s \in Seqs |-> "idle"]]
      /\ AllMade = [e \in Ends |-> [s \in Seqs |-> 0]]
      /\ AllHanded = [e \in Ends |-> [s \in Seqs |-> 0]]
  BY <1>1 DEF Callers, Callees, AllMade, AllHanded
<1>3. Left = {}
  BY DEF Left, Init, JsInit
<1> QED
  BY <1>2, <1>3
  DEF Calls!RpcInit, Callers, Callees, AllMade, AllHanded, Left, CallerSeen, CalleeSeen, Handed

(* Every step of the connection is one of Rpc, or none.                    *)
LEMMA StepRpc == JsSInv /\ [Next]_vars => [Calls!RpcNext]_(Calls!rpcVars)
<1> SUFFICES ASSUME JsSInv, [Next]_vars PROVE Calls!RpcNext \/ UNCHANGED Calls!rpcVars
  OBVIOUS
<1>1. JInv /\ JInv'
  BY StepJ DEF JsSInv
<1>2. ASSUME NEW g \in Ends, InterfaceStep(g), UNCHANGED jsVars
      PROVE  Calls!RpcNext \/ UNCHANGED Calls!rpcVars
  BY <1>1, <1>2, RustRpc
<1>3. ASSUME NEW g \in JsEnds, JsStep(g), UNCHANGED <<clientVars, serviceVars>>
      PROVE  Calls!RpcNext \/ UNCHANGED Calls!rpcVars
  BY <1>1, <1>3, JsRpc
<1>4. CASE UNCHANGED vars
  <2>1. /\ \A d \in Ends, t \in Seqs : SameSeen(d, t)
        /\ closed' = closed
    BY <1>4, SeenSame
    DEF SameSide, SameServing, vars, clientVars, serviceVars, jsVars, jsCallerVars, jsHandlerVars
  <2> QED
    BY <1>1, <2>1, NothingSeen
<1> QED
  BY <1>2, <1>3, <1>4 DEF Next, Settled

(* The maps, promises and messages of an endpoint and of what is at its    *)
(* other end, Rust or JavaScript, implement the remote calls that two Rust *)
(* interfaces do: a call is run at most once and only after it was made, a *)
(* promise settles only after the call was answered, done of a stream      *)
(* resolves only after everything it made was handed over, and a call is   *)
(* abandoned only when it was given up or its endpoint was closed.         *)
THEOREM JsConnectionIsRpc == Spec => ImplementsRpc
BY InitRpc, StepRpc, JsStreamInvariant, PTL DEF Spec, ImplementsRpc, Calls!RpcSpec
=============================================================================
