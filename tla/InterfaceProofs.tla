--------------------------- MODULE InterfaceProofs --------------------------
(***************************************************************************)
(* Facts about channels and messages, and the type correctness of every    *)
(* step of a Rust interface, whatever is at the other end of its channel,  *)
(* for every number of calls and items and every set of methods.           *)
(***************************************************************************)
EXTENDS Interface, PeersProofs

-----------------------------------------------------------------------------
(* Messages of different kinds, or of different calls, differ.             *)
LEMMA MessageFacts ==
  /\ \A s \in Seqs, m \in Methods : RequestMsg(s, m) \in Message
  /\ \A s \in Seqs : {AbortMsg(s), ResponseMsg(s), EndMsg(s)} \subseteq Message
  /\ \A s \in Seqs, i \in Items : ItemMsg(s, i) \in Message
  /\ \A s, m : RequestMsg(s, m).kind = "Request" /\ RequestMsg(s, m).seq = s
                 /\ RequestMsg(s, m).method = m
  /\ \A s : AbortMsg(s).kind = "Abort" /\ AbortMsg(s).seq = s
  /\ \A s : ResponseMsg(s).kind = "Response" /\ ResponseMsg(s).seq = s
  /\ \A s : EndMsg(s).kind = "StreamEnd" /\ EndMsg(s).seq = s
  /\ \A s, i : ItemMsg(s, i).kind = "StreamItem" /\ ItemMsg(s, i).seq = s
                 /\ ItemMsg(s, i).item = i
BY DEF Message, RequestMsg, AbortMsg, ResponseMsg, EndMsg, ItemMsg

(* A message is one of the five kinds.                                     *)
LEMMA MessageShapes ==
  ASSUME NEW x \in Message
  PROVE  /\ x.seq \in Seqs
         /\ x.kind = "Request" => x.method \in Methods /\ x = RequestMsg(x.seq, x.method)
         /\ x.kind = "Abort" => x = AbortMsg(x.seq)
         /\ x.kind = "Response" => x = ResponseMsg(x.seq)
         /\ x.kind = "StreamEnd" => x = EndMsg(x.seq)
         /\ x.kind = "StreamItem" => x.item \in Items /\ x = ItemMsg(x.seq, x.item)
BY DEF Message, RequestMsg, AbortMsg, ResponseMsg, EndMsg, ItemMsg

-----------------------------------------------------------------------------
(* What a post does to the channels.                                       *)
LEMMA PostEffect ==
  ASSUME channel \in [Ends -> Seq(Message)], NEW e \in Ends, NEW msg \in Message, Post(e, msg)
  PROVE  /\ channel' \in [Ends -> Seq(Message)]
         /\ \A f \in Ends : f # Peer(e) => channel'[f] = channel[f]
         /\ channel'[Peer(e)] = Append(channel[Peer(e)], msg)
         /\ \A f \in Ends : \A x :
              InQueue(x, channel'[f]) <=> InQueue(x, channel[f]) \/ (f = Peer(e) /\ x = msg)
<1>1. Peer(e) \in Ends /\ channel[Peer(e)] \in Seq(Message)
  BY PeerProps
<1>2. /\ Append(channel[Peer(e)], msg) \in Seq(Message)
      /\ \A x : InQueue(x, Append(channel[Peer(e)], msg)) <=>
                  InQueue(x, channel[Peer(e)]) \/ x = msg
  BY <1>1, QueueAppend
<1>3. /\ channel' \in [Ends -> Seq(Message)]
      /\ channel'[Peer(e)] = Append(channel[Peer(e)], msg)
      /\ \A f \in Ends : f # Peer(e) => channel'[f] = channel[f]
  BY <1>1, <1>2 DEF Post
<1> QED
  BY <1>1, <1>2, <1>3

(* What the dispatcher's taking a message does to the channels.            *)
LEMMA TakeEffect ==
  ASSUME channel \in [Ends -> Seq(Message)], NEW e \in Ends, NEW kind, TakeMessage(e, kind)
  PROVE  /\ channel' \in [Ends -> Seq(Message)]
         /\ channel[e] \in Seq(Message) /\ channel[e] # <<>>
         /\ channel'[e] = Tail(channel[e])
         /\ Head(channel[e]) \in Message /\ Head(channel[e]).kind = kind
         /\ \A f \in Ends : f # e => channel'[f] = channel[f]
         /\ \A f \in Ends : \A x :
              InQueue(x, channel[f]) <=>
                InQueue(x, channel'[f]) \/ (f = e /\ x = Head(channel[e]))
<1>1. channel[e] \in Seq(Message) /\ channel[e] # <<>> /\ Head(channel[e]).kind = kind
  BY DEF TakeMessage
<1>2. /\ Head(channel[e]) \in Message /\ Tail(channel[e]) \in Seq(Message)
      /\ \A x : InQueue(x, channel[e]) <=> x = Head(channel[e]) \/ InQueue(x, Tail(channel[e]))
  BY <1>1, QueueTail
<1>3. /\ channel' \in [Ends -> Seq(Message)]
      /\ channel'[e] = Tail(channel[e])
      /\ \A f \in Ends : f # e => channel'[f] = channel[f]
  BY <1>1, <1>2 DEF TakeMessage
<1> QED
  BY <1>1, <1>2, <1>3

-----------------------------------------------------------------------------
(* Type correctness, one lemma per component.                              *)

(* Setting the caller's state of a call keeps the type of `call`.          *)
LEMMA SetCallType ==
  ASSUME call \in [Ends -> [Seqs -> CallStates]], NEW e \in Ends, NEW s \in Seqs,
         NEW status \in CallStates, SetCall(e, s, status)
  PROVE  call' \in [Ends -> [Seqs -> CallStates]]
BY DEF SetCall

(* So does appending to one queue of a table of queues.                    *)
LEMMA AppendType ==
  ASSUME NEW S, NEW table \in [Ends -> [Seqs -> Seq(S)]], NEW e \in Ends, NEW s \in Seqs,
         NEW x \in S
  PROVE  [table EXCEPT ![e][s] = Append(@, x)] \in [Ends -> [Seqs -> Seq(S)]]
<1>1. Append(table[e][s], x) \in Seq(S)
  OBVIOUS
<1>2. [table[e] EXCEPT ![s] = Append(@, x)] \in [Seqs -> Seq(S)]
  BY <1>1
<1> QED
  BY <1>2

(* The dispatcher's steps keep the types.                                  *)
LEMMA DispatchType ==
  ASSUME TypeOK, NEW e \in Ends, Dispatch(e)
  PROVE  TypeOK'
<1> USE DEF TypeOK
<1>1. CASE DispatchRequest(e)
  <2>1. channel' \in [Ends -> Seq(Message)] /\ Head(channel[e]) \in Message
        /\ Head(channel[e]).kind = "Request"
    BY <1>1, TakeEffect DEF DispatchRequest
  <2>2. [seq |-> Head(channel[e]).seq, method |-> Head(channel[e]).method] \in Inbound
    BY <2>1, MessageShapes DEF Inbound
  <2>3. requests' \in [Ends -> Seq(Inbound)]
    BY <1>1, <2>2, QueueAppend DEF DispatchRequest, ServiceTypeOK
  <2> QED
    BY <1>1, <2>1, <2>3 DEF DispatchRequest, ServiceTypeOK, ClientTypeOK, clientVars
<1>2. CASE DispatchAbort(e)
  <2>1. channel' \in [Ends -> Seq(Message)] /\ Head(channel[e]) \in Message
    BY <1>2, TakeEffect DEF DispatchAbort
  <2>2. aborts' \in [Ends -> Seq(Seqs)]
    BY <1>2, <2>1, MessageShapes, QueueAppend DEF DispatchAbort, ServiceTypeOK
  <2> QED
    BY <1>2, <2>1, <2>2 DEF DispatchAbort, ServiceTypeOK, ClientTypeOK, clientVars
<1>3. CASE DispatchResponse(e)
  <2>1. channel' \in [Ends -> Seq(Message)] /\ Head(channel[e]) \in Message
    BY <1>3, TakeEffect DEF DispatchResponse
  <2>2. Head(channel[e]).seq \in Seqs
    BY <2>1, MessageShapes
  <2>3. call' \in [Ends -> [Seqs -> CallStates]]
    BY <1>3, <2>2, SetCallType DEF DispatchResponse, OnResponse, CallStates, ClientTypeOK
  <2> QED
    BY <1>3, <2>1, <2>2, <2>3
    DEF DispatchResponse, OnResponse, ServiceTypeOK, ClientTypeOK, serviceVars
<1>4. CASE DispatchStreamItem(e)
  <2>1. channel' \in [Ends -> Seq(Message)] /\ Head(channel[e]) \in Message
        /\ Head(channel[e]).kind = "StreamItem"
    BY <1>4, TakeEffect DEF DispatchStreamItem
  <2>2. Head(channel[e]).seq \in Seqs /\ Head(channel[e]).item \in Items
    BY <2>1, MessageShapes
  <2>3. PICK s \in Seqs, i \in Items : OnStreamItem(e, s, i)
    BY <1>4, <2>2 DEF DispatchStreamItem
  <2>4. buffer \in [Ends -> [Seqs -> Seq(Items)]]
    BY DEF ClientTypeOK
  <2>5. \/ buffer' = [buffer EXCEPT ![e][s] = Append(@, i)]
        \/ buffer' = buffer
    BY <2>3 DEF OnStreamItem
  <2>6. [buffer EXCEPT ![e][s] = Append(@, i)] \in [Ends -> [Seqs -> Seq(Items)]]
    BY <2>4, AppendType, Zenon
  <2>7. buffer' \in [Ends -> [Seqs -> Seq(Items)]]
    BY <2>4, <2>5, <2>6
  <2> QED
    BY <1>4, <2>1, <2>7
    DEF DispatchStreamItem, OnStreamItem, ServiceTypeOK, ClientTypeOK, serviceVars
<1>5. CASE DispatchStreamEnd(e)
  <2>1. channel' \in [Ends -> Seq(Message)] /\ Head(channel[e]) \in Message
    BY <1>5, TakeEffect DEF DispatchStreamEnd
  <2> QED
    BY <1>5, <2>1
    DEF DispatchStreamEnd, OnStreamEnd, ServiceTypeOK, ClientTypeOK, serviceVars
<1> QED
  BY <1>1, <1>2, <1>3, <1>4, <1>5 DEF Dispatch

(* Making a call keeps the types.                                          *)
LEMMA NewCallType ==
  ASSUME TypeOK, NEW e \in Ends, NewCall(e), UNCHANGED serviceVars
  PROVE  TypeOK'
<1> USE DEF TypeOK
<1>1. PICK m \in Methods : Notify(e, m) \/ Request(e, m) \/ Stream(e, m)
  BY DEF NewCall
<1>2. /\ sequence[e] \in Seqs
      /\ sequence' \in [Ends -> 0 .. MaxCalls]
      /\ Post(e, RequestMsg(sequence[e], m))
  <2>1. Send(e, m)
    BY <1>1 DEF Notify, Request, Stream
  <2>2. sequence[e] \in 0 .. MaxCalls /\ sequence[e] < MaxCalls /\ MaxCalls \in Nat
    BY <2>1, BoundsAssumption DEF Send, ClientTypeOK
  <2>3. sequence[e] \in Seqs /\ sequence[e] + 1 \in 0 .. MaxCalls
    BY <2>2 DEF Seqs
  <2> QED
    BY <2>1, <2>3 DEF Send, ClientTypeOK
<1>3. channel' \in [Ends -> Seq(Message)]
  BY <1>2, PostEffect, MessageFacts
<1>4. ServiceTypeOK'
  BY DEF ServiceTypeOK, serviceVars
<1>5. CASE Notify(e, m)
  BY <1>2, <1>3, <1>4, <1>5 DEF Notify, Send, SetCall, ClientTypeOK, CallStates
<1>6. CASE Request(e, m)
  BY <1>2, <1>3, <1>4, <1>6 DEF Request, Send, SetCall, ClientTypeOK, CallStates
<1>7. CASE Stream(e, m)
  BY <1>2, <1>3, <1>4, <1>7 DEF Stream, Send, SetCall, ClientTypeOK, CallStates
<1> QED
  BY <1>1, <1>5, <1>6, <1>7

(* What callers do with what they hold keeps the types.                    *)
LEMMA CallerType ==
  ASSUME TypeOK, NEW e \in Ends, NEW s \in Seqs, CallerStep(e, s), UNCHANGED serviceVars
  PROVE  TypeOK'
<1> USE DEF TypeOK
<1>1. ServiceTypeOK'
  BY DEF ServiceTypeOK, serviceVars
<1>2. Post(e, AbortMsg(s)) => channel' \in [Ends -> Seq(Message)]
  BY PostEffect, MessageFacts
<1>3. CASE PollResponse(e, s)
  BY <1>1, <1>3 DEF PollResponse, SetCall, ClientTypeOK, CallStates
<1>4. CASE DropRequest(e, s)
  BY <1>1, <1>2, <1>4 DEF DropRequest, SetCall, ClientTypeOK, CallStates
<1>5. CASE PollItem(e, s)
  <2>1. /\ Head(buffer[e][s]) \in Items /\ Tail(buffer[e][s]) \in Seq(Items)
        /\ Append(received[e][s], Head(buffer[e][s])) \in Seq(Items)
    BY <1>5 DEF PollItem, ClientTypeOK
  <2> QED
    BY <1>1, <1>5, <2>1 DEF PollItem, ClientTypeOK
<1>6. CASE PollNone(e, s)
  <2>1. call' \in [Ends -> [Seqs -> CallStates]]
    BY <1>6, SetCallType DEF PollNone, CallStates, ClientTypeOK
  <2> QED
    BY <1>1, <1>6, <2>1 DEF PollNone, ClientTypeOK
<1>7. CASE Close(e, s)
  BY <1>1, <1>2, <1>7 DEF Close, FireStreamAbort, SetCall, ClientTypeOK, CallStates
<1>8. CASE DropStream(e, s)
  <2>1. call' \in [Ends -> [Seqs -> CallStates]]
    BY <1>8, SetCallType DEF DropStream, CallStates, ClientTypeOK
  <2>2. <<>> \in Seq(Items)
    OBVIOUS
  <2>3. buffer' \in [Ends -> [Seqs -> Seq(Items)]]
    BY <1>8, <2>2 DEF DropStream, ClientTypeOK
  <2>4. channel' \in [Ends -> Seq(Message)] /\ streamCallbacks' \in [Ends -> SUBSET Seqs]
    BY <1>2, <1>8 DEF DropStream, FireStreamAbort, ClientTypeOK
  <2> QED
    BY <1>1, <1>8, <2>1, <2>3, <2>4 DEF DropStream, ClientTypeOK
<1> QED
  BY <1>3, <1>4, <1>5, <1>6, <1>7, <1>8 DEF CallerStep

(* The branches of select! keep the types.                                 *)
LEMMA LoopType ==
  ASSUME TypeOK, NEW e \in Ends, LoopStep(e), UNCHANGED clientVars
  PROVE  TypeOK'
<1> USE DEF TypeOK
<1>1. ClientTypeOK'
  BY DEF ClientTypeOK, clientVars
<1>2. CASE TakeRequest(e)
  <2>1. Head(requests[e]) \in Inbound /\ Tail(requests[e]) \in Seq(Inbound)
    BY <1>2, QueueTail DEF TakeRequest, ServiceTypeOK
  <2>2. Head(requests[e]).seq \in Seqs /\ Head(requests[e]).method \in Methods
    BY <2>1 DEF Inbound
  <2> QED
    BY <1>1, <1>2, <2>1, <2>2 DEF TakeRequest, SetExecution, ExecutionStates, ServiceTypeOK
<1>3. CASE TakeAbort(e)
  <2>1. Head(aborts[e]) \in Seqs /\ Tail(aborts[e]) \in Seq(Seqs)
    BY <1>3, QueueTail DEF TakeAbort, ServiceTypeOK
  <2> QED
    BY <1>1, <1>3, <2>1 DEF TakeAbort, Forget, ServiceTypeOK
<1>4. CASE ForwardItem(e)
  <2>1. Head(outbox[e]) \in StreamMessage /\ Tail(outbox[e]) \in Seq(StreamMessage)
    BY <1>4, QueueTail DEF ForwardItem, ServiceTypeOK
  <2>2. ItemMsg(Head(outbox[e]).seq, Head(outbox[e]).item) \in Message
    BY <1>4, <2>1, MessageFacts DEF ForwardItem, StreamMessage
  <2>3. channel' \in [Ends -> Seq(Message)]
    BY <1>4, <2>2, PostEffect DEF ForwardItem
  <2> QED
    BY <1>1, <1>4, <2>1, <2>3 DEF ForwardItem, ServiceTypeOK
<1>5. CASE ForwardEnd(e)
  <2>1. Head(outbox[e]) \in StreamMessage /\ Tail(outbox[e]) \in Seq(StreamMessage)
    BY <1>5, QueueTail DEF ForwardEnd, ServiceTypeOK
  <2>2. EndMsg(Head(outbox[e]).seq) \in Message
    BY <2>1, MessageFacts DEF StreamMessage
  <2>3. channel' \in [Ends -> Seq(Message)]
    BY <1>5, <2>2, PostEffect DEF ForwardEnd
  <2> QED
    BY <1>1, <1>5, <2>1, <2>3 DEF ForwardEnd, Forget, ServiceTypeOK
<1> QED
  BY <1>2, <1>3, <1>4, <1>5 DEF LoopStep

(* The steps of an execute future keep the types.                          *)
LEMMA ExecutionType ==
  ASSUME TypeOK, NEW e \in Ends, NEW s \in Seqs, ExecutionStep(e, s), UNCHANGED clientVars
  PROVE  TypeOK'
<1> USE DEF TypeOK
<1>1. ClientTypeOK'
  BY DEF ClientTypeOK, clientVars
<1>2. ASSUME NEW status \in ExecutionStates, NEW response \in BOOLEAN,
             Complete(e, s, status, response)
      PROVE  TypeOK'
  <2>1. channel' \in [Ends -> Seq(Message)]
    BY <1>2, PostEffect, MessageFacts DEF Complete
  <2> QED
    BY <1>1, <1>2, <2>1 DEF Complete, SetExecution, Forget, ServiceTypeOK
<1>3. ASSUME NEW status \in ExecutionStates, EndStream(e, s, status)
      PROVE  TypeOK'
  <2>1. Entry(s, None) \in StreamMessage
    BY DEF Entry, StreamMessage
  <2> QED
    BY <1>1, <1>3, <2>1, QueueAppend DEF EndStream, SetExecution, ServiceTypeOK
<1>4. CASE StartStream(e, s)
  BY <1>1, <1>4 DEF StartStream, SetExecution, ExecutionStates, ServiceTypeOK
<1>5. CASE ProduceItem(e, s)
  <2>1. produced[e][s] + 1 \in Items
    BY <1>5, BoundsAssumption DEF ProduceItem, ServiceTypeOK, Items
  <2>2. Entry(s, produced[e][s] + 1) \in StreamMessage
    BY <2>1 DEF Entry, StreamMessage
  <2>3. outbox' \in [Ends -> Seq(StreamMessage)]
    BY <1>5, <2>2, QueueAppend DEF ProduceItem, ServiceTypeOK
  <2>4. produced' \in [Ends -> [Seqs -> 0 .. MaxItems]]
    BY <1>5, <2>1 DEF ProduceItem, ServiceTypeOK, Items
  <2> QED
    BY <1>1, <1>5, <2>3, <2>4 DEF ProduceItem, ServiceTypeOK
<1> QED
  BY <1>2, <1>3, <1>4, <1>5
  DEF ExecutionStep, FinishNotify, FinishValue, AbortValue, FinishStream, AbortStream,
      ExecutionStates
-----------------------------------------------------------------------------
(* Streams.  What is an item, among messages and in the outbox.            *)
LEMMA ItemShapes ==
  /\ \A s, t, m : ~ IsItem(RequestMsg(t, m), s)
  /\ \A s, t : ~ IsItem(AbortMsg(t), s) /\ ~ IsItem(ResponseMsg(t), s) /\ ~ IsItem(EndMsg(t), s)
  /\ \A s, t, i : IsItem(ItemMsg(t, i), s) <=> t = s /\ i # None
  /\ \A s, t, i : IsItem(Entry(t, i), s) <=> t = s /\ i # None
BY DEF IsItem, RequestMsg, AbortMsg, ResponseMsg, EndMsg, ItemMsg, Entry

(* A queue position by position, after an append and after a take.         *)
LEMMA Positions ==
  ASSUME NEW S, NEW q \in Seq(S)
  PROVE  /\ Len(q) \in Nat /\ DOMAIN q = 1 .. Len(q) /\ \A i \in DOMAIN q : q[i] \in S
         /\ \A y \in S : /\ DOMAIN Append(q, y) = 1 .. Len(q) + 1
                         /\ Append(q, y)[Len(q) + 1] = y
                         /\ \A i \in DOMAIN q : Append(q, y)[i] = q[i]
         /\ q # <<>> => /\ 1 \in DOMAIN q /\ Head(q) = q[1]
                        /\ DOMAIN Tail(q) = 1 .. Len(q) - 1
                        /\ \A i \in 1 .. Len(q) - 1 : Tail(q)[i] = q[i + 1]
OBVIOUS

(* Posting the next item of a stream, or anything that is no item of it.   *)
LEMMA CarriesAppend ==
  ASSUME NEW S, NEW q \in Seq(S), NEW y \in S, NEW s, NEW a \in Nat, NEW b \in Nat, a <= b,
         Carries(q, s, a, b)
  PROVE  /\ ~ IsItem(y, s) => Carries(Append(q, y), s, a, b)
         /\ IsItem(y, s) /\ y.item = b + 1 => Carries(Append(q, y), s, a, b + 1)
<1> DEFINE n == Len(q)
           r == Append(q, y)
<1>1. /\ n \in Nat /\ DOMAIN q = 1 .. n /\ DOMAIN r = 1 .. n + 1 /\ r[n + 1] = y
      /\ \A i \in 1 .. n : r[i] = q[i]
  BY Positions
<1> HIDE DEF n, r
<1>2. ASSUME ~ IsItem(y, s)
      PROVE  Carries(r, s, a, b)
  <2>1. \A i \in DOMAIN r : IsItem(r[i], s) => i \in DOMAIN q /\ r[i] = q[i]
    BY <1>1, <1>2
  <2>2. \A i \in DOMAIN q : i \in DOMAIN r /\ r[i] = q[i]
    BY <1>1
  <2>3. \A m \in a + 1 .. b : \E i \in DOMAIN r : IsItem(r[i], s) /\ r[i].item = m
    BY <2>2 DEF Carries
  <2>4. \A i \in DOMAIN r : IsItem(r[i], s) => r[i].item \in a + 1 .. b
    BY <2>1 DEF Carries
  <2>5. \A i, j \in DOMAIN r :
          IsItem(r[i], s) /\ IsItem(r[j], s) /\ i < j => r[i].item < r[j].item
    BY <2>1 DEF Carries
  <2> QED
    BY <2>3, <2>4, <2>5 DEF Carries
<1>3. ASSUME IsItem(y, s), y.item = b + 1
      PROVE  Carries(r, s, a, b + 1)
  <2>1. \A i \in DOMAIN r : IsItem(r[i], s) => r[i].item \in a + 1 .. b + 1
    BY <1>1, <1>3 DEF Carries
  <2>2. \A m \in a + 1 .. b + 1 : \E i \in DOMAIN r : IsItem(r[i], s) /\ r[i].item = m
    <3>1. \A m \in a + 1 .. b : \E i \in DOMAIN q : IsItem(q[i], s) /\ q[i].item = m
      BY DEF Carries
    <3>2. n + 1 \in DOMAIN r /\ IsItem(r[n + 1], s) /\ r[n + 1].item = b + 1
      BY <1>1, <1>3
    <3>3. \A i \in DOMAIN q : i \in DOMAIN r /\ r[i] = q[i]
      BY <1>1
    <3>4. \A m \in a + 1 .. b + 1 : m \in a + 1 .. b \/ m = b + 1
      OBVIOUS
    <3> QED
      BY <3>1, <3>2, <3>3, <3>4
  <2>3. ASSUME NEW i \in DOMAIN r, NEW j \in DOMAIN r, IsItem(r[i], s), IsItem(r[j], s), i < j
        PROVE  r[i].item < r[j].item
    <3>1. i \in DOMAIN q /\ r[i] = q[i] /\ r[i].item \in a + 1 .. b
      BY <1>1, <2>3 DEF Carries
    <3>2. CASE j = n + 1
      BY <1>1, <1>3, <3>1, <3>2
    <3>3. CASE j # n + 1
      <4>1. j \in DOMAIN q /\ r[j] = q[j]
        BY <1>1, <3>3
      <4> QED
        BY <2>3, <3>1, <4>1 DEF Carries
    <3> QED
      BY <3>2, <3>3
  <2> QED
    BY <2>1, <2>2, <2>3 DEF Carries
<1> QED
  BY <1>2, <1>3 DEF r

(* Taking the first of the items a queue carries, or something else.       *)
LEMMA CarriesTail ==
  ASSUME NEW S, NEW q \in Seq(S), q # <<>>, NEW s, NEW a \in Nat, NEW b \in Nat, a <= b,
         Carries(q, s, a, b)
  PROVE  /\ ~ IsItem(Head(q), s) => Carries(Tail(q), s, a, b)
         /\ IsItem(Head(q), s) =>
              a < b /\ Head(q).item = a + 1 /\ Carries(Tail(q), s, a + 1, b)
<1> DEFINE n == Len(q)
           r == Tail(q)
           h == Head(q)
<1>1. /\ n \in Nat /\ DOMAIN q = 1 .. n /\ 1 \in DOMAIN q /\ h = q[1]
      /\ DOMAIN r = 1 .. n - 1
      /\ \A i \in 1 .. n - 1 : r[i] = q[i + 1]
  BY Positions
<1> HIDE DEF n, r, h
<1>2. \A i \in DOMAIN r : i + 1 \in DOMAIN q /\ r[i] = q[i + 1]
  BY <1>1
<1>3. \A i \in DOMAIN q : i # 1 => i - 1 \in DOMAIN r /\ q[i] = r[i - 1]
  BY <1>1
<1>4. ASSUME NEW i \in DOMAIN r, NEW j \in DOMAIN r, IsItem(r[i], s), IsItem(r[j], s), i < j
      PROVE  r[i].item < r[j].item
  <2>1. i + 1 < j + 1
    BY <1>1, <1>4
  <2> QED
    BY <1>2, <1>4, <2>1 DEF Carries
<1>5. ASSUME ~ IsItem(h, s)
      PROVE  Carries(r, s, a, b)
  <2>1. \A i \in DOMAIN r : IsItem(r[i], s) => r[i].item \in a + 1 .. b
    BY <1>2 DEF Carries
  <2>2. ASSUME NEW m \in a + 1 .. b
        PROVE  \E i \in DOMAIN r : IsItem(r[i], s) /\ r[i].item = m
    <3>1. PICK i \in DOMAIN q : IsItem(q[i], s) /\ q[i].item = m
      BY DEF Carries
    <3> QED
      BY <1>1, <1>3, <1>5, <3>1
  <2> QED
    BY <1>4, <2>1, <2>2 DEF Carries
<1>6. ASSUME IsItem(h, s)
      PROVE  a < b /\ h.item = a + 1 /\ Carries(r, s, a + 1, b)
  <2>1. h.item \in a + 1 .. b
    BY <1>1, <1>6 DEF Carries
  <2>2. h.item = a + 1
    <3>1. PICK i \in DOMAIN q : IsItem(q[i], s) /\ q[i].item = a + 1
      BY <2>1 DEF Carries
    <3>2. ASSUME i # 1
          PROVE  h.item < a + 1
      <4>1. 1 < i /\ 1 \in DOMAIN q /\ IsItem(q[1], s)
        BY <1>1, <1>6, <3>2
      <4>2. q[1].item < q[i].item
        BY <3>1, <4>1 DEF Carries
      <4> QED
        BY <1>1, <3>1, <4>2
    <3> QED
      BY <1>1, <2>1, <3>1, <3>2
  <2>3. ASSUME NEW i \in DOMAIN r, IsItem(r[i], s)
        PROVE  r[i].item \in a + 2 .. b
    <3>1. i + 1 \in DOMAIN q /\ 1 < i + 1 /\ r[i] = q[i + 1]
      BY <1>1, <1>2
    <3>2. r[i].item \in a + 1 .. b /\ h.item < r[i].item
      BY <1>1, <1>6, <2>3, <3>1 DEF Carries
    <3> QED
      BY <2>2, <3>2
  <2>4. ASSUME NEW m \in a + 2 .. b
        PROVE  \E i \in DOMAIN r : IsItem(r[i], s) /\ r[i].item = m
    <3>1. PICK i \in DOMAIN q : IsItem(q[i], s) /\ q[i].item = m
      BY DEF Carries
    <3>2. i # 1
      BY <1>1, <2>2, <3>1
    <3> QED
      BY <1>3, <3>1, <3>2
  <2> QED
    BY <1>4, <2>1, <2>2, <2>3, <2>4 DEF Carries
<1> QED
  BY <1>5, <1>6 DEF r, h

(* A queue carries none of the items of a stream exactly if it has none.   *)
LEMMA CarriesNone ==
  ASSUME NEW q, NEW s, NEW a \in Nat
  PROVE  /\ Carries(q, s, a, a) <=> ~ HasItem(q, s)
         /\ \A b \in Nat : a <= b /\ Carries(q, s, a, b) /\ ~ HasItem(q, s) => a = b
<1>1. Carries(q, s, a, a) <=> ~ HasItem(q, s)
  BY DEF Carries, HasItem
<1>2. ASSUME NEW b \in Nat, a < b, Carries(q, s, a, b)
      PROVE  HasItem(q, s)
  <2>1. a + 1 \in a + 1 .. b
    BY <1>2
  <2> QED
    BY <1>2, <2>1 DEF Carries, HasItem
<1> QED
  BY <1>1, <1>2

(* The receiver yields the head of its buffer, and what it has had stays a *)
(* prefix of the stream.                                                   *)
LEMMA FirstItemsFacts ==
  ASSUME NEW n \in Nat
  PROVE  /\ FirstItems(n) \in Seq(Nat) /\ Len(FirstItems(n)) = n
         /\ Append(FirstItems(n), n + 1) = FirstItems(n + 1)
         /\ FirstItems(0) = <<>>
<1>1. FirstItems(n) \in Seq(Nat) /\ Len(FirstItems(n)) = n /\ DOMAIN FirstItems(n) = 1 .. n
  BY DEF FirstItems
<1>2. Append(FirstItems(n), n + 1) = FirstItems(n + 1)
  BY DEF FirstItems
<1>3. FirstItems(0) = <<>>
  BY DEF FirstItems
<1> QED
  BY <1>1, <1>2, <1>3

LEMMA HadFacts ==
  ASSUME NEW r \in Seq(Items), NEW b \in Seq(Items)
  PROVE  /\ r \o <<>> = r /\ r \o b \in Seq(Items) /\ Len(r \o b) = Len(r) + Len(b)
         /\ b # <<>> => Append(r, Head(b)) \o Tail(b) = r \o b
         /\ \A i \in Items : r \o Append(b, i) = Append(r \o b, i)
         /\ \A n \in Nat : r \o b = FirstItems(n) =>
              r = FirstItems(Len(r)) /\ Len(r) + Len(b) = n
<1>1. r \o <<>> = r /\ r \o b \in Seq(Items) /\ Len(r \o b) = Len(r) + Len(b)
  OBVIOUS
<1>2. b # <<>> => Append(r, Head(b)) \o Tail(b) = r \o b
  OBVIOUS
<1>3. \A i \in Items : r \o Append(b, i) = Append(r \o b, i)
  OBVIOUS
<1>4. ASSUME NEW n \in Nat, r \o b = FirstItems(n)
      PROVE  r = FirstItems(Len(r)) /\ Len(r) + Len(b) = n
  <2>1. Len(r) + Len(b) = n
    BY <1>1, <1>4, FirstItemsFacts
  <2>2. \A i \in 1 .. Len(r) : r[i] = i
    <3>1. \A i \in 1 .. Len(r) : (r \o b)[i] = r[i] /\ FirstItems(n)[i] = i
      BY <2>1 DEF FirstItems
    <3> QED
      BY <1>4, <3>1
  <2>3. r = [i \in 1 .. Len(r) |-> r[i]]
    OBVIOUS
  <2> QED
    BY <2>1, <2>2, <2>3 DEF FirstItems
<1> QED
  BY <1>1, <1>2, <1>3, <1>4

-----------------------------------------------------------------------------
(* A change of a channel, or of an outbox, that is of no concern to call s. *)
KeepsChannel(q, r, s) ==
  /\ \A a, b \in Nat : a <= b /\ Carries(q, s, a, b) => Carries(r, s, a, b)
  /\ HasItem(r, s) => HasItem(q, s)
  /\ EndMsgIsLast(q, s) => EndMsgIsLast(r, s)
  /\ InQueue(EndMsg(s), r) => InQueue(EndMsg(s), q)

KeepsOutbox(q, r, s) ==
  /\ \A a, b \in Nat : a <= b /\ Carries(q, s, a, b) => Carries(r, s, a, b)
  /\ HasItem(r, s) => HasItem(q, s)
  /\ MarkerIsLast(q, s) => MarkerIsLast(r, s)
  /\ HasEntry(r, s) => HasEntry(q, s)

(* No change is of no concern to anyone.                                   *)
LEMMA KeepsSame ==
  ASSUME NEW q, NEW s
  PROVE  KeepsChannel(q, q, s) /\ KeepsOutbox(q, q, s)
BY DEF KeepsChannel, KeepsOutbox

(* Posting something that is neither an item nor the end of the stream.    *)
LEMMA ChannelAppend ==
  ASSUME NEW q \in Seq(Message), NEW y \in Message, NEW s, ~ IsItem(y, s)
  PROVE  /\ \A a, b \in Nat : a <= b /\ Carries(q, s, a, b) => Carries(Append(q, y), s, a, b)
         /\ HasItem(Append(q, y), s) => HasItem(q, s)
         /\ EndMsgIsLast(q, s) => EndMsgIsLast(Append(q, y), s)
         /\ y # EndMsg(s) => KeepsChannel(q, Append(q, y), s)
<1> DEFINE n == Len(q)
           r == Append(q, y)
<1>1. /\ n \in Nat /\ DOMAIN q = 1 .. n /\ DOMAIN r = 1 .. n + 1 /\ r[n + 1] = y
      /\ \A i \in 1 .. n : r[i] = q[i]
  BY Positions
<1>2. \A a, b \in Nat : a <= b /\ Carries(q, s, a, b) => Carries(r, s, a, b)
  BY CarriesAppend
<1>3. y # EndMsg(s) /\ InQueue(EndMsg(s), r) => InQueue(EndMsg(s), q)
  BY QueueAppend
<1> HIDE DEF n, r
<1>4. \A j \in DOMAIN r : IsItem(r[j], s) => j \in DOMAIN q /\ r[j] = q[j]
  BY <1>1
<1>5. HasItem(r, s) => HasItem(q, s)
  BY <1>4 DEF HasItem
<1>6. EndMsgIsLast(q, s) => EndMsgIsLast(r, s)
  <2> SUFFICES ASSUME EndMsgIsLast(q, s), NEW i \in DOMAIN r, NEW j \in DOMAIN r,
                      r[i] = EndMsg(s), i < j, IsItem(r[j], s)
               PROVE  FALSE
    BY DEF EndMsgIsLast
  <2>1. j \in DOMAIN q /\ r[j] = q[j]
    BY <1>4
  <2>2. i \in DOMAIN q /\ r[i] = q[i]
    BY <1>1, <2>1
  <2> QED
    BY <2>1, <2>2 DEF EndMsgIsLast
<1> QED
  BY <1>2, <1>3, <1>5, <1>6 DEF KeepsChannel, r

(* Taking anything that is not an item of the stream; and taking an item   *)
(* leaves what is said of the end.                                         *)
LEMMA ChannelTail ==
  ASSUME NEW q \in Seq(Message), q # <<>>, NEW s
  PROVE  /\ ~ IsItem(Head(q), s) => KeepsChannel(q, Tail(q), s)
         /\ HasItem(Tail(q), s) => HasItem(q, s)
         /\ EndMsgIsLast(q, s) => EndMsgIsLast(Tail(q), s)
         /\ InQueue(EndMsg(s), Tail(q)) => InQueue(EndMsg(s), q)
         /\ EndMsgIsLast(q, s) /\ Head(q) = EndMsg(s) => ~ HasItem(q, s)
<1> DEFINE n == Len(q)
           r == Tail(q)
           h == Head(q)
<1>1. /\ n \in Nat /\ DOMAIN q = 1 .. n /\ 1 \in DOMAIN q /\ h = q[1]
      /\ DOMAIN r = 1 .. n - 1
      /\ \A i \in 1 .. n - 1 : r[i] = q[i + 1]
  BY Positions
<1>2. ~ IsItem(h, s) => \A a, b \in Nat : a <= b /\ Carries(q, s, a, b) => Carries(r, s, a, b)
  BY CarriesTail
<1>3. InQueue(EndMsg(s), r) => InQueue(EndMsg(s), q)
  BY QueueTail
<1> HIDE DEF n, r, h
<1>4. \A i \in DOMAIN r : i + 1 \in DOMAIN q /\ r[i] = q[i + 1] /\ i \in Nat
  BY <1>1
<1>5. HasItem(r, s) => HasItem(q, s)
  BY <1>4 DEF HasItem
<1>6. EndMsgIsLast(q, s) => EndMsgIsLast(r, s)
  <2> SUFFICES ASSUME EndMsgIsLast(q, s), NEW i \in DOMAIN r, NEW j \in DOMAIN r,
                      r[i] = EndMsg(s), i < j
               PROVE  ~ IsItem(r[j], s)
    BY DEF EndMsgIsLast
  <2>1. i + 1 < j + 1
    BY <1>4
  <2> QED
    BY <1>4, <2>1 DEF EndMsgIsLast
<1>7. EndMsgIsLast(q, s) /\ h = EndMsg(s) => ~ HasItem(q, s)
  <2> SUFFICES ASSUME EndMsgIsLast(q, s), h = EndMsg(s), NEW j \in DOMAIN q
               PROVE  ~ IsItem(q[j], s)
    BY DEF HasItem
  <2>1. CASE j = 1
    <3>1. q[j] = EndMsg(s)
      BY <1>1, <2>1
    <3> QED
      BY <3>1 DEF IsItem, EndMsg
  <2>2. CASE j # 1
    <3>1. 1 < j
      BY <1>1, <2>2
    <3> QED
      BY <1>1, <3>1 DEF EndMsgIsLast
  <2> QED
    BY <2>1, <2>2
<1> QED
  BY <1>2, <1>3, <1>5, <1>6, <1>7 DEF KeepsChannel, r, h

(* The same for an outbox.                                                 *)
LEMMA OutboxAppend ==
  ASSUME NEW q \in Seq(StreamMessage), NEW y \in StreamMessage, NEW s
  PROVE  /\ y.seq # s => KeepsOutbox(q, Append(q, y), s)
         /\ ~ InQueue(Entry(s, None), q) => MarkerIsLast(Append(q, y), s)
<1> DEFINE n == Len(q)
           r == Append(q, y)
<1>1. /\ n \in Nat /\ DOMAIN q = 1 .. n /\ DOMAIN r = 1 .. n + 1 /\ r[n + 1] = y
      /\ \A i \in 1 .. n : r[i] = q[i]
  BY Positions
<1>2. ~ IsItem(y, s) =>
        \A a, b \in Nat : a <= b /\ Carries(q, s, a, b) => Carries(r, s, a, b)
  BY CarriesAppend
<1> HIDE DEF n, r
<1>3. ASSUME y.seq # s
      PROVE  KeepsOutbox(q, r, s)
  <2>1. \A j \in DOMAIN r : r[j].seq = s => j \in DOMAIN q /\ r[j] = q[j]
    BY <1>1, <1>3
  <2>2. /\ HasItem(r, s) => HasItem(q, s)
        /\ HasEntry(r, s) => HasEntry(q, s)
    BY <2>1 DEF HasItem, HasEntry, IsItem
  <2>3. ASSUME MarkerIsLast(q, s), NEW i \in DOMAIN r, NEW j \in DOMAIN r,
               r[i] = Entry(s, None), i < j, r[j].seq = s
        PROVE  FALSE
    <3>1. j \in DOMAIN q /\ r[j] = q[j]
      BY <2>1, <2>3
    <3>2. i \in DOMAIN q /\ r[i] = q[i]
      BY <1>1, <2>3, <3>1
    <3> QED
      BY <2>3, <3>1, <3>2 DEF MarkerIsLast
  <2>4. MarkerIsLast(q, s) => MarkerIsLast(r, s)
    BY <2>3 DEF MarkerIsLast
  <2>5. ~ IsItem(y, s)
    BY <1>3 DEF IsItem
  <2> QED
    BY <1>2, <2>2, <2>4, <2>5 DEF KeepsOutbox
<1>4. ASSUME ~ InQueue(Entry(s, None), q)
      PROVE  MarkerIsLast(r, s)
  <2>1. \A i, j \in DOMAIN r : i < j => i \in DOMAIN q /\ r[i] = q[i]
    BY <1>1
  <2> QED
    BY <1>4, <2>1 DEF MarkerIsLast, InQueue
<1> QED
  BY <1>3, <1>4 DEF r

LEMMA OutboxTail ==
  ASSUME NEW q \in Seq(StreamMessage), q # <<>>, NEW s
  PROVE  /\ Head(q).seq # s => KeepsOutbox(q, Tail(q), s)
         /\ MarkerIsLast(q, s) => MarkerIsLast(Tail(q), s)
         /\ HasEntry(Tail(q), s) => HasEntry(q, s)
         /\ HasItem(Tail(q), s) => HasItem(q, s)
         /\ Head(q).seq = s => HasEntry(q, s)
         /\ MarkerIsLast(q, s) /\ Head(q) = Entry(s, None) => ~ HasEntry(Tail(q), s)
<1> DEFINE n == Len(q)
           r == Tail(q)
           h == Head(q)
<1>1. /\ n \in Nat /\ DOMAIN q = 1 .. n /\ 1 \in DOMAIN q /\ h = q[1]
      /\ DOMAIN r = 1 .. n - 1
      /\ \A i \in 1 .. n - 1 : r[i] = q[i + 1]
  BY Positions
<1>2. ~ IsItem(h, s) => \A a, b \in Nat : a <= b /\ Carries(q, s, a, b) => Carries(r, s, a, b)
  BY CarriesTail
<1> HIDE DEF n, r, h
<1>3. \A i \in DOMAIN r : i + 1 \in DOMAIN q /\ r[i] = q[i + 1] /\ i \in Nat /\ 1 < i + 1
  BY <1>1
<1>4. /\ HasItem(r, s) => HasItem(q, s)
      /\ HasEntry(r, s) => HasEntry(q, s)
  BY <1>3 DEF HasItem, HasEntry
<1>5. MarkerIsLast(q, s) => MarkerIsLast(r, s)
  <2> SUFFICES ASSUME MarkerIsLast(q, s), NEW i \in DOMAIN r, NEW j \in DOMAIN r,
                      r[i] = Entry(s, None), i < j
               PROVE  r[j].seq # s
    BY DEF MarkerIsLast
  <2>1. i + 1 < j + 1
    BY <1>3
  <2> QED
    BY <1>3, <2>1 DEF MarkerIsLast
<1>6. h.seq = s => HasEntry(q, s)
  BY <1>1 DEF HasEntry
<1>7. MarkerIsLast(q, s) /\ h = Entry(s, None) => ~ HasEntry(r, s)
  BY <1>1, <1>3 DEF MarkerIsLast, HasEntry
<1>8. h.seq # s => ~ IsItem(h, s)
  BY DEF IsItem
<1> QED
  BY <1>2, <1>4, <1>5, <1>6, <1>7, <1>8 DEF KeepsOutbox, r, h

-----------------------------------------------------------------------------
(* Two tables with one entry for each call that differ in one at most.     *)
LEMMA TableUpdate ==
  ASSUME NEW S, NEW F \in [Ends -> [Seqs -> S]], NEW G \in [Ends -> [Seqs -> S]],
         NEW e \in Ends, NEW s \in Seqs,
         \A f \in Ends, t \in Seqs : f # e \/ t # s => G[f][t] = F[f][t]
  PROVE  G = [F EXCEPT ![e][s] = G[e][s]]
<1>1. \A f \in Ends : f # e => G[f] = F[f]
  <2> SUFFICES ASSUME NEW f \in Ends, f # e PROVE G[f] = F[f]
    OBVIOUS
  <2>1. F[f] \in [Seqs -> S] /\ G[f] \in [Seqs -> S] /\ \A t \in Seqs : G[f][t] = F[f][t]
    OBVIOUS
  <2> QED
    BY <2>1
<1>2. F[e] \in [Seqs -> S] /\ G[e] \in [Seqs -> S]
  OBVIOUS
<1>3. G[e] = [F[e] EXCEPT ![s] = G[e][s]]
  BY <1>2
<1>4. G = [F EXCEPT ![e] = [F[e] EXCEPT ![s] = G[e][s]]]
  BY <1>1, <1>3
<1> QED
  BY <1>4

(* Two tables that differ in none.                                         *)
LEMMA TableSame ==
  ASSUME NEW S, NEW F \in [Ends -> [Seqs -> S]], NEW G \in [Ends -> [Seqs -> S]],
         \A f \in Ends, t \in Seqs : G[f][t] = F[f][t]
  PROVE  G = F
<1>1. ASSUME NEW f \in Ends
      PROVE  G[f] = F[f]
  <2>1. F[f] \in [Seqs -> S] /\ G[f] \in [Seqs -> S] /\ \A t \in Seqs : G[f][t] = F[f][t]
    OBVIOUS
  <2> QED
    BY <2>1
<1> QED
  BY <1>1
=============================================================================
