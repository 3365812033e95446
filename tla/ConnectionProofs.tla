-------------------------- MODULE ConnectionProofs --------------------------
(***************************************************************************)
(* Connection keeps its types and IInv, for every number of calls and      *)
(* items and every set of clients, servers and methods; one lemma per      *)
(* action or group of actions, then the theorems that follow.              *)
(***************************************************************************)
EXTENDS ConnectionInv, InterfaceProofs

-----------------------------------------------------------------------------
(* The connection starts well formed.                                      *)
LEMMA InitType == Init => TypeOK
BY BoundsAssumption
DEF Init, ClientInit, ServiceInit, TypeOK, ClientTypeOK, ServiceTypeOK, CallStates,
    ExecutionStates

(* Every step keeps it well formed.                                        *)
LEMMA StepType == TypeOK /\ [Next]_vars => TypeOK'
<1> SUFFICES ASSUME TypeOK, [Next]_vars PROVE TypeOK'
  OBVIOUS
<1>1. CASE UNCHANGED vars
  BY <1>1 DEF vars, TypeOK, ClientTypeOK, ServiceTypeOK
<1>2. CASE Next
  BY <1>1, <1>2, NewCallType, CallerType, DispatchType, LoopType, ExecutionType
  DEF Next, InterfaceStep, ServiceStep, Settled
<1> QED
  BY <1>1, <1>2

(* Every message, queue and map entry of the connection stays well formed. *)
THEOREM TypeCorrect == Spec => []TypeOK
BY InitType, StepType, PTL DEF Spec

-----------------------------------------------------------------------------
(* An appended queue, position by position.                                *)
LEMMA AppendAt ==
  ASSUME NEW S, NEW q \in Seq(S), NEW y \in S
  PROVE  /\ Len(q) \in Nat /\ DOMAIN q = 1 .. Len(q)
         /\ DOMAIN Append(q, y) = 1 .. Len(q) + 1
         /\ \A i \in 1 .. Len(q) : Append(q, y)[i] = q[i] /\ q[i] \in S
         /\ Append(q, y)[Len(q) + 1] = y
OBVIOUS

(* Appending a message that repeats no request keeps the requests of a     *)
(* channel distinct.                                                       *)
LEMMA DistinctAppend ==
  ASSUME NEW q \in Seq(Message), NEW y \in Message, DistinctRequests(q),
         y.kind = "Request" => \A m \in Methods : ~ InQueue(RequestMsg(y.seq, m), q)
  PROVE  DistinctRequests(Append(q, y))
<1>1. /\ Len(q) \in Nat /\ DOMAIN q = 1 .. Len(q)
      /\ DOMAIN Append(q, y) = 1 .. Len(q) + 1
      /\ \A i \in 1 .. Len(q) : Append(q, y)[i] = q[i] /\ q[i] \in Message
      /\ Append(q, y)[Len(q) + 1] = y
  OBVIOUS
<1>2. ASSUME NEW i \in 1 .. Len(q), q[i].kind = "Request", y.kind = "Request"
      PROVE  q[i].seq # y.seq
  <2>1. q[i] = RequestMsg(q[i].seq, q[i].method) /\ q[i].method \in Methods
    BY <1>1, <1>2, MessageShapes
  <2>2. InQueue(q[i], q)
    BY <1>1 DEF InQueue
  <2> QED
    BY <1>2, <2>1, <2>2
<1> QED
  BY <1>1, <1>2 DEF DistinctRequests

(* So does taking its head, whose number is then in no other request.      *)
LEMMA DistinctTail ==
  ASSUME NEW q \in Seq(Message), q # <<>>, DistinctRequests(q)
  PROVE  /\ DistinctRequests(Tail(q))
         /\ Head(q).kind = "Request" =>
              \A m \in Methods : ~ InQueue(RequestMsg(Head(q).seq, m), Tail(q))
<1>1. /\ Len(q) \in Nat \ {0} /\ Head(q) = q[1] /\ DOMAIN q = 1 .. Len(q)
      /\ DOMAIN Tail(q) = 1 .. Len(q) - 1
      /\ \A i \in 1 .. Len(q) - 1 : Tail(q)[i] = q[i + 1]
  OBVIOUS
<1>2. DistinctRequests(Tail(q))
  <2> SUFFICES ASSUME NEW i \in 1 .. Len(q) - 1, NEW j \in 1 .. Len(q) - 1,
                      q[i + 1].kind = "Request", q[j + 1].kind = "Request",
                      q[i + 1].seq = q[j + 1].seq
               PROVE  i = j
    BY <1>1 DEF DistinctRequests
  <2>1. i + 1 \in DOMAIN q /\ j + 1 \in DOMAIN q
    BY <1>1
  <2>2. i + 1 = j + 1
    BY <2>1 DEF DistinctRequests
  <2> QED
    BY <1>1, <2>2
<1>3. ASSUME NEW m \in Methods, Head(q).kind = "Request",
             InQueue(RequestMsg(Head(q).seq, m), Tail(q))
      PROVE  FALSE
  <2>1. PICK i \in 1 .. Len(q) - 1 : q[i + 1] = RequestMsg(q[1].seq, m)
    BY <1>1, <1>3 DEF InQueue
  <2>2. q[i + 1].kind = "Request" /\ q[i + 1].seq = q[1].seq
    BY <2>1, MessageFacts
  <2>3. i + 1 \in DOMAIN q /\ 1 \in DOMAIN q /\ i + 1 # 1
    BY <1>1
  <2> QED
    BY <1>1, <1>3, <2>2, <2>3 DEF DistinctRequests
<1> QED
  BY <1>2, <1>3

(* The same for the queue of requests the dispatcher handed over: append,  *)
LEMMA CallsAppend ==
  ASSUME NEW q \in Seq(Inbound),
         NEW y \in Inbound, DistinctCalls(q),
         \A m \in Methods : ~ InQueue([seq |-> y.seq, method |-> m], q)
  PROVE  DistinctCalls(Append(q, y))
<1>1. /\ Len(q) \in Nat /\ DOMAIN q = 1 .. Len(q)
      /\ DOMAIN Append(q, y) = 1 .. Len(q) + 1
      /\ \A i \in 1 .. Len(q) :
           Append(q, y)[i] = q[i] /\ q[i] \in Inbound
      /\ Append(q, y)[Len(q) + 1] = y
  BY AppendAt
<1>2. ASSUME NEW i \in 1 .. Len(q)
      PROVE  q[i].seq # y.seq
  <2>1. q[i] = [seq |-> q[i].seq, method |-> q[i].method] /\ q[i].method \in Methods
    BY <1>1 DEF Inbound
  <2>2. InQueue(q[i], q)
    BY <1>1 DEF InQueue
  <2> QED
    BY <2>1, <2>2
<1> QED
  BY <1>1, <1>2 DEF DistinctCalls

(* and take.                                                               *)
LEMMA CallsTail ==
  ASSUME NEW q \in Seq(Inbound), q # <<>>, DistinctCalls(q)
  PROVE  /\ DistinctCalls(Tail(q))
         /\ \A m \in Methods : ~ InQueue([seq |-> Head(q).seq, method |-> m], Tail(q))
<1>1. /\ Len(q) \in Nat \ {0} /\ Head(q) = q[1] /\ DOMAIN q = 1 .. Len(q)
      /\ DOMAIN Tail(q) = 1 .. Len(q) - 1
      /\ \A i \in 1 .. Len(q) - 1 : Tail(q)[i] = q[i + 1]
  OBVIOUS
<1>2. ASSUME NEW i \in 1 .. Len(q) - 1, NEW j \in 1 .. Len(q) - 1, q[i + 1].seq = q[j + 1].seq
      PROVE  i = j
  <2>1. i + 1 \in DOMAIN q /\ j + 1 \in DOMAIN q
    BY <1>1
  <2>2. i + 1 = j + 1
    BY <1>2, <2>1 DEF DistinctCalls
  <2> QED
    BY <1>1, <2>2
<1>3. ASSUME NEW m \in Methods, InQueue([seq |-> Head(q).seq, method |-> m], Tail(q))
      PROVE  FALSE
  <2>1. PICK i \in 1 .. Len(q) - 1 : q[i + 1] = [seq |-> q[1].seq, method |-> m]
    BY <1>1, <1>3 DEF InQueue
  <2>2. i + 1 \in DOMAIN q /\ 1 \in DOMAIN q /\ i + 1 # 1 /\ q[i + 1].seq = q[1].seq
    BY <1>1, <2>1
  <2> QED
    BY <2>2 DEF DistinctCalls
<1> QED
  BY <1>1, <1>2, <1>3 DEF DistinctCalls

-----------------------------------------------------------------------------
(* What a post adds to a channel.                                          *)
LEMMA PostKinds ==
  ASSUME channel \in [Ends -> Seq(Message)], NEW e \in Ends, NEW msg \in Message, Post(e, msg)
  PROVE  /\ \A f \in Ends, t \in Seqs, n \in Methods :
              InQueue(RequestMsg(t, n), channel'[f]) <=>
                \/ InQueue(RequestMsg(t, n), channel[f])
                \/ f = Peer(e) /\ msg.kind = "Request" /\ msg.seq = t /\ msg.method = n
         /\ \A f \in Ends, t \in Seqs :
              InQueue(AbortMsg(t), channel'[f]) <=>
                \/ InQueue(AbortMsg(t), channel[f])
                \/ f = Peer(e) /\ msg.kind = "Abort" /\ msg.seq = t
         /\ \A f \in Ends, t \in Seqs :
              InQueue(ResponseMsg(t), channel'[f]) <=>
                \/ InQueue(ResponseMsg(t), channel[f])
                \/ f = Peer(e) /\ msg.kind = "Response" /\ msg.seq = t
         /\ \A f \in Ends, t \in Seqs :
              InQueue(EndMsg(t), channel'[f]) <=>
                \/ InQueue(EndMsg(t), channel[f])
                \/ f = Peer(e) /\ msg.kind = "StreamEnd" /\ msg.seq = t
<1>1. \A f \in Ends : \A x :
        InQueue(x, channel'[f]) <=> InQueue(x, channel[f]) \/ (f = Peer(e) /\ x = msg)
  BY PostEffect
<1>2. \A t, n : msg = RequestMsg(t, n) <=>
                  msg.kind = "Request" /\ msg.seq = t /\ msg.method = n
  BY MessageShapes, MessageFacts
<1>3. \A t : msg = AbortMsg(t) <=> msg.kind = "Abort" /\ msg.seq = t
  BY MessageShapes, MessageFacts
<1>4. \A t : msg = ResponseMsg(t) <=> msg.kind = "Response" /\ msg.seq = t
  BY MessageShapes, MessageFacts
<1>5. \A t : msg = EndMsg(t) <=> msg.kind = "StreamEnd" /\ msg.seq = t
  BY MessageShapes, MessageFacts
<1> QED
  BY <1>1, <1>2, <1>3, <1>4, <1>5

(* What a take removes from one.                                           *)
LEMMA TakeKinds ==
  ASSUME channel \in [Ends -> Seq(Message)], NEW e \in Ends, NEW kind, TakeMessage(e, kind)
  PROVE  \E msg \in Message :
         /\ msg = Head(channel[e]) /\ msg.kind = kind /\ msg.seq \in Seqs
         /\ kind = "Request" => msg.method \in Methods
         /\ \A f \in Ends, t \in Seqs, n \in Methods :
              InQueue(RequestMsg(t, n), channel[f]) <=>
                \/ InQueue(RequestMsg(t, n), channel'[f])
                \/ f = e /\ kind = "Request" /\ msg.seq = t /\ msg.method = n
         /\ \A f \in Ends, t \in Seqs :
              InQueue(AbortMsg(t), channel[f]) <=>
                \/ InQueue(AbortMsg(t), channel'[f])
                \/ f = e /\ kind = "Abort" /\ msg.seq = t
         /\ \A f \in Ends, t \in Seqs :
              InQueue(ResponseMsg(t), channel[f]) <=>
                \/ InQueue(ResponseMsg(t), channel'[f])
                \/ f = e /\ kind = "Response" /\ msg.seq = t
         /\ \A f \in Ends, t \in Seqs :
              InQueue(EndMsg(t), channel[f]) <=>
                \/ InQueue(EndMsg(t), channel'[f])
                \/ f = e /\ kind = "StreamEnd" /\ msg.seq = t
<1>1. PICK msg \in Message : msg = Head(channel[e]) /\ msg.kind = kind
  BY TakeEffect
<1>2. \A f \in Ends : \A x :
        InQueue(x, channel[f]) <=> InQueue(x, channel'[f]) \/ (f = e /\ x = msg)
  BY <1>1, TakeEffect
<1>3. \A t, n : msg = RequestMsg(t, n) <=>
                  msg.kind = "Request" /\ msg.seq = t /\ msg.method = n
  BY MessageShapes, MessageFacts
<1>4. \A t : msg = AbortMsg(t) <=> msg.kind = "Abort" /\ msg.seq = t
  BY MessageShapes, MessageFacts
<1>5. \A t : msg = ResponseMsg(t) <=> msg.kind = "Response" /\ msg.seq = t
  BY MessageShapes, MessageFacts
<1>6. \A t : msg = EndMsg(t) <=> msg.kind = "StreamEnd" /\ msg.seq = t
  BY MessageShapes, MessageFacts
<1>7. msg.seq \in Seqs /\ (kind = "Request" => msg.method \in Methods)
  BY <1>1, MessageShapes
<1> QED
  BY <1>1, <1>2, <1>3, <1>4, <1>5, <1>6, <1>7

(* Posting a message that repeats no request keeps the requests of every   *)
(* channel distinct.                                                       *)
LEMMA PostDistinct ==
  ASSUME channel \in [Ends -> Seq(Message)], NEW e \in Ends, NEW msg \in Message, Post(e, msg),
         msg.kind = "Request" => \A m \in Methods : ~ InQueue(RequestMsg(msg.seq, m), channel[Peer(e)]),
         \A f \in Ends : DistinctRequests(channel[f])
  PROVE  \A f \in Ends : DistinctRequests(channel'[f])
<1>1. /\ Peer(e) \in Ends /\ channel[Peer(e)] \in Seq(Message)
      /\ DistinctRequests(channel[Peer(e)])
  BY PeerProps
<1>2. DistinctRequests(Append(channel[Peer(e)], msg))
  BY <1>1, DistinctAppend
<1>3. /\ channel'[Peer(e)] = Append(channel[Peer(e)], msg)
      /\ \A f \in Ends : f # Peer(e) => channel'[f] = channel[f]
  BY PostEffect
<1> QED
  BY <1>2, <1>3

(* Taking any message keeps them distinct; a request taken was the last    *)
(* one of its number.                                                      *)
LEMMA TakeDistinct ==
  ASSUME channel \in [Ends -> Seq(Message)], NEW e \in Ends, NEW kind, TakeMessage(e, kind),
         \A f \in Ends : DistinctRequests(channel[f])
  PROVE  /\ \A f \in Ends : DistinctRequests(channel'[f])
         /\ kind = "Request" =>
              \A m \in Methods : ~ InQueue(RequestMsg(Head(channel[e]).seq, m), channel'[e])
<1>1. /\ channel[e] \in Seq(Message) /\ channel[e] # <<>> /\ DistinctRequests(channel[e])
      /\ channel'[e] = Tail(channel[e]) /\ Head(channel[e]).kind = kind
      /\ \A f \in Ends : f # e => channel'[f] = channel[f]
  BY TakeEffect
<1>2. /\ DistinctRequests(Tail(channel[e]))
      /\ kind = "Request" =>
           \A m \in Methods : ~ InQueue(RequestMsg(Head(channel[e]).seq, m), Tail(channel[e]))
  BY <1>1, DistinctTail
<1> QED
  BY <1>1, <1>2

-----------------------------------------------------------------------------
(* Making a call keeps the invariant: its number is new to both ends.      *)
LEMMA NewCallInv ==
  ASSUME IInv, NEW e \in Ends, NewCall(e), UNCHANGED serviceVars
  PROVE  IInv'
<1> USE DEF IInv
<1>1. PICK m \in Methods : Notify(e, m) \/ Request(e, m) \/ Stream(e, m)
  BY DEF NewCall
<1>2. TypeOK'
  BY NewCallType
<1>3. PICK p \in Ends : p = Peer(e) /\ p # e /\ Peer(p) = e
  BY PeerProps
<1>4. Send(e, m)
  BY <1>1 DEF Notify, Request, Stream
<1>5. PICK s \in Seqs : s = sequence[e]
  BY <1>4, BoundsAssumption DEF Send, TypeOK, ClientTypeOK, Seqs
<1>6. e \in Clients /\ Post(e, RequestMsg(s, m)) /\ sequence' = [sequence EXCEPT ![e] = @ + 1]
  BY <1>4, <1>5 DEF Send
<1>7. PICK held \in HeldFor(m) :
        /\ held \in {"notified", "pending", "open"}
        /\ SetCall(e, s, held)
        /\ callbacks' = [callbacks EXCEPT ![e] = @ \cup (IF held = "pending" THEN {s} ELSE {})]
        /\ streamCallbacks' =
             [streamCallbacks EXCEPT ![e] = @ \cup (IF held = "open" THEN {s} ELSE {})]
  <2>1. CASE Notify(e, m)
    BY <1>5, <2>1 DEF Notify, HeldFor, TypeOK, ClientTypeOK
  <2>2. CASE Request(e, m)
    BY <1>5, <2>2 DEF Request, HeldFor, TypeOK, ClientTypeOK, NotifyMethods, ValueMethods
  <2>3. CASE Stream(e, m)
    BY <1>5, <2>3
    DEF Stream, HeldFor, TypeOK, ClientTypeOK, NotifyMethods, ValueMethods, StreamMethods
  <2> QED
    BY <1>1, <2>1, <2>2, <2>3
<1>8. call[e][s] = "idle"
  <2>1. ~ (s < sequence[e])
    BY <1>5 DEF TypeOK, ClientTypeOK, Seqs
  <2> QED
    BY <2>1 DEF Numbering
<1>9. /\ call'[e][s] = held
      /\ \A f \in Ends, t \in Seqs : f # e \/ t # s => call'[f][t] = call[f][t]
  BY <1>7 DEF SetCall, TypeOK, ClientTypeOK
<1>10. RequestMsg(s, m) \in Message /\ RequestMsg(s, m).kind = "Request"
       /\ RequestMsg(s, m).seq = s /\ RequestMsg(s, m).method = m
  BY MessageFacts
<1>11. /\ \A f \in Ends, t \in Seqs, n \in Methods :
            InQueue(RequestMsg(t, n), channel'[f]) <=>
              InQueue(RequestMsg(t, n), channel[f]) \/ (f = p /\ t = s /\ n = m)
       /\ \A f \in Ends, t \in Seqs :
            /\ InQueue(AbortMsg(t), channel'[f]) <=> InQueue(AbortMsg(t), channel[f])
            /\ InQueue(ResponseMsg(t), channel'[f]) <=> InQueue(ResponseMsg(t), channel[f])
            /\ InQueue(EndMsg(t), channel'[f]) <=> InQueue(EndMsg(t), channel[f])
  BY <1>3, <1>6, <1>10, PostKinds DEF TypeOK
<1>12. Untouched(p, s)
  BY <1>3, <1>8
  DEF ExecutionsMatchCalls, RunningIsLive, ExecutionsAreRegistered, AbortsAreSent, HeldFor,
      GivenUp, Untouched
<1>13. /\ \A n \in Methods : ~ InQueue(RequestMsg(s, n), channel[p])
       /\ \A n \in Methods : ~ InQueue([seq |-> s, method |-> n], requests[p])
  <2>1. \A n \in Methods : call[Peer(p)][s] \notin HeldFor(n)
    BY <1>3, <1>8 DEF HeldFor
  <2> QED
    BY <2>1 DEF RequestsAreFresh
<1>14. Numbering'
  <2>1. /\ sequence'[e] = s + 1
        /\ \A f \in Ends : f # e => sequence'[f] = sequence[f]
    BY <1>5, <1>6 DEF TypeOK, ClientTypeOK
  <2>2. s \in Nat
    BY DEF Seqs
  <2>3. ASSUME NEW f \in Ends, NEW t \in Seqs, call'[f][t] # "idle"
        PROVE  t < sequence'[f]
    BY <1>5, <1>9, <2>1, <2>2, <2>3 DEF Numbering, Seqs
  <2>4. ASSUME NEW f \in Ends, sequence'[f] > 0
        PROVE  f \in Clients
    BY <1>6, <2>1, <2>4 DEF Numbering
  <2> QED
    BY <2>3, <2>4 DEF Numbering
<1>15. CallbacksMatchCalls'
  <2>1. \A f \in Ends, t \in Seqs :
          /\ t \in callbacks'[f] <=> t \in callbacks[f] \/ (f = e /\ t = s /\ held = "pending")
          /\ t \in streamCallbacks'[f] <=>
               t \in streamCallbacks[f] \/ (f = e /\ t = s /\ held = "open")
    BY <1>7 DEF TypeOK, ClientTypeOK
  <2> QED
    BY <1>7, <1>8, <1>9, <2>1 DEF CallbacksMatchCalls
<1>16. RequestsAreFresh'
  <2>1. \A f \in Ends, t \in Seqs, n \in Methods :
          call[f][t] \in HeldFor(n) => call'[f][t] \in HeldFor(n)
    BY <1>8, <1>9 DEF HeldFor
  <2>2. \A f \in Ends, t \in Seqs : Untouched(f, t)' <=> Untouched(f, t)
    BY DEF Untouched, serviceVars
  <2>3. requests' = requests
    BY DEF serviceVars
  <2> QED
    BY <1>3, <1>7, <1>9, <1>11, <1>12, <2>1, <2>2, <2>3, PeerProps DEF RequestsAreFresh
<1>17. RequestsAreDistinct'
  <2>1. \A f \in Ends : DistinctRequests(channel'[f])
    BY <1>3, <1>6, <1>10, <1>13, PostDistinct DEF RequestsAreDistinct, TypeOK
  <2> QED
    BY <1>11, <1>13, <2>1 DEF RequestsAreDistinct, serviceVars
<1>18. ExecutionsMatchCalls'
  <2>1. \A f \in Ends, t \in Seqs :
          execution[f][t] # "none" => call'[Peer(f)][t] = call[Peer(f)][t]
    BY <1>3, <1>9, <1>12, PeerProps DEF Untouched
  <2> QED
    BY <2>1 DEF ExecutionsMatchCalls, serviceVars
<1>19. ExecutionsAreRegistered' /\ RunningIsLive' /\ SignalledAreForgotten'
  BY DEF ExecutionsAreRegistered, RunningIsLive, SignalledAreForgotten, serviceVars
<1>20. AbortsAreSent'
  <2>1. \A f \in Ends, t \in Seqs :
          call[Peer(f)][t] \in GivenUp => call'[Peer(f)][t] \in GivenUp
    BY <1>8, <1>9, PeerProps DEF GivenUp
  <2> QED
    BY <1>11, <2>1 DEF AbortsAreSent, serviceVars
<1>21. ResponsesAreFinal'
  BY <1>11, PeerProps DEF ResponsesAreFinal, serviceVars
<1>22. NoLostCall'
  <2>1. ASSUME NEW f \in Clients, NEW t \in Seqs, f # e \/ t # s
        PROVE  /\ call'[f][t] = call[f][t]
               /\ t \in streamCallbacks'[f] => t \in streamCallbacks[f]
    BY <1>7, <1>9, <2>1, ClientsAssumption DEF TypeOK, ClientTypeOK
  <2>2. ASSUME NEW f \in Clients, NEW t \in Seqs, f # e \/ t # s
        PROVE  NotLost(f, t)'
    <3>1. f \in Ends /\ Peer(f) \in Ends
      BY PeerProps, ClientsAssumption
    <3>2. /\ Requested(f, t) => Requested(f, t)'
          /\ Queued(f, t) => Queued(f, t)'
          /\ InService(f, t) => InService(f, t)'
          /\ Ending(f, t) => Ending(f, t)'
          /\ Answered(f, t) => Answered(f, t)'
          /\ EndPosted(f, t) => EndPosted(f, t)'
      BY <1>11, <3>1 DEF Requested, Queued, InService, Ending, Answered, EndPosted, serviceVars
    <3> QED
      BY <2>1, <2>2, <3>2 DEF NoLostCall, NotLost
  <2>3. Requested(e, s)'
    BY <1>3, <1>11 DEF Requested
  <2>4. ASSUME NEW f \in Clients, NEW t \in Seqs, f = e, t = s
        PROVE  NotLost(f, t)'
    BY <2>3, <2>4 DEF Requested, NotLost
  <2> QED
    BY <2>2, <2>4 DEF NoLostCall
<1> QED
  BY <1>2, <1>14, <1>15, <1>16, <1>17, <1>18, <1>19, <1>20, <1>21, <1>22

-----------------------------------------------------------------------------
(* What callers do with what they hold keeps the invariant: an abort is    *)
(* posted only for a call that its caller gives up in the same step.       *)
LEMMA CallerInv ==
  ASSUME IInv, NEW e \in Ends, NEW s \in Seqs, CallerStep(e, s), UNCHANGED serviceVars
  PROVE  IInv'
<1> USE DEF IInv
<1>1. TypeOK'
  BY CallerType
<1>2. PICK to \in CallStates :
        /\ call'[e][s] = to
        /\ \A f \in Ends, t \in Seqs : f # e \/ t # s => call'[f][t] = call[f][t]
        /\ call[e][s] # "idle" /\ to \notin {"idle", "pending"}
        /\ call[e][s] \in GivenUp => to \in GivenUp
        /\ \A n \in Methods : call[e][s] \in HeldFor(n) => to \in HeldFor(n)
        /\ channel' = channel \/ (Post(e, AbortMsg(s)) /\ to \in GivenUp)
        /\ s \notin callbacks'[e]
        /\ s \in streamCallbacks'[e] => to = "open"
        /\ \A f \in Ends, t \in Seqs :
             /\ f # e \/ t # s => (t \in callbacks'[f] <=> t \in callbacks[f])
             /\ t \in streamCallbacks'[f] => t \in streamCallbacks[f]
        /\ sequence' = sequence
  <2> USE DEF TypeOK, ClientTypeOK, CallStates, GivenUp, HeldFor, NotifyMethods, ValueMethods,
              CallbacksMatchCalls
  <2>1. CASE PollResponse(e, s)
    BY <2>1 DEF PollResponse, SetCall
  <2>2. CASE DropRequest(e, s)
    BY <2>2 DEF DropRequest, SetCall
  <2>3. CASE PollItem(e, s)
    BY <2>3 DEF PollItem
  <2>4. CASE PollNone(e, s)
    <3>1. CASE call[e][s] = "open" /\ SetCall(e, s, "ended")
      BY <2>4, <3>1 DEF PollNone, SetCall
    <3>2. CASE call[e][s] = "closed" /\ SetCall(e, s, "drained")
      BY <2>4, <3>2 DEF PollNone, SetCall
    <3> QED
      BY <2>4, <3>1, <3>2 DEF PollNone
  <2>5. CASE Close(e, s)
    BY <2>5 DEF Close, FireStreamAbort, SetCall
  <2>6. CASE DropStream(e, s)
    <3>1. CASE call[e][s] = "open" /\ FireStreamAbort(e, s)
      BY <2>6, <3>1 DEF DropStream, FireStreamAbort, SetCall
    <3>2. CASE call[e][s] = "closed" /\ UNCHANGED <<streamCallbacks, channel>>
      BY <2>6, <3>2 DEF DropStream, SetCall
    <3> QED
      BY <2>6, <3>1, <3>2 DEF DropStream
  <2> QED
    BY <2>1, <2>2, <2>3, <2>4, <2>5, <2>6 DEF CallerStep
<1>3. PICK p \in Ends : p = Peer(e) /\ p # e /\ Peer(p) = e
  BY PeerProps
<1>4. AbortMsg(s) \in Message /\ AbortMsg(s).kind = "Abort" /\ AbortMsg(s).seq = s
  BY MessageFacts
<1>5. /\ \A f \in Ends, t \in Seqs, n \in Methods :
           InQueue(RequestMsg(t, n), channel'[f]) <=> InQueue(RequestMsg(t, n), channel[f])
      /\ \A f \in Ends, t \in Seqs :
           /\ InQueue(AbortMsg(t), channel'[f]) =>
                InQueue(AbortMsg(t), channel[f]) \/ (f = p /\ t = s /\ to \in GivenUp)
           /\ InQueue(ResponseMsg(t), channel'[f]) <=> InQueue(ResponseMsg(t), channel[f])
           /\ InQueue(EndMsg(t), channel'[f]) <=> InQueue(EndMsg(t), channel[f])
  <2>1. CASE channel' = channel
    BY <2>1
  <2>2. CASE Post(e, AbortMsg(s)) /\ to \in GivenUp
    BY <1>3, <1>4, <2>2, PostKinds DEF TypeOK
  <2> QED
    BY <1>2, <2>1, <2>2
<1>6. /\ \A f \in Ends, t \in Seqs, n \in Methods :
           call[f][t] \in HeldFor(n) => call'[f][t] \in HeldFor(n)
      /\ \A f \in Ends, t \in Seqs : call[f][t] \in GivenUp => call'[f][t] \in GivenUp
  BY <1>2
<1>7. Numbering'
  BY <1>2 DEF Numbering
<1>8. CallbacksMatchCalls'
  BY <1>2 DEF CallbacksMatchCalls
<1>9. RequestsAreFresh'
  BY <1>5, <1>6, PeerProps DEF RequestsAreFresh, Untouched, serviceVars
<1>10. RequestsAreDistinct'
  <2>1. \A f \in Ends : DistinctRequests(channel'[f])
    BY <1>2, <1>4, PostDistinct DEF RequestsAreDistinct, TypeOK
  <2> QED
    BY <1>5, <2>1 DEF RequestsAreDistinct, serviceVars
<1>11. ExecutionsMatchCalls'
  BY <1>6, PeerProps DEF ExecutionsMatchCalls, serviceVars
<1>12. ExecutionsAreRegistered' /\ RunningIsLive' /\ SignalledAreForgotten'
  BY DEF ExecutionsAreRegistered, RunningIsLive, SignalledAreForgotten, serviceVars
<1>13. AbortsAreSent'
  BY <1>2, <1>3, <1>5, <1>6, PeerProps DEF AbortsAreSent, serviceVars
<1>14. ResponsesAreFinal'
  BY <1>5, PeerProps DEF ResponsesAreFinal, serviceVars
<1>15. NoLostCall'
  <2>1. ASSUME NEW f \in Clients, NEW t \in Seqs
        PROVE  NotLost(f, t)'
    <3>1. f \in Ends /\ Peer(f) \in Ends
      BY PeerProps, ClientsAssumption
    <3>2. /\ Requested(f, t) => Requested(f, t)'
          /\ Queued(f, t) => Queued(f, t)'
          /\ InService(f, t) => InService(f, t)'
          /\ Ending(f, t) => Ending(f, t)'
          /\ Answered(f, t) => Answered(f, t)'
          /\ EndPosted(f, t) => EndPosted(f, t)'
      BY <1>5, <3>1 DEF Requested, Queued, InService, Ending, Answered, EndPosted, serviceVars
    <3> QED
      BY <1>2, <3>1, <3>2 DEF NoLostCall, NotLost
  <2> QED
    BY <2>1 DEF NoLostCall
<1> QED
  BY <1>1, <1>7, <1>8, <1>9, <1>10, <1>11, <1>12, <1>13, <1>14, <1>15

-----------------------------------------------------------------------------
(* The dispatcher hands a request to the server: it was in one queue, and  *)
(* is in the other.                                                        *)
LEMMA DispatchRequestInv ==
  ASSUME IInv, NEW e \in Ends, DispatchRequest(e)
  PROVE  IInv'
<1> USE DEF IInv
<1>1. TypeOK'
  BY DispatchType DEF Dispatch
<1>2. TakeMessage(e, "Request") /\ channel \in [Ends -> Seq(Message)]
  BY DEF DispatchRequest, TypeOK
<1>3. PICK msg \in Message :
        /\ msg = Head(channel[e]) /\ msg.seq \in Seqs /\ msg.method \in Methods
        /\ \A f \in Ends, t \in Seqs, n \in Methods :
             InQueue(RequestMsg(t, n), channel[f]) <=>
               \/ InQueue(RequestMsg(t, n), channel'[f])
               \/ f = e /\ msg.seq = t /\ msg.method = n
        /\ \A f \in Ends, t \in Seqs :
             /\ InQueue(AbortMsg(t), channel[f]) <=> InQueue(AbortMsg(t), channel'[f])
             /\ InQueue(ResponseMsg(t), channel[f]) <=> InQueue(ResponseMsg(t), channel'[f])
             /\ InQueue(EndMsg(t), channel[f]) <=> InQueue(EndMsg(t), channel'[f])
  BY <1>2, TakeKinds
<1>4. PICK s \in Seqs, m \in Methods : s = msg.seq /\ m = msg.method
  BY <1>3
<1>5. [seq |-> s, method |-> m] \in Inbound /\ requests \in [Ends -> Seq(Inbound)]
  BY DEF Inbound, TypeOK, ServiceTypeOK
<1>6. requests' = [requests EXCEPT ![e] = Append(@, [seq |-> s, method |-> m])]
  BY <1>3, <1>4 DEF DispatchRequest
<1>7. \A f \in Ends, t \in Seqs, n \in Methods :
        InQueue([seq |-> t, method |-> n], requests'[f]) <=>
          InQueue([seq |-> t, method |-> n], requests[f]) \/ (f = e /\ t = s /\ n = m)
  <2>1. \A x : InQueue(x, Append(requests[e], [seq |-> s, method |-> m])) <=>
                 InQueue(x, requests[e]) \/ x = [seq |-> s, method |-> m]
    BY <1>5, QueueAppend
  <2> QED
    BY <1>5, <1>6, <2>1
<1>8. UNCHANGED <<clientVars, aborts, outbox, running, execution, method, signalled>>
  BY DEF DispatchRequest
<1>9. /\ \A n \in Methods : ~ InQueue([seq |-> s, method |-> n], requests[e])
      /\ \A n \in Methods : ~ InQueue(RequestMsg(s, n), channel'[e])
      /\ \A f \in Ends : DistinctRequests(channel'[f])
  <2>1. InQueue(RequestMsg(s, m), channel[e])
    BY <1>3, <1>4
  <2> QED
    BY <1>2, <1>3, <1>4, <2>1, TakeDistinct DEF RequestsAreDistinct
<1>10. Numbering' /\ CallbacksMatchCalls'
  BY <1>8 DEF Numbering, CallbacksMatchCalls, clientVars
<1>11. RequestsAreFresh'
  BY <1>3, <1>4, <1>7, <1>8 DEF RequestsAreFresh, Untouched, clientVars
<1>12. RequestsAreDistinct'
  <2>1. \A f \in Ends : DistinctCalls(requests'[f])
    <3>1. DistinctCalls(requests[e]) /\ requests[e] \in Seq(Inbound)
      BY <1>5 DEF RequestsAreDistinct
    <3>2. DistinctCalls(Append(requests[e], [seq |-> s, method |-> m]))
      BY <1>5, <1>9, <3>1, CallsAppend
    <3> QED
      BY <1>5, <1>6, <3>2 DEF RequestsAreDistinct
  <2>2. ASSUME NEW f \in Ends, NEW t \in Seqs, NEW n \in Methods, NEW k \in Methods,
               InQueue(RequestMsg(t, n), channel'[f]),
               InQueue([seq |-> t, method |-> k], requests'[f])
        PROVE  FALSE
    BY <1>3, <1>7, <1>9, <2>2 DEF RequestsAreDistinct
  <2> QED
    BY <1>9, <2>1, <2>2 DEF RequestsAreDistinct
<1>13. ExecutionsMatchCalls' /\ ExecutionsAreRegistered' /\ RunningIsLive'
       /\ SignalledAreForgotten'
  BY <1>8
  DEF ExecutionsMatchCalls, ExecutionsAreRegistered, RunningIsLive, SignalledAreForgotten,
      clientVars
<1>14. AbortsAreSent' /\ ResponsesAreFinal'
  BY <1>3, <1>8, PeerProps DEF AbortsAreSent, ResponsesAreFinal, clientVars
<1>15. NoLostCall'
  <2>1. ASSUME NEW f \in Clients, NEW t \in Seqs
        PROVE  NotLost(f, t)'
    <3>1. f \in Ends /\ Peer(f) \in Ends
      BY PeerProps, ClientsAssumption
    <3>2. /\ Requested(f, t) => Requested(f, t)' \/ Queued(f, t)'
          /\ Queued(f, t) => Queued(f, t)'
          /\ InService(f, t) => InService(f, t)'
          /\ Ending(f, t) => Ending(f, t)'
          /\ Answered(f, t) => Answered(f, t)'
          /\ EndPosted(f, t) => EndPosted(f, t)'
      BY <1>3, <1>4, <1>7, <1>8, <3>1
      DEF Requested, Queued, InService, Ending, Answered, EndPosted
    <3> QED
      BY <1>8, <3>1, <3>2 DEF NoLostCall, NotLost, clientVars
  <2> QED
    BY <2>1 DEF NoLostCall
<1> QED
  BY <1>1, <1>10, <1>11, <1>12, <1>13, <1>14, <1>15

(* The dispatcher hands an abort to the server.                            *)
LEMMA DispatchAbortInv ==
  ASSUME IInv, NEW e \in Ends, DispatchAbort(e)
  PROVE  IInv'
<1> USE DEF IInv
<1>1. TypeOK'
  BY DispatchType DEF Dispatch
<1>2. TakeMessage(e, "Abort") /\ channel \in [Ends -> Seq(Message)]
  BY DEF DispatchAbort, TypeOK
<1>3. PICK msg \in Message :
        /\ msg = Head(channel[e]) /\ msg.seq \in Seqs
        /\ \A f \in Ends, t \in Seqs, n \in Methods :
             InQueue(RequestMsg(t, n), channel[f]) <=> InQueue(RequestMsg(t, n), channel'[f])
        /\ \A f \in Ends, t \in Seqs :
             InQueue(AbortMsg(t), channel[f]) <=>
               InQueue(AbortMsg(t), channel'[f]) \/ (f = e /\ msg.seq = t)
        /\ \A f \in Ends, t \in Seqs :
             /\ InQueue(ResponseMsg(t), channel[f]) <=> InQueue(ResponseMsg(t), channel'[f])
             /\ InQueue(EndMsg(t), channel[f]) <=> InQueue(EndMsg(t), channel'[f])
  BY <1>2, TakeKinds
<1>4. PICK s \in Seqs : s = msg.seq
  BY <1>3
<1>5. \A f \in Ends, t \in Seqs :
        InQueue(t, aborts'[f]) <=> InQueue(t, aborts[f]) \/ (f = e /\ t = s)
  <2>1. aborts \in [Ends -> Seq(Seqs)] /\ aborts' = [aborts EXCEPT ![e] = Append(@, s)]
    BY <1>3, <1>4 DEF DispatchAbort, TypeOK, ServiceTypeOK
  <2>2. \A t : InQueue(t, Append(aborts[e], s)) <=> InQueue(t, aborts[e]) \/ t = s
    BY <2>1, QueueAppend
  <2> QED
    BY <2>1, <2>2
<1>6. UNCHANGED <<clientVars, requests, outbox, running, execution, method, signalled>>
  BY DEF DispatchAbort
<1>7. Numbering' /\ CallbacksMatchCalls'
  BY <1>6 DEF Numbering, CallbacksMatchCalls, clientVars
<1>8. RequestsAreFresh'
  BY <1>3, <1>6 DEF RequestsAreFresh, Untouched, clientVars
<1>9. RequestsAreDistinct'
  <2>1. \A f \in Ends : DistinctRequests(channel'[f])
    BY <1>2, TakeDistinct DEF RequestsAreDistinct
  <2> QED
    BY <1>3, <1>6, <2>1 DEF RequestsAreDistinct
<1>10. ExecutionsMatchCalls' /\ ExecutionsAreRegistered' /\ RunningIsLive'
       /\ SignalledAreForgotten'
  BY <1>6
  DEF ExecutionsMatchCalls, ExecutionsAreRegistered, RunningIsLive, SignalledAreForgotten,
      clientVars
<1>11. AbortsAreSent' /\ ResponsesAreFinal'
  BY <1>3, <1>4, <1>5, <1>6, PeerProps DEF AbortsAreSent, ResponsesAreFinal, clientVars
<1>12. NoLostCall'
  <2>1. ASSUME NEW f \in Clients, NEW t \in Seqs
        PROVE  NotLost(f, t)'
    <3>1. f \in Ends /\ Peer(f) \in Ends
      BY PeerProps, ClientsAssumption
    <3>2. /\ Requested(f, t) => Requested(f, t)'
          /\ Queued(f, t) => Queued(f, t)'
          /\ InService(f, t) => InService(f, t)'
          /\ Ending(f, t) => Ending(f, t)'
          /\ Answered(f, t) => Answered(f, t)'
          /\ EndPosted(f, t) => EndPosted(f, t)'
      BY <1>3, <1>6, <3>1 DEF Requested, Queued, InService, Ending, Answered, EndPosted
    <3> QED
      BY <1>6, <3>1, <3>2 DEF NoLostCall, NotLost, clientVars
  <2> QED
    BY <2>1 DEF NoLostCall
<1> QED
  BY <1>1, <1>7, <1>8, <1>9, <1>10, <1>11, <1>12

-----------------------------------------------------------------------------
(* The dispatcher hands a response, an item or an end to the client.       *)
LEMMA DispatchClientInv ==
  ASSUME IInv, NEW e \in Ends,
         DispatchResponse(e) \/ DispatchStreamItem(e) \/ DispatchStreamEnd(e)
  PROVE  IInv'
<1> USE DEF IInv
<1>1. TypeOK'
  BY DispatchType DEF Dispatch
<1>2. UNCHANGED serviceVars /\ sequence' = sequence
  BY DEF DispatchResponse, DispatchStreamItem, DispatchStreamEnd, OnResponse, OnStreamItem,
         OnStreamEnd
<1>3. PICK kind \in {"Response", "StreamItem", "StreamEnd"} : TakeMessage(e, kind)
  BY DEF DispatchResponse, DispatchStreamItem, DispatchStreamEnd
<1>4. channel \in [Ends -> Seq(Message)] /\ kind # "Request" /\ kind # "Abort"
  BY <1>3 DEF TypeOK
<1>5. PICK msg \in Message :
        /\ msg = Head(channel[e]) /\ msg.seq \in Seqs /\ msg.kind = kind
        /\ \A f \in Ends, t \in Seqs, n \in Methods :
             InQueue(RequestMsg(t, n), channel[f]) <=> InQueue(RequestMsg(t, n), channel'[f])
        /\ \A f \in Ends, t \in Seqs :
             InQueue(AbortMsg(t), channel[f]) <=> InQueue(AbortMsg(t), channel'[f])
        /\ \A f \in Ends, t \in Seqs :
             InQueue(ResponseMsg(t), channel[f]) <=>
               InQueue(ResponseMsg(t), channel'[f]) \/ (f = e /\ kind = "Response" /\ msg.seq = t)
        /\ \A f \in Ends, t \in Seqs :
             InQueue(EndMsg(t), channel[f]) <=>
               InQueue(EndMsg(t), channel'[f]) \/ (f = e /\ kind = "StreamEnd" /\ msg.seq = t)
  BY <1>3, <1>4, TakeKinds
<1>6. PICK s \in Seqs : s = msg.seq
  BY <1>5
<1>7. /\ \A f \in Ends, t \in Seqs :
           \/ call'[f][t] = call[f][t]
           \/ call[f][t] = "pending" /\ call'[f][t] = "responded"
      /\ \A f \in Ends, t \in Seqs :
           t \in callbacks'[f] <=> t \in callbacks[f] /\ ~ (f = e /\ kind = "Response" /\ t = s)
      /\ \A f \in Ends, t \in Seqs :
           t \in streamCallbacks'[f] <=>
             t \in streamCallbacks[f] /\ ~ (f = e /\ kind = "StreamEnd" /\ t = s)
      /\ \A f \in Ends, t \in Seqs :
           f = e /\ kind = "Response" /\ t = s => call'[f][t] # "pending"
      /\ \A f \in Ends, t \in Seqs :
           ~ (f = e /\ kind = "Response" /\ t = s) => call'[f][t] = call[f][t]
  <2> USE DEF TypeOK, ClientTypeOK, CallbacksMatchCalls
  <2>1. CASE DispatchResponse(e)
    <3>1. kind = "Response" /\ OnResponse(e, s)
      BY <1>3, <1>5, <1>6, <2>1 DEF DispatchResponse, TakeMessage
    <3>2. CASE s \in callbacks[e]
      <4>1. /\ call' = [call EXCEPT ![e][s] = "responded"]
            /\ callbacks' = [callbacks EXCEPT ![e] = @ \ {s}]
            /\ streamCallbacks' = streamCallbacks
        BY <3>1, <3>2 DEF OnResponse, SetCall
      <4>2. /\ call[e][s] = "pending" /\ call'[e][s] = "responded"
            /\ \A f \in Ends, t \in Seqs : f # e \/ t # s => call'[f][t] = call[f][t]
        BY <3>2, <4>1
      <4> QED
        BY <3>1, <4>1, <4>2
    <3>3. CASE s \notin callbacks[e]
      BY <3>1, <3>3 DEF OnResponse
    <3> QED
      BY <3>2, <3>3
  <2>2. CASE DispatchStreamItem(e)
    <3>1. kind = "StreamItem"
      BY <1>3, <2>2 DEF DispatchStreamItem, TakeMessage
    <3> QED
      BY <3>1, <2>2 DEF DispatchStreamItem, OnStreamItem
  <2>3. CASE DispatchStreamEnd(e)
    <3>1. kind = "StreamEnd" /\ OnStreamEnd(e, s)
      BY <1>3, <1>5, <1>6, <2>3 DEF DispatchStreamEnd, TakeMessage
    <3> QED
      BY <3>1 DEF OnStreamEnd
  <2> QED
    BY <2>1, <2>2, <2>3
<1>8. /\ \A f \in Ends, t \in Seqs, n \in Methods :
           call[f][t] \in HeldFor(n) => call'[f][t] \in HeldFor(n)
      /\ \A f \in Ends, t \in Seqs : call[f][t] \in GivenUp => call'[f][t] \in GivenUp
      /\ \A f \in Ends, t \in Seqs : call[f][t] = "idle" <=> call'[f][t] = "idle"
  BY <1>7 DEF HeldFor, GivenUp
<1>9. Numbering'
  BY <1>2, <1>8 DEF Numbering
<1>10. CallbacksMatchCalls'
  <2>1. \A f \in Ends, t \in Seqs : t \in callbacks'[f] <=> call'[f][t] = "pending"
    BY <1>7 DEF CallbacksMatchCalls
  <2>2. \A f \in Ends, t \in Seqs : t \in streamCallbacks'[f] => call'[f][t] = "open"
    BY <1>7 DEF CallbacksMatchCalls
  <2> QED
    BY <2>1, <2>2 DEF CallbacksMatchCalls
<1>11. RequestsAreFresh'
  BY <1>2, <1>5, <1>8, PeerProps DEF RequestsAreFresh, Untouched, serviceVars
<1>12. RequestsAreDistinct'
  <2>1. \A f \in Ends : DistinctRequests(channel'[f])
    BY <1>3, <1>4, TakeDistinct DEF RequestsAreDistinct
  <2> QED
    BY <1>2, <1>5, <2>1 DEF RequestsAreDistinct, serviceVars
<1>13. ExecutionsMatchCalls'
  BY <1>2, <1>8, PeerProps DEF ExecutionsMatchCalls, serviceVars
<1>14. ExecutionsAreRegistered' /\ RunningIsLive' /\ SignalledAreForgotten'
  BY <1>2 DEF ExecutionsAreRegistered, RunningIsLive, SignalledAreForgotten, serviceVars
<1>15. AbortsAreSent'
  BY <1>2, <1>5, <1>8, PeerProps DEF AbortsAreSent, serviceVars
<1>16. ResponsesAreFinal'
  BY <1>2, <1>5, PeerProps DEF ResponsesAreFinal, serviceVars
<1>17. NoLostCall'
  <2>1. ASSUME NEW f \in Clients, NEW t \in Seqs
        PROVE  NotLost(f, t)'
    <3>1. f \in Ends /\ Peer(f) \in Ends
      BY PeerProps, ClientsAssumption
    <3>2. /\ Requested(f, t) => Requested(f, t)'
          /\ Queued(f, t) => Queued(f, t)'
          /\ InService(f, t) => InService(f, t)'
          /\ Ending(f, t) => Ending(f, t)'
          /\ Answered(f, t) => Answered(f, t)' \/ (f = e /\ kind = "Response" /\ t = s)
          /\ EndPosted(f, t) => EndPosted(f, t)' \/ (f = e /\ kind = "StreamEnd" /\ t = s)
      BY <1>2, <1>5, <1>6, <3>1
      DEF Requested, Queued, InService, Ending, Answered, EndPosted, serviceVars
    <3> QED
      BY <1>7, <3>1, <3>2 DEF NoLostCall, NotLost
  <2> QED
    BY <2>1 DEF NoLostCall
<1> QED
  BY <1>1, <1>9, <1>10, <1>11, <1>12, <1>13, <1>14, <1>15, <1>16, <1>17

-----------------------------------------------------------------------------
(* The server takes a request: it is new, and the last one of its number.  *)
LEMMA TakeRequestInv ==
  ASSUME IInv, NEW e \in Ends, TakeRequest(e), e \in Servers, UNCHANGED clientVars
  PROVE  IInv'
<1> USE DEF IInv
<1>1. TypeOK'
  BY LoopType DEF ServiceStep, LoopStep
<1>2. /\ requests \in [Ends -> Seq(Inbound)] /\ requests[e] # <<>>
      /\ requests' = [requests EXCEPT ![e] = Tail(@)]
      /\ UNCHANGED <<channel, aborts, outbox, signalled, produced>>
  BY DEF TakeRequest, TypeOK, ServiceTypeOK
<1>3. PICK s \in Seqs, m \in Methods : Head(requests[e]) = [seq |-> s, method |-> m]
  <2>1. Head(requests[e]) \in Inbound
    BY <1>2, QueueTail
  <2> QED
    BY <2>1 DEF Inbound
<1>4. \A f \in Ends, t \in Seqs, n \in Methods :
        InQueue([seq |-> t, method |-> n], requests[f]) <=>
          InQueue([seq |-> t, method |-> n], requests'[f]) \/ (f = e /\ t = s /\ n = m)
  <2>1. \A x : InQueue(x, requests[e]) <=>
                 x = [seq |-> s, method |-> m] \/ InQueue(x, Tail(requests[e]))
    BY <1>2, <1>3, QueueTail
  <2> QED
    BY <1>2, <2>1
<1>5. /\ Untouched(e, s) /\ call[Peer(e)][s] \in HeldFor(m)
      /\ \A n \in Methods : ~ InQueue(RequestMsg(s, n), channel[e])
  BY <1>4 DEF RequestsAreFresh, RequestsAreDistinct
<1>6. /\ \A n \in Methods : ~ InQueue([seq |-> s, method |-> n], requests'[e])
      /\ \A f \in Ends : DistinctCalls(requests'[f])
  <2>1. requests[e] \in Seq(Inbound) /\ DistinctCalls(requests[e])
    BY <1>2 DEF RequestsAreDistinct
  <2>2. /\ DistinctCalls(Tail(requests[e]))
        /\ \A n \in Methods : ~ InQueue([seq |-> s, method |-> n], Tail(requests[e]))
    BY <1>2, <1>3, <2>1, CallsTail
  <2> QED
    BY <1>2, <2>2 DEF RequestsAreDistinct
<1>7. /\ \A f \in Ends, t \in Seqs : t \in running'[f] <=> t \in running[f] \/ (f = e /\ t = s)
      /\ execution'[e][s] = "called" /\ method'[e][s] = m
      /\ \A f \in Ends, t \in Seqs :
           f # e \/ t # s => execution'[f][t] = execution[f][t] /\ method'[f][t] = method[f][t]
  <2>1. /\ running' = [running EXCEPT ![e] = @ \cup {s}]
        /\ execution' = [execution EXCEPT ![e][s] = "called"]
        /\ method' = [method EXCEPT ![e][s] = m]
    <3>1. Head(requests[e]).seq = s /\ Head(requests[e]).method = m
      BY <1>3
    <3> QED
      BY <3>1 DEF TakeRequest, SetExecution
  <2> QED
    BY <2>1 DEF TypeOK, ServiceTypeOK
<1>8. Numbering' /\ CallbacksMatchCalls'
  BY DEF Numbering, CallbacksMatchCalls, clientVars
<1>9. RequestsAreFresh'
  <2>1. ASSUME NEW f \in Ends, NEW t \in Seqs, NEW n \in Methods,
               InQueue(RequestMsg(t, n), channel'[f])
                 \/ InQueue([seq |-> t, method |-> n], requests'[f])
        PROVE  Untouched(f, t)' /\ call'[Peer(f)][t] \in HeldFor(n)
    <3>1. f # e \/ t # s
      BY <1>2, <1>5, <1>6, <2>1
    <3>2. Untouched(f, t) /\ call[Peer(f)][t] \in HeldFor(n)
      BY <1>2, <1>4, <2>1 DEF RequestsAreFresh
    <3> QED
      BY <1>2, <1>7, <3>1, <3>2 DEF Untouched, clientVars
  <2> QED
    BY <2>1 DEF RequestsAreFresh
<1>10. RequestsAreDistinct'
  BY <1>2, <1>4, <1>6 DEF RequestsAreDistinct
<1>11. ExecutionsMatchCalls'
  BY <1>5, <1>7 DEF ExecutionsMatchCalls, clientVars
<1>12. ExecutionsAreRegistered' /\ RunningIsLive' /\ SignalledAreForgotten'
  <2>1. ASSUME NEW f \in Ends, NEW t \in Seqs
        PROVE  /\ execution'[f][t] \in {"called", "forwarding"} =>
                    t \in running'[f] \cup signalled[f]
               /\ execution'[f][t] = "forwarding" => method'[f][t] \in StreamMethods
               /\ InQueue(Entry(t, None), outbox[f]) =>
                    /\ execution'[f][t] \in {"finished", "aborted"}
                    /\ method'[f][t] \in StreamMethods
    <3>1. CASE f = e /\ t = s
      BY <1>5, <1>7, <3>1 DEF ExecutionsAreRegistered, Untouched
    <3>2. CASE f # e \/ t # s
      BY <1>7, <3>2 DEF ExecutionsAreRegistered
    <3> QED
      BY <3>1, <3>2
  <2>2. \A f \in Ends, t \in Seqs : InQueue(Entry(t, None), outbox[f]) => f # e \/ t # s
    BY <1>5 DEF ExecutionsAreRegistered, Untouched
  <2>3. ASSUME NEW f \in Ends, NEW t \in running'[f]
        PROVE  execution'[f][t] \in {"called", "forwarding"} \/ InQueue(Entry(t, None), outbox[f])
    <3>1. t \in Seqs
      BY <1>1 DEF TypeOK, ServiceTypeOK
    <3> QED
      BY <1>7, <3>1 DEF RunningIsLive
  <2>4. RunningIsLive'
    BY <1>2, <2>3 DEF RunningIsLive
  <2>5. SignalledAreForgotten'
    <3>1. \A f \in Ends, t \in Seqs : ~ (t \in signalled[f] /\ t \in running'[f])
      BY <1>5, <1>7 DEF SignalledAreForgotten, Untouched
    <3>2. \A f \in Ends : signalled[f] \subseteq Seqs
      BY DEF TypeOK, ServiceTypeOK
    <3> QED
      BY <1>2, <3>1, <3>2 DEF SignalledAreForgotten
  <2>6. ExecutionsAreRegistered'
    BY <1>2, <2>1 DEF ExecutionsAreRegistered
  <2> QED
    BY <2>4, <2>5, <2>6
<1>13. AbortsAreSent'
  BY <1>2 DEF AbortsAreSent, clientVars
<1>14. ResponsesAreFinal'
  <2>1. ~ InQueue(ResponseMsg(s), channel[Peer(e)])
    BY <1>5 DEF ResponsesAreFinal, Untouched
  <2> QED
    BY <1>2, <1>7, <2>1 DEF ResponsesAreFinal
<1>15. NoLostCall'
  <2>1. ASSUME NEW f \in Clients, NEW t \in Seqs
        PROVE  NotLost(f, t)'
    <3>1. f \in Ends /\ Peer(f) \in Ends
      BY PeerProps, ClientsAssumption
    <3>2. /\ Requested(f, t) => Requested(f, t)'
          /\ Queued(f, t) => Queued(f, t)' \/ InService(f, t)'
          /\ InService(f, t) => InService(f, t)'
          /\ Ending(f, t) => Ending(f, t)'
          /\ Answered(f, t) => Answered(f, t)'
          /\ EndPosted(f, t) => EndPosted(f, t)'
      BY <1>2, <1>4, <1>7, <3>1
      DEF Requested, Queued, InService, Ending, Answered, EndPosted
    <3> QED
      BY <3>1, <3>2 DEF NoLostCall, NotLost, clientVars
  <2> QED
    BY <2>1 DEF NoLostCall
<1> QED
  BY <1>1, <1>8, <1>9, <1>10, <1>11, <1>12, <1>13, <1>14, <1>15

(* The server takes an abort: its caller has given the call up, so nobody  *)
(* waits for the execution that is forgotten.                              *)
LEMMA TakeAbortInv ==
  ASSUME IInv, NEW e \in Ends, TakeAbort(e), e \in Servers, UNCHANGED clientVars
  PROVE  IInv'
<1> USE DEF IInv
<1>1. TypeOK'
  BY LoopType DEF LoopStep
<1>2. /\ aborts \in [Ends -> Seq(Seqs)] /\ aborts[e] # <<>>
      /\ aborts' = [aborts EXCEPT ![e] = Tail(@)]
      /\ UNCHANGED <<channel, requests, outbox, execution, method, produced>>
  BY DEF TakeAbort, TypeOK, ServiceTypeOK
<1>3. PICK s \in Seqs : s = Head(aborts[e])
  BY <1>2, QueueTail
<1>4. \A f \in Ends, t \in Seqs :
        InQueue(t, aborts[f]) <=> InQueue(t, aborts'[f]) \/ (f = e /\ t = s)
  <2>1. \A x : InQueue(x, aborts[e]) <=> x = s \/ InQueue(x, Tail(aborts[e]))
    BY <1>2, <1>3, QueueTail
  <2> QED
    BY <1>2, <2>1
<1>5. call[Peer(e)][s] \in GivenUp
  BY <1>4 DEF AbortsAreSent
<1>6. /\ \A f \in Ends, t \in Seqs : t \in running'[f] <=> t \in running[f] /\ ~ (f = e /\ t = s)
      /\ \A f \in Ends, t \in Seqs :
           t \in signalled'[f] <=> t \in signalled[f] \/ (f = e /\ t = s /\ s \in running[e])
  BY <1>3 DEF TakeAbort, Forget, TypeOK, ServiceTypeOK
<1>7. Numbering' /\ CallbacksMatchCalls'
  BY DEF Numbering, CallbacksMatchCalls, clientVars
<1>8. RequestsAreFresh' /\ RequestsAreDistinct'
  BY <1>2, <1>6 DEF RequestsAreFresh, RequestsAreDistinct, Untouched, clientVars
<1>9. ExecutionsMatchCalls'
  BY <1>2 DEF ExecutionsMatchCalls, clientVars
<1>10. ExecutionsAreRegistered'
  <2>1. \A f \in Ends, t \in Seqs :
          t \in running[f] \cup signalled[f] => t \in running'[f] \cup signalled'[f]
    BY <1>6
  <2> QED
    BY <1>2, <2>1 DEF ExecutionsAreRegistered
<1>11. RunningIsLive'
  <2>1. \A f \in Ends : running'[f] \subseteq running[f]
    BY <1>1, <1>6 DEF TypeOK, ServiceTypeOK
  <2> QED
    BY <1>2, <2>1 DEF RunningIsLive
<1>12. SignalledAreForgotten'
  <2>1. \A f \in Ends, t \in Seqs : ~ (t \in signalled'[f] /\ t \in running'[f])
    BY <1>6 DEF SignalledAreForgotten
  <2>2. \A f \in Ends : signalled'[f] \subseteq Seqs
    BY <1>1 DEF TypeOK, ServiceTypeOK
  <2> QED
    BY <2>1, <2>2 DEF SignalledAreForgotten
<1>13. AbortsAreSent'
  BY <1>2, <1>4, <1>5, <1>6 DEF AbortsAreSent, clientVars
<1>14. ResponsesAreFinal'
  BY <1>2, <1>6 DEF ResponsesAreFinal
<1>15. NoLostCall'
  <2>1. ASSUME NEW f \in Clients, NEW t \in Seqs
        PROVE  NotLost(f, t)'
    <3>1. f \in Ends /\ Peer(f) \in Ends
      BY PeerProps, ClientsAssumption
    <3>2. CASE Peer(f) = e /\ t = s
      <4>1. call'[f][t] \in GivenUp /\ t \notin streamCallbacks'[f]
        BY <1>5, <3>1, <3>2, PeerProps DEF CallbacksMatchCalls, GivenUp, clientVars
      <4> QED
        BY <4>1 DEF NotLost, GivenUp
    <3>3. CASE Peer(f) # e \/ t # s
      <4>1. /\ Requested(f, t) => Requested(f, t)'
            /\ Queued(f, t) => Queued(f, t)'
            /\ InService(f, t) => InService(f, t)'
            /\ Ending(f, t) => Ending(f, t)'
            /\ Answered(f, t) => Answered(f, t)'
            /\ EndPosted(f, t) => EndPosted(f, t)'
        BY <1>2, <1>6, <3>1, <3>3
        DEF Requested, Queued, InService, Ending, Answered, EndPosted
      <4> QED
        BY <3>1, <4>1 DEF NoLostCall, NotLost, clientVars
    <3> QED
      BY <3>2, <3>3
  <2> QED
    BY <2>1 DEF NoLostCall
<1> QED
  BY <1>1, <1>7, <1>8, <1>9, <1>10, <1>11, <1>12, <1>13, <1>14, <1>15

(* The server posts an item, or posts the end of a stream and forgets it.  *)
LEMMA ForwardInv ==
  ASSUME IInv, NEW e \in Ends, ForwardItem(e) \/ ForwardEnd(e), e \in Servers,
         UNCHANGED clientVars
  PROVE  IInv'
<1> USE DEF IInv
<1>1. TypeOK'
  BY LoopType DEF LoopStep
<1>2. /\ outbox \in [Ends -> Seq(StreamMessage)] /\ outbox[e] # <<>>
      /\ outbox' = [outbox EXCEPT ![e] = Tail(@)]
      /\ channel \in [Ends -> Seq(Message)]
      /\ UNCHANGED <<requests, aborts, execution, method, signalled, produced>>
  BY DEF ForwardItem, ForwardEnd, TypeOK, ServiceTypeOK
<1>3. PICK s \in Seqs, i \in Items \cup {None} : Head(outbox[e]) = Entry(s, i)
  <2>1. Head(outbox[e]) \in StreamMessage
    BY <1>2, QueueTail
  <2> QED
    BY <2>1 DEF StreamMessage, Entry
<1>4. \A f \in Ends, t \in Seqs :
        InQueue(Entry(t, None), outbox[f]) <=>
          InQueue(Entry(t, None), outbox'[f]) \/ (f = e /\ t = s /\ i = None)
  <2>1. \A x : InQueue(x, outbox[e]) <=> x = Entry(s, i) \/ InQueue(x, Tail(outbox[e]))
    BY <1>2, <1>3, QueueTail
  <2>2. \A t : Entry(t, None) = Entry(s, i) <=> t = s /\ i = None
    BY DEF Entry
  <2> QED
    BY <1>2, <2>1, <2>2
<1>5. /\ Head(outbox[e]).seq = s /\ Head(outbox[e]).item = i
  BY <1>3 DEF Entry
<1>6. PICK msg \in Message :
        /\ Post(e, msg) /\ msg.seq = s /\ msg.kind = (IF i = None THEN "StreamEnd" ELSE "StreamItem")
        /\ running' = [running EXCEPT ![e] = IF i = None THEN @ \ {s} ELSE @]
  <2>1. CASE ForwardItem(e)
    <3>1. i \in Items /\ i # None
      BY <1>5, <2>1 DEF ForwardItem
    <3>2. running' = [running EXCEPT ![e] = @] /\ Post(e, ItemMsg(s, i))
      BY <1>5, <2>1 DEF ForwardItem, TypeOK, ServiceTypeOK
    <3> QED
      BY <3>1, <3>2, MessageFacts
  <2>2. CASE ForwardEnd(e)
    <3>1. i = None /\ running' = [running EXCEPT ![e] = @ \ {s}] /\ Post(e, EndMsg(s))
      BY <1>5, <2>2 DEF ForwardEnd, Forget
    <3> QED
      BY <3>1, MessageFacts
  <2> QED
    BY <2>1, <2>2
<1>7. /\ \A f \in Ends, t \in Seqs, n \in Methods :
           InQueue(RequestMsg(t, n), channel'[f]) <=> InQueue(RequestMsg(t, n), channel[f])
      /\ \A f \in Ends, t \in Seqs :
           InQueue(AbortMsg(t), channel'[f]) <=> InQueue(AbortMsg(t), channel[f])
      /\ \A f \in Ends, t \in Seqs :
           InQueue(ResponseMsg(t), channel'[f]) <=> InQueue(ResponseMsg(t), channel[f])
      /\ \A f \in Ends, t \in Seqs :
           InQueue(EndMsg(t), channel'[f]) <=>
             InQueue(EndMsg(t), channel[f]) \/ (f = Peer(e) /\ i = None /\ t = s)
  BY <1>2, <1>6, PostKinds
<1>8. \A f \in Ends, t \in Seqs :
        t \in running'[f] <=> t \in running[f] /\ ~ (f = e /\ t = s /\ i = None)
  BY <1>6 DEF TypeOK, ServiceTypeOK
<1>9. i = None => execution[e][s] \in {"finished", "aborted"}
  BY <1>4 DEF ExecutionsAreRegistered
<1>10. Numbering' /\ CallbacksMatchCalls'
  BY DEF Numbering, CallbacksMatchCalls, clientVars
<1>11. RequestsAreFresh'
  BY <1>2, <1>7, <1>8 DEF RequestsAreFresh, Untouched, clientVars
<1>12. RequestsAreDistinct'
  <2>1. \A f \in Ends : DistinctRequests(channel'[f])
    BY <1>2, <1>6, PostDistinct DEF RequestsAreDistinct
  <2> QED
    BY <1>2, <1>7, <2>1 DEF RequestsAreDistinct
<1>13. ExecutionsMatchCalls'
  BY <1>2 DEF ExecutionsMatchCalls, clientVars
<1>14. ExecutionsAreRegistered'
  <2>1. ASSUME NEW f \in Ends, NEW t \in Seqs, execution[f][t] \in {"called", "forwarding"}
        PROVE  t \in running'[f] \cup signalled[f]
    BY <1>8, <1>9, <2>1 DEF ExecutionsAreRegistered
  <2> QED
    BY <1>2, <1>4, <2>1 DEF ExecutionsAreRegistered
<1>15. RunningIsLive'
  <2>1. ASSUME NEW f \in Ends, NEW t \in running'[f]
        PROVE  execution[f][t] \in {"called", "forwarding"} \/ InQueue(Entry(t, None), outbox'[f])
    <3>1. t \in Seqs
      BY <1>1 DEF TypeOK, ServiceTypeOK
    <3> QED
      BY <1>4, <1>8, <3>1 DEF RunningIsLive
  <2> QED
    BY <1>2, <2>1 DEF RunningIsLive
<1>16. SignalledAreForgotten'
  <2>1. \A f \in Ends : running'[f] \subseteq running[f]
    BY <1>1, <1>8 DEF TypeOK, ServiceTypeOK
  <2> QED
    BY <1>2, <2>1 DEF SignalledAreForgotten
<1>17. AbortsAreSent'
  BY <1>2, <1>7 DEF AbortsAreSent, clientVars
<1>18. ResponsesAreFinal'
  BY <1>2, <1>7, <1>8, PeerProps DEF ResponsesAreFinal
<1>19. NoLostCall'
  <2>1. ASSUME NEW f \in Clients, NEW t \in Seqs
        PROVE  NotLost(f, t)'
    <3>1. f \in Ends /\ Peer(f) \in Ends
      BY PeerProps, ClientsAssumption
    <3>2. /\ Requested(f, t) => Requested(f, t)'
          /\ Queued(f, t) => Queued(f, t)'
          /\ InService(f, t) => InService(f, t)'
          /\ Ending(f, t) => Ending(f, t)' \/ EndPosted(f, t)'
          /\ Answered(f, t) => Answered(f, t)'
          /\ EndPosted(f, t) => EndPosted(f, t)'
      <4>1. Ending(f, t) => Ending(f, t)' \/ EndPosted(f, t)'
        <5>1. CASE Peer(f) = e /\ t = s /\ i = None
          <6>1. f = Peer(e)
            BY <3>1, <5>1, PeerProps
          <6> QED
            BY <1>7, <3>1, <5>1, <6>1 DEF EndPosted
        <5>2. CASE ~ (Peer(f) = e /\ t = s /\ i = None)
          BY <1>4, <1>8, <3>1, <5>2 DEF Ending
        <5> QED
          BY <5>1, <5>2
      <4>2. InService(f, t) => InService(f, t)'
        BY <1>2, <1>8, <1>9, <3>1 DEF InService
      <4> QED
        BY <1>2, <1>7, <3>1, <4>1, <4>2 DEF Requested, Queued, Answered, EndPosted
    <3> QED
      BY <3>1, <3>2 DEF NoLostCall, NotLost, clientVars
  <2> QED
    BY <2>1 DEF NoLostCall
<1> QED
  BY <1>1, <1>10, <1>11, <1>12, <1>13, <1>14, <1>15, <1>16, <1>17, <1>18, <1>19

-----------------------------------------------------------------------------
(* A method that has no stream is over: a caller that still waits for it   *)
(* gets its response in the same step.                                     *)
LEMMA CompleteInv ==
  ASSUME IInv, TypeOK', NEW e \in Ends, NEW s \in Seqs, NEW response \in BOOLEAN,
         NEW status \in {"finished", "aborted"}, Complete(e, s, status, response),
         execution[e][s] = "called", method[e][s] \in NotifyMethods \cup ValueMethods,
         response => status = "finished",
         call[Peer(e)][s] = "pending" => response,
         UNCHANGED clientVars
  PROVE  IInv'
<1> USE DEF IInv
<1>1. /\ channel \in [Ends -> Seq(Message)]
      /\ UNCHANGED <<requests, aborts, outbox, method, signalled, produced>>
  BY DEF Complete, TypeOK
<1>2. /\ execution'[e][s] = status
      /\ \A f \in Ends, t \in Seqs : f # e \/ t # s => execution'[f][t] = execution[f][t]
      /\ \A f \in Ends, t \in Seqs : t \in running'[f] <=> t \in running[f] /\ ~ (f = e /\ t = s)
  BY DEF Complete, SetExecution, Forget, TypeOK, ServiceTypeOK
<1>3. /\ \A f \in Ends, t \in Seqs, n \in Methods :
           InQueue(RequestMsg(t, n), channel'[f]) <=> InQueue(RequestMsg(t, n), channel[f])
      /\ \A f \in Ends, t \in Seqs :
           InQueue(AbortMsg(t), channel'[f]) <=> InQueue(AbortMsg(t), channel[f])
      /\ \A f \in Ends, t \in Seqs :
           InQueue(EndMsg(t), channel'[f]) <=> InQueue(EndMsg(t), channel[f])
      /\ \A f \in Ends, t \in Seqs :
           InQueue(ResponseMsg(t), channel'[f]) <=>
             \/ InQueue(ResponseMsg(t), channel[f])
             \/ f = Peer(e) /\ t = s /\ response /\ s \in running[e]
      /\ \A f \in Ends : DistinctRequests(channel'[f])
  <2>1. CASE response /\ s \in running[e]
    <3>1. /\ Post(e, ResponseMsg(s)) /\ ResponseMsg(s) \in Message
          /\ ResponseMsg(s).kind = "Response" /\ ResponseMsg(s).seq = s
      BY <2>1, MessageFacts DEF Complete
    <3>2. \A f \in Ends : DistinctRequests(channel'[f])
      BY <1>1, <3>1, PostDistinct DEF RequestsAreDistinct
    <3> QED
      BY <1>1, <2>1, <3>1, <3>2, PostKinds
  <2>2. CASE ~ (response /\ s \in running[e])
    <3>1. channel' = channel
      BY <2>2 DEF Complete
    <3> QED
      BY <2>2, <3>1 DEF RequestsAreDistinct
  <2> QED
    BY <2>1, <2>2
<1>4. \A n \in Methods : /\ ~ InQueue(RequestMsg(s, n), channel[e])
                         /\ ~ InQueue([seq |-> s, method |-> n], requests[e])
  BY DEF RequestsAreFresh, Untouched
<1>5. ~ InQueue(Entry(s, None), outbox[e]) /\ ~ InQueue(ResponseMsg(s), channel[Peer(e)])
  BY DEF ExecutionsAreRegistered, ResponsesAreFinal
<1>6. Numbering' /\ CallbacksMatchCalls'
  BY DEF Numbering, CallbacksMatchCalls, clientVars
<1>7. RequestsAreFresh'
  <2>1. ASSUME NEW f \in Ends, NEW t \in Seqs, NEW n \in Methods,
               InQueue(RequestMsg(t, n), channel[f])
                 \/ InQueue([seq |-> t, method |-> n], requests[f])
        PROVE  Untouched(f, t)' /\ call[Peer(f)][t] \in HeldFor(n)
    <3>1. f # e \/ t # s
      BY <1>4, <2>1
    <3>2. Untouched(f, t) /\ call[Peer(f)][t] \in HeldFor(n)
      BY <2>1 DEF RequestsAreFresh
    <3> QED
      BY <1>1, <1>2, <3>1, <3>2 DEF Untouched
  <2> QED
    BY <1>1, <1>3, <2>1 DEF RequestsAreFresh, clientVars
<1>8. RequestsAreDistinct'
  BY <1>1, <1>3 DEF RequestsAreDistinct
<1>9. ExecutionsMatchCalls'
  BY <1>1, <1>2 DEF ExecutionsMatchCalls, clientVars
<1>10. ExecutionsAreRegistered'
  BY <1>1, <1>2, <1>5 DEF ExecutionsAreRegistered
<1>11. RunningIsLive'
  <2>1. ASSUME NEW f \in Ends, NEW t \in running'[f]
        PROVE  execution'[f][t] \in {"called", "forwarding"} \/ InQueue(Entry(t, None), outbox[f])
    <3>1. t \in Seqs
      BY DEF TypeOK, ServiceTypeOK
    <3> QED
      BY <1>2, <3>1 DEF RunningIsLive
  <2> QED
    BY <1>1, <2>1 DEF RunningIsLive
<1>12. SignalledAreForgotten'
  <2>1. \A f \in Ends : running'[f] \subseteq running[f]
    BY <1>2 DEF TypeOK, ServiceTypeOK
  <2> QED
    BY <1>1, <2>1 DEF SignalledAreForgotten
<1>13. AbortsAreSent'
  BY <1>1, <1>3 DEF AbortsAreSent, clientVars
<1>14. ResponsesAreFinal'
  <2>1. ASSUME NEW f \in Ends, NEW t \in Seqs, InQueue(ResponseMsg(t), channel'[Peer(f)])
        PROVE  execution'[f][t] = "finished" /\ t \notin running'[f] /\ t \notin signalled[f]
    <3>1. CASE f = e /\ t = s
      <4>1. response /\ s \in running[e]
        BY <1>3, <1>5, <2>1, <3>1, PeerProps
      <4> QED
        BY <1>2, <3>1, <4>1 DEF SignalledAreForgotten
    <3>2. CASE f # e \/ t # s
      <4>1. InQueue(ResponseMsg(t), channel[Peer(f)])
        BY <1>3, <2>1, <3>2, PeerProps
      <4> QED
        BY <1>2, <3>2, <4>1 DEF ResponsesAreFinal
    <3> QED
      BY <3>1, <3>2
  <2> QED
    BY <1>1, <2>1 DEF ResponsesAreFinal
<1>15. NoLostCall'
  <2>1. ASSUME NEW f \in Clients, NEW t \in Seqs
        PROVE  NotLost(f, t)'
    <3>1. f \in Ends /\ Peer(f) \in Ends
      BY PeerProps, ClientsAssumption
    <3>2. CASE Peer(f) = e /\ t = s
      <4>1. f = Peer(e)
        BY <3>1, <3>2, PeerProps
      <4>2. call[f][t] # "open"
        BY <3>2, <4>1
        DEF ExecutionsMatchCalls, HeldFor, NotifyMethods, ValueMethods
      <4>3. t \notin streamCallbacks'[f]
        BY <3>1, <4>2 DEF CallbacksMatchCalls, clientVars
      <4>4. ASSUME call[f][t] = "pending"
            PROVE  Answered(f, t)'
        <5>1. s \notin signalled[e]
          BY <3>2, <4>1, <4>4 DEF AbortsAreSent, GivenUp
        <5>2. s \in running[e] /\ response
          BY <3>2, <4>1, <4>4, <5>1 DEF ExecutionsAreRegistered
        <5> QED
          BY <1>3, <3>1, <3>2, <4>1, <5>2 DEF Answered
      <4> QED
        BY <4>3, <4>4 DEF NotLost, clientVars
    <3>3. CASE Peer(f) # e \/ t # s
      <4>1. /\ Requested(f, t) => Requested(f, t)'
            /\ Queued(f, t) => Queued(f, t)'
            /\ InService(f, t) => InService(f, t)'
            /\ Ending(f, t) => Ending(f, t)'
            /\ Answered(f, t) => Answered(f, t)'
            /\ EndPosted(f, t) => EndPosted(f, t)'
        BY <1>1, <1>2, <1>3, <3>1, <3>3
        DEF Requested, Queued, InService, Ending, Answered, EndPosted
      <4> QED
        BY <3>1, <4>1 DEF NoLostCall, NotLost, clientVars
    <3> QED
      BY <3>2, <3>3
  <2> QED
    BY <2>1 DEF NoLostCall
<1> QED
  BY <1>6, <1>7, <1>8, <1>9, <1>10, <1>11, <1>12, <1>13, <1>14, <1>15

(* A stream starts, yields an item, or is over: it stays registered, and   *)
(* its end marker takes the place of its execution.                        *)
LEMMA StreamInv ==
  ASSUME IInv, NEW e \in Ends, NEW s \in Seqs,
         StartStream(e, s) \/ ProduceItem(e, s) \/ FinishStream(e, s) \/ AbortStream(e, s),
         UNCHANGED clientVars
  PROVE  IInv'
<1> USE DEF IInv
<1>1. TypeOK'
  BY ExecutionType DEF ExecutionStep
<1>2. UNCHANGED <<channel, requests, aborts, running, method, signalled>>
  BY DEF StartStream, ProduceItem, FinishStream, AbortStream, EndStream
<1>3. PICK status \in {"forwarding", "finished", "aborted"} :
        /\ execution'[e][s] = status
        /\ \A f \in Ends, t \in Seqs : f # e \/ t # s => execution'[f][t] = execution[f][t]
        /\ \A f \in Ends, t \in Seqs :
             InQueue(Entry(t, None), outbox'[f]) <=>
               InQueue(Entry(t, None), outbox[f]) \/ (f = e /\ t = s /\ status # "forwarding")
  <2>1. outbox \in [Ends -> Seq(StreamMessage)] /\ execution \in [Ends -> [Seqs -> ExecutionStates]]
    BY DEF TypeOK, ServiceTypeOK
  <2>2. CASE StartStream(e, s)
    <3>1. outbox' = outbox /\ execution' = [execution EXCEPT ![e][s] = "forwarding"]
      BY <2>2 DEF StartStream, SetExecution
    <3>2. \A f \in Ends, t \in Seqs : f # e \/ t # s => execution'[f][t] = execution[f][t]
      BY <2>1, <3>1
    <3>3. execution'[e][s] = "forwarding"
      BY <2>1, <3>1
    <3> WITNESS "forwarding" \in {"forwarding", "finished", "aborted"}
    <3> QED
      BY <3>1, <3>2, <3>3
  <2>3. CASE ProduceItem(e, s)
    <3>1. /\ execution' = execution /\ execution[e][s] = "forwarding"
          /\ outbox' = [outbox EXCEPT ![e] = Append(@, Entry(s, produced[e][s] + 1))]
          /\ produced[e][s] \in 0 .. MaxItems /\ produced[e][s] < MaxItems
      BY <2>3 DEF ProduceItem, TypeOK, ServiceTypeOK
    <3>2. Entry(s, produced[e][s] + 1) \in StreamMessage /\ produced[e][s] + 1 # None
      BY <3>1, BoundsAssumption DEF Entry, StreamMessage, Items, None
    <3>3. \A x : InQueue(x, Append(outbox[e], Entry(s, produced[e][s] + 1))) <=>
                   InQueue(x, outbox[e]) \/ x = Entry(s, produced[e][s] + 1)
      BY <2>1, <3>2, QueueAppend
    <3>4. \A t : Entry(t, None) # Entry(s, produced[e][s] + 1)
      BY <3>2 DEF Entry
    <3>5. \A f \in Ends, t \in Seqs :
            InQueue(Entry(t, None), outbox'[f]) <=> InQueue(Entry(t, None), outbox[f])
      BY <2>1, <3>1, <3>3, <3>4
    <3> WITNESS "forwarding" \in {"forwarding", "finished", "aborted"}
    <3> QED
      BY <3>1, <3>5
  <2>4. ASSUME NEW how \in {"finished", "aborted"}, EndStream(e, s, how)
        PROVE  /\ execution'[e][s] = how
               /\ \A f \in Ends, t \in Seqs : f # e \/ t # s => execution'[f][t] = execution[f][t]
               /\ \A f \in Ends, t \in Seqs :
                    InQueue(Entry(t, None), outbox'[f]) <=>
                      InQueue(Entry(t, None), outbox[f]) \/ (f = e /\ t = s)
    <3>1. /\ execution' = [execution EXCEPT ![e][s] = how]
          /\ outbox' = [outbox EXCEPT ![e] = Append(@, Entry(s, None))]
      BY <2>4 DEF EndStream, SetExecution
    <3>2. Entry(s, None) \in StreamMessage
      BY DEF Entry, StreamMessage
    <3>3. \A x : InQueue(x, Append(outbox[e], Entry(s, None))) <=>
                   InQueue(x, outbox[e]) \/ x = Entry(s, None)
      BY <2>1, <3>2, QueueAppend
    <3>4. \A t : Entry(t, None) = Entry(s, None) <=> t = s
      BY DEF Entry
    <3>5. \A f \in Ends, t \in Seqs :
            InQueue(Entry(t, None), outbox'[f]) <=>
              InQueue(Entry(t, None), outbox[f]) \/ (f = e /\ t = s)
      BY <2>1, <3>1, <3>3, <3>4
    <3>6. \A f \in Ends, t \in Seqs : f # e \/ t # s => execution'[f][t] = execution[f][t]
      BY <2>1, <3>1
    <3>7. execution'[e][s] = how
      BY <2>1, <3>1
    <3> QED
      BY <3>5, <3>6, <3>7
  <2>5. PICK how \in {"finished", "aborted"} :
          FinishStream(e, s) \/ AbortStream(e, s) => EndStream(e, s, how)
    BY DEF FinishStream, AbortStream
  <2>6. CASE FinishStream(e, s) \/ AbortStream(e, s)
    <3>1. EndStream(e, s, how) /\ how # "forwarding"
      BY <2>5, <2>6
    <3> WITNESS how \in {"forwarding", "finished", "aborted"}
    <3> QED
      BY <2>4, <3>1
  <2> QED
    BY <2>2, <2>3, <2>6
<1>4. execution[e][s] \in {"called", "forwarding"} /\ method[e][s] \in StreamMethods
  BY DEF StartStream, ProduceItem, FinishStream, AbortStream, ExecutionsAreRegistered,
         StreamMethods
<1>5. ~ InQueue(ResponseMsg(s), channel[Peer(e)]) /\ ~ InQueue(Entry(s, None), outbox[e])
  BY <1>4 DEF ResponsesAreFinal, ExecutionsAreRegistered
<1>6. Numbering' /\ CallbacksMatchCalls'
  BY DEF Numbering, CallbacksMatchCalls, clientVars
<1>7. RequestsAreFresh' /\ RequestsAreDistinct'
  <2>1. \A f \in Ends, t \in Seqs : Untouched(f, t) => Untouched(f, t)'
    BY <1>2, <1>3, <1>4 DEF Untouched
  <2> QED
    BY <1>2, <2>1 DEF RequestsAreFresh, RequestsAreDistinct, clientVars
<1>8. ExecutionsMatchCalls'
  BY <1>2, <1>3, <1>4 DEF ExecutionsMatchCalls, clientVars
<1>9. ExecutionsAreRegistered'
  <2>1. ASSUME NEW f \in Ends, NEW t \in Seqs
        PROVE  /\ execution'[f][t] \in {"called", "forwarding"} =>
                    t \in running[f] \cup signalled[f]
               /\ execution'[f][t] = "forwarding" => method[f][t] \in StreamMethods
               /\ InQueue(Entry(t, None), outbox'[f]) =>
                    /\ execution'[f][t] \in {"finished", "aborted"}
                    /\ method[f][t] \in StreamMethods
    <3>1. CASE f = e /\ t = s
      BY <1>3, <1>4, <1>5, <3>1 DEF ExecutionsAreRegistered
    <3>2. CASE f # e \/ t # s
      BY <1>3, <3>2 DEF ExecutionsAreRegistered
    <3> QED
      BY <3>1, <3>2
  <2> QED
    BY <1>2, <2>1 DEF ExecutionsAreRegistered
<1>10. RunningIsLive'
  <2>1. ASSUME NEW f \in Ends, NEW t \in running[f]
        PROVE  execution'[f][t] \in {"called", "forwarding"} \/ InQueue(Entry(t, None), outbox'[f])
    <3>1. t \in Seqs
      BY DEF TypeOK, ServiceTypeOK
    <3> QED
      BY <1>3, <3>1 DEF RunningIsLive
  <2> QED
    BY <1>2, <2>1 DEF RunningIsLive
<1>11. SignalledAreForgotten' /\ AbortsAreSent'
  BY <1>2 DEF SignalledAreForgotten, AbortsAreSent, clientVars
<1>12. ResponsesAreFinal'
  BY <1>2, <1>3, <1>5 DEF ResponsesAreFinal
<1>13. NoLostCall'
  <2>1. ASSUME NEW f \in Clients, NEW t \in Seqs
        PROVE  NotLost(f, t)'
    <3>1. f \in Ends /\ Peer(f) \in Ends
      BY PeerProps, ClientsAssumption
    <3>2. /\ Requested(f, t) => Requested(f, t)'
          /\ Queued(f, t) => Queued(f, t)'
          /\ Ending(f, t) => Ending(f, t)'
          /\ Answered(f, t) => Answered(f, t)'
          /\ EndPosted(f, t) => EndPosted(f, t)'
      BY <1>2, <1>3, <3>1 DEF Requested, Queued, Ending, Answered, EndPosted
    <3>3. InService(f, t) => InService(f, t)' \/ (Ending(f, t)' /\ Peer(f) = e /\ t = s)
      BY <1>2, <1>3, <3>1 DEF InService, Ending
    <3>4. Peer(f) = e /\ t = s => call[f][t] # "pending"
      BY <1>4, <3>1, PeerProps
      DEF ExecutionsMatchCalls, HeldFor, NotifyMethods, ValueMethods, StreamMethods
    <3> QED
      BY <3>1, <3>2, <3>3, <3>4 DEF NoLostCall, NotLost, clientVars
  <2> QED
    BY <2>1 DEF NoLostCall
<1> QED
  BY <1>1, <1>6, <1>7, <1>8, <1>9, <1>10, <1>11, <1>12, <1>13

-----------------------------------------------------------------------------
(* Every step of a server keeps the invariant.                             *)
LEMMA ServiceInv ==
  ASSUME IInv, NEW e \in Ends, ServiceStep(e), UNCHANGED clientVars
  PROVE  IInv'
<1>1. e \in Servers
  BY DEF ServiceStep
<1>2. CASE LoopStep(e)
  BY <1>1, <1>2, TakeRequestInv, TakeAbortInv, ForwardInv DEF LoopStep
<1>3. ASSUME NEW s \in Seqs, ExecutionStep(e, s)
      PROVE  IInv'
  <2>1. TypeOK' /\ TypeOK
    BY <1>3, ExecutionType DEF IInv
  <2>2. s \in signalled[e] => call[Peer(e)][s] # "pending"
    BY DEF IInv, AbortsAreSent, GivenUp
  <2>3. execution[e][s] = "called" /\ method[e][s] \in NotifyMethods =>
          call[Peer(e)][s] # "pending"
    BY DEF IInv, ExecutionsMatchCalls, HeldFor
  <2>4. CASE FinishNotify(e, s)
    <3>1. /\ Complete(e, s, "finished", FALSE) /\ execution[e][s] = "called"
          /\ method[e][s] \in NotifyMethods
      BY <2>4 DEF FinishNotify
    <3> QED
      BY <2>1, <2>3, <3>1, CompleteInv
  <2>5. CASE FinishValue(e, s)
    <3>1. /\ Complete(e, s, "finished", TRUE) /\ execution[e][s] = "called"
          /\ method[e][s] \in ValueMethods
      BY <2>5 DEF FinishValue
    <3> QED
      BY <2>1, <3>1, CompleteInv
  <2>6. CASE AbortValue(e, s)
    <3>1. /\ Complete(e, s, "aborted", FALSE) /\ execution[e][s] = "called"
          /\ method[e][s] \in ValueMethods /\ s \in signalled[e]
      BY <2>6 DEF AbortValue, ValueMethods
    <3> QED
      BY <2>1, <2>2, <3>1, CompleteInv
  <2> QED
    BY <1>3, <2>4, <2>5, <2>6, StreamInv DEF ExecutionStep
<1> QED
  BY <1>2, <1>3 DEF ServiceStep

(* Nothing has been called, sent or registered to begin with.              *)
LEMMA InitInv == Init => IInv
<1> SUFFICES ASSUME Init PROVE IInv
  OBVIOUS
<1>1. TypeOK
  BY InitType
<1>2. \A e \in Ends, s \in Seqs :
        /\ call[e][s] = "idle" /\ execution[e][s] = "none" /\ sequence[e] = 0
        /\ running[e] = {} /\ signalled[e] = {} /\ callbacks[e] = {} /\ streamCallbacks[e] = {}
  BY DEF Init, ClientInit, ServiceInit
<1>3. \A e \in Ends : /\ channel[e] = <<>> /\ requests[e] = <<>> /\ aborts[e] = <<>>
                      /\ outbox[e] = <<>> /\ sequence[e] = 0
                      /\ running[e] = {} /\ signalled[e] = {}
  BY DEF Init, ClientInit, ServiceInit
<1>4. \A x : ~ InQueue(x, <<>>)
  BY DEF InQueue
<1>5. Numbering /\ CallbacksMatchCalls /\ ExecutionsMatchCalls
  BY <1>2, <1>3 DEF Numbering, CallbacksMatchCalls, ExecutionsMatchCalls
<1>6. RequestsAreFresh /\ AbortsAreSent /\ ResponsesAreFinal
  BY <1>3, <1>4, PeerProps DEF RequestsAreFresh, AbortsAreSent, ResponsesAreFinal
<1>7. RequestsAreDistinct
  <2>1. DistinctRequests(<<>>) /\ DistinctCalls(<<>>)
    BY DEF DistinctRequests, DistinctCalls
  <2> QED
    BY <1>3, <1>4, <2>1 DEF RequestsAreDistinct
<1>8. ExecutionsAreRegistered /\ RunningIsLive /\ SignalledAreForgotten
  BY <1>2, <1>3, <1>4 DEF ExecutionsAreRegistered, RunningIsLive, SignalledAreForgotten
<1>9. NoLostCall
  BY <1>2, ClientsAssumption DEF NoLostCall, NotLost
<1> QED
  BY <1>1, <1>5, <1>6, <1>7, <1>8, <1>9 DEF IInv

(* One step of the whole connection keeps the invariant.                   *)
LEMMA StepInv == IInv /\ [Next]_vars => IInv'
<1> SUFFICES ASSUME IInv, [Next]_vars PROVE IInv'
  OBVIOUS
<1>1. CASE UNCHANGED vars
  <2>1. TypeOK'
    BY StepType DEF IInv
  <2> USE <1>1 DEF vars, IInv
  <2>2. Numbering' /\ CallbacksMatchCalls'
    BY DEF Numbering, CallbacksMatchCalls
  <2>3. RequestsAreFresh' /\ RequestsAreDistinct'
    BY DEF RequestsAreFresh, RequestsAreDistinct, Untouched
  <2>4. ExecutionsMatchCalls' /\ ExecutionsAreRegistered' /\ RunningIsLive'
    BY DEF ExecutionsMatchCalls, ExecutionsAreRegistered, RunningIsLive
  <2>5. AbortsAreSent' /\ ResponsesAreFinal' /\ SignalledAreForgotten'
    BY DEF AbortsAreSent, ResponsesAreFinal, SignalledAreForgotten
  <2>6. NoLostCall'
    BY DEF NoLostCall, NotLost, Requested, Queued, InService, Ending, Answered, EndPosted
  <2> QED
    BY <2>1, <2>2, <2>3, <2>4, <2>5, <2>6
<1>2. CASE \E e \in Ends : NewCall(e) /\ UNCHANGED serviceVars
  BY <1>2, NewCallInv
<1>3. CASE \E e \in Ends, s \in Seqs : CallerStep(e, s) /\ UNCHANGED serviceVars
  BY <1>3, CallerInv
<1>4. CASE \E e \in Ends : Dispatch(e)
  BY <1>4, DispatchRequestInv, DispatchAbortInv, DispatchClientInv DEF Dispatch
<1>5. CASE \E e \in Ends : ServiceStep(e) /\ UNCHANGED clientVars
  BY <1>5, ServiceInv
<1>6. CASE Settled
  BY <1>1, <1>6 DEF Settled
<1> QED
  BY <1>1, <1>2, <1>3, <1>4, <1>5, <1>6 DEF Next, InterfaceStep

-----------------------------------------------------------------------------
(* The invariant holds of every reachable state.                           *)
THEOREM Invariant == Spec => []IInv
BY InitInv, StepInv, PTL DEF Spec

(* A caller that waits always has its request, its execution, its end      *)
(* marker or its answer on the way: the select! loop, the dispatcher and   *)
(* the aborts of other calls never lose a call.                            *)
THEOREM CallsAreNeverLost == Spec => []NoLostCall
<1>1. IInv => NoLostCall
  BY DEF IInv
<1> QED
  BY <1>1, Invariant, PTL

(* The maps of State hold exactly the calls somebody still waits for.      *)
THEOREM CallbacksAreExact == Spec => []CallbacksMatchCalls
<1>1. IInv => CallbacksMatchCalls
  BY DEF IInv
<1> QED
  BY <1>1, Invariant, PTL

(* The running map of the service task leaks no entry.                     *)
THEOREM RunningNeverLeaks == Spec => []RunningIsLive
<1>1. IInv => RunningIsLive
  BY DEF IInv
<1> QED
  BY <1>1, Invariant, PTL

(* No execution is aborted unless its own caller gave the call up.         *)
THEOREM OnlyWantedAborts == Spec => []AbortsAreWanted
<1>1. ASSUME IInv PROVE AbortsAreWanted
  <2>1. \A e \in Ends : signalled[e] \subseteq Seqs
    BY <1>1 DEF IInv, TypeOK, ServiceTypeOK
  <2> QED
    BY <1>1, <2>1 DEF IInv, AbortsAreSent, AbortsAreWanted, GivenUp
<1> QED
  BY <1>1, Invariant, PTL

(* A signalled call is never answered, although its method may complete.   *)
THEOREM AbortedStaysSilent == Spec => []AbortedIsSilent
<1>1. ASSUME IInv PROVE AbortedIsSilent
  <2>1. ASSUME NEW e \in Ends, NEW s \in signalled[e]
        PROVE  s \notin running[e] /\ ~ InQueue(ResponseMsg(s), channel[Peer(e)])
    <3>1. s \in Seqs
      BY <1>1 DEF IInv, TypeOK, ServiceTypeOK
    <3> QED
      BY <1>1, <3>1 DEF IInv, SignalledAreForgotten, ResponsesAreFinal
  <2> QED
    BY <2>1 DEF AbortedIsSilent
<1> QED
  BY <1>1, Invariant, PTL
=============================================================================
