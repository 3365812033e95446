--------------------------- MODULE HandshakeProofs --------------------------
(***************************************************************************)
(* No data is posted to an end that does not listen, and none reaches an   *)
(* end before it is ready: whatever the order in which the ends start, the *)
(* events that are lost, and the number of nulls and data messages.        *)
(***************************************************************************)
EXTENDS HandshakeInv, PeersProofs

-----------------------------------------------------------------------------
(* What is in a queue after messages were posted to it, and its head.      *)
LEMMA QueueConcat ==
  ASSUME NEW S, NEW q \in Seq(S), NEW r \in Seq(S)
  PROVE  /\ q \o r \in Seq(S)
         /\ \A x : InQueue(x, q \o r) <=> InQueue(x, q) \/ InQueue(x, r)
         /\ q # <<>> => q \o r # <<>> /\ Head(q \o r) = Head(q)
         /\ q = <<>> => q \o r = r
<1>1. /\ q \o r \in Seq(S) /\ Len(q) \in Nat /\ Len(r) \in Nat
      /\ DOMAIN q = 1 .. Len(q) /\ DOMAIN r = 1 .. Len(r)
      /\ DOMAIN (q \o r) = 1 .. Len(q) + Len(r)
      /\ \A i \in 1 .. Len(q) : (q \o r)[i] = q[i]
      /\ \A i \in 1 .. Len(r) : (q \o r)[Len(q) + i] = r[i]
  OBVIOUS
<1>2. ASSUME NEW x, InQueue(x, q \o r)
      PROVE  InQueue(x, q) \/ InQueue(x, r)
  <2>1. PICK i \in 1 .. Len(q) + Len(r) : (q \o r)[i] = x
    BY <1>1, <1>2 DEF InQueue
  <2>2. CASE i \in 1 .. Len(q)
    BY <1>1, <2>1, <2>2 DEF InQueue
  <2>3. CASE i \notin 1 .. Len(q)
    <3>1. i - Len(q) \in 1 .. Len(r) /\ Len(q) + (i - Len(q)) = i
      BY <1>1, <2>3
    <3>2. r[i - Len(q)] = x
      BY <1>1, <2>1, <3>1
    <3> QED
      BY <1>1, <3>1, <3>2 DEF InQueue
  <2> QED
    BY <2>2, <2>3
<1>3. ASSUME NEW x, InQueue(x, q)
      PROVE  InQueue(x, q \o r)
  <2>1. PICK i \in 1 .. Len(q) : q[i] = x
    BY <1>1, <1>3 DEF InQueue
  <2>2. i \in 1 .. Len(q) + Len(r) /\ (q \o r)[i] = x
    BY <1>1, <2>1
  <2> QED
    BY <1>1, <2>2 DEF InQueue
<1>4. ASSUME NEW x, InQueue(x, r)
      PROVE  InQueue(x, q \o r)
  <2>1. PICK i \in 1 .. Len(r) : r[i] = x
    BY <1>1, <1>4 DEF InQueue
  <2>2. Len(q) + i \in 1 .. Len(q) + Len(r) /\ (q \o r)[Len(q) + i] = x
    BY <1>1, <2>1
  <2> QED
    BY <1>1, <2>2 DEF InQueue
<1>5. q # <<>> => q \o r # <<>> /\ Head(q \o r) = Head(q)
  <2> SUFFICES ASSUME q # <<>> PROVE q \o r # <<>> /\ Head(q \o r) = Head(q)
    OBVIOUS
  <2>1. Len(q) > 0 /\ Len(q \o r) = Len(q) + Len(r)
    OBVIOUS
  <2> QED
    BY <1>1, <2>1
<1>6. q = <<>> => q \o r = r
  OBVIOUS
<1> QED
  BY <1>1, <1>2, <1>3, <1>4, <1>5, <1>6

(* A queue of one message.                                                 *)
LEMMA QueueOne == \A S : \A y \in S : <<y>> \in Seq(S) /\ Head(<<y>>) = y /\ <<y>> # <<>>
                                       /\ \A x : InQueue(x, <<y>>) <=> x = y
BY DEF InQueue

-----------------------------------------------------------------------------
Msgs == {Null} \cup Data

(* What a post adds to the channels.                                       *)
LEMMA PostAdds ==
  ASSUME channel \in [Ends -> Seq(Msgs)], NEW e \in Ends, NEW new \in Seq(Msgs), Post(e, new)
  PROVE  /\ channel' \in [Ends -> Seq(Msgs)]
         /\ channel'[Peer(e)] = channel[Peer(e)] \o new
         /\ \A f \in Ends : f # Peer(e) => channel'[f] = channel[f]
<1>1. Peer(e) \in Ends /\ channel[Peer(e)] \in Seq(Msgs)
  BY PeerProps
<1>2. channel[Peer(e)] \o new \in Seq(Msgs)
  BY <1>1
<1> QED
  BY <1>1, <1>2 DEF Post

(* What a listener's turn does to them.                                    *)
LEMMA TakeAndPostEffect ==
  ASSUME channel \in [Ends -> Seq(Msgs)], NEW e \in Ends, NEW new \in Seq(Msgs),
         channel[e] # <<>>, TakeAndPost(e, new)
  PROVE  /\ channel' \in [Ends -> Seq(Msgs)]
         /\ channel'[e] = Tail(channel[e])
         /\ channel'[Peer(e)] = channel[Peer(e)] \o new
         /\ \A x : InQueue(x, channel'[e]) => InQueue(x, channel[e])
<1>1. Peer(e) \in Ends /\ Peer(e) # e /\ channel[Peer(e)] \in Seq(Msgs) /\ channel[e] \in Seq(Msgs)
  BY PeerProps
<1>2. channel[Peer(e)] \o new \in Seq(Msgs)
  BY <1>1
<1>3. /\ Tail(channel[e]) \in Seq(Msgs)
      /\ \A x : InQueue(x, Tail(channel[e])) => InQueue(x, channel[e])
  BY <1>1, QueueTail
<1> QED
  BY <1>1, <1>2, <1>3 DEF TakeAndPost

(* An end and its peer are all there is.                                   *)
LEMMA TwoEnds == \A e, f \in Ends : f = e \/ f = Peer(e)
BY EndsAssumption, PeerProps

(* The end that answers a null, or resumes after one, becomes ready.       *)
LEMMA BecomeReady ==
  ASSUME HandshakeInvariant, NEW e \in Ends, phase[e] \in {"polling", "woken"},
         Listening(Peer(e)),
         NEW data \in Seq(Data),
         phase' = [phase EXCEPT ![e] = "ready"],
         channel' \in [Ends -> Seq(Msgs)],
         channel'[Peer(e)] = channel[Peer(e)] \o (<<Null>> \o data),
         \A x : InQueue(x, channel'[e]) => InQueue(x, channel[e])
  PROVE  SendersListen' /\ DataIsFromReady' /\ NullComesFirst'
<1> USE DEF HandshakeInvariant
<1>1. PICK p \in Ends : p = Peer(e) /\ p # e /\ Peer(p) = e
  BY PeerProps
<1>2. phase'[e] = "ready" /\ phase'[p] = phase[p] /\ phase[p] # "absent"
  BY <1>1 DEF TypeOK, Listening
<1>3. channel[p] \in Seq(Msgs) /\ channel[e] \in Seq(Msgs) /\ <<Null>> \o data \in Seq(Msgs)
      /\ data \in Seq(Msgs) /\ <<Null>> \in Seq(Msgs)
  BY <1>1 DEF TypeOK, Msgs
<1>4. ~ HasData(channel[p])
  BY <1>1 DEF DataIsFromReady
<1>5. channel[p] # <<>> => Head(channel[p]) = Null
  <2> SUFFICES ASSUME channel[p] # <<>> PROVE Head(channel[p]) = Null
    OBVIOUS
  <2>1. Head(channel[p]) \in Msgs /\ InQueue(Head(channel[p]), channel[p])
    BY <1>3, QueueTail
  <2> QED
    BY <1>4, <2>1 DEF HasData, Msgs
<1>6. channel'[p] # <<>> /\ Head(channel'[p]) = Null
  <2>1. <<Null>> \o data # <<>> /\ Head(<<Null>> \o data) = Null
    BY <1>3, QueueConcat
  <2>2. PICK q \in Seq(Msgs), r \in Seq(Msgs) : q = channel[p] /\ r = <<Null>> \o data
    BY <1>3
  <2>3. /\ q # <<>> => q \o r # <<>> /\ Head(q \o r) = Head(q)
        /\ q = <<>> => q \o r = r
    BY QueueConcat
  <2>4. channel'[p] = q \o r
    BY <1>1, <2>2
  <2> QED
    BY <1>5, <2>1, <2>2, <2>3, <2>4
<1>7. SendersListen'
  <2>1. Listening(e)' /\ Listening(p)'
    BY <1>2 DEF Listening
  <2> QED
    BY <1>1, <2>1, TwoEnds DEF SendersListen, Listening
<1>8. DataIsFromReady'
  <2>1. HasData(channel'[e]) => HasData(channel[e])
    BY DEF HasData
  <2>2. HasData(channel'[e]) => phase'[p] = "ready"
    BY <1>1, <1>2, <2>1 DEF DataIsFromReady
  <2> QED
    BY <1>1, <1>2, <2>2, TwoEnds DEF DataIsFromReady
<1>9. NullComesFirst'
  BY <1>1, <1>2, <1>6, TwoEnds DEF NullComesFirst
<1> QED
  BY <1>7, <1>8, <1>9

(* The queued sends that run are all of data.                              *)
LEMMA RunKeepsData ==
  ASSUME NEW q \in Seq({Unclonable} \cup Data), NEW k \in 0 .. Len(q), RunsTo(q, k)
  PROVE  Run(q, k) \in Seq(Data)
<1>1. /\ Len(SubSeq(q, 1, k)) = k /\ DOMAIN SubSeq(q, 1, k) = 1 .. k
      /\ \A i \in 1 .. k : SubSeq(q, 1, k)[i] = q[i] /\ q[i] \in {Unclonable} \cup Data
      /\ SubSeq(q, 1, k) \in Seq({Unclonable} \cup Data)
  OBVIOUS
<1>2. \A i \in 1 .. k : SubSeq(q, 1, k)[i] \in Data
  BY <1>1 DEF RunsTo
<1> QED
  BY <1>1, <1>2 DEF Run

-----------------------------------------------------------------------------
(* Types.                                                                  *)
LEMMA HandshakeTypes == TypeOK /\ [Next]_vars => TypeOK'
<1> SUFFICES ASSUME TypeOK, [Next]_vars PROVE TypeOK'
  OBVIOUS
<1>0. jsEnds' = jsEnds /\ mayThrow' = mayThrow
  BY DEF Next, vars, programs
<1> USE <1>0 DEF TypeOK
<1>1. CASE UNCHANGED moving
  BY <1>1 DEF moving
<1>2. channel \in [Ends -> Seq(Msgs)] /\ <<Null>> \in Seq(Msgs) /\ <<>> \in Seq(Msgs)
  BY DEF Msgs
<1>3. ASSUME channel' \in [Ends -> Seq(Msgs)]
      PROVE  channel' \in [Ends -> Seq({Null} \cup Data)]
  BY <1>3 DEF Msgs
<1>4. ASSUME NEW e \in Ends, NEW s \in Seq(Msgs), Post(e, s)
      PROVE  channel' \in [Ends -> Seq({Null} \cup Data)]
  BY <1>2, <1>3, <1>4, PostAdds
<1>5. ASSUME NEW e \in Ends, NEW s \in Seq(Msgs), TakeAndPost(e, s), channel[e] # <<>>
      PROVE  channel' \in [Ends -> Seq({Null} \cup Data)]
  BY <1>2, <1>3, <1>5, TakeAndPostEffect
<1>6. ASSUME NEW e \in Ends, sent[e] < MaxData
      PROVE  /\ sent[e] + 1 \in Data /\ sent[e] + 1 \in 0 .. MaxData
             /\ <<sent[e] + 1>> \in Seq(Msgs)
             /\ Append(queued[e], sent[e] + 1) \in Seq({Unclonable} \cup Data)
  <2>1. sent[e] + 1 \in Data /\ sent[e] + 1 \in 0 .. MaxData
    BY <1>6, DataAssumption DEF Data
  <2>2. queued[e] \in Seq({Unclonable} \cup Data)
    OBVIOUS
  <2>3. Append(queued[e], sent[e] + 1) \in Seq({Unclonable} \cup Data)
    BY <2>1, <2>2, QueueAppend
  <2> QED
    BY <2>1, <2>3 DEF Msgs
<1>7. ASSUME NEW e \in Ends, Attach(e) \/ Repoll(e) \/ Resume(e)
      PROVE  TypeOK'
  BY <1>2, <1>4, <1>7 DEF Attach, Repoll, Resume, SetPhase, Phases
<1>8. ASSUME NEW e \in Ends, LoseEvent(e)
      PROVE  TypeOK'
  <2>1. Tail(channel[e]) \in Seq({Null} \cup Data)
    BY <1>8, QueueTail DEF LoseEvent
  <2> QED
    BY <1>8, <2>1 DEF LoseEvent
<1>9. ASSUME NEW e \in Ends, OnNullRust(e)
      PROVE  TypeOK'
  BY <1>2, <1>5, <1>9 DEF OnNullRust, SetPhase, Phases
<1>10. ASSUME NEW e \in Ends, OnNullJs(e)
       PROVE  TypeOK'
  <2>1. CASE phase[e] = "polling"
    <3>1. PICK k \in 0 .. Len(queued[e]) :
            RunsTo(queued[e], k) /\ TakeAndPost(e, <<Null>> \o Run(queued[e], k))
      BY <1>10, <2>1 DEF OnNullJs
    <3>2. Run(queued[e], k) \in Seq(Data)
      BY <3>1, RunKeepsData
    <3>3. <<Null>> \o Run(queued[e], k) \in Seq(Msgs)
      BY <3>2 DEF Msgs
    <3>4. channel' \in [Ends -> Seq({Null} \cup Data)]
      BY <1>5, <1>10, <3>1, <3>3 DEF OnNullJs
    <3>5. arrived[e] \o inbox[e] \in Seq(Data) /\ <<>> \in Seq(Data)
      OBVIOUS
    <3>6. <<>> \in Seq({Unclonable} \cup Data)
      OBVIOUS
    <3>7. /\ sent' = sent /\ phase' = [phase EXCEPT ![e] = "ready"]
          /\ queued' = [queued EXCEPT ![e] = <<>>]
          /\ \/ inbox' = inbox /\ arrived' = arrived
             \/ /\ arrived' = [arrived EXCEPT ![e] = arrived[e] \o inbox[e]]
                /\ inbox' = [inbox EXCEPT ![e] = <<>>]
      BY <1>10, <2>1 DEF OnNullJs, SetPhase
    <3> QED
      BY <3>4, <3>5, <3>6, <3>7 DEF Phases
  <2>2. CASE phase[e] # "polling"
    BY <1>2, <1>5, <1>10, <2>2 DEF OnNullJs
  <2> QED
    BY <2>1, <2>2
<1>11. ASSUME NEW e \in Ends, OnData(e)
       PROVE  TypeOK'
  <2>1. Head(channel[e]) \in Data
    BY <1>2, <1>11, QueueTail DEF OnData, Msgs
  <2>2. Append(inbox[e], Head(channel[e])) \in Seq(Data)
        /\ Append(arrived[e], Head(channel[e])) \in Seq(Data)
    BY <2>1, QueueAppend
  <2> QED
    BY <1>2, <1>5, <1>11, <2>2 DEF OnData
<1>12. ASSUME NEW e \in Ends, SendNow(e) \/ SendLater(e)
       PROVE  TypeOK'
  BY <1>4, <1>6, <1>12 DEF SendNow, SendLater
<1>13. ASSUME NEW e \in Ends, SendUnclonable(e)
       PROVE  TypeOK'
  <2>1. Append(queued[e], Unclonable) \in Seq({Unclonable} \cup Data)
    BY QueueAppend
  <2> QED
    BY <1>13, <2>1 DEF SendUnclonable
<1> QED
  BY <1>1, <1>7, <1>8, <1>9, <1>10, <1>11, <1>12, <1>13 DEF Next, Listen, Send, Settled, vars

-----------------------------------------------------------------------------
(* A post by a listening end that does not change its phase, or only       *)
(* starts it: nulls, or data of an end that is ready.                      *)
LEMMA PostKeeps ==
  ASSUME HandshakeInvariant, NEW e \in Ends, NEW y \in Msgs, Post(e, <<y>>),
         y = Null \/ phase[e] = "ready",
         NEW p \in {"polling", "ready"}, phase' = [phase EXCEPT ![e] = p],
         p = phase[e] \/ (p = "polling" /\ phase[e] = "absent")
  PROVE  SendersListen' /\ DataIsFromReady' /\ NullComesFirst'
<1> USE DEF HandshakeInvariant
<1>1. PICK f \in Ends : f = Peer(e) /\ f # e /\ Peer(f) = e
  BY PeerProps
<1>2. phase'[e] = p /\ phase'[f] = phase[f]
  BY <1>1 DEF TypeOK
<1>3. PICK q \in Seq(Msgs) : q = channel[f]
  BY DEF TypeOK, Msgs
<1>4. /\ channel'[f] = q \o <<y>> /\ channel'[e] = channel[e]
  BY <1>1, <1>3, QueueOne, PostAdds DEF TypeOK, Msgs
<1>5. /\ q # <<>> => Head(q \o <<y>>) = Head(q)
      /\ q \o <<y>> # <<>>
      /\ \A x : InQueue(x, q \o <<y>>) <=> InQueue(x, q) \/ x = y
  <2>1. PICK one \in Seq(Msgs) : one = <<y>> /\ one # <<>> /\ \A x : InQueue(x, one) <=> x = y
    BY QueueOne
  <2>2. /\ \A x : InQueue(x, q \o one) <=> InQueue(x, q) \/ InQueue(x, one)
        /\ q # <<>> => q \o one # <<>> /\ Head(q \o one) = Head(q)
        /\ q = <<>> => q \o one = one
    BY QueueConcat
  <2> QED
    BY <2>1, <2>2
<1>6. SendersListen'
  BY <1>1, <1>2, <1>4, TwoEnds DEF SendersListen, Listening
<1>7. DataIsFromReady'
  <2>1. HasData(channel'[f]) => HasData(channel[f]) \/ phase[e] = "ready"
    BY <1>3, <1>4, <1>5 DEF HasData, Data, Null
  <2>2. phase[f] = "ready" => phase'[f] = "ready"
    BY <1>2
  <2> QED
    BY <1>1, <1>2, <1>4, <2>1, TwoEnds DEF DataIsFromReady
<1>8. NullComesFirst'
  <2>1. CASE p = phase[e]
    <3>1. phase'[f] = "polling" /\ phase'[e] = "ready" =>
            channel'[f] # <<>> /\ Head(channel'[f]) = Null
      BY <1>1, <1>2, <1>3, <1>4, <1>5, <2>1 DEF NullComesFirst
    <3> QED
      BY <1>1, <1>2, <1>4, <2>1, <3>1, TwoEnds DEF NullComesFirst
  <2>2. CASE p = "polling" /\ phase[e] = "absent"
    <3>1. phase[f] # "ready"
      BY <1>1, <2>2 DEF SendersListen, Listening
    <3> QED
      BY <1>1, <1>2, <2>2, <3>1, TwoEnds DEF NullComesFirst
  <2> QED
    BY <2>1, <2>2
<1> QED
  BY <1>6, <1>7, <1>8

(* An event taken from the channel of an end that no longer polls, or does *)
(* not listen.                                                             *)
LEMMA TakeKeeps ==
  ASSUME HandshakeInvariant, NEW e \in Ends, NEW p \in Phases, p # "polling",
         phase' = [phase EXCEPT ![e] = p],
         p = phase[e] \/ (p = "woken" /\ phase[e] = "polling" /\ Listening(Peer(e))),
         channel'[Peer(e)] = channel[Peer(e)],
         channel[e] # <<>>,
         \A x : InQueue(x, channel'[e]) => InQueue(x, channel[e])
  PROVE  SendersListen' /\ DataIsFromReady' /\ NullComesFirst'
<1> USE DEF HandshakeInvariant
<1>1. PICK f \in Ends : f = Peer(e) /\ f # e /\ Peer(f) = e
  BY PeerProps
<1>2. phase'[e] = p /\ phase'[f] = phase[f] /\ channel'[f] = channel[f]
  BY <1>1 DEF TypeOK
<1>3. Listening(f)
  BY <1>1 DEF SendersListen
<1>4. SendersListen'
  BY <1>1, <1>2, <1>3, TwoEnds DEF SendersListen, Listening
<1>5. DataIsFromReady'
  <2>1. HasData(channel'[e]) => HasData(channel[e])
    BY DEF HasData
  <2> QED
    BY <1>1, <1>2, <2>1, TwoEnds DEF DataIsFromReady
<1>6. NullComesFirst'
  BY <1>1, <1>2, TwoEnds DEF NullComesFirst
<1> QED
  BY <1>4, <1>5, <1>6

(* Every step keeps the invariant.                                         *)
LEMMA HandshakeStep == HandshakeInvariant /\ [Next]_vars => HandshakeInvariant'
<1> SUFFICES ASSUME HandshakeInvariant, [Next]_vars PROVE HandshakeInvariant'
  OBVIOUS
<1> USE DEF HandshakeInvariant
<1>1. TypeOK'
  BY HandshakeTypes
<1>2. channel \in [Ends -> Seq(Msgs)] /\ <<Null>> \in Seq(Msgs) /\ <<>> \in Seq(Msgs)
      /\ Null \in Msgs
  BY DEF TypeOK, Msgs
<1>3. CASE UNCHANGED moving
  BY <1>1, <1>3
  DEF moving, SendersListen, DataIsFromReady, NullComesFirst, InboxStaysEmpty, HasData, InQueue,
      Listening
<1>4. ASSUME NEW e \in Ends, Attach(e)
      PROVE  HandshakeInvariant'
  BY <1>1, <1>2, <1>4, PostKeeps DEF Attach, SetPhase, InboxStaysEmpty
<1>5. ASSUME NEW e \in Ends, Repoll(e)
      PROVE  HandshakeInvariant'
  <2>1. phase' = [phase EXCEPT ![e] = "polling"]
    BY <1>5 DEF Repoll, TypeOK
  <2> QED
    BY <1>1, <1>2, <1>5, <2>1, PostKeeps DEF Repoll, InboxStaysEmpty
<1>6. ASSUME NEW e \in Ends, LoseEvent(e)
      PROVE  HandshakeInvariant'
  <2>1. /\ phase' = [phase EXCEPT ![e] = "absent"] /\ phase[e] = "absent"
        /\ channel'[Peer(e)] = channel[Peer(e)] /\ channel[e] # <<>>
        /\ channel'[e] = Tail(channel[e])
    BY <1>2, <1>6, PeerProps DEF LoseEvent, TypeOK
  <2>2. \A x : InQueue(x, channel'[e]) => InQueue(x, channel[e])
    BY <1>2, <2>1, QueueTail
  <2> QED
    BY <1>1, <1>6, <2>1, <2>2, TakeKeeps DEF LoseEvent, Phases, InboxStaysEmpty
<1>7. ASSUME NEW e \in Ends, channel[e] # <<>>, TakeAndPost(e, <<>>)
      PROVE  /\ channel'[Peer(e)] = channel[Peer(e)]
             /\ \A x : InQueue(x, channel'[e]) => InQueue(x, channel[e])
             /\ Listening(Peer(e))
  <2>1. channel[Peer(e)] \o <<>> = channel[Peer(e)]
    BY <1>2, PeerProps
  <2> QED
    BY <1>2, <1>7, <2>1, TakeAndPostEffect DEF SendersListen
<1>8. ASSUME NEW e \in Ends, OnNullRust(e)
      PROVE  HandshakeInvariant'
  <2>1. PICK p \in Phases :
          /\ p # "polling" /\ phase' = [phase EXCEPT ![e] = p]
          /\ p = phase[e] \/ (p = "woken" /\ phase[e] = "polling")
    BY <1>8 DEF OnNullRust, SetPhase, TypeOK, Phases
  <2> QED
    BY <1>1, <1>7, <1>8, <2>1, TakeKeeps DEF OnNullRust, InboxStaysEmpty
<1>9. ASSUME NEW e \in Ends, Resume(e)
      PROVE  HandshakeInvariant'
  <2>1. Listening(Peer(e)) /\ phase' = [phase EXCEPT ![e] = "ready"]
    BY <1>9 DEF Resume, SetPhase, SendersListen
  <2>2. PICK data \in Seq(Data) : <<Null>> \o data = <<Null>>
    <3>1. <<Null>> \o <<>> = <<Null>>
      OBVIOUS
    <3>2. <<>> \in Seq(Data)
      OBVIOUS
    <3> QED
      BY <3>1, <3>2
  <2>3. /\ channel' \in [Ends -> Seq(Msgs)]
        /\ channel'[Peer(e)] = channel[Peer(e)] \o (<<Null>> \o data)
        /\ channel'[e] = channel[e]
    BY <1>2, <1>9, <2>2, PostAdds, PeerProps DEF Resume
  <2> QED
    BY <1>1, <1>9, <2>1, <2>3, BecomeReady DEF Resume, InboxStaysEmpty
<1>10. ASSUME NEW e \in Ends, OnNullJs(e)
       PROVE  HandshakeInvariant'
  <2>1. CASE phase[e] = "polling"
    <3>1. PICK k \in 0 .. Len(queued[e]) :
            RunsTo(queued[e], k) /\ TakeAndPost(e, <<Null>> \o Run(queued[e], k))
      BY <1>10, <2>1 DEF OnNullJs
    <3>2. PICK data \in Seq(Data) : data = Run(queued[e], k)
      BY <3>1, RunKeepsData DEF TypeOK
    <3>3. <<Null>> \o data \in Seq(Msgs) /\ channel[e] # <<>>
      BY <1>10 DEF Msgs, OnNullJs
    <3>4. /\ channel' \in [Ends -> Seq(Msgs)]
          /\ channel'[Peer(e)] = channel[Peer(e)] \o (<<Null>> \o data)
          /\ \A x : InQueue(x, channel'[e]) => InQueue(x, channel[e])
      BY <1>2, <3>1, <3>2, <3>3, TakeAndPostEffect
    <3>5. Listening(Peer(e)) /\ phase' = [phase EXCEPT ![e] = "ready"]
      BY <1>10, <2>1, <3>3 DEF OnNullJs, SetPhase, SendersListen
    <3>6. InboxStaysEmpty'
      BY <1>10, <2>1 DEF OnNullJs, InboxStaysEmpty, TypeOK
    <3> QED
      BY <1>1, <2>1, <3>4, <3>5, <3>6, BecomeReady
  <2>2. CASE phase[e] # "polling"
    <3>1. phase[e] = "ready" /\ phase' = [phase EXCEPT ![e] = "ready"]
      BY <1>10, <2>2 DEF OnNullJs, TypeOK
    <3> QED
      BY <1>1, <1>7, <1>10, <2>2, <3>1, TakeKeeps DEF OnNullJs, Phases, InboxStaysEmpty
  <2> QED
    BY <2>1, <2>2
<1>11. ASSUME NEW e \in Ends, OnData(e)
       PROVE  HandshakeInvariant'
  <2>1. Head(channel[e]) \in Data /\ HasData(channel[e])
    <3>1. Head(channel[e]) \in Msgs /\ InQueue(Head(channel[e]), channel[e])
      BY <1>2, <1>11, QueueTail DEF OnData
    <3>2. Head(channel[e]) \in Data
      BY <1>11, <3>1 DEF OnData, Msgs
    <3> QED
      BY <3>1, <3>2 DEF HasData
  <2>2. phase[e] # "polling"
    BY <1>11, <2>1 DEF DataIsFromReady, NullComesFirst, OnData
  <2>3. phase' = [phase EXCEPT ![e] = phase[e]] /\ phase[e] \in Phases /\ inbox' = inbox
    BY <1>11, <2>2 DEF OnData, TypeOK
  <2> QED
    BY <1>1, <1>7, <1>11, <2>2, <2>3, TakeKeeps DEF OnData, InboxStaysEmpty
<1>12. ASSUME NEW e \in Ends, SendNow(e)
       PROVE  HandshakeInvariant'
  <2>1. sent[e] + 1 \in Msgs
    BY <1>12, DataAssumption DEF SendNow, TypeOK, Msgs, Data
  <2>2. phase' = [phase EXCEPT ![e] = "ready"]
    BY <1>12 DEF SendNow, TypeOK
  <2> QED
    BY <1>1, <1>12, <2>1, <2>2, PostKeeps DEF SendNow, InboxStaysEmpty
<1>13. ASSUME NEW e \in Ends, SendLater(e) \/ SendUnclonable(e)
       PROVE  HandshakeInvariant'
  BY <1>1, <1>13
  DEF SendLater, SendUnclonable, SendersListen, DataIsFromReady, NullComesFirst,
      InboxStaysEmpty, HasData, InQueue, Listening
<1> QED
  BY <1>3, <1>4, <1>5, <1>6, <1>8, <1>9, <1>10, <1>11, <1>12, <1>13
  DEF Next, Listen, Send, Settled, vars

(* Data finds its listener ready: it is handed on at once.                 *)
LEMMA DataMove ==
  ASSUME HandshakeInvariant, NEW e \in Ends, OnData(e)
  PROVE  /\ Head(channel[e]) \in Data
         /\ arrived' = [arrived EXCEPT ![e] = Append(@, Head(channel[e]))]
<1>1. Head(channel[e]) \in Msgs /\ InQueue(Head(channel[e]), channel[e])
  BY QueueTail DEF OnData, HandshakeInvariant, TypeOK, Msgs
<1>2. Head(channel[e]) \in Data
  BY <1>1 DEF OnData, Msgs
<1>3. phase[e] # "polling"
  BY <1>1, <1>2 DEF HandshakeInvariant, DataIsFromReady, NullComesFirst, OnData, HasData
<1> QED
  BY <1>2, <1>3 DEF OnData

(* No end listens, and nothing has been posted.                            *)
LEMMA HandshakeStart == Init => HandshakeInvariant
<1> SUFFICES ASSUME Init PROVE HandshakeInvariant
  OBVIOUS
<1>1. TypeOK
  BY DataAssumption DEF Init, TypeOK, Phases
<1> QED
  BY <1>1, PeerProps
  DEF Init, HandshakeInvariant, SendersListen, DataIsFromReady, NullComesFirst,
      InboxStaysEmpty, HasData, InQueue

-----------------------------------------------------------------------------
(* The invariant holds of every reachable state.                           *)
THEOREM HandshakeHolds == Spec => []HandshakeInvariant
BY HandshakeStart, HandshakeStep, PTL DEF Spec

(* Interface::new returns, and endpoint.mjs runs its queued sends, only    *)
(* when the other end listens: no data is ever posted to nobody.           *)
THEOREM NoDataIsLost == Spec => []DataFindsListener
<1>1. ASSUME HandshakeInvariant PROVE DataFindsListener
  <2>1. ASSUME NEW e \in Ends, NEW n \in Data, InQueue(n, channel[e])
        PROVE  phase[e] # "absent"
    <3>1. Peer(e) \in Ends /\ Peer(Peer(e)) = e
      BY PeerProps
    <3>2. phase[Peer(e)] = "ready"
      BY <1>1, <2>1 DEF HandshakeInvariant, DataIsFromReady, HasData
    <3> QED
      BY <1>1, <3>1, <3>2 DEF HandshakeInvariant, SendersListen, Listening
  <2> QED
    BY <2>1 DEF DataFindsListener
<1> QED
  BY <1>1, HandshakeHolds, PTL

(* The peer's last null is ahead of its data, so _inbox stays empty.       *)
THEOREM InboxIsNeverUsed == Spec => []InboxStaysEmpty
<1>1. HandshakeInvariant => InboxStaysEmpty
  BY DEF HandshakeInvariant
<1> QED
  BY <1>1, HandshakeHolds, PTL

-----------------------------------------------------------------------------
(* Queues of one message, or none, and what they carry.                    *)
LEMMA CarriesOne ==
  ASSUME NEW a \in Nat, NEW all
  PROVE  /\ Carries(<<>>, a, a, all)
         /\ Carries(<<Null>>, a, a, all)
         /\ Carries(<<Unclonable>>, a, a, all)
         /\ Carries(<<a + 1>>, a, a + 1, all)
<1>1. Null \notin Data /\ Unclonable \notin Data
  BY DataAssumption DEF Null, Unclonable, Data
<1>2. a + 1 .. a = {}
  OBVIOUS
<1>3. Carries(<<>>, a, a, all) /\ Carries(<<Null>>, a, a, all) /\ Carries(<<Unclonable>>, a, a, all)
  BY <1>1, <1>2 DEF Carries
<1>4. Carries(<<a + 1>>, a, a + 1, all)
  <2>1. a + 1 .. a + 1 = {a + 1} /\ InQueue(a + 1, <<a + 1>>)
    BY DEF InQueue
  <2> QED
    BY <2>1 DEF Carries
<1> QED
  BY <1>3, <1>4

(* A queue that follows another carries on from it.                        *)
LEMMA CarriesConcat ==
  ASSUME NEW S, NEW q \in Seq(S), NEW r \in Seq(S), NEW all,
         NEW a \in Nat, NEW b \in Nat, NEW c \in Nat, a <= b, b <= c,
         Carries(q, a, b, all), Carries(r, b, c, all)
  PROVE  Carries(q \o r, a, c, all)
<1> DEFINE w == q \o r
           m == Len(q)
           n == Len(r)
<1>1. /\ m \in Nat /\ n \in Nat /\ DOMAIN q = 1 .. m /\ DOMAIN r = 1 .. n
      /\ DOMAIN w = 1 .. m + n
      /\ \A i \in 1 .. m : w[i] = q[i]
      /\ \A i \in 1 .. n : w[m + i] = r[i]
  OBVIOUS
<1>2. \A x : InQueue(x, w) <=> InQueue(x, q) \/ InQueue(x, r)
  BY QueueConcat
<1> HIDE DEF w, m, n
<1>3. ASSUME NEW i \in 1 .. m + n
      PROVE  \/ i \in 1 .. m /\ w[i] = q[i]
             \/ i - m \in 1 .. n /\ i > m /\ w[i] = r[i - m]
  <2>1. CASE i \in 1 .. m
    BY <1>1, <2>1
  <2>2. CASE i \notin 1 .. m
    <3>1. i - m \in 1 .. n /\ m + (i - m) = i /\ i > m
      BY <1>1, <2>2
    <3> QED
      BY <1>1, <3>1
  <2> QED
    BY <2>1, <2>2
<1>4. ASSUME NEW i \in 1 .. m + n, w[i] \in Data
      PROVE  /\ w[i] \in a + 1 .. c
             /\ i \in 1 .. m => w[i] <= b
             /\ i > m => w[i] > b
  <2>1. CASE i \in 1 .. m /\ w[i] = q[i]
    <3>1. q[i] \in a + 1 .. b
      BY <1>1, <1>4, <2>1 DEF Carries
    <3> QED
      BY <1>1, <2>1, <3>1
  <2>2. CASE i - m \in 1 .. n /\ i > m /\ w[i] = r[i - m]
    <3>1. r[i - m] \in b + 1 .. c
      BY <1>1, <1>4, <2>2 DEF Carries
    <3> QED
      BY <1>1, <2>2, <3>1
  <2> QED
    BY <1>3, <2>1, <2>2
<1>5. ASSUME NEW i \in 1 .. m + n, NEW j \in 1 .. m + n, w[i] \in Data, w[j] \in Data, i < j
      PROVE  w[i] < w[j]
  <2>1. CASE j \in 1 .. m
    <3>1. i \in 1 .. m /\ w[i] = q[i] /\ w[j] = q[j]
      BY <1>1, <1>5, <2>1
    <3> QED
      BY <1>1, <1>5, <2>1, <3>1 DEF Carries
  <2>2. CASE i \in 1 .. m /\ j > m
    <3>1. w[i] <= b /\ w[j] > b /\ w[i] \in Nat /\ w[j] \in Nat
      BY <1>4, <1>5, <2>2
    <3> QED
      BY <3>1
  <2>3. CASE i > m
    <3>1. /\ i - m \in 1 .. n /\ j - m \in 1 .. n /\ i - m < j - m
          /\ w[i] = r[i - m] /\ w[j] = r[j - m]
      BY <1>1, <1>3, <1>5, <2>3
    <3> QED
      BY <1>1, <1>5, <3>1 DEF Carries
  <2> QED
    BY <1>1, <1>5, <2>1, <2>2, <2>3
<1>6. ASSUME all, NEW x \in a + 1 .. c
      PROVE  InQueue(x, w)
  <2>1. x \in a + 1 .. b \/ x \in b + 1 .. c
    OBVIOUS
  <2> QED
    BY <1>2, <1>6, <2>1 DEF Carries
<1>7. Carries(w, a, c, all)
  BY <1>1, <1>4, <1>5, <1>6 DEF Carries
<1> QED
  BY <1>7 DEF w

(* What is left of a queue when its head is taken.                         *)
LEMMA CarriesTail ==
  ASSUME NEW S, NEW q \in Seq(S), q # <<>>, NEW all,
         NEW a \in Nat, NEW b \in Nat, a <= b, b <= MaxData, Carries(q, a, b, all)
  PROVE  /\ Head(q) \notin Data => Carries(Tail(q), a, b, all)
         /\ Head(q) \in Data =>
              /\ Head(q) \in a + 1 .. b
              /\ Carries(Tail(q), Head(q), b, all)
              /\ all => Head(q) = a + 1
<1> DEFINE n == Len(q)
           r == Tail(q)
           h == Head(q)
<1>1. /\ n \in Nat \ {0} /\ DOMAIN q = 1 .. n /\ DOMAIN r = 1 .. n - 1 /\ h = q[1]
      /\ \A i \in 1 .. n - 1 : r[i] = q[i + 1]
  OBVIOUS
<1>2. \A x : InQueue(x, q) <=> x = h \/ InQueue(x, r)
  BY QueueTail
<1> HIDE DEF n, r, h
<1>3. \A i \in 1 .. n - 1 : i + 1 \in 1 .. n /\ 1 < i + 1
  BY <1>1
<1>4. /\ \A i \in 1 .. n - 1 : r[i] \in Data => r[i] \in a + 1 .. b
      /\ \A i, j \in 1 .. n - 1 : r[i] \in Data /\ r[j] \in Data /\ i < j => r[i] < r[j]
  <2>1. \A i \in 1 .. n - 1 : r[i] \in Data => r[i] \in a + 1 .. b
    BY <1>1, <1>3 DEF Carries
  <2>2. ASSUME NEW i \in 1 .. n - 1, NEW j \in 1 .. n - 1, r[i] \in Data, r[j] \in Data, i < j
        PROVE  r[i] < r[j]
    <3>1. i + 1 \in 1 .. n /\ j + 1 \in 1 .. n /\ i + 1 < j + 1 /\ r[i] = q[i + 1] /\ r[j] = q[j + 1]
      BY <1>1, <1>3, <2>2
    <3> QED
      BY <1>1, <2>2, <3>1 DEF Carries
  <2> QED
    BY <2>1, <2>2
<1>5. ASSUME h \notin Data
      PROVE  Carries(r, a, b, all)
  <2>1. ASSUME all, NEW x \in a + 1 .. b
        PROVE  InQueue(x, r)
    <3>1. x # h
      BY <1>5, DataAssumption DEF Data
    <3>2. InQueue(x, q)
      BY <2>1 DEF Carries
    <3> QED
      BY <1>2, <3>1, <3>2
  <2> QED
    BY <1>1, <1>4, <2>1 DEF Carries
<1>6. ASSUME h \in Data
      PROVE  h \in a + 1 .. b /\ Carries(r, h, b, all) /\ (all => h = a + 1)
  <2>1. h \in a + 1 .. b
    BY <1>1, <1>6 DEF Carries
  <2>2. ASSUME NEW i \in 1 .. n - 1, r[i] \in Data
        PROVE  h < r[i]
    <3>1. 1 \in 1 .. n /\ i + 1 \in 1 .. n /\ 1 < i + 1 /\ r[i] = q[i + 1]
      BY <1>1, <1>3
    <3> QED
      BY <1>1, <1>6, <2>2, <3>1 DEF Carries
  <2>3. \A i \in 1 .. n - 1 : r[i] \in Data => r[i] \in h + 1 .. b
    BY <1>4, <2>1, <2>2
  <2>4. ASSUME all, NEW x \in h + 1 .. b
        PROVE  InQueue(x, r)
    <3>1. x \in a + 1 .. b /\ x # h
      BY <2>1, <2>4
    <3> QED
      BY <1>2, <2>4, <3>1 DEF Carries
  <2>5. ASSUME all PROVE h = a + 1
    <3>1. a + 1 \in a + 1 .. b
      BY <2>1
    <3>2. PICK i \in 1 .. n : q[i] = a + 1
      BY <1>1, <2>5, <3>1 DEF Carries, InQueue
    <3>3. CASE i # 1
      <4>1. i - 1 \in 1 .. n - 1 /\ r[i - 1] = q[i]
        BY <1>1, <3>2, <3>3
      <4>2. a + 1 \in Data
        BY <1>6, <2>1, DataAssumption DEF Data
      <4>3. h < a + 1
        BY <2>2, <3>2, <4>1, <4>2
      <4> QED
        BY <2>1, <4>3
    <3> QED
      BY <1>1, <3>2, <3>3
  <2> QED
    BY <1>1, <1>4, <2>1, <2>3, <2>4, <2>5 DEF Carries
<1> QED
  BY <1>5, <1>6 DEF r, h

(* The queued sends that run carry what the queue did, up to the throw.    *)
LEMMA CarriesRun ==
  ASSUME NEW q \in Seq({Unclonable} \cup Data), NEW k \in 0 .. Len(q), NEW all \in BOOLEAN,
         RunsTo(q, k), all => ~ Throws(q),
         NEW a \in Nat, NEW b \in Nat, Carries(q, a, b, all)
  PROVE  Carries(Run(q, k), a, b, all)
<1>1. /\ DOMAIN q = 1 .. Len(q) /\ Len(q) \in Nat
      /\ DOMAIN Run(q, k) = 1 .. k /\ \A i \in 1 .. k : Run(q, k)[i] = q[i] /\ i \in 1 .. Len(q)
  BY DEF Run
<1>2. ASSUME all
      PROVE  k = Len(q)
  <2>1. ASSUME k < Len(q) PROVE FALSE
    <3>1. k + 1 \in 1 .. Len(q) /\ q[k + 1] = Unclonable
      BY <1>1, <2>1 DEF RunsTo
    <3>2. Throws(q)
      BY <1>1, <3>1 DEF Throws, InQueue
    <3> QED
      BY <1>2, <3>2
  <2>2. k \in Nat /\ Len(q) \in Nat /\ k <= Len(q)
    OBVIOUS
  <2> QED
    BY <2>1, <2>2
<1>3. ASSUME all, NEW x \in a + 1 .. b
      PROVE  InQueue(x, Run(q, k))
  <2>1. InQueue(x, q)
    BY <1>3 DEF Carries
  <2> QED
    BY <1>1, <1>2, <1>3, <2>1 DEF InQueue
<1> QED
  BY <1>1, <1>3 DEF Carries

(* What the operator FirstData says.                                       *)
LEMMA FirstDataFacts ==
  ASSUME NEW n \in Nat
  PROVE  /\ FirstData(n) \in Seq(Nat) /\ Len(FirstData(n)) = n
         /\ Append(FirstData(n), n + 1) = FirstData(n + 1)
         /\ FirstData(0) = <<>>
<1>1. FirstData(n) \in Seq(Nat) /\ Len(FirstData(n)) = n /\ DOMAIN FirstData(n) = 1 .. n
  BY DEF FirstData
<1>2. Append(FirstData(n), n + 1) = FirstData(n + 1)
  BY DEF FirstData
<1>3. FirstData(0) = <<>>
  BY DEF FirstData
<1> QED
  BY <1>1, <1>2, <1>3

-----------------------------------------------------------------------------
(* What keeps the data in order: posting or taking what is not data,       *)
LEMMA NullInOrder ==
  ASSUME NEW had \in Seq(Data), NEW posted \in Seq(Msgs), NEW waiting \in Seq({Unclonable} \cup Data),
         NEW n \in 0 .. MaxData, NEW all \in BOOLEAN, InOrder(had, posted, waiting, n, all)
  PROVE  /\ InOrder(had, posted \o <<Null>>, waiting, n, all)
         /\ posted # <<>> /\ Head(posted) \notin Data => InOrder(had, Tail(posted), waiting, n, all)
<1>1. PICK a \in 0 .. n, b \in 0 .. n :
        /\ a <= b /\ Carries(had, 0, a, all) /\ (all => had = FirstData(a))
        /\ Carries(posted, a, b, all) /\ Carries(waiting, b, n, all)
  BY DEF InOrder
<1>2. n \in Nat /\ a \in Nat /\ b \in Nat /\ b <= MaxData /\ b <= b
  BY DataAssumption
<1>3. Carries(<<Null>>, b, b, all)
  BY <1>2, CarriesOne
<1>4. <<Null>> \in Seq(Msgs)
  BY DEF Msgs
<1>5. Carries(posted \o <<Null>>, a, b, all)
  BY <1>1, <1>2, <1>3, <1>4, CarriesConcat
<1>6. posted # <<>> /\ Head(posted) \notin Data => Carries(Tail(posted), a, b, all)
  BY <1>1, <1>2, CarriesTail
<1> QED
  BY <1>1, <1>5, <1>6 DEF InOrder

(* handing on the next message, which is the next one of all if none is    *)
(* missing,                                                                *)
LEMMA ArriveInOrder ==
  ASSUME NEW had \in Seq(Data), NEW posted \in Seq(Msgs), NEW waiting \in Seq({Unclonable} \cup Data),
         NEW n \in 0 .. MaxData, NEW all \in BOOLEAN, InOrder(had, posted, waiting, n, all),
         posted # <<>>, Head(posted) \in Data
  PROVE  /\ InOrder(Append(had, Head(posted)), Tail(posted), waiting, n, all)
         /\ all => Head(posted) = Len(had) + 1 /\ Len(had) < n
<1>1. PICK a \in 0 .. n, b \in 0 .. n :
        /\ a <= b /\ Carries(had, 0, a, all) /\ (all => had = FirstData(a))
        /\ Carries(posted, a, b, all) /\ Carries(waiting, b, n, all)
  BY DEF InOrder
<1>2. n \in Nat /\ a \in Nat /\ b \in Nat /\ b <= MaxData /\ b <= n
  BY DataAssumption
<1>3. PICK h \in Data : h = Head(posted)
  OBVIOUS
<1>4. h \in a + 1 .. b /\ Carries(Tail(posted), h, b, all) /\ (all => h = a + 1)
  BY <1>1, <1>2, <1>3, CarriesTail
<1>5. Carries(<<h>>, a, h, all)
  <2>1. ASSUME all PROVE InQueue(h, <<h>>) /\ a + 1 .. h = {h}
    BY <1>2, <1>4, <2>1 DEF InQueue
  <2>2. h \in a + 1 .. h
    BY <1>2, <1>4
  <2> QED
    BY <2>1, <2>2 DEF Carries
<1>6. Carries(Append(had, h), 0, h, all)
  <2>1. <<h>> \in Seq(Data) /\ Append(had, h) = had \o <<h>>
    OBVIOUS
  <2>2. 0 \in Nat /\ h \in Nat /\ 0 <= a /\ a <= h
    BY <1>2, <1>4
  <2>3. Carries(had \o <<h>>, 0, h, all)
    BY <1>1, <1>2, <1>5, <2>1, <2>2, CarriesConcat
  <2> QED
    BY <2>1, <2>3
<1>7. ASSUME all
      PROVE  Append(had, h) = FirstData(h) /\ h = Len(had) + 1 /\ Len(had) < n
  <2>1. had = FirstData(a) /\ h = a + 1 /\ a < n
    BY <1>1, <1>2, <1>4, <1>7
  <2>2. Len(FirstData(a)) = a /\ Append(FirstData(a), a + 1) = FirstData(a + 1)
    BY <1>2, FirstDataFacts
  <2> QED
    BY <2>1, <2>2, Zenon
<1>8. h \in 0 .. n /\ h <= b
  BY <1>2, <1>4
<1> QED
  BY <1>1, <1>3, <1>4, <1>6, <1>7, <1>8 DEF InOrder

(* sending one more message, at once or later,                             *)
LEMMA SendInOrder ==
  ASSUME NEW had \in Seq(Data), NEW posted \in Seq(Msgs), NEW waiting \in Seq({Unclonable} \cup Data),
         NEW n \in 0 .. MaxData, NEW all \in BOOLEAN, InOrder(had, posted, waiting, n, all)
  PROVE  /\ waiting = <<>> /\ n < MaxData => InOrder(had, posted \o <<n + 1>>, waiting, n + 1, all)
         /\ n < MaxData => InOrder(had, posted, Append(waiting, n + 1), n + 1, all)
         /\ InOrder(had, posted, Append(waiting, Unclonable), n, all)
<1>1. PICK a \in 0 .. n, b \in 0 .. n :
        /\ a <= b /\ Carries(had, 0, a, all) /\ (all => had = FirstData(a))
        /\ Carries(posted, a, b, all) /\ Carries(waiting, b, n, all)
  BY DEF InOrder
<1>2. /\ n \in Nat /\ a \in Nat /\ b \in Nat /\ b <= n /\ n + 1 \in Nat /\ n <= n + 1 /\ n <= n
      /\ a \in 0 .. n + 1 /\ b \in 0 .. n + 1 /\ n + 1 \in 0 .. n + 1 /\ a <= n + 1
  BY <1>1, DataAssumption
<1>3. Carries(<<n + 1>>, n, n + 1, all) /\ Carries(<<Unclonable>>, n, n, all)
  BY <1>2, CarriesOne
<1>4. ASSUME n < MaxData
      PROVE  n + 1 \in Data
  BY <1>4, DataAssumption DEF Data
<1>5. ASSUME NEW y \in {Unclonable} \cup Data
      PROVE  Append(waiting, y) = waiting \o <<y>> /\ <<y>> \in Seq({Unclonable} \cup Data)
  OBVIOUS
<1>6. ASSUME n < MaxData
      PROVE  InOrder(had, posted, Append(waiting, n + 1), n + 1, all)
  <2>1. Carries(Append(waiting, n + 1), b, n + 1, all)
    BY <1>1, <1>2, <1>3, <1>4, <1>5, <1>6, CarriesConcat
  <2> QED
    BY <1>1, <1>2, <2>1 DEF InOrder
<1>7. InOrder(had, posted, Append(waiting, Unclonable), n, all)
  <2>1. Append(waiting, Unclonable) = waiting \o <<Unclonable>>
        /\ <<Unclonable>> \in Seq({Unclonable} \cup Data)
    BY <1>5
  <2>2. Carries(waiting \o <<Unclonable>>, b, n, all)
    BY <1>1, <1>2, <1>3, <2>1, CarriesConcat
  <2> QED
    BY <1>1, <1>2, <2>1, <2>2 DEF InOrder
<1>8. ASSUME waiting = <<>>, n < MaxData
      PROVE  InOrder(had, posted \o <<n + 1>>, waiting, n + 1, all)
  <2>1. Carries(posted, a, n, all)
    <3>1. all => b = n
      <4>1. ASSUME all, b # n PROVE FALSE
        <5>1. b + 1 \in b + 1 .. n
          BY <1>2, <4>1
        <5>2. InQueue(b + 1, <<>>)
          BY <1>1, <1>8, <4>1, <5>1 DEF Carries
        <5> QED
          BY <5>2 DEF InQueue
      <4> QED
        BY <4>1
    <3>2. CASE all
      BY <1>1, <3>1, <3>2
    <3>3. CASE ~ all
      <4>1. \A x : x \in a + 1 .. b => x \in a + 1 .. n
        BY <1>2
      <4> QED
        BY <1>1, <3>3, <4>1 DEF Carries
    <3> QED
      BY <3>2, <3>3
  <2>2. <<n + 1>> \in Seq(Msgs)
    BY <1>4, <1>8 DEF Msgs
  <2>3. Carries(posted \o <<n + 1>>, a, n + 1, all)
    <3>1. a <= n
      BY <1>1, <1>2
    <3> QED
      BY <1>2, <1>3, <2>1, <2>2, <3>1, CarriesConcat
  <2>4. Carries(waiting, n + 1, n + 1, all)
    BY <1>2, <1>8, CarriesOne
  <2> QED
    BY <1>1, <1>2, <2>3, <2>4 DEF InOrder
<1> QED
  BY <1>6, <1>7, <1>8

(* and running the queued sends, behind the null that answers.             *)
LEMMA RunInOrder ==
  ASSUME NEW had \in Seq(Data), NEW posted \in Seq(Msgs), NEW waiting \in Seq({Unclonable} \cup Data),
         NEW n \in 0 .. MaxData, NEW all \in BOOLEAN, InOrder(had, posted, waiting, n, all),
         NEW k \in 0 .. Len(waiting), RunsTo(waiting, k), all => ~ Throws(waiting)
  PROVE  InOrder(had, posted \o (<<Null>> \o Run(waiting, k)), <<>>, n, all)
<1>1. PICK a \in 0 .. n, b \in 0 .. n :
        /\ a <= b /\ Carries(had, 0, a, all) /\ (all => had = FirstData(a))
        /\ Carries(posted, a, b, all) /\ Carries(waiting, b, n, all)
  BY DEF InOrder
<1>2. n \in Nat /\ a \in Nat /\ b \in Nat /\ b <= n /\ b <= b /\ a <= n /\ n \in 0 .. n
  BY <1>1, DataAssumption
<1>3. PICK run \in Seq(Data) : run = Run(waiting, k)
  BY RunKeepsData
<1>4. run \in Seq(Msgs) /\ <<Null>> \in Seq(Msgs) /\ <<Null>> \o run \in Seq(Msgs)
  BY DEF Msgs
<1>5. Carries(run, b, n, all)
  BY <1>1, <1>2, <1>3, CarriesRun
<1>6. Carries(<<Null>>, b, b, all) /\ Carries(<<>>, n, n, all)
  BY <1>2, CarriesOne
<1>7. Carries(<<Null>> \o run, b, n, all)
  BY <1>2, <1>4, <1>5, <1>6, CarriesConcat
<1>8. Carries(posted \o (<<Null>> \o run), a, n, all)
  BY <1>1, <1>2, <1>4, <1>7, CarriesConcat
<1> QED
  BY <1>1, <1>2, <1>3, <1>6, <1>8 DEF InOrder

-----------------------------------------------------------------------------
(* Every step keeps the data in order.                                     *)
LEMMA OrderStep == OrderInvariant /\ [Next]_vars => OrderInvariant'
<1> SUFFICES ASSUME OrderInvariant, [Next]_vars PROVE OrderInvariant'
  OBVIOUS
<1> USE DEF OrderInvariant
<1>1. HandshakeInvariant' /\ TypeOK /\ mayThrow' = mayThrow /\ jsEnds' = jsEnds
  BY HandshakeStep DEF HandshakeInvariant, Next, vars, programs
<1>2. \A f \in Ends :
        /\ arrived[f] \in Seq(Data) /\ channel[f] \in Seq(Msgs)
        /\ queued[f] \in Seq({Unclonable} \cup Data) /\ sent[f] \in 0 .. MaxData
        /\ (~ mayThrow) \in BOOLEAN /\ DataInOrder(f)
        /\ Peer(f) \in Ends /\ Peer(f) # f /\ Peer(Peer(f)) = f
  BY <1>1, PeerProps DEF TypeOK, Msgs
<1>3. /\ channel \in [Ends -> Seq(Msgs)] /\ <<Null>> \in Seq(Msgs) /\ <<>> \in Seq(Msgs)
      /\ sent \in [Ends -> 0 .. MaxData] /\ queued \in [Ends -> Seq({Unclonable} \cup Data)]
      /\ arrived \in [Ends -> Seq(Data)] /\ phase \in [Ends -> Phases]
  BY <1>1 DEF TypeOK, Msgs
<1>4. ASSUME NEW f \in Ends, arrived'[f] = arrived[f], channel'[f] = channel[f],
             queued'[Peer(f)] = queued[Peer(f)], sent'[Peer(f)] = sent[Peer(f)]
      PROVE  DataInOrder(f)'
  BY <1>1, <1>2, <1>4 DEF DataInOrder
<1>5. ASSUME NEW f \in Ends, InOrder(arrived'[f], channel'[f], queued'[Peer(f)], sent'[Peer(f)], ~ mayThrow)
      PROVE  DataInOrder(f)'
  BY <1>1, <1>5 DEF DataInOrder
<1>6. ASSUME NEW e \in Ends, Post(e, <<Null>>), UNCHANGED <<sent, queued, arrived>>
      PROVE  \A f \in Ends : DataInOrder(f)'
  <2>1. /\ channel'[Peer(e)] = channel[Peer(e)] \o <<Null>>
        /\ \A f \in Ends : f # Peer(e) => channel'[f] = channel[f]
    BY <1>3, <1>6, PostAdds
  <2>2. InOrder(arrived[Peer(e)], channel[Peer(e)] \o <<Null>>, queued[e], sent[e], ~ mayThrow)
    BY <1>2, NullInOrder DEF DataInOrder
  <2>3. DataInOrder(Peer(e))'
    BY <1>2, <1>5, <1>6, <2>1, <2>2
  <2> QED
    BY <1>4, <1>6, <2>1, <2>3
<1>7. ASSUME NEW e \in Ends, channel[e] # <<>>, Head(channel[e]) \notin Data,
             channel'[e] = Tail(channel[e]),
             \A f \in Ends : f # e => channel'[f] = channel[f],
             UNCHANGED <<sent, queued, arrived>>
      PROVE  \A f \in Ends : DataInOrder(f)'
  <2>1. InOrder(arrived[e], Tail(channel[e]), queued[Peer(e)], sent[Peer(e)], ~ mayThrow)
    BY <1>2, <1>7, NullInOrder DEF DataInOrder
  <2>2. DataInOrder(e)'
    BY <1>5, <1>7, <2>1
  <2> QED
    BY <1>4, <1>7, <2>2
<1>8. ASSUME NEW e \in Ends, channel[e] # <<>>, TakeAndPost(e, <<>>)
      PROVE  /\ channel'[e] = Tail(channel[e])
             /\ \A f \in Ends : f # e => channel'[f] = channel[f]
  <2>1. channel'[e] = Tail(channel[e]) /\ channel'[Peer(e)] = channel[Peer(e)] \o <<>>
    BY <1>3, <1>8, TakeAndPostEffect
  <2>2. channel[Peer(e)] \o <<>> = channel[Peer(e)]
    BY <1>2
  <2> QED
    BY <2>1, <2>2, TwoEnds
<1>9. Null \notin Data
  BY DEF Null, Data
<1>10. ASSUME NEW e \in Ends, Attach(e) \/ Repoll(e) \/ Resume(e)
       PROVE  OrderInvariant'
  <2>1. \A f \in Ends : DataInOrder(f)'
    BY <1>6, <1>10 DEF Attach, Repoll, Resume
  <2>2. QueuedBeforeReady'
    BY <1>1, <1>3, <1>10
    DEF Attach, Repoll, Resume, SetPhase, QueuedBeforeReady, Throws, InQueue, HandshakeInvariant
  <2> QED
    BY <1>1, <2>1, <2>2
<1>11. ASSUME NEW e \in Ends, LoseEvent(e)
       PROVE  OrderInvariant'
  <2>1. /\ channel[e] # <<>> /\ channel'[e] = Tail(channel[e]) /\ phase[e] = "absent"
        /\ \A f \in Ends : f # e => channel'[f] = channel[f]
        /\ UNCHANGED <<sent, queued, arrived, phase>>
    BY <1>3, <1>11 DEF LoseEvent
  <2>2. Head(channel[e]) \notin Data
    <3>1. InQueue(Head(channel[e]), channel[e])
      BY <1>2, <2>1, QueueTail
    <3>2. HasData(channel[e]) => phase[Peer(e)] = "ready"
      BY DEF HandshakeInvariant, DataIsFromReady
    <3>3. phase[Peer(e)] = "ready" => Listening(e)
      BY <1>2 DEF HandshakeInvariant, SendersListen
    <3> QED
      BY <2>1, <3>1, <3>2, <3>3 DEF HasData, Listening
  <2>3. \A f \in Ends : DataInOrder(f)'
    BY <1>7, <2>1, <2>2
  <2>4. QueuedBeforeReady'
    BY <1>1, <2>1 DEF QueuedBeforeReady, Throws, InQueue
  <2> QED
    BY <1>1, <2>3, <2>4
<1>12. ASSUME NEW e \in Ends, OnNullRust(e) \/ (OnNullJs(e) /\ phase[e] # "polling")
       PROVE  OrderInvariant'
  <2>1. /\ channel[e] # <<>> /\ Head(channel[e]) = Null /\ TakeAndPost(e, <<>>)
        /\ UNCHANGED <<sent, queued, arrived>>
    BY <1>12 DEF OnNullRust, OnNullJs
  <2>2. \A f \in Ends : DataInOrder(f)'
    BY <1>7, <1>8, <1>9, <2>1
  <2>3. \A f \in Ends : phase'[f] = phase[f] \/ (f = e /\ e \notin jsEnds /\ phase'[f] = "woken")
    BY <1>3, <1>12 DEF OnNullRust, OnNullJs, SetPhase
  <2>4. QueuedBeforeReady'
    BY <1>1, <2>1, <2>3 DEF QueuedBeforeReady, Throws, InQueue
  <2> QED
    BY <1>1, <2>2, <2>4
<1>13. ASSUME NEW e \in Ends, OnNullJs(e), phase[e] = "polling"
       PROVE  OrderInvariant'
  <2>1. /\ channel[e] # <<>> /\ Head(channel[e]) = Null /\ phase' = [phase EXCEPT ![e] = "ready"]
        /\ sent' = sent /\ queued' = [queued EXCEPT ![e] = <<>>]
        /\ arrived' = arrived \/ arrived' = [arrived EXCEPT ![e] = arrived[e] \o inbox[e]]
    BY <1>13 DEF OnNullJs, SetPhase
  <2>2. arrived' = arrived
    <3>1. inbox[e] = <<>>
      BY DEF HandshakeInvariant, InboxStaysEmpty
    <3>2. arrived[e] \o <<>> = arrived[e]
      BY <1>2
    <3> QED
      BY <1>3, <2>1, <3>1, <3>2
  <2>3. PICK k \in 0 .. Len(queued[e]) :
          RunsTo(queued[e], k) /\ TakeAndPost(e, <<Null>> \o Run(queued[e], k))
    BY <1>13 DEF OnNullJs
  <2>4. <<Null>> \o Run(queued[e], k) \in Seq(Msgs)
    <3>1. Run(queued[e], k) \in Seq(Data)
      BY <1>2, <2>3, RunKeepsData
    <3> QED
      BY <3>1 DEF Msgs
  <2>5. /\ channel'[e] = Tail(channel[e])
        /\ channel'[Peer(e)] = channel[Peer(e)] \o (<<Null>> \o Run(queued[e], k))
    BY <1>3, <2>1, <2>3, <2>4, TakeAndPostEffect
  <2>6. DataInOrder(e)'
    <3>1. InOrder(arrived[e], Tail(channel[e]), queued[Peer(e)], sent[Peer(e)], ~ mayThrow)
      BY <1>2, <1>9, <2>1, NullInOrder DEF DataInOrder
    <3>2. queued'[Peer(e)] = queued[Peer(e)]
      BY <1>2, <1>3, <2>1
    <3> QED
      BY <1>5, <2>1, <2>2, <2>5, <3>1, <3>2
  <2>7. DataInOrder(Peer(e))'
    <3>1. ~ mayThrow => ~ Throws(queued[e])
      BY DEF QueuedBeforeReady
    <3>2. InOrder(arrived[Peer(e)], channel[Peer(e)], queued[e], sent[e], ~ mayThrow)
      BY <1>2 DEF DataInOrder
    <3>3. InOrder(arrived[Peer(e)], channel[Peer(e)] \o (<<Null>> \o Run(queued[e], k)), <<>>,
                  sent[e], ~ mayThrow)
      BY <1>2, <2>3, <3>1, <3>2, RunInOrder
    <3>4. queued'[e] = <<>>
      BY <1>3, <2>1
    <3> QED
      BY <1>2, <1>5, <2>1, <2>2, <2>5, <3>3, <3>4
  <2>8. QueuedBeforeReady'
    BY <1>1, <1>3, <2>1 DEF QueuedBeforeReady, Throws, InQueue
  <2> QED
    BY <1>1, <2>6, <2>7, <2>8, TwoEnds
<1>14. ASSUME NEW e \in Ends, OnData(e)
       PROVE  OrderInvariant'
  <2>1. Head(channel[e]) \in Data /\ arrived' = [arrived EXCEPT ![e] = Append(@, Head(channel[e]))]
    BY <1>14, DataMove
  <2>2. /\ channel[e] # <<>> /\ TakeAndPost(e, <<>>) /\ UNCHANGED <<phase, sent, queued>>
    BY <1>14 DEF OnData
  <2>3. InOrder(Append(arrived[e], Head(channel[e])), Tail(channel[e]), queued[Peer(e)],
                sent[Peer(e)], ~ mayThrow)
    BY <1>2, <2>1, <2>2, ArriveInOrder DEF DataInOrder
  <2>4. arrived'[e] = Append(arrived[e], Head(channel[e]))
        /\ \A f \in Ends : f # e => arrived'[f] = arrived[f]
    BY <1>3, <2>1
  <2>5. /\ channel'[e] = Tail(channel[e])
        /\ \A f \in Ends : f # e => channel'[f] = channel[f]
    BY <1>8, <2>2
  <2>6. DataInOrder(e)'
    BY <1>5, <2>2, <2>3, <2>4, <2>5
  <2>7. \A f \in Ends : f # e => DataInOrder(f)'
    BY <1>4, <2>2, <2>4, <2>5
  <2>8. QueuedBeforeReady'
    BY <1>1, <2>2 DEF QueuedBeforeReady, Throws, InQueue
  <2> QED
    BY <1>1, <2>6, <2>7, <2>8
<1>15. ASSUME NEW e \in Ends, SendNow(e)
       PROVE  OrderInvariant'
  <2>1. /\ phase[e] = "ready" /\ sent[e] < MaxData /\ Post(e, <<sent[e] + 1>>)
        /\ sent' = [sent EXCEPT ![e] = sent[e] + 1] /\ UNCHANGED <<phase, queued, arrived>>
    BY <1>15 DEF SendNow
  <2>2. <<sent[e] + 1>> \in Seq(Msgs) /\ queued[e] = <<>>
    BY <1>2, <2>1, DataAssumption DEF Msgs, Data, QueuedBeforeReady
  <2>3. /\ channel'[Peer(e)] = channel[Peer(e)] \o <<sent[e] + 1>>
        /\ \A f \in Ends : f # Peer(e) => channel'[f] = channel[f]
    BY <1>3, <2>1, <2>2, PostAdds
  <2>4. InOrder(arrived[Peer(e)], channel[Peer(e)] \o <<sent[e] + 1>>, queued[e], sent[e] + 1,
                ~ mayThrow)
    BY <1>2, <2>1, <2>2, SendInOrder DEF DataInOrder
  <2>5. sent'[e] = sent[e] + 1 /\ \A f \in Ends : f # e => sent'[f] = sent[f]
    BY <1>3, <2>1
  <2>6. DataInOrder(Peer(e))'
    BY <1>2, <1>5, <2>1, <2>3, <2>4, <2>5
  <2>7. DataInOrder(e)'
    BY <1>2, <1>4, <2>1, <2>3, <2>5
  <2>8. QueuedBeforeReady'
    BY <1>1, <2>1 DEF QueuedBeforeReady, Throws, InQueue
  <2> QED
    BY <1>1, <2>6, <2>7, <2>8, TwoEnds
<1>16. ASSUME NEW e \in Ends, SendLater(e) \/ SendUnclonable(e)
       PROVE  OrderInvariant'
  <2>1. PICK y \in {sent[e] + 1, Unclonable} :
          /\ queued' = [queued EXCEPT ![e] = Append(queued[e], y)]
          /\ y = Unclonable => mayThrow /\ sent' = sent
          /\ y # Unclonable =>
               /\ y = sent[e] + 1 /\ sent[e] < MaxData /\ sent' = [sent EXCEPT ![e] = sent[e] + 1]
    <3>1. CASE SendLater(e)
      <4>1. /\ sent[e] < MaxData /\ sent' = [sent EXCEPT ![e] = sent[e] + 1]
            /\ queued' = [queued EXCEPT ![e] = Append(queued[e], sent[e] + 1)]
        BY <3>1 DEF SendLater
      <4>2. sent[e] + 1 # Unclonable
        BY <1>2, <4>1, DataAssumption DEF Unclonable
      <4> QED
        BY <4>1, <4>2
    <3>2. CASE SendUnclonable(e)
      BY <3>2 DEF SendUnclonable
    <3> QED
      BY <1>16, <3>1, <3>2
  <2>2. UNCHANGED <<phase, channel, arrived>> /\ phase[e] = "polling"
    BY <1>16 DEF SendLater, SendUnclonable
  <2>3. queued'[e] = Append(queued[e], y) /\ \A f \in Ends : f # e => queued'[f] = queued[f]
    BY <1>3, <2>1
  <2>4. \A f \in Ends : f # e => sent'[f] = sent[f]
    BY <1>3, <2>1
  <2>5. InOrder(arrived[Peer(e)], channel[Peer(e)], queued'[e], sent'[e], ~ mayThrow)
    <3>1. InOrder(arrived[Peer(e)], channel[Peer(e)], queued[e], sent[e], ~ mayThrow)
      BY <1>2 DEF DataInOrder
    <3>2. CASE y = Unclonable
      <4>1. sent' = sent /\ queued'[e] = Append(queued[e], Unclonable)
        BY <2>1, <2>3, <3>2
      <4>2. InOrder(arrived[Peer(e)], channel[Peer(e)], Append(queued[e], Unclonable), sent[e],
                    ~ mayThrow)
        BY <1>2, <3>1, SendInOrder
      <4> QED
        BY <4>1, <4>2
    <3>3. CASE y # Unclonable
      <4>1. sent'[e] = sent[e] + 1 /\ queued'[e] = Append(queued[e], sent[e] + 1) /\ sent[e] < MaxData
        BY <1>3, <2>1, <2>3, <3>3
      <4>2. InOrder(arrived[Peer(e)], channel[Peer(e)], Append(queued[e], sent[e] + 1), sent[e] + 1,
                    ~ mayThrow)
        BY <1>2, <3>1, <4>1, SendInOrder
      <4> QED
        BY <4>1, <4>2
    <3> QED
      BY <3>2, <3>3
  <2>6. DataInOrder(Peer(e))'
    BY <1>2, <1>5, <2>2, <2>5
  <2>7. DataInOrder(e)'
    BY <1>2, <1>4, <2>2, <2>3, <2>4
  <2>8. QueuedBeforeReady'
    <3>1. Throws(queued'[e]) => Throws(queued[e]) \/ y = Unclonable
      <4>1. y \in {Unclonable} \cup Data
        BY <1>2, <2>1, DataAssumption DEF Data
      <4>2. PICK q \in Seq({Unclonable} \cup Data) : q = queued[e]
        BY <1>2
      <4>3. \A x : InQueue(x, Append(q, y)) <=> InQueue(x, q) \/ x = y
        BY <4>1, QueueAppend
      <4> QED
        BY <2>3, <4>2, <4>3 DEF Throws
    <3>2. Throws(queued'[e]) => mayThrow'
      BY <1>1, <2>1, <3>1 DEF QueuedBeforeReady
    <3>3. \A f \in Ends :
            f # e => /\ queued'[f] # <<>> => f \in jsEnds' /\ phase'[f] = "polling"
                     /\ Throws(queued'[f]) => mayThrow'
      BY <1>1, <2>2, <2>3 DEF QueuedBeforeReady
    <3>4. e \in jsEnds' /\ phase'[e] = "polling"
      BY <1>1, <1>16, <2>2 DEF SendLater, SendUnclonable
    <3> QED
      BY <3>2, <3>3, <3>4 DEF QueuedBeforeReady, Throws, InQueue
  <2> QED
    BY <1>1, <2>6, <2>7, <2>8, TwoEnds
<1>17. CASE UNCHANGED moving
  <2>1. UNCHANGED <<phase, channel, sent, queued, arrived>>
    BY <1>17 DEF moving
  <2> QED
    BY <1>1, <1>4, <2>1 DEF QueuedBeforeReady, Throws, InQueue
<1> QED
  BY <1>10, <1>11, <1>12, <1>13, <1>14, <1>15, <1>16, <1>17 DEF Next, Listen, Send, Settled, vars

(* Nothing has been sent.                                                  *)
LEMMA OrderStart == Init => OrderInvariant
<1> SUFFICES ASSUME Init PROVE OrderInvariant
  OBVIOUS
<1>1. \A e \in Ends : /\ queued[e] = <<>> /\ channel[e] = <<>> /\ arrived[e] = <<>> /\ sent[e] = 0
                      /\ Peer(e) \in Ends
  BY PeerProps DEF Init
<1>2. InOrder(<<>>, <<>>, <<>>, 0, ~ mayThrow)
  <2>1. Carries(<<>>, 0, 0, ~ mayThrow)
    <3>1. DOMAIN <<>> = {} /\ 0 + 1 .. 0 = {}
      OBVIOUS
    <3> QED
      BY <3>1 DEF Carries
  <2>2. FirstData(0) = <<>> /\ 0 \in 0 .. 0 /\ 0 <= 0
    BY FirstDataFacts
  <2> QED
    BY <2>1, <2>2 DEF InOrder
<1>3. \A e \in Ends : DataInOrder(e)
  BY <1>1, <1>2 DEF DataInOrder
<1>4. QueuedBeforeReady
  <2>1. ~ Throws(<<>>)
    BY DEF Throws, InQueue
  <2> QED
    BY <1>1, <2>1 DEF QueuedBeforeReady
<1> QED
  BY <1>3, <1>4, HandshakeStart DEF OrderInvariant

(* The invariant of the data holds of every reachable state.               *)
THEOREM OrderHolds == Spec => []OrderInvariant
BY OrderStart, OrderStep, PTL DEF Spec

(* What arrives arrives once and in the order it was sent, also when a     *)
(* queued send throws and takes those behind it down with it.              *)
THEOREM DataKeepsOrder == Spec => []ArrivesInOrder
<1>1. ASSUME OrderInvariant PROVE ArrivesInOrder
  <2>1. ASSUME NEW e \in Ends
        PROVE  \A i, j \in DOMAIN arrived[e] : i < j => arrived[e][i] < arrived[e][j]
    <3>1. PICK a \in 0 .. sent[Peer(e)] : Carries(arrived[e], 0, a, ~ mayThrow)
      BY <1>1 DEF OrderInvariant, DataInOrder, InOrder
    <3>2. \A i \in DOMAIN arrived[e] : arrived[e][i] \in Data
      <4>1. arrived[e] \in Seq(Data)
        BY <1>1 DEF OrderInvariant, HandshakeInvariant, TypeOK
      <4> QED
        BY <4>1
    <3> QED
      BY <3>1, <3>2 DEF Carries
  <2> QED
    BY <2>1 DEF ArrivesInOrder
<1> QED
  BY <1>1, OrderHolds, PTL

-----------------------------------------------------------------------------
(* The link that both ends see: what has been sent to an end, and what it  *)
(* has had.                                                                *)
Submitted == [e \in Ends |-> IF mayThrow THEN 0 ELSE sent[Peer(e)]]
Arrived == [e \in Ends |-> IF mayThrow THEN <<>> ELSE arrived[e]]

(* One more message sent is submitted, one handed on arrives, and nothing  *)
(* else is seen.                                                           *)
LEMMA LinkStep == OrderInvariant /\ [Next]_vars => [Channel!LinkNext]_(Channel!linkVars)
<1> SUFFICES ASSUME OrderInvariant, [Next]_vars
             PROVE  Channel!LinkNext \/ UNCHANGED Channel!linkVars
  OBVIOUS
<1>1. /\ mayThrow' = mayThrow /\ mayThrow \in BOOLEAN
      /\ sent \in [Ends -> 0 .. MaxData] /\ arrived \in [Ends -> Seq(Data)]
      /\ channel \in [Ends -> Seq(Msgs)] /\ queued \in [Ends -> Seq({Unclonable} \cup Data)]
  BY DEF OrderInvariant, HandshakeInvariant, TypeOK, Next, vars, programs, Msgs
<1>2. ASSUME UNCHANGED <<sent, arrived>>
      PROVE  UNCHANGED Channel!linkVars
  BY <1>1, <1>2 DEF Channel!linkVars
<1>3. CASE mayThrow
  BY <1>1, <1>3 DEF Channel!linkVars
<1>4. ASSUME ~ mayThrow, NEW e \in Ends, SendNow(e) \/ SendLater(e)
      PROVE  Channel!LinkNext
  <2>1. PICK f \in Ends : f = Peer(e) /\ Peer(f) = e /\ \A g \in Ends : g # f => Peer(g) # e
    BY PeerProps
  <2>2. sent' = [sent EXCEPT ![e] = sent[e] + 1] /\ arrived' = arrived
    BY <1>4 DEF SendNow, SendLater
  <2>3. Submitted' = [Submitted EXCEPT ![f] = Submitted[f] + 1] /\ Arrived' = Arrived
    <3>1. \A g \in Ends : sent'[Peer(g)] = IF g = f THEN sent[e] + 1 ELSE sent[Peer(g)]
      BY <1>1, <2>1, <2>2, PeerProps
    <3>2. Submitted' = [g \in Ends |-> IF g = f THEN sent[e] + 1 ELSE sent[Peer(g)]]
      BY <1>1, <1>4, <3>1 DEF Submitted
    <3>3. Submitted[f] = sent[e]
      BY <1>4, <2>1 DEF Submitted
    <3> QED
      BY <1>1, <1>4, <2>2, <3>2, <3>3 DEF Submitted, Arrived
  <2> QED
    BY <2>3 DEF Channel!LinkNext, Channel!Submit, Submitted, Arrived
<1>5. ASSUME ~ mayThrow, NEW e \in Ends, OnData(e)
      PROVE  Channel!LinkNext
  <2>1. /\ Head(channel[e]) \in Data /\ channel[e] # <<>> /\ sent' = sent
        /\ arrived' = [arrived EXCEPT ![e] = Append(@, Head(channel[e]))]
    BY <1>5, DataMove DEF OrderInvariant, OnData
  <2>2. Head(channel[e]) = Len(arrived[e]) + 1 /\ Len(arrived[e]) < sent[Peer(e)]
    <3>1. InOrder(arrived[e], channel[e], queued[Peer(e)], sent[Peer(e)], ~ mayThrow)
      BY DEF OrderInvariant, DataInOrder
    <3>2. Peer(e) \in Ends /\ (~ mayThrow) \in BOOLEAN
      BY PeerProps
    <3> QED
      BY <1>1, <1>5, <2>1, <3>1, <3>2, ArriveInOrder
  <2>3. Arrived' = [Arrived EXCEPT ![e] = Append(Arrived[e], Len(Arrived[e]) + 1)]
        /\ Len(Arrived[e]) < Submitted[e] /\ Submitted' = Submitted
    <3>1. Arrived = arrived /\ Arrived' = arrived'
      BY <1>1, <1>5, <2>1 DEF Arrived
    <3>2. Submitted[e] = sent[Peer(e)] /\ Submitted' = Submitted
      BY <1>1, <1>5, <2>1 DEF Submitted
    <3> QED
      BY <2>1, <2>2, <3>1, <3>2
  <2> QED
    BY <2>3 DEF Channel!LinkNext, Channel!Arrive, Submitted, Arrived
<1>6. ASSUME NEW e \in Ends, Attach(e) \/ Repoll(e) \/ LoseEvent(e) \/ Resume(e) \/ OnNullRust(e)
                             \/ SendUnclonable(e)
      PROVE  UNCHANGED <<sent, arrived>>
  BY <1>6 DEF Attach, Repoll, LoseEvent, Resume, OnNullRust, SendUnclonable
<1>7. ASSUME NEW e \in Ends, OnNullJs(e)
      PROVE  UNCHANGED <<sent, arrived>>
  <2>1. /\ sent' = sent
        /\ arrived' = arrived \/ arrived' = [arrived EXCEPT ![e] = arrived[e] \o inbox[e]]
    BY <1>7 DEF OnNullJs
  <2>2. inbox[e] = <<>> /\ arrived[e] \o <<>> = arrived[e]
    BY <1>1 DEF OrderInvariant, HandshakeInvariant, InboxStaysEmpty
  <2> QED
    BY <1>1, <2>1, <2>2
<1>8. CASE UNCHANGED moving
  BY <1>2, <1>8 DEF moving
<1> QED
  BY <1>2, <1>3, <1>4, <1>5, <1>6, <1>7, <1>8 DEF Next, Listen, Send, Settled, vars

(* The handshake implements a lossless channel: whenever the two ends      *)
(* start and whichever events are lost, what one sends the other gets,     *)
(* once and in order, if no queued send throws.                            *)
THEOREM HandshakeIsLink == Spec => ImplementsLink
<1>1. Init => Channel!LinkInit
  <2> SUFFICES ASSUME Init PROVE Channel!LinkInit
    OBVIOUS
  <2>1. \A e \in Ends : sent[Peer(e)] = 0 /\ arrived[e] = <<>>
    BY PeerProps DEF Init
  <2> QED
    BY <2>1 DEF Channel!LinkInit
<1> QED
  BY <1>1, LinkStep, OrderHolds, PTL DEF Spec, ImplementsLink, Channel!LinkSpec
=============================================================================
