------------------------------ MODULE Interface ------------------------------
(***************************************************************************)
(* A Rust interface: its client, its server, and the dispatcher that       *)
(* `assemble` in lib.rs puts before both.  The dispatcher is one shared    *)
(* future: it runs only when a future or a server of its own end is        *)
(* polled, and it routes each message to a map of the client or to a queue *)
(* of the server.                                                          *)
(*                                                                         *)
(* Taking one message per step loses nothing: what the code routes in one  *)
(* poll is the same messages taken in consecutive steps.                   *)
(***************************************************************************)
EXTENDS Client, Service

TypeOK ==
  /\ channel \in [Ends -> Seq(Message)]
  /\ ClientTypeOK
  /\ ServiceTypeOK

(* The dispatcher of end e takes its next message.                         *)

Driven(e) == e \in Servers \/ \E s \in Seqs : Polling(e, s)

TakeMessage(e, kind) ==
  /\ Driven(e)
  /\ channel[e] # <<>>
  /\ Head(channel[e]).kind = kind
  /\ channel' = [channel EXCEPT ![e] = Tail(@)]

DispatchRequest(e) ==
  /\ TakeMessage(e, "Request")
  /\ requests' = [requests EXCEPT ![e] =
       Append(@, [seq |-> Head(channel[e]).seq, method |-> Head(channel[e]).method])]
  /\ UNCHANGED <<clientVars, aborts, outbox, running, execution, method, signalled, produced>>

DispatchAbort(e) ==
  /\ TakeMessage(e, "Abort")
  /\ aborts' = [aborts EXCEPT ![e] = Append(@, Head(channel[e]).seq)]
  /\ UNCHANGED <<clientVars, requests, outbox, running, execution, method, signalled, produced>>

(* Mistake: both directions share their numbers, and a response also stops *)
(* the execution of the same number.                                       *)
DispatchResponseStops(e) ==
  /\ TakeMessage(e, "Response")
  /\ OnResponse(e, Head(channel[e]).seq)
  /\ aborts' = [aborts EXCEPT ![e] = Append(@, Head(channel[e]).seq)]
  /\ UNCHANGED <<requests, outbox, running, execution, method, signalled, produced>>

DispatchResponse(e) ==
  /\ TakeMessage(e, "Response")
  /\ OnResponse(e, Head(channel[e]).seq)
  /\ UNCHANGED serviceVars

DispatchStreamItem(e) ==
  /\ TakeMessage(e, "StreamItem")
  /\ OnStreamItem(e, Head(channel[e]).seq, Head(channel[e]).item)
  /\ UNCHANGED serviceVars

DispatchStreamEnd(e) ==
  /\ TakeMessage(e, "StreamEnd")
  /\ OnStreamEnd(e, Head(channel[e]).seq)
  /\ UNCHANGED serviceVars

Dispatch(e) ==
  \/ DispatchRequest(e)
  \/ DispatchAbort(e)
  \/ DispatchResponse(e)
  \/ DispatchStreamItem(e)
  \/ DispatchStreamEnd(e)

-----------------------------------------------------------------------------
NewCall(e) == \E m \in Methods : Notify(e, m) \/ Request(e, m) \/ Stream(e, m)

(* Any step of interface e.                                                *)
InterfaceStep(e) ==
  \/ NewCall(e) /\ UNCHANGED serviceVars
  \/ \E s \in Seqs : CallerStep(e, s) /\ UNCHANGED serviceVars
  \/ Dispatch(e)
  \/ ServiceStep(e) /\ UNCHANGED clientVars

-----------------------------------------------------------------------------
(* Where a call can be, between its two ends.                              *)
Requested(e, s) == \E m \in Methods : InQueue(RequestMsg(s, m), channel[Peer(e)])
Queued(e, s) == \E m \in Methods : InQueue([seq |-> s, method |-> m], requests[Peer(e)])
InService(e, s) == execution[Peer(e)][s] \in {"called", "forwarding"} /\ s \in running[Peer(e)]
Ending(e, s) == InQueue(Entry(s, None), outbox[Peer(e)]) /\ s \in running[Peer(e)]
Answered(e, s) == InQueue(ResponseMsg(s), channel[e])
EndPosted(e, s) == InQueue(EndMsg(s), channel[e])

(* The items of call s in a queue of messages or of the outbox.            *)
IsItem(x, s) == x.seq = s /\ "item" \in DOMAIN x /\ x.item # None
HasItem(q, s) == \E i \in DOMAIN q : IsItem(q[i], s)

(* They are the items behind the first a of its stream, up to the b-th,    *)
(* each once and in the order of the stream.                               *)
Carries(q, s, a, b) ==
  /\ \A i \in DOMAIN q : IsItem(q[i], s) => q[i].item \in a + 1 .. b
  /\ \A n \in a + 1 .. b : \E i \in DOMAIN q : IsItem(q[i], s) /\ q[i].item = n
  /\ \A i, j \in DOMAIN q :
       IsItem(q[i], s) /\ IsItem(q[j], s) /\ i < j => q[i].item < q[j].item

FirstItems(n) == [i \in 1 .. n |-> i]

(* Of a stream that has made n items the caller has had some; the next are *)
(* posted, and the others wait to be posted.                               *)
Unbroken(had, posted, waiting, s, n) ==
  \E a, b \in 0 .. n :
    /\ a <= b
    /\ had = FirstItems(a)
    /\ Carries(posted, s, a, b)
    /\ Carries(waiting, s, b, n)

(* Nothing of a stream is behind its end: the marker in the outbox, the    *)
(* message in the channel.                                                 *)
MarkerIsLast(q, s) == \A i, j \in DOMAIN q : q[i] = Entry(s, None) /\ i < j => q[j].seq # s
EndMsgIsLast(q, s) == \A i, j \in DOMAIN q : q[i] = EndMsg(s) /\ i < j => ~ IsItem(q[j], s)
HasEntry(q, s) == \E i \in DOMAIN q : q[i].seq = s
=============================================================================
