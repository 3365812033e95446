------------------------------ MODULE Handshake -----------------------------
(***************************************************************************)
(* How two ends find out that the other one listens: Interface::new of     *)
(* interface.rs, and the constructor and _onMessage of endpoint.mjs.       *)
(*                                                                         *)
(* A message event that finds no listener is lost.  So each end posts null *)
(* every 10 ms until it gets one, and posts a last null then, because its  *)
(* earlier ones may all have been lost.                                    *)
(*                                                                         *)
(* phase[e] is how far end e has come:                                     *)
(*   absent    no listener on its port yet                                 *)
(*   polling   listening, and posting null until one arrives               *)
(*   woken     (Rust) the listener has filled ready_tx, and the future of  *)
(*             Interface::new has not been polled since                    *)
(*   ready     may post data                                               *)
(*                                                                         *)
(* Data messages towards an end are numbered; channel[e] is what the port  *)
(* of e has yet to hand to its listener.  The port has been started.       *)
(***************************************************************************)
EXTENDS Peers

CONSTANTS
  MaxData,      \* bound: data messages each end sends
  MaxNulls      \* bound: nulls in flight when the poll timer fires

ASSUME DataAssumption == MaxData \in Nat /\ MaxNulls \in Nat

(* Which program runs at either end is settled before anything happens.    *)
VARIABLES
  jsEnds,      \* the ends that are endpoints of endpoint.mjs; the others are Rust interfaces
  mayThrow,    \* whether a caller hands postMessage a value it cannot clone
  phase,
  channel,     \* message events waiting for each end
  sent,        \* data messages the caller at each end has sent
  queued,      \* _queuedSends of each JavaScript end
  inbox,       \* its _inbox
  arrived      \* data each end has handed on: to messages_rx, or to _dispatch

programs == <<jsEnds, mayThrow>>
moving == <<phase, channel, sent, queued, inbox, arrived>>
vars == <<programs, moving>>

Null == 0
Data == 1 .. MaxData
Phases == {"absent", "polling", "woken", "ready"}

(* A queued send that throws when it is run.                               *)
Unclonable == MaxData + 1

TypeOK ==
  /\ jsEnds \subseteq Ends /\ mayThrow \in BOOLEAN
  /\ phase \in [Ends -> Phases]
  /\ channel \in [Ends -> Seq({Null} \cup Data)]
  /\ sent \in [Ends -> 0 .. MaxData]
  /\ queued \in [Ends -> Seq({Unclonable} \cup Data)]
  /\ inbox \in [Ends -> Seq(Data)]
  /\ arrived \in [Ends -> Seq(Data)]

Init ==
  /\ jsEnds \in SUBSET Ends /\ mayThrow \in BOOLEAN
  /\ phase = [e \in Ends |-> "absent"]
  /\ channel = [e \in Ends |-> <<>>]
  /\ sent = [e \in Ends |-> 0]
  /\ queued = [e \in Ends |-> <<>>]
  /\ inbox = [e \in Ends |-> <<>>]
  /\ arrived = [e \in Ends |-> <<>>]

SetPhase(e, p) == phase' = [phase EXCEPT ![e] = p]

Post(e, messages) == channel' = [channel EXCEPT ![Peer(e)] = @ \o messages]

(* End e takes the next event, and posts what its listener answers.        *)
TakeAndPost(e, messages) ==
  channel' = [channel EXCEPT ![e] = Tail(@), ![Peer(e)] = @ \o messages]

-----------------------------------------------------------------------------
(* The listener is installed and the first null posted.                    *)
Attach(e) ==
  /\ phase[e] = "absent"
  /\ SetPhase(e, "polling")
  /\ Post(e, <<Null>>)
  /\ UNCHANGED <<sent, queued, inbox, arrived>>

(* The 10 ms timer of an end that has not been answered.                   *)
Repoll(e) ==
  /\ phase[e] = "polling"
  /\ Len(SelectSeq(channel[Peer(e)], LAMBDA x : x = Null)) < MaxNulls
  /\ Post(e, <<Null>>)
  /\ UNCHANGED <<phase, sent, queued, inbox, arrived>>

(* A message event with no listener to hear it.                            *)
LoseEvent(e) ==
  /\ phase[e] = "absent"
  /\ channel[e] # <<>>
  /\ channel' = [channel EXCEPT ![e] = Tail(@)]
  /\ UNCHANGED <<phase, sent, queued, inbox, arrived>>

(* A Rust listener gets a null: the first one fills ready_tx.              *)
OnNullRust(e) ==
  /\ e \notin jsEnds
  /\ phase[e] # "absent"
  /\ channel[e] # <<>> /\ Head(channel[e]) = Null
  /\ SetPhase(e, IF phase[e] = "polling" THEN "woken" ELSE phase[e])
  /\ TakeAndPost(e, <<>>)
  /\ UNCHANGED <<sent, queued, inbox, arrived>>

(* Mistake: there is no last null.                                         *)
ResumeSilently(e) ==
  /\ phase[e] = "woken"
  /\ SetPhase(e, "ready")
  /\ UNCHANGED <<channel, sent, queued, inbox, arrived>>

(* Interface::new resumes, posts its last null and returns the interface.  *)
Resume(e) ==
  /\ phase[e] = "woken"
  /\ SetPhase(e, "ready")
  /\ Post(e, <<Null>>)
  /\ UNCHANGED <<sent, queued, inbox, arrived>>

(* The first k of the queued sends run: all of them, or those before one   *)
(* that throws, which ends the handler and leaves the rest of it undone.   *)
Throws(q) == InQueue(Unclonable, q)
RunsTo(q, k) ==
  /\ \A i \in 1 .. k : q[i] # Unclonable
  /\ k < Len(q) => q[k + 1] = Unclonable

(* Mistakes: the queue is cleared before it is run; the last send is run   *)
(* first.                                                                  *)
NothingRun(q, k) == <<>>
LastRunFirst(q, k) == [i \in 1 .. k |-> q[k + 1 - i]]

Run(q, k) == SubSeq(q, 1, k)

(* _onMessage with a null: the first one makes the endpoint ready, which   *)
(* answers, runs the queued sends and dispatches the inbox.                *)
OnNullJs(e) ==
  /\ e \in jsEnds
  /\ channel[e] # <<>> /\ Head(channel[e]) = Null
  /\ \/ /\ phase[e] = "polling"
        /\ SetPhase(e, "ready")
        /\ \E k \in 0 .. Len(queued[e]) :
             /\ RunsTo(queued[e], k)
             /\ TakeAndPost(e, <<Null>> \o Run(queued[e], k))
        /\ queued' = [queued EXCEPT ![e] = <<>>]
        /\ IF Throws(queued[e])
             THEN UNCHANGED <<inbox, arrived>>
             ELSE /\ arrived' = [arrived EXCEPT ![e] = @ \o inbox[e]]
                  /\ inbox' = [inbox EXCEPT ![e] = <<>>]
     \/ /\ phase[e] = "ready"
        /\ TakeAndPost(e, <<>>)
        /\ UNCHANGED <<phase, queued, inbox, arrived>>
  /\ UNCHANGED sent

(* A data message: a Rust listener queues it for the dispatcher whatever   *)
(* its phase, and an endpoint that is not ready keeps it in its inbox.     *)
OnData(e) ==
  /\ phase[e] # "absent"
  /\ channel[e] # <<>> /\ Head(channel[e]) # Null
  /\ IF e \in jsEnds /\ phase[e] = "polling"
       THEN /\ inbox' = [inbox EXCEPT ![e] = Append(@, Head(channel[e]))]
            /\ UNCHANGED arrived
       ELSE /\ arrived' = [arrived EXCEPT ![e] = Append(@, Head(channel[e]))]
            /\ UNCHANGED inbox
  /\ TakeAndPost(e, <<>>)
  /\ UNCHANGED <<phase, sent, queued>>

(* Mistake: the sender takes a listener of its own for the peer's.         *)
SendEagerly(e) ==
  /\ phase[e] # "absent"
  /\ sent[e] < MaxData
  /\ sent' = [sent EXCEPT ![e] = @ + 1]
  /\ Post(e, <<sent[e] + 1>>)
  /\ UNCHANGED <<phase, queued, inbox, arrived>>

(* The caller sends, which in Rust takes an interface.                     *)
SendNow(e) ==
  /\ phase[e] = "ready"
  /\ sent[e] < MaxData
  /\ sent' = [sent EXCEPT ![e] = @ + 1]
  /\ Post(e, <<sent[e] + 1>>)
  /\ UNCHANGED <<phase, queued, inbox, arrived>>

(* _send of an endpoint that is not ready.                                 *)
SendLater(e) ==
  /\ e \in jsEnds
  /\ phase[e] = "polling"
  /\ sent[e] < MaxData
  /\ sent' = [sent EXCEPT ![e] = @ + 1]
  /\ queued' = [queued EXCEPT ![e] = Append(@, sent[e] + 1)]
  /\ UNCHANGED <<phase, channel, inbox, arrived>>

(* The same with a value that cannot be cloned: nothing throws yet.        *)
SendUnclonable(e) ==
  /\ mayThrow
  /\ e \in jsEnds
  /\ phase[e] = "polling"
  /\ ~ Throws(queued[e])
  /\ queued' = [queued EXCEPT ![e] = Append(@, Unclonable)]
  /\ UNCHANGED <<phase, channel, sent, inbox, arrived>>

Listen(e) == OnNullRust(e) \/ OnNullJs(e) \/ OnData(e)
Send(e) == SendNow(e) \/ SendLater(e) \/ SendUnclonable(e)

(* Both ends are ready and all they meant to send has arrived.             *)
Settled ==
  /\ \A e \in Ends : phase[e] = "ready" /\ sent[e] = MaxData /\ channel[e] = <<>>
  /\ UNCHANGED moving

Next ==
  /\ \/ \E e \in Ends : Attach(e) \/ Repoll(e) \/ LoseEvent(e) \/ Listen(e) \/ Resume(e) \/ Send(e)
     \/ Settled
  /\ UNCHANGED programs

Spec == Init /\ [][Next]_vars

(* Both ends are created, timers fire, events are delivered and futures    *)
(* that were woken are polled.  Nothing is assumed of what callers send.   *)
FairSpec ==
  /\ Spec
  /\ \A e \in Ends :
       /\ WF_moving(Attach(e))
       /\ WF_moving(Repoll(e))
       /\ WF_moving(Listen(e))
       /\ WF_moving(Resume(e))

-----------------------------------------------------------------------------
(* Nobody posts data to a port that has no listener: an end is ready only  *)
(* after a null of its peer, which listens before it posts.                *)
DataFindsListener ==
  \A e \in Ends : (\E n \in Data : InQueue(n, channel[e])) => phase[e] # "absent"

(* No data reaches an endpoint before it is ready, because the peer's last *)
(* null is ahead of all its data: _inbox is never used.                    *)
InboxStaysEmpty == \A e \in Ends : inbox[e] = <<>>

(* Even when a queued send throws and takes others down with it, what does *)
(* arrive arrives once, and in the order it was sent.                      *)
ArrivesInOrder ==
  \A e \in Ends : \A i, j \in DOMAIN arrived[e] : i < j => arrived[e][i] < arrived[e][j]

(* The handshake hides a lossless channel: once ready or not, what one end *)
(* sends arrives at the other exactly once and in order, of callers whose  *)
(* values can all be cloned.                                               *)
Channel == INSTANCE Link WITH
  Receivers <- Ends,
  submitted <- [e \in Ends |-> IF mayThrow THEN 0 ELSE sent[Peer(e)]],
  arrived <- [e \in Ends |-> IF mayThrow THEN <<>> ELSE arrived[e]]

ImplementsLink == Channel!LinkSpec

(* Both ends become ready, whichever listens first and whatever was lost.  *)
BothBecomeReady == <>[](\A e \in Ends : phase[e] = "ready")

(* Whatever such a caller has sent, or queued for the handshake, arrives.  *)
DataArrives ==
  \A e \in Ends : \A n \in Data :
    ~ mayThrow /\ sent[e] >= n ~> InQueue(n, arrived[Peer(e)])

-----------------------------------------------------------------------------
(* "Post ..., or queue it until the handshake completes" (endpoint.mjs,    *)
(* _send): when an endpoint is ready, everything its caller has sent has   *)
(* been posted.                                                            *)
QueuedSendsArePosted ==
  \A e \in jsEnds : phase[e] = "ready" =>
    \A n \in 1 .. sent[e] :
      InQueue(n, channel[Peer(e)]) \/ InQueue(n, inbox[Peer(e)]) \/ InQueue(n, arrived[Peer(e)])
=============================================================================
