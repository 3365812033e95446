---------------------------- MODULE HandshakeInv ----------------------------
(***************************************************************************)
(* The inductive invariant behind the safety properties of Handshake.      *)
(***************************************************************************)
EXTENDS Handshake

Listening(e) == phase[e] # "absent"

HasData(q) == \E n \in Data : InQueue(n, q)

(* Whoever has posted anything listens, whether or not it has been heard.  *)
SendersListen ==
  \A e \in Ends :
    /\ channel[e] # <<>> => Listening(Peer(e))
    /\ phase[e] \in {"woken", "ready"} => Listening(Peer(e))

DataIsFromReady == \A e \in Ends : HasData(channel[e]) => phase[Peer(e)] = "ready"

(* An end that still waits for a null has one at the head of its channel,  *)
(* ahead of all data, as soon as its peer is ready.                        *)
NullComesFirst ==
  \A e \in Ends :
    phase[e] = "polling" /\ phase[Peer(e)] = "ready" =>
      channel[e] # <<>> /\ Head(channel[e]) = Null

(* The conjunction is inductive.                                           *)
HandshakeInvariant ==
  /\ TypeOK
  /\ SendersListen
  /\ DataIsFromReady
  /\ NullComesFirst
  /\ InboxStaysEmpty

-----------------------------------------------------------------------------
(* On top of it, the invariant behind the order of the data.               *)

(* The data in q are messages a + 1 .. b, each once and in order: some of  *)
(* them, or all.                                                           *)
Carries(q, a, b, all) ==
  /\ \A i \in DOMAIN q : q[i] \in Data => q[i] \in a + 1 .. b
  /\ \A i, j \in DOMAIN q : q[i] \in Data /\ q[j] \in Data /\ i < j => q[i] < q[j]
  /\ all => \A n \in a + 1 .. b : InQueue(n, q)

FirstData(n) == [i \in 1 .. n |-> i]

(* Of n messages the first a have arrived, the next up to the b-th are     *)
(* posted, and the others are queued.                                      *)
InOrder(had, posted, waiting, n, all) ==
  \E a, b \in 0 .. n :
    /\ a <= b
    /\ Carries(had, 0, a, all)
    /\ all => had = FirstData(a)
    /\ Carries(posted, a, b, all)
    /\ Carries(waiting, b, n, all)

(* What was sent to e; nothing is missing unless a queued send may throw.  *)
DataInOrder(e) == InOrder(arrived[e], channel[e], queued[Peer(e)], sent[Peer(e)], ~ mayThrow)

(* Only endpoints queue sends, and only until the handshake is over.       *)
QueuedBeforeReady ==
  \A e \in Ends :
    /\ queued[e] # <<>> => e \in jsEnds /\ phase[e] = "polling"
    /\ Throws(queued[e]) => mayThrow

(* The conjunction is inductive.                                           *)
OrderInvariant ==
  /\ HandshakeInvariant
  /\ QueuedBeforeReady
  /\ \A e \in Ends : DataInOrder(e)
=============================================================================
