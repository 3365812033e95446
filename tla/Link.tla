--------------------------------- MODULE Link -------------------------------
(***************************************************************************)
(* What both halves of a connection take for granted: whatever one end     *)
(* sends arrives at the other, once and in the order sent.  Messages       *)
(* towards an end are numbered from one.                                   *)
(***************************************************************************)
EXTENDS Naturals, Sequences

CONSTANT Receivers

VARIABLES
  submitted,   \* how many messages have been sent towards each end
  arrived      \* the messages each end has had

linkVars == <<submitted, arrived>>

LinkInit ==
  /\ submitted = [e \in Receivers |-> 0]
  /\ arrived = [e \in Receivers |-> <<>>]

Submit(e) ==
  /\ submitted' = [submitted EXCEPT ![e] = @ + 1]
  /\ UNCHANGED arrived

Arrive(e) ==
  /\ Len(arrived[e]) < submitted[e]
  /\ arrived' = [arrived EXCEPT ![e] = Append(@, Len(@) + 1)]
  /\ UNCHANGED submitted

LinkNext == \E e \in Receivers : Submit(e) \/ Arrive(e)

LinkSpec == LinkInit /\ [][LinkNext]_linkVars
=============================================================================
