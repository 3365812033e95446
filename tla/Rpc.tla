--------------------------------- MODULE Rpc ---------------------------------
(***************************************************************************)
(* What a remote call promises, with no queue, map or message in sight.    *)
(* A caller makes a call; the callee runs it at most once, and only after  *)
(* it was made; a value is returned only after the callee has answered; a  *)
(* stream ends for its caller only after the callee has ended it and the   *)
(* caller has had everything it made; and the callee is cancelled only     *)
(* when the caller has given the call up, or when the callee leaves.       *)
(***************************************************************************)
EXTENDS Naturals

CONSTANTS Callers, Ids, MaxMade

VARIABLES
  caller,   \* "idle", "notified", "waiting", "closed", "returned", "ended", "gone"
  callee,   \* "idle", "working", "answered", "cancelled"
  made,     \* items the callee has made
  got,      \* items the caller has had
  left      \* callers whose callee has left

rpcVars == <<caller, callee, made, got, left>>

RpcInit ==
  /\ caller = [c \in Callers |-> [i \in Ids |-> "idle"]]
  /\ callee = [c \in Callers |-> [i \in Ids |-> "idle"]]
  /\ made = [c \in Callers |-> [i \in Ids |-> 0]]
  /\ got = [c \in Callers |-> [i \in Ids |-> 0]]
  /\ left = {}

CallerMoves(c, i, from, to) ==
  /\ caller[c][i] \in from
  /\ caller' = [caller EXCEPT ![c][i] = to]
  /\ UNCHANGED <<callee, made, got, left>>

CalleeMoves(c, i, from, to) ==
  /\ callee[c][i] = from
  /\ callee' = [callee EXCEPT ![c][i] = to]
  /\ UNCHANGED <<caller, made, got, left>>

MakeCall(c, i) == \E to \in {"notified", "waiting"} : CallerMoves(c, i, {"idle"}, to)

StartWork(c, i) ==
  /\ caller[c][i] # "idle"
  /\ \E to \in {"working", "answered"} : CalleeMoves(c, i, "idle", to)

MakeItem(c, i) ==
  /\ callee[c][i] = "working"
  /\ made[c][i] < MaxMade
  /\ made' = [made EXCEPT ![c][i] = @ + 1]
  /\ UNCHANGED <<caller, callee, got, left>>

Answer(c, i) == CalleeMoves(c, i, "working", "answered")

Cancel(c, i) ==
  /\ caller[c][i] \in {"closed", "gone"} \/ c \in left
  /\ CalleeMoves(c, i, "working", "cancelled")

GetItem(c, i) ==
  /\ caller[c][i] \in {"waiting", "closed"}
  /\ got[c][i] < made[c][i]
  /\ got' = [got EXCEPT ![c][i] = @ + 1]
  /\ UNCHANGED <<caller, callee, made, left>>

Return(c, i) ==
  /\ callee[c][i] = "answered"
  /\ CallerMoves(c, i, {"waiting"}, "returned")

EndOfStream(c, i) ==
  /\ callee[c][i] \in {"answered", "cancelled"}
  /\ got[c][i] = made[c][i]
  /\ CallerMoves(c, i, {"waiting", "closed"}, "ended")

(* A caller closes or drops any of its calls; one that leaves, all, and    *)
(* from then on it serves d no longer.                                     *)
GivenUp == {<<"waiting", "closed">>, <<"waiting", "gone">>, <<"closed", "gone">>}
GiveUp(c) ==
  \E given \in SUBSET Ids, to \in [Ids -> {"closed", "gone"}] :
    /\ \A i \in given : <<caller[c][i], to[i]>> \in GivenUp
    /\ caller' = [caller EXCEPT ![c] = [i \in Ids |-> IF i \in given THEN to[i] ELSE @[i]]]
    /\ UNCHANGED left \/ \E d \in Callers : left' = left \cup {d}
    /\ UNCHANGED <<callee, made, got>>

RpcNext ==
  \/ \E c \in Callers, i \in Ids :
       \/ MakeCall(c, i)
       \/ StartWork(c, i)
       \/ MakeItem(c, i)
       \/ Answer(c, i)
       \/ Cancel(c, i)
       \/ GetItem(c, i)
       \/ Return(c, i)
       \/ EndOfStream(c, i)
  \/ \E c \in Callers : GiveUp(c)

RpcSpec == RpcInit /\ [][RpcNext]_rpcVars
=============================================================================
