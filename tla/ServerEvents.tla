----------------------------- MODULE ServerEvents -----------------------------
(***************************************************************************)
(* What the application of a server may rely on: the events of each        *)
(* connection come in order, and although a Connect event does not say     *)
(* which connection it is for, the first Data event to be posted after it  *)
(* does.                                                                   *)
(***************************************************************************)
CONSTANT Connections  \* the identifiers that the server assigns

VARIABLES
  stage,      \* of each connection: "new", "connected" or "over"
  announced,  \* the connection whose Connect was posted and its Data not, if any
  posted      \* the event last posted to the mailbox

vars == <<stage, announced, posted>>

(* The identifier of a Connect event is never assigned: its initializer    *)
(* names the event that is being built.                                    *)
Connect == [type |-> "Connect", id |-> 0]
Data(c) == [type |-> "Data", id |-> c]
Timeout(c) == [type |-> "Timeout", id |-> c]

Init ==
  /\ stage = [c \in Connections |-> "new"]
  /\ announced = {}
  /\ posted = [type |-> "none", id |-> 0]

Announce(c) ==
  /\ stage[c] = "new" /\ announced = {}
  /\ stage' = [stage EXCEPT ![c] = "connected"]
  /\ announced' = {c}
  /\ posted' = Connect

Request(c) ==
  /\ stage[c] = "connected" /\ announced \subseteq {c}
  /\ announced' = {}
  /\ posted' = Data(c)
  /\ UNCHANGED stage

End(c) ==
  /\ stage[c] # "over" /\ c \notin announced
  /\ stage' = [stage EXCEPT ![c] = "over"]
  /\ posted' = Timeout(c)
  /\ UNCHANGED announced

Next == \E c \in Connections : Announce(c) \/ Request(c) \/ End(c)

Spec == Init /\ [][Next]_vars
=============================================================================
