----------------------------- MODULE BodyTransfer -----------------------------
(***************************************************************************)
(* What a connection promises about the bodies it is given, without its    *)
(* cache, its queue and its retries: a stream is given to one call, carries*)
(* that call's body from the first unit on, and is ended once, after all of*)
(* it.                                                                     *)
(***************************************************************************)
EXTENDS Integers, Sequences

CONSTANTS
  Streams,
  Calls,
  Nobody,   \* owns the streams that carry nothing yet
  MaxBody   \* bound: units in the longest body

VARIABLES
  owner,  \* of each stream: the call whose body it carries, or Nobody
  size,   \* of each stream: the length of that body, 0 before
  sent,   \* of each stream: the units it has carried
  ended   \* streams that were ended

vars == <<owner, size, sent, ended>>

Body(c, n) == [i \in 1..n |-> <<c, i>>]

Init ==
  /\ owner = [s \in Streams |-> Nobody]
  /\ size = [s \in Streams |-> 0]
  /\ sent = [s \in Streams |-> <<>>]
  /\ ended = {}

(* Stream s has carried m of the n units of call c's body, and may be ended*)
(* with the last.                                                          *)
Carry(s, c, n, m) ==
  /\ sent' = [sent EXCEPT ![s] = Body(c, m)]
  /\ \/ ended' = ended
     \/ m = n /\ ended' = ended \cup {s}

Begin(s, c, n) ==
  /\ owner[s] = Nobody
  /\ \A t \in Streams : owner[t] # c
  /\ owner' = [owner EXCEPT ![s] = c]
  /\ size' = [size EXCEPT ![s] = n]
  /\ \E m \in 0..n : Carry(s, c, n, m)

More(s) ==
  /\ owner[s] # Nobody /\ s \notin ended
  /\ \E m \in Len(sent[s])..size[s] : Carry(s, owner[s], size[s], m)
  /\ UNCHANGED <<owner, size>>

Next ==
  \/ \E s \in Streams, c \in Calls, n \in 0..MaxBody : Begin(s, c, n)
  \/ \E s \in Streams : More(s)

Spec == Init /\ [][Next]_vars
=============================================================================
