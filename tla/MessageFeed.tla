------------------------------ MODULE MessageFeed ------------------------------
(***************************************************************************)
(* What on_data makes of a connection's streams, as the application may    *)
(* rely on it: each stream gives one message or none, a message has all of *)
(* its body, and a server's first one, which is one it accepts, comes with *)
(* Connect.  The order of quiche's reports, the entries that collect a     *)
(* message and the reads that fill them are not seen.                      *)
(***************************************************************************)
EXTENDS Integers, Sequences

CONSTANTS
  Streams,
  Accepted  \* streams with a message that opens a connection to a server

VARIABLES
  server,  \* the connection is a server's
  open,    \* the application has been, or need not be, told of the connection
  size,    \* of each stream: how much of its message has arrived
  whole,   \* streams whose message has arrived to its end
  over,    \* streams that will give no message any more
  log      \* the events posted to the application

vars == <<server, open, size, whole, over, log>>

Connect == [type |-> "Connect"]
Message(s) ==
  [type |-> "Data", stream |-> s, headed |-> TRUE, body |-> [i \in 1..size[s] |-> i]]

Init ==
  /\ server \in BOOLEAN
  /\ open \in IF server THEN {FALSE} ELSE BOOLEAN
  /\ size = [s \in Streams |-> 0]
  /\ whole = {} /\ over = {}
  /\ log = <<>>

Arrive(s) ==
  /\ s \notin whole
  /\ \/ size' = [size EXCEPT ![s] = @ + 1] /\ UNCHANGED whole
     \/ whole' = whole \cup {s} /\ UNCHANGED size
  /\ UNCHANGED <<server, open, over, log>>

Discard(s) ==
  /\ s \notin over
  /\ over' = over \cup {s}
  /\ UNCHANGED <<server, open, size, whole, log>>

Deliver(s) ==
  /\ s \in whole \ over
  /\ over' = over \cup {s}
  /\ \/ /\ open
        /\ log' = Append(log, Message(s))
        /\ UNCHANGED open
     \/ /\ server /\ ~open /\ s \in Accepted
        /\ log' = log \o <<Connect, Message(s)>>
        /\ open' = TRUE
  /\ UNCHANGED <<server, size, whole>>

Next == \E s \in Streams : Arrive(s) \/ Discard(s) \/ Deliver(s)

Spec == Init /\ [][Next]_vars
=============================================================================
