------------------------------ MODULE EventQueue ------------------------------
(***************************************************************************)
(* What the mailbox promises the application, without its lock and its     *)
(* condition variable: events are numbered as they are put, a consumer     *)
(* claims everything that is waiting and handles it in order, and once the *)
(* queue is closed nothing more is claimed.                                *)
(***************************************************************************)
EXTENDS Integers, Sequences

CONSTANTS
  Consumers,  \* threads that take events
  MaxEvents   \* bound: events put in a behaviour

VARIABLES
  next,    \* how many events were put: they are 1..next
  queue,   \* events nobody has claimed, oldest first
  owed,    \* of each consumer: claimed and not yet handled
  log,     \* of each consumer: the events it has handled
  closed

vars == <<next, queue, owed, log, closed>>

Init ==
  /\ next = 0
  /\ queue = <<>>
  /\ owed = [p \in Consumers |-> <<>>]
  /\ log = [p \in Consumers |-> <<>>]
  /\ closed = FALSE

Put ==
  /\ next < MaxEvents
  /\ next' = next + 1
  /\ queue' = Append(queue, next')
  /\ UNCHANGED <<owed, log, closed>>

Claim(p) ==
  /\ ~closed /\ queue # <<>> /\ owed[p] = <<>>
  /\ owed' = [owed EXCEPT ![p] = queue]
  /\ queue' = <<>>
  /\ UNCHANGED <<next, log, closed>>

Handle(p) ==
  /\ owed[p] # <<>>
  /\ log' = [log EXCEPT ![p] = Append(@, Head(owed[p]))]
  /\ owed' = [owed EXCEPT ![p] = Tail(@)]
  /\ UNCHANGED <<next, queue, closed>>

Close ==
  /\ closed' = TRUE
  /\ UNCHANGED <<next, queue, owed, log>>

Next == Put \/ Close \/ \E p \in Consumers : Claim(p) \/ Handle(p)

Spec == Init /\ [][Next]_vars
=============================================================================
