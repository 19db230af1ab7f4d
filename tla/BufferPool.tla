------------------------------ MODULE BufferPool ------------------------------
(***************************************************************************)
(* What SendAllocator promises its users, without its mutex, its list and  *)
(* its count: a user that needs a buffer gets one that is free, and only   *)
(* when there is none a new one; a buffer comes back once it was sent.     *)
(***************************************************************************)
EXTENDS Integers

CONSTANT Users

VARIABLES
  made,     \* how many buffers were made: they are 1..made
  free,     \* buffers that nobody uses
  held,     \* of each user: the set of the buffers it has, one at most
  sending,  \* buffers that the socket reads
  dropped   \* buffers that will not come back

vars == <<made, free, held, sending, dropped>>

Init ==
  /\ made = 0
  /\ free = {} /\ sending = {} /\ dropped = {}
  /\ held = [u \in Users |-> {}]

Acquire(u) ==
  /\ held[u] = {}
  /\ \/ \E b \in free :
          /\ held' = [held EXCEPT ![u] = {b}]
          /\ free' = free \ {b}
          /\ UNCHANGED made
     \/ /\ free = {}
        /\ made' = made + 1
        /\ held' = [held EXCEPT ![u] = {made'}]
        /\ UNCHANGED free
  /\ UNCHANGED <<sending, dropped>>

GiveUp(u) ==
  /\ held[u] # {}
  /\ held' = [held EXCEPT ![u] = {}]
  /\ UNCHANGED made

Submit(u) ==
  /\ GiveUp(u)
  /\ sending' = sending \cup held[u]
  /\ UNCHANGED <<free, dropped>>

Release(u) ==
  /\ GiveUp(u)
  /\ free' = free \cup held[u]
  /\ UNCHANGED <<sending, dropped>>

Drop(u) ==
  /\ GiveUp(u)
  /\ dropped' = dropped \cup held[u]
  /\ UNCHANGED <<free, sending>>

Sent(b) ==
  /\ b \in sending
  /\ sending' = sending \ {b}
  /\ free' = free \cup {b}
  /\ UNCHANGED <<made, held, dropped>>

Next ==
  \/ \E u \in Users : Acquire(u) \/ Submit(u) \/ Release(u) \/ Drop(u)
  \/ \E b \in sending : Sent(b)

Spec == Init /\ [][Next]_vars
=============================================================================
