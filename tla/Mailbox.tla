------------------------------- MODULE Mailbox --------------------------------
(***************************************************************************)
(* QuicheMailbox: the io and sender threads Post events, application       *)
(* threads Poll for them, and a destructor calls Shutdown.  The mutex is   *)
(* held for a whole step, except that a poller blocked on the condition    *)
(* variable has given it up: it waits to be chosen by notify_one, to wake  *)
(* spuriously or to time out, and then for the mutex to look again.        *)
(***************************************************************************)
EXTENDS Integers, Sequences, FiniteSets

CONSTANTS
  Pollers,   \* threads that call Poll
  Timed,     \* those that give a timeout_msec >= 0
  MaxPosts   \* bound: events posted in a behaviour

ASSUME MailboxAssumption == Timed \subseteq Pollers /\ MaxPosts \in Nat

VARIABLES
  posted,      \* how many events were posted: they are 1..posted
  events,      \* events_
  terminated,  \* terminated_
  pc,          \* of each poller: see Place
  batch,       \* of each poller: the events swapped out, not yet delivered
  log          \* of each poller: the events its callback was called with

vars == <<posted, events, terminated, pc, batch, log>>

(* "out": not in Poll; "waiting": blocked; "woken": notified, about to     *)
(* evaluate the predicate; "expired": timed out, about to evaluate it for  *)
(* the last time; "delivering": past the lock, calling back.               *)
Place == {"out", "waiting", "woken", "expired", "delivering"}

EventSeq == Seq(1..posted)

TypeOK ==
  /\ posted \in 0..MaxPosts
  /\ events \in EventSeq
  /\ terminated \in BOOLEAN
  /\ pc \in [Pollers -> Place]
  /\ batch \in [Pollers -> EventSeq]
  /\ log \in [Pollers -> EventSeq]
  /\ \A p \in Pollers : batch[p] # <<>> <=> pc[p] = "delivering"

Init ==
  /\ posted = 0
  /\ events = <<>>
  /\ terminated = FALSE
  /\ pc = [p \in Pollers |-> "out"]
  /\ batch = [p \in Pollers |-> <<>>]
  /\ log = [p \in Pollers |-> <<>>]

Waiting == {p \in Pollers : pc[p] = "waiting"}

(* notify_one moves one blocked poller on, if there is one.                *)
NotifyOne ==
  IF Waiting = {}
  THEN pc' = pc
  ELSE \E p \in Waiting : pc' = [pc EXCEPT ![p] = "woken"]

(* Mutant: Post does not notify.                                           *)
PostQuietly ==
  /\ posted < MaxPosts
  /\ posted' = posted + 1
  /\ events' = Append(events, posted')
  /\ UNCHANGED <<terminated, pc, batch, log>>

Post ==
  /\ posted < MaxPosts
  /\ posted' = posted + 1
  /\ events' = Append(events, posted')
  /\ NotifyOne
  /\ UNCHANGED <<terminated, batch, log>>

(* Mutant: Shutdown does not notify.                                       *)
ShutdownQuietly ==
  /\ ~terminated
  /\ terminated' = TRUE
  /\ UNCHANGED <<posted, events, pc, batch, log>>

Shutdown ==
  /\ ~terminated
  /\ terminated' = TRUE
  /\ NotifyOne
  /\ UNCHANGED <<posted, events, batch, log>>

(* The predicate of the wait, evaluated with the mutex held.               *)
Ready == terminated \/ events # <<>>

(* Mutants: after a timeout or a shutdown the events are taken unchecked.  *)
LeaveWaitEmpty(p) ==
  \/ /\ terminated
     /\ pc' = [pc EXCEPT ![p] = "out"]
     /\ UNCHANGED <<events, batch>>
  \/ /\ ~terminated
     /\ pc' = [pc EXCEPT ![p] = "delivering"]
     /\ batch' = [batch EXCEPT ![p] = events]
     /\ events' = <<>>

LeaveWaitClosed(p) ==
  \/ /\ events = <<>>
     /\ pc' = [pc EXCEPT ![p] = "out"]
     /\ UNCHANGED <<events, batch>>
  \/ /\ events # <<>>
     /\ pc' = [pc EXCEPT ![p] = "delivering"]
     /\ batch' = [batch EXCEPT ![p] = events]
     /\ events' = <<>>

(* Poll leaves the wait: it returns, or swaps the events out.              *)
LeaveWait(p) ==
  \/ /\ terminated \/ events = <<>>
     /\ pc' = [pc EXCEPT ![p] = "out"]
     /\ UNCHANGED <<events, batch>>
  \/ /\ ~terminated /\ events # <<>>
     /\ pc' = [pc EXCEPT ![p] = "delivering"]
     /\ batch' = [batch EXCEPT ![p] = events]
     /\ events' = <<>>

(* Poll is called, or a woken poller has the mutex again.                  *)
Look(p) ==
  /\ pc[p] \in {"out", "woken"}
  /\ \/ Ready /\ LeaveWait(p)
     \/ ~Ready /\ pc' = [pc EXCEPT ![p] = "waiting"] /\ UNCHANGED <<events, batch>>
  /\ UNCHANGED <<posted, terminated, log>>

(* A condition variable may wake without a reason.                         *)
WakeSpuriously(p) ==
  /\ pc[p] = "waiting"
  /\ pc' = [pc EXCEPT ![p] = "woken"]
  /\ UNCHANGED <<posted, events, terminated, batch, log>>

TimeOut(p) ==
  /\ p \in Timed /\ pc[p] = "waiting"
  /\ pc' = [pc EXCEPT ![p] = "expired"]
  /\ UNCHANGED <<posted, events, terminated, batch, log>>

LastLook(p) ==
  /\ pc[p] = "expired"
  /\ LeaveWait(p)
  /\ UNCHANGED <<posted, terminated, log>>

(* Mutant: the batch is delivered from its end.                            *)
DeliverLast(p) ==
  /\ pc[p] = "delivering"
  /\ log' = [log EXCEPT ![p] = Append(@, batch[p][Len(batch[p])])]
  /\ batch' = [batch EXCEPT ![p] = SubSeq(@, 1, Len(@) - 1)]
  /\ pc' = [pc EXCEPT ![p] = IF Len(batch[p]) = 1 THEN "out" ELSE "delivering"]
  /\ UNCHANGED <<posted, events, terminated>>

(* The callback runs without the mutex.                                    *)
Deliver(p) ==
  /\ pc[p] = "delivering"
  /\ log' = [log EXCEPT ![p] = Append(@, Head(batch[p]))]
  /\ batch' = [batch EXCEPT ![p] = Tail(@)]
  /\ pc' = [pc EXCEPT ![p] = IF Len(batch[p]) = 1 THEN "out" ELSE "delivering"]
  /\ UNCHANGED <<posted, events, terminated>>

Next ==
  \/ Post \/ Shutdown
  \/ \E p \in Pollers :
       Look(p) \/ WakeSpuriously(p) \/ TimeOut(p) \/ LastLook(p) \/ Deliver(p)

Spec == Init /\ [][Next]_vars

(* The application keeps polling and its callbacks return.  A blocked      *)
(* poller is only sure to move when it is notified.                        *)
FairSpec ==
  /\ Spec
  /\ \A p \in Pollers : WF_vars(Look(p) \/ LastLook(p)) /\ WF_vars(Deliver(p))

-----------------------------------------------------------------------------
(* The mailbox is the event queue: the waiting, the waking and the timeouts*)
(* of the pollers are invisible.                                           *)
Queue == INSTANCE EventQueue
  WITH Consumers <- Pollers, MaxEvents <- MaxPosts,
       next <- posted, queue <- events, owed <- batch, closed <- terminated

ImplementsQueue == Queue!Spec

(* Each event is in one place, and a poller's callback sees its events in  *)
(* the order they were posted.                                             *)
Increasing(seq) == \A i, j \in DOMAIN seq : i < j => seq[i] < seq[j]

EventsOf(seq) == {seq[i] : i \in DOMAIN seq}

OnceInOrder ==
  /\ \A p \in Pollers : Increasing(log[p] \o batch[p] \o events)
  /\ \A p, q \in Pollers :
       p # q => EventsOf(log[p] \o batch[p]) \cap EventsOf(log[q] \o batch[q]) = {}
  /\ EventsOf(events) \cup UNION {EventsOf(log[p] \o batch[p]) : p \in Pollers}
       = 1..posted

(* No wakeup is lost: while an event waits for a poller and one is blocked,*)
(* another one is on its way to the mutex and will find the event.         *)
NoLostWakeup ==
  events # <<>> /\ ~terminated /\ Waiting # {}
    => \E p \in Pollers : pc[p] \in {"woken", "expired"}

(* Shutdown notifies one poller only: it frees a single poller for good,   *)
(* and never leaves all of several blocked.                                *)
ShutdownFreesOne == terminated => Waiting # Pollers

(* A posted event reaches a callback unless the mailbox is shut down.      *)
PostedIsDelivered ==
  \A e \in 1..MaxPosts :
    posted >= e ~> (terminated \/ \E p \in Pollers : e \in EventsOf(log[p]))
=============================================================================
