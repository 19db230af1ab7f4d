-------------------------------- MODULE Logger --------------------------------
(***************************************************************************)
(* The process-wide Logger: any thread queues lines, the logger's thread   *)
(* writes them, and the destructor of the static instance stops that       *)
(* thread and writes what is left.                                         *)
(*                                                                         *)
(* Log holds the mutex for one step.  The logger's thread holds it from    *)
(* its test of the queue until it blocks, which is when Terminate, which   *)
(* does not take it, may come between.  Levels are left out: a line is one *)
(* that is enabled when it is logged and when it is written.               *)
(***************************************************************************)
EXTENDS Integers, Sequences

CONSTANT MaxLogs  \* bound: lines logged in a behaviour

ASSUME LoggerAssumption == MaxLogs \in Nat

VARIABLES
  logged,         \* lines logged so far: they are 1..logged
  LogQueue,       \* lines queued
  LogsToProcess,  \* lines taken and not written
  written,        \* lines written, in this order
  Terminated,
  thread,         \* where the logger's thread is: see Place
  main            \* the thread that destroys the logger: see Destruction

lines == <<logged, LogQueue, LogsToProcess, written>>
vars == <<lines, Terminated, thread, main>>

(* "top": before the loop's test; "locking": before the mutex; "blocking": *)
(* past the test of the queue, with the mutex; "waiting": without it.      *)
Place == {"top", "locking", "blocking", "waiting", "processing", "exited"}

(* "flagged": in Terminate, before notify_one.                             *)
Destruction == {"alive", "flagged", "joining", "draining", "done"}

TypeOK ==
  /\ logged \in 0..MaxLogs
  /\ LogQueue \in Seq(1..logged)
  /\ LogsToProcess \in Seq(1..logged)
  /\ written \in Seq(1..logged)
  /\ Terminated \in BOOLEAN
  /\ thread \in Place /\ main \in Destruction
  /\ Terminated <=> main # "alive"
  /\ thread = "exited" => Terminated
  /\ main \in {"draining", "done"} => thread = "exited"
  /\ LogsToProcess # <<>> => thread = "processing" \/ main = "draining"

Init ==
  /\ logged = 0
  /\ LogQueue = <<>> /\ LogsToProcess = <<>> /\ written = <<>>
  /\ Terminated = FALSE
  /\ thread = "top" /\ main = "alive"

-----------------------------------------------------------------------------
MutexFree == thread # "blocking"

Notify == thread' = IF thread = "waiting" THEN "locking" ELSE thread

(* Mutant: nobody is told.                                                 *)
LogQuietly ==
  /\ MutexFree /\ main \in {"alive", "flagged", "joining"}
  /\ logged < MaxLogs
  /\ logged' = logged + 1
  /\ LogQueue' = Append(LogQueue, logged')
  /\ UNCHANGED <<LogsToProcess, written, Terminated, thread, main>>

(* Nobody logs once the destructor has joined the thread: the object ends. *)
Log ==
  /\ MutexFree /\ main \in {"alive", "flagged", "joining"}
  /\ logged < MaxLogs
  /\ logged' = logged + 1
  /\ LogQueue' = Append(LogQueue, logged')
  /\ Notify
  /\ UNCHANGED <<LogsToProcess, written, Terminated, main>>

(* Mutant: the queue is copied.                                            *)
Copy == LogsToProcess' = LogQueue /\ LogQueue' = LogQueue

Swap == LogsToProcess' = LogQueue /\ LogQueue' = LogsToProcess

-----------------------------------------------------------------------------
(* The logger's thread.                                                    *)

Loop ==
  /\ thread = "top"
  /\ thread' = IF Terminated THEN "exited" ELSE "locking"
  /\ UNCHANGED <<lines, Terminated, main>>

(* Mutant: the predicate forgets the flag.                                 *)
TestQueueOnly ==
  /\ thread = "locking"
  /\ \/ /\ LogQueue # <<>>
        /\ Swap
        /\ thread' = "processing"
     \/ /\ LogQueue = <<>>
        /\ thread' = "blocking"
        /\ UNCHANGED <<LogQueue, LogsToProcess>>
  /\ UNCHANGED <<logged, written, Terminated, main>>

(* The predicate of wait, and what follows when it holds.                  *)
Test ==
  /\ thread = "locking"
  /\ \/ /\ LogQueue # <<>> \/ Terminated
        /\ Swap
        /\ thread' = "processing"
     \/ /\ LogQueue = <<>> /\ ~Terminated
        /\ thread' = "blocking"
        /\ UNCHANGED <<LogQueue, LogsToProcess>>
  /\ UNCHANGED <<logged, written, Terminated, main>>

Block ==
  /\ thread = "blocking" /\ thread' = "waiting"
  /\ UNCHANGED <<lines, Terminated, main>>

WakeSpuriously ==
  /\ thread = "waiting" /\ thread' = "locking"
  /\ UNCHANGED <<lines, Terminated, main>>

Processed ==
  /\ thread = "processing" /\ LogsToProcess = <<>>
  /\ thread' = "top"
  /\ UNCHANGED <<lines, Terminated, main>>

(* ProcessLogQueue, in the logger's thread or in the destructor's.         *)
Write ==
  /\ thread = "processing" \/ main = "draining"
  /\ LogsToProcess # <<>>
  /\ written' = Append(written, Head(LogsToProcess))
  /\ LogsToProcess' = Tail(LogsToProcess)
  /\ UNCHANGED <<logged, LogQueue, Terminated, thread, main>>

-----------------------------------------------------------------------------
(* The destructor.                                                         *)

SetTerminated ==
  /\ main = "alive" /\ main' = "flagged"
  /\ Terminated' = TRUE
  /\ UNCHANGED <<lines, thread>>

NotifyTerminated ==
  /\ main = "flagged" /\ main' = "joining"
  /\ Notify
  /\ UNCHANGED <<lines, Terminated>>

(* Mutant: the thread is not joined.                                       *)
JoinNobody ==
  /\ main = "joining" /\ main' = "draining"
  /\ Swap
  /\ UNCHANGED <<logged, written, Terminated, thread>>

Join ==
  /\ main = "joining" /\ thread = "exited"
  /\ main' = "draining"
  /\ Swap
  /\ UNCHANGED <<logged, written, Terminated, thread>>

Drained ==
  /\ main = "draining" /\ LogsToProcess = <<>>
  /\ main' = "done"
  /\ UNCHANGED <<lines, Terminated, thread>>

-----------------------------------------------------------------------------
RunLogger == Loop \/ Test \/ Block \/ Processed \/ Write

Destroy == NotifyTerminated \/ Join \/ Drained

Next == Log \/ RunLogger \/ WakeSpuriously \/ SetTerminated \/ Destroy

Spec == Init /\ [][Next]_vars

(* Both threads go on; nobody has to log or to destroy the logger, and no  *)
(* wakeup is spurious by duty.                                             *)
FairSpec == Spec /\ WF_vars(RunLogger) /\ WF_vars(Destroy)

-----------------------------------------------------------------------------
(* Each line is written once, in the order of logging, and none is lost,   *)
(* across the swaps of both threads and the end of one of them: when the   *)
(* destructor has ended, all are written.                                  *)
OnceInOrder ==
  /\ written \o LogsToProcess \o LogQueue = [i \in 1..logged |-> i]
  /\ main = "done" => written = [i \in 1..logged |-> i]

(* Each line gets out, during the logger's life or in its destructor, also *)
(* when Terminate's notification was missed.                               *)
LinesGetOut ==
  \A i \in 1..MaxLogs : logged >= i ~> Len(written) >= i

(* The notification of Terminate has come between the thread's test and    *)
(* its wait: the destructor joins a thread that only another line wakes.   *)
Missed == main = "joining" /\ thread \in {"blocking", "waiting"}

(* The destructor ends, whatever the thread was doing when Terminate set   *)
(* its flag and wherever it was when it was notified, that gap excepted.   *)
DestructorEnds == main = "joining" /\ ~Missed ~> main = "done"
=============================================================================
