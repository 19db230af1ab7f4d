---------------------------- MODULE SendAllocator -----------------------------
(***************************************************************************)
(* The datagram buffers: SendAllocator's free list, the threads that run   *)
(* FlushEgress (the sender's, which keeps a buffer between two flushes, and*)
(* the io and application threads, which return theirs), the answers that a*)
(* server sends outside any connection, and the handlers of async_send_to, *)
(* which return the buffers that are in flight.                            *)
(*                                                                         *)
(* Allocate reads free_buffers_count_ without the mutex: the read is a step*)
(* of its own.  What runs with the mutex held is one step; a read of the   *)
(* count in the middle of it sees what a read just before it would see.    *)
(***************************************************************************)
EXTENDS Integers, Sequences, FiniteSets

CONSTANTS
  Threads,    \* threads that run FlushEgress
  Sender,     \* the one that runs QuicheSender::Loop
  Io,         \* the one that runs the io_context
  MaxFlight,  \* bound: buffers in flight at once
  MaxGone     \* bound: buffers destroyed in a behaviour

ASSUME SendAllocatorAssumption ==
  /\ IsFiniteSet(Threads) /\ Sender \in Threads /\ Io \in Threads \ {Sender}
  /\ MaxFlight \in Nat /\ MaxGone \in Nat

VARIABLES
  made,       \* how many buffers were made: they are 1..made
  pool,       \* free_buffers_
  count,      \* free_buffers_count_
  pc,         \* of each thread: see Place
  answering,  \* the io thread is in SendRetry or SendVersionNegotiation
  buffer,     \* of each thread: the buffer it holds, NoBuffer for none
  flight,     \* buffers handed to async_send_to, whose handler has not run
  gone        \* buffers destroyed without a Free

vars == <<made, pool, count, pc, answering, buffer, flight, gone>>

NoBuffer == 0

(* "out": neither flushing nor answering; "allocating": at the test of the *)
(* count; "locking": in Allocate, the count was positive; "writing": about *)
(* to have quiche write a datagram; "freeing": past the loop of FlushEgress*)
(* with a buffer to return.                                                *)
Place == {"out", "allocating", "locking", "writing", "freeing", "ended"}

TypeOK ==
  /\ made \in Nat
  /\ pool \in Seq(1..made)
  /\ count \in Nat
  /\ pc \in [Threads -> Place]
  /\ answering \in BOOLEAN
  /\ buffer \in [Threads -> 0..made]
  /\ flight \in SUBSET (1..made)
  /\ gone \in SUBSET (1..made)

Init ==
  /\ made = 0 /\ pool = <<>> /\ count = 0
  /\ pc = [t \in Threads |-> IF t = Sender THEN "allocating" ELSE "out"]
  /\ buffer = [t \in Threads |-> NoBuffer]
  /\ answering = FALSE
  /\ flight = {} /\ gone = {}

(* FlushEgress is entered; the sender brings its buffer along.             *)
Enter(t) ==
  /\ pc[t] = "out"
  /\ pc' = [pc EXCEPT ![t] = IF buffer[t] = NoBuffer THEN "allocating" ELSE "writing"]
  /\ UNCHANGED <<made, pool, count, answering, buffer, flight, gone>>

(* A datagram of no connection is answered with one datagram.              *)
EnterAnswer ==
  /\ pc[Io] = "out"
  /\ pc' = [pc EXCEPT ![Io] = "allocating"]
  /\ answering' = TRUE
  /\ UNCHANGED <<made, pool, count, buffer, flight, gone>>

MakeBuffer(t) ==
  /\ made' = made + 1
  /\ buffer' = [buffer EXCEPT ![t] = made']
  /\ pc' = [pc EXCEPT ![t] = "writing"]
  /\ UNCHANGED <<pool, count>>

(* Mutant: the free list is never consulted.                               *)
ReadNothing(t) ==
  /\ pc[t] = "allocating"
  /\ MakeBuffer(t)
  /\ UNCHANGED <<answering, flight, gone>>

ReadCount(t) ==
  /\ pc[t] = "allocating"
  /\ \/ /\ count > 0
        /\ pc' = [pc EXCEPT ![t] = "locking"]
        /\ UNCHANGED <<made, pool, count, buffer>>
     \/ /\ count = 0
        /\ MakeBuffer(t)
  /\ UNCHANGED <<answering, flight, gone>>

(* Mutant: the count drops whether or not a buffer was there.              *)
TakeUnchecked(t) ==
  /\ pc[t] = "locking"
  /\ count' = count - 1
  /\ \/ /\ pool # <<>>
        /\ buffer' = [buffer EXCEPT ![t] = pool[Len(pool)]]
        /\ pool' = SubSeq(pool, 1, Len(pool) - 1)
        /\ UNCHANGED made
     \/ /\ pool = <<>>
        /\ made' = made + 1
        /\ buffer' = [buffer EXCEPT ![t] = made']
        /\ UNCHANGED pool
  /\ pc' = [pc EXCEPT ![t] = "writing"]
  /\ UNCHANGED <<answering, flight, gone>>

(* The list may have been emptied since the count was read.                *)
Take(t) ==
  /\ pc[t] = "locking"
  /\ \/ /\ pool # <<>>
        /\ buffer' = [buffer EXCEPT ![t] = pool[Len(pool)]]
        /\ pool' = SubSeq(pool, 1, Len(pool) - 1)
        /\ count' = count - 1
        /\ pc' = [pc EXCEPT ![t] = "writing"]
        /\ UNCHANGED made
     \/ /\ pool = <<>>
        /\ MakeBuffer(t)
  /\ UNCHANGED <<answering, flight, gone>>

(* Mutant: the buffer that was sent is written again.                      *)
SendAndKeep(t) ==
  /\ pc[t] = "writing" /\ Cardinality(flight) < MaxFlight
  /\ flight' = flight \cup {buffer[t]}
  /\ UNCHANGED <<made, pool, count, pc, answering, buffer, gone>>

Answers(t) == t = Io /\ answering

(* quiche wrote a datagram: it is sent, and FlushEgress allocates another  *)
(* buffer where an answer is done.                                         *)
Send(t) ==
  /\ pc[t] = "writing" /\ Cardinality(flight) < MaxFlight
  /\ flight' = flight \cup {buffer[t]}
  /\ buffer' = [buffer EXCEPT ![t] = NoBuffer]
  /\ pc' = [pc EXCEPT ![t] = IF Answers(t) THEN "out" ELSE "allocating"]
  /\ answering' = (answering /\ t # Io)
  /\ UNCHANGED <<made, pool, count, gone>>

(* quiche has nothing to send, or fails.                                   *)
Leave(t) ==
  /\ pc[t] = "writing" /\ ~Answers(t)
  /\ pc' = [pc EXCEPT ![t] = IF t = Sender THEN "out" ELSE "freeing"]
  /\ UNCHANGED <<made, pool, count, answering, buffer, flight, gone>>

(* quiche cannot write the answer: its buffer is dropped, not freed.       *)
DropAnswer ==
  /\ pc[Io] = "writing" /\ answering /\ Cardinality(gone) < MaxGone
  /\ gone' = gone \cup {buffer[Io]}
  /\ buffer' = [buffer EXCEPT ![Io] = NoBuffer]
  /\ pc' = [pc EXCEPT ![Io] = "out"]
  /\ answering' = FALSE
  /\ UNCHANGED <<made, pool, count, flight>>

Free(b) ==
  /\ pool' = Append(pool, b)
  /\ count' = count + 1

(* The FlushEgress without an argument returns its buffer.                 *)
FreeMine(t) ==
  /\ pc[t] = "freeing"
  /\ Free(buffer[t])
  /\ buffer' = [buffer EXCEPT ![t] = NoBuffer]
  /\ pc' = [pc EXCEPT ![t] = "out"]
  /\ UNCHANGED <<made, answering, flight, gone>>

(* Mutant: the handler does not return the buffer.                         *)
DoneWithoutFree(b) ==
  /\ b \in flight
  /\ flight' = flight \ {b}
  /\ UNCHANGED <<made, pool, count, pc, answering, buffer, gone>>

(* The handler of async_send_to, whether the datagram left or not.         *)
SendDone(b) ==
  /\ b \in flight
  /\ flight' = flight \ {b}
  /\ Free(b)
  /\ UNCHANGED <<made, pc, answering, buffer, gone>>

(* Loop ends between two rounds, and its buffer with it.                   *)
SenderEnds ==
  /\ pc[Sender] = "out" /\ Cardinality(gone) < MaxGone
  /\ gone' = gone \cup {buffer[Sender]}
  /\ buffer' = [buffer EXCEPT ![Sender] = NoBuffer]
  /\ pc' = [pc EXCEPT ![Sender] = "ended"]
  /\ UNCHANGED <<made, pool, count, answering, flight>>

Next ==
  \/ \E t \in Threads :
       Enter(t) \/ ReadCount(t) \/ Take(t) \/ Send(t) \/ Leave(t) \/ FreeMine(t)
  \/ \E b \in flight : SendDone(b)
  \/ EnterAnswer
  \/ DropAnswer
  \/ SenderEnds

Spec == Init /\ [][Next]_vars

-----------------------------------------------------------------------------
Held(t) == {buffer[t]} \ {NoBuffer}

Pooled == {pool[i] : i \in DOMAIN pool}

(* A buffer has one owner: quiche never writes into a buffer that the      *)
(* socket is still sending, that another thread writes, or that Allocate   *)
(* may give away.                                                          *)
OneOwner ==
  /\ \A i, j \in DOMAIN pool : pool[i] = pool[j] => i = j
  /\ \A t, u \in Threads : t # u => Held(t) \cap Held(u) = {}
  /\ \A t \in Threads : Held(t) \cap (Pooled \cup flight \cup gone) = {}
  /\ Pooled \cap (flight \cup gone) = {} /\ flight \cap gone = {}

(* No buffer is lost: Allocate, Free and the handlers of async_send_to     *)
(* hand each one on.                                                       *)
NoneLost ==
  1..made = Pooled \cup flight \cup gone \cup UNION {Held(t) : t \in Threads}

AllHeld == [t \in Threads |-> Held(t)]

Pool == INSTANCE BufferPool
  WITH Users <- Threads, free <- Pooled, held <- AllHeld,
       sending <- flight, dropped <- gone

(* The unlocked test of the count and the locked second look at the list   *)
(* amount to one step: a buffer is made only at a moment when none is free,*)
(* whatever other threads do in between.                                   *)
ImplementsPool == Pool!Spec

(* The count tested without the mutex is the length of the list: it does   *)
(* not wrap below zero when two threads race for the last buffer.          *)
CountIsLength == count = Len(pool)

(* A buffer is made only while every other one is in use: there are never  *)
(* more than the datagrams in flight at the peak and one for each thread,  *)
(* not counting those destroyed.                                           *)
MadeWhenNeeded == made <= MaxFlight + Cardinality(Threads) + Cardinality(gone)
=============================================================================
