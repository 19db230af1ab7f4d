------------------------------ MODULE StreamSend ------------------------------
(***************************************************************************)
(* The send side of one QuicheConnection: SendRequest and SendResponse     *)
(* hand a body to an HTTP/3 stream, and what quiche refuses for lack of    *)
(* room waits in response_cache_ (whole responses) or in                   *)
(* outgoing_streams_by_id_ (the rest of a body) until FlushEgress offers   *)
(* it again.                                                               *)
(*                                                                         *)
(* Every operation runs with the connection's recursive mutex held.  The   *)
(* loops of FlushEgress are stepped: `at' says where the holder of the     *)
(* mutex is, and every operation that takes the mutex waits for "free".    *)
(*                                                                         *)
(* quiche is outside the repository.  It is modelled by the return codes   *)
(* the code distinguishes: `room' is what the connection can take before   *)
(* it refuses, in units; a HEADERS frame, a unit of body and an empty      *)
(* frame that carries the FIN cost one unit each.                          *)
(***************************************************************************)
EXTENDS Integers, Sequences, FiniteSets

CONSTANTS
  Streams,     \* request streams of the connection, numbered as opened
  MaxCalls,    \* bound: calls of SendRequest/SendResponse in a behaviour
  MaxBody,     \* bound: units in the longest body
  MaxRoom,     \* units quiche takes before the peer makes room again
  MaxStreams,  \* MAX_PARALLEL_QUIC_STREAMS
  IsServer,    \* settings_.IsServer
  Stoppable    \* streams on which the peer may send STOP_SENDING

ASSUME StreamSendAssumption ==
  /\ Streams \subseteq Nat
  /\ MaxCalls \in Nat /\ MaxBody \in Nat
  /\ MaxRoom \in Nat \ {0} /\ MaxStreams \in Nat \ {0}
  /\ IsServer \in BOOLEAN
  /\ Stoppable \subseteq Streams

VARIABLES
  status,      \* of each call: see Status
  target,      \* the stream a call writes to, once known
  bytes,       \* the length of a call's body
  bytes_left,  \* CachedResponse::bytes_left
  holding,     \* calls whose header strings their caller has not released
  queued,      \* the keys of outgoing_streams_by_id_
  Buffer,      \* OutgoingStream::Buffer, meaningful for queued streams
  SendOffset,  \* OutgoingStream::SendOffset, likewise
  hdr,         \* the call whose HEADERS a stream carries, NoCall for none
  stale,       \* streams whose HEADERS were read after their release
  data,        \* the units of body quiche has accepted on a stream
  fin,         \* streams whose end quiche has accepted
  room,        \* units quiche still accepts
  stopped,     \* streams on which STOP_SENDING was received
  shut,        \* streams shut down by DestroyStream
  dead,        \* quiche_conn_is_closed
  timeout,     \* timeout_
  at,          \* where the holder of mutex_ is, "free" when nobody holds it
  unsent,      \* cached responses FlushCachedResponses still has to visit
  unvisited,   \* queued streams FlushTransfers still has to visit
  completed    \* completed_stream_ids of FlushTransfers

callVars  == <<status, target, bytes, bytes_left, holding>>
queueVars == <<queued, Buffer, SendOffset>>
wireVars  == <<hdr, stale, data, fin, room>>
connVars  == <<stopped, shut, dead, timeout>>
lockVars  == <<at, unsent, unvisited, completed>>
vars == <<callVars, queueVars, wireVars, connVars, lockVars>>

Calls == 1..MaxCalls
NoCall == 0
NoStream == -1

(* "trying": inside the retry loop of SendRequest; "cached": in            *)
(* response_cache_; "accepted": SendBody returned true; "halfway":         *)
(* SendBody returned false; "flushed": erased from the cache as sent;      *)
(* "failed": an error was logged or -1 or false was returned.              *)
Status ==
  {"unused", "trying", "cached", "accepted", "halfway", "flushed", "failed"}

Unit == Calls \X (1..MaxBody)

(* Mutant: the copy starts one unit late.                                  *)
UnitsLate(c, from, k) == [i \in 1..k |-> <<c, from + i + 1>>]

(* Units from+1 .. from+k of the body of call c. *)
Units(c, from, k) == [i \in 1..k |-> <<c, from + i>>]

TypeOK ==
  /\ status \in [Calls -> Status]
  /\ target \in [Calls -> Streams \cup {NoStream}]
  /\ bytes \in [Calls -> 0..MaxBody]
  /\ bytes_left \in [Calls -> 0..MaxBody]
  /\ holding \in SUBSET Calls
  /\ queued \in SUBSET Streams
  /\ Buffer \in [Streams -> Seq(Unit)]
  /\ SendOffset \in [Streams -> 0..MaxBody]
  /\ hdr \in [Streams -> Calls \cup {NoCall}]
  /\ stale \in SUBSET Streams
  /\ data \in [Streams -> Seq(Unit)]
  /\ fin \in SUBSET Streams
  /\ room \in 0..MaxRoom
  /\ stopped \in SUBSET Streams
  /\ shut \in SUBSET Streams
  /\ dead \in BOOLEAN
  /\ timeout \in BOOLEAN
  /\ at \in {"free", "responses", "transfers"}
  /\ unsent \in SUBSET Calls
  /\ unvisited \in SUBSET Streams
  /\ completed \in SUBSET Streams

Init ==
  /\ status = [c \in Calls |-> "unused"]
  /\ target = [c \in Calls |-> NoStream]
  /\ bytes = [c \in Calls |-> 0]
  /\ bytes_left = [c \in Calls |-> 0]
  /\ holding = {}
  /\ queued = {}
  /\ Buffer = [s \in Streams |-> <<>>]
  /\ SendOffset = [s \in Streams |-> 0]
  /\ hdr = [s \in Streams |-> NoCall]
  /\ stale = {}
  /\ data = [s \in Streams |-> <<>>]
  /\ fin = {}
  /\ room = MaxRoom
  /\ stopped = {} /\ shut = {}
  /\ dead = FALSE /\ timeout = FALSE
  /\ at = "free" /\ unsent = {} /\ unvisited = {} /\ completed = {}

-----------------------------------------------------------------------------
(* What quiche answers.                                                    *)

ErrDone == -1   \* QUICHE_H3_ERR_DONE: no room
ErrOther == -2  \* any other error

(* A stream that was stopped or shut down takes nothing, nor does a closed *)
(* connection: the error persists however much room there is.              *)
Refuses(s) == dead \/ s \in stopped \/ s \in shut

(* quiche_h3_send_body of n units with room r: an error or what it took.   *)
Taken(s, n, r) ==
  CASE Refuses(s)              -> ErrOther
    [] ~Refuses(s) /\ r = 0    -> ErrDone
    [] ~Refuses(s) /\ r # 0    -> IF n <= r THEN n ELSE r

(* quiche_h3_send_body(nullptr, 0, true): the FIN needs a frame of its own.*)
TakesFin(s, r) == Taken(s, 1, r) = 1

(* quiche_h3_send_response: a stream takes HEADERS once.                   *)
HeadersBlocked(s) == ~Refuses(s) /\ hdr[s] = NoCall /\ room = 0
HeadersTaken(s) == ~Refuses(s) /\ hdr[s] = NoCall /\ room # 0
HeadersFail(s) == Refuses(s) \/ hdr[s] # NoCall

(* Streams that count against the peer's stream limit.                     *)
Opened == {s \in Streams : hdr[s] # NoCall /\ s \notin shut}

-----------------------------------------------------------------------------
(* The cache and the queue are walked with the mutex held from one end of  *)
(* FlushEgress to the other.                                               *)

Cached == {c \in Calls : status[c] = "cached"}

(* Mutant: FlushEgress without FlushCachedResponses.                       *)
StartFlushNoCache ==
  /\ at' = "responses"
  /\ unsent' = {}
  /\ UNCHANGED <<unvisited, completed>>

StartFlush ==
  /\ at' = "responses"
  /\ unsent' = Cached
  /\ UNCHANGED <<unvisited, completed>>

(* SendBody for call c, once its HEADERS are accepted and r units of room  *)
(* are left.  What is not accepted is queued; a FIN that is not accepted   *)
(* is not, and then FlushEgress does not run either.                       *)
SendBody(s, c, n, r) ==
  LET rc == IF n > 0 /\ Taken(s, n, r) > 0 THEN Taken(s, n, r) ELSE 0
      left == r - rc
      Flushed ==
        /\ status' = [status EXCEPT ![c] = "accepted"]
        /\ StartFlush
  IN /\ data' = [data EXCEPT ![s] = @ \o Units(c, 0, rc)]
     /\ \/ /\ n = 0
           /\ fin' = fin \cup {s}   \* the FIN went with the HEADERS
           /\ room' = left
           /\ Flushed
           /\ UNCHANGED queueVars
        \/ /\ rc < n
           /\ queued' = queued \cup {s}
           /\ Buffer' = [Buffer EXCEPT ![s] = Units(c, rc, n - rc)]
           /\ SendOffset' = [SendOffset EXCEPT ![s] = 0]
           /\ room' = left
           /\ Flushed
           /\ UNCHANGED fin
        \/ /\ n > 0 /\ rc = n
           /\ TakesFin(s, left)
           /\ fin' = fin \cup {s}
           /\ room' = left - 1
           /\ Flushed
           /\ UNCHANGED queueVars
        \/ /\ n > 0 /\ rc = n
           /\ ~TakesFin(s, left)
           /\ room' = left
           /\ status' = [status EXCEPT ![c] = "halfway"]
           /\ UNCHANGED <<fin, queueVars, lockVars>>

-----------------------------------------------------------------------------
(* SendRequest: the HEADERS are retried, with the mutex released between   *)
(* two attempts, while they are blocked and the connection lives.          *)

(* The calls of a behaviour are numbered in the order they are made.       *)
Fresh(c) == /\ status[c] = "unused"
            /\ \A d \in Calls : d < c => status[d] # "unused"

CallRequest(c) ==
  /\ ~IsServer /\ Fresh(c)
  /\ status' = [status EXCEPT ![c] = IF timeout THEN "failed" ELSE "trying"]
  /\ UNCHANGED <<target, bytes, bytes_left, holding, queueVars, wireVars, connVars, lockVars>>

(* Blocked attempts change nothing and are not steps.  quiche opens the    *)
(* streams of a client in their order.  The length n of the body matters   *)
(* from here on only.                                                      *)
RequestSent(c, s, n) ==
  /\ status[c] = "trying" /\ at = "free" /\ ~timeout
  /\ Cardinality(Opened) < MaxStreams
  /\ \A d \in Streams : d < s => hdr[d] # NoCall
  /\ HeadersTaken(s)
  /\ hdr' = [hdr EXCEPT ![s] = c]
  /\ target' = [target EXCEPT ![c] = s]
  /\ bytes' = [bytes EXCEPT ![c] = n]
  /\ SendBody(s, c, n, room - 1)
  /\ UNCHANGED <<bytes_left, holding, stale, connVars>>

(* Mutant: SendRequest reports what SendBody returned.                     *)
RequestFailedLate(c) ==
  /\ status[c] \in {"trying", "halfway"}
  /\ status' = [status EXCEPT ![c] = "failed"]
  /\ UNCHANGED <<target, bytes, bytes_left, holding, queueVars, wireVars, connVars, lockVars>>

(* timeout_ is looked at without the mutex.  Any error but a blocked stream*)
(* ends the attempts, also on a connection that lives on.                  *)
RequestFailed(c) ==
  /\ status[c] = "trying"
  /\ timeout \/ at = "free"
  /\ status' = [status EXCEPT ![c] = "failed"]
  /\ UNCHANGED <<target, bytes, bytes_left, holding, queueVars, wireVars, connVars, lockVars>>

(* SendResponse: a blocked response is cached with a copy of its body.     *)
SendResponse(c, s, n) ==
  /\ IsServer /\ Fresh(c) /\ at = "free"
  /\ target' = [target EXCEPT ![c] = s]
  /\ bytes' = [bytes EXCEPT ![c] = n]
  /\ \/ /\ timeout \/ HeadersFail(s)
        /\ status' = [status EXCEPT ![c] = "failed"]
        /\ UNCHANGED <<bytes_left, holding, queueVars, wireVars, lockVars>>
     \/ /\ ~timeout /\ HeadersBlocked(s)
        /\ status' = [status EXCEPT ![c] = "cached"]
        /\ bytes_left' = [bytes_left EXCEPT ![c] = n]
        /\ holding' = holding \cup {c}
        /\ UNCHANGED <<queueVars, wireVars, lockVars>>
     \/ /\ ~timeout /\ HeadersTaken(s)
        /\ hdr' = [hdr EXCEPT ![s] = c]
        /\ SendBody(s, c, n, room - 1)
        /\ UNCHANGED <<bytes_left, holding, stale>>
  /\ UNCHANGED connVars

(* QuicSendServer::Respond returns: the header strings, a local of it to   *)
(* which a cached response only points, are destroyed.                     *)
RespondReturns(c) ==
  /\ c \in holding
  /\ holding' = holding \ {c}
  /\ UNCHANGED <<status, target, bytes, bytes_left, queueVars, wireVars, connVars, lockVars>>

-----------------------------------------------------------------------------
(* FlushCachedResponses, one cached response per step, oldest first.       *)

CachedStep(c) ==
  LET s == target[c]
      left == room - 1
      took == Taken(s, bytes_left[c], left)
      Leave(why) == status' = [status EXCEPT ![c] = why]
      Stay == status' = status
      ReadHeaders ==
        /\ hdr' = [hdr EXCEPT ![s] = c]
        /\ \/ stale' = stale
           \/ c \notin holding /\ stale' = stale \cup {s}
  IN /\ at = "responses" /\ c \in unsent /\ \A d \in unsent : c <= d
     /\ unsent' = unsent \ {c}
     /\ \/ /\ HeadersBlocked(s)
           /\ Stay
           /\ UNCHANGED <<bytes_left, wireVars>>
        \/ /\ HeadersFail(s)
           /\ Leave("failed")
           /\ UNCHANGED <<bytes_left, wireVars>>
        \/ /\ HeadersTaken(s) /\ bytes_left[c] = 0
           /\ ReadHeaders
           /\ fin' = fin \cup {s}
           /\ room' = left
           /\ Leave("flushed")
           /\ UNCHANGED <<bytes_left, data>>
        \/ /\ HeadersTaken(s) /\ bytes_left[c] > 0 /\ took < 0
           /\ ReadHeaders
           /\ room' = left
           /\ \/ took = ErrDone /\ Leave("flushed")
              \/ took = ErrDone /\ Stay   \* reported as STREAM_BLOCKED
              \/ took = ErrOther /\ Leave("failed")
           /\ UNCHANGED <<bytes_left, data, fin>>
        \/ /\ HeadersTaken(s) /\ bytes_left[c] > 0 /\ took >= 0
           /\ ReadHeaders
           /\ data' = [data EXCEPT ![s] = @ \o Units(c, 0, took)]
           /\ room' = left - took
           /\ bytes_left' = [bytes_left EXCEPT ![c] = @ - took]
           /\ Leave(IF took = bytes_left[c] THEN "flushed" ELSE "cached")
           /\ UNCHANGED fin
     /\ UNCHANGED <<target, bytes, holding, queueVars, connVars, at, unvisited, completed>>

(* Mutant: only streams with body left are visited, the FIN is not retried.*)
EndResponsesNoFin ==
  /\ at = "responses" /\ unsent = {}
  /\ at' = "transfers"
  /\ unvisited' = {s \in queued : Buffer[s] # <<>>}
  /\ completed' = {}
  /\ UNCHANGED <<callVars, queueVars, wireVars, connVars, unsent>>

EndResponses ==
  /\ at = "responses" /\ unsent = {}
  /\ at' = "transfers"
  /\ unvisited' = queued
  /\ completed' = {}
  /\ UNCHANGED <<callVars, queueVars, wireVars, connVars, unsent>>

(* FlushTransfers, one queued stream per step in the order of an           *)
(* unordered_map, which is any order.                                      *)

(* Mutant: a retry offers the body from its start.                         *)
RestFromStart(s) == Buffer[s]

Rest(s) == SubSeq(Buffer[s], SendOffset[s] + 1, Len(Buffer[s]))

(* Mutant: off by one.                                                     *)
RemainingShort(s) == Len(Buffer[s]) - SendOffset[s] - 1

Remaining(s) == Len(Buffer[s]) - SendOffset[s]

TransferStep(s) ==
  LET remaining == Remaining(s)
      took == Taken(s, remaining, room)
      Next_s == unvisited' = unvisited \ {s}
      Break == unvisited' = {} /\ UNCHANGED completed
      Finish(left) ==   \* try to send the FIN with `left' units of room
        \/ /\ TakesFin(s, left)
           /\ fin' = fin \cup {s}
           /\ room' = left - 1
           /\ completed' = completed \cup {s}
           /\ Next_s
        \/ /\ ~TakesFin(s, left)
           /\ room' = left
           /\ Break
           /\ UNCHANGED fin
  IN /\ at = "transfers" /\ s \in unvisited
     /\ \/ /\ remaining <= 0
           /\ Finish(room)
           /\ UNCHANGED <<Buffer, SendOffset, data>>
        \/ /\ remaining > 0 /\ took < 0
           /\ Break
           /\ UNCHANGED <<Buffer, SendOffset, data, fin, room>>
        \/ /\ remaining > 0 /\ took >= 0 /\ took < remaining
           /\ SendOffset' = [SendOffset EXCEPT ![s] = @ + took]
           /\ data' = [data EXCEPT ![s] = @ \o SubSeq(Rest(s), 1, took)]
           /\ room' = room - took
           /\ Next_s
           /\ UNCHANGED <<Buffer, fin, completed>>
        \/ /\ remaining > 0 /\ took = remaining
           /\ Buffer' = [Buffer EXCEPT ![s] = <<>>]
           /\ SendOffset' = [SendOffset EXCEPT ![s] = 0]
           /\ data' = [data EXCEPT ![s] = @ \o Rest(s)]
           /\ Finish(room - took)
     /\ UNCHANGED <<callVars, queued, hdr, stale, connVars, at, unsent>>

(* Mutant: FlushTransfers clears the queue.                                *)
EndTransfersClears ==
  /\ at = "transfers" /\ unvisited = {}
  /\ queued' = {}
  /\ completed' = {}
  /\ timeout' = (timeout \/ dead)
  /\ dead' \in {dead, TRUE}
  /\ at' = "free"
  /\ UNCHANGED <<callVars, Buffer, SendOffset, wireVars, stopped, shut, unsent, unvisited>>

(* Mutant: the completed streams are not erased.                           *)
EndTransfersKeeps ==
  /\ at = "transfers" /\ unvisited = {}
  /\ completed' = {}
  /\ timeout' = (timeout \/ dead)
  /\ dead' \in {dead, TRUE}
  /\ at' = "free"
  /\ UNCHANGED <<callVars, queueVars, wireVars, stopped, shut, unsent, unvisited>>

(* The completed streams are erased.  Then TickTimeout notices a closed    *)
(* connection, or quiche's deadline is due and closes it unnoticed.  (When *)
(* no packet can be made, TickTimeout is skipped: that is on a connection  *)
(* that lives, of which it has nothing to notice.)                         *)
EndTransfers ==
  /\ at = "transfers" /\ unvisited = {}
  /\ queued' = queued \ completed
  /\ completed' = {}
  /\ timeout' = (timeout \/ dead)
  /\ dead' \in {dead, TRUE}
  /\ at' = "free"
  /\ UNCHANGED <<callVars, Buffer, SendOffset, wireVars, stopped, shut, unsent, unvisited>>

(* The sender's Loop flushes a connection until it is IsClosed.            *)
Tick ==
  /\ at = "free" /\ ~timeout
  /\ StartFlush
  /\ UNCHANGED <<callVars, queueVars, wireVars, connVars>>

-----------------------------------------------------------------------------
(* OnDatagram, as far as the send side can tell: quiche_conn_recv changes  *)
(* what quiche accepts, ProcessH3Events may destroy a stream, and then     *)
(* FlushEgress runs unless the connection is found closed.                 *)

Acked ==
  /\ at = "free" /\ ~dead
  /\ room' \in (room + 1)..MaxRoom
  /\ StartFlush
  /\ UNCHANGED <<callVars, queueVars, hdr, stale, data, fin, connVars>>

StopSending(s) ==
  /\ at = "free" /\ ~dead /\ s \in Stoppable \ stopped
  /\ IsServer \/ hdr[s] # NoCall
  /\ stopped' = stopped \cup {s}
  /\ StartFlush
  /\ UNCHANGED <<callVars, queueVars, wireVars, shut, dead, timeout>>

(* A reset, or on a client the end of the response: the stream is shut     *)
(* down and forgotten, whatever of its body is still queued.               *)
DestroyStream(s) ==
  /\ at = "free" /\ ~dead /\ s \notin shut
  /\ IsServer \/ hdr[s] # NoCall
  /\ shut' = shut \cup {s}
  /\ queued' = queued \ {s}
  /\ StartFlush
  /\ UNCHANGED <<callVars, Buffer, SendOffset, wireVars, stopped, dead, timeout>>

PeerClosed ==
  /\ at = "free" /\ ~dead
  /\ dead' = TRUE
  /\ timeout' = TRUE
  /\ UNCHANGED <<callVars, queueVars, wireVars, stopped, shut, lockVars>>

(* The timer's handler: quiche_conn_on_timeout finds the connection idle   *)
(* for too long, and FlushEgress runs.                                     *)
IdleTimeout ==
  /\ at = "free" /\ ~dead /\ ~timeout
  /\ dead' = TRUE
  /\ StartFlush
  /\ UNCHANGED <<callVars, queueVars, wireVars, stopped, shut, timeout>>

(* A datagram for a closed connection changes nothing in quiche, but the   *)
(* flush behind it still walks the cache and the queue.                    *)
LateDatagram ==
  /\ at = "free" /\ dead
  /\ StartFlush
  /\ UNCHANGED <<callVars, queueVars, wireVars, connVars>>

Flush ==
  \/ \E c \in Calls : CachedStep(c)
  \/ EndResponses
  \/ \E s \in Streams : TransferStep(s)
  \/ EndTransfers

Next ==
  \/ \E c \in Calls : CallRequest(c) \/ RequestFailed(c) \/ RespondReturns(c)
  \/ \E c \in Calls, s \in Streams, n \in 0..MaxBody :
       RequestSent(c, s, n) \/ SendResponse(c, s, n)
  \/ Flush
  \/ Tick
  \/ Acked
  \/ \E s \in Streams : StopSending(s) \/ DestroyStream(s)
  \/ PeerClosed
  \/ IdleTimeout
  \/ LateDatagram

Spec == Init /\ [][Next]_vars

(* A thread inside FlushEgress runs on, the sender's thread keeps flushing,*)
(* and a live peer acknowledges: the io thread gets the mutex again and    *)
(* again, which the sender's sleep between two flushes justifies.          *)
FairSpec ==
  /\ Spec
  /\ WF_vars(Flush) /\ SF_vars(Tick) /\ SF_vars(Acked)

-----------------------------------------------------------------------------
(* What the peer reads on a stream is the body of one call, from its first *)
(* unit and in order: SendBody, the retries of FlushTransfers from         *)
(* SendOffset and the retries of a cached response never skip, repeat or   *)
(* mix units, whatever quiche accepts in between.                          *)
WireIsOneBody ==
  \A s \in Streams : data[s] = Units(hdr[s], 0, Len(data[s]))

(* A stream is only ended (SendBody's and FlushTransfers' FIN frame, the   *)
(* fin flag on HEADERS) once all of its call's body was accepted.          *)
FinMeansWhole ==
  \A s \in fin : hdr[s] # NoCall /\ Len(data[s]) = bytes[hdr[s]]

(* What a queued stream still holds continues exactly what quiche took:    *)
(* Buffer and SendOffset are in step with the wire between any two steps   *)
(* of FlushTransfers, also while a completed stream waits to be erased.    *)
Resumable ==
  \A s \in queued :
    /\ hdr[s] # NoCall
    /\ data[s] \o Rest(s) = Units(hdr[s], 0, bytes[hdr[s]])

(* A call whose SendBody returned true is finished on the wire, still      *)
(* queued, or was destroyed with its stream: erasing completed streams     *)
(* never forgets a body.  One whose SendBody returned false has all of its *)
(* body on the wire: it lacks no more than the FIN.                        *)
AcceptedIsKept ==
  /\ \A c \in Calls : status[c] = "accepted" => target[c] \in fin \cup queued \cup shut
  /\ \A c \in Calls : status[c] = "halfway" =>
       target[c] \in Streams /\ hdr[target[c]] = c /\ Len(data[target[c]]) = bytes[c]

(* FlushTransfers never offers quiche a stream whose end it has accepted:  *)
(* the FIN would be refused, and the walk would break there for good.      *)
EndedOnce == unvisited \cap fin = {}

(* No two calls write to one stream and no call to two: a stream carries   *)
(* the HEADERS of a call that targets it, and a request that failed sent   *)
(* nothing.                                                                *)
HeadersMatchCalls ==
  \A s \in Streams :
    hdr[s] # NoCall => /\ target[hdr[s]] = s
                       /\ ~IsServer => status[hdr[s]] \in {"accepted", "halfway"}

(* The body that a stream is to carry is that of its call.                 *)
Size == [s \in Streams |-> IF hdr[s] = NoCall THEN 0 ELSE bytes[hdr[s]]]

Transfer == INSTANCE BodyTransfer
  WITH Nobody <- NoCall, owner <- hdr, size <- Size, sent <- data, ended <- fin

(* The cache, the queue and every retry are invisible: what quiche accepts *)
(* is what BodyTransfer allows, one body on each stream, no body on two,   *)
(* from its first unit, ended once and after its last.                     *)
ImplementsTransfer == Transfer!Spec

(* A body that was accepted reaches its end while the connection and its   *)
(* stream live.  All that can hold it up is a queued stream that the peer  *)
(* stopped: one that was stopped with nothing queued, or was destroyed,    *)
(* does not.                                                               *)
AcceptedFinishes ==
  \A c \in Calls :
    status[c] = "accepted" ~>
      (timeout \/ queued \cap stopped # {} \/ target[c] \in fin \cup shut)

(* A cached response is sent, or given up, while the peer acknowledges.    *)
CachedLeaves ==
  \A c \in Calls : status[c] = "cached" ~> (status[c] # "cached" \/ timeout)

-----------------------------------------------------------------------------
(* Promises of the repository's comments that the code breaks.             *)

(* quicsend_quiche.hpp:292 has SendRequest return -1 on failure: a call    *)
(* that returned a stream id should be kept until its FIN is accepted, as  *)
(* the retry of the FIN in FlushTransfers means it to be.                  *)
ReturnedIsKept ==
  \A c \in Calls :
    ~IsServer /\ status[c] \in {"accepted", "halfway"}
      => target[c] \in fin \cup queued \cup shut

(* quicsend_quiche.cpp:1123 erases a cached response as "All data sent":   *)
(* its stream should then be ended.                                        *)
FlushedIsWhole ==
  \A c \in Calls : status[c] = "flushed" => target[c] \in fin

(* "Failures here mean there is no room for more data" in FlushTransfers   *)
(* would make a failure on a stopped stream a matter of waiting: the other *)
(* streams would still finish.                                             *)
OthersFinish ==
  \A c \in Calls :
    status[c] = "accepted" ~> (timeout \/ target[c] \in fin \cup shut \cup stopped)
=============================================================================
