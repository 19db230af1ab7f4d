--------------------------- MODULE StreamSendProofs ---------------------------
(***************************************************************************)
(* Type correctness and the safety of the send side, for any streams,      *)
(* calls, body lengths and room.                                           *)
(***************************************************************************)
EXTENDS StreamSend, SequenceTheorems, TLAPS

-----------------------------------------------------------------------------
(* Runs of units.                                                          *)

(* A run of k units is a sequence of units of length k.                    *)
LEMMA UnitsSeq ==
  ASSUME NEW c \in Calls, NEW f \in Nat, NEW k \in Nat, f + k <= MaxBody
  PROVE  /\ Units(c, f, k) \in Seq(Unit)
         /\ Len(Units(c, f, k)) = k
         /\ \A i \in 1..k : Units(c, f, k)[i] = <<c, f + i>>
<1>1. \A i \in 1..k : <<c, f + i>> \in Unit
  BY StreamSendAssumption DEF Unit
<1>2. Units(c, f, k) \in [1..k -> Unit]
  BY <1>1 DEF Units
<1>3. Units(c, f, k) \in Seq(Unit)
  BY <1>2, SeqDef
<1> QED
  BY <1>2, <1>3 DEF Units

(* A run followed by the run that continues it is one run.                 *)
LEMMA UnitsConcat ==
  ASSUME NEW c \in Calls, NEW f \in Nat, NEW a \in Nat, NEW b \in Nat,
         f + a + b <= MaxBody
  PROVE  Units(c, f, a) \o Units(c, f + a, b) = Units(c, f, a + b)
<1> DEFINE u == Units(c, f, a)
           v == Units(c, f + a, b)
           w == Units(c, f, a + b)
<1>0. MaxBody \in Nat
  BY StreamSendAssumption
<1>1. u \in Seq(Unit) /\ Len(u) = a /\ \A i \in 1..a : u[i] = <<c, f + i>>
  BY UnitsSeq, <1>0
<1>2. v \in Seq(Unit) /\ Len(v) = b /\ \A i \in 1..b : v[i] = <<c, f + a + i>>
  <2>1. f + a \in Nat /\ (f + a) + b <= MaxBody
    BY <1>0
  <2> QED
    BY UnitsSeq, <2>1
<1>3. w \in Seq(Unit) /\ Len(w) = a + b /\ \A i \in 1..(a + b) : w[i] = <<c, f + i>>
  <2>1. a + b \in Nat /\ f + (a + b) <= MaxBody
    BY <1>0
  <2> QED
    BY UnitsSeq, <2>1
<1> HIDE DEF u, v, w
<1>4. /\ u \o v \in Seq(Unit)
      /\ Len(u \o v) = a + b
      /\ \A i \in 1..(a + b) : (u \o v)[i] = IF i <= a THEN u[i] ELSE v[i - a]
  BY <1>1, <1>2, ConcatProperties
<1> DEFINE p == u \o v
<1>5. /\ p \in Seq(Unit) /\ Len(p) = a + b
      /\ \A i \in 1..(a + b) : p[i] = IF i <= a THEN u[i] ELSE v[i - a]
  BY <1>4
<1> HIDE DEF p
<1>6. \A i \in 1..(a + b) : p[i] = w[i]
  <2> SUFFICES ASSUME NEW i \in 1..(a + b) PROVE p[i] = w[i]
    OBVIOUS
  <2>1. CASE i <= a
    <3>1. i \in 1..a
      BY <2>1
    <3>2. u[i] = w[i]
      BY <3>1, <1>1, <1>3
    <3>3. p[i] = u[i]
      BY <2>1, <1>5
    <3> QED
      BY <3>2, <3>3
  <2>2. CASE i > a
    <3>1. i - a \in 1..b /\ f + a + (i - a) = f + i
      BY <2>2
    <3>2. v[i - a] = w[i]
      BY <3>1, <1>2, <1>3
    <3>3. p[i] = v[i - a]
      BY <2>2, <1>5
    <3> QED
      BY <3>2, <3>3
  <2> QED
    BY <2>1, <2>2
<1>7. p = w
  BY <1>3, <1>5, <1>6, SeqEqual
<1> QED
  BY <1>7 DEF p, u, v, w

(* A slice of a run is a run.                                              *)
LEMMA UnitsSlice ==
  ASSUME NEW c \in Calls, NEW f \in Nat, NEW k \in Nat, f + k <= MaxBody,
         NEW a \in 0..k, NEW b \in a..k
  PROVE  SubSeq(Units(c, f, k), a + 1, b) = Units(c, f + a, b - a)
<1> DEFINE u == Units(c, f, k)
           v == Units(c, f + a, b - a)
<1>0. MaxBody \in Nat
  BY StreamSendAssumption
<1>1. u \in Seq(Unit) /\ Len(u) = k /\ \A i \in 1..k : u[i] = <<c, f + i>>
  BY UnitsSeq, <1>0
<1>2. v \in Seq(Unit) /\ Len(v) = b - a /\ \A i \in 1..(b - a) : v[i] = <<c, f + a + i>>
  <2>1. f + a \in Nat /\ b - a \in Nat /\ (f + a) + (b - a) <= MaxBody
    BY <1>0
  <2> QED
    BY UnitsSeq, <2>1
<1> HIDE DEF u, v
<1>3. \A i \in (a + 1)..b : u[i] \in Unit
  BY <1>1, ElementOfSeq
<1>4. /\ SubSeq(u, a + 1, b) \in Seq(Unit)
      /\ Len(SubSeq(u, a + 1, b)) = b - a
      /\ \A i \in 1..(b - a) : SubSeq(u, a + 1, b)[i] = u[a + i]
  <2>1. a + 1 \in Int /\ b \in Int
    OBVIOUS
  <2>2. /\ SubSeq(u, a + 1, b) \in Seq(Unit)
        /\ Len(SubSeq(u, a + 1, b)) = IF a + 1 <= b THEN b - (a + 1) + 1 ELSE 0
        /\ \A i \in 1..(b - (a + 1) + 1) : SubSeq(u, a + 1, b)[i] = u[(a + 1) + i - 1]
    BY ONLY <2>1, <1>3, SubSeqProperties
  <2> QED
    BY <2>2
<1>5. \A i \in 1..(b - a) : SubSeq(u, a + 1, b)[i] = v[i]
  <2> SUFFICES ASSUME NEW i \in 1..(b - a) PROVE SubSeq(u, a + 1, b)[i] = v[i]
    OBVIOUS
  <2>1. a + i \in 1..k /\ f + (a + i) = f + a + i
    OBVIOUS
  <2> QED
    BY <2>1, <1>1, <1>2, <1>4
<1>6. SubSeq(u, a + 1, b) = v
  BY <1>2, <1>4, <1>5, SeqEqual
<1> QED
  BY <1>6 DEF u, v

(* The two in the form in which a body needs them.                         *)
LEMMA UnitsJoin ==
  ASSUME NEW c \in Calls, NEW d \in Nat, NEW m \in Nat, d + m <= MaxBody
  PROVE  Units(c, 0, d) \o Units(c, d, m) = Units(c, 0, d + m)
<1>1. 0 \in Nat /\ 0 + d + m <= MaxBody /\ 0 + d = d
  BY StreamSendAssumption
<1>2. Units(c, 0, d) \o Units(c, 0 + d, m) = Units(c, 0, d + m)
  BY ONLY <1>1, UnitsConcat
<1> QED
  BY <1>1, <1>2

LEMMA UnitsPrefix ==
  ASSUME NEW c \in Calls, NEW f \in Nat, NEW k \in Nat, f + k <= MaxBody,
         NEW b \in 0..k
  PROVE  SubSeq(Units(c, f, k), 1, b) = Units(c, f, b)
<1>1. 0 \in 0..k /\ b \in 0..k /\ 0 + 1 = 1 /\ f + 0 = f /\ b - 0 = b
  OBVIOUS
<1>2. SubSeq(Units(c, f, k), 0 + 1, b) = Units(c, f + 0, b - 0)
  BY <1>1, UnitsSlice
<1> QED
  BY <1>1, <1>2

-----------------------------------------------------------------------------
(* The inductive invariant.                                                *)

(* A stream's body, its queued rest and the call they belong to agree.     *)
QueueInStep(s) ==
  LET k == Len(Buffer[s])
      total == bytes[hdr[s]]
  IN /\ k <= total
     /\ Buffer[s] = Units(hdr[s], total - k, k)
     /\ SendOffset[s] <= k
     /\ Len(data[s]) = total - k + SendOffset[s]

StreamInv(s) ==
  /\ data[s] = Units(hdr[s], 0, Len(data[s]))
  /\ hdr[s] = NoCall => data[s] = <<>> /\ s \notin fin /\ s \notin queued
  /\ hdr[s] # NoCall =>
       /\ status[hdr[s]] \notin {"unused", "trying"}
       /\ Len(data[s]) <= bytes[hdr[s]]
  /\ s \in fin => Len(data[s]) = bytes[hdr[s]]
  /\ s \in queued => QueueInStep(s)

CallInv(c) ==
  /\ status[c] = "cached" =>
       /\ target[c] \in Streams
       /\ bytes_left[c] <= bytes[c]
       /\ bytes_left[c] = 0 => bytes[c] = 0
  /\ status[c] = "accepted" => target[c] \in fin \cup queued \cup shut

LockInv ==
  /\ unsent \subseteq Cached
  /\ unvisited \subseteq queued
  /\ completed \subseteq fin
  /\ at # "transfers" => unvisited = {}

IInv ==
  /\ TypeOK
  /\ \A s \in Streams : StreamInv(s)
  /\ \A c \in Calls : CallInv(c)
  /\ LockInv

(* The initial state satisfies the inductive invariant.                    *)
LEMMA InitIInv == Init => IInv
<1> SUFFICES ASSUME Init PROVE IInv
  OBVIOUS
<1> USE StreamSendAssumption
<1>1. TypeOK
  <2>1. <<>> \in Seq(Unit)
    BY EmptySeq
  <2>2. \A S, T : \A x \in T : [y \in S |-> x] \in [S -> T]
    OBVIOUS
  <2>3. Buffer \in [Streams -> Seq(Unit)] /\ data \in [Streams -> Seq(Unit)]
    BY <2>1, <2>2 DEF Init
  <2>4. /\ status \in [Calls -> Status]
        /\ target \in [Calls -> Streams \cup {NoStream}]
        /\ bytes \in [Calls -> 0..MaxBody]
        /\ bytes_left \in [Calls -> 0..MaxBody]
        /\ SendOffset \in [Streams -> 0..MaxBody]
        /\ hdr \in [Streams -> Calls \cup {NoCall}]
    BY DEF Init, Status
  <2>5. /\ holding = {} /\ queued = {} /\ stale = {} /\ fin = {} /\ stopped = {}
        /\ shut = {} /\ unsent = {} /\ unvisited = {} /\ completed = {}
        /\ room \in 0..MaxRoom /\ dead = FALSE /\ timeout = FALSE /\ at = "free"
    BY DEF Init
  <2> QED
    BY <2>3, <2>4, <2>5 DEF TypeOK
<1>2. ASSUME NEW s \in Streams PROVE StreamInv(s)
  <2>1. Units(NoCall, 0, 0) = <<>>
    BY DEF Units
  <2> QED
    BY <2>1 DEF Init, StreamInv, NoCall
<1>3. ASSUME NEW c \in Calls PROVE CallInv(c)
  BY DEF Init, CallInv
<1>4. LockInv
  BY DEF Init, LockInv, Cached
<1> QED
  BY <1>1, <1>2, <1>3, <1>4 DEF IInv

-----------------------------------------------------------------------------
(* Steps that leave the streams and the queue alone.                       *)

(* Such a step keeps what the invariant says of streams and calls.         *)
LEMMA QuietStreams ==
  ASSUME IInv, UNCHANGED <<target, bytes, bytes_left, queueVars, hdr, data, fin, shut>>,
         \A c \in Calls : \/ status'[c] = status[c]
                          \/ /\ status[c] \in {"unused", "trying"}
                             /\ status'[c] \in {"trying", "failed"}
  PROVE  (\A s \in Streams : StreamInv(s)') /\ (\A c \in Calls : CallInv(c)')
<1>1. ASSUME NEW s \in Streams PROVE StreamInv(s)'
  <2>1. StreamInv(s)
    BY DEF IInv
  <2>2. hdr[s] \in Calls \cup {NoCall}
    BY DEF IInv, TypeOK
  <2>3. QueueInStep(s)' = QueueInStep(s)
    BY DEF QueueInStep, queueVars
  <2>4. hdr[s] # NoCall => status'[hdr[s]] \notin {"unused", "trying"}
    BY <2>1, <2>2 DEF StreamInv
  <2> QED
    BY <2>1, <2>3, <2>4 DEF StreamInv, queueVars
<1>2. ASSUME NEW c \in Calls PROVE CallInv(c)'
  <2>1. CallInv(c)
    BY DEF IInv
  <2> QED
    BY <2>1 DEF CallInv, queueVars
<1> QED
  BY <1>1, <1>2

(* Entering FlushEgress makes every cached response unsent.                *)
LEMMA StartFlushLock ==
  ASSUME IInv, StartFlush, at = "free", status' = status, queued' = queued, fin' = fin
  PROVE  LockInv' /\ unsent' \in SUBSET Calls /\ at' = "responses"
BY DEF IInv, LockInv, StartFlush, Cached

(* The steps of SendRequest and SendResponse that send nothing, of the     *)
(* timers and of OnDatagram that only start a flush.                       *)
LEMMA QuietSteps ==
  ASSUME IInv,
         \/ \E c \in Calls : CallRequest(c) \/ RequestFailed(c) \/ RespondReturns(c)
         \/ EndResponses \/ Tick \/ Acked \/ PeerClosed \/ IdleTimeout \/ LateDatagram
         \/ \E s \in Streams : StopSending(s)
  PROVE  IInv'
<1> USE DEF IInv
<1>1. ASSUME NEW c \in Calls, CallRequest(c) PROVE IInv'
  <2>1. status[c] = "unused" /\ status' = [status EXCEPT ![c] = status'[c]]
        /\ status'[c] \in {"trying", "failed"}
    BY <1>1 DEF CallRequest, Fresh, TypeOK
  <2>2. TypeOK'
    BY <1>1, <2>1 DEF CallRequest, TypeOK, Status, queueVars, wireVars, connVars, lockVars
  <2>3. LockInv'
    BY <1>1, <2>1 DEF CallRequest, LockInv, Cached, TypeOK, queueVars, wireVars, lockVars
  <2>4. (\A s \in Streams : StreamInv(s)') /\ (\A d \in Calls : CallInv(d)')
    BY <1>1, <2>1, QuietStreams
    DEF CallRequest, TypeOK, queueVars, wireVars, connVars
  <2> QED
    BY <2>2, <2>3, <2>4
<1>2. ASSUME NEW c \in Calls, RequestFailed(c) PROVE IInv'
  <2>1. status[c] = "trying" /\ status' = [status EXCEPT ![c] = "failed"]
    BY <1>2 DEF RequestFailed
  <2>2. TypeOK'
    BY <1>2, <2>1 DEF RequestFailed, TypeOK, Status, queueVars, wireVars, connVars, lockVars
  <2>3. LockInv'
    BY <1>2, <2>1 DEF RequestFailed, LockInv, Cached, TypeOK, queueVars, wireVars, lockVars
  <2>4. (\A s \in Streams : StreamInv(s)') /\ (\A d \in Calls : CallInv(d)')
    BY <1>2, <2>1, QuietStreams
    DEF RequestFailed, TypeOK, queueVars, wireVars, connVars
  <2> QED
    BY <2>2, <2>3, <2>4
<1>3. ASSUME NEW c \in Calls, RespondReturns(c) PROVE IInv'
  <2>1. TypeOK' /\ LockInv'
    BY <1>3 DEF RespondReturns, TypeOK, LockInv, Cached, queueVars, wireVars, connVars, lockVars
  <2>2. (\A s \in Streams : StreamInv(s)') /\ (\A d \in Calls : CallInv(d)')
    BY <1>3, QuietStreams DEF RespondReturns, queueVars, wireVars, connVars
  <2> QED
    BY <2>1, <2>2
<1>4. CASE EndResponses
  <2>1. TypeOK' /\ LockInv'
    BY <1>4 DEF EndResponses, TypeOK, LockInv, Cached, callVars, queueVars, wireVars, connVars
  <2>2. (\A s \in Streams : StreamInv(s)') /\ (\A d \in Calls : CallInv(d)')
    BY <1>4, QuietStreams DEF EndResponses, callVars, queueVars, wireVars, connVars
  <2> QED
    BY <2>1, <2>2
<1>5. CASE Tick \/ IdleTimeout \/ LateDatagram \/ Acked \/ \E s \in Streams : StopSending(s)
  <2>1. /\ StartFlush /\ at = "free"
        /\ UNCHANGED <<callVars, queueVars, hdr, stale, data, fin, shut>>
    BY <1>5 DEF Tick, IdleTimeout, LateDatagram, Acked, StopSending, wireVars, connVars
  <2>2. room' \in 0..MaxRoom
    BY <1>5, StreamSendAssumption
    DEF Tick, IdleTimeout, LateDatagram, Acked, StopSending, wireVars, TypeOK
  <2>3. stopped' \in SUBSET Streams /\ dead' \in BOOLEAN /\ timeout' \in BOOLEAN
    BY <1>5 DEF Tick, IdleTimeout, LateDatagram, Acked, StopSending, connVars, TypeOK
  <2>4. LockInv' /\ unsent' \in SUBSET Calls /\ at' = "responses"
    BY <2>1, StartFlushLock DEF callVars, queueVars
  <2>5. TypeOK'
    BY <2>1, <2>2, <2>3, <2>4 DEF TypeOK, StartFlush, callVars, queueVars
  <2>6. (\A s \in Streams : StreamInv(s)') /\ (\A d \in Calls : CallInv(d)')
    BY <2>1, QuietStreams DEF callVars
  <2> QED
    BY <2>4, <2>5, <2>6
<1>6. CASE PeerClosed
  <2>1. TypeOK' /\ LockInv'
    BY <1>6 DEF PeerClosed, TypeOK, LockInv, Cached, callVars, queueVars, wireVars, lockVars
  <2>2. (\A s \in Streams : StreamInv(s)') /\ (\A d \in Calls : CallInv(d)')
    BY <1>6, QuietStreams DEF PeerClosed, callVars, queueVars, wireVars
  <2> QED
    BY <2>1, <2>2
<1> QED
  BY <1>1, <1>2, <1>3, <1>4, <1>5, <1>6

-----------------------------------------------------------------------------
(* Steps that forget queued streams.                                       *)

(* DestroyStream and the erasure of completed streams shrink the queue.    *)
LEMMA ForgettingSteps ==
  ASSUME IInv, EndTransfers \/ \E s \in Streams : DestroyStream(s)
  PROVE  IInv'
<1> USE DEF IInv
<1>1. /\ UNCHANGED <<callVars, Buffer, SendOffset, wireVars>>
      /\ queued' \subseteq queued /\ shut \subseteq shut'
      /\ queued \ queued' \subseteq fin \cup shut'
  BY DEF EndTransfers, DestroyStream, LockInv, connVars
<1>2. ASSUME NEW s \in Streams PROVE StreamInv(s)'
  <2>1. StreamInv(s)
    OBVIOUS
  <2>2. QueueInStep(s)' = QueueInStep(s)
    BY <1>1 DEF QueueInStep, callVars, wireVars
  <2> QED
    BY <1>1, <2>1, <2>2 DEF StreamInv, callVars, wireVars
<1>3. ASSUME NEW c \in Calls PROVE CallInv(c)'
  <2>1. CallInv(c)
    OBVIOUS
  <2> QED
    BY <1>1, <2>1 DEF CallInv, callVars, wireVars
<1>4. TypeOK' /\ LockInv'
  <2>1. CASE EndTransfers
    BY <2>1 DEF EndTransfers, TypeOK, LockInv, Cached, callVars, wireVars
  <2>2. ASSUME NEW s \in Streams, DestroyStream(s) PROVE TypeOK' /\ LockInv'
    BY <2>2 DEF DestroyStream, StartFlush, TypeOK, LockInv, Cached, callVars, wireVars
  <2> QED
    BY <2>1, <2>2
<1> QED
  BY <1>2, <1>3, <1>4

-----------------------------------------------------------------------------
(* FlushCachedResponses.                                                   *)

(* What a retry of a cached response does: nothing, or its HEADERS go out  *)
(* and k units of its body, and its end only when there is no body.        *)
LEMMA CachedEffect ==
  ASSUME IInv, NEW c \in Calls, CachedStep(c), NEW s, s = target[c],
         ~(UNCHANGED <<bytes_left, wireVars>> /\ status' \in {status, [status EXCEPT ![c] = "failed"]})
  PROVE  /\ HeadersTaken(s)
         /\ \E k \in 0..bytes_left[c] :
              /\ hdr' = [hdr EXCEPT ![s] = c]
              /\ stale' \in {stale, stale \cup {s}}
              /\ data' = [data EXCEPT ![s] = Units(c, 0, k)]
              /\ bytes_left' = [bytes_left EXCEPT ![c] = @ - k]
              /\ \/ fin' = fin
                 \/ fin' = fin \cup {s} /\ bytes[c] = 0
              /\ room' \in 0..MaxRoom
              /\ \/ status' = [status EXCEPT ![c] = "flushed"]
                 \/ status' = [status EXCEPT ![c] = "failed"]
                 \/ status' = [status EXCEPT ![c] = "cached"] /\ k < bytes_left[c]
<1> DEFINE took == Taken(s, bytes_left[c], room - 1)
           Effect(k) ==
             /\ hdr' = [hdr EXCEPT ![s] = c]
             /\ stale' \in {stale, stale \cup {s}}
             /\ data' = [data EXCEPT ![s] = @ \o Units(c, 0, k)]
             /\ bytes_left' = [bytes_left EXCEPT ![c] = @ - k]
             /\ \/ fin' = fin
                \/ fin' = fin \cup {s} /\ bytes[c] = 0
             /\ room' \in 0..MaxRoom
             /\ \/ status' = [status EXCEPT ![c] = "flushed"]
                \/ status' = [status EXCEPT ![c] = "failed"]
                \/ status' = [status EXCEPT ![c] = "cached"] /\ k < bytes_left[c]
<1> USE DEF IInv
<1>a. /\ c \in unsent /\ status[c] = "cached" /\ s \in Streams
      /\ bytes_left[c] \in 0..MaxBody /\ bytes_left[c] <= bytes[c]
      /\ bytes_left[c] = 0 => bytes[c] = 0
      /\ bytes[c] \in 0..MaxBody /\ room \in 0..MaxRoom
  BY DEF CachedStep, LockInv, Cached, CallInv, TypeOK
<1>b. MaxBody \in Nat /\ MaxRoom \in Nat
  BY StreamSendAssumption
<1>c. HeadersTaken(s)
  BY DEF CachedStep
<1>1. room # 0 /\ room - 1 \in 0..MaxRoom /\ ~Refuses(s) /\ data[s] = <<>>
  BY <1>a, <1>b, <1>c DEF HeadersTaken, StreamInv
<1>2. Units(c, 0, 0) = <<>> /\ <<>> \o <<>> = <<>>
  <2>1. <<>> \in Seq(Unit)
    BY EmptySeq
  <2> QED
    BY <2>1, ConcatEmptySeq DEF Units
<1>3. [data EXCEPT ![s] = @ \o Units(c, 0, 0)] = data
  BY <1>1, <1>2, <1>a DEF TypeOK
<1>4. [bytes_left EXCEPT ![c] = @ - 0] = bytes_left
  BY <1>a DEF TypeOK
<1>5. \/ took = ErrDone /\ took = -1
      \/ took \in 0..bytes_left[c] /\ room - 1 - took \in 0..MaxRoom
  BY <1>1, <1>a, <1>b DEF Taken, ErrDone
<1>6. \/ HeadersBlocked(s)
         /\ UNCHANGED <<status, bytes_left, wireVars>>
      \/ HeadersFail(s) /\ status' = [status EXCEPT ![c] = "failed"]
         /\ UNCHANGED <<bytes_left, wireVars>>
      \/ /\ bytes_left[c] = 0
         /\ hdr' = [hdr EXCEPT ![s] = c] /\ stale' \in {stale, stale \cup {s}}
         /\ fin' = fin \cup {s} /\ room' = room - 1
         /\ status' = [status EXCEPT ![c] = "flushed"]
         /\ UNCHANGED <<bytes_left, data>>
      \/ /\ bytes_left[c] > 0 /\ took < 0
         /\ hdr' = [hdr EXCEPT ![s] = c] /\ stale' \in {stale, stale \cup {s}}
         /\ room' = room - 1
         /\ status' \in {status, [status EXCEPT ![c] = "flushed"], [status EXCEPT ![c] = "failed"]}
         /\ UNCHANGED <<bytes_left, data, fin>>
      \/ /\ bytes_left[c] > 0 /\ took >= 0
         /\ hdr' = [hdr EXCEPT ![s] = c] /\ stale' \in {stale, stale \cup {s}}
         /\ data' = [data EXCEPT ![s] = @ \o Units(c, 0, took)]
         /\ room' = room - 1 - took
         /\ bytes_left' = [bytes_left EXCEPT ![c] = @ - took]
         /\ status' = [status EXCEPT ![c] = IF took = bytes_left[c] THEN "flushed" ELSE "cached"]
         /\ UNCHANGED fin
  BY DEF CachedStep
<1>7. ASSUME /\ bytes_left[c] = 0
             /\ hdr' = [hdr EXCEPT ![s] = c] /\ stale' \in {stale, stale \cup {s}}
             /\ fin' = fin \cup {s} /\ room' = room - 1
             /\ status' = [status EXCEPT ![c] = "flushed"]
             /\ UNCHANGED <<bytes_left, data>>
      PROVE  \E k \in 0..bytes_left[c] : Effect(k)
  <2> 0 \in 0..bytes_left[c]
    BY <1>a
  <2> WITNESS 0 \in 0..bytes_left[c]
  <2> QED
    BY <1>7, <1>1, <1>3, <1>4, <1>a
<1>8. ASSUME /\ bytes_left[c] > 0 /\ took < 0
             /\ hdr' = [hdr EXCEPT ![s] = c] /\ stale' \in {stale, stale \cup {s}}
             /\ room' = room - 1
             /\ status' \in {status, [status EXCEPT ![c] = "flushed"], [status EXCEPT ![c] = "failed"]}
             /\ UNCHANGED <<bytes_left, data, fin>>
      PROVE  \E k \in 0..bytes_left[c] : Effect(k)
  <2> 0 \in 0..bytes_left[c]
    BY <1>a
  <2>1. status = [status EXCEPT ![c] = "cached"]
    BY <1>a DEF TypeOK
  <2> WITNESS 0 \in 0..bytes_left[c]
  <2> QED
    BY <1>8, <1>1, <1>3, <1>4, <1>5, <1>a, <2>1
<1>9. ASSUME /\ bytes_left[c] > 0 /\ took >= 0
             /\ hdr' = [hdr EXCEPT ![s] = c] /\ stale' \in {stale, stale \cup {s}}
             /\ data' = [data EXCEPT ![s] = @ \o Units(c, 0, took)]
             /\ room' = room - 1 - took
             /\ bytes_left' = [bytes_left EXCEPT ![c] = @ - took]
             /\ status' = [status EXCEPT ![c] = IF took = bytes_left[c] THEN "flushed" ELSE "cached"]
             /\ UNCHANGED fin
      PROVE  \E k \in 0..bytes_left[c] : Effect(k)
  <2>1. took \in 0..bytes_left[c] /\ room - 1 - took \in 0..MaxRoom
    BY <1>9, <1>5
  <2>2. took = bytes_left[c] \/ took < bytes_left[c]
    BY <2>1, <1>a
  <2> HIDE DEF took
  <2>3. \/ status' = [status EXCEPT ![c] = "flushed"]
        \/ status' = [status EXCEPT ![c] = "cached"] /\ took < bytes_left[c]
    BY <2>2, <1>9
  <2>4. room' \in 0..MaxRoom
    BY <2>1, <1>9
  <2> QED
    BY <1>9, <2>1, <2>3, <2>4
<1>10. PICK k \in 0..bytes_left[c] : Effect(k)
  BY <1>6, <1>7, <1>8, <1>9, <1>c DEF HeadersBlocked, HeadersFail, HeadersTaken
<1>11. data' = [data EXCEPT ![s] = Units(c, 0, k)]
  <2>1. k \in Nat /\ 0 + k <= MaxBody /\ 0 \in Nat
    BY <1>a, <1>b
  <2>2. Units(c, 0, k) \in Seq(Unit)
    BY <2>1, UnitsSeq
  <2>3. <<>> \o Units(c, 0, k) = Units(c, 0, k)
    BY <2>2, ConcatEmptySeq
  <2> QED
    BY <1>1, <1>10, <2>3
<1> QED
  BY <1>c, <1>10, <1>11

LEMMA CachedStepKeeps ==
  ASSUME IInv, NEW c \in Calls, CachedStep(c)
  PROVE  IInv'
<1> DEFINE s == target[c]
           took == Taken(s, bytes_left[c], room - 1)
<1> USE DEF IInv
<1>1. /\ c \in unsent /\ status[c] = "cached" /\ s \in Streams
      /\ bytes_left[c] \in 0..MaxBody /\ bytes_left[c] <= bytes[c]
      /\ bytes_left[c] = 0 => bytes[c] = 0
      /\ bytes[c] \in 0..MaxBody /\ room \in 0..MaxRoom
  BY DEF CachedStep, LockInv, Cached, CallInv, TypeOK
<1>2. /\ UNCHANGED <<target, bytes, holding, queueVars, connVars, at, unvisited, completed>>
      /\ unsent' = unsent \ {c} /\ at = "responses"
  BY DEF CachedStep
<1>3. MaxBody \in Nat /\ MaxRoom \in Nat
  BY StreamSendAssumption
<1>4. CASE UNCHANGED <<bytes_left, wireVars>> /\ status' \in {status, [status EXCEPT ![c] = "failed"]}
  <2>1. \A d \in Calls : status'[d] = status[d] \/ (d = c /\ status'[d] = "failed")
    BY <1>4, <1>1 DEF TypeOK
  <2>2. TypeOK' /\ LockInv'
    BY <1>4, <1>2, <1>1, <2>1
    DEF TypeOK, LockInv, Cached, Status, queueVars, wireVars, connVars
  <2>3. ASSUME NEW t \in Streams PROVE StreamInv(t)'
    <3>1. QueueInStep(t)' = QueueInStep(t)
      BY <1>4, <1>2 DEF QueueInStep, queueVars, wireVars
    <3>2. hdr[t] # NoCall => status'[hdr[t]] \notin {"unused", "trying"}
      BY <2>1 DEF StreamInv, TypeOK
    <3> QED
      BY <1>4, <1>2, <3>1, <3>2 DEF StreamInv, queueVars, wireVars
  <2>4. ASSUME NEW d \in Calls PROVE CallInv(d)'
    BY <1>4, <1>2, <2>1 DEF CallInv, queueVars, wireVars, connVars
  <2> QED
    BY <2>2, <2>3, <2>4
<1>5. CASE ~(UNCHANGED <<bytes_left, wireVars>> /\ status' \in {status, [status EXCEPT ![c] = "failed"]})
  <2>1. PICK k \in 0..bytes_left[c] :
          /\ hdr' = [hdr EXCEPT ![s] = c]
          /\ stale' \in {stale, stale \cup {s}}
          /\ data' = [data EXCEPT ![s] = Units(c, 0, k)]
          /\ bytes_left' = [bytes_left EXCEPT ![c] = @ - k]
          /\ \/ fin' = fin
             \/ fin' = fin \cup {s} /\ bytes[c] = 0
          /\ room' \in 0..MaxRoom
          /\ \/ status' = [status EXCEPT ![c] = "flushed"]
             \/ status' = [status EXCEPT ![c] = "failed"]
             \/ status' = [status EXCEPT ![c] = "cached"] /\ k < bytes_left[c]
    BY <1>5, CachedEffect
  <2>2. /\ s \notin fin /\ s \notin queued /\ hdr[s] = NoCall /\ HeadersTaken(s)
    BY <1>1, <1>5, CachedEffect DEF HeadersTaken, StreamInv
  <2>3. Units(c, 0, k) \in Seq(Unit) /\ Len(Units(c, 0, k)) = k /\ k \in Nat /\ k <= bytes[c]
    <3>1. k \in Nat /\ 0 + k <= MaxBody /\ 0 \in Nat
      BY <1>1, <1>3
    <3> QED
      BY <3>1, <1>1, UnitsSeq
  <2>4. \A d \in Calls : /\ d # c => status'[d] = status[d]
                         /\ status'[c] \in {"flushed", "failed", "cached"}
    BY <2>1 DEF TypeOK
  <2>5. TypeOK'
    <3>1. status' \in [Calls -> Status]
      BY <2>1 DEF TypeOK, Status
    <3>2. bytes_left' \in [Calls -> 0..MaxBody]
      BY <2>1, <1>1, <1>3 DEF TypeOK
    <3>3. data' \in [Streams -> Seq(Unit)]
      BY <2>1, <2>3 DEF TypeOK
    <3>4. hdr' \in [Streams -> Calls \cup {NoCall}]
      BY <2>1 DEF TypeOK
    <3>5. /\ stale' \in SUBSET Streams /\ fin' \in SUBSET Streams
          /\ room' \in 0..MaxRoom /\ unsent' \in SUBSET Calls
      BY <2>1, <1>1, <1>2 DEF TypeOK
    <3> QED
      BY <1>2, <3>1, <3>2, <3>3, <3>4, <3>5 DEF TypeOK, queueVars, connVars
  <2>6. LockInv'
    BY <1>2, <2>1, <2>4 DEF LockInv, Cached, queueVars, TypeOK
  <2>7. ASSUME NEW t \in Streams PROVE StreamInv(t)'
    <3>1. CASE t = s
      <4>1. /\ hdr'[s] = c /\ data'[s] = Units(c, 0, k) /\ bytes' = bytes
            /\ s \notin queued' /\ c # NoCall
            /\ s \in fin' => bytes[c] = 0
        <5>1. c # NoCall
          BY StreamSendAssumption DEF NoCall, Calls
        <5>2. hdr'[s] = c /\ data'[s] = Units(c, 0, k)
          BY <1>1, <2>1, <2>2 DEF TypeOK
        <5>3. bytes' = bytes /\ s \notin queued' /\ (s \in fin' => bytes[c] = 0)
          BY <1>2, <2>1, <2>2 DEF queueVars
        <5> QED
          BY <5>1, <5>2, <5>3
      <4>2. s \in fin' => k = bytes[c]
        BY <4>1, <2>3
      <4> QED
        BY <3>1, <4>1, <4>2, <2>3, <2>4 DEF StreamInv
    <3>2. CASE t # s
      <4>1. /\ hdr'[t] = hdr[t] /\ data'[t] = data[t] /\ (t \in fin' <=> t \in fin)
            /\ UNCHANGED <<bytes, queued, Buffer, SendOffset>>
        BY <3>2, <1>2, <2>1, <2>2 DEF queueVars, TypeOK
      <4>2. QueueInStep(t)' = QueueInStep(t)
        BY <4>1 DEF QueueInStep
      <4>3. hdr[t] # NoCall => status'[hdr[t]] \notin {"unused", "trying"}
        BY <2>4 DEF StreamInv, TypeOK
      <4> QED
        BY <4>1, <4>2, <4>3 DEF StreamInv
    <3> QED
      BY <3>1, <3>2
  <2>8. ASSUME NEW d \in Calls PROVE CallInv(d)'
    <3>1. CASE d = c
      BY <3>1, <1>1, <1>2, <2>1, <2>4 DEF CallInv, TypeOK
    <3>2. CASE d # c
      BY <3>2, <1>2, <2>1, <2>4 DEF CallInv, TypeOK, queueVars, connVars
    <3> QED
      BY <3>1, <3>2
  <2> QED
    BY <2>5, <2>6, <2>7, <2>8
<1> QED
  BY <1>4, <1>5 DEF CachedStep

-----------------------------------------------------------------------------
(* FlushTransfers.                                                         *)

(* What is left of a queued stream's buffer continues what was accepted.   *)
LEMMA RestIsUnits ==
  ASSUME IInv, NEW s \in queued
  PROVE  /\ hdr[s] \in Calls /\ bytes[hdr[s]] \in 0..MaxBody
         /\ Remaining(s) \in Nat /\ Len(data[s]) \in Nat
         /\ Len(data[s]) + Remaining(s) = bytes[hdr[s]]
         /\ data[s] = Units(hdr[s], 0, Len(data[s]))
         /\ Rest(s) = Units(hdr[s], Len(data[s]), Remaining(s))
<1> DEFINE h == hdr[s]
           k == Len(Buffer[s])
           off == SendOffset[s]
<1>1. /\ StreamInv(s) /\ s \in Streams /\ h \in Calls
      /\ bytes[h] \in 0..MaxBody /\ off \in 0..MaxBody /\ MaxBody \in Nat
      /\ Buffer[s] \in Seq(Unit) /\ data[s] \in Seq(Unit)
  <2>1. s \in Streams /\ StreamInv(s)
    BY DEF IInv, TypeOK
  <2>2. h \in Calls
    BY <2>1 DEF StreamInv, IInv, TypeOK
  <2> QED
    BY <2>1, <2>2, StreamSendAssumption DEF IInv, TypeOK
<1>2. k \in Nat /\ Len(data[s]) \in Nat
  BY <1>1, LenProperties
<1>3. /\ k <= bytes[h] /\ Buffer[s] = Units(h, bytes[h] - k, k) /\ off <= k
      /\ Len(data[s]) = bytes[h] - k + off
  BY <1>1 DEF StreamInv, QueueInStep
<1>4. SubSeq(Units(h, bytes[h] - k, k), off + 1, k) = Units(h, bytes[h] - k + off, k - off)
  <2>1. /\ bytes[h] - k \in Nat /\ (bytes[h] - k) + k <= MaxBody
        /\ off \in 0..k /\ k \in off..k
    BY <1>1, <1>2, <1>3
  <2> QED
    BY <1>1, <1>2, <2>1, UnitsSlice
<1>5. Rest(s) = Units(h, Len(data[s]), Remaining(s))
  BY <1>3, <1>4 DEF Rest, Remaining
<1>6. Remaining(s) \in Nat /\ Len(data[s]) + Remaining(s) = bytes[h]
  BY <1>1, <1>2, <1>3 DEF Remaining
<1> QED
  BY <1>1, <1>2, <1>5, <1>6 DEF StreamInv

(* What one step of FlushTransfers does to the stream it visits: m more    *)
(* units are accepted, and the end of the stream only after the last.      *)
LEMMA TransferEffect ==
  ASSUME IInv, NEW s \in Streams, TransferStep(s)
  PROVE  /\ s \in queued
         /\ UNCHANGED <<callVars, queued, hdr, stale, connVars, at, unsent>>
         /\ unvisited' \subseteq unvisited /\ at = "transfers"
         /\ room' \in 0..MaxRoom
         /\ \E m \in 0..Remaining(s) :
              /\ data' = [data EXCEPT ![s] = Units(hdr[s], 0, Len(data[s]) + m)]
              /\ \/ Buffer' = Buffer /\ SendOffset' = [SendOffset EXCEPT ![s] = @ + m]
                 \/ /\ m = Remaining(s)
                    /\ Buffer' = [Buffer EXCEPT ![s] = <<>>]
                    /\ SendOffset' = [SendOffset EXCEPT ![s] = 0]
              /\ \/ fin' = fin /\ completed' = completed
                 \/ /\ m = Remaining(s) /\ fin' = fin \cup {s}
                    /\ completed' = completed \cup {s}
<1> DEFINE rem == Remaining(s)
           took == Taken(s, rem, room)
           d == Len(data[s])
           h == hdr[s]
           FinEffect == \/ fin' = fin /\ completed' = completed
                        \/ fin' = fin \cup {s} /\ completed' = completed \cup {s}
<1>1. s \in queued /\ s \in unvisited /\ at = "transfers"
  BY DEF TransferStep, IInv, LockInv
<1>2. /\ h \in Calls /\ bytes[h] \in 0..MaxBody /\ MaxBody \in Nat
      /\ rem \in Nat /\ d \in Nat /\ d + rem = bytes[h]
      /\ data[s] = Units(h, 0, d) /\ Rest(s) = Units(h, d, rem)
  BY <1>1, RestIsUnits, StreamSendAssumption
<1>3. room \in 0..MaxRoom /\ MaxRoom \in Nat
  BY StreamSendAssumption DEF IInv, TypeOK
<1>4. /\ UNCHANGED <<callVars, queued, hdr, stale, connVars, at, unsent>>
      /\ unvisited' \subseteq unvisited
  BY DEF TransferStep
<1>5. data = [data EXCEPT ![s] = Units(h, 0, d + 0)] /\ SendOffset = [SendOffset EXCEPT ![s] = @ + 0]
  <2>1. Units(h, 0, d + 0) = data[s]
    BY <1>2
  <2>2. data \in [Streams -> Seq(Unit)] /\ SendOffset \in [Streams -> 0..MaxBody]
    BY DEF IInv, TypeOK
  <2>3. data = [data EXCEPT ![s] = Units(h, 0, d + 0)]
    BY <2>1, <2>2
  <2>4. SendOffset = [SendOffset EXCEPT ![s] = @ + 0]
    <3>1. SendOffset[s] + 0 = SendOffset[s]
      BY <2>2, <1>2
    <3> QED
      BY <2>2, <3>1
  <2> QED
    BY <2>3, <2>4
<1>6. \A m \in 0..rem : Units(h, 0, d) \o Units(h, d, m) = Units(h, 0, d + m)
  <2> SUFFICES ASSUME NEW m \in 0..rem
               PROVE  Units(h, 0, d) \o Units(h, d, m) = Units(h, 0, d + m)
    OBVIOUS
  <2>1. m \in Nat /\ d + m <= MaxBody /\ d \in Nat /\ h \in Calls
    <3> DEFINE total == bytes[h]
    <3>1. /\ total \in 0..MaxBody /\ MaxBody \in Nat /\ rem \in Nat /\ d \in Nat
          /\ d + rem = total /\ h \in Calls
      BY <1>2
    <3> HIDE DEF total, d, rem, h
    <3> QED
      BY <3>1
  <2> HIDE DEF d, rem, h
  <2> QED
    BY ONLY <2>1, UnitsJoin
<1>7. took \in {-1, -2} \/ (took \in 0..rem /\ room - took \in 0..MaxRoom)
  BY <1>2, <1>3 DEF Taken, ErrDone, ErrOther
<1>8. \A left \in 0..MaxRoom : TakesFin(s, left) => left - 1 \in 0..MaxRoom
  BY <1>3 DEF TakesFin, Taken, ErrDone, ErrOther
<1>9. CASE /\ rem <= 0
           /\ UNCHANGED <<Buffer, SendOffset, data>>
           /\ FinEffect /\ room' \in 0..MaxRoom
  <2>1. rem = 0
    BY <1>9, <1>2
  <2>2. /\ 0 \in 0..rem
        /\ data' = [data EXCEPT ![s] = Units(h, 0, d + 0)]
        /\ SendOffset' = [SendOffset EXCEPT ![s] = @ + 0]
    BY <1>9, <1>5, <2>1
  <2> QED
    BY <1>1, <1>4, <1>9, <2>1, <2>2
<1>10. CASE /\ UNCHANGED <<Buffer, SendOffset, data, fin, room, completed>>
  <2>1. /\ 0 \in 0..rem
        /\ data' = [data EXCEPT ![s] = Units(h, 0, d + 0)]
        /\ SendOffset' = [SendOffset EXCEPT ![s] = @ + 0]
    BY <1>2, <1>5, <1>10
  <2> QED
    BY <1>1, <1>3, <1>4, <1>10, <2>1
<1>11. CASE /\ took >= 0 /\ took < rem
            /\ SendOffset' = [SendOffset EXCEPT ![s] = @ + took]
            /\ data' = [data EXCEPT ![s] = @ \o SubSeq(Rest(s), 1, took)]
            /\ room' = room - took
            /\ UNCHANGED <<Buffer, fin, completed>>
  <2>1. took \in 0..rem /\ room' \in 0..MaxRoom
    BY <1>7, <1>11
  <2>2. SubSeq(Rest(s), 1, took) = Units(h, d, took)
    <3>1. /\ took \in 0..rem /\ rem \in Nat /\ d \in Nat /\ h \in Calls
          /\ MaxBody \in Nat /\ bytes[h] <= MaxBody /\ d + rem = bytes[h]
      BY <1>2, <2>1
    <3>2. Rest(s) = Units(h, d, rem)
      BY <1>2
    <3> HIDE DEF took, rem, d, h
    <3>3. d + rem <= MaxBody
      BY <3>1
    <3>4. SubSeq(Units(h, d, rem), 1, took) = Units(h, d, took)
      BY ONLY <3>1, <3>3, UnitsPrefix
    <3> QED
      BY <3>2, <3>4
  <2>3. data' = [data EXCEPT ![s] = Units(h, 0, d + took)]
    BY <1>2, <1>6, <1>11, <2>1, <2>2
  <2> QED
    BY <1>1, <1>4, <1>11, <2>1, <2>3
<1>12. CASE /\ rem > 0 /\ took = rem
            /\ Buffer' = [Buffer EXCEPT ![s] = <<>>]
            /\ SendOffset' = [SendOffset EXCEPT ![s] = 0]
            /\ data' = [data EXCEPT ![s] = @ \o Rest(s)]
            /\ FinEffect /\ room' \in 0..MaxRoom
  <2>1. rem \in 0..rem
    BY <1>2
  <2>2. data' = [data EXCEPT ![s] = Units(h, 0, d + rem)]
    BY <1>2, <1>6, <1>12, <2>1
  <2> QED
    BY <1>1, <1>4, <1>12, <2>1, <2>2
<1> QED
  <2>1. ASSUME NEW left \in 0..MaxRoom,
               \/ /\ TakesFin(s, left) /\ fin' = fin \cup {s} /\ room' = left - 1
                  /\ completed' = completed \cup {s}
               \/ /\ ~TakesFin(s, left) /\ room' = left /\ UNCHANGED <<fin, completed>>
        PROVE  FinEffect /\ room' \in 0..MaxRoom
    BY <2>1, <1>8
  <2>2. \/ /\ rem <= 0
           /\ UNCHANGED <<Buffer, SendOffset, data>>
           /\ \/ /\ TakesFin(s, room) /\ fin' = fin \cup {s} /\ room' = room - 1
                 /\ completed' = completed \cup {s}
              \/ /\ ~TakesFin(s, room) /\ room' = room /\ UNCHANGED <<fin, completed>>
        \/ UNCHANGED <<Buffer, SendOffset, data, fin, room, completed>>
        \/ /\ took >= 0 /\ took < rem
           /\ SendOffset' = [SendOffset EXCEPT ![s] = @ + took]
           /\ data' = [data EXCEPT ![s] = @ \o SubSeq(Rest(s), 1, took)]
           /\ room' = room - took
           /\ UNCHANGED <<Buffer, fin, completed>>
        \/ /\ rem > 0 /\ took = rem
           /\ Buffer' = [Buffer EXCEPT ![s] = <<>>]
           /\ SendOffset' = [SendOffset EXCEPT ![s] = 0]
           /\ data' = [data EXCEPT ![s] = @ \o Rest(s)]
           /\ \/ /\ TakesFin(s, room - took) /\ fin' = fin \cup {s} /\ room' = room - took - 1
                 /\ completed' = completed \cup {s}
              \/ /\ ~TakesFin(s, room - took) /\ room' = room - took /\ UNCHANGED <<fin, completed>>
    BY DEF TransferStep
  <2>3. rem > 0 /\ took = rem => room - took \in 0..MaxRoom
    BY <1>2, <1>7
  <2> HIDE DEF rem, took
  <2> QED
    BY <2>1, <2>2, <2>3, <1>3, <1>9, <1>10, <1>11, <1>12

(* A step of FlushTransfers keeps the queue in step with the wire.         *)
LEMMA TransferStepKeeps ==
  ASSUME IInv, NEW s \in Streams, TransferStep(s)
  PROVE  IInv'
<1> DEFINE h == hdr[s]
           d == Len(data[s])
<1>1. PICK m \in 0..Remaining(s) :
        /\ data' = [data EXCEPT ![s] = Units(h, 0, d + m)]
        /\ \/ Buffer' = Buffer /\ SendOffset' = [SendOffset EXCEPT ![s] = @ + m]
           \/ /\ m = Remaining(s)
              /\ Buffer' = [Buffer EXCEPT ![s] = <<>>]
              /\ SendOffset' = [SendOffset EXCEPT ![s] = 0]
        /\ \/ fin' = fin /\ completed' = completed
           \/ /\ m = Remaining(s) /\ fin' = fin \cup {s}
              /\ completed' = completed \cup {s}
  BY TransferEffect
<1>2. /\ UNCHANGED <<callVars, queued, hdr, stale, connVars, at, unsent>>
      /\ unvisited' \subseteq unvisited /\ at = "transfers"
      /\ room' \in 0..MaxRoom /\ s \in queued
  BY TransferEffect
<1>3. /\ h \in Calls /\ bytes[h] \in 0..MaxBody /\ MaxBody \in Nat
      /\ Remaining(s) \in Nat /\ d \in Nat /\ d + Remaining(s) = bytes[h]
  BY <1>2, RestIsUnits, StreamSendAssumption
<1>4. /\ d + m \in Nat /\ d + m <= bytes[h] /\ m \in Nat
      /\ Units(h, 0, d + m) \in Seq(Unit) /\ Len(Units(h, 0, d + m)) = d + m
  <2>1. d + m \in Nat /\ 0 \in Nat /\ 0 + (d + m) <= MaxBody /\ d + m <= bytes[h] /\ m \in Nat
    BY <1>3
  <2> QED
    BY <2>1, <1>3, UnitsSeq
<1>5. h # NoCall
  BY <1>3, StreamSendAssumption DEF NoCall, Calls
<1>6. StreamInv(s) /\ QueueInStep(s)
  BY <1>2 DEF IInv, StreamInv
<1>7. Len(Buffer[s]) \in Nat /\ SendOffset[s] \in Nat /\ Len(Buffer[s]) <= bytes[h]
      /\ Remaining(s) = Len(Buffer[s]) - SendOffset[s]
  <2>1. Buffer[s] \in Seq(Unit) /\ SendOffset[s] \in 0..MaxBody
    BY DEF IInv, TypeOK
  <2> QED
    BY <2>1, <1>6, LenProperties DEF Remaining, QueueInStep
<1>8. data'[s] = Units(h, 0, d + m) /\ Len(data'[s]) = d + m
  BY <1>1, <1>4 DEF IInv, TypeOK
<1>a. /\ SendOffset[s] + m <= Len(Buffer[s])
      /\ d + m = bytes[h] - Len(Buffer[s]) + (SendOffset[s] + m)
  <2> DEFINE k == Len(Buffer[s])
             off == SendOffset[s]
             total == bytes[h]
  <2>1. /\ k \in Nat /\ off \in Nat /\ total \in Nat /\ d \in Nat /\ m \in 0..(k - off)
        /\ d + (k - off) = total
    BY <1>3, <1>7
  <2> HIDE DEF k, off, total, d
  <2>2. off + m <= k /\ d + m = total - k + (off + m)
    BY ONLY <2>1
  <2> QED
    BY <2>2 DEF k, off, total, d
<1>9. QueueInStep(s)'
  <2>1. CASE Buffer' = Buffer /\ SendOffset' = [SendOffset EXCEPT ![s] = @ + m]
    <3>1. SendOffset'[s] = SendOffset[s] + m /\ Buffer'[s] = Buffer[s]
      BY <2>1 DEF IInv, TypeOK
    <3> QED
      BY <3>1, <1>a, <1>2, <1>6, <1>8 DEF QueueInStep, callVars
  <2>2. CASE /\ m = Remaining(s) /\ Buffer' = [Buffer EXCEPT ![s] = <<>>]
             /\ SendOffset' = [SendOffset EXCEPT ![s] = 0]
    <3>1. Buffer'[s] = <<>> /\ SendOffset'[s] = 0
      BY <2>2 DEF IInv, TypeOK
    <3>2. Len(<<>>) = 0 /\ bytes[h] - 0 = bytes[h] /\ Units(h, bytes[h], 0) = <<>>
      BY <1>3, EmptySeq DEF Units
    <3>3. d + m = bytes[h] - 0 + 0
      BY <2>2, <1>3
    <3> QED
      BY <3>1, <3>2, <3>3, <1>2, <1>3, <1>8 DEF QueueInStep, callVars
  <2> QED
    BY <1>1, <2>1, <2>2
<1>10. TypeOK'
  <2>1. data' \in [Streams -> Seq(Unit)]
    BY <1>1, <1>4 DEF IInv, TypeOK
  <2>2. Buffer' \in [Streams -> Seq(Unit)]
    <3>1. <<>> \in Seq(Unit)
      BY EmptySeq
    <3> QED
      BY <1>1, <3>1 DEF IInv, TypeOK
  <2>3. SendOffset' \in [Streams -> 0..MaxBody]
    <3>1. SendOffset[s] + m \in 0..MaxBody
      <4> DEFINE k == Len(Buffer[s])
                 off == SendOffset[s]
                 total == bytes[h]
      <4>1. /\ k \in Nat /\ off \in Nat /\ m \in Nat /\ total \in 0..MaxBody
            /\ MaxBody \in Nat /\ k <= total /\ off + m <= k
        BY <1>3, <1>4, <1>7, <1>a
      <4> HIDE DEF k, off, total
      <4>2. off + m \in 0..MaxBody
        BY ONLY <4>1
      <4> QED
        BY <4>2 DEF off
    <3>2. 0 \in 0..MaxBody /\ SendOffset \in [Streams -> 0..MaxBody]
      BY <1>3 DEF IInv, TypeOK
    <3>3. \/ SendOffset' = [SendOffset EXCEPT ![s] = SendOffset[s] + m]
          \/ SendOffset' = [SendOffset EXCEPT ![s] = 0]
      BY <1>1
    <3> QED
      BY <3>1, <3>2, <3>3
  <2>4. fin' \in SUBSET Streams /\ completed' \in SUBSET Streams /\ unvisited' \in SUBSET Streams
    BY <1>1, <1>2 DEF IInv, TypeOK
  <2> QED
    BY <1>2, <2>1, <2>2, <2>3, <2>4 DEF IInv, TypeOK, callVars, connVars
<1>11. ASSUME NEW t \in Streams PROVE StreamInv(t)'
  <2>1. CASE t = s
    <3>1. status[h] \notin {"unused", "trying"}
      BY <1>5, <1>6 DEF StreamInv
    <3>2. s \in fin' => d + m = bytes[h]
      BY <1>1, <1>3, <1>4, <1>6 DEF StreamInv
    <3> QED
      BY <2>1, <3>1, <3>2, <1>2, <1>4, <1>5, <1>8, <1>9 DEF StreamInv, callVars
  <2>2. CASE t # s
    <3>1. /\ data'[t] = data[t] /\ Buffer'[t] = Buffer[t] /\ SendOffset'[t] = SendOffset[t]
          /\ (t \in fin' <=> t \in fin)
          /\ UNCHANGED <<hdr, queued, status, bytes>>
      BY <2>2, <1>1, <1>2 DEF IInv, TypeOK, callVars
    <3>2. QueueInStep(t)' = QueueInStep(t)
      BY <3>1 DEF QueueInStep
    <3> QED
      BY <3>1, <3>2 DEF IInv, StreamInv
  <2> QED
    BY <2>1, <2>2
<1>12. ASSUME NEW c \in Calls PROVE CallInv(c)'
  <2>1. CallInv(c) /\ fin \subseteq fin'
    BY <1>1 DEF IInv
  <2> QED
    BY <1>2, <2>1 DEF CallInv, callVars, connVars
<1>13. LockInv'
  BY <1>1, <1>2 DEF IInv, LockInv, Cached, callVars
<1> QED
  BY <1>10, <1>11, <1>12, <1>13 DEF IInv

-----------------------------------------------------------------------------
(* SendBody.                                                               *)

(* What SendBody does with the body of call c on a fresh stream: rc units  *)
(* are accepted, and the rest is queued or there is none.                  *)
LEMMA SendBodyEffect ==
  ASSUME IInv, NEW s \in Streams, NEW c \in Calls, NEW n \in 0..MaxBody,
         HeadersTaken(s), SendBody(s, c, n, room - 1)
  PROVE  \E rc \in 0..n :
           /\ data' = [data EXCEPT ![s] = Units(c, 0, rc)]
           /\ room' \in 0..MaxRoom
           /\ \/ /\ rc = n /\ fin' = fin \cup {s} /\ UNCHANGED queueVars
                 /\ status' = [status EXCEPT ![c] = "accepted"] /\ StartFlush
              \/ /\ fin' = fin /\ queued' = queued \cup {s}
                 /\ Buffer' = [Buffer EXCEPT ![s] = Units(c, rc, n - rc)]
                 /\ SendOffset' = [SendOffset EXCEPT ![s] = 0]
                 /\ status' = [status EXCEPT ![c] = "accepted"] /\ StartFlush
              \/ /\ rc = n /\ fin' = fin /\ UNCHANGED <<queueVars, lockVars>>
                 /\ status' = [status EXCEPT ![c] = "halfway"]
<1> DEFINE r == room - 1
           rc == IF n > 0 /\ Taken(s, n, r) > 0 THEN Taken(s, n, r) ELSE 0
<1>1. MaxBody \in Nat /\ MaxRoom \in Nat
  BY StreamSendAssumption
<1>2. ~Refuses(s) /\ r \in 0..MaxRoom /\ data[s] = <<>>
  BY <1>1 DEF HeadersTaken, IInv, TypeOK, StreamInv
<1>3. rc \in 0..n /\ r - rc \in 0..MaxRoom
  BY <1>1, <1>2 DEF Taken, ErrDone, ErrOther
<1>4. TakesFin(s, r - rc) => r - rc - 1 \in 0..MaxRoom
  BY <1>1, <1>2, <1>3 DEF TakesFin, Taken, ErrDone, ErrOther
<1>5. data' = [data EXCEPT ![s] = @ \o Units(c, 0, rc)]
  BY DEF SendBody
<1>6. \/ /\ n = 0 /\ fin' = fin \cup {s} /\ room' = r - rc /\ UNCHANGED queueVars
         /\ status' = [status EXCEPT ![c] = "accepted"] /\ StartFlush
      \/ /\ queued' = queued \cup {s} /\ fin' = fin /\ room' = r - rc
         /\ Buffer' = [Buffer EXCEPT ![s] = Units(c, rc, n - rc)]
         /\ SendOffset' = [SendOffset EXCEPT ![s] = 0]
         /\ status' = [status EXCEPT ![c] = "accepted"] /\ StartFlush
      \/ /\ rc = n /\ TakesFin(s, r - rc) /\ fin' = fin \cup {s} /\ room' = r - rc - 1
         /\ status' = [status EXCEPT ![c] = "accepted"] /\ StartFlush /\ UNCHANGED queueVars
      \/ /\ rc = n /\ fin' = fin /\ room' = r - rc /\ UNCHANGED <<queueVars, lockVars>>
         /\ status' = [status EXCEPT ![c] = "halfway"]
  BY DEF SendBody
<1>7. n = 0 => rc = n
  BY <1>3
<1> HIDE DEF rc, r
<1>8. Units(c, 0, rc) \in Seq(Unit)
  <2>1. rc \in Nat /\ 0 \in Nat /\ 0 + rc <= MaxBody
    BY <1>1, <1>3
  <2> QED
    BY <2>1, UnitsSeq
<1>9. data' = [data EXCEPT ![s] = Units(c, 0, rc)]
  <2>1. <<>> \o Units(c, 0, rc) = Units(c, 0, rc)
    BY <1>8, ConcatEmptySeq
  <2> QED
    BY <1>2, <1>5, <2>1
<1>10. room' \in 0..MaxRoom
  BY <1>3, <1>4, <1>6
<1> QED
  BY <1>3, <1>6, <1>7, <1>9, <1>10

(* Sending a body keeps the invariant: the call is new, its stream fresh.  *)
LEMMA SendBodyKeeps ==
  ASSUME IInv, NEW s \in Streams, NEW c \in Calls, NEW n \in 0..MaxBody,
         HeadersTaken(s), SendBody(s, c, n, room - 1),
         status[c] \in {"unused", "trying"}, at = "free",
         hdr' = [hdr EXCEPT ![s] = c],
         target' = [target EXCEPT ![c] = s],
         bytes' = [bytes EXCEPT ![c] = n],
         UNCHANGED <<bytes_left, holding, stale, connVars>>
  PROVE  IInv'
<1>1. PICK rc \in 0..n :
        /\ data' = [data EXCEPT ![s] = Units(c, 0, rc)]
        /\ room' \in 0..MaxRoom
        /\ \/ /\ rc = n /\ fin' = fin \cup {s} /\ UNCHANGED queueVars
              /\ status' = [status EXCEPT ![c] = "accepted"] /\ StartFlush
           \/ /\ fin' = fin /\ queued' = queued \cup {s}
              /\ Buffer' = [Buffer EXCEPT ![s] = Units(c, rc, n - rc)]
              /\ SendOffset' = [SendOffset EXCEPT ![s] = 0]
              /\ status' = [status EXCEPT ![c] = "accepted"] /\ StartFlush
           \/ /\ fin' = fin /\ UNCHANGED <<queueVars, lockVars>>
              /\ status' = [status EXCEPT ![c] = "halfway"]
  BY SendBodyEffect
<1>2. /\ MaxBody \in Nat /\ rc \in Nat /\ n \in Nat /\ n - rc \in Nat
      /\ rc <= n /\ n - (n - rc) = rc /\ c # NoCall
  BY StreamSendAssumption DEF NoCall, Calls
<1>3. Units(c, 0, rc) \in Seq(Unit) /\ Len(Units(c, 0, rc)) = rc
  <2>1. 0 \in Nat /\ 0 + rc <= MaxBody
    BY <1>2
  <2> QED
    BY <2>1, <1>2, UnitsSeq
<1>4. Units(c, rc, n - rc) \in Seq(Unit) /\ Len(Units(c, rc, n - rc)) = n - rc
  <2>1. rc + (n - rc) <= MaxBody
    BY <1>2
  <2> QED
    BY <2>1, <1>2, UnitsSeq
<1>5. /\ hdr[s] = NoCall /\ s \notin fin /\ s \notin queued
      /\ TypeOK /\ LockInv /\ unvisited = {}
  BY DEF HeadersTaken, IInv, StreamInv, LockInv
<1>6. status' \in {[status EXCEPT ![c] = "accepted"], [status EXCEPT ![c] = "halfway"]}
  BY <1>1
<1>7. TypeOK'
  <2>1. /\ status' \in [Calls -> Status] /\ target' \in [Calls -> Streams \cup {NoStream}]
        /\ bytes' \in [Calls -> 0..MaxBody] /\ hdr' \in [Streams -> Calls \cup {NoCall}]
        /\ data' \in [Streams -> Seq(Unit)] /\ fin' \in SUBSET Streams
    <3>1. status' \in [Calls -> Status]
      BY <1>5, <1>6 DEF TypeOK, Status
    <3>2. target' \in [Calls -> Streams \cup {NoStream}] /\ bytes' \in [Calls -> 0..MaxBody]
      BY <1>5 DEF TypeOK
    <3>3. hdr' \in [Streams -> Calls \cup {NoCall}]
      BY <1>5 DEF TypeOK
    <3>4. data' \in [Streams -> Seq(Unit)]
      BY <1>1, <1>3, <1>5 DEF TypeOK
    <3>5. fin' \in SUBSET Streams
      BY <1>1, <1>5 DEF TypeOK
    <3> QED
      BY <3>1, <3>2, <3>3, <3>4, <3>5
  <2>2. queued' \in SUBSET Streams /\ Buffer' \in [Streams -> Seq(Unit)]
    <3>1. queued' \in {queued, queued \cup {s}}
          /\ Buffer' \in {Buffer, [Buffer EXCEPT ![s] = Units(c, rc, n - rc)]}
      BY <1>1 DEF queueVars
    <3> QED
      BY <3>1, <1>4, <1>5 DEF TypeOK
  <2>3. SendOffset' \in [Streams -> 0..MaxBody]
    <3>1. 0 \in 0..MaxBody
      BY <1>2
    <3> QED
      BY <1>1, <1>5, <3>1 DEF TypeOK, queueVars
  <2>4. /\ at' \in {"free", "responses", "transfers"} /\ unsent' \in SUBSET Calls
        /\ unvisited' = unvisited /\ completed' = completed
    BY <1>1, <1>5 DEF TypeOK, StartFlush, Cached, lockVars
  <2> QED
    BY <1>1, <1>5, <2>1, <2>2, <2>3, <2>4 DEF TypeOK, connVars
<1>8. LockInv'
  <2>1. /\ unvisited' = unvisited /\ completed' = completed
        /\ unsent' \subseteq Cached /\ fin \subseteq fin'
    BY <1>1, <1>5 DEF LockInv, StartFlush, lockVars
  <2>2. Cached \subseteq Cached'
    BY <1>5, <1>6 DEF Cached, TypeOK
  <2> QED
    BY <1>5, <2>1, <2>2 DEF LockInv
<1>9. ASSUME NEW t \in Streams PROVE StreamInv(t)'
  <2>1. CASE t = s
    <3>1. /\ hdr'[s] = c /\ bytes'[c] = n /\ data'[s] = Units(c, 0, rc)
          /\ status'[c] \notin {"unused", "trying"}
      BY <1>1, <1>5, <1>6 DEF TypeOK
    <3>2. s \in fin' => rc = n
      BY <1>1, <1>5
    <3>3. s \in queued' => /\ Buffer'[s] = Units(c, rc, n - rc)
                           /\ SendOffset'[s] = 0
      BY <1>1, <1>5 DEF TypeOK, queueVars
    <3>4. s \in queued' => QueueInStep(s)'
      <4>1. 0 <= n - rc /\ n - rc <= n /\ rc = n - (n - rc) + 0
        BY <1>2
      <4> QED
        BY <3>1, <3>3, <4>1, <1>2, <1>3, <1>4 DEF QueueInStep
    <3> QED
      BY <2>1, <3>1, <3>2, <3>4, <1>2, <1>3 DEF StreamInv
  <2>2. CASE t # s
    <3>1. /\ hdr'[t] = hdr[t] /\ data'[t] = data[t] /\ (t \in fin' <=> t \in fin)
          /\ Buffer'[t] = Buffer[t] /\ SendOffset'[t] = SendOffset[t]
          /\ (t \in queued' <=> t \in queued)
      BY <2>2, <1>1, <1>5 DEF TypeOK, queueVars
    <3>2. StreamInv(t) /\ hdr[t] \in Calls \cup {NoCall}
      BY DEF IInv, TypeOK
    <3>3. hdr[t] # NoCall => /\ bytes'[hdr[t]] = bytes[hdr[t]]
                             /\ status'[hdr[t]] \notin {"unused", "trying"}
      BY <3>2, <1>5, <1>6 DEF StreamInv, TypeOK
    <3>4. t \in fin \cup queued => hdr[t] # NoCall
      BY <3>2 DEF StreamInv
    <3>5. t \in queued => QueueInStep(t)'
      BY <3>1, <3>2, <3>3, <3>4 DEF StreamInv, QueueInStep
    <3> QED
      BY <3>1, <3>2, <3>3, <3>4, <3>5 DEF StreamInv
  <2> QED
    BY <2>1, <2>2
<1>10. ASSUME NEW d \in Calls PROVE CallInv(d)'
  <2>1. CASE d = c
    <3>1. target'[c] = s /\ status'[c] \in {"accepted", "halfway"}
      BY <1>5, <1>6 DEF TypeOK
    <3>2. status'[c] = "accepted" => s \in fin' \cup queued'
      BY <1>1, <1>5 DEF TypeOK
    <3> QED
      BY <2>1, <3>1, <3>2 DEF CallInv
  <2>2. CASE d # c
    <3>1. /\ status'[d] = status[d] /\ target'[d] = target[d] /\ bytes'[d] = bytes[d]
          /\ fin \subseteq fin' /\ queued \subseteq queued'
      BY <2>2, <1>1, <1>5, <1>6 DEF TypeOK, queueVars
    <3>2. CallInv(d)
      BY DEF IInv
    <3> QED
      BY <3>1, <3>2 DEF CallInv, connVars
  <2> QED
    BY <2>1, <2>2
<1> QED
  BY <1>7, <1>8, <1>9, <1>10 DEF IInv

(* A response that is cached or refused leaves the streams alone.          *)
LEMMA SendResponseKeeps ==
  ASSUME IInv, NEW s \in Streams, NEW c \in Calls, NEW n \in 0..MaxBody, SendResponse(c, s, n)
  PROVE  IInv'
<1>1. /\ status[c] = "unused" /\ at = "free"
      /\ target' = [target EXCEPT ![c] = s] /\ bytes' = [bytes EXCEPT ![c] = n]
      /\ UNCHANGED connVars
  BY DEF SendResponse, Fresh
<1>2. CASE /\ HeadersTaken(s) /\ hdr' = [hdr EXCEPT ![s] = c]
           /\ SendBody(s, c, n, room - 1) /\ UNCHANGED <<bytes_left, holding, stale>>
  BY <1>1, <1>2, SendBodyKeeps
<1>3. CASE /\ \/ status' = [status EXCEPT ![c] = "failed"] /\ UNCHANGED <<bytes_left, holding>>
              \/ /\ status' = [status EXCEPT ![c] = "cached"]
                 /\ bytes_left' = [bytes_left EXCEPT ![c] = n]
                 /\ holding' = holding \cup {c}
           /\ UNCHANGED <<queueVars, wireVars, lockVars>>
  <2>1. TypeOK /\ LockInv
    BY DEF IInv
  <2>2. TypeOK'
    <3>1. /\ status' \in [Calls -> Status] /\ bytes_left' \in [Calls -> 0..MaxBody]
          /\ holding' \in SUBSET Calls
      BY <1>3, <2>1 DEF TypeOK, Status
    <3>2. target' \in [Calls -> Streams \cup {NoStream}] /\ bytes' \in [Calls -> 0..MaxBody]
      BY <1>1, <2>1 DEF TypeOK
    <3> QED
      BY <1>1, <1>3, <2>1, <3>1, <3>2 DEF TypeOK, queueVars, wireVars, connVars, lockVars
  <2>3. LockInv'
    BY <1>1, <1>3, <2>1 DEF TypeOK, LockInv, Cached, queueVars, wireVars, lockVars
  <2>4. ASSUME NEW t \in Streams PROVE StreamInv(t)'
    <3>1. StreamInv(t) /\ hdr[t] \in Calls \cup {NoCall}
      BY DEF IInv, TypeOK
    <3>2. UNCHANGED <<hdr, data, fin, queued, Buffer, SendOffset>>
      BY <1>3 DEF queueVars, wireVars
    <3>3. hdr[t] # NoCall => /\ bytes'[hdr[t]] = bytes[hdr[t]]
                             /\ status'[hdr[t]] = status[hdr[t]]
      BY <3>1, <1>1, <1>3, <2>1 DEF StreamInv, TypeOK
    <3>4. t \in fin \cup queued => hdr[t] # NoCall
      BY <3>1 DEF StreamInv
    <3>5. t \in queued => QueueInStep(t)'
      BY <3>1, <3>2, <3>3, <3>4 DEF StreamInv, QueueInStep
    <3> QED
      BY <3>1, <3>2, <3>3, <3>4, <3>5 DEF StreamInv
  <2>5. ASSUME NEW d \in Calls PROVE CallInv(d)'
    <3>1. CallInv(d)
      BY DEF IInv
    <3>2. CASE d = c
      BY <3>2, <1>1, <1>3, <2>1 DEF CallInv, TypeOK
    <3>3. CASE d # c
      BY <3>1, <3>3, <1>1, <1>3, <2>1 DEF CallInv, TypeOK, queueVars, wireVars, connVars
    <3> QED
      BY <3>2, <3>3
  <2> QED
    BY <2>2, <2>3, <2>4, <2>5 DEF IInv
<1> QED
  BY <1>2, <1>3 DEF SendResponse

-----------------------------------------------------------------------------
(* The theorems.                                                           *)

(* Every step keeps the inductive invariant.                               *)
LEMMA NextIInv == IInv /\ [Next]_vars => IInv'
<1> SUFFICES ASSUME IInv, [Next]_vars PROVE IInv'
  OBVIOUS
<1>1. ASSUME NEW c \in Calls, NEW s \in Streams, NEW n \in 0..MaxBody, RequestSent(c, s, n)
      PROVE  IInv'
  BY <1>1, SendBodyKeeps DEF RequestSent
<1>2. CASE Flush
  BY <1>2, CachedStepKeeps, TransferStepKeeps, QuietSteps, ForgettingSteps DEF Flush
<1>3. CASE UNCHANGED vars
  BY <1>3 DEF vars, callVars, queueVars, wireVars, connVars, lockVars,
    IInv, TypeOK, StreamInv, QueueInStep, CallInv, LockInv, Cached
<1> QED
  BY <1>1, <1>2, <1>3, SendResponseKeeps, QuietSteps, ForgettingSteps DEF Next

(* Every variable of the send side keeps its type.                         *)
THEOREM TypeCorrect == Spec => []TypeOK
<1>1. IInv => TypeOK
  BY DEF IInv
<1> QED
  BY InitIInv, NextIInv, <1>1, PTL DEF Spec

(* The bytes of a stream are always a prefix of one call's body.           *)
THEOREM WireCorrect == Spec => []WireIsOneBody
<1>1. IInv => WireIsOneBody
  BY DEF IInv, StreamInv, WireIsOneBody
<1> QED
  BY InitIInv, NextIInv, <1>1, PTL DEF Spec

(* No stream is ended before its body is complete.                         *)
THEOREM FinCorrect == Spec => []FinMeansWhole
<1>1. IInv => FinMeansWhole
  BY DEF IInv, StreamInv, FinMeansWhole, TypeOK
<1> QED
  BY InitIInv, NextIInv, <1>1, PTL DEF Spec

(* The queued rest of a body completes what was accepted of it.            *)
THEOREM QueueCorrect == Spec => []Resumable
<1>1. ASSUME IInv, NEW s \in queued
      PROVE  hdr[s] # NoCall /\ data[s] \o Rest(s) = Units(hdr[s], 0, bytes[hdr[s]])
  <2>1. /\ hdr[s] \in Calls /\ bytes[hdr[s]] \in 0..MaxBody
        /\ Remaining(s) \in Nat /\ Len(data[s]) \in Nat
        /\ Len(data[s]) + Remaining(s) = bytes[hdr[s]]
        /\ data[s] = Units(hdr[s], 0, Len(data[s]))
        /\ Rest(s) = Units(hdr[s], Len(data[s]), Remaining(s))
    BY <1>1, RestIsUnits
  <2> DEFINE d == Len(data[s])
             rem == Remaining(s)
  <2>2. d \in Nat /\ rem \in Nat /\ hdr[s] \in Calls /\ d + rem <= MaxBody
    <3>1. /\ d \in Nat /\ rem \in Nat /\ MaxBody \in Nat /\ bytes[hdr[s]] \in 0..MaxBody
          /\ d + rem = bytes[hdr[s]] /\ hdr[s] \in Calls
      BY <2>1, StreamSendAssumption
    <3> HIDE DEF d, rem
    <3> QED
      BY <3>1
  <2>3. hdr[s] # NoCall
    BY <2>1, StreamSendAssumption DEF NoCall, Calls
  <2> HIDE DEF d, rem
  <2>4. Units(hdr[s], 0, d) \o Units(hdr[s], d, rem) = Units(hdr[s], 0, d + rem)
    BY ONLY <2>2, UnitsJoin
  <2> QED
    BY <2>1, <2>3, <2>4 DEF d, rem
<1>2. IInv => Resumable
  BY <1>1 DEF Resumable
<1> QED
  BY InitIInv, NextIInv, <1>2, PTL DEF Spec

(* A body whose end was refused is on the wire, all of it.                 *)
Half ==
  \A c \in Calls : status[c] = "halfway" =>
    target[c] \in Streams /\ hdr[target[c]] = c /\ Len(data[target[c]]) = bytes[c]

(* It stays there: a stream that has its HEADERS is given to no other call,*)
(* and takes no unit beyond the last.                                      *)
LEMMA HalfStays ==
  ASSUME Half,
         NEW d \in Calls, status'[d] = "halfway",
         status[d] = "halfway", target'[d] = target[d], bytes'[d] = bytes[d],
         \A t \in Streams : hdr[t] = d /\ Len(data[t]) = bytes[d]
                              => hdr'[t] = hdr[t] /\ data'[t] = data[t]
  PROVE  target'[d] \in Streams /\ hdr'[target'[d]] = d /\ Len(data'[target'[d]]) = bytes'[d]
BY DEF Half

LEMMA HalfUnchanged ==
  ASSUME Half, UNCHANGED <<status, target, bytes, hdr, data>>
  PROVE  Half'
BY DEF Half

LEMMA HalfSent ==
  ASSUME IInv, Half, NEW c \in Calls, NEW s \in Streams, NEW n \in 0..MaxBody,
         HeadersTaken(s), SendBody(s, c, n, room - 1),
         hdr' = [hdr EXCEPT ![s] = c], target' = [target EXCEPT ![c] = s],
         bytes' = [bytes EXCEPT ![c] = n]
  PROVE  Half'
<1>1. PICK rc \in 0..n :
        /\ data' = [data EXCEPT ![s] = Units(c, 0, rc)]
        /\ \/ status' = [status EXCEPT ![c] = "accepted"]
           \/ rc = n /\ status' = [status EXCEPT ![c] = "halfway"]
  BY SendBodyEffect
<1>2. /\ status \in [Calls -> Status] /\ target \in [Calls -> Streams \cup {NoStream}]
      /\ bytes \in [Calls -> 0..MaxBody] /\ hdr \in [Streams -> Calls \cup {NoCall}]
      /\ data \in [Streams -> Seq(Unit)]
  BY DEF IInv, TypeOK
<1>3. Len(Units(c, 0, n)) = n
  BY StreamSendAssumption DEF Units
<1>4. ASSUME status'[c] = "halfway"
      PROVE  target'[c] \in Streams /\ hdr'[target'[c]] = c /\ Len(data'[target'[c]]) = bytes'[c]
  <2>1. rc = n
    BY <1>1, <1>2, <1>4
  <2>2. target'[c] = s /\ hdr'[s] = c /\ data'[s] = Units(c, 0, n) /\ bytes'[c] = n
    BY <1>1, <1>2, <2>1
  <2> QED
    BY <1>3, <2>2
<1>5. ASSUME NEW d \in Calls, d # c, status'[d] = "halfway"
      PROVE  target'[d] \in Streams /\ hdr'[target'[d]] = d /\ Len(data'[target'[d]]) = bytes'[d]
  <2>1. status[d] = "halfway" /\ target'[d] = target[d] /\ bytes'[d] = bytes[d]
    BY <1>1, <1>2, <1>5
  <2>2. hdr[s] # d
    BY StreamSendAssumption DEF HeadersTaken, NoCall, Calls
  <2>3. \A t \in Streams : hdr[t] = d => hdr'[t] = hdr[t] /\ data'[t] = data[t]
    BY <1>1, <1>2, <2>2
  <2> QED
    BY <1>5, <2>1, <2>3, HalfStays
<1> QED
  BY <1>4, <1>5 DEF Half

LEMMA HalfStep == IInv /\ Half /\ [Next]_vars => Half'
<1> SUFFICES ASSUME IInv, Half, [Next]_vars PROVE Half'
  OBVIOUS
<1>0. status \in [Calls -> Status] /\ hdr \in [Streams -> Calls \cup {NoCall}]
      /\ data \in [Streams -> Seq(Unit)]
      /\ target \in [Calls -> Streams \cup {NoStream}] /\ bytes \in [Calls -> 0..MaxBody]
  BY DEF IInv, TypeOK
<1>1. ASSUME NEW c \in Calls, NEW s \in Streams, NEW n \in 0..MaxBody, RequestSent(c, s, n)
      PROVE  Half'
  BY <1>1, HalfSent DEF RequestSent
<1>2. ASSUME NEW c \in Calls, NEW s \in Streams, NEW n \in 0..MaxBody, SendResponse(c, s, n)
      PROVE  Half'
  <2>1. /\ status[c] = "unused" /\ target' = [target EXCEPT ![c] = s]
        /\ bytes' = [bytes EXCEPT ![c] = n]
    BY <1>2 DEF SendResponse, Fresh
  <2>2. CASE HeadersTaken(s) /\ hdr' = [hdr EXCEPT ![s] = c] /\ SendBody(s, c, n, room - 1)
    BY <2>1, <2>2, HalfSent
  <2>3. ASSUME NEW new \in {"failed", "cached"}, status' = [status EXCEPT ![c] = new],
               UNCHANGED wireVars
        PROVE  Half'
    <3>1. \A d \in Calls : status'[d] = "halfway" =>
            status[d] = "halfway" /\ target'[d] = target[d] /\ bytes'[d] = bytes[d]
      BY <1>0, <2>1, <2>3
    <3> QED
      BY <2>3, <3>1, HalfStays DEF Half, wireVars
  <2> QED
    BY <1>2, <2>2, <2>3 DEF SendResponse
<1>3. ASSUME NEW c \in Calls, CallRequest(c) \/ RequestFailed(c) PROVE Half'
  <2>1. /\ UNCHANGED <<target, bytes, hdr, data>>
        /\ \E new \in {"trying", "failed"} : status' = [status EXCEPT ![c] = new]
    BY <1>3 DEF CallRequest, RequestFailed, wireVars
  <2>2. \A d \in Calls : status'[d] = "halfway" => status[d] = "halfway"
    BY <1>0, <2>1
  <2> QED
    BY <2>1, <2>2 DEF Half
<1>4. ASSUME NEW c \in Calls, CachedStep(c) PROVE Half'
  <2> DEFINE s == target[c]
  <2>1. s \in Streams /\ UNCHANGED <<target, bytes>>
    BY <1>4 DEF CachedStep, IInv, LockInv, Cached, CallInv
  <2>2. CASE /\ UNCHANGED <<bytes_left, wireVars>>
             /\ status' \in {status, [status EXCEPT ![c] = "failed"]}
    <3>1. \A d \in Calls : status'[d] = "halfway" => status[d] = "halfway"
      BY <1>0, <2>2
    <3> QED
      BY <2>1, <2>2, <3>1 DEF Half, wireVars
  <2>3. CASE ~(/\ UNCHANGED <<bytes_left, wireVars>>
               /\ status' \in {status, [status EXCEPT ![c] = "failed"]})
    <3>1. /\ HeadersTaken(s) /\ hdr' = [hdr EXCEPT ![s] = c]
          /\ \E k \in 0..bytes_left[c] : data' = [data EXCEPT ![s] = Units(c, 0, k)]
          /\ \E new \in {"flushed", "failed", "cached"} : status' = [status EXCEPT ![c] = new]
      BY <1>4, <2>3, CachedEffect
    <3>2. ASSUME NEW d \in Calls, status'[d] = "halfway"
          PROVE  target'[d] \in Streams /\ hdr'[target'[d]] = d
                 /\ Len(data'[target'[d]]) = bytes'[d]
      <4>1. status[d] = "halfway"
        BY <1>0, <3>1, <3>2
      <4>2. hdr[s] # d
        BY <3>1, StreamSendAssumption DEF HeadersTaken, NoCall, Calls
      <4>3. \A t \in Streams : hdr[t] = d => hdr'[t] = hdr[t] /\ data'[t] = data[t]
        BY <1>0, <3>1, <4>2
      <4> QED
        BY <2>1, <3>2, <4>1, <4>3, HalfStays
    <3> QED
      BY <3>2 DEF Half
  <2> QED
    BY <2>2, <2>3
<1>5. ASSUME NEW s \in Streams, TransferStep(s) PROVE Half'
  <2>1. UNCHANGED <<status, target, bytes, hdr>> /\ s \in queued
    BY <1>5, TransferEffect DEF callVars
  <2>2. PICK m \in 0..Remaining(s) :
          data' = [data EXCEPT ![s] = Units(hdr[s], 0, Len(data[s]) + m)]
    BY <1>5, TransferEffect
  <2>3. /\ Len(data[s]) + Remaining(s) = bytes[hdr[s]] /\ Remaining(s) \in Nat
        /\ Len(data[s]) \in Nat /\ data[s] = Units(hdr[s], 0, Len(data[s]))
        /\ bytes[hdr[s]] \in Nat
    BY <2>1, RestIsUnits, StreamSendAssumption
  <2>4. ASSUME NEW t \in Streams, Len(data[t]) = bytes[hdr[t]]
        PROVE  data'[t] = data[t]
    <3>1. CASE t = s
      <4>1. Remaining(s) = 0
        BY <2>3, <2>4, <3>1
      <4>2. m = 0
        BY <2>2, <4>1
      <4>3. Len(data[s]) + m = Len(data[s])
        BY <2>3, <4>2
      <4> QED
        BY <1>0, <2>2, <2>3, <3>1, <4>3
    <3>2. CASE t # s
      BY <1>0, <2>2, <3>2
    <3> QED
      BY <3>1, <3>2
  <2> QED
    BY <2>1, <2>4, HalfStays DEF Half
<1>6. ASSUME NEW c \in Calls, RespondReturns(c) PROVE Half'
  BY <1>6, HalfUnchanged DEF RespondReturns, wireVars
<1>7. ASSUME NEW s \in Streams, StopSending(s) \/ DestroyStream(s) PROVE Half'
  BY <1>7, HalfUnchanged DEF StopSending, DestroyStream, callVars, wireVars
<1>8. CASE EndResponses \/ EndTransfers \/ Tick \/ Acked \/ PeerClosed \/ IdleTimeout \/ LateDatagram
  BY <1>8, HalfUnchanged
  DEF EndResponses, EndTransfers, Tick, Acked, PeerClosed, IdleTimeout, LateDatagram,
      callVars, wireVars
<1>9. CASE UNCHANGED vars
  BY <1>9, HalfUnchanged DEF vars, callVars, wireVars
<1> QED
  BY <1>1, <1>2, <1>3, <1>4, <1>5, <1>6, <1>7, <1>8, <1>9 DEF Next, Flush

(* An accepted body is finished, queued or destroyed, never forgotten, and *)
(* of one whose end was refused only the end is missing.                   *)
THEOREM NothingForgotten == Spec => []AcceptedIsKept
<1>1. IInv /\ Half => AcceptedIsKept
  BY DEF IInv, CallInv, AcceptedIsKept, Half
<1>2. Init => Half
  BY DEF Init, Half
<1> QED
  BY InitIInv, NextIInv, HalfStep, <1>1, <1>2, PTL DEF Spec

-----------------------------------------------------------------------------
(* HEADERS and calls.                                                      *)

(* Only a server caches.                                                   *)
Match == HeadersMatchCalls /\ (~IsServer => \A c \in Calls : status[c] # "cached")

(* A call that had no HEADERS gets them on its stream, or fails without.   *)
LEMMA NewHeaders ==
  ASSUME IInv, Match, NEW c \in Calls, NEW s \in Streams, NEW new \in Status,
         status[c] \in {"unused", "trying"},
         status' = [status EXCEPT ![c] = new],
         target' \in {target, [target EXCEPT ![c] = s]},
         \/ hdr' = hdr
         \/ /\ hdr' = [hdr EXCEPT ![s] = c] /\ target' = [target EXCEPT ![c] = s]
            /\ ~IsServer => new \in {"accepted", "halfway"},
         ~IsServer => new # "cached"
  PROVE  Match'
<1>1. /\ hdr \in [Streams -> Calls \cup {NoCall}] /\ target \in [Calls -> Streams \cup {NoStream}]
      /\ status \in [Calls -> Status]
  BY DEF IInv, TypeOK
<1>2. \A r \in Streams : hdr[r] # NoCall => hdr[r] \in Calls /\ hdr[r] # c
  BY <1>1 DEF IInv, StreamInv
<1>3. ASSUME NEW r \in Streams, hdr'[r] # NoCall
      PROVE  /\ target'[hdr'[r]] = r
             /\ ~IsServer => status'[hdr'[r]] \in {"accepted", "halfway"}
  <2>1. CASE hdr'[r] = hdr[r]
    <3>1. hdr[r] \in Calls /\ hdr[r] # c
      BY <1>2, <1>3, <2>1
    <3>2. target'[hdr[r]] = target[hdr[r]] /\ status'[hdr[r]] = status[hdr[r]]
      BY <1>1, <3>1
    <3> QED
      BY <1>3, <2>1, <3>2 DEF Match, HeadersMatchCalls
  <2>2. CASE hdr'[r] # hdr[r]
    <3>1. /\ r = s /\ hdr'[r] = c /\ target'[c] = s
          /\ ~IsServer => new \in {"accepted", "halfway"}
      BY <1>1, <2>2
    <3> QED
      BY <1>1, <3>1
  <2> QED
    BY <2>1, <2>2
<1>4. ~IsServer => \A d \in Calls : status'[d] # "cached"
  BY <1>1 DEF Match
<1> QED
  BY <1>3, <1>4 DEF Match, HeadersMatchCalls

(* HEADERS stay with the call that got them.                               *)
LEMMA MatchStep == IInv /\ Match /\ [Next]_vars => Match'
<1> SUFFICES ASSUME IInv, Match, [Next]_vars PROVE Match'
  OBVIOUS
<1>1. ASSUME NEW c \in Calls, NEW s \in Streams, NEW n \in 0..MaxBody, RequestSent(c, s, n)
      PROVE  Match'
  <2>1. /\ status[c] = "trying" /\ HeadersTaken(s) /\ SendBody(s, c, n, room - 1)
        /\ hdr' = [hdr EXCEPT ![s] = c] /\ target' = [target EXCEPT ![c] = s]
    BY <1>1 DEF RequestSent
  <2>2. PICK new \in {"accepted", "halfway"} : status' = [status EXCEPT ![c] = new]
    BY <2>1, SendBodyEffect
  <2> QED
    BY <2>1, <2>2, NewHeaders DEF Status
<1>2. ASSUME NEW c \in Calls, NEW s \in Streams, NEW n \in 0..MaxBody, SendResponse(c, s, n)
      PROVE  Match'
  <2>1. status[c] = "unused" /\ IsServer /\ target' = [target EXCEPT ![c] = s]
    BY <1>2 DEF SendResponse, Fresh
  <2>2. CASE HeadersTaken(s) /\ hdr' = [hdr EXCEPT ![s] = c] /\ SendBody(s, c, n, room - 1)
    <3>1. PICK new \in {"accepted", "halfway"} : status' = [status EXCEPT ![c] = new]
      BY <2>2, SendBodyEffect
    <3> QED
      BY <2>1, <2>2, <3>1, NewHeaders DEF Status
  <2>3. ASSUME NEW new \in {"failed", "cached"}, status' = [status EXCEPT ![c] = new], hdr' = hdr
        PROVE  Match'
    BY <2>1, <2>3, NewHeaders DEF Status
  <2> QED
    BY <1>2, <2>2, <2>3 DEF SendResponse, wireVars
<1>3. ASSUME NEW c \in Calls, CallRequest(c) \/ RequestFailed(c) PROVE Match'
  <2> DEFINE new == status'[c]
  <2>1. /\ status[c] \in {"unused", "trying"} /\ hdr' = hdr /\ target' = target
        /\ status' = [status EXCEPT ![c] = "trying"] \/ status' = [status EXCEPT ![c] = "failed"]
    BY <1>3 DEF CallRequest, RequestFailed, Fresh, wireVars
  <2>2. \A d \in Calls : status'[d] = status[d] \/ (d = c /\ status'[d] \in {"trying", "failed"})
    BY <2>1 DEF IInv, TypeOK
  <2>3. \A r \in Streams : hdr[r] # NoCall => hdr[r] \in Calls /\ status'[hdr[r]] = status[hdr[r]]
    BY <2>1, <2>2 DEF IInv, TypeOK, StreamInv
  <2> QED
    BY <2>1, <2>2, <2>3 DEF Match, HeadersMatchCalls
<1>4. ASSUME NEW c \in Calls, CachedStep(c) PROVE Match'
  <2>1. status[c] = "cached" /\ target' = target /\ IsServer
    BY <1>4 DEF CachedStep, IInv, LockInv, Cached, Match
  <2>2. hdr' = hdr \/ hdr' = [hdr EXCEPT ![target[c]] = c]
    BY <1>4 DEF CachedStep, wireVars
  <2>3. hdr \in [Streams -> Calls \cup {NoCall}]
    BY DEF IInv, TypeOK
  <2>4. \A r \in Streams : hdr'[r] = hdr[r] \/ (hdr'[r] = c /\ target[c] = r)
    BY <2>2, <2>3
  <2> QED
    BY <2>1, <2>4 DEF Match, HeadersMatchCalls
<1>5. ASSUME UNCHANGED <<status, target, hdr>> PROVE Match'
  BY <1>5 DEF Match, HeadersMatchCalls
<1>6. ASSUME NEW s \in Streams, TransferStep(s) PROVE Match'
  <2>1. UNCHANGED <<callVars, hdr>>
    BY <1>6, TransferEffect
  <2> QED
    BY <1>5, <2>1 DEF callVars
<1>7. ASSUME NEW c \in Calls, RespondReturns(c) PROVE Match'
  BY <1>5, <1>7 DEF RespondReturns, wireVars
<1>8. ASSUME NEW s \in Streams, StopSending(s) \/ DestroyStream(s) PROVE Match'
  BY <1>5, <1>8 DEF StopSending, DestroyStream, callVars, wireVars
<1>9. CASE EndResponses \/ EndTransfers
  BY <1>5, <1>9 DEF EndResponses, EndTransfers, callVars, wireVars
<1>10. CASE Tick \/ Acked \/ PeerClosed \/ IdleTimeout \/ LateDatagram
  BY <1>5, <1>10 DEF Tick, Acked, PeerClosed, IdleTimeout, LateDatagram, callVars, wireVars
<1>11. CASE UNCHANGED vars
  BY <1>5, <1>11 DEF vars, callVars, wireVars
<1> QED
  BY <1>1, <1>2, <1>3, <1>4, <1>6, <1>7, <1>8, <1>9, <1>10, <1>11 DEF Next, Flush

(* However often a blocked call is tried again, it uses one stream, and a  *)
(* request that reports failure has used none.                             *)
THEOREM HeadersCorrect == Spec => []HeadersMatchCalls
<1>1. Init => Match
  BY DEF Init, Match, HeadersMatchCalls
<1>2. Match => HeadersMatchCalls
  BY DEF Match
<1> QED
  BY <1>1, <1>2, InitIInv, NextIInv, MatchStep, PTL DEF Spec
-----------------------------------------------------------------------------
(* The end of a stream.                                                    *)

(* A queued stream that was ended is one that FlushTransfers has completed *)
(* and will erase, and it is past it.                                      *)
Erasable ==
  /\ queued \cap fin \subseteq completed
  /\ completed \cap unvisited = {}
  /\ at # "transfers" => completed = {}

(* Such steps neither end a stream nor complete one.                       *)
LEMMA QuietEnds ==
  ASSUME Erasable, fin' = fin, queued' \subseteq queued,
         UNCHANGED <<unvisited, completed>>, at' \in {at, "responses"},
         at' = at \/ at = "free"
  PROVE  Erasable'
BY DEF Erasable

(* Completing a stream and ending it are one step, and so are leaving the  *)
(* walk and erasing what was completed.                                    *)
LEMMA ErasableStep == IInv /\ Erasable /\ [Next]_vars => Erasable'
<1> SUFFICES ASSUME IInv, Erasable, [Next]_vars PROVE Erasable'
  OBVIOUS
<1>1. ASSUME NEW c \in Calls, NEW s \in Streams, NEW n \in 0..MaxBody,
             at = "free", HeadersTaken(s), SendBody(s, c, n, room - 1)
      PROVE  Erasable'
  <2>1. s \notin fin /\ s \notin queued /\ completed = {}
    BY <1>1 DEF HeadersTaken, IInv, StreamInv, Erasable
  <2>2. /\ \/ fin' = fin \cup {s} /\ UNCHANGED queueVars
           \/ fin' = fin /\ queued' = queued \cup {s}
           \/ fin' = fin /\ UNCHANGED queueVars
        /\ completed' = completed /\ at' # "transfers"
    BY <1>1, SendBodyEffect DEF StartFlush, lockVars
  <2> QED
    BY <2>1, <2>2 DEF Erasable, queueVars
<1>2. ASSUME NEW c \in Calls, NEW s \in Streams, NEW n \in 0..MaxBody,
             RequestSent(c, s, n) \/ SendResponse(c, s, n)
      PROVE  Erasable'
  <2>1. CASE at = "free" /\ HeadersTaken(s) /\ SendBody(s, c, n, room - 1)
    BY <1>1, <2>1
  <2>2. CASE UNCHANGED <<queueVars, wireVars, lockVars>>
    BY <2>2, QuietEnds DEF queueVars, wireVars, lockVars
  <2> QED
    BY <1>2, <2>1, <2>2 DEF RequestSent, SendResponse
<1>3. ASSUME NEW c \in Calls, CachedStep(c) PROVE Erasable'
  <2> DEFINE s == target[c]
  <2>1. /\ UNCHANGED <<queued, at, unvisited, completed>>
        /\ fin' = fin \/ (HeadersTaken(s) /\ fin' = fin \cup {s})
        /\ s \in Streams
    BY <1>3 DEF CachedStep, queueVars, wireVars, IInv, LockInv, Cached, CallInv
  <2>2. HeadersTaken(s) => s \notin queued
    BY <2>1 DEF HeadersTaken, IInv, StreamInv
  <2> QED
    BY <2>1, <2>2 DEF Erasable
<1>4. ASSUME NEW s \in Streams, TransferStep(s) PROVE Erasable'
  <2>1. /\ \/ fin' = fin /\ completed' = completed /\ unvisited' \subseteq unvisited
           \/ /\ fin' = fin \cup {s} /\ completed' = completed \cup {s}
              /\ unvisited' = unvisited \ {s}
        /\ queued' = queued /\ at = "transfers" /\ at' = at
    BY <1>4 DEF TransferStep
  <2> QED
    BY <2>1 DEF Erasable
<1>5. CASE EndTransfers
  BY <1>5 DEF EndTransfers, Erasable, wireVars
<1>6. CASE EndResponses
  BY <1>6 DEF EndResponses, Erasable, queueVars, wireVars
<1>7. ASSUME NEW c \in Calls, CallRequest(c) \/ RequestFailed(c) \/ RespondReturns(c)
      PROVE  Erasable'
  BY <1>7, QuietEnds DEF CallRequest, RequestFailed, RespondReturns, queueVars, wireVars, lockVars
<1>8. CASE Tick \/ Acked \/ PeerClosed \/ IdleTimeout \/ LateDatagram
  BY <1>8, QuietEnds
  DEF Tick, Acked, PeerClosed, IdleTimeout, LateDatagram, StartFlush, queueVars, wireVars, lockVars
<1>9. ASSUME NEW s \in Streams, StopSending(s) \/ DestroyStream(s) PROVE Erasable'
  BY <1>9, QuietEnds DEF StopSending, DestroyStream, StartFlush, queueVars, wireVars
<1>10. CASE UNCHANGED vars
  BY <1>10, QuietEnds DEF vars, queueVars, wireVars, lockVars
<1> QED
  BY <1>2, <1>3, <1>4, <1>5, <1>6, <1>7, <1>8, <1>9, <1>10 DEF Next, Flush

(* However the walks of FlushTransfers are cut short, none of them offers  *)
(* quiche a stream that was ended.                                         *)
THEOREM EndsOnce == Spec => []EndedOnce
<1>1. Init => Erasable
  BY DEF Init, Erasable
<1>2. IInv /\ Erasable => EndedOnce
  BY DEF IInv, LockInv, Erasable, EndedOnce
<1> QED
  BY <1>1, <1>2, InitIInv, NextIInv, ErasableStep, PTL DEF Spec

-----------------------------------------------------------------------------
(* Refinement.                                                             *)

(* The body of a call, as BodyTransfer writes it.                          *)
LEMMA UnitsAreBody ==
  ASSUME NEW c, NEW n \in Nat
  PROVE  Units(c, 0, n) = Transfer!Body(c, n)
<1>1. \A i \in 1..n : 0 + i = i
  OBVIOUS
<1> QED
  BY <1>1 DEF Units, Transfer!Body

(* A stream that was free is given to a call that had none.                *)
LEMMA BeginStep ==
  ASSUME IInv, NEW s \in Streams, NEW c \in Calls, NEW n \in 0..MaxBody, NEW m \in 0..n,
         hdr[s] = NoCall, \A t \in Streams : hdr[t] # c,
         hdr' = [hdr EXCEPT ![s] = c],
         bytes' = [bytes EXCEPT ![c] = n],
         data' = [data EXCEPT ![s] = Units(c, 0, m)],
         fin' = fin \/ (m = n /\ fin' = fin \cup {s})
  PROVE  Transfer!Next
<1>1. m \in Nat /\ c # NoCall
  BY StreamSendAssumption DEF Calls, NoCall
<1>2. Size' = [Size EXCEPT ![s] = n]
  <2>1. \A t \in Streams : Size'[t] = IF t = s THEN n ELSE Size[t]
    BY <1>1 DEF Size, IInv, TypeOK
  <2>2. Size' = [t \in Streams |-> Size'[t]]
    BY DEF Size
  <2>3. [Size EXCEPT ![s] = n] = [t \in Streams |-> IF t = s THEN n ELSE Size[t]]
    BY DEF Size
  <2> QED
    BY <2>1, <2>2, <2>3
<1>3. Transfer!Carry(s, c, n, m)
  BY <1>1, UnitsAreBody DEF Transfer!Carry
<1>4. Transfer!Begin(s, c, n)
  BY <1>2, <1>3 DEF Transfer!Begin
<1> QED
  BY <1>4 DEF Transfer!Next

(* A stream carries more of the body it has begun.                         *)
LEMMA MoreStep ==
  ASSUME IInv, EndedOnce, NEW s \in Streams, TransferStep(s)
  PROVE  Transfer!Next
<1> DEFINE d == Len(data[s])
           rem == Remaining(s)
<1>1. PICK m \in 0..rem :
        /\ data' = [data EXCEPT ![s] = Units(hdr[s], 0, d + m)]
        /\ fin' = fin \/ (m = rem /\ fin' = fin \cup {s})
  BY TransferEffect
<1>2. s \in queued /\ UNCHANGED <<hdr, bytes>>
  BY TransferEffect DEF callVars
<1>3. s \notin fin
  BY DEF TransferStep, EndedOnce
<1>4. /\ hdr[s] \in Calls /\ rem \in Nat /\ d \in Nat /\ d + rem = bytes[hdr[s]]
      /\ hdr[s] # NoCall
  BY <1>2, RestIsUnits, StreamSendAssumption DEF Calls, NoCall
<1>5. Size[s] = d + rem /\ Size' = Size
  BY <1>2, <1>4 DEF Size
<1> HIDE DEF d, rem
<1>6. d + m \in d..(d + rem) /\ d + m \in Nat /\ (m = rem <=> d + m = d + rem)
  BY <1>4
<1>7. Transfer!Carry(s, hdr[s], Size[s], d + m)
  BY <1>1, <1>5, <1>6, UnitsAreBody DEF Transfer!Carry
<1>8. d + m \in Len(data[s])..Size[s]
  BY <1>5, <1>6 DEF d
<1>9. Transfer!More(s)
  BY <1>2, <1>3, <1>4, <1>5, <1>7, <1>8 DEF Transfer!More
<1> QED
  BY <1>9 DEF Transfer!Next

(* What touches neither the streams nor the length of a body they carry is *)
(* invisible.                                                              *)
LEMMA Invisible ==
  ASSUME UNCHANGED <<hdr, data, fin>>,
         \A t \in Streams : hdr[t] # NoCall => bytes'[hdr[t]] = bytes[hdr[t]]
  PROVE  UNCHANGED Transfer!vars
BY DEF Transfer!vars, Size

(* Every step of the send side is a step of BodyTransfer or invisible.     *)
LEMMA TransferSteps ==
  IInv /\ Match /\ EndedOnce /\ [Next]_vars => [Transfer!Next]_(Transfer!vars)
<1> SUFFICES ASSUME IInv, Match, EndedOnce, [Next]_vars
             PROVE  [Transfer!Next]_(Transfer!vars)
  OBVIOUS
<1>1. ASSUME NEW c \in Calls, NEW s \in Streams, NEW n \in 0..MaxBody,
             status[c] \in {"unused", "trying"}, HeadersTaken(s),
             hdr' = [hdr EXCEPT ![s] = c], bytes' = [bytes EXCEPT ![c] = n],
             SendBody(s, c, n, room - 1)
      PROVE  Transfer!Next
  <2>1. PICK m \in 0..n : /\ data' = [data EXCEPT ![s] = Units(c, 0, m)]
                          /\ fin' = fin \/ (m = n /\ fin' = fin \cup {s})
    BY <1>1, SendBodyEffect
  <2>2. \A t \in Streams : hdr[t] # c
    BY <1>1, StreamSendAssumption DEF IInv, StreamInv, NoCall, Calls
  <2> QED
    BY <1>1, <2>1, <2>2, BeginStep DEF HeadersTaken
<1>2. ASSUME NEW c \in Calls, NEW s \in Streams, NEW n \in 0..MaxBody, RequestSent(c, s, n)
      PROVE  Transfer!Next
  BY <1>1, <1>2 DEF RequestSent
<1>3. ASSUME NEW c \in Calls, NEW s \in Streams, NEW n \in 0..MaxBody, SendResponse(c, s, n)
      PROVE  [Transfer!Next]_(Transfer!vars)
  <2>1. status[c] = "unused" /\ bytes' = [bytes EXCEPT ![c] = n]
    BY <1>3 DEF SendResponse, Fresh
  <2>2. CASE UNCHANGED wireVars
    <3>1. \A t \in Streams : hdr[t] # NoCall => bytes'[hdr[t]] = bytes[hdr[t]]
      BY <2>1 DEF IInv, StreamInv, TypeOK
    <3> QED
      BY <2>2, <3>1, Invisible DEF wireVars
  <2>3. CASE /\ HeadersTaken(s) /\ hdr' = [hdr EXCEPT ![s] = c]
             /\ SendBody(s, c, n, room - 1)
    BY <1>1, <2>1, <2>3
  <2> QED
    BY <1>3, <2>2, <2>3 DEF SendResponse
<1>4. ASSUME NEW c \in Calls, CachedStep(c) PROVE [Transfer!Next]_(Transfer!vars)
  <2> DEFINE s == target[c]
             n == bytes[c]
  <2>1. /\ status[c] = "cached" /\ s \in Streams /\ bytes' = bytes
        /\ bytes_left[c] \in 0..n /\ n \in 0..MaxBody /\ MaxBody \in Nat
    BY <1>4, StreamSendAssumption DEF CachedStep, IInv, LockInv, Cached, CallInv, TypeOK
  <2>2. CASE UNCHANGED wireVars
    BY <2>1, <2>2, Invisible DEF wireVars
  <2>3. CASE ~UNCHANGED wireVars
    <3>1. /\ HeadersTaken(s) /\ hdr' = [hdr EXCEPT ![s] = c]
          /\ \E k \in 0..bytes_left[c] :
               /\ data' = [data EXCEPT ![s] = Units(c, 0, k)]
               /\ fin' = fin \/ (fin' = fin \cup {s} /\ n = 0)
      BY <1>4, <2>3, CachedEffect
    <3>2. PICK k \in 0..bytes_left[c] :
               /\ data' = [data EXCEPT ![s] = Units(c, 0, k)]
               /\ fin' = fin \/ (fin' = fin \cup {s} /\ n = 0)
      BY <3>1
    <3>3. k \in 0..n /\ (n = 0 => k = n)
      BY <2>1, <3>2
    <3>4. hdr[s] = NoCall /\ c # NoCall
      BY <3>1, StreamSendAssumption DEF HeadersTaken, Calls, NoCall
    <3>5. \A t \in Streams : hdr[t] # c
      BY <3>4 DEF Match, HeadersMatchCalls
    <3>6. bytes' = [bytes EXCEPT ![c] = n]
      BY <2>1 DEF IInv, TypeOK
    <3> QED
      BY <2>1, <3>1, <3>2, <3>3, <3>4, <3>5, <3>6, BeginStep
  <2> QED
    BY <2>2, <2>3
<1>5. ASSUME UNCHANGED <<hdr, data, fin, bytes>> PROVE UNCHANGED Transfer!vars
  BY <1>5, Invisible
<1>6. ASSUME NEW c \in Calls, CallRequest(c) \/ RequestFailed(c) \/ RespondReturns(c)
      PROVE  UNCHANGED Transfer!vars
  BY <1>5, <1>6 DEF CallRequest, RequestFailed, RespondReturns, wireVars
<1>7. CASE EndResponses \/ EndTransfers \/ Tick \/ Acked \/ PeerClosed \/ IdleTimeout \/ LateDatagram
  BY <1>5, <1>7
  DEF EndResponses, EndTransfers, Tick, Acked, PeerClosed, IdleTimeout, LateDatagram,
      callVars, wireVars
<1>8. ASSUME NEW s \in Streams, StopSending(s) \/ DestroyStream(s)
      PROVE  UNCHANGED Transfer!vars
  BY <1>5, <1>8 DEF StopSending, DestroyStream, callVars, wireVars
<1>9. CASE UNCHANGED vars
  BY <1>5, <1>9 DEF vars, callVars, wireVars
<1> QED
  BY <1>2, <1>3, <1>4, <1>6, <1>7, <1>8, <1>9, MoreStep DEF Next, Flush

(* For any streams, calls, lengths and room the send side, with its cache  *)
(* and its queue, implements the transfer of one whole body per stream.    *)
THEOREM SendIsTransfer == Spec => ImplementsTransfer
<1>1. Init => Transfer!Init
  <2> SUFFICES ASSUME Init PROVE Transfer!Init
    OBVIOUS
  <2>1. Size = [s \in Streams |-> 0]
    BY DEF Init, Size
  <2> QED
    BY <2>1 DEF Init, Transfer!Init
<1>2. Init => Match
  BY DEF Init, Match, HeadersMatchCalls
<1> QED
  BY <1>1, <1>2, InitIInv, NextIInv, MatchStep, EndsOnce, TransferSteps, PTL
  DEF Spec, ImplementsTransfer, Transfer!Spec
=============================================================================
