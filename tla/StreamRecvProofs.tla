--------------------------- MODULE StreamRecvProofs ---------------------------
(***************************************************************************)
(* What holds of StreamRecv for any streams and any length of body.        *)
(***************************************************************************)
EXTENDS StreamRecv, SequenceTheorems, TLAPS

(* An entry lives from HEADERS to the end of its stream, and is empty      *)
(* outside; a stream that was posted is finished for good.                 *)
EntryInv(s) ==
  /\ s \in incoming <=> phase[s] = "open"
  /\ phase[s] = "open" => s \in headed /\ Buffer[s] = Body(read[s])
  /\ phase[s] # "open" => Buffer[s] = <<>>
  /\ phase[s] = "unknown" => read[s] = 0
  /\ s \in reading => phase[s] = "open" /\ at = "reading"
  /\ Posted(s) # {} => phase[s] = "finished"

(* What is posted is whole, and posted once.                               *)
WholeOnce ==
  /\ \A s \in Streams : \A i \in Posted(s) :
       posted[i].headed /\ s \in ended /\ posted[i].body = Body(got[s])
  /\ \A s \in Streams : \A i, j \in Posted(s) : i = j

IInv ==
  /\ TypeOK
  /\ \A s \in Streams : EntryInv(s)
  /\ WholeOnce
  /\ ConnectFirst

-----------------------------------------------------------------------------
LEMMA BodyIsSeq ==
  ASSUME NEW n \in Nat, NEW S, \A i \in 1..n : i \in S
  PROVE  Body(n) \in Seq(S)
BY IsASeq DEF Body

(* A body read in two parts is the body.                                   *)
LEMMA BodyConcat ==
  ASSUME NEW n \in Nat, NEW k \in Nat
  PROVE  Body(n) \o [i \in 1..k |-> n + i] = Body(n + k)
<1> DEFINE t == [i \in 1..k |-> n + i]
<1>1. Body(n) \in Seq(Nat) /\ Len(Body(n)) = n
  BY IsASeq, LenProperties DEF Body
<1>2. t \in Seq(Nat) /\ Len(t) = k
  <2>1. \A i \in 1..k : n + i \in Nat OBVIOUS
  <2> QED BY <2>1, IsASeq, LenProperties
<1>3. Body(n + k) \in Seq(Nat) /\ Len(Body(n + k)) = n + k
  <2>1. n + k \in Nat OBVIOUS
  <2> QED BY <2>1, IsASeq, LenProperties DEF Body
<1>4. Body(n) \o t \in Seq(Nat) /\ Len(Body(n) \o t) = n + k
  BY <1>1, <1>2
<1>5. ASSUME NEW i \in 1..(n + k) PROVE (Body(n) \o t)[i] = Body(n + k)[i]
  <2>1. Body(n + k)[i] = i BY DEF Body
  <2>2. CASE i <= n
    <3>1. (Body(n) \o t)[i] = Body(n)[i] BY <1>1, <1>2, <2>2
    <3>2. Body(n)[i] = i BY <2>2 DEF Body
    <3> QED BY <2>1, <3>1, <3>2
  <2>3. CASE i > n
    <3>1. (Body(n) \o t)[i] = t[i - n] BY <1>1, <1>2, <2>3
    <3>2. i - n \in 1..k /\ n + (i - n) = i BY <2>3
    <3>3. t[i - n] = i BY <3>2, Zenon
    <3> QED BY <2>1, <3>1, <3>3, Zenon
  <2>4. i <= n \/ i > n OBVIOUS
  <2> HIDE DEF t
  <2> QED BY <2>2, <2>3, <2>4
<1> QED BY <1>3, <1>4, <1>5, SeqEqual

-----------------------------------------------------------------------------
(* What Post adds.                                                         *)

(* A posted message is not Connect, and says what its entry says.          *)
LEMMA MessageFields ==
  ASSUME TypeOK, NEW s \in Streams
  PROVE  /\ Message(s) \in Messages /\ Message(s) # Connect
         /\ Message(s).stream = s /\ Message(s).headed = (s \in headed)
         /\ Message(s).body = Buffer[s]
<1>1. Message(s).type = "Data" /\ Connect.type = "Connect" BY DEF Message, Connect
<1>2. Message(s).stream = s /\ Message(s).body = Buffer[s] BY DEF Message
<1>3. Message(s).headed = (s \in headed) BY DEF Message
<1>4. Message(s) \in Messages
  <2>1. (s \in headed) \in BOOLEAN OBVIOUS
  <2>2. Buffer[s] \in Seq(1..MaxBody) BY DEF TypeOK
  <2> QED BY <2>1, <2>2 DEF Message, Messages
<1> QED BY <1>1, <1>2, <1>3, <1>4

(* The message is the last event, and a Connect the first.                 *)
AddsMessage(s) ==
  /\ Len(posted') > 0 /\ posted'[Len(posted')] = Message(s)
  /\ \A i \in 1..(Len(posted') - 1) :
       IF IsServer /\ ~connected THEN posted'[i] = Connect /\ i = 1
       ELSE i \in DOMAIN posted /\ posted'[i] = posted[i]
  /\ IF IsServer /\ ~connected THEN Len(posted') = 2 ELSE Len(posted') = Len(posted) + 1

LEMMA PostShape ==
  ASSUME IInv, NEW s \in Streams, Post(s)
  PROVE  /\ posted' \in Seq({Connect} \cup Messages)
         /\ connected' \in BOOLEAN /\ closing' \in BOOLEAN
         /\ \/ posted' = posted /\ connected' = connected
            \/ AddsMessage(s) /\ connected' = TRUE /\ connected
            \/ AddsMessage(s) /\ connected' = TRUE /\ ~connected /\ IsServer
<1> DEFINE Events == {Connect} \cup Messages
<1>1. Message(s) \in Events BY MessageFields DEF IInv
<1>2. posted \in Seq(Events) /\ connected \in BOOLEAN /\ closing \in BOOLEAN
  BY DEF IInv, TypeOK
<1> HIDE DEF Events
<1>3. CASE connected /\ posted' = Append(posted, Message(s)) /\ UNCHANGED <<connected, closing>>
  <2>1. posted' \in Seq(Events) BY <1>1, <1>2, <1>3
  <2>2. Len(posted') = Len(posted) + 1 /\ Len(posted) \in Nat BY <1>1, <1>2, <1>3
  <2>3. posted'[Len(posted) + 1] = Message(s) BY <1>1, <1>2, <1>3
  <2>4. \A i \in 1..Len(posted) : posted'[i] = posted[i] /\ i \in DOMAIN posted
    BY <1>1, <1>2, <1>3
  <2>5. AddsMessage(s)
    <3>1. ~(IsServer /\ ~connected) BY <1>3
    <3>2. Len(posted') - 1 = Len(posted) /\ Len(posted') > 0 BY <2>2
    <3> QED BY <3>1, <3>2, <2>2, <2>3, <2>4 DEF AddsMessage
  <2> QED BY <2>1, <2>5, <1>2, <1>3 DEF Events
<1>4. CASE UNCHANGED <<connected, posted>> /\ closing' \in {closing, TRUE}
  BY <1>2, <1>4 DEF Events
<1>5. CASE ~connected /\ IsServer /\ posted' = posted \o <<Connect, Message(s)>>
           /\ connected' = TRUE /\ UNCHANGED closing
  <2>1. posted = <<>> BY <1>5 DEF IInv, ConnectFirst
  <2>2. Connect \in Events BY DEF Events
  <2>3. <<Connect, Message(s)>> \in Seq(Events) BY <1>1, <2>2
  <2>4. posted' = <<Connect, Message(s)>> BY <1>5, <2>1, <2>3, <1>1, <2>2
  <2>5. Len(posted') = 2 /\ posted'[1] = Connect /\ posted'[2] = Message(s) BY <2>4
  <2>6. AddsMessage(s)
    <3>1. \A i \in 1..(2 - 1) : i = 1 OBVIOUS
    <3> QED BY <3>1, <2>5, <1>5 DEF AddsMessage
  <2> QED BY <2>3, <2>4, <2>6, <1>2, <1>5 DEF Events
<1> QED BY <1>3, <1>4, <1>5 DEF Post

-----------------------------------------------------------------------------
(* The invariant.                                                          *)

(* Steps that post nothing keep what is said of the posted messages.       *)
LEMMA QuietStep ==
  ASSUME IInv, UNCHANGED <<IsServer, connected, posted>>,
         \A s \in ended : s \in ended' /\ got'[s] = got[s]
  PROVE  /\ WholeOnce' /\ ConnectFirst'
         /\ \A s \in Streams : Posted(s)' = Posted(s)
<1>1. \A s \in Streams : Posted(s)' = Posted(s) BY DEF Posted
<1>2. WholeOnce' BY <1>1 DEF IInv, WholeOnce
<1>3. ConnectFirst' BY DEF IInv, ConnectFirst
<1> QED BY <1>1, <1>2, <1>3

(* A message is posted of a stream that had none, and is whole.            *)
LEMMA PostStep ==
  ASSUME IInv, NEW s \in Streams, Post(s), UNCHANGED <<IsServer, ended, got>>,
         phase[s] = "open", s \in ended, read[s] = got[s]
  PROVE  /\ WholeOnce' /\ ConnectFirst'
         /\ \A t \in Streams \ {s} : Posted(t)' # {} => Posted(t) # {}
<1>1. CASE posted' = posted /\ connected' = connected
  BY <1>1, QuietStep
<1>2. CASE AddsMessage(s) /\ connected' = TRUE /\ (connected \/ IsServer)
  <2> DEFINE n == Len(posted')
  <2>1. posted' \in Seq({Connect} \cup Messages) /\ posted \in Seq({Connect} \cup Messages)
    BY PostShape DEF IInv, TypeOK
  <2>2. n \in Nat /\ n > 0 /\ DOMAIN posted' = 1..n BY <1>2, <2>1 DEF AddsMessage
  <2>3. posted'[n] = Message(s) BY <1>2 DEF AddsMessage
  <2>4. \A i \in 1..(n - 1) :
          \/ posted'[i] = Connect
          \/ i \in DOMAIN posted /\ posted'[i] = posted[i]
    BY <1>2 DEF AddsMessage
  <2>5. /\ Message(s) # Connect /\ Message(s).stream = s
        /\ Message(s).headed = (s \in headed) /\ Message(s).body = Buffer[s]
    BY MessageFields DEF IInv
  <2>6. s \in headed /\ Buffer[s] = Body(got[s]) BY DEF IInv, EntryInv
  <2>7. Posted(s) = {} BY DEF IInv, EntryInv
  <2> HIDE DEF n
  <2>8. ASSUME NEW t \in Streams, t # s
        PROVE  Posted(t)' \subseteq Posted(t) /\ \A i \in Posted(t)' : posted'[i] = posted[i]
    <3>1. SUFFICES ASSUME NEW i \in Posted(t)'
                   PROVE  i \in Posted(t) /\ posted'[i] = posted[i]
      OBVIOUS
    <3>2. i \in 1..n /\ posted'[i] # Connect /\ posted'[i].stream = t
      BY <2>2, <3>1 DEF Posted
    <3>3. i # n BY <2>3, <2>5, <2>8, <3>2
    <3>4. i \in 1..(n - 1) BY <2>2, <3>2, <3>3
    <3> QED BY <2>4, <3>2, <3>4 DEF Posted
  <2>9. Posted(s)' \subseteq {n}
    <3>1. SUFFICES ASSUME NEW i \in Posted(s)', i # n PROVE FALSE
      OBVIOUS
    <3>2. i \in 1..n /\ posted'[i] # Connect /\ posted'[i].stream = s
      BY <2>2, <3>1 DEF Posted
    <3>4. i \in 1..(n - 1) BY <2>2, <3>2, <3>1
    <3>5. i \in Posted(s) BY <2>4, <3>2, <3>4 DEF Posted
    <3> QED BY <2>7, <3>5
  <2>10. WholeOnce'
    <3>1. ASSUME NEW t \in Streams, NEW i \in Posted(t)'
          PROVE  posted'[i].headed /\ t \in ended' /\ posted'[i].body = Body(got'[t])
      <4>1. CASE t = s
        <5>1. i = n BY <2>9, <4>1, <3>1
        <5>2. posted'[i].headed BY <5>1, <2>3, <2>5, <2>6, Zenon
        <5>3. posted'[i].body = Body(got[s]) BY <5>1, <2>3, <2>5, <2>6, Zenon
        <5> QED BY <5>2, <5>3, <4>1
      <4>2. CASE t # s
        <5>1. i \in Posted(t) /\ posted'[i] = posted[i] BY <2>8, <3>1, <4>2
        <5>2. posted[i].headed /\ t \in ended /\ posted[i].body = Body(got[t])
          BY <5>1 DEF IInv, WholeOnce
        <5> QED BY <5>1, <5>2, Zenon
      <4> QED BY <4>1, <4>2
    <3>2. ASSUME NEW t \in Streams, NEW i \in Posted(t)', NEW j \in Posted(t)'
          PROVE  i = j
      <4>1. CASE t = s BY <2>9, <4>1, <3>2
      <4>2. CASE t # s BY <2>8, <4>2, <3>2 DEF IInv, WholeOnce
      <4> QED BY <4>1, <4>2
    <3> QED BY <3>1, <3>2 DEF WholeOnce
  <2>11. ConnectFirst'
    <3> SUFFICES ASSUME IsServer
                 PROVE  /\ connected' <=> posted' # <<>>
                        /\ \A i \in DOMAIN posted' : posted'[i] = Connect <=> i = 1
      BY DEF ConnectFirst
    <3>1. posted' # <<>> BY <2>2 DEF n
    <3>2. ASSUME NEW i \in 1..n PROVE posted'[i] = Connect <=> i = 1
      <4>1. CASE ~connected
        BY <1>2, <2>2, <2>3, <2>5, <4>1 DEF AddsMessage, n
      <4>2. CASE connected
        <5>1. n = Len(posted) + 1 /\ Len(posted) > 0 /\ DOMAIN posted = 1..Len(posted)
          BY <1>2, <2>1, <4>2 DEF AddsMessage, n, IInv, ConnectFirst
        <5>2. CASE i = n BY <2>2, <2>3, <2>5, <5>1, <5>2
        <5>3. CASE i # n
          <6>1. i \in 1..(n - 1) BY <5>3, <2>2
          <6>2. i \in DOMAIN posted /\ posted'[i] = posted[i]
            BY <1>2, <4>2, <6>1 DEF AddsMessage, n
          <6> QED BY <6>2 DEF IInv, ConnectFirst
        <5> QED BY <5>2, <5>3
      <4> QED BY <4>1, <4>2
    <3> QED BY <1>2, <2>2, <3>1, <3>2
  <2> QED BY <2>8, <2>10, <2>11
<1> QED BY <1>1, <1>2, PostShape

LEMMA InvInit == Init => IInv
<1> SUFFICES ASSUME Init PROVE IInv OBVIOUS
<1> USE StreamRecvAssumption DEF Init
<1>1. TypeOK
  <2>1. 0 \in 0..MaxBody OBVIOUS
  <2>2. \A S : <<>> \in Seq(S) OBVIOUS
  <2>3. closing \in BOOLEAN /\ connected \in BOOLEAN OBVIOUS
  <2>4. phase \in [Streams -> Phase] /\ at \in Place BY DEF Phase, Place
  <2>5. got \in [Streams -> 0..MaxBody] /\ read \in [Streams -> 0..MaxBody] BY <2>1
  <2>6. Buffer \in [Streams -> Seq(1..MaxBody)] BY <2>2
  <2>7. posted \in Seq({Connect} \cup Messages) BY <2>2
  <2> QED BY <2>3, <2>4, <2>5, <2>6, <2>7 DEF TypeOK
<1>2. DOMAIN posted = {} OBVIOUS
<1>3. \A s \in Streams : Posted(s) = {} BY <1>2 DEF Posted
<1>4. \A s \in Streams : EntryInv(s) BY <1>3 DEF EntryInv
<1>5. WholeOnce BY <1>3 DEF WholeOnce
<1>6. ConnectFirst
  <2>1. IsServer => connected = FALSE OBVIOUS
  <2> QED BY <2>1, <1>2 DEF ConnectFirst
<1> QED BY <1>1, <1>4, <1>5, <1>6 DEF IInv

(* Steps that leave the entries and what quiche reports of streams alone.  *)
LEMMA StreamsAlone ==
  ASSUME IInv, TypeOK', UNCHANGED <<IsServer, phase, read, entryVars, connected, posted>>,
         \A s \in ended : s \in ended' /\ got'[s] = got[s],
         reading' = {} \/ (reading' = reading /\ (at = "reading" => at' = "reading"))
  PROVE  IInv'
<1>1. WholeOnce' /\ ConnectFirst' /\ \A s \in Streams : Posted(s)' = Posted(s)
  BY QuietStep
<1>2. \A s \in Streams : EntryInv(s)' BY <1>1 DEF IInv, EntryInv, entryVars
<1> QED BY <1>1, <1>2 DEF IInv

LEMMA BeginDatagramStep == IInv /\ BeginDatagram => IInv'
<1> SUFFICES ASSUME IInv, BeginDatagram PROVE IInv' OBVIOUS
<1> USE DEF BeginDatagram, peerVars, quicheVars, entryVars
<1>1. TypeOK' BY DEF IInv, TypeOK, Place
<1> QED BY <1>1, StreamsAlone

LEMMA EndReceiveStep == IInv /\ EndReceive => IInv'
<1> SUFFICES ASSUME IInv, EndReceive PROVE IInv' OBVIOUS
<1> USE DEF EndReceive, peerVars, quicheVars, entryVars
<1>1. TypeOK' BY DEF IInv, TypeOK, Place
<1> QED BY <1>1, StreamsAlone

LEMMA EndPollStep == IInv /\ EndPoll => IInv'
<1> SUFFICES ASSUME IInv, EndPoll PROVE IInv' OBVIOUS
<1> USE DEF EndPoll, peerVars, quicheVars, entryVars
<1>1. TypeOK' BY DEF IInv, TypeOK, Place
<1> QED BY <1>1, StreamsAlone

LEMMA GoAwayStep == IInv /\ GoAway => IInv'
<1> SUFFICES ASSUME IInv, GoAway PROVE IInv' OBVIOUS
<1> USE DEF GoAway, peerVars, quicheVars, entryVars
<1>1. TypeOK' BY DEF IInv, TypeOK, Place
<1> QED BY <1>1, StreamsAlone

LEMMA ArriveStep ==
  ASSUME IInv, NEW s \in Streams,
         ArriveHeaders(s) \/ ArriveBody(s) \/ ArriveFin(s) \/ ArriveReset(s)
  PROVE  IInv'
<1> USE DEF quicheVars, entryVars, Live
<1>1. CASE ArriveHeaders(s)
  <2>1. TypeOK' BY <1>1 DEF IInv, TypeOK, ArriveHeaders
  <2> QED BY <1>1, <2>1, StreamsAlone DEF ArriveHeaders
<1>2. CASE ArriveBody(s)
  <2>1. got[s] + 1 \in 0..MaxBody
    BY <1>2, StreamRecvAssumption DEF ArriveBody, IInv, TypeOK
  <2>2. TypeOK' BY <1>2, <2>1 DEF IInv, TypeOK, ArriveBody
  <2>3. \A t \in ended : got'[t] = got[t] BY <1>2 DEF ArriveBody, IInv, TypeOK
  <2> QED BY <1>2, <2>2, <2>3, StreamsAlone DEF ArriveBody
<1>3. CASE ArriveFin(s)
  <2>1. TypeOK' BY <1>3 DEF IInv, TypeOK, ArriveFin
  <2> QED BY <1>3, <2>1, StreamsAlone DEF ArriveFin
<1>4. CASE ArriveReset(s)
  <2>1. TypeOK' BY <1>4 DEF IInv, TypeOK, ArriveReset
  <2> QED BY <1>4, <2>1, StreamsAlone DEF ArriveReset
<1> QED BY <1>1, <1>2, <1>3, <1>4

LEMMA HeadersStep ==
  ASSUME IInv, NEW s \in Streams, Headers(s)
  PROVE  IInv'
<1> USE DEF Headers, GetIncomingStream, peerVars
<1>1. TypeOK' BY DEF IInv, TypeOK, Phase
<1>2. WholeOnce' /\ ConnectFirst' /\ \A t \in Streams : Posted(t)' = Posted(t)
  BY QuietStep
<1>3. ASSUME NEW t \in Streams PROVE EntryInv(t)'
  <2>1. EntryInv(t) /\ EntryInv(s) BY DEF IInv
  <2>2. CASE t = s
    <3>1. Body(0) = <<>> BY DEF Body
    <3>2. phase'[s] = "open" /\ s \in incoming' /\ s \in headed' BY DEF IInv, TypeOK
    <3>3. read[s] = 0 /\ Buffer[s] = <<>> /\ Posted(s) = {} BY <2>1 DEF EntryInv
    <3>4. s \notin reading BY <2>1 DEF EntryInv
    <3> QED BY <1>2, <2>2, <3>1, <3>2, <3>3, <3>4 DEF EntryInv
  <2>3. CASE t # s
    <3>1. phase'[t] = phase[t] BY <2>3 DEF IInv, TypeOK
    <3> QED BY <1>2, <2>1, <2>3, <3>1 DEF EntryInv
  <2> QED BY <2>2, <2>3
<1> QED BY <1>1, <1>2, <1>3 DEF IInv

LEMMA DataStep ==
  ASSUME IInv, NEW s \in Streams, Data(s)
  PROVE  IInv'
<1> USE DEF Data, GetIncomingStream, peerVars
<1>1. TypeOK' BY DEF IInv, TypeOK, Place
<1>2. WholeOnce' /\ ConnectFirst' /\ \A t \in Streams : Posted(t)' = Posted(t)
  BY QuietStep
<1>3. incoming' = incoming BY DEF IInv, EntryInv
<1>4. \A t \in Streams : EntryInv(t)' BY <1>2, <1>3 DEF IInv, EntryInv
<1> QED BY <1>1, <1>2, <1>4 DEF IInv

LEMMA ReadStep ==
  ASSUME IInv, NEW s \in Streams, Read(s)
  PROVE  IInv'
<1> USE DEF Read, peerVars
<1>1. WholeOnce' /\ ConnectFirst' /\ \A t \in Streams : Posted(t)' = Posted(t)
  BY QuietStep
<1>2. ASSUME NEW n \in 1..(got[s] - read[s]), read' = [read EXCEPT ![s] = @ + n], OnData(s, n),
             UNCHANGED <<told, at, reading>>
      PROVE  IInv'
  <2>1. /\ read[s] \in 0..MaxBody /\ got[s] \in 0..MaxBody /\ MaxBody \in Nat
        /\ read \in [Streams -> 0..MaxBody] /\ Buffer \in [Streams -> Seq(1..MaxBody)]
    BY StreamRecvAssumption DEF IInv, TypeOK
  <2>2. n \in Nat /\ read[s] \in Nat /\ read[s] + n \in 0..MaxBody BY <2>1, <1>2
  <2>3. EntryInv(s) /\ phase[s] = "open" BY DEF IInv, EntryInv
  <2>4. Buffer'[s] = Body(read[s] + n)
    <3>1. Buffer'[s] = Buffer[s] \o Chunk(s, n) BY <1>2, <2>1 DEF OnData
    <3>2. Chunk(s, n) = [i \in 1..n |-> read[s] + i] BY DEF Chunk
    <3>3. Buffer[s] = Body(read[s]) BY <2>3 DEF EntryInv
    <3> QED BY <2>2, <3>1, <3>2, <3>3, BodyConcat
  <2>5. Body(read[s] + n) \in Seq(1..MaxBody)
    <3>1. \A i \in 1..(read[s] + n) : i \in 1..MaxBody BY <2>1, <2>2
    <3>2. read[s] + n \in Nat BY <2>2
    <3> QED BY <3>1, <3>2, BodyIsSeq
  <2>6. read' \in [Streams -> 0..MaxBody] BY <1>2, <2>1, <2>2
  <2>7. Buffer' \in [Streams -> Seq(1..MaxBody)] BY <1>2, <2>1, <2>4, <2>5 DEF OnData
  <2>8. TypeOK' BY <1>2, <2>6, <2>7 DEF IInv, TypeOK
  <2>9. read'[s] = read[s] + n BY <1>2, <2>1
  <2>10. ASSUME NEW t \in Streams PROVE EntryInv(t)'
    <3>1. CASE t = s
      BY <1>1, <1>2, <2>3, <2>4, <2>9, <3>1 DEF EntryInv
    <3>2. CASE t # s
      <4>1. Buffer'[t] = Buffer[t] /\ read'[t] = read[t] BY <1>2, <2>1, <3>2 DEF OnData
      <4>2. EntryInv(t) BY DEF IInv
      <4> QED BY <1>1, <1>2, <4>1, <4>2 DEF EntryInv
    <3> QED BY <3>1, <3>2
  <2> QED BY <1>1, <2>8, <2>10 DEF IInv
<1>3. ASSUME told' \in {told, told \ {s}}, at' = "polling", reading' = {}, UNCHANGED <<read, Buffer>>
      PROVE  IInv'
  <2>1. TypeOK' BY <1>3 DEF IInv, TypeOK, Place
  <2> QED BY <1>3, <2>1, StreamsAlone DEF entryVars
<1> QED BY <1>2, <1>3

(* FINISHED of an entry posts it and ends it; a late one does nothing.     *)
LEMMA FinishedStep ==
  ASSUME IInv, NEW s \in Streams, Finished(s)
  PROVE  IInv'
<1> USE DEF Finished, peerVars
<1>1. EntryInv(s) /\ TypeOK BY DEF IInv
<1>2. CASE s \in incoming
  <2>1. phase[s] = "open" BY <1>1, <1>2 DEF EntryInv
  <2>2. s \in ended /\ read[s] = got[s] /\ phase' = [phase EXCEPT ![s] = "finished"]
    BY <2>1 DEF Reported
  <2>3. Post(s) /\ Forget(s) BY <1>2 DEF DestroyStream
  <2>4. shut' \in SUBSET Streams BY <1>1, <1>2 DEF DestroyStream, TypeOK
  <2>5. /\ posted' \in Seq({Connect} \cup Messages)
        /\ connected' \in BOOLEAN /\ closing' \in BOOLEAN
    BY <2>3, PostShape
  <2>6. /\ WholeOnce' /\ ConnectFirst'
        /\ \A t \in Streams \ {s} : Posted(t)' # {} => Posted(t) # {}
    BY <2>1, <2>2, <2>3, PostStep
  <2>7. TypeOK'
    <3>1. phase' \in [Streams -> Phase] BY <1>1, <2>2 DEF TypeOK, Phase
    <3>2. Buffer' \in [Streams -> Seq(1..MaxBody)]
      <4>1. <<>> \in Seq(1..MaxBody) OBVIOUS
      <4> QED BY <4>1, <1>1, <2>3 DEF TypeOK, Forget
    <3>3. incoming' \in SUBSET Streams /\ headed' \in SUBSET incoming'
      BY <1>1, <2>3 DEF TypeOK, Forget
    <3> QED BY <1>1, <2>4, <2>5, <3>1, <3>2, <3>3 DEF TypeOK
  <2>8. ASSUME NEW t \in Streams PROVE EntryInv(t)'
    <3>1. EntryInv(t) BY DEF IInv
    <3>2. CASE t = s
      <4>1. phase'[s] = "finished" /\ s \notin incoming' /\ Buffer'[s] = <<>>
        BY <1>1, <2>2, <2>3 DEF TypeOK, Forget
      <4>2. s \notin reading BY <1>1 DEF EntryInv
      <4> QED BY <3>2, <4>1, <4>2 DEF EntryInv
    <3>3. CASE t # s
      <4>1. phase'[t] = phase[t] /\ Buffer'[t] = Buffer[t] BY <1>1, <2>2, <2>3, <3>3 DEF TypeOK, Forget
      <4>2. t \in incoming' <=> t \in incoming BY <2>3, <3>3 DEF Forget
      <4>3. t \in headed' <=> t \in headed BY <2>3, <3>3 DEF Forget
      <4>4. Posted(t)' # {} => Posted(t) # {} BY <2>6, <3>3
      <4> QED BY <3>1, <4>1, <4>2, <4>3, <4>4 DEF EntryInv
    <3> QED BY <3>2, <3>3
  <2> QED BY <2>6, <2>7, <2>8 DEF IInv
<1>3. CASE s \notin incoming
  <2>1. phase[s] # "open" BY <1>1, <1>3 DEF EntryInv
  <2>2. phase[s] = "reset" /\ phase' = [phase EXCEPT ![s] = "both"] BY <2>1 DEF Reported
  <2>3. UNCHANGED <<shut, closing, incoming, headed, Buffer, connected, posted, reading>>
    BY <1>3 DEF entryVars
  <2>4. TypeOK' BY <1>1, <2>2, <2>3 DEF TypeOK, Phase
  <2>5. WholeOnce' /\ ConnectFirst' /\ \A t \in Streams : Posted(t)' = Posted(t)
    BY <2>3, QuietStep
  <2>6. ASSUME NEW t \in Streams PROVE EntryInv(t)'
    <3>1. EntryInv(t) BY DEF IInv
    <3>2. IF t = s THEN phase[t] = "reset" /\ phase'[t] = "both" ELSE phase'[t] = phase[t]
      BY <1>1, <2>2 DEF TypeOK
    <3> QED BY <3>1, <3>2, <2>3, <2>5 DEF EntryInv
  <2> QED BY <2>4, <2>5, <2>6 DEF IInv
<1> QED BY <1>2, <1>3

LEMMA ResetStep ==
  ASSUME IInv, NEW s \in Streams, Reset(s)
  PROVE  IInv'
<1> USE DEF Reset, peerVars, DestroyStream, Forget
<1>1. EntryInv(s) /\ TypeOK BY DEF IInv
<1>2. WholeOnce' /\ ConnectFirst' /\ \A t \in Streams : Posted(t)' = Posted(t)
  BY QuietStep
<1>3. TypeOK'
  <2>1. phase' \in [Streams -> Phase] BY <1>1 DEF TypeOK, Phase
  <2>2. Buffer' \in [Streams -> Seq(1..MaxBody)]
    <3>1. <<>> \in Seq(1..MaxBody) OBVIOUS
    <3> QED BY <3>1, <1>1 DEF TypeOK
  <2> QED BY <1>1, <2>1, <2>2 DEF TypeOK
<1>4. ASSUME NEW t \in Streams PROVE EntryInv(t)'
  <2>1. EntryInv(t) BY DEF IInv
  <2>2. CASE t = s
    <3>1. phase'[s] = "reset" /\ s \notin incoming' /\ Buffer'[s] = <<>> BY <1>1 DEF TypeOK
    <3>2. s \notin reading /\ Posted(s) = {} BY <1>1 DEF EntryInv
    <3> QED BY <1>2, <2>2, <3>1, <3>2 DEF EntryInv
  <2>3. CASE t # s
    <3>1. phase'[t] = phase[t] /\ Buffer'[t] = Buffer[t] BY <1>1, <2>3 DEF TypeOK
    <3> QED BY <1>2, <2>1, <2>3, <3>1 DEF EntryInv
  <2> QED BY <2>2, <2>3
<1> QED BY <1>2, <1>3, <1>4 DEF IInv

LEMMA InvNext == IInv /\ [Next]_vars => IInv'
<1> SUFFICES ASSUME IInv, [Next]_vars PROVE IInv' OBVIOUS
<1>1. CASE BeginDatagram BY <1>1, BeginDatagramStep
<1>2. CASE Receive BY <1>2, EndReceiveStep, ArriveStep DEF Receive
<1>3. CASE ProcessH3Events
  BY <1>3, HeadersStep, DataStep, ReadStep, FinishedStep, ResetStep, GoAwayStep, EndPollStep
     DEF ProcessH3Events
<1>4. CASE UNCHANGED vars
  <2>1. TypeOK' BY <1>4 DEF IInv, TypeOK, vars, peerVars, quicheVars, entryVars
  <2> QED BY <1>4, <2>1, StreamsAlone DEF vars, peerVars, quicheVars, entryVars
<1> QED BY <1>1, <1>2, <1>3, <1>4 DEF Next

LEMMA Invariance == Spec => []IInv
BY InvInit, InvNext, PTL DEF Spec

-----------------------------------------------------------------------------
(* The variables keep their types.                                         *)
THEOREM TypeCorrect == Spec => []TypeOK
<1>1. IInv => TypeOK BY DEF IInv
<1> QED BY <1>1, Invariance, PTL

(* on_data accepts what this stream brings.                                *)
Trusted(s) == IF IsServer THEN s \in Authorized ELSE connected

Delivered == \A s \in Streams : phase[s] = "finished" /\ Trusted(s) => Posted(s) # {}

(* Post keeps what was posted, and adds the message if it is accepted.     *)
LEMMA PostDelivers ==
  ASSUME IInv, NEW s \in Streams, Post(s), UNCHANGED IsServer
  PROVE  /\ \A t \in Streams : Trusted(t)' = Trusted(t)
         /\ Trusted(s) => Posted(s)' # {}
         /\ \A t \in Streams : Posted(t) # {} => Posted(t)' # {}
<1> DEFINE n == Len(posted')
<1>1. /\ posted \in Seq({Connect} \cup Messages) /\ posted' \in Seq({Connect} \cup Messages)
      /\ Message(s) # Connect /\ Message(s).stream = s
  BY PostShape, MessageFields DEF IInv, TypeOK
<1>2. DOMAIN posted = 1..Len(posted) /\ DOMAIN posted' = 1..n /\ n \in Nat /\ Len(posted) \in Nat
  BY <1>1
<1>3. \A t \in Streams : Trusted(t)' = Trusted(t)
  BY DEF Post, Trusted
<1>4. CASE posted' = posted
  <2>1. ~Trusted(s)
    <3>1. Len(posted) + 1 # Len(posted)
      <4>1. \A k \in Nat : k + 1 # k OBVIOUS
      <4>2. Len(posted) \in Nat BY <1>1, LenProperties
      <4> QED BY ONLY <4>1, <4>2
    <3>2. CASE connected
      <4>1. posted' = Append(posted, Message(s)) BY <3>2 DEF Post
      <4>2. Len(Append(posted, Message(s))) = Len(posted) + 1
        <5>1. Message(s) \in {Connect} \cup Messages BY MessageFields DEF IInv
        <5> QED BY ONLY <1>1, <5>1
      <4> QED BY <3>1, <4>1, <4>2, <1>4
    <3>3. CASE ~connected /\ IsServer /\ s \in Authorized
      <4>1. posted = <<>> BY <3>3 DEF IInv, ConnectFirst
      <4>2. posted' = posted \o <<Connect, Message(s)>> BY <3>3 DEF Post
      <4>3. Len(posted') = 2
        <5>1. \A m : Len(<<>> \o <<Connect, m>>) = 2 OBVIOUS
        <5> QED BY <4>1, <4>2, <5>1
      <4> QED BY <4>1, <4>3, <1>4
    <3> QED BY <3>2, <3>3 DEF Trusted
  <2> QED BY <1>3, <1>4, <2>1 DEF Posted
<1>5. CASE AddsMessage(s)
  <2>1. n \in DOMAIN posted' /\ posted'[n] = Message(s)
    <3>1. n > 0 /\ posted'[n] = Message(s) BY <1>5 DEF AddsMessage
    <3> HIDE DEF n
    <3>2. n \in 1..n BY <1>2, <3>1
    <3> QED BY <1>2, <3>1, <3>2
  <2>2. n \in Posted(s)' BY <1>1, <2>1 DEF Posted
  <2>3. ASSUME NEW t \in Streams, NEW i \in Posted(t) PROVE Posted(t)' # {}
    <3>1. i \in DOMAIN posted /\ posted[i] # Connect /\ posted[i].stream = t
      BY DEF Posted
    <3>2. ~(IsServer /\ ~connected)
      <4>1. posted # <<>> BY <1>2, <3>1
      <4> QED BY <4>1 DEF IInv, ConnectFirst
    <3>3. n = Len(posted) + 1 BY <1>5, <3>2 DEF AddsMessage
    <3>4. i \in 1..(n - 1) /\ i \in 1..n BY <1>2, <3>1, <3>3
    <3>5. posted'[i] = posted[i] BY <1>5, <3>2, <3>4 DEF AddsMessage
    <3>6. i \in Posted(t)' BY <1>2, <3>1, <3>4, <3>5 DEF Posted
    <3> QED BY <3>6
  <2> QED BY <1>3, <2>2, <2>3
<1> QED BY <1>4, <1>5, PostShape

LEMMA DeliveredStep == IInv /\ Delivered /\ [Next]_vars => Delivered'
<1> SUFFICES ASSUME IInv, Delivered, [Next]_vars PROVE Delivered'
  OBVIOUS
<1>1. ASSUME UNCHANGED <<IsServer, connected, posted>>,
             \A t \in Streams : phase'[t] = "finished" => phase[t] = "finished"
      PROVE  Delivered'
  BY <1>1 DEF Delivered, Trusted, Posted
<1>2. ASSUME NEW s \in Streams, NEW p \in Phase \ {"finished"},
             UNCHANGED <<IsServer, connected, posted>>, phase' = [phase EXCEPT ![s] = p]
      PROVE  Delivered'
  <2>1. \A t \in Streams : phase'[t] = "finished" => phase[t] = "finished"
    BY <1>2 DEF IInv, TypeOK
  <2> QED BY <1>1, <1>2, <2>1
<1>3. ASSUME NEW s \in Streams, Finished(s) PROVE Delivered'
  <2>1. EntryInv(s) /\ UNCHANGED IsServer BY <1>3 DEF IInv, Finished
  <2>2. CASE s \in incoming
    <3>1. phase' = [phase EXCEPT ![s] = "finished"] /\ Post(s)
      BY <1>3, <2>1, <2>2 DEF Finished, Reported, EntryInv
    <3>2. /\ \A t \in Streams : Trusted(t)' = Trusted(t)
          /\ Trusted(s) => Posted(s)' # {}
          /\ \A t \in Streams : Posted(t) # {} => Posted(t)' # {}
      BY <2>1, <3>1, PostDelivers
    <3>3. \A t \in Streams : t # s => phase'[t] = phase[t]
      BY <3>1 DEF IInv, TypeOK
    <3>4. ASSUME NEW t \in Streams, phase'[t] = "finished", Trusted(t)'
          PROVE  Posted(t)' # {}
      <4>1. CASE t = s BY <3>2, <3>4, <4>1
      <4>2. CASE t # s BY <3>2, <3>3, <3>4, <4>2 DEF Delivered
      <4> QED BY <4>1, <4>2
    <3> QED BY <3>4 DEF Delivered
  <2>3. CASE s \notin incoming
    <3>1. phase' = [phase EXCEPT ![s] = "both"] /\ UNCHANGED <<connected, posted>>
      BY <1>3, <2>1, <2>3 DEF Finished, Reported, EntryInv
    <3> QED BY <1>2, <2>1, <3>1 DEF Phase
  <2> QED BY <2>2, <2>3
<1>4. ASSUME NEW s \in Streams, Headers(s) \/ Reset(s) PROVE Delivered'
  BY <1>2, <1>4 DEF Headers, Reset, Phase
<1>5. ASSUME NEW s \in Streams, Data(s) \/ Read(s) PROVE Delivered'
  BY <1>1, <1>5 DEF Data, Read
<1>6. ASSUME NEW s \in Streams,
             ArriveHeaders(s) \/ ArriveBody(s) \/ ArriveFin(s) \/ ArriveReset(s)
      PROVE  Delivered'
  BY <1>1, <1>6 DEF ArriveHeaders, ArriveBody, ArriveFin, ArriveReset, quicheVars
<1>7. CASE BeginDatagram \/ EndReceive \/ GoAway \/ EndPoll
  BY <1>1, <1>7 DEF BeginDatagram, EndReceive, GoAway, EndPoll, quicheVars
<1>8. CASE UNCHANGED vars
  BY <1>1, <1>8 DEF vars, quicheVars
<1> QED
  BY <1>3, <1>4, <1>5, <1>6, <1>7, <1>8 DEF Next, Receive, ProcessH3Events

(* However quiche orders its reports, what on_data posts is whole, a stream*)
(* is posted at most once, and what on_data accepts is posted.             *)
THEOREM WholeCorrect == Spec => []PostedWhole
<1>1. Init => Delivered BY DEF Init, Delivered
<1>2. IInv /\ Delivered => PostedWhole
  BY DEF IInv, WholeOnce, Delivered, Trusted, PostedWhole
<1> QED BY <1>1, <1>2, InvInit, InvNext, DeliveredStep, PTL DEF Spec

InStep == \A s \in incoming : s \in headed /\ Buffer[s] = Body(read[s])

(* An entry has its headers and all that quiche has returned of its body.  *)
THEOREM InStepCorrect == Spec => []InStep
<1>1. IInv => InStep BY DEF IInv, EntryInv, InStep, TypeOK
<1> QED BY <1>1, Invariance, PTL

(* incoming_streams_by_id_ has no entry of a stream that has ended.        *)
THEOREM NothingLeft == Spec => []NoLeftovers
<1>1. IInv => NoLeftovers BY DEF IInv, EntryInv, NoLeftovers, TypeOK
<1> QED BY <1>1, Invariance, PTL

(* A server posts Connect once, before every request of the connection.    *)
THEOREM ConnectCorrect == Spec => []ConnectFirst
<1>1. IInv => ConnectFirst BY DEF IInv
<1> QED BY <1>1, Invariance, PTL
-----------------------------------------------------------------------------
(* Refinement.                                                             *)

(* What changes neither a message nor its fate is not seen.                *)
LEMMA Unseen ==
  ASSUME UNCHANGED <<IsServer, connected, got, ended, posted>>, Over' = Over
  PROVE  UNCHANGED Feed!vars
BY DEF Feed!vars

(* A stream that quiche reports the end of gives no message any more.      *)
LEMMA OneOver ==
  ASSUME IInv, NEW s \in Streams, NEW p \in Phase, phase' = [phase EXCEPT ![s] = p]
  PROVE  Over' = IF p \in {"finished", "reset", "both"} THEN Over \cup {s} ELSE Over \ {s}
<1>1. \A t \in Streams : phase'[t] = IF t = s THEN p ELSE phase[t]
  BY DEF IInv, TypeOK
<1> QED
  BY <1>1 DEF Over

(* FINISHED of an entry delivers its message or discards it.               *)
LEMMA FinishedIsSeen ==
  ASSUME IInv, NEW s \in Streams, Finished(s)
  PROVE  [Feed!Next]_(Feed!vars)
<1>1. EntryInv(s) /\ UNCHANGED <<IsServer, got, ended>>
  BY DEF IInv, Finished, peerVars
<1>2. CASE s \in incoming
  <2>1. phase[s] = "open" /\ s \in ended /\ read[s] = got[s]
        /\ phase' = [phase EXCEPT ![s] = "finished"] /\ Post(s)
    BY <1>1, <1>2 DEF Finished, Reported, EntryInv
  <2>2. s \notin Over /\ Over' = Over \cup {s}
    BY <2>1, OneOver DEF Over, Phase
  <2>3. Message(s) = Feed!Message(s)
    <3>1. Buffer[s] = Body(got[s]) /\ (s \in headed) = TRUE
      BY <1>1, <2>1 DEF EntryInv
    <3> QED
      BY <3>1 DEF Message, Feed!Message, Body
  <2>4. Connect = Feed!Connect
    BY DEF Connect, Feed!Connect
  <2>5. CASE connected /\ posted' = Append(posted, Message(s)) /\ UNCHANGED connected
    BY <1>1, <2>1, <2>2, <2>3, <2>5 DEF Feed!Next, Feed!Deliver
  <2>6. CASE UNCHANGED <<connected, posted>>
    BY <1>1, <2>2, <2>6 DEF Feed!Next, Feed!Discard
  <2>7. CASE /\ ~connected /\ IsServer /\ s \in Authorized /\ connected' = TRUE
             /\ posted' = posted \o <<Connect, Message(s)>>
    BY <1>1, <2>1, <2>2, <2>3, <2>4, <2>7 DEF Feed!Next, Feed!Deliver
  <2> QED
    BY <2>1, <2>5, <2>6, <2>7 DEF Post
<1>3. CASE s \notin incoming
  <2>1. phase[s] = "reset" /\ phase' = [phase EXCEPT ![s] = "both"]
        /\ UNCHANGED <<connected, posted>>
    BY <1>1, <1>3 DEF Finished, Reported, EntryInv
  <2>2. Over' = Over
    BY <2>1, OneOver DEF Over, Phase
  <2> QED
    BY <1>1, <2>1, <2>2, Unseen
<1> QED
  BY <1>2, <1>3

(* Every step of the receive side is a step of the feed or not seen.       *)
LEMMA FeedSteps == IInv /\ [Next]_vars => [Feed!Next]_(Feed!vars)
<1> SUFFICES ASSUME IInv, [Next]_vars PROVE [Feed!Next]_(Feed!vars)
  OBVIOUS
<1>1. ASSUME UNCHANGED <<IsServer, connected, got, ended, posted, phase>>
      PROVE  UNCHANGED Feed!vars
  BY <1>1, Unseen DEF Over
<1>2. CASE BeginDatagram \/ EndReceive \/ GoAway \/ EndPoll
  BY <1>1, <1>2 DEF BeginDatagram, EndReceive, GoAway, EndPoll, peerVars, quicheVars
<1>3. ASSUME NEW s \in Streams, ArriveHeaders(s) \/ ArriveReset(s)
      PROVE  UNCHANGED Feed!vars
  BY <1>1, <1>3 DEF ArriveHeaders, ArriveReset, quicheVars
<1>4. ASSUME NEW s \in Streams, ArriveBody(s) \/ ArriveFin(s) PROVE Feed!Next
  <2>1. Over' = Over /\ s \notin ended
    BY <1>4 DEF ArriveBody, ArriveFin, Live, quicheVars, Over
  <2>2. Feed!Arrive(s)
    BY <1>4, <2>1 DEF ArriveBody, ArriveFin, Feed!Arrive
  <2> QED
    BY <2>2 DEF Feed!Next
<1>5. ASSUME NEW s \in Streams, Headers(s) PROVE UNCHANGED Feed!vars
  <2>1. s \notin Over /\ Over' = Over
    BY <1>5, OneOver DEF Headers, Phase, Over
  <2> QED
    BY <1>5, <2>1, Unseen DEF Headers, peerVars
<1>6. ASSUME NEW s \in Streams, Data(s) \/ Read(s) PROVE UNCHANGED Feed!vars
  BY <1>1, <1>6 DEF Data, Read, peerVars
<1>7. ASSUME NEW s \in Streams, Reset(s) PROVE Feed!Next
  <2>1. s \notin Over /\ Over' = Over \cup {s}
    BY <1>7, OneOver DEF Reset, Phase, Over
  <2>2. Feed!Discard(s)
    BY <1>7, <2>1 DEF Reset, peerVars, Feed!Discard
  <2> QED
    BY <2>2 DEF Feed!Next
<1>8. CASE UNCHANGED vars
  BY <1>1, <1>8 DEF vars, peerVars, quicheVars
<1> QED
  BY <1>2, <1>3, <1>4, <1>5, <1>6, <1>7, <1>8, FinishedIsSeen
  DEF Next, Receive, ProcessH3Events

(* For any streams and bodies the receive side implements the feed.        *)
THEOREM RecvIsFeed == Spec => ImplementsFeed
<1>1. Init => Feed!Init
  BY DEF Init, Feed!Init, Over
<1> QED
  BY <1>1, Invariance, FeedSteps, PTL DEF Spec, ImplementsFeed, Feed!Spec
=============================================================================
