------------------------------ MODULE StreamRecv ------------------------------
(***************************************************************************)
(* The receive side of one QuicheConnection: ProcessH3Events turns the     *)
(* events of quiche into whole requests (on a server) or responses (on a   *)
(* client), and on_data posts them to the mailbox.                         *)
(*                                                                         *)
(* All of it runs on the io thread with the connection's mutex held, so    *)
(* the order in which quiche reports the events of several streams is what *)
(* matters: a poll is a step, and so is a read of a body.                  *)
(*                                                                         *)
(* quiche is outside the repository.  Between two datagrams it knows what  *)
(* has arrived on each stream and what it has reported; the order of its   *)
(* reports is left open, except within a stream.                           *)
(***************************************************************************)
EXTENDS Integers, Sequences

CONSTANTS
  Streams,     \* request streams of the connection
  Authorized,  \* those whose request has the server's Authorization
  MaxBody      \* bound: units in the longest body

ASSUME StreamRecvAssumption == MaxBody \in Nat /\ Authorized \subseteq Streams

VARIABLES
  IsServer,   \* settings_.IsServer
  arrived,    \* streams whose HEADERS have arrived
  got,        \* how many units of its body have arrived on a stream
  ended,      \* streams whose FIN has arrived
  reset,      \* streams whose RESET_STREAM has arrived
  phase,      \* what quiche has reported of a stream: see Phase
  told,       \* streams with a DATA event and no QUICHE_H3_ERR_DONE since
  read,       \* how many units of a stream quiche_h3_recv_body has returned
  shut,       \* streams shut down by DestroyStream
  closing,    \* the connection was closed by us or the peer
  incoming,   \* the keys of incoming_streams_by_id_
  headed,     \* those whose entry has been given HEADERS
  Buffer,     \* IncomingStream::Buffer, <<>> where there is no entry
  connected,  \* connected_
  posted,     \* the events that on_data has posted
  at,         \* where the io thread is: see Place
  reading     \* the stream whose body it reads, if any

peerVars == <<arrived, got, ended, reset>>
quicheVars == <<phase, told, read, shut, closing>>
entryVars == <<incoming, headed, Buffer>>
vars == <<IsServer, peerVars, quicheVars, entryVars, connected, posted, at, reading>>

(* "unknown": nothing; "open": HEADERS; "finished": FINISHED; "reset":     *)
(* RESET; "both": RESET and a late FINISHED.                               *)
Phase == {"unknown", "open", "finished", "reset", "both"}

(* "free": not in OnDatagram; "receiving": in quiche_conn_recv; "polling": *)
(* at quiche_h3_conn_poll; "reading": in the loop that reads a body.       *)
Place == {"free", "receiving", "polling", "reading"}

Body(n) == [i \in 1..n |-> i]

Connect == [type |-> "Connect"]
Messages ==
  [type : {"Data"}, stream : Streams, headed : BOOLEAN, body : Seq(1..MaxBody)]

TypeOK ==
  /\ IsServer \in BOOLEAN
  /\ arrived \in SUBSET Streams /\ ended \in SUBSET Streams /\ reset \in SUBSET Streams
  /\ got \in [Streams -> 0..MaxBody]
  /\ phase \in [Streams -> Phase]
  /\ told \in SUBSET Streams /\ shut \in SUBSET Streams
  /\ read \in [Streams -> 0..MaxBody]
  /\ closing \in BOOLEAN
  /\ incoming \in SUBSET Streams /\ headed \in SUBSET incoming
  /\ Buffer \in [Streams -> Seq(1..MaxBody)]
  /\ connected \in BOOLEAN
  /\ posted \in Seq({Connect} \cup Messages)
  /\ at \in Place
  /\ reading \in SUBSET Streams

(* The connection is established.  A client's certificate check is behind  *)
(* it: connected_ is set, or the connection closed.                        *)
Init ==
  /\ IsServer \in BOOLEAN
  /\ connected \in IF IsServer THEN {FALSE} ELSE BOOLEAN
  /\ closing = (~IsServer /\ ~connected)
  /\ arrived = {} /\ ended = {} /\ reset = {}
  /\ got = [s \in Streams |-> 0]
  /\ phase = [s \in Streams |-> "unknown"]
  /\ read = [s \in Streams |-> 0]
  /\ told = {} /\ shut = {}
  /\ incoming = {} /\ headed = {}
  /\ Buffer = [s \in Streams |-> <<>>]
  /\ posted = <<>>
  /\ at = "free" /\ reading = {}

-----------------------------------------------------------------------------
(* OnDatagram: quiche_conn_recv, whose datagram may bring several frames;  *)
(* then ProcessH3Events.  A closed connection ignores what it brings.      *)

BeginDatagram ==
  /\ at = "free" /\ at' = "receiving"
  /\ UNCHANGED <<IsServer, peerVars, quicheVars, entryVars, connected, posted, reading>>

EndReceive ==
  /\ at = "receiving" /\ at' = "polling"
  /\ UNCHANGED <<IsServer, peerVars, quicheVars, entryVars, connected, posted, reading>>

Live(s) == at = "receiving" /\ ~closing /\ s \notin ended \cup reset \cup shut

ArriveHeaders(s) ==
  /\ Live(s) /\ s \notin arrived
  /\ arrived' = arrived \cup {s}
  /\ UNCHANGED <<IsServer, got, ended, reset, quicheVars, entryVars, connected, posted, at, reading>>

ArriveBody(s) ==
  /\ Live(s) /\ s \in arrived /\ got[s] < MaxBody
  /\ got' = [got EXCEPT ![s] = @ + 1]
  /\ UNCHANGED <<IsServer, arrived, ended, reset, quicheVars, entryVars, connected, posted, at, reading>>

ArriveFin(s) ==
  /\ Live(s) /\ s \in arrived
  /\ ended' = ended \cup {s}
  /\ UNCHANGED <<IsServer, arrived, got, reset, quicheVars, entryVars, connected, posted, at, reading>>

(* A reset may come before anything else, or overtake what was not read.   *)
ArriveReset(s) ==
  /\ at = "receiving" /\ ~closing /\ s \notin reset \cup shut
  /\ phase[s] # "finished"
  /\ reset' = reset \cup {s}
  /\ UNCHANGED <<IsServer, arrived, got, ended, quicheVars, entryVars, connected, posted, at, reading>>

-----------------------------------------------------------------------------
(* ProcessH3Events.                                                        *)

(* GetIncomingStream finds the entry of the stream or makes one.           *)
GetIncomingStream(s) == incoming' = incoming \cup {s}

(* DestroyStream, without what it does to the send side.                   *)
Forget(s) ==
  /\ incoming' = incoming \ {s}
  /\ headed' = headed \ {s}
  /\ Buffer' = [Buffer EXCEPT ![s] = <<>>]

(* Mutant: the entry stays.                                                *)
DestroyStreamLazy(s) ==
  /\ shut' = shut \cup {s}
  /\ UNCHANGED entryVars

DestroyStream(s) ==
  /\ shut' = shut \cup {s}
  /\ Forget(s)

Headers(s) ==
  /\ at = "polling" /\ s \in arrived \ reset /\ phase[s] = "unknown"
  /\ phase' = [phase EXCEPT ![s] = "open"]
  /\ GetIncomingStream(s)
  /\ headed' = headed \cup {s}
  /\ UNCHANGED <<IsServer, peerVars, told, read, shut, closing, Buffer, connected, posted, at, reading>>

(* DATA is reported once, until a read finds nothing more.                 *)
Data(s) ==
  /\ at = "polling" /\ phase[s] = "open" /\ s \notin told
  /\ read[s] < got[s] \/ s \in reset
  /\ told' = told \cup {s}
  /\ GetIncomingStream(s)
  /\ at' = "reading" /\ reading' = {s}
  /\ UNCHANGED <<IsServer, peerVars, phase, read, shut, closing, headed, Buffer, connected, posted>>

(* Mutant: a copy that begins one unit late.                               *)
ChunkLate(s, n) == [i \in 1..n |-> read[s] + i + 1]

Chunk(s, n) == [i \in 1..n |-> read[s] + i]

OnData(s, n) == Buffer' = [Buffer EXCEPT ![s] = @ \o Chunk(s, n)]

(* Mutant: one read for each DATA event.                                   *)
ReadOnce(s) ==
  /\ s \in reading /\ at' = "polling" /\ reading' = {}
  /\ \/ /\ s \notin reset
        /\ \E n \in 1..(got[s] - read[s]) :
             /\ read' = [read EXCEPT ![s] = @ + n]
             /\ OnData(s, n)
        /\ UNCHANGED told
     \/ /\ s \in reset \/ read[s] = got[s]
        /\ told' = told \ {s}
        /\ UNCHANGED <<read, Buffer>>
  /\ UNCHANGED <<IsServer, peerVars, phase, shut, closing, incoming, headed, connected, posted>>

(* A read returns what fits body_buf_, or nothing more; or, on a stream    *)
(* that was reset, an error, which is logged: the loop reads again, and    *)
(* then there is nothing more.                                             *)
Read(s) ==
  /\ s \in reading
  /\ \/ /\ s \notin reset
        /\ \E n \in 1..(got[s] - read[s]) :
             /\ read' = [read EXCEPT ![s] = @ + n]
             /\ OnData(s, n)
        /\ UNCHANGED <<told, at, reading>>
     \/ /\ s \notin reset /\ read[s] = got[s]
        /\ told' = told \ {s}
        /\ at' = "polling" /\ reading' = {}
        /\ UNCHANGED <<read, Buffer>>
     \/ /\ s \in reset
        /\ at' = "polling" /\ reading' = {}
        /\ UNCHANGED <<told, read, Buffer>>
  /\ UNCHANGED <<IsServer, peerVars, phase, shut, closing, incoming, headed, connected, posted>>

Message(s) == [type |-> "Data", stream |-> s, headed |-> s \in headed, body |-> Buffer[s]]

(* on_data: a client posts what comes on a connection that it trusts; a    *)
(* server posts Connect before the first request that is authorized, and   *)
(* closes the connection at one that is not (Close sends a GOAWAY, and     *)
(* closes at once when that fails).                                        *)

(* Mutant: MarkClientConnected is not called.                              *)
PostForgets(s) ==
  \/ /\ connected \/ ~IsServer
     /\ posted' = IF connected THEN Append(posted, Message(s)) ELSE posted
     /\ UNCHANGED <<connected, closing>>
  \/ /\ IsServer /\ ~connected /\ s \in Authorized
     /\ posted' = posted \o <<Connect, Message(s)>>
     /\ UNCHANGED <<connected, closing>>
  \/ /\ IsServer /\ ~connected /\ s \notin Authorized
     /\ closing' \in {closing, TRUE}
     /\ UNCHANGED <<connected, posted>>

Post(s) ==
  \/ /\ connected
     /\ posted' = Append(posted, Message(s))
     /\ UNCHANGED <<connected, closing>>
  \/ /\ ~connected /\ ~IsServer
     /\ UNCHANGED <<connected, posted, closing>>
  \/ /\ ~connected /\ IsServer /\ s \in Authorized
     /\ posted' = posted \o <<Connect, Message(s)>>
     /\ connected' = TRUE
     /\ UNCHANGED closing
  \/ /\ ~connected /\ IsServer /\ s \notin Authorized
     /\ closing' \in {closing, TRUE}
     /\ UNCHANGED <<connected, posted>>

(* quiche reports FINISHED once, when a body that has ended was read; also,*)
(* as the code has it, of a stream that was destroyed.                     *)
Reported(s) ==
  \/ /\ phase[s] = "open" /\ s \in ended \ reset /\ read[s] = got[s]
     /\ phase' = [phase EXCEPT ![s] = "finished"]
  \/ /\ phase[s] = "reset"
     /\ phase' = [phase EXCEPT ![s] = "both"]

(* Mutant: FINISHED makes an entry where there is none.                    *)
FinishedUnchecked(s) ==
  /\ at = "polling"
  /\ Reported(s)
  /\ Post(s)
  /\ Forget(s)
  /\ shut' = IF IsServer THEN shut ELSE shut \cup {s}
  /\ UNCHANGED <<IsServer, peerVars, told, read, at, reading>>

Finished(s) ==
  /\ at = "polling"
  /\ Reported(s)
  /\ \/ /\ s \in incoming
        /\ Post(s)
        /\ IF IsServer THEN Forget(s) /\ UNCHANGED shut ELSE DestroyStream(s)
     \/ /\ s \notin incoming
        /\ UNCHANGED <<shut, closing, entryVars, connected, posted, reading>>
  /\ UNCHANGED <<IsServer, peerVars, told, read, at, reading>>

Reset(s) ==
  /\ at = "polling" /\ s \in reset /\ phase[s] \in {"unknown", "open"}
  /\ phase' = [phase EXCEPT ![s] = "reset"]
  /\ DestroyStream(s)
  /\ UNCHANGED <<IsServer, peerVars, told, read, closing, connected, posted, at, reading>>

(* GOAWAY closes the connection, and the loop goes on.                     *)
GoAway ==
  /\ at = "polling" /\ ~closing
  /\ closing' = TRUE
  /\ UNCHANGED <<IsServer, peerVars, phase, told, read, shut, entryVars, connected, posted, at, reading>>

Pending(s) ==
  \/ s \in arrived \ reset /\ phase[s] = "unknown"
  \/ phase[s] = "open" /\ s \notin reset /\ (s \in ended \/ (read[s] < got[s] /\ s \notin told))
  \/ s \in reset /\ phase[s] \in {"unknown", "open"} /\ s \notin told

(* Nothing more to report; or quiche closes the connection on an error of  *)
(* the peer, and the loop ends with events unreported.                     *)
EndPoll ==
  /\ at = "polling" /\ at' = "free"
  /\ \/ /\ \A s \in Streams : ~Pending(s)
        /\ UNCHANGED closing
     \/ closing' = TRUE
  /\ UNCHANGED <<IsServer, peerVars, phase, told, read, shut, entryVars, connected, posted, reading>>

Receive ==
  \/ \E s \in Streams :
       \/ ArriveHeaders(s) \/ ArriveBody(s) \/ ArriveFin(s) \/ ArriveReset(s)
  \/ EndReceive

ProcessH3Events ==
  \/ \E s \in Streams : Headers(s) \/ Data(s) \/ Read(s) \/ Finished(s) \/ Reset(s)
  \/ GoAway
  \/ EndPoll

Next == BeginDatagram \/ Receive \/ ProcessH3Events

Spec == Init /\ [][Next]_vars

(* The io thread does not stop inside OnDatagram.                          *)
FairSpec == Spec /\ WF_vars(EndReceive) /\ WF_vars(ProcessH3Events)

-----------------------------------------------------------------------------
Posted(s) == {i \in DOMAIN posted : posted[i] # Connect /\ posted[i].stream = s}

(* Each message that is posted is whole: it has its headers and every unit *)
(* of its body in order, and no stream is posted twice, whatever the order *)
(* in which quiche reports events, late ones included; and none that       *)
(* on_data accepts is missing once quiche has reported its end.            *)
PostedWhole ==
  /\ \A s \in Streams : \A i \in Posted(s) :
       posted[i].headed /\ s \in ended /\ posted[i].body = Body(got[s])
  /\ \A s \in Streams : \A i, j \in Posted(s) : i = j
  /\ \A s \in Streams :
       phase[s] = "finished" /\ (IF IsServer THEN s \in Authorized ELSE connected)
         => Posted(s) # {}

(* incoming_streams_by_id_ does not grow: an entry belongs to a stream of  *)
(* which quiche has not reported the end.                                  *)
NoLeftovers == \A s \in incoming : phase[s] = "open"

(* On a server Connect is posted once, before every request, and marks the *)
(* connection.                                                             *)
ConnectFirst ==
  IsServer => /\ connected <=> posted # <<>>
              /\ \A i \in DOMAIN posted : posted[i] = Connect <=> i = 1

(* quiche has reported the end of these streams.                           *)
Over == {s \in Streams : phase[s] \in {"finished", "reset", "both"}}

Feed == INSTANCE MessageFeed
  WITH Accepted <- Authorized, server <- IsServer, open <- connected,
       size <- got, whole <- ended, over <- Over, log <- posted

(* Reports in any order, late ones included, entries made and forgotten,   *)
(* resets between two reads: what the application sees is MessageFeed, one *)
(* whole message of each stream or none, the first of a server behind      *)
(* Connect, and nothing on a client that did not accept its server.        *)
ImplementsFeed == Feed!Spec

(* A message that has arrived whole is posted, unless its stream is reset, *)
(* the connection closed, or the server does not accept it.                *)
ArrivedIsPosted ==
  \A s \in Streams :
    s \in ended ~> (Posted(s) # {} \/ s \in reset \/ closing \/ (IsServer /\ s \notin Authorized))
=============================================================================
