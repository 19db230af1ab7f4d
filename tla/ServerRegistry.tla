---------------------------- MODULE ServerRegistry ----------------------------
(***************************************************************************)
(* A QuicSendServer and the registry of its connections in QuicheSender:   *)
(* connections are created by datagrams, found by both of their names,     *)
(* flushed and at last removed by the sender's thread.                     *)
(*                                                                         *)
(* The io thread, the sender's thread and the application take three kinds *)
(* of mutexes: the sender's, one for each connection, and the mailbox's.   *)
(* The sender holds its own for a whole walk over the connections, and     *)
(* takes each connection's and the mailbox's meanwhile.                    *)
(***************************************************************************)
EXTENDS Integers

CONSTANTS
  Dcids,    \* destination connection ids of accepted tokens
  MaxConns  \* bound: connections created in a behaviour

ASSUME ServerRegistryAssumption == MaxConns \in Nat

VARIABLES
  next,         \* next_assigned_id_
  connections,  \* connections_, None where there is no entry
  byId,         \* connections_by_id_: it maps these identifiers
  life,         \* of each connection in quiche: see Life
  http3,        \* connections whose http3_ is set
  connected,    \* connections whose connected_ is set
  timeout,      \* connections whose timeout_ is set
  goaway,       \* connections that have sent GOAWAY
  posted,       \* the event last posted to the mailbox
  io,           \* where the io thread is: see Place
  dcid,         \* before sender_->Find: the datagram's connection id
  ioOn,         \* conn_ptr, None for null
  loop,         \* the sender's thread: "asleep", or "walking" over connections_
  todo,         \* entries that it has not come to
  appOn         \* what the application's sender_->Find has found

mapVars == <<next, connections, byId>>
connVars == <<life, http3, connected, timeout, goaway>>
ioVars == <<io, dcid, ioOn>>
loopVars == <<loop, todo>>
vars == <<mapVars, connVars, posted, ioVars, loopVars, appOn>>

None == 0
Connections == 1..MaxConns

(* "none": not created; "closing": closed by us or draining.               *)
Life == {"none", "open", "closing", "closed"}

(* "arrived": before sender_->Find; "found": before the connection's       *)
(* mutex; "announced": Connect is posted, Data is not; "ending": before    *)
(* FlushEgress.                                                            *)
Place == {"idle", "arrived", "found", "announced", "ending"}

Connect == [type |-> "Connect", id |-> None]
Data(c) == [type |-> "Data", id |-> c]
Timeout(c) == [type |-> "Timeout", id |-> c]
Nothing == [type |-> "none", id |-> None]
Event == {Nothing, Connect} \cup [type : {"Data", "Timeout"}, id : Connections]

TypeOK ==
  /\ next \in 0..MaxConns
  /\ connections \in [Dcids -> 0..next]
  /\ byId \in SUBSET (1..next)
  /\ life \in [Connections -> Life]
  /\ \A c \in Connections : life[c] # "none" => c <= next
  /\ connected \in SUBSET http3 /\ http3 \in SUBSET Connections
  /\ timeout \in SUBSET Connections /\ goaway \in SUBSET http3
  /\ posted \in Event
  /\ io \in Place /\ dcid \in SUBSET Dcids /\ ioOn \in 0..next
  /\ loop \in {"asleep", "walking"} /\ todo \in SUBSET Dcids
  /\ appOn \in 0..next
  /\ io \in {"found", "announced", "ending"} <=> ioOn # None
  /\ io = "arrived" <=> dcid # {}

Init ==
  /\ next = 0 /\ byId = {}
  /\ connections = [d \in Dcids |-> None]
  /\ life = [c \in Connections |-> "none"]
  /\ http3 = {} /\ connected = {} /\ timeout = {} /\ goaway = {}
  /\ posted = Nothing
  /\ io = "idle" /\ dcid = {} /\ ioOn = None
  /\ loop = "asleep" /\ todo = {}
  /\ appOn = None

-----------------------------------------------------------------------------
(* The mutexes, held by a thread between its steps.                        *)

SenderFree == loop = "asleep"

ConnFree(c) == ~(io \in {"announced", "ending"} /\ ioOn = c)

(* Mutant: Poll keeps the mailbox's mutex while the application handles    *)
(* the events.                                                             *)
MailboxHeld == appOn = None

(* Poll gives it up before it calls back.                                  *)
MailboxFree == TRUE

Post(e) == MailboxFree /\ posted' = e

(* TickTimeout, at the end of FlushEgress: a closed connection is noticed  *)
(* once; quiche's deadline may pass.                                       *)
TickTimeout(c) ==
  \/ /\ life[c] = "closed" /\ c \notin timeout
     /\ Post(Timeout(c))
     /\ timeout' = timeout \cup {c}
     /\ UNCHANGED life
  \/ /\ life[c] = "closed" /\ c \in timeout
     /\ UNCHANGED <<life, timeout, posted>>
  \/ /\ life[c] # "closed"
     /\ life' \in {life, [life EXCEPT ![c] = "closed"]}
     /\ UNCHANGED <<timeout, posted>>

(* QuicheConnection::Close: GOAWAY, or quiche_conn_close when that fails or*)
(* there is no HTTP/3 layer.                                               *)
Close(c) ==
  \/ /\ c \in timeout
     /\ UNCHANGED <<life, goaway>>
  \/ /\ c \in http3 \ timeout /\ life[c] = "open"
     /\ goaway' = goaway \cup {c}
     /\ UNCHANGED life
  \/ /\ c \notin timeout
     /\ life' \in {[life EXCEPT ![c] = IF @ = "closed" THEN @ ELSE new] :
                     new \in {"closing", "closed"}}
     /\ UNCHANGED goaway

-----------------------------------------------------------------------------
(* The io thread: QuicSendServer::OnDatagram and the timer's handler.  A   *)
(* datagram of an unknown connection without an accepted token is answered *)
(* (see SendAllocator) and leaves no trace here.                           *)

Datagram(d) ==
  /\ io = "idle" /\ io' = "arrived" /\ dcid' = {d}
  /\ UNCHANGED <<mapVars, connVars, posted, ioOn, loopVars, appOn>>

(* The handler returns.                                                    *)
Return == io' = "idle" /\ dcid' = {} /\ ioOn' = None

Find(d) ==
  /\ io = "arrived" /\ d \in dcid /\ SenderFree
  /\ connections[d] # None
  /\ io' = "found" /\ dcid' = {} /\ ioOn' = connections[d]
  /\ UNCHANGED <<mapVars, connVars, posted, loopVars, appOn>>

Unknown(d) ==
  /\ io = "arrived" /\ d \in dcid /\ SenderFree
  /\ connections[d] = None
  /\ Return
  /\ UNCHANGED <<mapVars, connVars, posted, loopVars, appOn>>

(* No other thread adds an entry after Find has found none, and nobody     *)
(* knows the new connection before Add.  Accept may fail: the identifier   *)
(* is used up.                                                             *)

(* QuicheConnection::Accept with quiche's success.                         *)
Accept(c) == life' = [life EXCEPT ![c] = "open"]

(* QuicheSender::Add.                                                      *)
Add(d, c) ==
  /\ connections' = [connections EXCEPT ![d] = c]
  /\ byId' = byId \cup {c}

(* Mutant: a null connection is not noticed.                               *)
CreateConnectionAnyway(d) ==
  /\ io = "arrived" /\ d \in dcid /\ SenderFree
  /\ connections[d] = None /\ next < MaxConns
  /\ next' = next + 1
  /\ io' = "found" /\ dcid' = {}
  /\ \/ /\ Accept(next + 1) /\ Add(d, next + 1)
        /\ ioOn' = next + 1
     \/ UNCHANGED <<connections, byId, life, ioOn>>
  /\ UNCHANGED <<http3, connected, timeout, goaway, posted, loopVars, appOn>>

CreateConnection(d) ==
  /\ io = "arrived" /\ d \in dcid /\ SenderFree
  /\ connections[d] = None /\ next < MaxConns
  /\ next' = next + 1
  /\ \/ /\ Accept(next + 1) /\ Add(d, next + 1)
        /\ io' = "found" /\ dcid' = {} /\ ioOn' = next + 1
     \/ /\ Return
        /\ UNCHANGED <<connections, byId, life>>
  /\ UNCHANGED <<http3, connected, timeout, goaway, posted, loopVars, appOn>>

(* quiche_timer_ has expired; its handler ignores a closed connection.     *)
Timer(d) ==
  /\ io = "idle" /\ connections[d] \notin timeout \cup {None}
  /\ io' = "found" /\ ioOn' = connections[d]
  /\ UNCHANGED <<mapVars, connVars, posted, dcid, loopVars, appOn>>

(* OnDatagram of the connection, or the timer's handler.  By now it may be *)
(* closed and removed.  The handler returns early, or goes on to           *)
(* FlushEgress.                                                            *)
Continue == io' = "ending" /\ UNCHANGED <<dcid, ioOn>>

(* quiche_conn_recv refuses the datagram, which may close the connection,  *)
(* or there is no HTTP/3 connection.                                       *)
Refused(c) ==
  /\ Return
  /\ \/ UNCHANGED life
     \/ life[c] = "open" /\ life' = [life EXCEPT ![c] = "closing"]
  /\ UNCHANGED <<http3, connected, timeout, goaway, posted>>

(* Nothing to tell the application.                                        *)
Absorbed(c) ==
  /\ Continue
  /\ UNCHANGED <<connVars, posted>>

Established(c) ==
  /\ life[c] = "open" /\ c \notin http3
  /\ http3' = http3 \cup {c}
  /\ Continue
  /\ UNCHANGED <<life, connected, timeout, goaway, posted>>

(* on_data.                                                                *)

(* Mutant: a connection is announced with each request.                    *)
RequestAnnounced(c) ==
  /\ life[c] = "open" /\ c \in http3
  /\ Post(Connect)
  /\ connected' = connected \cup {c}
  /\ io' = "announced" /\ UNCHANGED <<dcid, ioOn>>
  /\ UNCHANGED <<life, http3, timeout, goaway>>

Request(c) ==
  /\ life[c] = "open" /\ c \in http3
  /\ \/ /\ c \in connected
        /\ Post(Data(c))
        /\ Continue
        /\ UNCHANGED <<life, connected, goaway>>
     \/ /\ c \notin connected   \* authorized
        /\ Post(Connect)
        /\ connected' = connected \cup {c}
        /\ io' = "announced" /\ UNCHANGED <<dcid, ioOn>>
        /\ UNCHANGED <<life, goaway>>
     \/ /\ c \notin connected   \* not authorized
        /\ Close(c)
        /\ Continue
        /\ UNCHANGED <<posted, connected>>
  /\ UNCHANGED <<http3, timeout>>

(* CONNECTION_CLOSE, or GOAWAY, to which the code answers by closing.      *)
PeerCloses(c) ==
  /\ life[c] = "open"
  /\ life' = [life EXCEPT ![c] = "closing"]
  /\ Continue
  /\ UNCHANGED <<http3, connected, timeout, goaway, posted>>

(* quiche_conn_on_timeout.                                                 *)
DeadlinePasses(c) ==
  /\ life' = [life EXCEPT ![c] = "closed"]
  /\ Continue
  /\ UNCHANGED <<http3, connected, timeout, goaway, posted>>

OnDatagram ==
  /\ io = "found" /\ ConnFree(ioOn)
  /\ \/ Refused(ioOn) \/ Absorbed(ioOn) \/ Established(ioOn)
     \/ Request(ioOn) \/ PeerCloses(ioOn) \/ DeadlinePasses(ioOn)
  /\ UNCHANGED <<mapVars, loopVars, appOn>>

(* The second post of on_data.                                             *)
PostData ==
  /\ io = "announced" /\ io' = "ending"
  /\ Post(Data(ioOn))
  /\ UNCHANGED <<mapVars, connVars, dcid, ioOn, loopVars, appOn>>

EndDatagram ==
  /\ io = "ending" /\ Return
  /\ TickTimeout(ioOn)
  /\ UNCHANGED <<mapVars, http3, connected, goaway, loopVars, appOn>>

-----------------------------------------------------------------------------
(* The sender's thread: QuicheSender::Loop.                                *)

Wake ==
  /\ loop = "asleep" /\ loop' = "walking"
  /\ todo' = {d \in Dcids : connections[d] # None}
  /\ UNCHANGED <<mapVars, connVars, posted, ioVars, appOn>>

(* A closed connection leaves both maps.  Its identifier is read through a *)
(* reference into the entry that was just erased: what it yields is        *)
(* undefined, and the entry in connections_by_id_ may stay.                *)

(* Mutant: the loop does not ask IsClosed, and removes live connections.   *)
RemoveAny(d) ==
  /\ byId' \in {byId, byId \ {connections[d]}}
  /\ connections' = [connections EXCEPT ![d] = None]
  /\ UNCHANGED <<next, life, timeout, posted>>

Remove(d) ==
  /\ connections[d] \in timeout
  /\ connections' = [connections EXCEPT ![d] = None]
  /\ byId' \in {byId, byId \ {connections[d]}}
  /\ UNCHANGED <<next, life, timeout, posted>>

FlushEgress(d) ==
  /\ connections[d] \notin timeout /\ ConnFree(connections[d])
  /\ TickTimeout(connections[d])
  /\ UNCHANGED mapVars

Visit(d) ==
  /\ loop = "walking" /\ d \in todo
  /\ todo' = todo \ {d}
  /\ Remove(d) \/ FlushEgress(d)
  /\ UNCHANGED <<http3, connected, goaway, ioVars, loop, appOn>>

Sleep ==
  /\ loop = "walking" /\ todo = {} /\ loop' = "asleep"
  /\ UNCHANGED <<mapVars, connVars, posted, ioVars, todo, appOn>>

-----------------------------------------------------------------------------
(* The application: Respond and Close, which find a connection, or not,    *)
(* and then take its mutex.                                                *)

FindById(c) ==
  /\ appOn = None /\ SenderFree
  /\ c \in byId
  /\ appOn' = c
  /\ UNCHANGED <<mapVars, connVars, posted, ioVars, loopVars>>

(* SendBody flushes at its end.  A closed connection is left as it is.     *)
SendResponse ==
  /\ appOn # None /\ ConnFree(appOn)
  /\ TickTimeout(appOn)
  /\ appOn' = None
  /\ UNCHANGED <<mapVars, http3, connected, goaway, ioVars, loopVars>>

CloseConnection ==
  /\ appOn # None /\ ConnFree(appOn)
  /\ Close(appOn)
  /\ appOn' = None
  /\ UNCHANGED <<mapVars, http3, connected, timeout, posted, ioVars, loopVars>>

-----------------------------------------------------------------------------
InOnDatagram ==
  \/ \E d \in Dcids : Find(d) \/ Unknown(d) \/ CreateConnection(d)
  \/ OnDatagram \/ PostData \/ EndDatagram

Next ==
  \/ \E d \in Dcids : Datagram(d) \/ Timer(d) \/ Visit(d)
  \/ InOnDatagram
  \/ Wake \/ Sleep
  \/ \E c \in Connections : FindById(c)
  \/ SendResponse \/ CloseConnection

Spec == Init /\ [][Next]_vars

(* The peer of a connection that closes, or that was told to go away,      *)
(* closes too or is silent: quiche's deadline passes.                      *)
Expires ==
  \E d \in Dcids :
    /\ connections[d] # None /\ life[connections[d]] # "closed"
    /\ life[connections[d]] = "closing" \/ connections[d] \in goaway
    /\ Visit(d)
    /\ life'[connections[d]] = "closed"

(* The io thread and the sender's get the mutexes they wait for.  Nothing  *)
(* is asked of the application.                                            *)
FairSpec ==
  /\ Spec
  /\ WF_vars(Wake) /\ WF_vars(Sleep)
  /\ SF_vars(InOnDatagram) /\ SF_vars(\E d \in Dcids : Visit(d))
  /\ SF_vars(Expires)

-----------------------------------------------------------------------------
Registered == {connections[d] : d \in Dcids} \ {None}

(* The two maps agree on live connections: each entry of connections_ is   *)
(* of a connection of its own that Respond and Close find, and an          *)
(* identifier that leads elsewhere leads to a closed connection, whatever  *)
(* the read through the erased entry yields.                               *)
MapsAgree ==
  /\ Registered \subseteq byId
  /\ \A c \in byId : c \in Registered \/ c \in timeout
  /\ \A d, e \in Dcids : connections[d] = connections[e] /\ connections[d] # None => d = e

(* A connection that is closing, closed or was told to go away is noticed  *)
(* and removed, although three threads take each other's mutexes.          *)
CloseIsDone ==
  \A c \in Connections :
    (c \in goaway \/ life[c] \in {"closing", "closed"}) ~> c \notin Registered

(* The mailbox gets, for each connection, its events in order.             *)
Stage ==
  [c \in Connections |->
     IF c \in timeout THEN "over" ELSE IF c \in connected THEN "connected" ELSE "new"]

Announced == IF io = "announced" THEN {ioOn} ELSE {}

Events == INSTANCE ServerEvents WITH stage <- Stage, announced <- Announced

ImplementsEvents == Events!Spec
=============================================================================
