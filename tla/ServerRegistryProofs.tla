------------------------- MODULE ServerRegistryProofs -------------------------
(***************************************************************************)
(* What holds of ServerRegistry for any connection ids and any number of   *)
(* connections.                                                            *)
(***************************************************************************)
EXTENDS ServerRegistry, TLAPS

(* The walk has come from a map that nobody else changes meanwhile.        *)
Walk == \A d \in todo : connections[d] # None

(* timeout_ is set for connections that quiche has closed, and not while   *)
(* on_data is between its two posts, with the connection's mutex.          *)
Noticed ==
  /\ \A c \in timeout : life[c] = "closed"
  /\ io = "announced" => ioOn \in connected \ timeout

IInv == TypeOK /\ MapsAgree /\ Walk /\ Noticed

-----------------------------------------------------------------------------
LEMMA InvInit == Init => IInv
<1> SUFFICES ASSUME Init PROVE IInv OBVIOUS
<1> USE ServerRegistryAssumption DEF Init, None
<1>1. TypeOK
  BY DEF TypeOK, Connections, Life, Event, Nothing, Place
<1>2. Registered = {} BY DEF Registered
<1>3. MapsAgree BY <1>2 DEF MapsAgree
<1>4. Walk /\ Noticed BY DEF Walk, Noticed
<1> QED BY <1>1, <1>3, <1>4 DEF IInv

(* TickTimeout closes one connection at most, and notices only closed ones.*)
LEMMA Ticks ==
  ASSUME IInv, NEW c \in 1..next, TickTimeout(c)
  PROVE  /\ life' \in [Connections -> Life]
         /\ \A k \in Connections : life'[k] # "none" => k <= next
         /\ timeout \in SUBSET timeout' /\ timeout' \in SUBSET (timeout \cup {c})
         /\ timeout' \in SUBSET Connections
         /\ posted' \in Event
         /\ \A k \in timeout' : life'[k] = "closed"
<1>1. /\ c \in Connections /\ next \in 0..MaxConns
      /\ life \in [Connections -> Life]
      /\ \A k \in Connections : life[k] # "none" => k <= next
      /\ timeout \in SUBSET Connections /\ posted \in Event
      /\ \A k \in timeout : life[k] = "closed"
  BY ServerRegistryAssumption DEF IInv, TypeOK, Noticed, Connections
<1>2. CASE life[c] = "closed" /\ c \notin timeout /\ Post(Timeout(c))
           /\ timeout' = timeout \cup {c} /\ UNCHANGED life
  <2>1. posted' \in Event BY <1>1, <1>2 DEF Post, Timeout, Event
  <2> QED BY <1>1, <1>2, <2>1
<1>3. CASE life[c] = "closed" /\ c \in timeout /\ UNCHANGED <<life, timeout, posted>>
  BY <1>1, <1>3
<1>4. CASE life[c] # "closed" /\ life' \in {life, [life EXCEPT ![c] = "closed"]}
           /\ UNCHANGED <<timeout, posted>>
  <2>1. CASE life' = life BY <1>1, <1>4, <2>1
  <2>2. CASE life' = [life EXCEPT ![c] = "closed"]
    <3>1. life' \in [Connections -> Life] BY <1>1, <2>2 DEF Life
    <3>2. \A k \in Connections : life'[k] = IF k = c THEN "closed" ELSE life[k]
      BY <1>1, <2>2
    <3>3. c <= next BY <1>1
    <3> QED BY <1>1, <1>4, <3>1, <3>2, <3>3
  <2> QED BY <1>4, <2>1, <2>2
<1> QED BY <1>2, <1>3, <1>4 DEF TickTimeout

(* Close, and what else changes the life of one connection that is not     *)
(* closed.                                                                 *)
LEMMA LifeStep ==
  ASSUME IInv, NEW c \in 1..next, NEW new \in Life,
         life' = [life EXCEPT ![c] = new],
         life[c] = "closed" => new = "closed"
  PROVE  /\ life' \in [Connections -> Life]
         /\ \A k \in Connections : life'[k] # "none" => k <= next
         /\ \A k \in timeout : life'[k] = "closed"
<1>1. /\ c \in Connections /\ c <= next /\ next \in 0..MaxConns
      /\ life \in [Connections -> Life]
      /\ \A k \in Connections : life[k] # "none" => k <= next
      /\ timeout \in SUBSET Connections
      /\ \A k \in timeout : life[k] = "closed"
  BY ServerRegistryAssumption DEF IInv, TypeOK, Noticed, Connections
<1>2. life' \in [Connections -> Life] BY <1>1
<1>3. \A k \in Connections : life'[k] = IF k = c THEN new ELSE life[k] BY <1>1
<1> QED BY <1>1, <1>2, <1>3

LEMMA Closes ==
  ASSUME IInv, NEW c \in 1..next, Close(c)
  PROVE  /\ life' \in [Connections -> Life]
         /\ \A k \in Connections : life'[k] # "none" => k <= next
         /\ \A k \in timeout : life'[k] = "closed"
         /\ goaway' \in SUBSET http3
<1>1. /\ life \in [Connections -> Life] /\ goaway \in SUBSET http3
      /\ \A k \in Connections : life[k] # "none" => k <= next
      /\ \A k \in timeout : life[k] = "closed"
  BY DEF IInv, TypeOK, Noticed
<1>2. CASE UNCHANGED life /\ goaway' \in {goaway, goaway \cup {c}} /\ (goaway' = goaway \/ c \in http3)
  BY <1>1, <1>2
<1>3. CASE /\ life' \in {[life EXCEPT ![c] = IF @ = "closed" THEN @ ELSE new] :
                           new \in {"closing", "closed"}}
           /\ UNCHANGED goaway
  <2>1. PICK new \in {"closing", "closed"} :
          life' = [life EXCEPT ![c] = IF @ = "closed" THEN @ ELSE new]
    BY <1>3
  <2> DEFINE it == IF life[c] = "closed" THEN "closed" ELSE new
  <2>2. life' = [life EXCEPT ![c] = it] BY <2>1
  <2>3. it \in Life /\ (life[c] = "closed" => it = "closed") BY DEF Life
  <2> HIDE DEF it
  <2> QED BY <1>1, <1>3, <2>2, <2>3, LifeStep
<1> QED BY <1>2, <1>3 DEF Close

(* The maps are compared again only when they change.                      *)
LEMMA MapsStep ==
  ASSUME IInv, UNCHANGED mapVars, timeout \in SUBSET timeout'
  PROVE  MapsAgree'
BY DEF IInv, MapsAgree, Registered, mapVars

-----------------------------------------------------------------------------
(* The actions, one lemma for each group.                                  *)

(* Those that only move a thread.                                          *)
LEMMA MovesKeep ==
  ASSUME IInv, UNCHANGED <<mapVars, connVars, posted>>, TypeOK', Walk',
         io' # "announced" \/ UNCHANGED <<io, ioOn>>
  PROVE  IInv'
<1>1. MapsAgree' BY MapsStep DEF connVars
<1>2. Noticed' BY DEF IInv, Noticed, connVars
<1> QED BY <1>1, <1>2 DEF IInv

LEMMA FindsKeep ==
  ASSUME IInv, NEW d \in Dcids, Datagram(d) \/ Find(d) \/ Unknown(d) \/ Timer(d)
  PROVE  IInv'
<1>1. UNCHANGED <<mapVars, connVars, posted, loopVars, appOn>> /\ io' # "announced"
  BY DEF Datagram, Find, Unknown, Timer, Return
<1>2. TypeOK'
  <2>1. connections[d] \in 0..next BY DEF IInv, TypeOK
  <2> USE DEF IInv, TypeOK, mapVars, connVars, loopVars, Place, None
  <2>2. CASE Datagram(d) BY <1>1, <2>2 DEF Datagram
  <2>3. CASE Find(d) BY <1>1, <2>1, <2>3 DEF Find
  <2>4. CASE Unknown(d) BY <1>1, <2>4 DEF Unknown, Return
  <2>5. CASE Timer(d) BY <1>1, <2>1, <2>5 DEF Timer
  <2> QED BY <2>2, <2>3, <2>4, <2>5
<1>3. Walk' BY <1>1 DEF IInv, Walk, loopVars, mapVars
<1> QED BY <1>1, <1>2, <1>3, MovesKeep

LEMMA CreationKeeps ==
  ASSUME IInv, NEW d \in Dcids, CreateConnection(d)
  PROVE  IInv'
<1> USE ServerRegistryAssumption DEF CreateConnection, Accept, Add, None
<1>1. /\ next \in 0..MaxConns /\ next' = next + 1 /\ next' \in 0..MaxConns
      /\ next' \in Connections
      /\ connections \in [Dcids -> 0..next] /\ byId \in SUBSET (1..next)
      /\ life \in [Connections -> Life] /\ timeout \in SUBSET Connections
      /\ \A c \in Connections : life[c] # "none" => c <= next
  BY DEF IInv, TypeOK, Connections
<1>2. CASE Return /\ UNCHANGED <<connections, byId, life>>
  <2>1. TypeOK' BY <1>1, <1>2 DEF IInv, TypeOK, Return, Place, loopVars
  <2>2. MapsAgree' BY <1>2 DEF IInv, MapsAgree, Registered
  <2>3. Walk' /\ Noticed' BY <1>2 DEF IInv, Walk, Noticed, Return, loopVars
  <2> QED BY <2>1, <2>2, <2>3 DEF IInv
<1>3. CASE /\ Accept(next + 1) /\ Add(d, next + 1)
           /\ io' = "found" /\ dcid' = {} /\ ioOn' = next + 1
  <2>1. connections' \in [Dcids -> 0..next'] /\ byId' \in SUBSET (1..next')
    BY <1>1, <1>3
  <2>2. /\ life' \in [Connections -> Life]
        /\ \A c \in Connections : life'[c] = IF c = next + 1 THEN "open" ELSE life[c]
    BY <1>1, <1>3 DEF Life
  <2>3. \A c \in Connections : life'[c] # "none" => c <= next'
    <3> SUFFICES ASSUME NEW c \in Connections, life'[c] # "none" PROVE c <= next'
      OBVIOUS
    <3>1. c \in Nat BY DEF Connections
    <3> QED BY <1>1, <2>2, <3>1
  <2>4. TypeOK' BY <1>1, <1>3, <2>1, <2>2, <2>3 DEF IInv, TypeOK, Place, loopVars
  <2>5. \A e \in Dcids : connections'[e] = IF e = d THEN next + 1 ELSE connections[e]
    BY <1>1, <1>3
  <2>6. \A e \in Dcids : connections[e] # next + 1 BY <1>1
  <2>7. MapsAgree'
    <3>1. Registered' = Registered \cup {next + 1}
      BY <1>1, <2>5 DEF Registered
    <3>2. Registered' \subseteq byId' BY <1>3, <3>1 DEF IInv, MapsAgree
    <3>3. \A c \in byId' : c \in Registered' \/ c \in timeout'
      BY <1>3, <3>1 DEF IInv, MapsAgree
    <3>4. \A e, f \in Dcids : connections'[e] = connections'[f] /\ connections'[e] # None => e = f
      BY <2>5, <2>6 DEF IInv, MapsAgree
    <3> QED BY <3>2, <3>3, <3>4 DEF MapsAgree
  <2>8. Walk' BY <1>1, <2>5 DEF IInv, TypeOK, Walk, loopVars
  <2>9. Noticed'
    <3>1. \A c \in timeout : life[c] = "closed" BY DEF IInv, Noticed
    <3>2. \A c \in timeout : c <= next BY <1>1, <3>1
    <3>3. next + 1 \notin timeout BY <1>1, <3>2
    <3> QED BY <1>1, <1>3, <2>2, <3>1, <3>3 DEF Noticed
  <2> QED BY <2>4, <2>7, <2>8, <2>9 DEF IInv
<1> QED BY <1>2, <1>3

LEMMA WalksKeep ==
  ASSUME IInv, Wake \/ Sleep \/ \E c \in Connections : FindById(c)
  PROVE  IInv'
<1>1. UNCHANGED <<mapVars, connVars, posted, ioVars>>
  BY DEF Wake, Sleep, FindById
<1>2. UNCHANGED <<io, ioOn>> BY <1>1 DEF ioVars
<1>3. TypeOK'
  <2> USE DEF IInv, TypeOK, mapVars, connVars, ioVars
  <2>1. CASE Wake BY <1>1, <2>1 DEF Wake
  <2>2. CASE Sleep BY <1>1, <2>2 DEF Sleep
  <2>3. ASSUME NEW c \in Connections, FindById(c) PROVE TypeOK'
    <3>1. c \in 0..next BY <2>3 DEF FindById
    <3> QED BY <1>1, <2>3, <3>1 DEF FindById, loopVars
  <2> QED BY <2>1, <2>2, <2>3
<1>4. Walk'
  <2>1. CASE Wake BY <1>1, <2>1 DEF Wake, Walk, mapVars
  <2>2. CASE Sleep \/ \E c \in Connections : FindById(c)
    BY <1>1, <2>2 DEF IInv, Walk, Sleep, FindById, mapVars, loopVars
  <2> QED BY <2>1, <2>2
<1> QED BY <1>1, <1>2, <1>3, <1>4, MovesKeep

(* A handler that holds the mutex of its connection.                       *)
LEMMA HandlerKeeps ==
  ASSUME IInv, io \in {"found", "announced", "ending"},
         UNCHANGED <<mapVars, loopVars, appOn>>,
         life' \in [Connections -> Life],
         \A k \in Connections : life'[k] # "none" => k <= next,
         \A k \in timeout' : life'[k] = "closed",
         timeout \in SUBSET timeout', timeout' \in SUBSET Connections,
         http3' \in SUBSET Connections,
         connected' \in SUBSET http3', goaway' \in SUBSET http3',
         posted' \in Event,
         \/ Return
         \/ io' = "ending" /\ UNCHANGED <<dcid, ioOn>>
         \/ /\ io' = "announced" /\ UNCHANGED <<dcid, ioOn>>
            /\ ioOn \in connected' \ timeout'
  PROVE  IInv'
<1>1. io' \in Place /\ dcid' = {} /\ ioOn' \in 0..next'
      /\ io' # "arrived" /\ (io' \in {"found", "announced", "ending"} <=> ioOn' # None)
  <2> USE DEF IInv, TypeOK, Place, mapVars, None
  <2>1. dcid = {} /\ ioOn # None /\ ioOn \in 0..next OBVIOUS
  <2>2. CASE Return BY <2>1, <2>2 DEF Return
  <2>3. CASE io' \in {"ending", "announced"} /\ UNCHANGED <<dcid, ioOn>>
    BY <2>1, <2>3
  <2> QED BY <2>2, <2>3
<1>2. TypeOK' BY <1>1 DEF IInv, TypeOK, mapVars, loopVars
<1>3. MapsAgree' BY MapsStep
<1>4. Walk' BY DEF IInv, Walk, mapVars, loopVars
<1>5. Noticed' BY DEF Noticed, Return
<1> QED BY <1>2, <1>3, <1>4, <1>5 DEF IInv

LEMMA OnDatagramKeeps == IInv /\ OnDatagram => IInv'
<1> SUFFICES ASSUME IInv, OnDatagram PROVE IInv' OBVIOUS
<1> DEFINE c == ioOn
<1>1. /\ io = "found" /\ UNCHANGED <<mapVars, loopVars, appOn>>
      /\ \/ Refused(c) \/ Absorbed(c) \/ Established(c)
         \/ Request(c) \/ PeerCloses(c) \/ DeadlinePasses(c)
  BY DEF OnDatagram
<1>2. c \in 1..next
  BY <1>1, ServerRegistryAssumption DEF IInv, TypeOK, None
<1>3. c \in Connections BY <1>2, ServerRegistryAssumption DEF IInv, TypeOK, Connections
<1>4. /\ life \in [Connections -> Life]
      /\ \A k \in Connections : life[k] # "none" => k <= next
      /\ \A k \in timeout : life[k] = "closed"
      /\ timeout \in SUBSET timeout /\ timeout \in SUBSET Connections
      /\ http3 \in SUBSET Connections /\ connected \in SUBSET http3
      /\ goaway \in SUBSET http3 /\ posted \in Event
  BY DEF IInv, TypeOK, Noticed
<1> HIDE DEF c
<1>5. CASE Refused(c)
  <2>1. /\ Return /\ UNCHANGED <<http3, connected, timeout, goaway, posted>>
    BY <1>5 DEF Refused
  <2>2. CASE UNCHANGED life BY <1>1, <1>4, <2>1, <2>2, HandlerKeeps
  <2>3. CASE life[c] = "open" /\ life' = [life EXCEPT ![c] = "closing"]
    <3>1. /\ life' \in [Connections -> Life]
          /\ \A k \in Connections : life'[k] # "none" => k <= next
          /\ \A k \in timeout : life'[k] = "closed"
      BY <1>2, <2>3, LifeStep DEF Life
    <3> QED BY <1>1, <1>4, <2>1, <3>1, HandlerKeeps
  <2> QED BY <1>5, <2>2, <2>3 DEF Refused
<1>6. CASE Absorbed(c)
  BY <1>1, <1>4, <1>6, HandlerKeeps DEF Absorbed, Continue, connVars
<1>7. CASE Established(c)
  <2>1. http3' \in SUBSET Connections /\ connected \in SUBSET http3'
        /\ goaway \in SUBSET http3'
    BY <1>3, <1>4, <1>7 DEF Established
  <2> QED BY <1>1, <1>4, <1>7, <2>1, HandlerKeeps DEF Established, Continue
<1>8. CASE Request(c)
  <2>1. life[c] = "open" /\ c \in http3 /\ UNCHANGED <<http3, timeout>>
    BY <1>8 DEF Request
  <2>2. CASE Post(Data(c)) /\ Continue /\ UNCHANGED <<life, connected, goaway>>
    <3>1. posted' \in Event BY <1>3, <2>2 DEF Post, Data, Event
    <3> QED BY <1>1, <1>4, <2>1, <2>2, <3>1, HandlerKeeps DEF Continue
  <2>3. CASE /\ Post(Connect) /\ connected' = connected \cup {c}
             /\ io' = "announced" /\ UNCHANGED <<dcid, ioOn>>
             /\ UNCHANGED <<life, goaway>>
    <3>1. posted' \in Event BY <2>3 DEF Post, Event
    <3>2. connected' \in SUBSET http3' BY <1>4, <2>1, <2>3
    <3>3. c \in connected' \ timeout' BY <1>4, <2>1, <2>3
    <3>4. ioOn \in connected' \ timeout' BY <3>3 DEF c
    <3> QED BY <1>1, <1>4, <2>1, <2>3, <3>1, <3>2, <3>4, HandlerKeeps
  <2>4. CASE Close(c) /\ Continue /\ UNCHANGED <<posted, connected>>
    <3>1. /\ life' \in [Connections -> Life]
          /\ \A k \in Connections : life'[k] # "none" => k <= next
          /\ \A k \in timeout : life'[k] = "closed"
          /\ goaway' \in SUBSET http3
      BY <1>2, <2>4, Closes
    <3> QED BY <1>1, <1>4, <2>1, <2>4, <3>1, HandlerKeeps DEF Continue
  <2> QED BY <1>8, <2>2, <2>3, <2>4 DEF Request
<1>9. CASE PeerCloses(c) \/ DeadlinePasses(c)
  <2>1. PICK new \in {"closing", "closed"} :
          life' = [life EXCEPT ![c] = new] /\ (life[c] = "closed" => new = "closed")
    BY <1>9 DEF PeerCloses, DeadlinePasses
  <2>2. new \in Life BY DEF Life
  <2>3. /\ life' \in [Connections -> Life]
        /\ \A k \in Connections : life'[k] # "none" => k <= next
        /\ \A k \in timeout : life'[k] = "closed"
    BY <1>2, <2>1, <2>2, LifeStep
  <2>4. Continue /\ UNCHANGED <<http3, connected, timeout, goaway, posted>>
    BY <1>9 DEF PeerCloses, DeadlinePasses
  <2> QED BY <1>1, <1>4, <2>3, <2>4, HandlerKeeps DEF Continue
<1> QED BY <1>1, <1>5, <1>6, <1>7, <1>8, <1>9

LEMMA EndsKeep == IInv /\ (PostData \/ EndDatagram) => IInv'
<1> SUFFICES ASSUME IInv, PostData \/ EndDatagram PROVE IInv' OBVIOUS
<1>1. /\ io \in {"announced", "ending"}
      /\ UNCHANGED <<mapVars, http3, connected, goaway, loopVars, appOn>>
  BY DEF PostData, EndDatagram, connVars
<1>2. ioOn \in 1..next /\ ioOn \in Connections
  BY <1>1, ServerRegistryAssumption DEF IInv, TypeOK, None, Connections
<1>3. /\ life \in [Connections -> Life]
      /\ \A k \in Connections : life[k] # "none" => k <= next
      /\ \A k \in timeout : life[k] = "closed"
      /\ timeout \in SUBSET timeout /\ timeout \in SUBSET Connections
      /\ http3 \in SUBSET Connections /\ connected \in SUBSET http3
      /\ goaway \in SUBSET http3 /\ posted \in Event
  BY DEF IInv, TypeOK, Noticed
<1>4. CASE PostData
  <2>1. posted' \in Event BY <1>2, <1>4 DEF PostData, Post, Data, Event
  <2> QED BY <1>1, <1>3, <1>4, <2>1, HandlerKeeps DEF PostData, connVars
<1>5. CASE EndDatagram
  <2>1. TickTimeout(ioOn) /\ Return BY <1>5 DEF EndDatagram
  <2>2. /\ life' \in [Connections -> Life]
        /\ \A k \in Connections : life'[k] # "none" => k <= next
        /\ timeout \in SUBSET timeout' /\ timeout' \in SUBSET Connections
        /\ posted' \in Event
        /\ \A k \in timeout' : life'[k] = "closed"
    BY <1>2, <2>1, Ticks
  <2> QED BY <1>1, <1>3, <2>1, <2>2, HandlerKeeps
<1> QED BY <1>4, <1>5

(* The sender and the application, which wait for a connection's mutex.    *)
LEMMA OthersKeep ==
  ASSUME IInv, UNCHANGED <<mapVars, http3, connected, ioVars, loop>>,
         todo' \in SUBSET todo, appOn' \in 0..next,
         life' \in [Connections -> Life],
         \A k \in Connections : life'[k] # "none" => k <= next,
         \A k \in timeout' : life'[k] = "closed",
         timeout \in SUBSET timeout', timeout' \in SUBSET Connections,
         goaway' \in SUBSET http3, posted' \in Event,
         io = "announced" => ioOn \notin timeout' \ timeout
  PROVE  IInv'
<1>1. TypeOK' BY DEF IInv, TypeOK, mapVars, ioVars
<1>2. MapsAgree' BY MapsStep
<1>3. Walk' BY DEF IInv, Walk, mapVars
<1>4. Noticed' BY DEF IInv, Noticed, ioVars
<1> QED BY <1>1, <1>2, <1>3, <1>4 DEF IInv

LEMMA RemoveKeeps ==
  ASSUME IInv, NEW d \in Dcids, Visit(d), Remove(d)
  PROVE  IInv'
<1> USE DEF Visit, Remove
<1>1. /\ connections' = [connections EXCEPT ![d] = None]
      /\ byId' \in {byId, byId \ {connections[d]}}
      /\ connections[d] \in timeout
      /\ todo' = todo \ {d}
      /\ UNCHANGED <<next, connVars, posted, ioVars, loop, appOn>>
  BY DEF connVars
<1>2. /\ connections \in [Dcids -> 0..next] /\ byId \in SUBSET (1..next)
      /\ next \in 0..MaxConns /\ timeout \in SUBSET Connections
  BY DEF IInv, TypeOK
<1>3. \A e \in Dcids : connections'[e] = IF e = d THEN None ELSE connections[e]
  BY <1>1, <1>2
<1>4. TypeOK'
  <2>1. connections' \in [Dcids -> 0..next] BY <1>1, <1>2, ServerRegistryAssumption DEF None
  <2>2. byId' \in SUBSET (1..next) BY <1>1, <1>2
  <2> QED BY <1>1, <2>1, <2>2 DEF IInv, TypeOK, connVars, ioVars
<1>5. MapsAgree'
  <2>1. Registered' = Registered \ {connections[d]}
    BY <1>3 DEF IInv, MapsAgree, Registered
  <2>2. Registered' \subseteq byId' BY <1>1, <2>1 DEF IInv, MapsAgree
  <2>3. \A c \in byId' : c \in Registered' \/ c \in timeout'
    BY <1>1, <2>1 DEF IInv, MapsAgree, connVars
  <2>4. \A e, f \in Dcids :
          connections'[e] = connections'[f] /\ connections'[e] # None => e = f
    BY <1>3 DEF IInv, MapsAgree
  <2> QED BY <2>2, <2>3, <2>4 DEF MapsAgree
<1>6. Walk' BY <1>1, <1>2, <1>3 DEF IInv, TypeOK, Walk
<1>7. Noticed' BY <1>1 DEF IInv, Noticed, connVars, ioVars
<1> QED BY <1>4, <1>5, <1>6, <1>7 DEF IInv

LEMMA FlushKeeps ==
  ASSUME IInv, NEW c \in 1..next, ConnFree(c), TickTimeout(c),
         UNCHANGED <<mapVars, http3, connected, goaway, ioVars, loop>>,
         todo' \in SUBSET todo, appOn' \in 0..next
  PROVE  IInv'
<1>1. /\ life' \in [Connections -> Life]
      /\ \A k \in Connections : life'[k] # "none" => k <= next
      /\ timeout \in SUBSET timeout' /\ timeout' \in SUBSET (timeout \cup {c})
      /\ timeout' \in SUBSET Connections
      /\ posted' \in Event
      /\ \A k \in timeout' : life'[k] = "closed"
  BY Ticks
<1>2. goaway' \in SUBSET http3 BY DEF IInv, TypeOK
<1>3. io = "announced" => ioOn \notin timeout' \ timeout BY <1>1 DEF ConnFree
<1> QED BY <1>1, <1>2, <1>3, OthersKeep

LEMMA VisitKeeps ==
  ASSUME IInv, NEW d \in Dcids, Visit(d)
  PROVE  IInv'
<1>1. CASE Remove(d) BY <1>1, RemoveKeeps
<1>2. CASE FlushEgress(d)
  <2>1. connections[d] \in 1..next
    BY DEF IInv, TypeOK, Walk, Visit, None
  <2>2. appOn' \in 0..next BY DEF Visit, IInv, TypeOK
  <2> QED BY <1>2, <2>1, <2>2, FlushKeeps DEF FlushEgress, Visit
<1> QED BY <1>1, <1>2 DEF Visit

LEMMA CallsKeep == IInv /\ (SendResponse \/ CloseConnection) => IInv'
<1> SUFFICES ASSUME IInv, SendResponse \/ CloseConnection PROVE IInv' OBVIOUS
<1>1. /\ appOn \in 1..next /\ ConnFree(appOn) /\ appOn' \in 0..next
      /\ UNCHANGED <<mapVars, http3, connected, ioVars, loopVars>>
  BY ServerRegistryAssumption DEF SendResponse, CloseConnection, IInv, TypeOK, None
<1>2. UNCHANGED loop /\ todo' \in SUBSET todo BY <1>1 DEF loopVars
<1>3. CASE SendResponse
  BY <1>1, <1>2, <1>3, FlushKeeps DEF SendResponse
<1>4. CASE CloseConnection
  <2>1. Close(appOn) /\ UNCHANGED <<timeout, posted>> BY <1>4 DEF CloseConnection
  <2>2. /\ life' \in [Connections -> Life]
        /\ \A k \in Connections : life'[k] # "none" => k <= next
        /\ \A k \in timeout : life'[k] = "closed"
        /\ goaway' \in SUBSET http3
    BY <1>1, <2>1, Closes
  <2>3. timeout \in SUBSET Connections /\ posted \in Event BY DEF IInv, TypeOK
  <2> QED BY <1>1, <1>2, <2>1, <2>2, <2>3, OthersKeep
<1> QED BY <1>3, <1>4

LEMMA StutterKeeps == IInv /\ UNCHANGED vars => IInv'
BY DEF IInv, TypeOK, MapsAgree, Registered, Walk, Noticed, vars, mapVars, connVars,
       ioVars, loopVars

LEMMA InvNext == IInv /\ [Next]_vars => IInv'
BY FindsKeep, CreationKeeps, WalksKeep, OnDatagramKeeps, EndsKeep, VisitKeeps,
   CallsKeep, StutterKeeps
DEF Next, InOnDatagram

LEMMA Inductive == Spec => []IInv
BY InvInit, InvNext, PTL DEF Spec

-----------------------------------------------------------------------------
(* The events.                                                             *)

LEMMA InitImplements == Init => Events!Init
BY DEF Init, Events!Init, Stage, Announced, Nothing, None, Connections

LEMMA Silent ==
  ASSUME UNCHANGED <<timeout, connected, posted>>, Announced' = Announced
  PROVE  UNCHANGED Events!vars
BY DEF Events!vars, Stage

(* A connection's end is posted by whoever has its mutex.                  *)
LEMMA TickImplements ==
  ASSUME IInv, NEW c \in 1..next, TickTimeout(c), UNCHANGED connected,
         Announced' = Announced, c \notin Announced
  PROVE  Events!Next \/ UNCHANGED Events!vars
<1>1. c \in Connections
  BY ServerRegistryAssumption DEF IInv, TypeOK, Connections
<1>2. CASE UNCHANGED <<timeout, posted>> BY <1>2, Silent
<1>3. CASE c \notin timeout /\ Post(Timeout(c)) /\ timeout' = timeout \cup {c}
  <2>1. Stage[c] # "over" BY <1>1, <1>3 DEF Stage
  <2>2. Stage' = [Stage EXCEPT ![c] = "over"]
    BY <1>1, <1>3 DEF Stage
  <2>3. posted' = Events!Timeout(c) BY <1>3 DEF Post, Timeout, Events!Timeout
  <2>4. Events!End(c) BY <2>1, <2>2, <2>3 DEF Events!End
  <2> QED BY <1>1, <2>4 DEF Events!Next
<1> QED BY <1>2, <1>3 DEF TickTimeout

LEMMA RequestImplements ==
  ASSUME IInv, io = "found", NEW c \in Connections, c = ioOn, Request(c)
  PROVE  Events!Next \/ UNCHANGED Events!vars
<1>1. life[c] = "open" /\ UNCHANGED timeout /\ Announced = {}
  BY DEF Request, Announced
<1>2. c \notin timeout BY <1>1 DEF IInv, Noticed
<1>3. CASE c \in connected /\ Post(Data(c)) /\ Continue /\ UNCHANGED connected
  <2>1. Stage[c] = "connected" BY <1>2, <1>3 DEF Stage
  <2>2. Stage' = Stage BY <1>1, <1>3 DEF Stage
  <2>3. Announced' = {} BY <1>3 DEF Announced, Continue
  <2>4. posted' = Events!Data(c) BY <1>3 DEF Post, Data, Events!Data
  <2>5. Events!Request(c) BY <1>1, <2>1, <2>2, <2>3, <2>4 DEF Events!Request
  <2> QED BY <2>5 DEF Events!Next
<1>4. CASE /\ c \notin connected /\ Post(Connect)
           /\ connected' = connected \cup {c}
           /\ io' = "announced" /\ UNCHANGED <<dcid, ioOn>>
  <2>1. Stage[c] = "new" BY <1>2, <1>4 DEF Stage
  <2>2. Stage' = [Stage EXCEPT ![c] = "connected"] BY <1>1, <1>2, <1>4 DEF Stage
  <2>3. Announced' = {c} BY <1>4 DEF Announced
  <2>4. posted' = Events!Connect BY <1>4 DEF Post, Connect, None, Events!Connect
  <2>5. Events!Announce(c) BY <1>1, <2>1, <2>2, <2>3, <2>4 DEF Events!Announce
  <2> QED BY <2>5 DEF Events!Next
<1>5. CASE Continue /\ UNCHANGED <<posted, connected>>
  <2>1. Announced' = {} BY <1>5 DEF Announced, Continue
  <2> QED BY <1>1, <1>5, <2>1, Silent
<1> QED BY <1>3, <1>4, <1>5 DEF Request

LEMMA HandlersImplement ==
  IInv /\ (OnDatagram \/ PostData \/ EndDatagram)
    => Events!Next \/ UNCHANGED Events!vars
<1> SUFFICES ASSUME IInv, OnDatagram \/ PostData \/ EndDatagram
             PROVE  Events!Next \/ UNCHANGED Events!vars
  OBVIOUS
<1>1. io \in {"found", "announced", "ending"} BY DEF OnDatagram, PostData, EndDatagram
<1>2. ioOn \in 1..next /\ ioOn \in Connections
  BY <1>1, ServerRegistryAssumption DEF IInv, TypeOK, None, Connections
<1>3. CASE OnDatagram
  <2>1. io = "found" /\ Announced = {} BY <1>3 DEF OnDatagram, Announced
  <2>2. CASE Request(ioOn) BY <1>2, <2>1, <2>2, RequestImplements
  <2>3. CASE \/ Refused(ioOn) \/ Absorbed(ioOn) \/ Established(ioOn)
             \/ PeerCloses(ioOn) \/ DeadlinePasses(ioOn)
    <3>1. UNCHANGED <<timeout, connected, posted>> /\ io' # "announced"
      BY <2>3 DEF Refused, Absorbed, Established, PeerCloses, DeadlinePasses, connVars,
                  Return, Continue
    <3>2. Announced' = {} BY <3>1 DEF Announced
    <3> QED BY <2>1, <3>1, <3>2, Silent
  <2> QED BY <1>3, <2>2, <2>3 DEF OnDatagram
<1>4. CASE PostData
  <2>1. /\ io = "announced" /\ io' = "ending" /\ Post(Data(ioOn))
        /\ UNCHANGED <<timeout, connected>>
    BY <1>4 DEF PostData, connVars
  <2>2. ioOn \in connected \ timeout BY <2>1 DEF IInv, Noticed
  <2>3. Stage[ioOn] = "connected" BY <1>2, <2>2 DEF Stage
  <2>4. Stage' = Stage BY <2>1 DEF Stage
  <2>5. Announced = {ioOn} /\ Announced' = {} BY <2>1 DEF Announced
  <2>6. posted' = Events!Data(ioOn) BY <2>1 DEF Post, Data, Events!Data
  <2>7. Events!Request(ioOn) BY <2>3, <2>4, <2>5, <2>6 DEF Events!Request
  <2> QED BY <1>2, <2>7 DEF Events!Next
<1>5. CASE EndDatagram
  <2>1. TickTimeout(ioOn) /\ UNCHANGED connected /\ io = "ending" /\ io' = "idle"
    BY <1>5 DEF EndDatagram, Return
  <2>2. Announced = {} /\ Announced' = {} BY <2>1 DEF Announced
  <2> QED BY <1>2, <2>1, <2>2, TickImplements
<1> QED BY <1>3, <1>4, <1>5

LEMMA StepImplements ==
  IInv /\ [Next]_vars => Events!Next \/ UNCHANGED Events!vars
<1> SUFFICES ASSUME IInv, [Next]_vars
             PROVE  Events!Next \/ UNCHANGED Events!vars
  OBVIOUS
<1>1. ASSUME UNCHANGED <<timeout, connected, posted>>,
             \/ io # "announced" /\ io' # "announced"
             \/ UNCHANGED <<io, ioOn>>
      PROVE  UNCHANGED Events!vars
  <2>1. Announced' = Announced BY <1>1 DEF Announced
  <2> QED BY <1>1, <2>1, Silent
<1>2. ASSUME NEW d \in Dcids,
             Datagram(d) \/ Find(d) \/ Unknown(d) \/ CreateConnection(d) \/ Timer(d)
      PROVE  UNCHANGED Events!vars
  <2>1. /\ UNCHANGED <<timeout, connected, posted>>
        /\ io # "announced" /\ io' # "announced"
    BY <1>2 DEF Datagram, Find, Unknown, CreateConnection, Timer, Return, connVars
  <2> QED BY <1>1, <2>1
<1>3. CASE Wake \/ Sleep \/ \E c \in Connections : FindById(c)
  <2>1. UNCHANGED <<timeout, connected, posted, io, ioOn>>
    BY <1>3 DEF Wake, Sleep, FindById, connVars, ioVars
  <2> QED BY <1>1, <2>1
<1>4. CASE OnDatagram \/ PostData \/ EndDatagram
  BY <1>4, HandlersImplement
<1>5. ASSUME NEW c \in 1..next, ConnFree(c), TickTimeout(c), UNCHANGED <<connected, ioVars>>
      PROVE  Events!Next \/ UNCHANGED Events!vars
  <2>1. Announced' = Announced BY <1>5 DEF Announced, ioVars
  <2>2. c \notin Announced BY <1>5 DEF Announced, ConnFree
  <2> QED BY <1>5, <2>1, <2>2, TickImplements
<1>6. ASSUME NEW d \in Dcids, Visit(d)
      PROVE  Events!Next \/ UNCHANGED Events!vars
  <2>1. UNCHANGED <<connected, ioVars>> BY <1>6 DEF Visit
  <2>2. CASE Remove(d)
    <3>1. UNCHANGED <<timeout, connected, posted, io, ioOn>>
      BY <2>1, <2>2 DEF Remove, ioVars
    <3> QED BY <1>1, <3>1
  <2>3. CASE FlushEgress(d)
    <3>1. connections[d] \in 1..next BY <1>6 DEF IInv, TypeOK, Walk, Visit, None
    <3> QED BY <1>5, <2>1, <2>3, <3>1 DEF FlushEgress
  <2> QED BY <1>6, <2>2, <2>3 DEF Visit
<1>7. CASE SendResponse
  <2>1. appOn \in 1..next
    BY <1>7, ServerRegistryAssumption DEF SendResponse, IInv, TypeOK, None
  <2> QED BY <1>5, <1>7, <2>1 DEF SendResponse
<1>8. CASE CloseConnection
  <2>1. UNCHANGED <<timeout, connected, posted, io, ioOn>>
    BY <1>8 DEF CloseConnection, ioVars
  <2> QED BY <1>1, <2>1
<1>9. CASE UNCHANGED vars
  <2>1. UNCHANGED <<timeout, connected, posted, io, ioOn>>
    BY <1>9 DEF vars, connVars, ioVars
  <2> QED BY <1>1, <2>1
<1> QED
  BY <1>2, <1>3, <1>4, <1>6, <1>7, <1>8, <1>9 DEF Next, InOnDatagram

-----------------------------------------------------------------------------
(* For any connection ids and any number of connections the registry keeps *)
(* its types: in particular no handler goes on with a null connection.     *)
THEOREM TypeCorrect == Spec => []TypeOK
BY Inductive, PTL DEF IInv

(* Whatever the read through an erased entry yields, the two maps agree on *)
(* live connections.                                                       *)
THEOREM MapsCorrect == Spec => []MapsAgree
BY Inductive, PTL DEF IInv

(* However three threads interleave, the mailbox gets each connection's    *)
(* events in order, and the Data that says whom a Connect was for follows  *)
(* it before any other Data.                                               *)
THEOREM EventsCorrect == Spec => ImplementsEvents
<1>1. IInv /\ [Next]_vars => [Events!Next]_Events!vars BY StepImplements
<1> QED BY InitImplements, Inductive, <1>1, PTL DEF Spec, ImplementsEvents, Events!Spec
=============================================================================
