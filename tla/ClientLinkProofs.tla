--------------------------- MODULE ClientLinkProofs ---------------------------
(***************************************************************************)
(* What holds of ClientLink for any bound on attempts and responses.       *)
(***************************************************************************)
EXTENDS ClientLink, SequenceTheorems, TLAPS

(* Nothing is connected before the resolver has answered.                  *)
Started ==
  /\ ~resolved => io = "idle" /\ made = 0
  /\ io = "added" => made = 0
  /\ retryArmed \/ timerSet => made > 0

(* A connection that was trusted has its HTTP/3 layer, and a datagram that *)
(* waits for the mutex of a connection found closed will find it closed.   *)
Trust ==
  /\ connected => http3 # NoConn
  /\ timeout => closed
  /\ timeout /\ io = "datagram" => life = "closed"

IInv == TypeOK /\ Started /\ Http3IsCurrent /\ Trust /\ EventOrder

-----------------------------------------------------------------------------
(* Sequences of events in order.                                           *)

LEMMA NothingHeard ==
  ASSUME NEW h \in Seq(Event), InOrder(h, FALSE, FALSE)
  PROVE  h = <<>>
BY DEF InOrder, Event

LEMMA ConnectHeard ==
  InOrder(<<>> \o <<"Connect">>, TRUE, FALSE)
BY DEF InOrder

LEMMA DataHeard ==
  ASSUME NEW h \in Seq(Event), InOrder(h, TRUE, FALSE)
  PROVE  InOrder(h \o <<"Data">>, TRUE, FALSE)
<1>1. Len(h) \in Nat /\ Len(h) > 0 BY DEF InOrder
<1>2. Len(h \o <<"Data">>) = Len(h) + 1 OBVIOUS
<1>3. \A i \in 1..Len(h) : (h \o <<"Data">>)[i] = h[i] OBVIOUS
<1>4. (h \o <<"Data">>)[Len(h) + 1] = "Data" OBVIOUS
<1>5. DOMAIN (h \o <<"Data">>) = 1..(Len(h) + 1) OBVIOUS
<1> QED BY <1>1, <1>2, <1>3, <1>4, <1>5 DEF InOrder

LEMMA TimeoutHeard ==
  ASSUME NEW h \in Seq(Event), NEW c \in BOOLEAN, InOrder(h, c, FALSE)
  PROVE  InOrder(Append(h, "Timeout"), c, TRUE)
<1>1. Len(h) \in Nat OBVIOUS
<1>2. Len(Append(h, "Timeout")) = Len(h) + 1 OBVIOUS
<1>3. \A i \in 1..Len(h) : Append(h, "Timeout")[i] = h[i] OBVIOUS
<1>4. Append(h, "Timeout")[Len(h) + 1] = "Timeout" OBVIOUS
<1>5. DOMAIN Append(h, "Timeout") = 1..(Len(h) + 1) OBVIOUS
<1>6. c => Len(h) > 0 BY DEF InOrder
<1>7. \A i \in 1..Len(h) : h[i] # "Timeout" BY DEF InOrder
<1> QED BY <1>1, <1>2, <1>3, <1>4, <1>5, <1>6, <1>7 DEF InOrder

(* FlushEgress notices a closed connection, once, and posts it last.       *)
LEMMA FlushKeepsOrder ==
  ASSUME NEW now \in Life, NEW posted \in Seq(Event), NEW c \in BOOLEAN,
         timeout \in BOOLEAN, timerSet \in BOOLEAN, closed \in BOOLEAN,
         log \in Seq(Event), timeout => closed,
         InOrder(log \o posted, c, timeout),
         FlushEgress(now, posted)
  PROVE  /\ timeout' \in BOOLEAN /\ timerSet' \in BOOLEAN /\ closed' \in BOOLEAN
         /\ life' \in Life /\ events' \in Seq(Event)
         /\ life' = now \/ life' = "closed"
         /\ closed => closed'
         /\ timeout' => closed'
         /\ timeout' => timeout \/ life' = "closed"
         /\ InOrder(log \o events', c, timeout')
<1>1. CASE now = "closed" /\ ~timeout /\ timeout' = TRUE /\ closed' = TRUE /\ life' = now
           /\ events' = Append(posted, "Timeout") /\ UNCHANGED timerSet
  <2>1. log \o posted \in Seq(Event) OBVIOUS
  <2>2. InOrder(Append(log \o posted, "Timeout"), c, TRUE)
    BY <2>1, <1>1, TimeoutHeard
  <2>3. log \o Append(posted, "Timeout") = Append(log \o posted, "Timeout")
    OBVIOUS
  <2>4. Append(posted, "Timeout") \in Seq(Event) BY DEF Event
  <2> QED BY <1>1, <2>2, <2>3, <2>4
<1>2. CASE /\ events' = posted /\ timeout' = timeout
           /\ timeout => closed'
           /\ closed => closed'
           /\ closed' \in BOOLEAN
           /\ timerSet' \in BOOLEAN /\ life' \in {now, "closed"}
  <2>1. InOrder(log \o events', c, timeout') BY <1>2, Zenon
  <2>2. life' \in Life BY <1>2 DEF Life
  <2>3. /\ timeout' \in BOOLEAN
        /\ timeout' => closed'
        /\ timeout' => timeout \/ life' = "closed"
    BY <1>2, Zenon
  <2> QED BY <1>2, <2>1, <2>2, <2>3
<1>3. CASE TickTimeout(now, posted)
  BY <1>1, <1>2, <1>3 DEF TickTimeout
<1> QED BY <1>2, <1>3 DEF FlushEgress

-----------------------------------------------------------------------------
(* The invariant.                                                          *)

LEMMA InvInit == Init => IInv
<1> SUFFICES ASSUME Init PROVE IInv OBVIOUS
<1> USE ClientLinkAssumption DEF Init
<1>1. TypeOK
  <2>1. made \in 0..MaxConns /\ conn \in 0..made /\ http3 \in 0..made BY DEF NoConn
  <2>2. events \in Seq(Event) /\ log \in Seq(Event) BY DEF Event
  <2> QED BY <2>1, <2>2 DEF TypeOK, Handler, Application, Life
<1>2. Started BY DEF Started
<1>3. Http3IsCurrent BY DEF Http3IsCurrent
<1>4. Trust BY DEF Trust
<1>5. log \o events = <<>> BY DEF Event
<1>6. EventOrder BY <1>5 DEF EventOrder, Heard, InOrder
<1> QED BY <1>1, <1>2, <1>3, <1>4, <1>6 DEF IInv

(* The steps that post nothing.                                            *)
LEMMA SilentKeepsOrder ==
  ASSUME IInv, UNCHANGED <<log, events, connected, timeout>>
  PROVE  EventOrder'
BY DEF IInv, EventOrder, Heard

(* A flush of what has been posted before.                                 *)
LEMMA FlushStep ==
  ASSUME IInv, NEW now \in Life, FlushEgress(now, events),
         UNCHANGED <<log, connected>>
  PROVE  /\ timeout' \in BOOLEAN /\ timerSet' \in BOOLEAN /\ closed' \in BOOLEAN
         /\ life' \in Life /\ events' \in Seq(Event)
         /\ life' = now \/ life' = "closed"
         /\ timeout' => closed'
         /\ timeout' => timeout \/ life' = "closed"
         /\ EventOrder'
<1>1. /\ timeout \in BOOLEAN /\ timerSet \in BOOLEAN /\ closed \in BOOLEAN
      /\ connected \in BOOLEAN
      /\ log \in Seq(Event) /\ events \in Seq(Event)
  BY DEF IInv, TypeOK
<1>2. timeout => closed BY DEF IInv, Trust
<1>3. InOrder(log \o events, connected, timeout) BY DEF IInv, EventOrder, Heard
<1>4. /\ timeout' \in BOOLEAN /\ timerSet' \in BOOLEAN /\ closed' \in BOOLEAN
      /\ life' \in Life /\ events' \in Seq(Event)
      /\ life' = now \/ life' = "closed"
      /\ timeout' => closed'
      /\ timeout' => timeout \/ life' = "closed"
      /\ InOrder(log \o events', connected, timeout')
  BY <1>1, <1>2, <1>3, FlushKeepsOrder
<1>5. EventOrder' BY <1>4 DEF EventOrder, Heard
<1> QED BY <1>4, <1>5

(* What a datagram brings to a live connection.                            *)
LEMMA ArrivesStep ==
  ASSUME IInv, io = "datagram", life = "open", conn # NoConn, UNCHANGED <<log, conn>>,
         NEW done \in BOOLEAN, NEW match \in BOOLEAN, NEW response \in BOOLEAN,
         NEW now \in Life, Arrives(done, match, response, now)
  PROVE  /\ timeout' \in BOOLEAN /\ timerSet' \in BOOLEAN /\ closed' \in BOOLEAN
         /\ life' \in Life /\ events' \in Seq(Event)
         /\ est' \in BOOLEAN /\ connected' \in BOOLEAN
         /\ http3' \in {http3, conn}
         /\ Http3IsCurrent'
         /\ timeout' => closed'
         /\ connected' => http3' # NoConn
         /\ EventOrder'
<1> DEFINE new == done /\ http3 = NoConn
           first == IF new /\ match THEN <<"Connect">> ELSE <<>>
           trusted == connected \/ (new /\ match)
           second == IF response /\ trusted THEN <<"Data">> ELSE <<>>
<1>1. /\ timeout \in BOOLEAN /\ timerSet \in BOOLEAN /\ closed \in BOOLEAN
      /\ connected \in BOOLEAN
      /\ log \in Seq(Event) /\ events \in Seq(Event)
  BY DEF IInv, TypeOK
<1>2. timeout = FALSE BY <1>1 DEF IInv, Trust
<1>3. connected => http3 # NoConn BY DEF IInv, Trust
<1>4. /\ est => done
      /\ est' = done
      /\ http3' = IF new THEN conn ELSE http3
      /\ connected' = trusted
      /\ FlushEgress(now, events \o first \o second)
  BY DEF Arrives
<1>5. InOrder(log \o events, connected, FALSE)
  BY <1>2 DEF IInv, EventOrder, Heard
<1>6. first \in Seq(Event) /\ second \in Seq(Event)
  <2>1. <<>> \in Seq(Event) OBVIOUS
  <2>2. <<"Connect">> \in Seq(Event) /\ <<"Data">> \in Seq(Event) BY DEF Event
  <2> QED BY <2>1, <2>2
<1>7. InOrder((log \o events) \o first, trusted, FALSE)
  <2>1. CASE new /\ match
    <3>1. connected = FALSE BY <1>1, <1>3, <2>1
    <3>2. log \o events = <<>>
      <4>1. InOrder(log \o events, FALSE, FALSE) BY <1>5, <3>1
      <4>2. log \o events \in Seq(Event) BY <1>1
      <4> QED BY <4>1, <4>2, NothingHeard
    <3> QED BY <2>1, <3>2, ConnectHeard
  <2>2. CASE ~(new /\ match)
    <3>1. (log \o events) \o first = log \o events BY <1>1, <2>2 DEF Event
    <3>2. trusted = connected BY <1>1, <2>2
    <3> QED BY <1>5, <3>1, <3>2
  <2> QED BY <2>1, <2>2
<1>8. trusted \in BOOLEAN /\ (log \o events) \o first \in Seq(Event)
  BY <1>1, <1>6
<1>9. InOrder(((log \o events) \o first) \o second, trusted, FALSE)
  <2> HIDE DEF first, trusted
  <2>1. CASE response /\ trusted
    <3>1. second = <<"Data">> /\ trusted = TRUE BY <2>1, <1>8
    <3> QED BY <1>7, <1>8, <3>1, DataHeard
  <2>2. CASE ~(response /\ trusted)
    <3>1. second = <<>> BY <2>2
    <3>2. ((log \o events) \o first) \o <<>> = (log \o events) \o first BY <1>8 DEF Event
    <3> QED BY <1>7, <3>1, <3>2
  <2> QED BY <2>1, <2>2
<1> HIDE DEF first, second, trusted, new
<1>10. ((log \o events) \o first) \o second = log \o (events \o first \o second)
  BY <1>1, <1>6
<1>11. events \o first \o second \in Seq(Event) BY <1>1, <1>6
<1>12. InOrder(log \o (events \o first \o second), trusted, timeout)
  BY <1>2, <1>9, <1>10
<1>13. timeout => closed BY <1>2
<1>14. /\ timeout' \in BOOLEAN /\ timerSet' \in BOOLEAN /\ closed' \in BOOLEAN
       /\ life' \in Life /\ events' \in Seq(Event)
       /\ timeout' => closed'
       /\ InOrder(log \o events', trusted, timeout')
  BY <1>1, <1>4, <1>8, <1>11, <1>12, <1>13, FlushKeepsOrder
<1>15. EventOrder' BY <1>4, <1>14 DEF EventOrder, Heard
<1>16. Http3IsCurrent'
  <2>1. CASE new BY <1>4, <2>1 DEF new, Http3IsCurrent
  <2>2. CASE ~new BY <1>4, <2>2 DEF IInv, Http3IsCurrent
  <2> QED BY <2>1, <2>2
<1>17. connected' => http3' # NoConn BY <1>3, <1>4 DEF trusted, new
<1> QED BY <1>4, <1>8, <1>14, <1>15, <1>16, <1>17

LEMMA InvNext == IInv /\ [Next]_vars => IInv'
<1> SUFFICES ASSUME IInv, [Next]_vars PROVE IInv'
  OBVIOUS
<1> USE ClientLinkAssumption DEF NoConn
<1>a. TypeOK BY DEF IInv
<1>b. Started /\ Http3IsCurrent /\ Trust /\ EventOrder BY DEF IInv
<1>1. CASE Resolved
  <2> USE <1>1 DEF Resolved, Begin, quicheVars, linkVars, appVars
  <2>1. TypeOK' BY <1>a DEF TypeOK, Handler, Application
  <2>2. Started' BY <1>a, <1>b DEF Started, TypeOK
  <2>3. Http3IsCurrent' BY <1>b DEF Http3IsCurrent
  <2>4. Trust' BY <1>b DEF Trust
  <2>5. EventOrder' BY SilentKeepsOrder
  <2> QED BY <2>1, <2>2, <2>3, <2>4, <2>5 DEF IInv
<1>2. CASE ResolveFails
  <2> USE <1>2 DEF ResolveFails, quicheVars, linkVars, appVars
  <2>1. TypeOK' BY <1>a DEF TypeOK, Handler, Application
  <2>2. Started' BY <1>a, <1>b DEF Started, TypeOK
  <2>3. Http3IsCurrent' BY <1>b DEF Http3IsCurrent
  <2>4. Trust' BY <1>b DEF Trust
  <2>5. EventOrder' BY SilentKeepsOrder
  <2> QED BY <2>1, <2>2, <2>3, <2>4, <2>5 DEF IInv
<1>3. CASE FirstConnect
  <2> USE <1>3 DEF FirstConnect, Connect, MakeConn, ConnectFails, appVars
  <2>1. TypeOK'
    <3>1. CASE Connect /\ io' = "connected" /\ UNCHANGED closed
      <4>1. /\ made' \in 0..MaxConns /\ conn' \in 0..made' /\ http3' \in 0..made'
            /\ conn' # NoConn
        BY <1>a, <3>1 DEF TypeOK
      <4> QED BY <1>a, <3>1, <4>1 DEF TypeOK, Handler, Life
    <3>2. CASE ConnectFails /\ io' = "idle" /\ closed' = TRUE
      <4>1. conn' \in 0..made' BY <1>a, <3>2 DEF TypeOK
      <4> QED BY <1>a, <3>2, <4>1 DEF TypeOK, Handler, Life
    <3> QED BY <3>1, <3>2
  <2>2. Started' BY <1>a, <1>b DEF Started, TypeOK
  <2>3. Http3IsCurrent' BY <1>a, <1>b DEF TypeOK, Started, Http3IsCurrent
  <2>4. Trust' BY <1>b DEF Trust
  <2>5. EventOrder' BY SilentKeepsOrder
  <2> QED BY <2>1, <2>2, <2>3, <2>4, <2>5 DEF IInv
<1>4. CASE BeginDatagram
  <2> USE <1>4 DEF BeginDatagram, Begin, quicheVars, linkVars, appVars
  <2>1. TypeOK' BY <1>a DEF TypeOK, Handler, Application
  <2>2. Started' BY <1>a, <1>b DEF Started, TypeOK
  <2>3. Http3IsCurrent' BY <1>b DEF Http3IsCurrent
  <2>4. Trust' BY <1>b DEF Trust
  <2>5. EventOrder' BY SilentKeepsOrder
  <2> QED BY <2>1, <2>2, <2>3, <2>4, <2>5 DEF IInv
<1>5. CASE BeginRetry
  <2> USE <1>5 DEF BeginRetry, Begin, quicheVars, appVars
  <2>1. TypeOK'
    <3>1. io' \in Handler /\ io' # "connected" /\ retryArmed' \in BOOLEAN BY DEF Handler
    <3> QED BY <1>a, <3>1 DEF TypeOK
  <2>2. Started' BY <1>a, <1>b DEF Started, TypeOK
  <2>3. Http3IsCurrent' BY <1>b DEF Http3IsCurrent
  <2>4. Trust' BY <1>b DEF Trust
  <2>5. EventOrder' BY SilentKeepsOrder
  <2> QED BY <2>1, <2>2, <2>3, <2>4, <2>5 DEF IInv
<1>6. CASE Retry
  <2> USE <1>6 DEF Retry, Connect, MakeConn, ConnectFails, quicheVars, appVars
  <2>1. TypeOK'
    <3>1. CASE est /\ UNCHANGED <<quicheVars, retryArmed>>
      <4>1. io' \in Handler /\ io' # "connected" BY DEF Handler
      <4> QED BY <1>a, <3>1, <4>1 DEF TypeOK
    <3>2. CASE Connect
      <4>1. made' \in 0..MaxConns /\ conn' \in 0..made' /\ http3' \in 0..made'
        BY <1>a, <3>2 DEF TypeOK
      <4> QED BY <1>a, <3>2, <4>1 DEF TypeOK, Handler, Life
    <3>3. CASE ConnectFails
      <4>1. conn' \in 0..made' BY <1>a, <3>3 DEF TypeOK
      <4>2. io' \in Handler /\ io' # "connected" /\ life' \in Life /\ est' \in BOOLEAN
        BY <3>3 DEF Handler, Life
      <4> QED BY <1>a, <3>3, <4>1, <4>2 DEF TypeOK
    <3> QED BY <3>1, <3>2, <3>3
  <2>2. Started' BY <1>a, <1>b DEF Started, TypeOK
  <2>3. Http3IsCurrent' BY <1>b DEF Http3IsCurrent
  <2>4. Trust' BY <1>b DEF Trust
  <2>5. EventOrder' BY SilentKeepsOrder
  <2> QED BY <2>1, <2>2, <2>3, <2>4, <2>5 DEF IInv
<1>7. CASE BeginTimer
  <2> USE <1>7 DEF BeginTimer, quicheVars, appVars
  <2>1. TypeOK'
    <3>1. io' \in Handler /\ io' # "connected" /\ timerSet' \in BOOLEAN BY DEF Handler
    <3> QED BY <1>a, <3>1 DEF TypeOK
  <2>2. Started' BY <1>a, <1>b DEF Started, TypeOK
  <2>3. Http3IsCurrent' BY <1>b DEF Http3IsCurrent
  <2>4. Trust' BY <1>b DEF Trust
  <2>5. EventOrder' BY SilentKeepsOrder
  <2> QED BY <2>1, <2>2, <2>3, <2>4, <2>5 DEF IInv
<1>8. CASE SenderFinds
  <2> USE <1>8 DEF SenderFinds, quicheVars, linkVars, appVars
  <2>1. TypeOK'
    <3>1. registered' \in BOOLEAN BY <1>a DEF TypeOK
    <3>2. sender' \in {"asleep", "flushing", "ended"} BY <1>a DEF TypeOK
    <3> QED BY <1>a, <3>1, <3>2 DEF TypeOK
  <2>2. Started' BY <1>a, <1>b DEF Started, TypeOK
  <2>3. Http3IsCurrent' BY <1>b DEF Http3IsCurrent
  <2>4. Trust' BY <1>b DEF Trust
  <2>5. EventOrder' BY SilentKeepsOrder
  <2> QED BY <2>1, <2>2, <2>3, <2>4, <2>5 DEF IInv
<1>9. CASE SenderEnds
  <2> USE <1>9 DEF SenderEnds, quicheVars, linkVars, appVars
  <2>1. TypeOK' BY <1>a DEF TypeOK, Handler, Application
  <2>2. Started' BY <1>a, <1>b DEF Started, TypeOK
  <2>3. Http3IsCurrent' BY <1>b DEF Http3IsCurrent
  <2>4. Trust' BY <1>b DEF Trust
  <2>5. EventOrder' BY SilentKeepsOrder
  <2> QED BY <2>1, <2>2, <2>3, <2>4, <2>5 DEF IInv
<1>10. CASE PollBegins
  <2> USE <1>10 DEF PollBegins, quicheVars, linkVars
  <2>1. TypeOK' BY <1>a DEF TypeOK, Handler, Application
  <2>2. Started' BY <1>a, <1>b DEF Started, TypeOK
  <2>3. Http3IsCurrent' BY <1>b DEF Http3IsCurrent
  <2>4. Trust' BY <1>b DEF Trust
  <2>5. EventOrder' BY SilentKeepsOrder
  <2> QED BY <2>1, <2>2, <2>3, <2>4, <2>5 DEF IInv
<1>11. CASE Destroy
  <2> USE <1>11 DEF Destroy, quicheVars, linkVars
  <2>1. TypeOK' BY <1>a DEF TypeOK, Handler, Application
  <2>2. Started' BY <1>a, <1>b DEF Started, TypeOK
  <2>3. Http3IsCurrent' BY <1>b DEF Http3IsCurrent
  <2>4. Trust' BY <1>b DEF Trust
  <2>5. EventOrder' BY SilentKeepsOrder
  <2> QED BY <2>1, <2>2, <2>3, <2>4, <2>5 DEF IInv
<1>12. CASE PollEnds
  <2> USE <1>12 DEF PollEnds, quicheVars, linkVars
  <2>1. log \in Seq(Event) /\ events \in Seq(Event) BY <1>a DEF TypeOK
  <2>2. log' \in Seq(Event) /\ events' \in Seq(Event) BY <2>1
  <2>3. log' \o events' = log \o events BY <2>1
  <2>4. TypeOK' BY <1>a, <2>2 DEF TypeOK, Application
  <2>5. Started' BY <1>b DEF Started
  <2>6. Http3IsCurrent' BY <1>b DEF Http3IsCurrent
  <2>7. Trust' BY <1>b DEF Trust
  <2>8. EventOrder' BY <1>b, <2>3 DEF EventOrder, Heard
  <2> QED BY <2>4, <2>5, <2>6, <2>7, <2>8 DEF IInv
<1>13. ASSUME NEW now \in {life, "closed"}, FlushEgress(now, events), conn # NoConn,
              UNCHANGED <<resolved, registered, made, conn, est, http3, connected,
                          retryArmed, log, nullUse>>,
              app' \in Application,
              sender' \in {"asleep", "flushing", "ended"},
              \/ io' = "idle"
              \/ io' = io /\ now = life
       PROVE  IInv'
  <2> USE <1>13
  <2>1. now \in Life BY <1>a DEF TypeOK, Life
  <2>2. /\ timeout' \in BOOLEAN /\ timerSet' \in BOOLEAN /\ closed' \in BOOLEAN
        /\ life' \in Life /\ events' \in Seq(Event)
        /\ life' = now \/ life' = "closed"
        /\ timeout' => closed'
        /\ timeout' => timeout \/ life' = "closed"
        /\ EventOrder'
    BY <2>1, FlushStep
  <2>3. io' \in Handler /\ (io' = "connected" => conn' # NoConn)
    BY <1>a DEF TypeOK, Handler
  <2>4. TypeOK' BY <1>a, <2>2, <2>3 DEF TypeOK
  <2>5. made > 0 BY <1>a DEF TypeOK
  <2>6. Started' BY <1>a, <1>b, <2>5 DEF Started, TypeOK
  <2>7. Http3IsCurrent' BY <1>b DEF Http3IsCurrent
  <2>8. timeout' /\ io' = "datagram" => life' = "closed"
    <3>1. CASE io' = "idle" BY <3>1
    <3>2. CASE io' = io /\ now = life
      <4>1. timeout /\ io = "datagram" => life = "closed" BY <1>b DEF Trust
      <4> QED BY <2>2, <3>2, <4>1
    <3> QED BY <3>1, <3>2
  <2>9. Trust' BY <1>b, <2>2, <2>8 DEF Trust
  <2> QED BY <2>2, <2>4, <2>6, <2>7, <2>9 DEF IInv
<1>14. ASSUME nullUse' = TRUE,
              UNCHANGED <<life, timeout, timerSet, closed, events>>,
              UNCHANGED <<resolved, registered, made, conn, est, http3, connected,
                          retryArmed, log>>,
              app' \in Application,
              sender' \in {"asleep", "flushing", "ended"},
              io' \in {"idle", io}
       PROVE  IInv'
  <2> USE <1>14
  <2>1. TypeOK' BY <1>a DEF TypeOK, Handler
  <2>2. Started' BY <1>a, <1>b DEF Started, TypeOK
  <2>3. Http3IsCurrent' BY <1>b DEF Http3IsCurrent
  <2>4. Trust' BY <1>b DEF Trust
  <2>5. EventOrder' BY SilentKeepsOrder
  <2> QED BY <2>1, <2>2, <2>3, <2>4, <2>5 DEF IInv
<1>15. CASE FirstFlush
  <2>1. conn # NoConn BY <1>15, <1>a DEF FirstFlush, TypeOK
  <2>2. sender' \in {"asleep", "flushing", "ended"} BY <1>15, <1>a DEF FirstFlush, TypeOK
  <2>3. app' \in Application BY <1>15, <1>a DEF FirstFlush, appVars, TypeOK
  <2> QED BY <1>15, <1>13, <2>1, <2>2, <2>3 DEF FirstFlush, appVars
<1>16. CASE Timer
  <2>1. sender' \in {"asleep", "flushing", "ended"} BY <1>16, <1>a DEF Timer, TypeOK
  <2>2. app' \in Application BY <1>16, <1>a DEF Timer, appVars, TypeOK
  <2> QED BY <1>13, <1>14, <1>16, <2>1, <2>2 DEF Timer, NullIsUsed, appVars
<1>17. CASE SenderFlushes
  <2>1. app' \in Application BY <1>17, <1>a DEF SenderFlushes, appVars, TypeOK
  <2> QED BY <1>13, <1>14, <1>17, <2>1 DEF SenderFlushes, NullIsUsed, appVars
<1>18. CASE Datagram
  <2>1. /\ io = "datagram" /\ io' = "idle"
        /\ UNCHANGED <<resolved, registered, sender, made, conn, retryArmed, appVars>>
    BY <1>18 DEF Datagram
  <2>2. /\ sender' \in {"asleep", "flushing", "ended"}
        /\ app' \in Application
        /\ UNCHANGED log
    BY <1>a, <2>1 DEF TypeOK, appVars
  <2>3. ASSUME conn # NoConn, life = "open", UNCHANGED nullUse,
               NEW done \in BOOLEAN, NEW match \in BOOLEAN, NEW response \in BOOLEAN,
               NEW now \in Life, Arrives(done, match, response, now)
        PROVE  IInv'
    <3>1. UNCHANGED <<log, conn>> BY <2>1 DEF appVars
    <3>2. /\ timeout' \in BOOLEAN /\ timerSet' \in BOOLEAN /\ closed' \in BOOLEAN
          /\ life' \in Life /\ events' \in Seq(Event)
          /\ est' \in BOOLEAN /\ connected' \in BOOLEAN
          /\ http3' \in {http3, conn}
          /\ Http3IsCurrent'
          /\ timeout' => closed'
          /\ connected' => http3' # NoConn
          /\ EventOrder'
      BY <2>1, <2>3, <3>1, ArrivesStep
    <3>3. http3' \in 0..made' BY <1>a, <2>1, <3>2 DEF TypeOK
    <3>4. TypeOK' BY <1>a, <2>1, <2>3, <3>2, <3>3 DEF TypeOK, Handler, appVars
    <3>5. made > 0 BY <1>a, <2>3 DEF TypeOK
    <3>6. Started' BY <1>a, <1>b, <2>1, <3>5 DEF Started, TypeOK
    <3>7. Trust' BY <2>1, <3>2 DEF Trust
    <3> QED BY <3>2, <3>4, <3>6, <3>7 DEF IInv
  <2>4. ASSUME conn # NoConn, life' \in Life, est' \in BOOLEAN,
               http3 = NoConn \/ est' = est,
               UNCHANGED <<http3, connected, timeout, timerSet, closed, events, nullUse>>
        PROVE  IInv'
    <3> USE <2>1, <2>4 DEF appVars
    <3>1. TypeOK' BY <1>a DEF TypeOK, Handler
    <3>2. Started' BY <1>a, <1>b DEF Started, TypeOK
    <3>3. Http3IsCurrent' BY <1>b DEF Http3IsCurrent
    <3>4. Trust' BY <1>b DEF Trust
    <3>5. EventOrder' BY SilentKeepsOrder
    <3> QED BY <3>1, <3>2, <3>3, <3>4, <3>5 DEF IInv
  <2>5. CASE /\ conn # NoConn /\ life # "open"
             /\ FlushEgress(life, events)
             /\ UNCHANGED <<est, http3, connected, nullUse>>
    BY <1>13, <2>1, <2>2, <2>5
  <2>6. CASE NullIsUsed /\ UNCHANGED <<est, http3, connected>>
    BY <1>14, <2>1, <2>2, <2>6 DEF NullIsUsed
  <2>7. CASE /\ conn # NoConn
             /\ life' \in IF life = "open" THEN {"open", "closing"} ELSE {life}
             /\ UNCHANGED <<est, http3, connected, timeout, timerSet, closed, events,
                            nullUse>>
    <3>1. life' \in Life /\ est' \in BOOLEAN BY <1>a, <2>7 DEF TypeOK, Life
    <3> QED BY <2>4, <2>7, <3>1
  <2>8. CASE /\ conn # NoConn /\ life = "open" /\ http3 = NoConn
             /\ est' = TRUE /\ life' = "closing"
             /\ UNCHANGED <<http3, connected, timeout, timerSet, closed, events, nullUse>>
    BY <2>4, <2>8 DEF Life
  <2> QED BY <1>18, <2>3, <2>5, <2>6, <2>7, <2>8 DEF Datagram
<1>19. CASE RequestBegins
  <2> USE <1>19 DEF RequestBegins, quicheVars, linkVars
  <2>1. TypeOK' BY <1>a DEF TypeOK, Handler, Application
  <2>2. Started' BY <1>a, <1>b DEF Started, TypeOK
  <2>3. Http3IsCurrent' BY <1>b DEF Http3IsCurrent
  <2>4. Trust' BY <1>b DEF Trust
  <2>5. EventOrder' BY SilentKeepsOrder
  <2> QED BY <2>1, <2>2, <2>3, <2>4, <2>5 DEF IInv
<1>20. CASE RequestEnds
  <2>1. /\ app' \in Application /\ io' = io
        /\ sender' \in {"asleep", "flushing", "ended"}
        /\ UNCHANGED <<io, resolved, registered, sender, made, conn, est, http3,
                       connected, retryArmed, log>>
    BY <1>20, <1>a DEF RequestEnds, Application, TypeOK
  <2>2. CASE http3 # NoConn /\ FlushEgress(life, events) /\ UNCHANGED nullUse
    <3>1. conn # NoConn BY <1>b, <2>2 DEF Http3IsCurrent
    <3> QED BY <1>13, <2>1, <2>2, <3>1
  <2>3. CASE /\ http3 # NoConn
             /\ UNCHANGED <<life, timeout, timerSet, closed, events, nullUse>>
    <3> USE <2>1, <2>3
    <3>1. TypeOK' BY <1>a DEF TypeOK
    <3>2. Started' BY <1>b DEF Started
    <3>3. Http3IsCurrent' BY <1>b DEF Http3IsCurrent
    <3>4. Trust' BY <1>b DEF Trust
    <3>5. EventOrder' BY SilentKeepsOrder
    <3> QED BY <3>1, <3>2, <3>3, <3>4, <3>5 DEF IInv
  <2>4. CASE /\ http3 = NoConn /\ nullUse' = TRUE
             /\ UNCHANGED <<life, timeout, timerSet, closed, events>>
    BY <1>14, <2>1, <2>4
  <2> QED BY <1>20, <2>2, <2>3, <2>4 DEF RequestEnds
<1>21. CASE UNCHANGED vars
  <2> USE <1>21 DEF vars, quicheVars, linkVars, appVars
  <2>1. TypeOK' BY <1>a DEF TypeOK
  <2>2. Started' BY <1>b DEF Started
  <2>3. Http3IsCurrent' BY <1>b DEF Http3IsCurrent
  <2>4. Trust' BY <1>b DEF Trust
  <2>5. EventOrder' BY SilentKeepsOrder
  <2> QED BY <2>1, <2>2, <2>3, <2>4, <2>5 DEF IInv
<1> QED
  BY <1>1, <1>2, <1>3, <1>4, <1>5, <1>6, <1>7, <1>8, <1>9, <1>10, <1>11, <1>12,
     <1>15, <1>16, <1>17, <1>18, <1>19, <1>20, <1>21 DEF Next, IoRuns

LEMMA Inductive == Spec => []IInv
BY InvInit, InvNext, PTL DEF Spec

-----------------------------------------------------------------------------
(* For any number of attempts and responses the client keeps its types; in *)
(* particular its first flush comes after a Connect that succeeded.        *)
THEOREM TypeCorrect == Spec => []TypeOK
BY Inductive, PTL DEF IInv

(* Whatever the order in which late datagrams and the retry's timer get    *)
(* the mutex, the HTTP/3 layer belongs to the current connection.          *)
THEOREM Http3Correct == Spec => []Http3IsCurrent
BY Inductive, PTL DEF IInv

(* Whichever threads notice what, the application hears Connect first and  *)
(* Timeout once and last.                                                  *)
THEOREM OrderCorrect == Spec => []EventOrder
BY Inductive, PTL DEF IInv

(* An application that has heard Connect has a connection with its HTTP/3  *)
(* layer for good.                                                         *)
LEMMA HeardHasConn ==
  ASSUME IInv, NEW i \in DOMAIN log, log[i] = "Connect"
  PROVE  conn # NoConn /\ http3 # NoConn
<1>1. log \in Seq(Event) /\ events \in Seq(Event) /\ connected \in BOOLEAN
  BY DEF IInv, TypeOK
<1>2. i \in DOMAIN (log \o events) /\ (log \o events)[i] = "Connect" BY <1>1
<1>3. connected BY <1>1, <1>2 DEF IInv, EventOrder, Heard, InOrder
<1> QED BY <1>3 DEF IInv, Trust, Http3IsCurrent

(* A thread hands quiche a null connection only where there is none, or a  *)
(* null HTTP/3 layer only where there is none.                             *)
LEMMA NullNeedsNone ==
  ASSUME [Next]_vars
  PROVE  nullUse' = nullUse \/ conn = NoConn \/ http3 = NoConn
<1>1. CASE UNCHANGED vars BY <1>1 DEF vars
<1>2. CASE IoRuns
  BY <1>2 DEF IoRuns, FirstConnect, FirstFlush, Datagram, Retry, Timer, NullIsUsed
<1>3. CASE SenderFinds \/ SenderFlushes \/ SenderEnds
  BY <1>3 DEF SenderFinds, SenderFlushes, SenderEnds, NullIsUsed
<1>4. CASE Resolved \/ ResolveFails \/ BeginDatagram \/ BeginRetry \/ BeginTimer
  BY <1>4 DEF Resolved, ResolveFails, BeginDatagram, BeginRetry, BeginTimer
<1>5. CASE PollBegins \/ PollEnds \/ RequestBegins \/ RequestEnds \/ Destroy
  BY <1>5 DEF PollBegins, PollEnds, RequestBegins, RequestEnds, Destroy
<1> QED BY <1>1, <1>2, <1>3, <1>4, <1>5 DEF Next

(* Whatever the threads do, an application that makes its requests after   *)
(* Connect never has quiche called with a null connection.                 *)
THEOREM UsableCorrect == Spec => HeardIsUsable
<1>1. IInv /\ [Next]_vars
        => [(\E i \in DOMAIN log : log[i] = "Connect") => nullUse' = nullUse]_vars
  BY HeardHasConn, NullNeedsNone
<1> QED BY Inductive, <1>1, PTL DEF Spec, HeardIsUsable
=============================================================================
