------------------------------ MODULE ClientLink ------------------------------
(***************************************************************************)
(* The one connection of a QuicSendClient: it is resolved and connected,   *)
(* tried again while the server does not answer, and found closed.         *)
(*                                                                         *)
(* Three threads meet here.  The io thread runs one handler at a time: a   *)
(* handler begins, and then waits for the connection's mutex.  The sender's*)
(* thread flushes the connection once it is registered.  The application   *)
(* polls the mailbox until the client is closed, makes requests in between *)
(* (whose streams are in StreamSend), or destroys the client.              *)
(* What runs with the connection's mutex held is one step.                 *)
(***************************************************************************)
EXTENDS Integers, Sequences, FiniteSets

CONSTANTS
  MaxConns,  \* bound: quiche connections made in a behaviour
  MaxData    \* bound: responses received in a behaviour

ASSUME ClientLinkAssumption == MaxConns \in Nat \ {0} /\ MaxData \in Nat

VARIABLES
  io,          \* the handler the io thread is in: see Handler
  resolved,    \* the resolver has answered
  registered,  \* the connection is in the sender's connections_
  sender,      \* "asleep", or "flushing" (past IsClosed, before the mutex) or "ended"
  made,        \* how many quiche connections were made: they are 1..made
  conn,        \* conn_, NoConn for null
  est,         \* quiche_conn_is_established(conn_)
  life,        \* of conn_: "open", "closing" (closed or draining) or "closed"
  http3,       \* the connection http3_ was made for, NoConn for null
  connected,   \* connected_
  timeout,     \* timeout_
  timerSet,    \* timer_set_
  retryArmed,  \* connection_timer_ is waiting
  closed,      \* closed_ of the client, with its io_context stopped
  events,      \* the mailbox
  app,         \* the application: see Application
  log,         \* the events its callbacks were called with
  nullUse      \* quiche was called with a null connection

quicheVars == <<made, conn, est, life>>
linkVars == <<http3, connected, timeout, timerSet, retryArmed>>
appVars == <<app, log>>
vars == <<io, resolved, registered, sender, quicheVars, linkVars, closed, events, appVars, nullUse>>

NoConn == 0

(* "idle": between handlers; "added", "connected": in the resolver's, after*)
(* Add and after Connect; "datagram", "retry", "timer": in OnDatagram, in  *)
(* connection_timer_'s and in quiche_timer_'s, before the mutex.           *)
Handler == {"idle", "added", "connected", "datagram", "retry", "timer"}

(* "out": between calls; "polling": in mailbox_.Poll; "requesting": in     *)
(* SendRequest, before the mutex; "done": poll has returned 0; "gone": the *)
(* client is being destroyed.                                              *)
Application == {"out", "polling", "requesting", "done", "gone"}

Event == {"Connect", "Data", "Timeout"}

Life == {"open", "closing", "closed"}

TypeOK ==
  /\ io \in Handler
  /\ resolved \in BOOLEAN /\ registered \in BOOLEAN
  /\ sender \in {"asleep", "flushing", "ended"}
  /\ made \in 0..MaxConns
  /\ conn \in 0..made
  /\ est \in BOOLEAN
  /\ life \in Life
  /\ http3 \in 0..made
  /\ connected \in BOOLEAN /\ timeout \in BOOLEAN
  /\ timerSet \in BOOLEAN /\ retryArmed \in BOOLEAN
  /\ closed \in BOOLEAN
  /\ events \in Seq(Event) /\ log \in Seq(Event)
  /\ app \in Application
  /\ nullUse \in BOOLEAN
  /\ io = "connected" => conn # NoConn

Init ==
  /\ io = "idle" /\ sender = "asleep" /\ app = "out"
  /\ resolved = FALSE /\ registered = FALSE
  /\ made = 0 /\ conn = NoConn /\ est = FALSE /\ life = "open"
  /\ http3 = NoConn /\ connected = FALSE /\ timeout = FALSE
  /\ timerSet = FALSE /\ retryArmed = FALSE
  /\ closed = FALSE /\ nullUse = FALSE
  /\ events = <<>> /\ log = <<>>

-----------------------------------------------------------------------------
(* TickTimeout, at the end of FlushEgress, with quiche's state `now' and   *)
(* `posted' the events of the step so far.                                 *)

(* Mutant: the timer is looked at first.                                   *)
TickTimeoutLazy(now, posted) ==
  \/ /\ timerSet
     /\ life' = now /\ events' = posted
     /\ UNCHANGED <<timeout, closed, timerSet>>
  \/ /\ ~timerSet /\ now = "closed"
     /\ events' = IF timeout THEN posted ELSE Append(posted, "Timeout")
     /\ timeout' = TRUE
     /\ closed' = TRUE
     /\ life' = now
     /\ UNCHANGED timerSet
  \/ /\ ~timerSet /\ now # "closed"
     /\ life' = now /\ timerSet' = TRUE /\ events' = posted
     /\ UNCHANGED <<timeout, closed>>

TickTimeout(now, posted) ==
  \/ /\ now = "closed"
     /\ events' = IF timeout THEN posted ELSE Append(posted, "Timeout")
     /\ timeout' = TRUE
     /\ closed' = TRUE   \* on_timeout calls QuicSendClient::Close
     /\ life' = now
     /\ UNCHANGED timerSet
  \/ /\ now # "closed" /\ timerSet
     /\ life' = now /\ events' = posted
     /\ UNCHANGED <<timeout, closed, timerSet>>
  \/ /\ now # "closed" /\ ~timerSet   \* quiche's deadline is ahead
     /\ timerSet' = TRUE
     /\ life' = now /\ events' = posted
     /\ UNCHANGED <<timeout, closed>>
  \/ /\ now # "closed" /\ ~timerSet   \* or now: quiche_conn_on_timeout
     /\ life' \in {now, "closed"} /\ events' = posted
     /\ UNCHANGED <<timeout, closed, timerSet>>

(* FlushEgress: with a live connection quiche_conn_send may fail, and then *)
(* the timers are not looked at.                                           *)
FlushEgress(now, posted) ==
  \/ TickTimeout(now, posted)
  \/ /\ now # "closed"
     /\ life' = now /\ events' = posted
     /\ UNCHANGED <<timeout, closed, timerSet>>

(* Or, with a null connection, anything: the model notes it and goes on as *)
(* if quiche had had nothing to do.                                        *)
NullIsUsed ==
  /\ conn = NoConn
  /\ nullUse' = TRUE
  /\ UNCHANGED <<life, timeout, timerSet, closed, events>>

(* Connect: a new quiche connection takes the place of the old one, which  *)
(* is not freed, and the retry is armed; or quiche makes none.             *)
MakeConn ==
  /\ made < MaxConns
  /\ made' = made + 1
  /\ conn' = made'
  /\ est' = FALSE /\ life' = "open"

(* Mutant: only the first attempt arms the timer.                          *)
ConnectOnce ==
  /\ MakeConn
  /\ retryArmed' = (made = 0)

Connect ==
  /\ MakeConn
  /\ retryArmed' = TRUE

ConnectFails ==
  /\ conn' = NoConn
  /\ est' = FALSE /\ life' = "open"
  /\ UNCHANGED <<made, retryArmed>>

-----------------------------------------------------------------------------
(* The io thread.  io_context::stop lets a handler end and no other begin. *)

Begin(handler) == io = "idle" /\ ~closed /\ io' = handler

Resolved ==
  /\ ~resolved /\ resolved' = TRUE
  /\ Begin("added")
  /\ registered' = TRUE
  /\ UNCHANGED <<sender, quicheVars, linkVars, closed, events, appVars, nullUse>>

ResolveFails ==
  /\ ~resolved /\ resolved' = TRUE
  /\ io = "idle" /\ ~closed
  /\ closed' = TRUE
  /\ UNCHANGED <<io, registered, sender, quicheVars, linkVars, events, appVars, nullUse>>

(* Mutant: the handler does not return when Connect fails.                 *)
FirstConnectGoesOn ==
  /\ io = "added" /\ io' = "connected"
  /\ \/ Connect /\ UNCHANGED closed
     \/ ConnectFails /\ closed' = TRUE
  /\ UNCHANGED <<resolved, registered, sender, http3, connected, timeout, timerSet,
                 events, appVars, nullUse>>

FirstConnect ==
  /\ io = "added"
  /\ \/ Connect /\ io' = "connected" /\ UNCHANGED closed
     \/ ConnectFails /\ io' = "idle" /\ closed' = TRUE
  /\ UNCHANGED <<resolved, registered, sender, http3, connected, timeout, timerSet,
                 events, appVars, nullUse>>

FirstFlush ==
  /\ io = "connected" /\ io' = "idle"
  /\ FlushEgress(life, events)
  /\ UNCHANGED <<resolved, registered, sender, made, conn, est, http3, connected,
                 retryArmed, appVars, nullUse>>

(* Datagrams are received once Connect has succeeded.                      *)
BeginDatagram ==
  /\ made > 0
  /\ Begin("datagram")
  /\ UNCHANGED <<resolved, registered, sender, quicheVars, linkVars, closed, events,
                 appVars, nullUse>>

Heard == log \o events

Received == Cardinality({i \in DOMAIN Heard : Heard[i] = "Data"})

(* What a datagram may bring to a live connection: the end of the          *)
(* handshake, where on_connect compares certificates and closes when they  *)
(* differ; once the handshake has ended a response, which on_data drops    *)
(* unless the certificate matched; and a close.                            *)

(* Mutant: on_data posts whatever arrives.                                 *)
ArrivesUnchecked(done, match, response, now) ==
  LET new == done /\ http3 = NoConn
      says(it, event) == IF it THEN <<event>> ELSE <<>>
  IN /\ est => done
     /\ response => done /\ Received < MaxData
     /\ new /\ ~match => now # "open"
     /\ est' = done
     /\ http3' = IF new THEN conn ELSE http3
     /\ connected' = (connected \/ (new /\ match))
     /\ FlushEgress(now, events \o says(new /\ match, "Connect") \o says(response, "Data"))

Arrives(done, match, response, now) ==
  LET new == done /\ http3 = NoConn
      trusted == connected \/ (new /\ match)
      says(it, event) == IF it THEN <<event>> ELSE <<>>
  IN /\ est => done
     /\ response => done /\ Received < MaxData
     /\ new /\ ~match => now # "open"
     /\ est' = done
     /\ http3' = IF new THEN conn ELSE http3
     /\ connected' = trusted
     /\ FlushEgress(now, events \o says(new /\ match, "Connect")
                               \o says(response /\ trusted, "Data"))

(* OnDatagram.                                                             *)
Datagram ==
  /\ io = "datagram" /\ io' = "idle"
  /\ \/ /\ conn # NoConn /\ life = "open"
        /\ \E done, match, response \in BOOLEAN, now \in Life :
             Arrives(done, match, response, now)
        /\ UNCHANGED nullUse
     \/ /\ conn # NoConn   \* quiche_conn_recv fails
        /\ life' \in IF life = "open" THEN {"open", "closing"} ELSE {life}
        /\ UNCHANGED <<est, http3, connected, timeout, timerSet, closed, events, nullUse>>
     \/ /\ conn # NoConn /\ life = "open" /\ http3 = NoConn
        /\ est' = TRUE   \* quiche_h3_conn_new_with_transport fails, and closes
        /\ life' = "closing"
        /\ UNCHANGED <<http3, connected, timeout, timerSet, closed, events, nullUse>>
     \/ /\ conn # NoConn /\ life # "open"   \* and the datagram is ignored
        /\ FlushEgress(life, events)
        /\ UNCHANGED <<est, http3, connected, nullUse>>
     \/ NullIsUsed /\ UNCHANGED <<est, http3, connected>>
  /\ UNCHANGED <<resolved, registered, sender, made, conn, retryArmed, appVars>>

(* connection_timer_ fires.                                                *)
BeginRetry ==
  /\ retryArmed /\ retryArmed' = FALSE
  /\ Begin("retry")
  /\ UNCHANGED <<resolved, registered, sender, quicheVars, http3, connected, timeout,
                 timerSet, closed, events, appVars, nullUse>>

(* Mutant: a late answer to the first attempt is not looked for.           *)
RetryUnchecked ==
  /\ io = "retry" /\ io' = "idle"
  /\ Connect \/ ConnectFails
  /\ UNCHANGED <<resolved, registered, sender, http3, connected, timeout, timerSet,
                 closed, events, appVars, nullUse>>

Retry ==
  /\ io = "retry" /\ io' = "idle"
  /\ \/ est /\ UNCHANGED <<quicheVars, retryArmed>>
     \/ ~est /\ (Connect \/ ConnectFails)
  /\ UNCHANGED <<resolved, registered, sender, http3, connected, timeout, timerSet,
                 closed, events, appVars, nullUse>>

(* quiche_timer_ fires: timer_set_ is cleared before the mutex is taken.   *)
BeginTimer ==
  /\ timerSet /\ timerSet' = FALSE
  /\ io = "idle" /\ ~closed
  /\ io' = IF timeout THEN "idle" ELSE "timer"
  /\ UNCHANGED <<resolved, registered, sender, quicheVars, http3, connected, timeout,
                 retryArmed, closed, events, appVars, nullUse>>

Timer ==
  /\ io = "timer" /\ io' = "idle"
  /\ \/ /\ conn # NoConn
        /\ \E now \in {life, "closed"} : FlushEgress(now, events)
        /\ UNCHANGED nullUse
     \/ NullIsUsed
  /\ UNCHANGED <<resolved, registered, sender, made, conn, est, http3, connected,
                 retryArmed, appVars>>

-----------------------------------------------------------------------------
(* The sender's thread.                                                    *)

SenderFinds ==
  /\ sender = "asleep" /\ registered
  /\ \/ timeout /\ registered' = FALSE /\ UNCHANGED sender
     \/ ~timeout /\ sender' = "flushing" /\ UNCHANGED registered
  /\ UNCHANGED <<io, resolved, quicheVars, linkVars, closed, events, appVars, nullUse>>

SenderFlushes ==
  /\ sender = "flushing" /\ sender' = "asleep"
  /\ \/ conn # NoConn /\ FlushEgress(life, events) /\ UNCHANGED nullUse
     \/ NullIsUsed
  /\ UNCHANGED <<io, resolved, registered, made, conn, est, http3, connected,
                 retryArmed, appVars>>

-----------------------------------------------------------------------------
(* The application.                                                        *)

PollBegins ==
  /\ app = "out"
  /\ app' = IF closed THEN "done" ELSE "polling"
  /\ UNCHANGED <<io, resolved, registered, sender, quicheVars, linkVars, closed, events,
                 log, nullUse>>

(* Poll swaps the events out and delivers them, or times out.              *)
PollEnds ==
  /\ app = "polling" /\ app' = "out"
  /\ log' = log \o events
  /\ events' = <<>>
  /\ UNCHANGED <<io, resolved, registered, sender, quicheVars, linkVars, closed, nullUse>>

(* Request of the client, and SendRequest: a closed client refuses.  With  *)
(* no HTTP/3 connection yet, quiche is handed a null one.  Otherwise the   *)
(* request is sent, and flushed; or not, and the call fails or sleeps and  *)
(* tries again.                                                            *)
RequestBegins ==
  /\ app = "out" /\ ~closed /\ ~timeout
  /\ app' = "requesting"
  /\ UNCHANGED <<io, resolved, registered, sender, quicheVars, linkVars, closed, events,
                 log, nullUse>>

RequestEnds ==
  /\ app = "requesting" /\ app' = "out"
  /\ \/ http3 # NoConn /\ FlushEgress(life, events) /\ UNCHANGED nullUse
     \/ /\ http3 # NoConn
        /\ UNCHANGED <<life, timeout, timerSet, closed, events, nullUse>>
     \/ /\ http3 = NoConn /\ nullUse' = TRUE
        /\ UNCHANGED <<life, timeout, timerSet, closed, events>>
  /\ UNCHANGED <<io, resolved, registered, sender, made, conn, est, http3, connected,
                 retryArmed, log>>

Destroy ==
  /\ app \in {"out", "done"} /\ app' = "gone"
  /\ closed' = TRUE
  /\ UNCHANGED <<io, resolved, registered, sender, quicheVars, linkVars, events, log, nullUse>>

(* The destructor joins the io thread, and then ends the sender's.         *)
SenderEnds ==
  /\ app = "gone" /\ io = "idle" /\ sender = "asleep"
  /\ sender' = "ended"
  /\ UNCHANGED <<io, resolved, registered, quicheVars, linkVars, closed, events, appVars, nullUse>>

IoRuns == FirstConnect \/ FirstFlush \/ Datagram \/ Retry \/ Timer

Next ==
  \/ Resolved \/ ResolveFails
  \/ IoRuns
  \/ BeginDatagram \/ BeginRetry \/ BeginTimer
  \/ SenderFinds \/ SenderFlushes \/ SenderEnds
  \/ PollBegins \/ PollEnds \/ RequestBegins \/ RequestEnds \/ Destroy

Spec == Init /\ [][Next]_vars

(* A handler that has begun ends, the sender's loop goes round, and the    *)
(* io_context runs the handler of an expired timer between datagrams.      *)
FairSpec ==
  /\ Spec
  /\ WF_vars(IoRuns) /\ SF_vars(BeginRetry)
  /\ WF_vars(SenderFinds) /\ WF_vars(SenderFlushes)

-----------------------------------------------------------------------------
(* http3_ belongs to conn_: the retry of Connect never replaces a quiche   *)
(* connection that answered late, while the retry waited for the mutex.    *)
Http3IsCurrent == http3 # NoConn => http3 = conn /\ est

(* The application hears of the connection, then of responses, and of the  *)
(* timeout once and last, whichever thread notices that it is closed and   *)
(* whichever handler is still waiting for the mutex.                       *)
InOrder(heard, greeted, over) ==
  /\ greeted => heard # <<>>
  /\ \A i \in DOMAIN heard : heard[i] = "Connect" <=> i = 1 /\ greeted
  /\ \A i \in DOMAIN heard : heard[i] = "Data" => greeted
  /\ \A i \in DOMAIN heard : heard[i] = "Timeout" => i = Len(heard)
  /\ over <=> heard # <<>> /\ heard[Len(heard)] = "Timeout"

EventOrder == InOrder(Heard, connected, timeout)

(* An application that makes its requests once it has heard Connect is     *)
(* safe: from then on no thread hands quiche a null connection, although   *)
(* the sender flushes one before Connect has made it, a retry may fail to  *)
(* make the next, and a request made too early has no HTTP/3 layer.        *)
HeardIsUsable ==
  [][(\E i \in DOMAIN log : log[i] = "Connect") => nullUse' = nullUse]_vars

(* A closed connection is noticed while the client lives, by the sender's  *)
(* thread alone if need be.                                                *)
CloseIsNoticed ==
  \A k \in 1..MaxConns :
    conn = k /\ life = "closed" ~> (timeout \/ conn # k \/ app = "gone")

(* A server that does not answer is tried again, as long as the client is  *)
(* open.  (quiche may fail to make the next connection.)                   *)
RetriesUntilAnswered ==
  \A k \in 1..(MaxConns - 1) :
    conn = k /\ ~est ~> (conn # k \/ est \/ closed)

-----------------------------------------------------------------------------
(* Promises of the repository that the code breaks.                        *)

(* README.md:82: "it does not leak memory".  A quiche connection should be *)
(* freed when another takes its place.                                     *)
NoneAbandoned == 1..made \subseteq {conn}
=============================================================================
