---------------------------- MODULE GameServer ----------------------------
(***************************************************************************)
(* The network side of the process: the application's main thread          *)
(* (src/src/application/blob_royale_application.cpp), GameServer, its      *)
(* event loop (ServerExecutionContext), TcpListener, HttpSession, and the  *)
(* ledger and router they share.                                           *)
(*                                                                         *)
(* Two threads meet: the application's, which starts the server, waits and *)
(* stops it, and the server's, which runs the event loop.  On the loop a   *)
(* handler is one action; between two handlers anything that is queued may *)
(* run.  As in SessionWebSocket, an asynchronous operation is pending      *)
(* until its result is queued, and closing a socket fails what is pending  *)
(* and not what is queued.                                                 *)
(*                                                                         *)
(* A connection is an HttpSession until it is upgraded and a WebSocket     *)
(* session afterwards, which here is what it does to the server: it holds  *)
(* the leases, is registered, counts itself into its room once the         *)
(* handshake is accepted and out when it leaves (SessionWebSocket has the  *)
(* rest).  An HttpSession without an outstanding handler is destroyed: its *)
(* leases are released with it, its registration is not.                   *)
(***************************************************************************)
EXTENDS GameApiRouter, SequencesExt

CONSTANTS
    Connections,    \* bound: connections at one time
    Sockets,        \* principals of socket addresses
    Requests,       \* the requests that are sent
    MaxPipelined,   \* kPipelinedResponseMaximumCount
    MaxRequests,    \* kRequestsPerConnectionMaximumCount
    MaxTime         \* bound: units of time that pass

ASSUME GameServerAssumption ==
    /\ {MaxPipelined, MaxRequests, MaxTime} \subseteq Nat \ {0}
    /\ IsFiniteSet(Connections)
    /\ Sockets # {}
    /\ \A r \in Requests : r.keep_alive \in BOOLEAN

VARIABLES
    app,       \* the application's thread
    server,    \* GameServer and ServerExecutionContext
    listener,  \* TcpListener: started_, and its accept
    conns,     \* HttpSession, then WebSocket session, per connection
    ledger,    \* PeerTrafficPolicy
    clock

vars == <<app, server, listener, conns, ledger, clock>>

\* LobbyEntry's session_count: the sessions that counted themselves in.
SessionCount == Cardinality({c \in Connections : conns[c].counted})

Results == {"ok", "error"}

\* What the token buckets of a principal still cover.
Payments == {[http |-> FALSE, upgrade |-> FALSE], [http |-> TRUE, upgrade |-> FALSE],
             [http |-> TRUE, upgrade |-> TRUE]}

\* HttpSession, and a WebSocket session in its place.
Connection ==
    [stage : {"free", "http", "websocket", "orphan"},
     socket : Sockets,
     read : {"none", "pending"} \cup Results,
     queue : Seq(BOOLEAN),                 \* response_queue_: keep_alive of each
     write : {"none", "pending"} \cup Results,
     parsed : 0 .. MaxRequests,
     upgrading : BOOLEAN,                  \* pending_upgrade_request_
     route : UpgradeTargets \cup {"none"},
     tcp : BOOLEAN, ws : BOOLEAN,          \* the leases held
     principal : Sockets \cup {r.forwarded : r \in Requests} \cup {"none"},
     registered : BOOLEAN,                 \* session_id_
     accept : {"none", "pending"} \cup Results,
     counted : BOOLEAN,                    \* in the room's session count
     finished : BOOLEAN]

FreeConnection ==
    [stage |-> "free", socket |-> CHOOSE s \in Sockets : TRUE, read |-> "none",
     queue |-> << >>, write |-> "none", parsed |-> 0, upgrading |-> FALSE,
     route |-> "none", tcp |-> FALSE, ws |-> FALSE, principal |-> "none",
     registered |-> FALSE, accept |-> "none", counted |-> FALSE,
     finished |-> FALSE]

---------------------------------------------------------------------------
(* A connection's member functions.                                        *)

\* socket.cancel, shutdown and close.
close_socket(k) ==
    LET Failed(op) == IF op = "pending" THEN "error" ELSE op IN
    [k EXCEPT !.read = Failed(@), !.write = Failed(@), !.accept = Failed(@)]

\* HttpSession::finish and, of a WebSocket session, finish with leave_match:
\* everything the connection holds is given back.
finish(k) ==
    IF k.finished THEN k
    ELSE [close_socket(k) EXCEPT !.finished = TRUE, !.upgrading = FALSE, !.tcp = FALSE,
                                 !.ws = FALSE, !.registered = FALSE, !.counted = FALSE]

\* Handlers that keep the object alive.
HasHandler(k) ==
    \/ k.read # "none" \/ k.write # "none" \/ k.accept # "none"
    \/ k.stage = "websocket" /\ ~ k.finished

\* The last reference goes with the last handler.
Settled(k) ==
    CASE k.stage \in {"free", "orphan"} \/ HasHandler(k) -> k
      [] k.stage \notin {"free", "orphan"} /\ ~ HasHandler(k) /\ ~ k.registered
         /\ ~ k.counted -> FreeConnection
      [] OTHER -> [FreeConnection EXCEPT !.stage = "orphan", !.registered = k.registered,
                                         !.counted = k.counted]

read_next_request(k) ==
    IF k.finished \/ k.read # "none" \/ k.upgrading \/ server.stopping
       \/ Len(k.queue) >= MaxPipelined
    THEN k ELSE [k EXCEPT !.read = "pending"]

write_next_response(k) ==
    IF k.finished \/ k.write # "none" \/ k.queue = << >> THEN k
    ELSE [k EXCEPT !.write = "pending"]

enqueue_response(k, keep_alive) ==
    write_next_response([k EXCEPT !.queue = Append(@, keep_alive)])

\* begin_websocket_upgrade: the socket and both leases move to a new session,
\* which registers in the place of the old one and begins the handshake.
begin_websocket_upgrade(k) ==
    [k EXCEPT !.stage = "websocket", !.upgrading = FALSE, !.parsed = 0,
              !.registered = TRUE, !.accept = "pending"]

\* route_request with the router's decision.
Routed(k, result) ==
    LET counted == [k EXCEPT !.parsed = @ + 1]
        keep == result.keep_alive /\ counted.parsed < MaxRequests
        answered == enqueue_response(counted, keep)
        granted == [counted EXCEPT !.ws = TRUE, !.route = result.code,
                                   !.principal = result.principal] IN
    CASE result.disposition = "close" -> finish(counted)
      [] result.disposition = "upgrade" /\ counted.queue = << >> /\ counted.write = "none" ->
            begin_websocket_upgrade(granted)
      [] result.disposition = "upgrade" /\ ~ (counted.queue = << >> /\ counted.write = "none") ->
            [granted EXCEPT !.upgrading = TRUE]
      [] result.disposition = "response" ->
            IF keep THEN read_next_request(answered) ELSE answered

\* response_written without an error: the next response, the upgrade that
\* waited for the last one, or the next request.
Written(k) ==
    LET popped == [k EXCEPT !.queue = Tail(@)] IN
    CASE ~ Head(k.queue) -> finish(popped)
      [] Head(k.queue) /\ popped.queue # << >> -> write_next_response(popped)
      [] Head(k.queue) /\ popped.queue = << >> /\ k.upgrading -> begin_websocket_upgrade(popped)
      [] OTHER -> read_next_request(popped)

\* request_stop, graceful: an HttpSession closes its socket and leaves the
\* rest to its handlers; a WebSocket session leaves its room and begins to
\* close.
StopGracefully(k) ==
    CASE ~ k.registered \/ k.stage = "orphan" -> k
      [] k.registered /\ k.stage = "http" -> close_socket(k)
      [] OTHER -> [k EXCEPT !.counted = FALSE]

\* request_stop, immediate.
StopNow(k) == IF ~ k.registered \/ k.stage = "orphan" THEN k ELSE Settled(finish(k))

---------------------------------------------------------------------------
(* What a handler leaves behind.                                           *)

Looping == server.run = "loop" /\ ~ server.io_stopped

\* TcpAdmissionLease and WebSocketAdmissionLease: what the connection held
\* before and does not hold after is released.
Released(l, before, after, now) ==
    LET web == IF before.ws /\ ~ after.ws THEN close_websocket(l, before.principal, now) ELSE l IN
    IF before.tcp /\ ~ after.tcp THEN close_tcp_connection(web, before.socket, now) ELSE web

\* stop_if_drained, which unregister_session calls.  An upgrade unregisters
\* the old session before it registers the new one.
DrainedBy(c, after) ==
    /\ server.stopping
    /\ conns[c].registered
    /\ ~ after.registered \/ (conns[c].stage = "http" /\ after.stage = "websocket")
    /\ \A d \in Connections \ {c} : ~ conns[d].registered

\* A handler of connection c leaves it as "before" with its leases in "l" and
\* as "after" without the ones it dropped.
Became(c, l, before, after) ==
    LET k == Settled(after) IN
    /\ conns' = [conns EXCEPT ![c] = k]
    /\ ledger' = Released(l, before, k, clock)
    /\ server' = [server EXCEPT !.io_stopped = @ \/ DrainedBy(c, k)]
    /\ UNCHANGED <<app, listener, clock>>

---------------------------------------------------------------------------
(* HttpSession's handlers.                                                 *)

\* What the router may decide on a request that a socket sends.
RouterDecisions(socket) ==
    {route(ledger, [ready |-> serving, session_count |-> SessionCount], request, socket, paid, clock) :
        request \in Requests, serving \in BOOLEAN, paid \in Payments}

\* header_read, with the preflight and the parser: no header, or a request.
HeaderRead(c) ==
    LET k == [conns[c] EXCEPT !.read = "none"] IN
    /\ Looping /\ k.stage = "http" /\ conns[c].read \in Results
    /\ \/ Became(c, ledger, k, finish(k))
       \/ /\ conns[c].read = "ok" /\ ~ k.finished
          /\ \E result \in RouterDecisions(k.socket) :
                LET held == [k EXCEPT !.ws = (result.disposition = "upgrade"),
                                      !.principal = result.principal] IN
                Became(c, result.ledger, held, Routed(k, result))

ResponseWritten(c) ==
    LET k == [conns[c] EXCEPT !.write = "none"] IN
    /\ Looping /\ k.stage = "http"
    /\ \/ /\ conns[c].write \in Results
          /\ Became(c, ledger, k, finish(k))
       \/ /\ conns[c].write = "ok"
          /\ Became(c, ledger, k, IF k.finished THEN k ELSE Written(k))

---------------------------------------------------------------------------
(* The WebSocket session, by what it does to the server.                   *)

\* accepted: a v3 session opens its match session and is counted in, whatever
\* happened since the upgrade began.
Accepted(c) ==
    LET k == [conns[c] EXCEPT !.accept = "none"] IN
    /\ Looping
    /\ \/ /\ conns[c].accept \in Results
          /\ Became(c, ledger, k, finish(k))
       \/ /\ conns[c].accept = "ok"
          /\ Became(c, ledger, k, [k EXCEPT !.counted = (k.route = "session_v3")])

\* The session ends: the peer closes, a deadline passes, a close completes.
WebSocketEnds(c) ==
    LET k == conns[c] IN
    /\ Looping /\ k.stage = "websocket" /\ ~ k.finished
    /\ k.accept # "pending" \/ server.stopping
    /\ Became(c, ledger, k, finish(k))

---------------------------------------------------------------------------
(* TcpListener.                                                            *)

\* accept_next.
AcceptNext == IF listener.started /\ ~ server.stopping THEN "pending" ELSE "none"

\* A connection arrives, or the accept fails.
AcceptEnds ==
    /\ Looping /\ listener.accept = "pending"
    /\ listener' = [listener EXCEPT !.accept = "ok"]
    /\ UNCHANGED <<app, server, conns, ledger, clock>>

\* accepted: a peer that is gone, not trusted or over a limit is closed and
\* the next one awaited.  Nothing looks at stopping_ here.
Accept ==
    /\ Looping /\ listener.accept = "ok"
    /\ listener' = [listener EXCEPT !.accept = AcceptNext]
    /\ \/ UNCHANGED <<conns, ledger>>
       \/ \E s \in Sockets :
             LET reserved == reserve_tcp_connection(ledger, s, clock)
                 Free == {c \in Connections : conns[c].stage = "free"}
                 fresh == Settled(read_next_request(
                             [FreeConnection EXCEPT !.stage = "http", !.socket = s,
                                                    !.tcp = TRUE, !.registered = TRUE])) IN
             \/ /\ ~ reserved.allowed
                /\ ledger' = reserved.ledger
                /\ UNCHANGED conns
             \/ /\ reserved.allowed /\ Free # {}
                /\ conns' = [conns EXCEPT ![CHOOSE c \in Free : TRUE] = fresh]
                /\ ledger' = Released(reserved.ledger, [fresh EXCEPT !.tcp = TRUE, !.socket = s],
                                      fresh, clock)
    /\ UNCHANGED <<app, server, clock>>

\* The accept failed: the listener was closed, the peer gave up, or the
\* server fails.
AcceptFails ==
    /\ Looping /\ listener.accept \in Results
    /\ \/ /\ ~ listener.started \/ server.stopping
          /\ listener' = [listener EXCEPT !.accept = "none"]
          /\ UNCHANGED server
       \/ /\ listener.started /\ ~ server.stopping
          /\ listener' = [listener EXCEPT !.accept = AcceptNext]
          /\ UNCHANGED server
       \/ /\ listener.started /\ ~ server.stopping
          /\ listener' = [listener EXCEPT !.accept = "none"]
          /\ server' = [server EXCEPT !.posted = @ \cup {"fail"}]
    /\ UNCHANGED <<app, conns, ledger, clock>>

\* TcpListener::stop.
StopListener ==
    listener' = [listener EXCEPT !.started = FALSE,
                                 !.accept = IF @ = "pending" THEN "error" ELSE @]

---------------------------------------------------------------------------
(* ServerExecutionContext.                                                 *)

\* Every connection becomes what "stopped" makes of it, one after the other.
\* Each counts off the slots it gives back, and what one gives back does not
\* matter to the next: the slots add up.
StopSessions(stopped(_)) ==
    LET after == [c \in Connections |-> stopped(conns[c])]
        Tcp == {c \in Connections : conns[c].tcp /\ ~ after[c].tcp}
        Ws == {c \in Connections : conns[c].ws /\ ~ after[c].ws}
        TcpOf(p) == {c \in Tcp : conns[c].socket = p}
        WsOf(p) == {c \in Ws : conns[c].principal = p} IN
    /\ conns' = after
    /\ ledger' = [peers |-> [p \in Tracked(ledger) |->
                     [tcp |-> ledger.peers[p].tcp - Cardinality(TcpOf(p)),
                      ws |-> ledger.peers[p].ws - Cardinality(WsOf(p)),
                      last |-> IF TcpOf(p) = {} /\ WsOf(p) = {} THEN ledger.peers[p].last
                               ELSE clock]],
                  tcp |-> ledger.tcp - Cardinality(Tcp),
                  ws |-> ledger.ws - Cardinality(Ws)]

begin_stop_on_executor ==
    /\ Looping /\ "stop" \in server.posted
    /\ IF server.stopping
       THEN /\ server' = [server EXCEPT !.posted = @ \ {"stop"}]
            /\ UNCHANGED <<listener, conns, ledger>>
       ELSE /\ StopListener
            /\ StopSessions(StopGracefully)
            /\ LET drained == \A c \in Connections : ~ conns[c].registered IN
               server' = [server EXCEPT !.posted = @ \ {"stop"}, !.stopping = TRUE,
                                        !.io_stopped = drained, !.timer = ~ drained]
    /\ UNCHANGED <<app, clock>>

\* The shutdown deadline.
ShutdownDeadline ==
    /\ Looping /\ server.timer
    /\ StopSessions(StopNow)
    /\ server' = [server EXCEPT !.timer = FALSE, !.io_stopped = TRUE]
    /\ UNCHANGED <<app, listener, clock>>

fail_on_executor ==
    /\ Looping /\ "fail" \in server.posted
    /\ StopListener
    /\ StopSessions(StopNow)
    /\ server' = [server EXCEPT !.posted = @ \ {"fail"}, !.failure = TRUE,
                                !.stopping = TRUE, !.io_stopped = TRUE]
    /\ UNCHANGED <<app, clock>>

---------------------------------------------------------------------------
(* GameServer::run, on the server's thread.                                *)

RunBegins ==
    /\ server.run = "begin"
    /\ \/ /\ server.state = "ready"
          /\ server' = [server EXCEPT !.state = "starting", !.run = "listen"]
       \/ /\ server.state = "stopped"
          /\ server' = [server EXCEPT !.run = "returned"]
    /\ UNCHANGED <<app, listener, conns, ledger, clock>>

\* The listener opens, binds and listens, or throws.
Listen ==
    /\ server.run = "listen"
    /\ \/ /\ listener' = [started |-> TRUE, accept |-> "pending"]
          /\ server' = [server EXCEPT !.run = "announce"]
       \/ /\ server' = [server EXCEPT !.state = "failed", !.run = "returned", !.failure = TRUE,
                                      !.io_stopped = TRUE]
          /\ UNCHANGED listener
    /\ UNCHANGED <<app, conns, ledger, clock>>

\* Mutant of Announce: the stop that came meanwhile is overwritten.
AnnounceOver ==
    /\ server.run = "announce"
    /\ server' = [server EXCEPT !.run = "loop", !.state = "running"]
    /\ UNCHANGED <<app, listener, conns, ledger, clock>>

\* Running, unless stop() came first; then the loop.
Announce ==
    /\ server.run = "announce"
    /\ server' = [server EXCEPT !.run = "loop",
                                !.state = IF @ = "starting" THEN "running" ELSE @]
    /\ UNCHANGED <<app, listener, conns, ledger, clock>>

\* The loop returns once it is stopped; a retained failure is rethrown.
RunReturns ==
    /\ server.run = "loop" /\ server.io_stopped
    /\ server' = [server EXCEPT !.run = "returned",
                                !.state = IF server.failure THEN "failed" ELSE "stopped"]
    /\ UNCHANGED <<app, listener, conns, ledger, clock>>

---------------------------------------------------------------------------
(* BlobRoyaleApplication::run, on the application's thread.                *)

\* Every room's runtime starts, or one throws before the server is started;
\* then the server's thread.
AppStarts ==
    /\ app = "start"
    /\ \/ app' = "wait" /\ server' = [server EXCEPT !.run = "begin"]
       \/ app' = "stop" /\ UNCHANGED server
    /\ UNCHANGED <<listener, conns, ledger, clock>>

\* wait_for_startup_resolution, or its deadline.
AppResolves ==
    /\ app = "wait"
    /\ \/ app' = "control" /\ server.state = "running"
       \/ app' = "stop"
    /\ UNCHANGED <<server, listener, conns, ledger, clock>>

\* ApplicationControlWait::wait ends with a signal or with the server.
AppWakes ==
    /\ app = "control"
    /\ app' = "stop"
    /\ UNCHANGED <<server, listener, conns, ledger, clock>>

\* Mutant of AppStops: nothing is posted to a server that is only starting.
AppStopsRunning ==
    /\ app = "stop"
    /\ app' = IF server.state = "running" THEN "post" ELSE "join"
    /\ server' = CASE server.state = "ready" ->
                        [server EXCEPT !.state = "stopped", !.io_stopped = TRUE]
                   [] server.state \in {"starting", "running"} ->
                        [server EXCEPT !.state = "stopping"]
                   [] OTHER -> server
    /\ UNCHANGED <<listener, conns, ledger, clock>>

\* GameServer::stop, under the lifecycle locks, ...
AppStops ==
    /\ app = "stop"
    /\ app' = IF server.state \in {"starting", "running"} THEN "post" ELSE "join"
    /\ server' = CASE server.state = "ready" ->
                        [server EXCEPT !.state = "stopped", !.io_stopped = TRUE]
                   [] server.state \in {"starting", "running"} ->
                        [server EXCEPT !.state = "stopping"]
                   [] OTHER -> server
    /\ UNCHANGED <<listener, conns, ledger, clock>>

\* ... and after them ServerExecutionContext::request_stop.
AppPosts ==
    /\ app = "post"
    /\ app' = "join"
    /\ server' = [server EXCEPT !.posted = @ \cup {"stop"}]
    /\ UNCHANGED <<listener, conns, ledger, clock>>

\* The server's thread is joined, if it was started; then every runtime is
\* stopped, which SimulationRuntime shows to return.
AppJoins ==
    /\ app = "join"
    /\ server.run \in {"none", "returned"}
    /\ app' = "done"
    /\ UNCHANGED <<server, listener, conns, ledger, clock>>

---------------------------------------------------------------------------
(* The world outside.                                                      *)

\* A read, a write or a handshake ends.  Its handler takes a result that is
\* not an error for either, so that "error" here is the one a closed socket
\* leaves.
OperationEnds(c) ==
    /\ Looping
    /\ \/ /\ conns[c].read = "pending"
          /\ conns' = [conns EXCEPT ![c].read = "ok"]
       \/ /\ conns[c].write = "pending"
          /\ conns' = [conns EXCEPT ![c].write = "ok"]
       \/ /\ conns[c].accept = "pending"
          /\ conns' = [conns EXCEPT ![c].accept = "ok"]
    /\ UNCHANGED <<app, server, listener, ledger, clock>>

TimePasses ==
    /\ Looping /\ clock < MaxTime
    /\ clock' = clock + 1
    /\ UNCHANGED <<app, server, listener, conns, ledger>>

---------------------------------------------------------------------------

Init ==
    /\ app = "start"
    /\ server = [state |-> "ready", run |-> "none", posted |-> {}, stopping |-> FALSE,
                 io_stopped |-> FALSE, failure |-> FALSE, timer |-> FALSE]
    /\ listener = [started |-> FALSE, accept |-> "none"]
    /\ conns = [c \in Connections |-> FreeConnection]
    /\ ledger = EmptyLedger
    /\ clock = 0

Application == AppStarts \/ AppResolves \/ AppWakes \/ AppStops \/ AppPosts \/ AppJoins

\* The process has ended.
Ended == app = "done" /\ UNCHANGED vars

Next ==
    \/ Application
    \/ RunBegins \/ Listen \/ Announce \/ RunReturns
    \/ begin_stop_on_executor \/ ShutdownDeadline \/ fail_on_executor
    \/ AcceptEnds \/ Accept \/ AcceptFails
    \/ \E c \in Connections : HeaderRead(c) \/ ResponseWritten(c) \/ Accepted(c)
                              \/ WebSocketEnds(c) \/ OperationEnds(c)
    \/ TimePasses
    \/ Ended

Spec == Init /\ [][Next]_vars

\* The application's own steps are scheduled, and so is the server's thread:
\* it comes to what was posted and to the shutdown deadline.  That the
\* application leaves its control wait is the operator's to say.
Fairness ==
    /\ WF_vars(RunBegins \/ Listen \/ Announce \/ RunReturns
               \/ begin_stop_on_executor \/ ShutdownDeadline \/ fail_on_executor)
    /\ WF_vars(AppStops \/ AppPosts \/ AppJoins)

FairSpec == Spec /\ Fairness

---------------------------------------------------------------------------
(* Properties.                                                             *)

\* The server, the connections and the room have their types.
TypeOK ==
    /\ app \in {"start", "wait", "control", "stop", "post", "join", "done"}
    /\ server \in [state : {"ready", "starting", "running", "stopping", "stopped", "failed"},
                   run : {"none", "begin", "listen", "announce", "loop", "returned"},
                   posted : SUBSET {"stop", "fail"}, stopping : BOOLEAN,
                   io_stopped : BOOLEAN, failure : BOOLEAN, timer : BOOLEAN]
    /\ listener \in [started : BOOLEAN, accept : {"none", "pending"} \cup Results]
    /\ conns \in [Connections -> Connection]
    /\ \A c \in Connections : Len(conns[c].queue) <= MaxPipelined
    /\ clock \in 0 .. MaxTime

\* Every slot counted is a slot held, globally and for each principal, and the
\* principal of a held slot is tracked: pruning and eviction never take a peer
\* that something will still be released to, and no path out of a connection
\* forgets a lease or releases it twice.
SlotsAreConserved ==
    LET Tcp == {c \in Connections : conns[c].tcp}
        Ws == {c \in Connections : conns[c].ws}
        Peers == Tracked(ledger) IN
    /\ ledger.tcp = Cardinality(Tcp) /\ ledger.ws = Cardinality(Ws)
    /\ \A c \in Tcp : conns[c].socket \in Peers
    /\ \A c \in Ws : conns[c].principal \in Peers
    /\ \A p \in Peers :
          /\ ledger.peers[p].tcp = Cardinality({c \in Tcp : conns[c].socket = p})
          /\ ledger.peers[p].ws = Cardinality({c \in Ws : conns[c].principal = p})

\* While the server is not stopping, a registered connection has a handler
\* outstanding: no path leaves a connection that nothing will ever continue,
\* close or unregister.
RegisteredIsAlive ==
    ~ server.stopping =>
        \A c \in Connections : conns[c].registered => HasHandler(conns[c])

\* A WebSocket begins only once every response before it has been written.
UpgradeAfterResponses ==
    \A c \in Connections :
        conns[c].stage = "websocket" => conns[c].write = "none" /\ conns[c].read = "none"

\* A stop is never undone: whichever of run() and stop() comes first, the
\* server does not run after it was told to stop, and ends once.
StopIsNotLost ==
    [][/\ server.state = "stopping" => server'.state \in {"stopping", "stopped", "failed"}
       /\ server.state \in {"stopped", "failed"} => server'.state = server.state]_vars

\* Whenever the application decides to stop, whatever the server is doing and
\* whatever its peers do, both threads end.
ShutdownCompletes == (app = "stop") ~> (app = "done")

\* Whatever connects, upgrades, fails or is shut down, every slot is accounted
\* for, nobody is registered without a handler, and an upgrade overtakes no
\* response.
ConnectionsAreAccounted == TypeOK /\ SlotsAreConserved /\ RegisteredIsAlive /\ UpgradeAfterResponses
====
