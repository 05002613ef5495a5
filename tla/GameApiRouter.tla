--------------------------- MODULE GameApiRouter ---------------------------
(***************************************************************************)
(* The decision on one parsed HTTP request: GameApiRouter::route           *)
(* (src/src/server/game_api_router.cpp) with derive_peer_identity          *)
(* (src/src/server/peer_identity.cpp), as a function of the ledger, the    *)
(* rooms and the request.                                                  *)
(*                                                                         *)
(* A request is what the checks find in it: the set of the checks it fails *)
(* ("faults"), the kind of its target, what it says about its origin and   *)
(* about the client a proxy forwards.  The order of the checks decides     *)
(* which refusal is sent and which budgets were charged before it.         *)
(***************************************************************************)
EXTENDS PeerTraffic, Sequences

CONSTANTS
    Loopback,     \* the principal of every loopback socket
    Proxies,      \* socket principals in trusted_proxy_addresses
    SeatCount     \* seats of the room a v3 session asks for

ASSUME RouterAssumption == SeatCount \in Nat

\* TargetKind.  A well-formed room id is looked up in the directory; every
\* other string in its place is one kind.
Targets == {"config", "liveness", "readiness", "lobby_directory", "snapshots_v1",
            "session_v3", "retired_session", "lobby_not_found", "unknown"}

UpgradeTargets == {"snapshots_v1", "session_v3"}

\* The checks of every request in the order route() makes them, after the
\* request was charged, ...
GeneralChecks == <<"http_version", "request_id", "forwarded_client", "header_too_large",
                   "host", "duplicate_header", "message_framing", "request_body", "origin">>
\* ... and those of an upgrade, after the upgrade was charged.
HandshakeChecks == <<"websocket_version", "websocket_handshake", "subprotocol">>

\* What X-Forwarded-For says, where it is not one canonical address.
ForwardedClientReasons == {"absent", "multiple_values", "not_canonical"}

\* The first check of a list that the request fails, or "none".
FirstFault(checks, faults) ==
    LET failed == {i \in DOMAIN checks : checks[i] \in faults} IN
    IF failed = {} THEN "none" ELSE checks[Min(failed)]

\* derive_peer_identity: trust is a matter of the socket alone; a header of a
\* direct peer is not read.  A refused forwarding has no principal of its own
\* and is charged to the socket.
derive_peer_identity(request, socket) ==
    LET proxied == socket \in Proxies
        accepted == ~ proxied \/ request.forwarded \notin ForwardedClientReasons IN
    [direct |-> ~ proxied,
     accepted |-> accepted,
     principal |-> IF proxied /\ accepted THEN request.forwarded ELSE socket]

\* room_is_serving: the runtime is active and has committed a tick.
room_is_serving(room) == room.ready

room_is_full(room) == SeatCount # 0 /\ room.session_count >= SeatCount

\* A decision: the answer ("close" is close_without_response), whether the
\* connection may be kept, the principal whose WebSocket slot was reserved,
\* and the ledger.
Answer(code, request, ledger) ==
    [disposition |-> "response", code |-> code, principal |-> "none",
     keep_alive |-> request.keep_alive /\ code # "http_version",
     ledger |-> ledger]

\* config, liveness, readiness and the directory; what is no route, or not a
\* GET, and an upgrade route without an upgrade.
RouteHttp(request, room, ledger) ==
    CASE request.target \in {"retired_session", "unknown", "lobby_not_found"} ->
            Answer(request.target, request, ledger)
      [] "method" \in request.faults
         /\ request.target \notin {"retired_session", "unknown", "lobby_not_found"} ->
            Answer("method_not_allowed", request, ledger)
      [] "method" \notin request.faults /\ request.target \in UpgradeTargets ->
            Answer("upgrade_required", request, ledger)
      [] "method" \notin request.faults /\ request.target = "readiness"
         /\ ~ room_is_serving(room) -> Answer("not_ready", request, ledger)
      [] OTHER -> Answer("ok", request, ledger)

\* Browser-origin policy of an upgrade: a direct peer must be loopback, and a
\* forwarded client must have named an allowed origin.
OriginAccepted(request, socket, identity) ==
    IF identity.direct THEN socket = Loopback ELSE request.has_origin

\* The handshake checks, the origin policy, the room's own admission and the
\* reservation of a WebSocket slot, in this order.
RouteUpgrade(request, socket, identity, room, ledger, paid, now) ==
    LET charged == consume_websocket_upgrade(ledger, identity.principal, paid, now)
        fault == FirstFault(HandshakeChecks, request.faults)
        reserved == reserve_websocket(charged.ledger, identity.principal, now)
        refusal ==
            CASE ~ charged.allowed -> "rate_limited"
              [] charged.allowed /\ fault # "none" -> fault
              [] charged.allowed /\ fault = "none"
                 /\ ~ OriginAccepted(request, socket, identity) -> "origin"
              [] charged.allowed /\ fault = "none"
                 /\ OriginAccepted(request, socket, identity) /\ ~ room_is_serving(room) ->
                    IF request.target = "snapshots_v1" THEN "not_ready" ELSE "lobby_unavailable"
              [] charged.allowed /\ fault = "none"
                 /\ OriginAccepted(request, socket, identity) /\ room_is_serving(room)
                 /\ request.target = "session_v3" /\ room_is_full(room) -> "lobby_full"
              [] OTHER -> "none" IN
    CASE refusal # "none" -> Answer(refusal, request, charged.ledger)
      [] refusal = "none" /\ ~ reserved.allowed ->
            Answer("connection_limit", request, reserved.ledger)
      [] OTHER -> [disposition |-> "upgrade", code |-> request.target,
                   principal |-> identity.principal, keep_alive |-> TRUE,
                   ledger |-> reserved.ledger]

\* route(): one request token first, whatever becomes of the request.
route(ledger, room, request, socket, paid, now) ==
    LET identity == derive_peer_identity(request, socket)
        payer == IF "target_size" \in request.faults THEN socket ELSE identity.principal
        charged == consume_http_request(ledger, payer, paid.http, now)
        faults == request.faults \cup (IF identity.accepted THEN {} ELSE {"forwarded_client"})
        fault == FirstFault(GeneralChecks, faults)
        upgrades == request.target \in UpgradeTargets /\ request.upgrade
                    /\ "method" \notin request.faults IN
    CASE "target_size" \in request.faults ->
            [disposition |-> "close", code |-> "none", principal |-> "none",
             keep_alive |-> FALSE, ledger |-> charged.ledger]
      [] "target_size" \notin request.faults /\ ~ charged.allowed ->
            Answer("rate_limited", request, charged.ledger)
      [] "target_size" \notin request.faults /\ charged.allowed /\ fault # "none" ->
            Answer(fault, request, charged.ledger)
      [] "target_size" \notin request.faults /\ charged.allowed /\ fault = "none" /\ upgrades ->
            RouteUpgrade(request, socket, identity, room, charged.ledger, paid.upgrade, now)
      [] OTHER -> RouteHttp(request, room, charged.ledger)
====
