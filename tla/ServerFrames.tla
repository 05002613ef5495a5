--------------------------- MODULE ServerFrames ---------------------------
(***************************************************************************)
(* What the server puts on the wire (src/src/protocol): the welcome, the   *)
(* snapshots of a session with the tuning result each carries, the lobby   *)
(* directory and error responses, and the conformance the published frames *)
(* must have (protocol_v3_frame_conformance.cpp).                          *)
(*                                                                         *)
(*   Step, Publish      the worker: a tick's tuning decisions reach the    *)
(*                      mailbox before its snapshot is published           *)
(*   TakeSnapshot       a session takes the latest snapshot for delivery   *)
(*   start_snapshot_write   ... later claims a result and encodes          *)
(*                                                                         *)
(* An encoder returns the set of the message it encodes, empty where it    *)
(* throws a ProtocolEncodingError, which ends the session.  Text, sizes in *)
(* bytes and the timestamp are left out.                                   *)
(***************************************************************************)
EXTENDS Terrain, FiniteSets, SequencesExt

CONSTANTS
    ComponentKinds,         \* ComponentRegistry, by name
    Driver,                 \* the session's controller
    Worlds,                 \* [stores, seats] the engine may step to
    MapTerrains,            \* what maps author as terrain
    TickLimit,              \* bounds the run
    SeatMaximum,            \* kLobbySeatCountMaximum
    EntityLimit,            \* kSnapshotEntityLimit
    RetryMaximum,           \* kMaximumRetryAfterMilliseconds
    SafeMaximum             \* kMaximumSafeInteger

\* A world the engine publishes: no more seats and entities than it has room
\* for, an entity's id is positive, and so are the generations it holds.
WorldGiven(w) ==
    /\ w.seats \in Seq({"empty", "controller", "npc", "vacant_npc"}) /\ Len(w.seats) <= SeatMaximum
    /\ \A k \in ComponentKinds : DOMAIN w.stores[k] \subseteq Nat \ {0} /\ IsFiniteSet(DOMAIN w.stores[k])
    /\ Cardinality(UNION {DOMAIN w.stores[k] : k \in ComponentKinds}) <= EntityLimit
    /\ \A k \in ComponentKinds \cap {"controllable", "shield"} : \A e \in DOMAIN w.stores[k] : w.stores[k][e] > 0

ASSUME FramesAssumption ==
    /\ IsFiniteSet(ComponentKinds)
    /\ \A w \in Worlds : WorldGiven(w)
    /\ \A t \in MapTerrains : TerrainGiven(t)
    /\ TickLimit \in Nat /\ SafeMaximum \in Nat /\ TickLimit < SafeMaximum
    /\ EntityLimit \in Nat /\ SeatMaximum \in Nat \ {0} /\ RetryMaximum \in Nat \ {0}

VARIABLES
    made,           \* a stepped snapshot not yet published: at most one
    published,      \* the latest published snapshot
    exchange,       \* the controller's undelivered tuning result: at most one
    registered,     \* the driver is in the controller directory
    held,           \* the snapshot the session is about to write: at most one
    delivered,      \* snapshots delivered, by the session's count; -1 before the welcome
    shown,          \* the tick of the last snapshot taken
    sent,           \* the message written by the last step: at most one
    refused         \* an encoder has refused

frameVars == <<made, published, exchange, registered, held, delivered, shown, sent, refused>>

Snapshot(tick, world, movement) ==
    [tick |-> tick, stores |-> world.stores, seats |-> world.seats, movement |-> movement]
Start == [revision |-> 0, effective |-> 0]

---------------------------------------------------------------------------
(* The tuning result.                                                      *)

\* definition_of: the outcomes a tick commits, and the refusals at admission.
CommittedStatuses == {"applied", "superseded", "stale_revision", "not_seated", "revision_exhausted",
                      "unsupported_tuning"}
RefusalStatuses == {"rate_limited", "mailbox_full", "mailbox_evicted"}
Result(status, tick, revision, retry) ==
    [status |-> status, decision_tick |-> tick, revision |-> revision, retry |-> retry]

\* MovementTuningWireResult::create
wire_result_accepted(r) ==
    /\ IF r.status \in CommittedStatuses
       THEN /\ r.decision_tick # {} /\ \A t \in r.decision_tick : t \in 1 .. SafeMaximum
            /\ r.revision # {} /\ \A n \in r.revision : n \in 0 .. SafeMaximum
            /\ r.status \in {"applied", "superseded"} => 0 \notin r.revision
            /\ r.status = "revision_exhausted" => r.revision = {SafeMaximum}
       ELSE r.decision_tick = {} /\ r.revision = {}
    /\ IF r.status = "rate_limited" THEN r.retry # {} /\ \A n \in r.retry : n \in 1 .. 500 ELSE r.retry = {}

\* What a tick may decide about the request in the mailbox: the tuning state
\* after it, and the decision.
Decisions(movement, tick) ==
    LET next == [revision |-> movement.revision + 1, effective |-> tick] IN
    (IF movement.revision < SafeMaximum
     THEN {[movement |-> next, result |-> Result(s, {tick}, {next.revision}, {})] : s \in {"applied", "superseded"}}
     ELSE {[movement |-> movement, result |-> Result("revision_exhausted", {tick}, {SafeMaximum}, {})]})
    \cup {[movement |-> movement, result |-> Result(s, {tick}, {movement.revision}, {})] :
            s \in {"stale_revision", "not_seated", "unsupported_tuning"}}

\* Mutant of claim_tuning_result: a decision is handed out as soon as it is made.
ClaimUncovered(results, tick) == results

\* CommandMailbox::claim_tuning_result: a decision only once a snapshot of its
\* tick or a later one carries it.
claim_tuning_result(results, tick) == {r \in results : \A t \in r.decision_tick : t <= tick}

---------------------------------------------------------------------------
(* Snapshot messages.                                                      *)

\* WorldSnapshot::from_world: the roster is the union of the stores.
Ascending(S) == CHOOSE s \in [1 .. Cardinality(S) -> S] : \A i, j \in DOMAIN s : i < j => s[i] < s[j]
roster_of(stores) == Ascending(UNION {DOMAIN stores[k] : k \in ComponentKinds})
entries_of(store) == Ascending(DOMAIN store)

\* Mutant of emit_component_of_kind: an entry once looked at is passed.
EmitAndAdvance(entries, cursor, entity) ==
    LET at == Min({c \in cursor .. Len(entries) + 1 : c > Len(entries) \/ entries[c] >= entity})
    IN  IF at > Len(entries) THEN [emitted |-> FALSE, cursor |-> at]
        ELSE [emitted |-> entries[at] = entity, cursor |-> at + 1]

\* emit_component_of_kind: the kind's cursor passes the entries of earlier
\* entities and takes the entity's own.
emit_component_of_kind(entries, cursor, entity) ==
    LET at == Min({c \in cursor .. Len(entries) + 1 : c > Len(entries) \/ entries[c] >= entity})
    IN  IF at > Len(entries) \/ entries[at] # entity THEN [emitted |-> FALSE, cursor |-> at]
        ELSE [emitted |-> TRUE, cursor |-> at + 1]

\* The encoding of a component value: an input generation is positive, and a
\* controller that has left the directory still has a name.
component_value(kind, value) ==
    IF kind = "controllable" THEN [value |-> value, name |-> IF registered THEN "player" ELSE "unknown"]
    ELSE [value |-> encode_json_number(value), name |-> ""]
component_accepted(kind, value) == kind \in {"controllable", "shield"} => value > 0

\* encode_entity, one after another with the cursors carried along.
encode_entity(snapshot, walk, entity) ==
    LET emit == [k \in ComponentKinds |->
                   emit_component_of_kind(entries_of(snapshot.stores[k]), walk.cursors[k], entity)]
        kinds == {k \in ComponentKinds : emit[k].emitted}
    IN  [cursors |-> [k \in ComponentKinds |-> emit[k].cursor],
         encoded |-> Append(walk.encoded,
             [id |-> entity, components |-> [k \in kinds |-> component_value(k, snapshot.stores[k][entity])]])]
encode_entities(snapshot) ==
    LET roster == roster_of(snapshot.stores)
        walk[i \in 0 .. Len(roster)] ==
           IF i = 0 THEN [cursors |-> [k \in ComponentKinds |-> 1], encoded |-> <<>>]
           ELSE encode_entity(snapshot, walk[i - 1], roster[i])
    IN  walk[Len(roster)].encoded

\* encode_seat: a vacant declaration has a kind and no controller.
encode_seat(seat) ==
    [kind |-> CASE seat \in {"npc", "vacant_npc"} -> "npc" [] OTHER -> seat, driven |-> seat \in {"controller", "npc"}]
encode_seats(seats) == [i \in DOMAIN seats |-> encode_seat(seats[i])]

\* encode_movement refuses a state the snapshot does not cover.
movement_accepted(movement, tick) ==
    /\ movement.revision <= SafeMaximum /\ movement.effective <= tick
    /\ movement.revision = 0 <=> movement.effective = 0

\* encode_tuning_result likewise.
tuning_result_accepted(results, snapshot) ==
    \A r \in results : /\ wire_result_accepted(r)
                       /\ \A t \in r.decision_tick : t <= snapshot.tick
                       /\ \A n \in r.revision : n <= snapshot.movement.revision

Message(schema, sequence, data) == [schema |-> schema, sequence |-> sequence, data |-> data]

encode_snapshot_message_v3(snapshot, results, sequence) ==
    IF /\ sequence >= 2 /\ sequence <= SafeMaximum /\ snapshot.tick > 0
       /\ Len(roster_of(snapshot.stores)) <= EntityLimit
       /\ \A k \in ComponentKinds : \A e \in DOMAIN snapshot.stores[k] : component_accepted(k, snapshot.stores[k][e])
       /\ Len(snapshot.seats) <= SeatMaximum
       /\ movement_accepted(snapshot.movement, snapshot.tick)
       /\ tuning_result_accepted(results, snapshot)
    THEN {Message("snapshot", sequence,
                  [tick |-> snapshot.tick, entities |-> encode_entities(snapshot), seats |-> encode_seats(snapshot.seats),
                   movement |-> snapshot.movement, tuning_result |-> results])}
    ELSE {}

\* find_controlled_body, and the welcome for it.
controlled_bodies(snapshot) == DOMAIN snapshot.stores["controllable"] \cap DOMAIN snapshot.stores["physics_body"]
encode_welcome_message(entity, terrain) ==
    {Message("welcome", 1, [entity |-> entity, controller |-> Driver, terrain |-> encode_terrain(terrain)])}

---------------------------------------------------------------------------
(* Responses.                                                              *)

\* lobby_listing_of: one snapshot gives the row; the session count is the
\* server's own.
lobby_listing_of(snapshot, sessions, maximum) ==
    [tick |-> snapshot.tick, seat_count |-> Len(snapshot.seats), maximum |-> maximum,
     filled |-> Cardinality({i \in DOMAIN snapshot.seats : snapshot.seats[i] \in {"controller", "npc", "vacant_npc"}}),
     npcs |-> Cardinality({i \in DOMAIN snapshot.seats : snapshot.seats[i] \in {"npc", "vacant_npc"}}),
     sessions |-> sessions]

\* require_listing, for one row.
listing_accepted(l) ==
    /\ l.tick <= SafeMaximum /\ l.seat_count <= SeatMaximum /\ l.maximum \in 1 .. SeatMaximum
    /\ l.seat_count <= l.maximum /\ l.filled <= l.seat_count /\ l.npcs <= l.seat_count /\ l.sessions <= SeatMaximum
encode_lobby_directory_message(l) == IF listing_accepted(l) THEN {Message("directory", 0, l)} ELSE {}

\* The registry of http_error.cpp: status, whether a retry makes sense, and
\* the details that go with the code.
ErrorRegistry ==
    [connection_limit_reached |-> <<429, TRUE, {"retry_after_ms", "limit"}>>, header_too_large |-> <<431, FALSE, {}>>,
     invalid_request |-> <<400, FALSE, {"reason"}>>, invalid_request_id |-> <<400, FALSE, {}>>,
     method_not_allowed |-> <<405, FALSE, {}>>, origin_rejected |-> <<403, FALSE, {}>>,
     payload_too_large |-> <<413, FALSE, {}>>, rate_limited |-> <<429, TRUE, {"retry_after_ms"}>>,
     route_not_found |-> <<404, FALSE, {}>>, subprotocol_required |-> <<400, FALSE, {"reason"}>>,
     upgrade_required |-> <<426, FALSE, {}>>, websocket_version_unsupported |-> <<400, FALSE, {}>>,
     internal_failure |-> <<500, FALSE, {"reason"}>>, not_ready |-> <<503, TRUE, {"retry_after_ms"}>>]
OptionalDetails == [invalid_request |-> {"reason"}]

\* HttpError::create: the details given are the ones the code takes.
http_error_accepted(code, details) ==
    LET taken == ErrorRegistry[code][3] IN
    /\ DOMAIN details \subseteq taken
    /\ taken \ DOMAIN details \subseteq (IF code \in DOMAIN OptionalDetails THEN OptionalDetails[code] ELSE {})
    /\ "retry_after_ms" \in DOMAIN details => details.retry_after_ms \in 1 .. RetryMaximum
    /\ "limit" \in DOMAIN details => details.limit > 0

\* retry_after_milliseconds: from a bucket's deficit, which may be anything.
retry_after_milliseconds(deficit) == IF deficit < 1 THEN 1 ELSE IF deficit > RetryMaximum THEN RetryMaximum ELSE deficit

\* The errors the router answers with, at their call sites.
NoDetails == [d \in {} |-> 0]
RouterErrors ==
    {<<"rate_limited", [retry_after_ms |-> retry_after_milliseconds(d)]>> : d \in {0, 1, RetryMaximum + 1}}
    \cup {<<"connection_limit_reached", [retry_after_ms |-> retry_after_milliseconds(0), limit |-> 1]>>,
          <<"not_ready", [retry_after_ms |-> 1]>>,
          <<"invalid_request", [reason |-> 1]>>, <<"subprotocol_required", [reason |-> 1]>>}
    \cup {<<code, NoDetails>> : code \in {"invalid_request_id", "header_too_large", "payload_too_large",
            "origin_rejected", "route_not_found", "method_not_allowed", "upgrade_required",
            "websocket_version_unsupported"}}

encode_error_response_v3(code, details) ==
    IF http_error_accepted(code, details)
    THEN {Message("error", 0, [code |-> code, status |-> ErrorRegistry[code][1], retryable |-> ErrorRegistry[code][2],
                               details |-> DOMAIN details])}
    ELSE {}

---------------------------------------------------------------------------
(* The actions.                                                            *)

EmptyWorld == [stores |-> [k \in ComponentKinds |-> [e \in {} |-> 0]], seats |-> <<>>]

FramesInit ==
    /\ made = {} /\ published = Snapshot(0, EmptyWorld, Start) /\ exchange = {}
    /\ registered = TRUE /\ held = {} /\ delivered = -1 /\ shown = 0 /\ sent = {} /\ refused = FALSE

\* The worker steps: with a request in its batch it decides it, and the
\* decision is in the mailbox before anyone sees the snapshot.
Step ==
    /\ made = {} /\ published.tick < TickLimit
    /\ \E w \in Worlds :
          \/ made' = {Snapshot(published.tick + 1, w, published.movement)} /\ UNCHANGED exchange
          \/ /\ exchange = {}
             /\ \E d \in Decisions(published.movement, published.tick + 1) :
                   made' = {Snapshot(published.tick + 1, w, d.movement)} /\ exchange' = {d.result}
    /\ sent' = {} /\ UNCHANGED <<published, registered, held, delivered, shown, refused>>

Publish ==
    /\ made # {} /\ published' \in made /\ made' = {}
    /\ sent' = {} /\ UNCHANGED <<exchange, registered, held, delivered, shown, refused>>

\* A request is refused at the mailbox, without a tick.
RefuseRequest ==
    /\ exchange = {}
    /\ \E s \in RefusalStatuses : exchange' = {Result(s, {}, {}, IF s = "rate_limited" THEN {500} ELSE {})}
    /\ sent' = {} /\ UNCHANGED <<made, published, registered, held, delivered, shown, refused>>

\* The controller leaves the directory while its body is still published.
LeaveDirectory ==
    /\ registered /\ registered' = FALSE
    /\ sent' = {} /\ UNCHANGED <<made, published, exchange, held, delivered, shown, refused>>

\* The answer of an encoder: a message, or the end of the session.
Send(messages) == IF messages = {} THEN refused' = TRUE /\ UNCHANGED sent ELSE sent' = messages /\ UNCHANGED refused

\* The first frame of a session, over any map that was accepted.
WriteWelcome ==
    /\ delivered = -1 /\ controlled_bodies(published) # {}
    /\ \E t \in MapTerrains : /\ terrain_accepted(t)
                              /\ Send(encode_welcome_message(Min(controlled_bodies(published)), t))
    /\ delivered' = 0
    /\ UNCHANGED <<made, published, exchange, registered, held, shown>>

TakeSnapshot ==
    /\ delivered >= 0 /\ held = {} /\ published.tick > shown
    /\ held' = {published} /\ shown' = published.tick
    /\ sent' = {} /\ UNCHANGED <<made, published, exchange, registered, delivered, refused>>

\* start_snapshot_write: claims for the tick of the snapshot it holds, which
\* may no longer be the latest.
start_snapshot_write ==
    /\ ~ refused
    /\ \E s \in held : \E results \in {claim_tuning_result(exchange, s.tick)} :
          /\ exchange' = exchange \ results
          /\ Send(encode_snapshot_message_v3(s, results, (delivered + 1) + 1))
    /\ held' = {} /\ delivered' = delivered + 1
    /\ UNCHANGED <<made, published, registered, shown>>

\* A request for the directory, or one the router turns away.
AnswerRequest ==
    /\ \/ \E sessions \in {0, SeatMaximum} :
             Send(encode_lobby_directory_message(lobby_listing_of(published, sessions, SeatMaximum)))
       \/ \E e \in RouterErrors : Send(encode_error_response_v3(e[1], e[2]))
    /\ UNCHANGED <<made, published, exchange, registered, held, delivered, shown>>

FramesNext == Step \/ Publish \/ RefuseRequest \/ LeaveDirectory \/ WriteWelcome \/ TakeSnapshot
              \/ start_snapshot_write \/ AnswerRequest
FramesSpec == FramesInit /\ [][FramesNext]_frameVars

---------------------------------------------------------------------------
(* Conformance, and the property.                                          *)

\* check_entities: ascending, none empty, every kind registered.
check_entities(entities) ==
    /\ \A i \in 2 .. Len(entities) : entities[i - 1].id < entities[i].id
    /\ \A i \in DOMAIN entities : /\ DOMAIN entities[i].components # {}
                                  /\ DOMAIN entities[i].components \subseteq ComponentKinds

\* movement_coverage_conforms
movement_coverage_conforms(data) ==
    /\ data.movement.effective <= data.tick
    /\ \A r \in data.tuning_result : /\ r.decision_tick = {} <=> r.revision = {}
                                     /\ \A t \in r.decision_tick : t <= data.tick
                                     /\ \A n \in r.revision : n <= data.movement.revision

\* check_v3_server_frame
check_v3_server_frame(m) ==
    CASE m.schema = "error"    -> TRUE
      [] m.schema = "welcome"  -> /\ m.sequence = 1
                                  /\ welcome_terrain_conforms(m.data.terrain)
                                  /\ ~ has_negative_zero_token(m.data.terrain)
      [] m.schema = "snapshot" -> m.sequence >= 2 /\ check_entities(m.data.entities) /\ movement_coverage_conforms(m.data)
      [] m.schema = "directory" -> TRUE

\* Whatever the engine publishes can be encoded, at whatever moment a session
\* encodes it, and what is encoded conforms: the result a frame carries is
\* covered by the frame's own snapshot, though decisions reach the mailbox
\* before their snapshot is published and the session may write an older one
\* (session_websocket_session.cpp:657, simulation_runtime.cpp:236); an
\* accepted map has a conforming welcome; and an error is never itself refused.
FramesConform == ~ refused /\ \A m \in sent : check_v3_server_frame(m)

\* A snapshot message shows every entity of its snapshot with exactly the
\* components it has there (emit_component_of_kind walks one cursor per kind
\* through the roster and never goes back).
FramesAreComplete ==
    [][sent' # sent => \A s \in held, m \in sent' : m.schema = "snapshot" =>
         /\ {m.data.entities[i].id : i \in DOMAIN m.data.entities} = UNION {DOMAIN s.stores[k] : k \in ComponentKinds}
         /\ \A i \in DOMAIN m.data.entities :
               DOMAIN m.data.entities[i].components = {k \in ComponentKinds : m.data.entities[i].id \in DOMAIN s.stores[k]}]_frameVars
===========================================================================
