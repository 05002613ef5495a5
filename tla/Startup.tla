------------------------------ MODULE Startup ------------------------------
(***************************************************************************)
(* The process from its inputs to its first crowded tick (src/main.cpp,    *)
(* src/src/application/application_config_loader.cpp, application_config   *)
(* .cpp, match_startup_validation.cpp, blob_royale_application.cpp,        *)
(* room.cpp and the constructors they call): the configuration, the map,   *)
(* the initial world and the composed rooms are each validated, most rules *)
(* spanning two of them.                                                   *)
(*                                                                         *)
(* The input is one record of sections (see StartupRules), a map and a     *)
(* scenario.  The geometry of the map is what the checks ask of it: how    *)
(* many bodies and markers it has, and whether they lie where they must.   *)
(***************************************************************************)
EXTENDS StartupRules

CONSTANTS
    MotionBodies,           \* kMaximumMotionBodyCount
    SnapshotEntityLimit,    \* kSnapshotEntityLimit
    EntityCount,            \* kMaximumEntityCount, and kMaximumPlayerCount
    SessionMaximum,         \* kConcurrentWebSocketMaximumCount
    SystemHeadroom,         \* kSystemCreatedEntityHeadroom
    HazardStanding          \* kMaximumActiveCrossingHazardCount

ASSUME StartupAssumption ==
    {MotionBodies, SnapshotEntityLimit, EntityCount, SessionMaximum, SystemHeadroom, HazardStanding} \subseteq Nat

VARIABLES
    input,      \* what the operator gave
    progress,   \* the last step done, or "failed"
    failure,    \* the error code reported, "" while none is
    rooms       \* lobby id |-> [seats, bodies]: its NPC seats and its bodies

startupVars == <<input, progress, failure, rooms>>

\* What a map offers.
map == input.map

\* What the sections, the map and the scenario may say, valid or not.
Allowlist == Seq([scheme : STRING, host : STRING, upper : BOOLEAN, port : Nat])
Inputs ==
    [world : [width : Int, height : Int, radius : Int, drag : Int, rate : Int, columns : Int, rows : Int],
     server : [bind : STRING, port : Int, snapshots : Int, hosts : Allowlist, origins : Allowlist, proxies : Allowlist],
     match : [mode : STRING, map_named : BOOLEAN, seats : Int, roster : Seq([kind : STRING, profile : STRING, count : Nat])],
     movement : [acceleration : Int, top : Int],
     abilities : [shield : Int, perfect : Int, shield_cooldown : Int, parry_stun : Int, charge_cooldown : Int,
                  charge_active : Int, charge_stun : Int, fraction : Int, envelope : Int],
     royale : [minimum : Int, shrink : Int, grace : Int, countdown : Int, restart : Int],
     hill : [motion : STRING, radius : Int, dwell : Int, travel : Int, interval : Int, points : Int, limit : Int,
             respawn : Int, countdown : Int, restart : Int, slow : Int, fast : Int, soon : Int, late : Int],
     race : [road_named : BOOLEAN, radius : Int, respawn : Int, window : Int, limit : Int, countdown : Int, restart : Int],
     hazards : Seq([named : BOOLEAN, radius : Int, mass : Int, restitution : Int, speed : Int, interval : Int,
                    variation : Int, lethal : BOOLEAN]),
     lobby : [count : Int, sandbox_respawn : Int],
     profiles : Seq([name : STRING, named : BOOLEAN, seek : Int, reaction : Int, aim : Int, persistence : Int,
                     weights : Seq(Int), risk : Int, horizon : Int, screen : Int, anticipation : Int, caution : Int,
                     brake : Int, exposure : Int, opening : Int]),
     map : [named : BOOLEAN, metadata : STRING, width : Int, height : Int, statics : Nat, static_fault : STRING,
            marker_fault : STRING, spawns : Nat, spawns_seatable : BOOLEAN, spawns_on_road : BOOLEAN, hills : Nat,
            checkpoints : Nat, checkpoints_on_road : BOOLEAN, checkpoints_supported : BOOLEAN, road_half_width : Nat],
     scenario : [given : BOOLEAN, header : BOOLEAN, rows : Nat, first : Nat,
                 last : Seq([form : STRING, id : Nat, value : STRING, inside : BOOLEAN])]]

---------------------------------------------------------------------------
(* The configuration (ApplicationConfigLoader::load).                      *)

active_hazards == IF accepts_start_match(input.match.mode) THEN input.hazards ELSE <<>>

\* Every selected profile is declared, and a mode without a lobby has none.
application_config ==
    ForAll(input.match.roster, LAMBDA e : Require(e.profile = "" \/ \E p \in Range(input.profiles) : p.name = e.profile,
                                                  "match_bot_profile_unknown"))
    \o Require((\E e \in Range(input.match.roster) : e.profile # "") => accepts_start_match(input.match.mode),
               "match_bot_profile_mode_unsupported")

load_configuration ==
    simulation_config(input.world) \o server_config(input.server, input.world) \o match_configuration(input.match)
    \o movement_tuning(input.movement.acceleration, input.movement.top, 0, 0, 0)
    \o ability_configuration(input.abilities)
    \o royale_configuration(input.royale) \o king_of_the_hill_configuration(input.hill) \o race_configuration(input.race)
    \o ForAll(input.hazards, hazard_archetype)
    \o duration_ticks(input.lobby.sandbox_respawn)
    \o movement_tuning(input.movement.acceleration, input.movement.top, input.abilities.fraction,
                       spawn_rate(input.hazards, TRUE), spawn_rate(input.hazards, FALSE))
    \o lobbies_configuration(input.lobby.count)
    \o tactical_profile_catalogue(input.profiles)
    \o Require(input.scenario.given => input.lobby.count = 1, "lobbies_scenario_requires_one_lobby")
    \o application_config

---------------------------------------------------------------------------
(* The map (MapDefinition::create) and the world.                          *)

map_metadata ==
    Require(map.metadata # "full", "map_metadata_limit_exceeded") \o Require(map.metadata # "key", "map_metadata_key_invalid")
    \o Require(map.metadata # "value", "map_metadata_value_invalid")
    \o Require(map.metadata # "duplicate", "map_metadata_duplicate_key")
map_definition ==
    map_metadata
    \o Require(map.named, "map_name_invalid")
    \o Require(map.statics <= EntityCount, "map_static_body_limit_exceeded")
    \o Require(map.spawns + map.hills + map.checkpoints <= EntityCount, "map_marker_limit_exceeded")
    \o Require(map.static_fault # "dynamic", "map_static_body_not_static")
    \o Require(map.static_fault # "outside", "map_static_body_out_of_bounds")
    \o Require(map.static_fault # "unsupported", "terrain_geometry_out_of_bounds")
    \o Require(map.marker_fault # "kind", "map_marker_kind_invalid")
    \o Require(map.marker_fault # "outside", "map_marker_out_of_bounds")

\* Each spawn marker keeps a whole disc inside the arena and on the ground.
require_spawn_points_are_seatable == Require(map.spawns = 0 \/ map.spawns_seatable, "map_spawn_point_not_seatable")

\* A scenario is [given, header, rows, first, last]: so many good rows with ids
\* from first up, and then the row "last", if it is not "none".
parse_player_row(row, seeds, used) ==
    Require(row.form # "blank", "scenario_row_empty") \o Require(row.form # "long", "scenario_row_too_long")
    \o Require(seeds < EntityCount, "scenario_player_limit_exceeded")
    \o Require(row.form # "ragged", "scenario_column_count_invalid")
    \o Require(row.id # 0, "scenario_entity_id_out_of_range")
    \o Require(row.value # "too_large", "scenario_value_out_of_range") \o Require(row.value # "text", "scenario_value_invalid")
    \o Require(row.value # "infinite", "scenario_value_not_finite")
    \o Require(row.inside, "scenario_position_out_of_bounds")
    \o Require(row.id \notin used, "scenario_entity_id_duplicate")
SeedIds == IF input.scenario.given THEN input.scenario.first .. input.scenario.first + input.scenario.rows - 1 ELSE {}
load_scenario ==
    IF ~ input.scenario.given THEN <<>>
    ELSE Require(input.scenario.header, "scenario_header_invalid")
         \o Require(input.scenario.rows <= EntityCount, "scenario_player_limit_exceeded")
         \o ForAll(input.scenario.last, LAMBDA row : parse_player_row(row, input.scenario.rows, SeedIds))
Seeds == IF input.scenario.given THEN SeedIds \cup {row.id : row \in Range(input.scenario.last)} ELSE {}
\* GameWorld::create: the map's static bodies take the first ids.
game_world ==
    require_spawn_points_are_seatable
    \o Require(map.statics + Cardinality(Seeds) <= EntityCount, "game_world_entity_limit_exceeded")
    \o Require(\A id \in Seeds : id > map.statics, "game_world_duplicate_entity_id")

---------------------------------------------------------------------------
(* The composition (BlobRoyaleApplication::create).                        *)

require_map_matches_published_world ==
    Require(map.width = input.world.width /\ map.height = input.world.height, "match_map_bounds_mismatch")

race_course ==
    Require(map.road_half_width # 0, "race_map_road_missing")
    \o Require(input.race.radius <= map.road_half_width, "race_scalar_out_of_range")
    \o Require(map.checkpoints # 0, "race_map_without_checkpoint")
    \o Require(map.checkpoints_on_road, "race_map_checkpoint_outside_corridor")
    \o Require(map.spawns = 0 \/ map.spawns_on_road, "race_map_spawn_point_outside_corridor")
    \o Require(map.spawns # 0, "race_map_without_spawn_point")
require_race_checkpoint_returns_supported ==
    IF input.match.mode # "race" THEN <<>>
    ELSE race_course \o Require(map.checkpoints_supported, "match_race_checkpoint_unsupported")

hazard_budget == IF active_hazards = <<>> THEN 0 ELSE HazardStanding

Larger(a, b) == IF a >= b THEN a ELSE b
worst_case_entity_count ==
    map.statics + SessionMaximum + Larger(total_bot_count(input.match.roster), MaximumSeatCount) + SystemHeadroom
    + hazard_budget
require_match_fits_snapshot_bound ==
    Require(worst_case_entity_count <= (IF active_hazards = <<>> THEN SnapshotEntityLimit
                                        ELSE IF MotionBodies < SnapshotEntityLimit THEN MotionBodies ELSE SnapshotEntityLimit),
            "match_entity_budget_exceeded")

require_lobby_fits_map ==
    Require(accepts_start_match(input.match.mode) => map.spawns >= input.match.seats, "match_lobby_exceeds_spawn_markers")

\* The roster's bots, one by one, in its order.
ConfiguredBots == ForAll(input.match.roster, LAMBDA e : [n \in 1 .. e.count |-> [kind |-> e.kind, profile |-> e.profile]])
\* The NPC seats of a fresh lobby; a mode without a lobby has no seats.
initial_seat_roster_for == IF accepts_start_match(input.match.mode) THEN ConfiguredBots ELSE <<>>
require_bots_fit_seats ==
    Require(accepts_start_match(input.match.mode) => total_bot_count(input.match.roster) <= input.match.seats,
            "match_bots_exceed_seats")

zone_full_radius_exceeds(minimum) == 4 * minimum * minimum < map.width * map.width + map.height * map.height
validate_map ==
    CASE input.match.mode = "royale" -> Require(zone_full_radius_exceeds(input.royale.minimum), "royale_map_arena_within_zone_minimum")
      [] input.match.mode = "king_of_the_hill" -> Require(map.hills # 0, "hill_map_without_hill")
                                                  \o Require(map.spawns # 0, "hill_map_without_spawn_point")
      [] input.match.mode = "race" -> race_course
      [] input.match.mode = "sandbox" -> Require(map.spawns # 0, "sandbox_map_without_spawn_point")

\* GameSimulation::create.  The scenario's bodies were placed inside the arena.
game_simulation ==
    Require(map.statics + Cardinality(Seeds) <= MotionBodies, "continuous_motion_budget_exceeded")
    \o validate_map \o require_spawn_points_are_seatable
\* MatchSessionContext::create: a lobby may grow to the map's spawn markers.
match_session_context == Require(map.spawns \in 1 .. MaximumSeatCount, "session_invariant_failed")

\* ControllerRegistry::create, of a bot whose profile the catalogue declares or
\* not; only a seat gives a bot the tactical identity a profile needs.
controller_registry_create(bot, seated) ==
    LET declared == bot.profile # "" /\ \E p \in Range(input.profiles) : p.name = bot.profile IN
    Require(seated /\ bot.profile # "" => declared, "npc_seat_profile_unknown")
    \o Require(bot.kind \in DOMAIN ControllerKinds, "controller_kind_unknown")
    \o Require(bot.kind \in DOMAIN ControllerKinds /\ ControllerKinds[bot.kind] = (declared /\ seated),
               "controller_creation_context_invalid")
\* Room::seat_configured_bots: without a lobby the roster's bots are opened here.
seat_configured_bots ==
    IF accepts_start_match(input.match.mode) THEN <<>>
    ELSE ForAll(input.match.roster, LAMBDA e : controller_registry_create(e, FALSE))

compose ==
    require_map_matches_published_world \o require_race_checkpoint_returns_supported \o require_match_fits_snapshot_bound
    \o require_lobby_fits_map \o require_bots_fit_seats \o game_simulation \o match_session_context \o seat_configured_bots

---------------------------------------------------------------------------
(* The steps.                                                              *)

StartupInit(given) == input = given /\ progress = "invoked" /\ failure = "" /\ rooms = <<>>

StepWith(from, to, checks, nextRooms) ==
    /\ progress = from
    /\ failure' = Verdict(checks)
    /\ progress' = IF failure' = "" THEN to ELSE "failed"
    /\ rooms' = IF failure' = "" THEN nextRooms ELSE rooms
    /\ UNCHANGED input

LoadConfiguration == StepWith("invoked", "configured", load_configuration, rooms)
LoadMap == StepWith("configured", "mapped", map_definition, rooms)
LoadWorld == StepWith("mapped", "seeded", load_scenario \o game_world, rooms)
\* Every room is one more copy of the map; the first has the scenario's seeds.
Compose ==
    StepWith("seeded", "composed", compose,
             [lobby \in 1 .. input.lobby.count |->
                [seats |-> initial_seat_roster_for, bodies |-> map.statics + IF lobby = 1 THEN Cardinality(Seeds) ELSE 0]])

\* The reconciler builds a bot for each NPC seat of a room.
BuildBots ==
    \E lobby \in DOMAIN rooms :
       StepWith("composed", "hosting", ForAll(rooms[lobby].seats, LAMBDA seat : controller_registry_create(seat, TRUE)), rooms)

\* A room fills up: every seat (a lobby may be grown to the map's markers) or,
\* without a lobby, every bot and session has a body, and hazards are in the air.
\* The next step is refused by the solver if there are too many bodies.
Crowd ==
    \E players \in IF accepts_start_match(input.match.mode) THEN {0, map.spawns}
                   ELSE {0, total_bot_count(input.match.roster), total_bot_count(input.match.roster) + SessionMaximum},
       hazards \in {0, hazard_budget} :
         StepWith("hosting", "crowded", Require(rooms[1].bodies + players + hazards <= MotionBodies, "continuous_motion_budget_exceeded"),
                  [rooms EXCEPT ![1].bodies = @ + players + hazards])

StartupNext == LoadConfiguration \/ LoadMap \/ LoadWorld \/ Compose \/ BuildBots \/ Crowd

StartupSpec(given) == StartupInit(given) /\ [][StartupNext]_startupVars

---------------------------------------------------------------------------
(* Properties.                                                             *)

StartupTypeOK ==
    /\ input \in Inputs
    /\ progress \in {"invoked", "configured", "mapped", "seeded", "composed", "hosting", "crowded", "failed"}
    /\ progress = "failed" <=> failure # ""
    /\ \A lobby \in DOMAIN rooms : rooms[lobby].bodies \in Nat

Accepted == progress \in {"composed", "hosting", "crowded"}

\* Whatever was accepted, every bot the rooms are to host can be built: its kind
\* is registered, and it has a declared profile and a seat's identity exactly
\* when its kind needs them (MatchConfiguration, ApplicationConfig and the
\* registry each check a part of this, on different data).
BotsCanBeBuilt ==
    failure \notin {"npc_seat_profile_unknown", "controller_kind_unknown", "controller_creation_context_invalid"}

\* What the gameplay of the other modules stands on: abilities last a tick and
\* the perfect window lies in the shield; the hill has a tour, a retarget
\* interval and a marker; the zone can contract; a race has a gate and ends.
\* And a room has a marker for each of its seats and a seat for each of its bots.
AcceptedMatchIsPlayable ==
    Accepted =>
       /\ \A q \in {input.abilities.shield, input.abilities.perfect, input.abilities.parry_stun,
                    input.abilities.charge_cooldown, input.abilities.charge_active, input.abilities.charge_stun} : ticks(q) >= 1
       /\ ticks(input.abilities.perfect) <= ticks(input.abilities.shield)
       /\ input.match.mode = "king_of_the_hill" =>
            /\ ticks(input.hill.dwell) + ticks(input.hill.travel) >= 1
            /\ 1 <= ticks(input.hill.soon) /\ ticks(input.hill.soon) <= ticks(input.hill.late)
            /\ map.hills >= 1
       /\ input.match.mode = "royale" => 4 * input.royale.minimum * input.royale.minimum
                                           < input.world.width * input.world.width + input.world.height * input.world.height
       /\ input.match.mode = "race" => map.checkpoints >= 1 /\ map.checkpoints_supported
       /\ accepts_start_match(input.match.mode) =>
            \A lobby \in DOMAIN rooms : Len(rooms[lobby].seats) <= input.match.seats
                                        /\ input.match.seats <= map.spawns /\ map.spawns <= MaximumSeatCount

\* A match whose mode has hazards and which no scenario seeds was counted in
\* full before its first tick: no crowd of players and hazards is more than the
\* solver takes (require_match_fits_snapshot_bound; a step that is refused stops
\* the room for good).
CountedMatchesFit ==
    progress = "failed" /\ rooms # <<>> /\ active_hazards # <<>> => input.scenario.given

\* What startup accepts can be played: its bots can be built, its match has the
\* seats, windows and places it needs, and what was counted fits.
StartupIsSound == StartupTypeOK /\ BotsCanBeBuilt /\ AcceptedMatchIsPlayable /\ CountedMatchesFit
===========================================================================
