--------------------------- MODULE StartupRules ---------------------------
(***************************************************************************)
(* What each section of a configuration must satisfy on its own            *)
(* (src/src/simulation/simulation_config.cpp, movement_tuning.cpp,         *)
(* src/src/server/server_config.cpp, src/src/gameplay/.../*_configuration  *)
(* .cpp, src/src/controllers/tactical_profile.cpp and                      *)
(* src/src/application/match_configuration.cpp).                           *)
(*                                                                         *)
(* A create function is the sequence of the errors its checks find, in the *)
(* order the code makes them: the first is the one thrown.  A scalar is an *)
(* integer, or Infinite for a value that is not finite; a duration counts  *)
(* quarters of a tick; a fraction counts hundredths.  The comments of the  *)
(* sources give the real bounds; those that do not fit TLC's integers are  *)
(* constants.                                                              *)
(***************************************************************************)
EXTENDS Integers, FiniteSets, SequencesExt

CONSTANTS
    MaximumWorld,           \* kMaximumWorldDimension
    MaximumComponent,       \* kMaximumPhysicalComponentMagnitude
    MaximumTick,            \* TickSequence::kMaximumValue
    MaximumSafeInteger,     \* kMaximumProtocolSafeInteger
    MaximumCells,           \* kMaximumSpatialGridCellCount
    MaximumAllowlist,       \* kConfigurationAllowlistMaximumEntryCount
    MaximumRosterEntries,   \* kMaximumBotRosterEntryCount
    MaximumBotCount,        \* kMaximumBotCount
    MaximumSeatCount,       \* SeatRoster::kMaximumSeatCount
    MaximumLobbies,         \* kLobbyDirectoryLimit
    MaximumProfiles,        \* kMaximumNpcProfileCount
    ControllerKinds,        \* kind |-> whether it requires a profile
    MaximumTopSpeed,        \* kMaximumNormalTopSpeed
    MaximumAcceleration,    \* kMaximumMovementAcceleration
    MaximumSpawnRate        \* kMaximumCrossingSpawnRatePerSecond

ASSUME StartupRulesAssumption ==
    /\ {MaximumWorld, MaximumComponent, MaximumTick, MaximumSafeInteger, MaximumCells, MaximumAllowlist,
        MaximumRosterEntries, MaximumBotCount, MaximumSeatCount, MaximumLobbies, MaximumProfiles, MaximumTopSpeed,
        MaximumAcceleration, MaximumSpawnRate} \subseteq Nat
    /\ ControllerKinds \in [DOMAIN ControllerKinds -> BOOLEAN]

Infinite == -1000000
Finite(v) == v # Infinite
Require(holds, code) == IF holds THEN <<>> ELSE <<code>>
\* The code of the first check that fails, "" if all hold.
Verdict(errors) == IF errors = <<>> THEN "" ELSE Head(errors)
ForAll(s, Checks(_)) == FlattenSeq([k \in DOMAIN s |-> Checks(s[k])])

---------------------------------------------------------------------------
(* Durations.                                                              *)

\* Rounded half away from zero.
ticks(q) == IF q >= 0 THEN (q + 2) \div 4 ELSE 0
duration_ticks(q) ==
    Require(Finite(q), "duration_not_finite") \o Require(q >= 0, "duration_negative")
    \o Require(ticks(q) <= MaximumTick, "duration_tick_overflow")

---------------------------------------------------------------------------
(* [world], [simulation] and [spatial_grid].                               *)

require_world_scalar(v) ==
    Require(Finite(v), "config_world_scalar_not_finite")
    \o Require(v > 0 /\ v <= MaximumWorld, "config_world_scalar_out_of_range")
require_drag_per_second(v) ==
    Require(Finite(v), "config_drag_not_finite") \o Require(v >= 0, "config_drag_out_of_range")
simulation_config(w) ==
    require_world_scalar(w.width) \o require_world_scalar(w.height) \o require_world_scalar(w.radius)
    \o require_drag_per_second(w.drag)
    \o Require(w.width > 2 * w.radius /\ w.height > 2 * w.radius, "config_world_too_small_for_player")
    \o Require(w.rate = 400, "config_tick_rate_unsupported")
    \o Require(w.columns \in 1 .. MaximumCells /\ w.rows \in 1 .. MaximumCells, "config_spatial_grid_dimension_out_of_range")
    \o Require(w.rows = 0 \/ w.columns <= MaximumCells \div w.rows, "config_spatial_grid_cell_limit_exceeded")

---------------------------------------------------------------------------
(* [server] and [presentation].  An address is "loopback", "unspecified",  *)
(* "private", "public" or "not_canonical"; an allowlist entry is           *)
(* [scheme, host, upper, port]: host "v4", "v6", "dns" or "bad", upper     *)
(* whether it is written in capitals, port 0 if none is written.           *)

MaximumPort == 65535
parse_canonical_address(a) == a # "not_canonical"
is_supported_bind_address(a) == a \in {"loopback", "unspecified", "private"}
normalize_port_suffix(port, default) == IF port = 0 THEN default ELSE port
\* The canonical entries an entry stands for: one, or none if it is malformed.
\* Names are lowered; an address in capitals is not canonical.
normalize_authority(e, default) ==
    IF e.host = "bad" \/ (e.host \in {"v4", "v6"} /\ e.upper) \/ normalize_port_suffix(e.port, default) \notin 1 .. MaximumPort
    THEN {}
    ELSE {[scheme |-> "", host |-> e.host, port |-> normalize_port_suffix(e.port, default)]}
normalize_serialized_origin(e) ==
    IF e.scheme \notin {"http", "https"} THEN {}
    ELSE {[n EXCEPT !.scheme = e.scheme] : n \in normalize_authority(e, IF e.scheme = "http" THEN 80 ELSE 443)}
normalize_proxy_address(e) ==
    IF e.host \in {"v4", "v6"} /\ ~ e.upper /\ e.port = 0 THEN {[scheme |-> "", host |-> e.host, port |-> 0]} ELSE {}
normalize_allowlist(entries, code, nonempty, Normalize(_)) ==
    Require(Len(entries) <= MaximumAllowlist /\ (nonempty => entries # <<>>), code)
    \o ForAll(entries, LAMBDA e : Require(Normalize(e) # {}, code))
    \o Require(Cardinality(UNION {Normalize(e) : e \in Range(entries)}) = Len(entries), code)

require_public_world_scalar(v) == Require(Finite(v) /\ v > 0 /\ v <= MaximumWorld, "public_configuration_invalid")
public_configuration(w, snapshots) ==
    require_public_world_scalar(w.width) \o require_public_world_scalar(w.height) \o require_public_world_scalar(w.radius)
    \o Require(w.width > 2 * w.radius /\ w.height > 2 * w.radius, "public_configuration_invalid")
    \o Require(snapshots \in 1 .. 60, "public_configuration_invalid")
server_config(s, w) ==
    Require(parse_canonical_address(s.bind) /\ is_supported_bind_address(s.bind), "bind_address_invalid")
    \o Require(s.port \in 1 .. MaximumPort, "port_out_of_range")
    \o Require(s.snapshots \in 1 .. 60, "presentation_rate_out_of_range")
    \o public_configuration(w, s.snapshots)
    \o normalize_allowlist(s.hosts, "host_allowlist_invalid", TRUE, LAMBDA e : normalize_authority(e, s.port))
    \o normalize_allowlist(s.origins, "origin_allowlist_invalid", FALSE, normalize_serialized_origin)
    \o normalize_allowlist(s.proxies, "trusted_proxy_allowlist_invalid", FALSE, normalize_proxy_address)
    \o Require(s.bind = "loopback" \/ (s.origins # <<>> /\ s.proxies # <<>>), "non_loopback_policy_invalid")

---------------------------------------------------------------------------
(* [match] and [lobbies].  A roster term is [kind, profile, count], its    *)
(* profile "" if none is selected, or the kind "malformed".                *)

GameModes == {"sandbox", "royale", "king_of_the_hill", "race"}
\* The modes with a lobby; the same ones spawn crossing hazards.
accepts_start_match(mode) == mode \in {"royale", "king_of_the_hill", "race"}

require_roster_entry(roster, k) ==
    Require(k <= MaximumRosterEntries, "match_bot_roster_invalid")
    \o Require(roster[k].kind # "", "match_bot_roster_invalid")
    \o Require(roster[k].count > 0, "match_bot_roster_invalid")
    \o Require(\A j \in 1 .. k - 1 : roster[j].kind # roster[k].kind \/ roster[j].profile # roster[k].profile,
               "match_bot_roster_invalid")
parse_bot_roster(roster) ==
    FlattenSeq([k \in DOMAIN roster |->
        Require(roster[k].kind # "malformed", "match_bot_roster_invalid")
        \o Require(roster[k].profile # "Not_Snake", "bot_profile_name_invalid")
        \o require_roster_entry(roster, k)])
total_bot_count(roster) == FoldFunction(+, 0, [k \in DOMAIN roster |-> roster[k].count])
registered_entry(e) ==
    LET requires == e.kind \in DOMAIN ControllerKinds /\ ControllerKinds[e.kind] IN
    Require(e.kind \in DOMAIN ControllerKinds, "match_bot_kind_unknown")
    \o Require(requires => e.profile # "", "match_bot_profile_required")
    \o Require(~ requires => e.profile = "", "match_bot_profile_unexpected")
match_configuration(m) ==
    parse_bot_roster(m.roster)
    \o Require(m.mode # "Not_Snake", "match_mode_name_invalid")
    \o Require(m.mode \in GameModes, "match_mode_unknown")
    \o Require(m.map_named, "match_map_name_invalid")
    \o Require(m.seats \in 1 .. MaximumSeatCount, "match_lobby_seat_count_out_of_range")
    \o FlattenSeq([k \in DOMAIN m.roster |->
          require_roster_entry(m.roster, k) \o registered_entry(m.roster[k])
          \o Require(total_bot_count(SubSeq(m.roster, 1, k)) <= MaximumBotCount, "match_bot_roster_too_large")])
lobbies_configuration(count) == Require(count \in 1 .. MaximumLobbies, "lobbies_count_out_of_range")

---------------------------------------------------------------------------
(* [movement] and [abilities].                                             *)

require_tuning_scalar(v, low, high) ==
    Require(Finite(v), "movement_tuning_not_finite") \o Require(v \in low .. high, "movement_tuning_out_of_range")
movement_tuning(acceleration, top, fraction, lethal, nonlethal) ==
    require_tuning_scalar(acceleration, 0, MaximumAcceleration) \o require_tuning_scalar(top, 1, MaximumTopSpeed)
    \o require_tuning_scalar(fraction, 0, MaximumComponent)
    \o require_tuning_scalar(lethal, 0, MaximumSpawnRate) \o require_tuning_scalar(nonlethal, 0, MaximumSpawnRate)

require_positive_ticks(q) == Require(ticks(q) # 0, "ability_duration_not_positive")
require_positive_finite_scalar(v) ==
    Require(Finite(v), "ability_scalar_not_finite") \o Require(v > 0, "ability_scalar_out_of_range")

\* Mutant of ability_configuration: the perfect window is not held against the shield.
AnyPerfectWindow(a) ==
    ForAll(<<a.shield, a.perfect, a.shield_cooldown, a.parry_stun, a.charge_cooldown, a.charge_active, a.charge_stun>>,
           duration_ticks)
    \o ForAll(<<a.shield, a.perfect, a.parry_stun, a.charge_cooldown, a.charge_active, a.charge_stun>>, require_positive_ticks)
    \o require_positive_finite_scalar(a.fraction) \o require_positive_finite_scalar(a.envelope)
    \o Require(a.envelope <= MaximumComponent, "ability_scalar_out_of_range")
    \o Require(a.fraction * (MaximumTopSpeed \div 100) <= a.envelope, "ability_charge_burst_exceeds_safety_envelope")

\* The cooldown of a shield may be none; a charge from rest at the highest
\* tunable ceiling stays inside the safety envelope.
ability_configuration(a) ==
    ForAll(<<a.shield, a.perfect, a.shield_cooldown, a.parry_stun, a.charge_cooldown, a.charge_active, a.charge_stun>>,
           duration_ticks)
    \o ForAll(<<a.shield, a.perfect, a.parry_stun, a.charge_cooldown, a.charge_active, a.charge_stun>>, require_positive_ticks)
    \o require_positive_finite_scalar(a.fraction) \o require_positive_finite_scalar(a.envelope)
    \o Require(a.envelope <= MaximumComponent, "ability_scalar_out_of_range")
    \o Require(ticks(a.perfect) <= ticks(a.shield), "ability_perfect_window_exceeds_shield")
    \o Require(a.fraction * (MaximumTopSpeed \div 100) <= a.envelope, "ability_charge_burst_exceeds_safety_envelope")

---------------------------------------------------------------------------
(* The modes' sections.                                                    *)

royale_configuration(r) ==
    Require(Finite(r.minimum), "royale_scalar_not_finite") \o Require(r.minimum >= 0, "royale_scalar_out_of_range")
    \o ForAll(<<r.shrink, r.grace, r.countdown, r.restart>>, duration_ticks)

hill_positive(v) == Require(Finite(v), "hill_scalar_not_finite") \o Require(v > 0, "hill_scalar_out_of_range")
MaximumHillSpeed == 1000000
require_hill_speed(v) ==
    Require(Finite(v), "hill_scalar_not_finite") \o Require(v \in 1 .. MaximumHillSpeed, "hill_scalar_out_of_range")
\* At most an hour, and at least a tick.
Hour == 5760000
hill_retarget_ticks(q) ==
    hill_positive(q) \o Require(q <= Hour, "hill_scalar_out_of_range")
    \o duration_ticks(q) \o Require(ticks(q) # 0, "hill_scalar_out_of_range")
hill_scoring(h) ==
    duration_ticks(h.dwell) \o duration_ticks(h.travel)
    \o Require(ticks(h.dwell) + ticks(h.travel) # 0, "hill_tour_without_duration")
    \o duration_ticks(h.interval)
    \o Require(h.points # 0, "hill_points_to_win_zero")
    \o Require(h.points <= MaximumSafeInteger, "hill_scalar_out_of_range")
    \o hill_positive(h.limit)
    \o ForAll(<<h.limit, h.respawn, h.countdown, h.restart>>, duration_ticks)
king_of_the_hill_configuration(h) ==
    Require(h.motion \in {"marker_tour", "random_roam"}, "hill_motion_policy_invalid")
    \o hill_positive(h.radius) \o Require(h.radius <= MaximumComponent, "hill_scalar_out_of_range")
    \o hill_scoring(h)
    \o require_hill_speed(h.slow) \o require_hill_speed(h.fast) \o Require(h.fast >= h.slow, "hill_scalar_out_of_range")
    \o hill_retarget_ticks(h.soon) \o hill_retarget_ticks(h.late) \o Require(h.late >= h.soon, "hill_scalar_out_of_range")

race_positive(v) == Require(Finite(v), "race_scalar_not_finite") \o Require(v > 0, "race_scalar_out_of_range")
race_configuration(r) ==
    Require(r.road_named, "race_road_name_invalid")
    \o race_positive(r.radius) \o Require(r.radius <= MaximumComponent, "race_scalar_out_of_range")
    \o duration_ticks(r.respawn) \o duration_ticks(r.window)
    \o race_positive(r.limit) \o ForAll(<<r.limit, r.countdown, r.restart>>, duration_ticks)

---------------------------------------------------------------------------
(* [hazard.<kind>] and [bot_profile.<name>].                               *)

hazard_finite(v) == Require(Finite(v), "hazard_scalar_not_finite")
hazard_positive(v) == hazard_finite(v) \o Require(v > 0, "hazard_scalar_out_of_range")
hazard_archetype(h) ==
    Require(h.named, "hazard_kind_name_invalid")
    \o hazard_positive(h.radius) \o hazard_positive(h.mass)
    \o hazard_finite(h.restitution) \o Require(h.restitution \in 0 .. 100, "hazard_scalar_out_of_range")
    \o hazard_positive(h.speed)
    \o duration_ticks(h.interval) \o Require(ticks(h.interval) # 0, "hazard_scalar_out_of_range")
    \o hazard_finite(h.variation) \o Require(h.variation \in 0 .. 90, "hazard_scalar_out_of_range")
    \o Require(h.speed * (100 + h.variation) <= 100 * MaximumComponent, "hazard_scalar_out_of_range")
\* What the hazards of one lethality spawn in a second, together.
spawn_rate(hazards, lethal) ==
    FoldFunction(+, 0, [k \in DOMAIN hazards |->
        IF hazards[k].lethal = lethal /\ ticks(hazards[k].interval) > 0 THEN 400 \div ticks(hazards[k].interval) ELSE 0])

\* Every share is within [0, 1], the aim error within a quarter; one weight is
\* positive, and so is the road caution.
tactical_profile(p) ==
    Require(p.named, "tactical_profile_name_invalid")
    \o Require(p.seek \in 0 .. 100, "tactical_profile_probability_invalid")
    \o Require(p.reaction <= 4000, "tactical_profile_reaction_delay_invalid")
    \o Require(p.aim \in 0 .. 25, "tactical_profile_aim_error_invalid")
    \o Require(p.persistence <= 4000, "tactical_profile_persistence_invalid")
    \o ForAll(p.weights, LAMBDA w : Require(w \in 0 .. 100, "tactical_profile_objective_weight_invalid"))
    \o Require(\E w \in Range(p.weights) : w > 0, "tactical_profile_objective_weights_degenerate")
    \o Require(p.risk \in 0 .. 100, "tactical_profile_risk_tolerance_invalid")
    \o Require(p.horizon <= 400, "tactical_profile_prediction_horizon_invalid")
    \o Require(p.screen \in 0 .. 100, "tactical_profile_charge_screen_invalid")
    \o Require(p.anticipation <= 40, "tactical_profile_shield_anticipation_invalid")
    \o Require(p.caution \in 1 .. 100, "tactical_profile_road_caution_invalid")
    \o ForAll(<< <<p.brake, "arrival_brake">>, <<p.exposure, "exposure_preference">>, <<p.opening, "minimum_opening">> >>,
              LAMBDA s : Require(s[1] \in 0 .. 100, s[2]))
tactical_profile_catalogue(profiles) ==
    ForAll(profiles, tactical_profile)
    \o Require(Len(profiles) <= MaximumProfiles, "tactical_profile_catalogue_full")
    \o Require(Cardinality({p.name : p \in Range(profiles)}) = Len(profiles), "tactical_profile_name_duplicate")
===========================================================================
