---------------------------- MODULE MCBoundary ----------------------------
(***************************************************************************)
(* What enters the program and what leaves it, in four parts that share no *)
(* state: the frames clients send (CommandDecoding), the messages the      *)
(* server writes (ServerFrames), the files the operator gives (InputFiles) *)
(* and the start of the program from what they say (Startup).  A behaviour *)
(* is of one part; the others stay as they began.                          *)
(***************************************************************************)
EXTENDS CommandDecoding, ServerFrames, InputFiles, Startup

VARIABLE part

boundaryVars == <<part, wireVars, frameVars, inputVars, startupVars>>

---------------------------------------------------------------------------
(* Client frames: a valid payload of each kind, and what one member more,   *)
(* one less or one of another value makes of it.                            *)

\* The masks of free play and of a match with seats.
FreePlay == {"set_thrust", "shield", "charge", "rotate_velocity"}
Masks == {FreePlay, ClientKinds}

MCCatalogue == {<<"chaser", Plain>>, <<"tactician", "hunter">>, <<"Not_Snake", Plain>>}

Payloads ==
    [set_thrust |-> {[x |-> Integer(1), y |-> Integer(0)],
                     [x |-> Integer(1), y |-> Integer(0), input_generation |-> Integer(1), braking |-> Json("bool", 1, "")]},
     shield |-> {[input_generation |-> Integer(1)]},
     charge |-> {[x |-> Integer(0), y |-> Integer(1)], [x |-> Integer(0), y |-> Integer(1), input_generation |-> Integer(2)]},
     rotate_velocity |-> {[direction |-> Text("left")], [direction |-> Text("right"), input_generation |-> Integer(2)]},
     set_seat_count |-> {[seat_count |-> Integer(1)]},
     clear_seat |-> {[seat_index |-> Integer(0)]},
     seat_npc |-> {[seat_index |-> Integer(0), npc_kind |-> Text("chaser")],
                   [seat_index |-> Integer(0), npc_kind |-> Text("tactician"), profile_name |-> Text("hunter")]},
     start_match |-> {<<>>},
     set_movement_tuning |-> {[tuning_request_id |-> Integer(1), expected_revision |-> Integer(0), acceleration |-> Integer(1),
                               top_speed |-> Integer(1), charge |-> Integer(1), spawn_rate |-> Integer(1)]}]

Values == {Integer(n) : n \in -1 .. SafeInteger + 1} \cup {Json("double", n, "") : n \in -2 .. 2}
          \cup {Text(s) : s \in {"left", "tactician", "Not_Snake", "hunter", "poet"}}
          \cup {Null, Json("infinite", 0, ""), Json("bool", 1, ""), Json("array", 0, "")}

With(p, member, v) == [m \in DOMAIN p \cup {member} |-> IF m = member THEN v ELSE p[m]]
Without(p, member) == [m \in DOMAIN p \ {member} |-> p[m]]
Members == {"x", "y", "input_generation", "braking", "direction", "seat_count", "seat_index", "npc_kind",
            "profile_name", "tuning_request_id", "acceleration", "spawn_rate", "extra"}

\* One or two edits of a payload.
Changed(p) == {Without(p, m) : m \in DOMAIN p} \cup {With(p, m, v) : m \in Members, v \in Values}
Envelope(members, name, p) ==
    [fits |-> TRUE, parses |-> TRUE, members |-> members, object |-> TRUE, kind |-> name, payload |-> p]
BothMembers == {"kind", "payload"}
Broken(f) ==
    {[f EXCEPT !.fits = FALSE], [f EXCEPT !.parses = FALSE], [f EXCEPT !.object = FALSE]}
    \cup {[f EXCEPT !.members = ms] : ms \in {{"kind"}, {"kind", "id"}, {"kind", "payload", "id"}}}
    \cup {[f EXCEPT !.kind = k] : k \in {Integer(1), Text("join"), Text("leave"), Text("charge")}}

Shapes(p) == UNION {{q} \cup {Without(q, m) : m \in DOMAIN q} : q \in {p} \cup Changed(p)}
FramesOf(name) ==
    IF name = "join" THEN {Envelope(BothMembers, Text(name), <<>>)}
    ELSE UNION {Broken(Envelope(BothMembers, Text(name), p))
                   \cup {Envelope(BothMembers, Text(name), q) : q \in Shapes(p)} : p \in Payloads[name]}
MCFrames == UNION {FramesOf(name) : name \in ClientKinds \cup {"join"}}

---------------------------------------------------------------------------
(* Server frames: terrains a map may author and worlds an engine may reach. *)

Ground(ground, corridors, holes) == [extent |-> 4, ground |-> ground, corridors |-> corridors, holes |-> holes]
Corridor(name, width, points) == [name |-> name, half_width |-> width, points |-> points]
Hole(name, center, radius) == [name |-> name, center |-> center, radius |-> radius]
Points == {<<0, 4>>, <<NegativeZero, 4>>, <<1>>, <<2, 2>>, <<0, NegativeZero>>, <<0, 5>>, <<0, 2, 4>>}
MCTerrains ==
    {Ground("solid", <<>>, h) : h \in {<<>>, <<Hole("a", NegativeZero, 1)>>, <<Hole("a", 1, 0)>>, <<Hole("a", 1, 1), Hole("a", 2, 1)>>,
                                  <<Hole("a", 1, 1), Hole("b", 4, 5)>>, <<Hole("A b", 1, 1)>>}}
    \cup {Ground("corridors", <<Corridor("a", w, p)>>, <<>>) : w \in {0, 1}, p \in Points}
    \cup {Ground("corridors", <<Corridor("a", 1, p), Corridor(n, 1, q)>>, <<>>) : p \in Points, q \in Points, n \in {"a", "b"}}
    \cup {Ground("solid", <<Corridor("a", 1, <<0, 4>>)>>, <<>>), Ground("corridors", <<>>, <<>>)}
Stores(b, c, s) == [physics_body |-> b, controllable |-> c, shield |-> s]
MCWorlds ==
    {[stores |-> Stores([e \in x |-> NegativeZero], [e \in y |-> 1], [e \in z |-> 1]), seats |-> q] :
       <<x, y, z, q>> \in {<<{1, 2}, {1}, {1}, <<"controller">>>>, <<{1, 3}, {1, 3}, {3}, <<"controller", "vacant_npc">>>>,
                          <<{2}, {3}, {1}, <<"empty", "npc">>>>, <<{}, {}, {2, 3}, <<>>>>}}

---------------------------------------------------------------------------
(* Files.                                                                   *)

Field(section, key, type) == [section |-> section, key |-> key, type |-> type]
MCSchemas ==
    [configuration |-> [fields |-> <<Field("server", "port", "unsigned"), Field("server", "hosts", "list")>>,
                        families |-> <<Field("hazard", "lethal", "boolean")>>, lists |-> {"hosts"}, limit |-> 2],
     map |-> [fields |-> <<Field("map", "name", "directory"), Field("terrain", "ground", "ground")>>,
              families |-> <<Field("hole", "radius", "map_double")>>, lists |-> {}, limit |-> 9]]
Header(section, instance) == Line("header", <<section, instance>>, "", "")
Pair(key, value) == Line("pair", NoSection, key, value)
Bad == {Line("blank", NoSection, "", ""), Line("bad_header", NoSection, "", ""), Line("bad_pair", NoSection, "", ""), Pair("", "7")}
MCLines ==
    [configuration |-> Bad \cup {Header("server", ""), Header("hazard", "a"), Header("hazard", "b"), Header("hazard", "c"), Header("hazard", ""), Header("match", "a"),
                                 Pair("port", "7"), Pair("port", "-1"), Pair("port", ""), Pair("hosts", ""), Pair("lethal", "true"), Pair("lethal", "7")},
     map |-> Bad \cup {Header("map", ""), Header("terrain", ""), Header("hole", "a"), Header("hole", "b"),
                       Pair("name", "arena"), Pair("name", "other"), Pair("ground", "solid"), Pair("ground", "7"), Pair("radius", "2.5"), Pair("radius", "inf")}]
MCArguments == UNION {[1 .. n -> {"--help", "--config", "--scenario", "path", ""}] : n \in {0, 1, 2, 4}}
MCFiles == [exists : BOOLEAN, regular : BOOLEAN, size : 0 .. 2, opens : BOOLEAN, got : 0 .. 1, more : BOOLEAN]
MCTables == UNION {[1 .. n -> {"header", "row", "blank", "return", "long", "ragged", "unreadable"}] : n \in 0 .. 2}
            \cup {<<"header", "return", "row">>, <<"header", "row", "return">>}

---------------------------------------------------------------------------
(* Startup: an accepted configuration per mode, and one or two edits of it. *)

Tick == 4
Allow(scheme, host, upper, port) == [scheme |-> scheme, host |-> host, upper |-> upper, port |-> port]
MCBot(kind, profile, count) == [kind |-> kind, profile |-> profile, count |-> count]
MCHazard == [named |-> TRUE, radius |-> 1, mass |-> 1, restitution |-> 50, speed |-> 10, interval |-> 400 * Tick, variation |-> 10, lethal |-> TRUE]
MCHunter == [name |-> "hunter", named |-> TRUE, seek |-> 50, reaction |-> 0, aim |-> 0, persistence |-> 0, weights |-> <<0, 1>>, risk |-> 0, horizon |-> 0,
            screen |-> 0, anticipation |-> 0, caution |-> 1, brake |-> 0, exposure |-> 0, opening |-> 0]
MCRow == [form |-> "row", id |-> 999, value |-> "", inside |-> TRUE]
BaseInput(mode) ==
    [world |-> [width |-> 100, height |-> 80, radius |-> 2, drag |-> 0, rate |-> 400, columns |-> 4, rows |-> 4],
     server |-> [bind |-> "loopback", port |-> 8080, snapshots |-> 30, hosts |-> <<Allow("", "dns", FALSE, 0)>>, origins |-> <<>>, proxies |-> <<>>],
     match |-> [mode |-> mode, map_named |-> TRUE, seats |-> 4, roster |-> <<MCBot("chaser", "", 2)>>],
     movement |-> [acceleration |-> 400, top |-> 600],
     abilities |-> [shield |-> 9 * Tick, perfect |-> 3 * Tick, shield_cooldown |-> 0, parry_stun |-> Tick, charge_cooldown |-> Tick,
                    charge_active |-> Tick, charge_stun |-> Tick, fraction |-> 75, envelope |-> 20000],
     royale |-> [minimum |-> 20, shrink |-> Tick, grace |-> 0, countdown |-> 0, restart |-> 0],
     hill |-> [motion |-> "random_roam", radius |-> 5, dwell |-> Tick, travel |-> Tick, interval |-> 0, points |-> 3, limit |-> Tick, respawn |-> 0,
               countdown |-> 0, restart |-> 0, slow |-> 1, fast |-> 2, soon |-> Tick, late |-> 2 * Tick],
     race |-> [road_named |-> TRUE, radius |-> 2, respawn |-> 0, window |-> 0, limit |-> Tick, countdown |-> 0, restart |-> 0],
     hazards |-> <<MCHazard>>,
     lobby |-> [count |-> 1, sandbox_respawn |-> Tick],
     profiles |-> <<MCHunter>>,
     map |-> [named |-> TRUE, metadata |-> "", width |-> 100, height |-> 80, statics |-> 3, static_fault |-> "", marker_fault |-> "", spawns |-> 6,
              spawns_seatable |-> TRUE, spawns_on_road |-> TRUE, hills |-> 1, checkpoints |-> 2, checkpoints_on_road |-> TRUE,
              checkpoints_supported |-> TRUE, road_half_width |-> 3],
     scenario |-> [given |-> FALSE, header |-> TRUE, rows |-> 0, first |-> 4, last |-> <<>>]]

Edit(section, key, values) == {<<section, key, v>> : v \in values}
Odd == {Infinite, -1, 0, 1, 2}           \* durations: no number, negative, none, and either side of half a tick
MCEdits ==
    UNION {Edit("world", k, {Infinite, 0, 200}) : k \in {"width", "height", "radius"}}
    \cup Edit("world", "drag", {Infinite, -1}) \cup Edit("world", "rate", {60}) \cup Edit("world", "columns", {0, 1000, 2000}) \cup Edit("world", "rows", {0, 1000})
    \cup Edit("server", "bind", {"private", "public", "not_canonical"}) \cup Edit("server", "port", {0, 70000}) \cup Edit("server", "snapshots", {0, 61})
    \cup Edit("server", "hosts", {<<>>, <<Allow("", "bad", FALSE, 0)>>, <<Allow("", "dns", TRUE, 8080), Allow("", "dns", FALSE, 0)>>,
                                  <<Allow("", "v4", TRUE, 0)>>, <<Allow("", "v6", FALSE, 70000)>>})
    \cup Edit("server", "origins", {<<Allow("http", "dns", FALSE, 0)>>, <<Allow("", "dns", FALSE, 0)>>, <<Allow("http", "dns", FALSE, 80), Allow("http", "dns", TRUE, 0)>>,
                                    <<Allow("https", "v4", FALSE, 0), Allow("http", "v4", FALSE, 0)>>})
    \cup Edit("server", "proxies", {<<Allow("", "v4", FALSE, 0)>>, <<Allow("", "dns", FALSE, 0)>>})
    \cup Edit("match", "mode", {"Not_Snake", "tag"}) \cup Edit("match", "map_named", {FALSE}) \cup Edit("match", "seats", {0, 1, 7, 65})
    \cup Edit("match", "roster", {<<>>, <<MCBot("malformed", "", 1)>>, <<MCBot("", "", 1)>>, <<MCBot("chaser", "", 0)>>, <<MCBot("ghost", "", 1)>>,
                                  <<MCBot("chaser", "hunter", 1)>>, <<MCBot("tactician", "", 1)>>, <<MCBot("tactician", "hunter", 2)>>,
                                  <<MCBot("tactician", "Not_Snake", 1)>>, <<MCBot("tactician", "poet", 1)>>, <<MCBot("chaser", "", 5)>>,
                                  <<MCBot("chaser", "", 1), MCBot("chaser", "", 1)>>, <<MCBot("chaser", "", 256)>>, <<MCBot("chaser", "", 200), MCBot("wanderer", "", 57)>>})
    \cup Edit("movement", "acceleration", {Infinite, -1, 0, 10001}) \cup Edit("movement", "top", {0, 10000})
    \cup UNION {Edit("abilities", k, Odd) : k \in {"shield", "perfect", "shield_cooldown", "parry_stun", "charge_cooldown", "charge_active", "charge_stun"}}
    \cup Edit("abilities", "perfect", {10 * Tick}) \cup Edit("abilities", "shield", {2 * Tick}) \cup Edit("abilities", "fraction", {Infinite, 0, 201}) \cup Edit("abilities", "envelope", {Infinite, 0, 7499, 9000000})
    \cup Edit("royale", "minimum", {Infinite, -1, 0, 64, 65}) \cup UNION {Edit("royale", k, {Infinite, -1}) : k \in {"shrink", "grace", "countdown", "restart"}}
    \cup Edit("hill", "motion", {"still", "marker_tour"}) \cup UNION {Edit("hill", k, Odd) : k \in {"dwell", "travel", "interval", "limit", "soon", "late"}}
    \cup Edit("hill", "radius", {0}) \cup Edit("hill", "points", {0, 10000}) \cup Edit("hill", "slow", {Infinite, 0, 3}) \cup Edit("hill", "soon", {3 * Tick})
    \cup UNION {Edit("hill", k, {-1}) : k \in {"respawn", "countdown", "restart"}}
    \cup Edit("race", "road_named", {FALSE}) \cup Edit("race", "radius", {Infinite, 0, 4}) \cup UNION {Edit("race", k, {-1, 0, 9000000}) : k \in {"limit", "respawn", "window", "countdown", "restart"}}
    \cup Edit("map", "named", {FALSE}) \cup Edit("map", "metadata", {"full", "key", "value", "duplicate"}) \cup Edit("map", "width", {99, 200}) \cup Edit("map", "statics", {0, 95, 96, 192, 250, 300, 4097})
    \cup Edit("map", "static_fault", {"dynamic", "outside", "unsupported"}) \cup Edit("map", "marker_fault", {"kind", "outside"}) \cup Edit("map", "spawns", {0, 1, 64, 65})
    \cup Edit("map", "hills", {0}) \cup Edit("map", "checkpoints", {0, 4097}) \cup Edit("map", "road_half_width", {0, 1})
    \cup UNION {Edit("map", k, {FALSE}) : k \in {"spawns_seatable", "spawns_on_road", "checkpoints_on_road", "checkpoints_supported"}}
    \cup Edit("lobby", "count", {0, 2, 33}) \cup Edit("lobby", "sandbox_respawn", {-1})
\* Whole sections: the hazards, the profiles and the scenario.
Sections(c) ==
    {[c EXCEPT !.hazards = h] : h \in {<<>>, <<MCHazard, [MCHazard EXCEPT !.lethal = FALSE]>>, <<[MCHazard EXCEPT !.interval = 80 * Tick], [MCHazard EXCEPT !.interval = 400 * Tick]>>,
         <<[MCHazard EXCEPT !.named = FALSE]>>, <<[MCHazard EXCEPT !.radius = 0]>>, <<[MCHazard EXCEPT !.mass = Infinite]>>, <<[MCHazard EXCEPT !.restitution = 101]>>,
         <<[MCHazard EXCEPT !.speed = 900000]>>, <<[MCHazard EXCEPT !.interval = 1]>>, <<[MCHazard EXCEPT !.variation = 91]>>}}
    \cup {[c EXCEPT !.profiles = p] : p \in {<<>>, <<MCHunter, MCHunter>>, [k \in 1 .. 4 |-> [MCHunter EXCEPT !.name = <<"hunter", "a", "b", "c">>[k]]]}
              \cup {<<[MCHunter EXCEPT ![k] = 4001]>> : k \in {"seek", "reaction", "aim", "persistence", "risk", "horizon", "screen", "anticipation", "caution", "brake", "exposure", "opening"}}
              \cup {<<[MCHunter EXCEPT !.weights = <<0, 0>>]>>, <<[MCHunter EXCEPT !.named = FALSE]>>}}
    \cup {[c EXCEPT !.scenario = [given |-> TRUE, header |-> h, rows |-> r, first |-> f, last |-> l]] :
              h \in {TRUE}, r \in {0, 2, 200, 251, 4096}, f \in {1, 4, 200}, l \in {<<>>, <<MCRow>>}}
    \cup {[c EXCEPT !.scenario = [given |-> TRUE, header |-> h, rows |-> 1, first |-> 4, last |-> l]] :
              h \in BOOLEAN, l \in {<<[MCRow EXCEPT !.form = f]>> : f \in {"blank", "long", "ragged"}} \cup {<<[MCRow EXCEPT !.id = i]>> : i \in {0, 3, 4}}
                                   \cup {<<[MCRow EXCEPT !.value = v]>> : v \in {"too_large", "text", "infinite"}} \cup {<<[MCRow EXCEPT !.inside = FALSE]>>}}
Edited(c, e) == [c EXCEPT ![e[1]][e[2]] = e[3]]
Second == {e \in MCEdits : e[1] \in {"match", "map", "lobby"}}
MCControllerKinds == [chaser |-> FALSE, wanderer |-> FALSE, tactician |-> TRUE]

Given(c) == StartupInit(c)
StartupInputs ==
    \E m \in GameModes :
       \/ Given(BaseInput(m))
       \/ \E c \in Sections(BaseInput(m)) : Given(c) \/ \E e \in Second : Given(Edited(c, e))
       \/ \E d \in MCEdits :
             \/ Given(Edited(BaseInput(m), d))
             \/ \E e \in IF d[1] = "abilities" THEN MCEdits ELSE Second : Given(Edited(Edited(BaseInput(m), d), e))

---------------------------------------------------------------------------

BoundaryInit ==
    /\ part \in {"wire", "frames", "inputs", "startup"}
    /\ WireInit(IF part = "wire" THEN Masks ELSE {FreePlay}) /\ FramesInit
    /\ InputInit(IF part = "inputs" THEN {"configuration", "map"} ELSE {"map"})
    /\ IF part = "startup" THEN StartupInputs ELSE Given(BaseInput("royale"))

BoundaryNext ==
    \/ part = "wire" /\ WireNext /\ UNCHANGED <<part, frameVars, inputVars, startupVars>>
    \/ part = "frames" /\ FramesNext /\ UNCHANGED <<part, wireVars, inputVars, startupVars>>
    \/ part = "inputs" /\ InputNext /\ UNCHANGED <<part, wireVars, frameVars, startupVars>>
    \/ part = "startup" /\ StartupNext /\ UNCHANGED <<part, wireVars, frameVars, inputVars>>

BoundarySpec == BoundaryInit /\ [][BoundaryNext]_boundaryVars
===========================================================================
