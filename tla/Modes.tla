------------------------------- MODULE Modes -------------------------------
(***************************************************************************)
(* The modes with a clock: king of the hill under both of its policies,    *)
(* the race, and royale's zone, each on the engine's match machine.  A     *)
(* tick has two steps: Open (joins, leaves, seating) and the tick of the   *)
(* mode (the kernel's outcome as an input, then the mode's systems in the  *)
(* order it declares them, then match_lifecycle).                          *)
(*                                                                         *)
(* Combat has the systems that all modes share, RoyaleMatch the seats and  *)
(* royale's placements.  A player is a slot: when its entity is destroyed  *)
(* the slot may be taken by a new one, and standings of the old one are    *)
(* kept under Departed.                                                    *)
(***************************************************************************)
EXTENDS Integers, FiniteSets, Sequences, FiniteSetsExt, SequencesExt, HillRules, ZoneRules, RaceRules

CONSTANTS
    Players,            \* slots, positive integers
    ModesChecked,       \* among the four below
    TimeLimit,          \* time_limit_ticks of the hill and of the race
    Delay,              \* respawn_delay_ticks
    CountdownTicks, RestartDelay

ASSUME ModesAssumption ==
    /\ Players \subseteq Nat \ {0} /\ IsFiniteSet(Players)
    /\ ModesChecked \subseteq {"marker_tour", "random_roam", "race", "royale"}
    /\ TimeLimit \in Nat /\ Delay \in Nat
    /\ CountdownTicks \in Nat /\ RestartDelay \in Nat

VARIABLES
    mode,           \* the mode; for the hill its policy
    stage,          \* "open" or "play"
    phase, previous,
    since,          \* ticks since phase_started_tick
    elapsed,        \* ticks since running_started_tick, until the match ended
    place,          \* the Hill, or the Zone's radius
    players,        \* the components of each slot's entity
    standings,      \* RaceModeState::standings
    out             \* history: ticks since the slot's body was lost

vars == <<mode, stage, phase, previous, since, elapsed, place, players, standings, out>>

---------------------------------------------------------------------------
(* Values.                                                                 *)

Departed == 0
LongAgo == Delay + 2        \* where `out` stops counting
ClockBound == TimeLimit + FinishWindow + ZoneShrink + 1 \* where `elapsed` does

Nobody == [here |-> FALSE, body |-> FALSE, timer |-> 0, progress |-> NoProgress,
           presence |-> 0, score |-> 0, exposure |-> 0]

Tour == {"marker_tour", "random_roam"}
IsHill == mode \in Tour

\* participant_entities and alive_entities.
Participants(ps) == {p \in Players : ps[p].here}
Alive(ps) == {p \in Players : ps[p].body}

\* ticks_since as the place systems ask it: this tick since the start while
\* running, the end since the start once ended.  Bounded where nothing asks
\* for more.
Elapsed ==
    LET ticks == IF phase = "running" THEN elapsed + 1 ELSE elapsed
    IN IF ticks > ClockBound THEN ClockBound ELSE ticks

---------------------------------------------------------------------------
(* Phase 0.                                                                *)

\* NextFreeSpawnPointPolicy, and what GridSpawnPolicy and royale's policy ask
\* before it.
admits(p, ps) ==
    /\ ps[p].here /\ ~ ps[p].body /\ ps[p].timer = 0
    /\ ~ (phase = "lobby" /\ previous = "ended")
    /\ mode = "race" => grid_admits(ps[p], phase)
    /\ mode = "royale" => phase \in {"lobby", "countdown"}

Joined(p) == [players EXCEPT ![p] = [Nobody EXCEPT !.here = TRUE]]
Left(p) == [players EXCEPT ![p] = Nobody]

Forget(gone) ==
    [i \in DOMAIN standings |-> IF standings[i].entity \in gone
                                THEN [standings[i] EXCEPT !.entity = Departed] ELSE standings[i]]

Older(p) == IF out[p] = LongAgo THEN LongAgo ELSE out[p] + 1

\* At most one entity comes or goes, and some of the admitted find a free point.
Open ==
    /\ stage = "open" /\ stage' = "play"
    /\ \E ps \in {players} \cup {Joined(p) : p \in Players \ Participants(players)}
                           \cup {Left(p) : p \in Participants(players)} :
       \E seated \in SUBSET {p \in Players : admits(p, ps)} :
          /\ players' = [p \in Players |-> [ps[p] EXCEPT !.body = @ \/ p \in seated]]
          /\ standings' = Forget(Participants(players) \ Participants(ps))
          /\ out' = [p \in Players |-> IF ps[p].here THEN Older(p) ELSE LongAgo]
    /\ UNCHANGED <<mode, phase, previous, since, elapsed, place>>

---------------------------------------------------------------------------
(* Lifecycle systems.                                                      *)

\* respawn: timers that were running count, then this tick's eliminated lose
\* their body, and whatever is bound to a body goes with it.
respawn(ps, eliminated) ==
    [p \in Players |->
        LET r == [ps[p] EXCEPT !.timer = IF @ <= 1 THEN 0 ELSE @ - 1,
                               !.body = @ /\ p \notin eliminated]
        IN IF r.body THEN r
           ELSE [r EXCEPT !.timer = IF ps[p].body THEN Delay ELSE @, !.presence = 0, !.exposure = 0]]

\* match_reset: on the lobby's first tick after a match nobody is left.
match_reset(ps) ==
    IF phase = "lobby" /\ previous = "ended" THEN [p \in Players |-> Nobody] ELSE ps

Lost(ps) == {p \in Players : players[p].body /\ ~ ps[p].body}

\* Mutant of match_lifecycle: a tick that stays in the running phase starts it anew.
RestartsTheClock(ready, outcome) ==
    LET to == CASE phase = "lobby" /\ ready -> "countdown"
                [] phase = "countdown" /\ ~ ready -> "lobby"
                [] phase = "countdown" /\ ready /\ since + 1 >= CountdownTicks -> "running"
                [] phase = "running" /\ outcome # {} -> "ended"
                [] phase = "ended" /\ since + 1 >= RestartDelay -> "lobby"
                [] OTHER -> phase
    IN /\ previous' = phase /\ phase' = to
       /\ since' = IF to = phase /\ phase \in {"countdown", "ended"} THEN since + 1 ELSE 0
       /\ elapsed' = IF to = "ended" THEN Elapsed ELSE 0

\* match_lifecycle, given the objective's answers: whether the lobby is ready,
\* and the outcome if there is one.
match_lifecycle(ready, outcome) ==
    LET to == CASE phase = "lobby" /\ ready -> "countdown"
                [] phase = "countdown" /\ ~ ready -> "lobby"
                [] phase = "countdown" /\ ready /\ since + 1 >= CountdownTicks -> "running"
                [] phase = "running" /\ outcome # {} -> "ended"
                [] phase = "ended" /\ since + 1 >= RestartDelay -> "lobby"
                [] OTHER -> phase
    IN /\ previous' = phase /\ phase' = to
       /\ since' = IF to = phase /\ phase \in {"countdown", "ended"} THEN since + 1 ELSE 0
       /\ elapsed' = IF to \in {"running", "ended"} /\ phase # "countdown" THEN Elapsed ELSE 0

\* The end of a tick with these entities.
CommitTick(ps, outcome) ==
    /\ stage' = "open" /\ players' = ps
    /\ out' = [p \in Players |-> IF ~ ps[p].here THEN LongAgo ELSE IF p \in Lost(ps) THEN 0 ELSE out[p]]
    /\ \E ready \in BOOLEAN : match_lifecycle(ready, outcome)
    /\ UNCHANGED mode

---------------------------------------------------------------------------
(* The ticks of the modes.                                                 *)

\* Ground is only lost while the match runs.
MayFall == IF phase = "running" THEN Alive(players) ELSE {}

\* hill_movement, hill_scoring; respawn, match_reset.
HillTick ==
    /\ stage = "play" /\ IsHill
    /\ \E inside \in SUBSET Alive(players), falls \in SUBSET MayFall,
          hill \in hill_movement(mode, place, phase, Elapsed) :
          LET scored == [p \in Players |-> IF phase = "running" /\ players[p].body
                                           THEN hill_scoring(players[p], p \in inside, inside)
                                           ELSE players[p]]
              ps == match_reset(respawn(scored, falls))
          IN /\ CommitTick(ps, hill_outcome(Participants(ps), [p \in Players |-> ps[p].score],
                                            Elapsed, TimeLimit))
             /\ place' = hill
    /\ UNCHANGED standings

\* Mutant of Race: respawn before checkpoint_respawn.
RespawnFirst(ps, falls, free) ==
    LET rs == respawn(ps, falls)
    IN match_reset([p \in Players |-> IF rs[p].here /\ returns_to_gate(rs[p]) /\ p \in free
                                      THEN [rs[p] EXCEPT !.body = TRUE] ELSE rs[p]])

\* The race's lifecycle systems: checkpoint_respawn, respawn, match_reset; the
\* gates of some are free.
Race(ps, falls, free) ==
    LET rs == [p \in Players |-> IF ps[p].here /\ returns_to_gate(ps[p]) /\ p \in free
                                 THEN [ps[p] EXCEPT !.body = TRUE] ELSE ps[p]]
    IN match_reset(respawn(rs, falls))

\* What the racers may cross in this tick, and when they finish.
Crossings ==
    {c \in [Players -> 0 .. Gates] :
        \A p \in Players : c[p] > 0 => /\ phase = "running" /\ Racing(players[p])
                                       /\ Cursor(players[p]) + c[p] <= Gates}

Offsets(finishers) == {o \in [Players -> 1 .. 2] : \A p \in Players \ finishers : o[p] = 1}

\* The race's list is cleared by the first tick of the next race.
Recorded(finishers, offset) ==
    IF phase # "running" THEN standings
    ELSE standings_recorder(IF previous = "countdown" THEN <<>> ELSE standings, finishers, offset, Elapsed)

\* checkpoint_progress; standings_recorder and the systems of Race.  A finish
\* ends the motion of its racer in this tick: it does not fall.
RaceTick ==
    /\ stage = "play" /\ mode = "race"
    /\ \E crossed \in Crossings :
       \E finishers \in {{p \in Players : crossed[p] > 0 /\ Cursor(players[p]) + crossed[p] = Gates}} :
       \E offset \in Offsets(finishers), falls \in SUBSET (MayFall \ finishers) :
       \E free \in SUBSET {p \in Participants(players) : ~ players[p].body} :
          LET raced == [p \in Players |-> IF phase = "running" THEN checkpoint_progress(players[p], crossed[p])
                                          ELSE players[p]]
              ps == Race(raced, falls, free)
              list == Recorded(finishers, offset)
          IN /\ CommitTick(ps, race_outcome(Participants(ps), list,
                                            [p \in Players |-> Cursor(ps[p])], Elapsed, TimeLimit))
             /\ standings' = list
    /\ UNCHANGED place

\* zone_shrink, zone_elimination; placement_recorder (which destroys whoever is
\* eliminated), match_reset.
ZoneTick ==
    /\ stage = "play" /\ mode = "royale"
    /\ \E outside \in SUBSET MayFall, falls \in SUBSET MayFall :
          LET counted == [p \in Players |-> IF phase = "running" /\ players[p].body
                                            THEN Exposed(players[p], p \in outside) ELSE players[p]]
              eliminated == falls \cup {p \in MayFall : zone_elimination(players[p], p \in outside)}
              ps == match_reset([p \in Players |-> IF p \in eliminated THEN Nobody ELSE counted[p]])
          IN CommitTick(ps, royale_outcome(Alive(ps)))
    /\ place' = zone_shrink(phase, Elapsed)
    /\ UNCHANGED standings

---------------------------------------------------------------------------

FirstPlace(m) ==
    CASE m \in Tour -> HillAt(FirstMarker) [] m = "race" -> 0 [] m = "royale" -> ZoneFull

Init ==
    /\ mode \in ModesChecked
    /\ stage = "open" /\ phase = "lobby" /\ previous = "lobby"
    /\ since = 0 /\ elapsed = 0 /\ place = FirstPlace(mode)
    /\ players = [p \in Players |-> Nobody] /\ standings = <<>>
    /\ out = [p \in Players |-> LongAgo]

Next == Open \/ HillTick \/ RaceTick \/ ZoneTick

\* The worker keeps ticking (SimulationRuntime).
Spec == Init /\ [][Next]_vars /\ WF_vars(Next)

---------------------------------------------------------------------------
(* Properties.                                                             *)

PlaceOK ==
    CASE IsHill -> /\ place.center \in 0 .. ArenaWidth /\ place.velocity \in -HillSpeed .. HillSpeed
                   /\ place.left \in NoSchedule .. RetargetMaximum - 1
      [] mode = "race" -> place = 0
      [] mode = "royale" -> place \in ZoneMinimum .. ZoneFull

\* Every component keeps its range: in particular the hill never leaves the
\* arena, whatever courses it takes.
TypeOK ==
    /\ mode \in ModesChecked /\ stage \in {"open", "play"}
    /\ {phase, previous} \subseteq {"lobby", "countdown", "running", "ended"}
    /\ since \in 0 .. CountdownTicks + RestartDelay
    /\ elapsed \in 0 .. ClockBound /\ PlaceOK
    /\ \A p \in Players :
          /\ players[p].here \in BOOLEAN /\ players[p].body \in BOOLEAN
          /\ players[p].timer \in 0 .. Delay /\ players[p].progress \in NoProgress .. Gates
          /\ players[p].presence \in 0 .. PointInterval /\ players[p].score \in 0 .. PointsToWin
          /\ players[p].exposure \in 0 .. EliminationGrace
    /\ out \in [Players -> 0 .. LongAgo]

\* However finishes fall into ticks, a placement is one more than the number of
\* strictly earlier finishes, and nobody is placed twice
\* (standings_recorder_system.cpp).
StandingsRankByTime ==
    LET earlier(s, t) == s.tick < t.tick \/ (s.tick = t.tick /\ s.offset < t.offset)
    IN \A i \in DOMAIN standings :
          /\ standings[i].placement
                = 1 + Cardinality({j \in DOMAIN standings : earlier(standings[j], standings[i])})
          /\ \A j \in DOMAIN standings :
                standings[i].entity = standings[j].entity => i = j \/ standings[i].entity = Departed

\* Whichever way a body comes back, by the grid or at a gate, it comes back no
\* sooner than the delay and one tick after the tick it was lost in
\* (grid_spawn_policy.hpp: "the other route, aligned to N + D + 1").
ReturnsAreAligned ==
    [][\A p \in Players : (~ players[p].body /\ players'[p].body) => out'[p] > Delay]_vars

\* Unless a contested hill scores, the points and partial points on the board
\* are ticks of this match, each spent by one player alone on the hill: nothing
\* is counted twice and nothing is left from an earlier match
\* (hill_scoring_system.cpp).
PointsFitTheClock ==
    (IsHill /\ ~ ContestedHillScores /\ phase \in {"running", "ended"}) =>
        SumFunction([p \in Players |-> players[p].score * PointInterval + players[p].presence]) <= elapsed

\* A hill match and a race always end, whoever stays, leaves, falls or finishes
\* (hill_objective.cpp, race_objective.cpp).
MatchesEnd == (phase = "running" /\ mode # "royale") ~> (phase = "ended")

\* Standings and points say what happened in this match, however finishes,
\* falls, arrivals and departures share its ticks.
ScoresAreFair == TypeOK /\ StandingsRankByTime /\ PointsFitTheClock
====
