--------------------------- MODULE RoyaleMatch ---------------------------
(***************************************************************************)
(* One room's match: the deterministic tick of GameSimulation::step        *)
(* (src/src/simulation/game_simulation.cpp) for the royale mode, reduced   *)
(* to the state that decides who is seated, who has a body, which phase    *)
(* the match is in, and how it is scored.                                  *)
(*                                                                         *)
(* A tick is a pass over a working copy of the world:                      *)
(*                                                                         *)
(*   OpenTick            the batch is handed to the tick                   *)
(*   <command actions>   phase 0, one command at a time, in the canonical  *)
(*                       order InputBatch::create sorts a batch into       *)
(*   FinishIntake        the tail of apply_input_batch (the tuning winner) *)
(*   SeatPendingEntities SpawnSystem with royale's RotatingRingSpawnPolicy *)
(*   Kernel              motion, contacts, zone: here only "who is         *)
(*                       eliminated this tick", a free choice of players   *)
(*                       with a body while the match is running            *)
(*   RecordPlacements    PlacementRecorderSystem                           *)
(*   ResetMatch          MatchResetSystem                                  *)
(*   AdvanceLifecycle    MatchLifecycleSystem, and the commit              *)
(*                                                                         *)
(* The batch is not a variable.  A batch is an arbitrary set of accepted   *)
(* commands, at most one per (kind, addressed identity), applied in        *)
(* ascending (rank, identity): the cursor remembers the last position      *)
(* applied, and any accepted command after it may be the next one.         *)
(*                                                                         *)
(* Left out because nothing here depends on it: positions and velocities,  *)
(* spawn points and their rotation counter (seating takes an arbitrary     *)
(* choice of at most SpawnPointCount pending entities), the steering and   *)
(* ability commands that are only recorded for the kernel, bot profiles.   *)
(* Seats are numbered from 1; the source numbers them from 0.              *)
(***************************************************************************)
EXTENDS Integers, FiniteSets, Sequences

CONSTANTS
    Controllers,        \* ControllerId values, ordered as the ids are
    Declarations,       \* NpcDeclaration values a seat may declare
    AcceptedKinds,      \* the mode's accepted command kinds
    InitialSeatCount,   \* [match] lobby_seat_count
    MaximumSeatCount,   \* kMaximumLobbySeatCount
    SpawnPointCount,    \* spawn markers of the map: the lobby's ceiling
    CountdownTicks,     \* [royale] countdown_ticks
    RestartDelayTicks,  \* [royale] restart_delay_ticks
    MaxEntities,        \* bound: entities created in a behaviour
    MaxRevision         \* kMaximumProtocolSafeInteger

\* No ControllerId is zero, so zero stands for an absent controller.
NoController == 0
NoDeclaration == "none"

\* Kinds this module models, in phase 0's application order.
CommandKinds == {"despawn", "spawn", "set_movement_tuning", "set_seat_count",
                 "clear_seat", "seat_npc", "start_match", "join", "leave"}

ASSUME MatchAssumption ==
    /\ Controllers \subseteq (Nat \ {NoController})
    /\ IsFiniteSet(Controllers)
    /\ NoDeclaration \notin Declarations
    /\ AcceptedKinds \subseteq CommandKinds
    /\ MaximumSeatCount \in Nat
    /\ InitialSeatCount \in 1 .. MaximumSeatCount
    /\ SpawnPointCount \in Nat
    /\ CountdownTicks \in Nat
    /\ RestartDelayTicks \in Nat
    /\ MaxEntities \in Nat
    /\ MaxRevision \in Nat

VARIABLES
    stage,            \* which part of the tick runs next
    cursor,           \* <<rank, identity>> of the last command applied
    seats,            \* SeatRoster::seats_
    start_requested,  \* SeatRoster::start_requested_
    phase,            \* MatchState::phase
    previous_phase,   \* MatchState::previous_phase
    elapsed,          \* this tick's sequence - MatchState::phase_started_tick
    outcome,          \* MatchState::outcome
    bodies,           \* entities with a Controllable, seated if they own a body
    next_entity,      \* the next EntityId the tick's reservation issues
    eliminated,       \* this tick's EliminationEvents
    placements,       \* RoyalePlacementsModeState::placements, as a set: the
                      \* list is sorted by falling placement, then entity
    revision,         \* MatchState::movement.revision
    entry_revision,   \* the revision as the tick found it
    decisions,        \* this tick's MovementTuningDecisions
    pressed,          \* history: start_match applied in the current lobby
    left,             \* history: controllers whose leave this tick applied
    entry_seated,     \* history: controllers seated when the tick opened
    ended_at,         \* history: next_entity when the last match ended
    field             \* history: bodies alive when the match started running

roster == <<seats, start_requested>>
match == <<phase, previous_phase, elapsed, outcome>>
entities == <<bodies, next_entity>>
tuning == <<revision, entry_revision, decisions>>
history == <<pressed, left, entry_seated, ended_at, field>>
vars == <<stage, cursor, roster, match, entities, eliminated, placements,
          tuning, history>>

Phases == {"lobby", "countdown", "running", "ended"}
Stages == {"idle", "intake", "seating", "kernel", "recorder", "reset",
           "lifecycle"}
DecisionStatuses == {"not_seated", "stale_revision", "revision_exhausted",
                     "unsupported", "superseded", "applied"}

\* elapsed is only compared with the two durations, so it saturates at the
\* larger of them.
ElapsedCap == IF CountdownTicks < RestartDelayTicks
              THEN RestartDelayTicks ELSE CountdownTicks

---------------------------------------------------------------------------
(* Seats (seat_roster.hpp).                                                *)

EmptySeat == [arm |-> "empty", controller |-> NoController,
              declaration |-> NoDeclaration]
ControllerSeat(c) == [arm |-> "controller", controller |-> c,
                      declaration |-> NoDeclaration]
NpcSeat(d, c) == [arm |-> "npc", controller |-> c, declaration |-> d]

Seat == {EmptySeat}
        \cup {ControllerSeat(c) : c \in Controllers}
        \cup {NpcSeat(d, c) : d \in Declarations,
                              c \in Controllers \cup {NoController}}

seat_is_filled(seat) == seat.controller # NoController
seat_is_occupied(seat) == seat.arm # "empty"

is_full == DOMAIN seats # {} /\ \A i \in DOMAIN seats : seat_is_filled(seats[i])

\* can_start of every lobby mode (shared/lobby_start_rule.hpp).
lobby_ready_to_start == is_full /\ start_requested

HoldsSeat(c, i) == i \in DOMAIN seats /\ seats[i].controller = c
controller_holds_a_seat(c) == \E i \in DOMAIN seats : HoldsSeat(c, i)

IsLowest(i, S) == i \in S /\ \A j \in S : i <= j
EmptySeats == {i \in DOMAIN seats : seats[i].arm = "empty"}
NpcSeats == {i \in DOMAIN seats : seats[i].arm = "npc"}

\* first_joinable_seat returns i: the lowest empty seat, else, before the
\* match has started, the lowest seat declared for a bot.
FirstJoinableSeat(i) ==
    \/ IsLowest(i, EmptySeats)
    \/ /\ EmptySeats = {}
       /\ phase \in {"lobby", "countdown"}
       /\ IsLowest(i, NpcSeats)

controller_holds_a_body(c) == \E b \in bodies : b.controller = c

alive_entities == {b \in bodies : b.seated}

---------------------------------------------------------------------------
(* Phase 0: the canonical order (command_registry.hpp, input_batch.cpp).   *)

\* Mutant of command_kind_application_rank: leave runs before join.
LeaveBeforeJoin ==
    [despawn |-> 0, spawn |-> 1, set_movement_tuning |-> 3,
     set_seat_count |-> 4, clear_seat |-> 5, seat_npc |-> 6,
     start_match |-> 7, join |-> 9, leave |-> 8]

command_kind_application_rank ==
    [despawn |-> 0, spawn |-> 1, set_movement_tuning |-> 3,
     set_seat_count |-> 4, clear_seat |-> 5, seat_npc |-> 6,
     start_match |-> 7, join |-> 8, leave |-> 9]

\* A batch holds at most one command per (rank, identity), ascending.
Precedes(p, q) == p[1] < q[1] \/ (p[1] = q[1] /\ p[2] < q[2])

\* The next command of the batch is of this kind and addresses this identity.
NextCommand(kind, identity) ==
    LET position == <<command_kind_application_rank[kind], identity>> IN
    /\ stage = "intake"
    /\ kind \in AcceptedKinds
    /\ Precedes(cursor, position)
    /\ cursor' = position
    /\ stage' = stage

OpenTick ==
    /\ stage = "idle"
    /\ stage' = "intake"
    /\ cursor' = <<0, 0>>
    /\ elapsed' = IF elapsed < ElapsedCap THEN elapsed + 1 ELSE elapsed
    /\ entry_revision' = revision
    /\ decisions' = {}
    /\ eliminated' = {}
    /\ left' = {}
    /\ entry_seated' = {c \in Controllers : controller_holds_a_seat(c)}
    /\ UNCHANGED <<roster, phase, previous_phase, outcome, entities,
                   placements, revision, pressed, ended_at, field>>

Despawn(b) ==
    /\ NextCommand("despawn", b.id)
    /\ bodies' = bodies \ {b}
    /\ UNCHANGED <<roster, match, next_entity, eliminated, placements, tuning,
                   history>>

\* A controller drives at most one body: a repeated spawn is ignored.
Spawn(c) ==
    /\ NextCommand("spawn", c)
    /\ IF controller_holds_a_body(c)
       THEN UNCHANGED entities
       ELSE /\ next_entity <= MaxEntities
            /\ bodies' = bodies \cup {[id |-> next_entity, controller |-> c,
                                       seated |-> FALSE]}
            /\ next_entity' = next_entity + 1
    /\ UNCHANGED <<roster, match, eliminated, placements, tuning, history>>

\* A contender is recorded as superseded; FinishIntake promotes the last one.
TuningStatus(c, expected, admitted) ==
    CASE ~ controller_holds_a_seat(c)    -> "not_seated"
      [] controller_holds_a_seat(c) /\ expected # entry_revision
                                         -> "stale_revision"
      [] controller_holds_a_seat(c) /\ expected = entry_revision
         /\ entry_revision >= MaxRevision -> "revision_exhausted"
      [] OTHER -> IF admitted THEN "superseded" ELSE "unsupported"

SetMovementTuning(c, expected, admitted) ==
    /\ NextCommand("set_movement_tuning", c)
    /\ decisions' = decisions \cup
          {[controller |-> c, status |-> TuningStatus(c, expected, admitted)]}
    /\ UNCHANGED <<roster, match, entities, eliminated, placements, revision,
                   entry_revision, history>>

---------------------------------------------------------------------------
(* Phase 0: the four lobby commands (apply_lobby_command), each a no-op    *)
(* unless the phase is lobby.                                              *)

\* Mutant of try_set_seat_count: truncating.
TruncatingResize(n) ==
    [i \in 1 .. n |-> IF i \in DOMAIN seats THEN seats[i] ELSE EmptySeat]

try_set_seat_count(n) ==
    IF \E i \in DOMAIN seats : i > n /\ seat_is_occupied(seats[i])
    THEN seats
    ELSE [i \in 1 .. n |-> IF i \in DOMAIN seats THEN seats[i] ELSE EmptySeat]

SetSeatCount(c, n) ==
    /\ NextCommand("set_seat_count", c)
    /\ seats' = IF phase = "lobby" /\ n <= SpawnPointCount
                THEN try_set_seat_count(n) ELSE seats
    /\ UNCHANGED <<start_requested, match, entities, eliminated, placements,
                   tuning, history>>

\* Only a declared bot's seat is cleared.
ClearSeat(c, i) ==
    /\ NextCommand("clear_seat", c)
    /\ seats' = IF phase = "lobby" /\ i \in NpcSeats
                THEN [seats EXCEPT ![i] = EmptySeat] ELSE seats
    /\ UNCHANGED <<start_requested, match, entities, eliminated, placements,
                   tuning, history>>

\* First wins: an occupied seat is left alone.
SeatNpc(c, i, d) ==
    /\ NextCommand("seat_npc", c)
    /\ seats' = IF phase = "lobby" /\ i \in EmptySeats
                THEN [seats EXCEPT ![i] = NpcSeat(d, NoController)] ELSE seats
    /\ UNCHANGED <<start_requested, match, entities, eliminated, placements,
                   tuning, history>>

StartMatch(c) ==
    /\ NextCommand("start_match", c)
    /\ start_requested' = (start_requested \/ phase = "lobby")
    /\ pressed' = (pressed \/ phase = "lobby")
    /\ UNCHANGED <<seats, match, entities, eliminated, placements, tuning,
                   left, entry_seated, ended_at, field>>

---------------------------------------------------------------------------
(* Phase 0: join and leave (apply_join, apply_leave).                      *)

\* A person's join takes the first joinable seat, if there is one.
JoinAnySeat(c) ==
    /\ NextCommand("join", c)
    /\ IF controller_holds_a_seat(c) \/ ~ \E i \in DOMAIN seats : FirstJoinableSeat(i)
       THEN seats' = seats
       ELSE \E i \in DOMAIN seats :
               /\ FirstJoinableSeat(i)
               /\ seats' = [seats EXCEPT ![i] = ControllerSeat(c)]
    /\ UNCHANGED <<start_requested, match, entities, eliminated, placements,
                   tuning, history>>

\* A bot's join names the seat that declared it, and fills it only while it
\* still makes that declaration and has no controller.
JoinDeclaredSeat(c, i, d) ==
    /\ NextCommand("join", c)
    /\ seats' = IF /\ ~ controller_holds_a_seat(c)
                   /\ i \in NpcSeats
                   /\ ~ seat_is_filled(seats[i])
                   /\ seats[i].declaration = d
                THEN [seats EXCEPT ![i].controller = c] ELSE seats
    /\ UNCHANGED <<start_requested, match, entities, eliminated, placements,
                   tuning, history>>

\* A departing controller loses every body and seat; a bot's seat keeps its
\* declaration.
Leave(c) ==
    /\ NextCommand("leave", c)
    /\ bodies' = {b \in bodies : b.controller # c}
    /\ seats' = [i \in DOMAIN seats |->
                    CASE seats[i].controller # c    -> seats[i]
                      [] seats[i].controller = c /\ seats[i].arm = "controller"
                                                    -> EmptySeat
                      [] OTHER -> NpcSeat(seats[i].declaration, NoController)]
    /\ left' = left \cup {c}
    /\ UNCHANGED <<start_requested, match, next_entity, eliminated, placements,
                   tuning, pressed, entry_seated, ended_at, field>>

---------------------------------------------------------------------------
(* The rest of the tick.                                                   *)

\* The last contender in batch order, which is the greatest controller.
Contenders == {d.controller : d \in {e \in decisions : e.status = "superseded"}}
\* Mutant of IsWinner: every contender wins.
EveryContenderWins(c) == c \in Contenders
IsWinner(c) == c \in Contenders /\ \A other \in Contenders : other <= c

FinishIntake ==
    /\ stage = "intake"
    /\ stage' = "seating"
    /\ cursor' = <<0, 0>>
    /\ IF Contenders = {}
       THEN UNCHANGED <<revision, decisions>>
       ELSE /\ revision' = entry_revision + 1
            /\ decisions' = {[d EXCEPT !.status =
                                 IF d.status = "superseded" /\ IsWinner(d.controller)
                                 THEN "applied" ELSE d.status] : d \in decisions}
    /\ UNCHANGED <<roster, match, entities, eliminated, placements,
                   entry_revision, history>>

\* RotatingRingSpawnPolicy: nobody is seated during a match, nor on the one
\* lobby tick that clears the arena.
SeatingIsOpen ==
    /\ phase \notin {"running", "ended"}
    /\ ~ (phase = "lobby" /\ previous_phase = "ended")

SeatPendingEntities ==
    /\ stage = "seating"
    /\ stage' = "kernel"
    /\ \E chosen \in SUBSET {b \in bodies : ~ b.seated} :
          /\ Cardinality(chosen) <= SpawnPointCount
          /\ ~ SeatingIsOpen => chosen = {}
          /\ bodies' = {IF b \in chosen THEN [b EXCEPT !.seated = TRUE] ELSE b :
                           b \in bodies}
    /\ UNCHANGED <<cursor, roster, match, next_entity, eliminated, placements,
                   tuning, history>>

\* Zone, lethal hazards and terrain eliminate only while running, and only an
\* entity that has a body.
Kernel ==
    /\ stage = "kernel"
    /\ stage' = "recorder"
    /\ \E out \in SUBSET alive_entities :
          /\ phase # "running" => out = {}
          /\ eliminated' = out
    /\ UNCHANGED <<cursor, roster, match, entities, placements, tuning, history>>

\* The first tick of a match.
IsFirstRunningTick == phase = "running" /\ previous_phase = "countdown"

Survivors == bodies \ eliminated

\* Mutant of SharedPlacement: counted from zero.
PlacementFromZero == Cardinality({b \in Survivors : b.seated})

\* Everyone eliminated in one tick shares the place below the survivors.
SharedPlacement == Cardinality({b \in Survivors : b.seated}) + 1

\* PlacementRecorderSystem: the first running tick clears the last match's
\* list; the eliminated are destroyed, then counted out, then appended.
RecordPlacements ==
    /\ stage = "recorder"
    /\ stage' = "reset"
    /\ bodies' = Survivors
    /\ placements' = (IF IsFirstRunningTick THEN {} ELSE placements) \cup
          {[entity |-> b.id, controller |-> b.controller,
            placement |-> SharedPlacement] : b \in eliminated}
    /\ UNCHANGED <<cursor, roster, match, next_entity, eliminated, tuning, history>>

\* MatchResetSystem: the lobby tick after a match destroys every participant,
\* pending ones included.
ResetMatch ==
    /\ stage = "reset"
    /\ stage' = "lifecycle"
    /\ bodies' = IF phase = "lobby" /\ previous_phase = "ended" THEN {} ELSE bodies
    /\ UNCHANGED <<cursor, roster, match, next_entity, eliminated, placements,
                   tuning, history>>

\* Mutant of commit_transition: the request outlives the lobby it was made in.
TransitionKeepsRequest(next) ==
    /\ phase' = next
    /\ elapsed' = 0
    /\ start_requested' = start_requested
    /\ pressed' = (pressed /\ next # "lobby")

\* commit_transition: entering lobby, and only that, clears the start request.
commit_transition(next) ==
    /\ phase' = next
    /\ elapsed' = 0
    /\ start_requested' = (start_requested /\ next # "lobby")
    /\ pressed' = (pressed /\ next # "lobby")

Undecided == [verdict |-> "undecided", winner |-> 0]

\* RoyaleObjective::outcome: the last one standing wins, nobody left is a draw.
royale_outcome ==
    LET alive == alive_entities IN
    CASE Cardinality(alive) = 1 ->
            [verdict |-> "won", winner |-> (CHOOSE b \in alive : TRUE).id]
      [] alive = {}             -> [verdict |-> "drawn", winner |-> 0]
      [] OTHER                  -> Undecided

\* Mutant of StayInPhase: phase_started_tick is rewritten on every tick.
StayAndRestartClock ==
    elapsed' = 0 /\ UNCHANGED <<phase, start_requested, pressed>>

StayInPhase == UNCHANGED <<phase, elapsed, start_requested, pressed>>

LobbyArm ==
    /\ phase = "lobby"
    /\ IF lobby_ready_to_start THEN commit_transition("countdown") ELSE StayInPhase
    /\ UNCHANGED <<outcome, ended_at, field>>

\* Losing the ability to start takes precedence over the countdown elapsing.
CountdownArm ==
    /\ phase = "countdown"
    /\ CASE ~ lobby_ready_to_start -> commit_transition("lobby") /\ field' = field
         [] lobby_ready_to_start /\ elapsed >= CountdownTicks ->
               commit_transition("running") /\ field' = Cardinality(alive_entities)
         [] OTHER -> StayInPhase /\ field' = field
    /\ UNCHANGED <<outcome, ended_at>>

RunningArm ==
    /\ phase = "running"
    /\ IF royale_outcome.verdict = "undecided"
       THEN StayInPhase /\ UNCHANGED <<outcome, ended_at>>
       ELSE /\ commit_transition("ended")
            /\ outcome' = royale_outcome
            /\ ended_at' = next_entity
    /\ field' = field

EndedArm ==
    /\ phase = "ended"
    /\ IF elapsed >= RestartDelayTicks
       THEN commit_transition("lobby") ELSE StayInPhase
    /\ UNCHANGED <<outcome, ended_at, field>>

\* MatchLifecycleSystem::apply, last of the lifecycle stage, and the commit.
AdvanceLifecycle ==
    /\ stage = "lifecycle"
    /\ stage' = "idle"
    /\ previous_phase' = phase
    /\ LobbyArm \/ CountdownArm \/ RunningArm \/ EndedArm
    /\ UNCHANGED <<cursor, seats, entities, eliminated, placements, tuning, left,
                   entry_seated>>

---------------------------------------------------------------------------

Init ==
    /\ stage = "idle"
    /\ cursor = <<0, 0>>
    /\ seats = [i \in 1 .. InitialSeatCount |-> EmptySeat]
    /\ start_requested = FALSE
    /\ phase = "lobby"
    /\ previous_phase = "lobby"
    /\ elapsed = 0
    /\ outcome = Undecided
    /\ bodies = {}
    /\ next_entity = 1
    /\ eliminated = {}
    /\ placements = {}
    /\ revision = 0
    /\ entry_revision = 0
    /\ decisions = {}
    /\ pressed = FALSE
    /\ left = {}
    /\ entry_seated = {}
    /\ ended_at = 1
    /\ field = 0

\* seat_count and seat_index are range-checked before they reach a batch.
SeatNumbers == 1 .. MaximumSeatCount

ApplyCommand ==
    \/ \E b \in bodies : Despawn(b)
    \/ \E c \in Controllers :
          \/ Spawn(c)
          \/ \E expected \in {entry_revision, entry_revision + 1}, admitted \in BOOLEAN :
                SetMovementTuning(c, expected, admitted)
          \/ \E n \in SeatNumbers : SetSeatCount(c, n)
          \/ \E i \in SeatNumbers : ClearSeat(c, i)
          \/ \E i \in SeatNumbers, d \in Declarations : SeatNpc(c, i, d)
          \/ StartMatch(c)
          \/ JoinAnySeat(c)
          \/ \E i \in SeatNumbers, d \in Declarations : JoinDeclaredSeat(c, i, d)
          \/ Leave(c)

\* The parts of a tick the engine always runs, whatever the batch holds.
RunTick ==
    \/ OpenTick
    \/ FinishIntake
    \/ SeatPendingEntities
    \/ Kernel
    \/ RecordPlacements
    \/ ResetMatch
    \/ AdvanceLifecycle

Next == ApplyCommand \/ RunTick

Spec == Init /\ [][Next]_vars

\* The runtime's worker keeps ticking (SimulationRuntime), and a batch is
\* finite, so every tick that opens is carried to its commit.
FairSpec == Spec /\ WF_vars(RunTick)

---------------------------------------------------------------------------
(* Properties.                                                             *)

\* The fields of a tick have the types the source gives them.
TypeOK ==
    /\ stage \in Stages
    /\ cursor \in Nat \X Nat
    /\ \E n \in 1 .. MaximumSeatCount : seats \in [1 .. n -> Seat]
    /\ start_requested \in BOOLEAN
    /\ phase \in Phases
    /\ previous_phase \in Phases
    /\ elapsed \in Nat
    /\ outcome \in [verdict : {"undecided", "won", "drawn"}, winner : Nat]
    /\ bodies \subseteq [id : Nat, controller : Controllers, seated : BOOLEAN]
    /\ next_entity \in Nat
    /\ eliminated \subseteq [id : Nat, controller : Controllers, seated : BOOLEAN]
    /\ placements \subseteq [entity : Nat, controller : Controllers, placement : Nat]
    /\ revision \in Nat
    /\ entry_revision \in Nat
    /\ decisions \subseteq [controller : Controllers, status : DecisionStatuses]
    /\ pressed \in BOOLEAN
    /\ left \subseteq Controllers
    /\ entry_seated \subseteq Controllers
    /\ ended_at \in Nat
    /\ field \in Nat

\* No controller ever holds two seats, whatever mix of a person's join, a
\* bot's join, a displacement, a resize and a leave a batch applies
\* (apply_join's controller_holds_a_seat guard and assign_seat).
OneSeatPerController ==
    \A c \in Controllers : \A i, j \in DOMAIN seats :
        HoldsSeat(c, i) /\ HoldsSeat(c, j) => i = j

\* No controller ever drives two bodies, across ticks and matches
\* (apply_input_batch's controller_holds_a_body guard).
OneBodyPerController ==
    \A a, b \in bodies : a.controller = b.controller => a = b

\* "A match never starts without someone pressing Start for this lobby"
\* (match_lifecycle_system.cpp, commit_transition): a countdown or a running
\* match was asked for after the room last entered lobby.
EveryMatchWasRequested ==
    phase \in {"countdown", "running"} => pressed

\* Once this tick has applied a controller's leave it holds no seat and no
\* body, though its spawn and its join may be in the same batch
\* (command_kind_application_rank puts leave after both).
LeaversHoldNothing ==
    \A c \in left : ~ controller_holds_a_seat(c) /\ ~ controller_holds_a_body(c)

\* Nobody who played or waited through one match is carried into the next:
\* every body in a countdown or a running match was created after the last
\* match ended (MatchResetSystem and the spawn policy agree on one tick).
NoBodySurvivesTheMatch ==
    phase \in {"countdown", "running"} => \A b \in bodies : b.id >= ended_at

\* The placement list belongs to this match from its first tick's recorder on.
ListIsCurrent ==
    \/ phase = "ended"
    \/ phase = "running" /\ previous_phase = "running"

\* Nobody is placed twice in a match, and nobody placed is still alive: an
\* eliminated controller that spawns again waits for the next lobby.
PlacedOnce ==
    ListIsCurrent =>
        /\ \A p, q \in placements : p.controller = q.controller => p = q
        /\ \A p \in placements, b \in alive_entities : p.controller # b.controller

\* Every entry of the current list ranks below everyone still alive, and the
\* field that started the match bounds the list and its survivors together,
\* so placement_recorder's limit is never what stops a match.
PlacementsRankTheField ==
    ListIsCurrent =>
        /\ \A p \in placements : p.placement > Cardinality(alive_entities)
        /\ Cardinality(placements) + Cardinality(alive_entities) <= field

\* The declared winner was never eliminated, and a win leaves placement one
\* free (RoyaleObjective::outcome after PlacementRecorderSystem).
WinnerWasNotPlaced ==
    phase = "ended" /\ outcome.verdict = "won" =>
        \A p \in placements : p.entity # outcome.winner /\ p.placement > 1

\* One tick applies at most one tuning request, raises the revision by one
\* exactly when it applies one, leaves no contender without a winner, and
\* takes it from a controller that was seated when the tick opened, whoever
\* joins or leaves in the same batch.
TuningIsSettled ==
    LET Having(s) == {d \in decisions : d.status = s} IN
    stage \notin {"intake"} =>
        /\ Cardinality(Having("applied")) <= 1
        /\ Having("superseded") # {} => Having("applied") # {}
        /\ stage # "idle" =>
              revision = entry_revision + Cardinality(Having("applied"))
        /\ revision <= MaxRevision
        /\ \A d \in Having("applied") : d.controller \in entry_seated

\* A seated controller's seat index never changes under it: resizing appends
\* or drops empty seats only, and a join never moves who is already seated
\* (try_set_seat_count, apply_join).
SeatsDoNotMove ==
    [][\A c \in Controllers : \A i \in DOMAIN seats, j \in DOMAIN seats' :
          seats[i].controller = c /\ seats'[j].controller = c => i = j]_vars

\* Nobody is unseated by a lobby control: a person's seat empties only by that
\* person's leave, whatever is resized, cleared, declared or joined meanwhile.
PersonsKeepTheirSeats ==
    [][\A i \in DOMAIN seats :
          seats[i].arm = "controller" =>
             \/ i \in DOMAIN seats' /\ seats'[i] = seats[i]
             \/ seats[i].controller \in left']_vars

\* From running until the next lobby a bot's seat is safe: it stays declared
\* and is never taken by somebody else's join (first_joinable_seat).
BotSeatsAreSafeInAMatch ==
    [][\A i \in DOMAIN seats :
          phase \in {"running", "ended"} /\ seats[i].arm = "npc" =>
             /\ i \in DOMAIN seats'
             /\ seats'[i].declaration = seats[i].declaration
             /\ seats'[i].controller # seats[i].controller =>
                   \/ seats[i].controller = NoController
                   \/ seats[i].controller \in left']_vars

\* A match is a closed field: from running to the tick that clears the arena
\* no entity gains a body (RotatingRingSpawnPolicy).
FieldIsClosed ==
    [][\/ phase \in {"running", "ended"}
       \/ phase = "lobby" /\ previous_phase = "ended"
       => alive_entities' \subseteq alive_entities]_vars

\* A countdown starts the match or falls back to the lobby, however seats and
\* players come and go while it runs (MatchLifecycleSystem::apply).
CountdownResolves == phase = "countdown" ~> phase \in {"running", "lobby"}

\* The placements of a match are fair: they rank the field, and the winner is
\* not among them.
PlacementsAreFair == PlacementsRankTheField /\ WinnerWasNotPlaced
====
