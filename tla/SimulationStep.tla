--------------------------- MODULE SimulationStep ---------------------------
(***************************************************************************)
(* GameSimulation::step (src/src/simulation/game_simulation.cpp): one tick *)
(* builds a world beside the committed one, stage by stage, keeps a        *)
(* spatial index current for every stage, solves the motion, and commits   *)
(* all of it or nothing.                                                   *)
(***************************************************************************)
EXTENDS MotionSolver, Functions

CONSTANTS
    Entities,           \* every entity id a tick may use
    MaxBodies,          \* MotionLimits::bodies
    Worlds,             \* the bodies a simulation is created with
    Markers,            \* the map's spawn markers
    Speeds,             \* velocities phase 1 can leave a body with
    Observers,          \* entities with ContactEffectPolicy::kAnyTouch
    Racers,             \* entities whose gates count
    MaxSteps            \* bound: ticks of a behaviour

ASSUME StepAssumption ==
    /\ Entities \subseteq Nat /\ IsFiniteSet(Entities) /\ MaxBodies \in Nat /\ MaxSteps \in Nat
    /\ Speeds \subseteq Int /\ Observers \subseteq Entities /\ Racers \subseteq Entities
    /\ IsFiniteSet(Markers) /\ \A m \in Markers : m \in PlayerRadius .. Width - PlayerRadius

\* A validated map seats nobody over the pit.
ASSUME WorldsAssumption ==
    \A bodies \in Worlds :
        /\ DOMAIN bodies \subseteq Entities /\ bodies \in [DOMAIN bodies -> Bodies]
        /\ \A e \in DOMAIN bodies : bodies[e].kind = "folding" => ~ OverPit(bodies[e].position)

VARIABLES
    world, grid, tick_sequence, \* world_ (its bodies), grid_ and tick_sequence_
    stage,              \* where the step is; "idle" between ticks, "failed" after a throw
    next,               \* next_world's bodies
    waiting,            \* entities of next_world that have no body yet
    index,              \* the grid that the TickContext of the stage publishes
    doomed,             \* entities that a DespawnEvent of this tick names
    solver              \* the state of the solve; "none" outside it

step_vars == <<world, grid, tick_sequence, stage, next, waiting, index, doomed, solver>>

NoSolver == [now |-> 0, count |-> 0]
Without(bodies, gone) == Restrict(bodies, DOMAIN bodies \ gone)
With(bodies, e, body) == [f \in DOMAIN bodies \cup {e} |-> IF f = e THEN body ELSE bodies[f]]

---------------------------------------------------------------------------
(* Is an index built over some bodies still one of these?                  *)

\* still_indexes and indexed_bodies_equal: the same entities, places and radii.
still_indexes(indexed, bodies) ==
    /\ DOMAIN indexed = DOMAIN bodies
    /\ \A e \in DOMAIN bodies : /\ indexed[e].position = bodies[e].position
                                /\ indexed[e].radius = bodies[e].radius

reindexed(current, indexed, bodies) ==
    IF still_indexes(indexed, bodies) THEN current ELSE rebuilt(bodies)

---------------------------------------------------------------------------
(* GameSimulation::create.                                                 *)

Start(bodies) ==
    /\ Cardinality(DOMAIN bodies) <= MaxBodies /\ CanIndex(bodies)
    /\ world = bodies /\ grid = rebuilt(bodies) /\ tick_sequence = 0
    /\ stage = "idle" /\ next = bodies /\ waiting = {} /\ index = grid
    /\ doomed = {} /\ solver = NoSolver

---------------------------------------------------------------------------
(* The tick.  A throw leaves world, grid and tick as they were.            *)

Committed == <<world, grid, tick_sequence>>

\* next_world, at the end of a stage that may throw.
Continue(bodies, to) ==
    stage' = IF Cardinality(DOMAIN bodies) <= MaxBodies THEN to ELSE "failed"

\* open_tick and apply_input_batch: an entity leaves, one arrives without a body.
Intake(gone, arrivals) ==
    /\ stage = "idle" /\ tick_sequence < MaxSteps
    /\ gone \subseteq (DOMAIN world \cup waiting) /\ arrivals \cap (DOMAIN world \cup waiting) = {}
    /\ next' = Without(world, gone) /\ waiting' = (waiting \ gone) \cup arrivals
    /\ Continue(next', "seat")
    /\ index' = reindexed(grid, world, next')
    /\ UNCHANGED <<Committed, doomed, solver>>

\* seat_is_supported_and_unoccupied: a disc of the player's size fits there.
Seatable(bodies, marker) ==
    /\ Pit[1] = Pit[2] \/ marker + PlayerRadius <= Pit[1] \/ marker - PlayerRadius >= Pit[2]
    /\ \A e \in DOMAIN bodies :
          (marker - bodies[e].position) * Sign(marker - bodies[e].position)
              > PlayerRadius + effective_radius(bodies[e])

\* NextFreeSpawnPointPolicy: the entity takes the first free marker, if any.
Placed(bodies, e) ==
    LET free == {m \in Markers : Seatable(bodies, m)}
    IN IF free = {} THEN bodies ELSE With(bodies, e, Body(Min(free), 0, PlayerRadius, "folding"))

\* seat_pending_entities: each in order takes a marker that the bodies seated
\* before it left free, or stays waiting.
Seated(bodies, pending) ==
    LET after[some \in SUBSET pending] ==
            IF some = {} THEN bodies ELSE Placed(after[some \ {Max(some)}], Max(some))
    IN after[pending]

Seat ==
    /\ stage = "seat"
    /\ next' = Seated(next, waiting) /\ waiting' = waiting \ DOMAIN next'
    /\ Continue(next', "pre_kernel")
    /\ index' = IF DOMAIN next' # DOMAIN next THEN rebuilt(next') ELSE index
    /\ UNCHANGED <<Committed, doomed, solver>>

\* What a system may do to a body: change its size, remove it, put one in (a
\* hazard crosses the bounds), move it.
Resized(bodies, e) == With(bodies, e, [bodies[e] EXCEPT !.radius = 2 * PlayerRadius])
Hazard(place, velocity) == Body(place, velocity, 0, "crossing")

PreKernelChanges(bodies) ==
    {bodies} \cup {Resized(bodies, e) : e \in {f \in DOMAIN bodies : ~ is_static(bodies[f])}}
    \cup {With(bodies, e, Hazard(- PlayerRadius, 1)) : e \in Entities \ (DOMAIN bodies \cup waiting)}

\* The pre-kernel systems; a body without an envelope makes the rebuild throw.
PreKernel(bodies) ==
    /\ stage = "pre_kernel"
    /\ next' = bodies
    /\ stage' = IF Cardinality(DOMAIN bodies) <= MaxBodies /\ (still_indexes(next, bodies) \/ CanIndex(bodies))
                THEN "kernel" ELSE "failed"
    /\ index' = IF still_indexes(next, bodies) THEN index ELSE rebuilt(bodies)
    /\ UNCHANGED <<Committed, waiting, doomed, solver>>

\* apply_stored_acceleration_and_drag, and the start of the solve: a static
\* body keeps still.
Accelerated(bodies, speeds) ==
    [e \in DOMAIN bodies |-> IF is_static(bodies[e]) THEN bodies[e]
                             ELSE [bodies[e] EXCEPT !.velocity = speeds[e]]]

Accelerate(speeds) ==
    /\ stage = "kernel"
    /\ LET bodies == Accelerated(next, speeds)
           driven == {e \in DOMAIN bodies : bodies[e].kind = "folding"}
       IN IF CanIndex(bodies)
          THEN /\ stage' = "solve"
               /\ solver' = refresh_triggers(
                     start_solve(bodies, Observers, [e \in Racers \cap driven |-> 0], driven))
          ELSE stage' = "failed" /\ solver' = solver
    /\ UNCHANGED <<Committed, next, waiting, index, doomed>>

\* One turn of the solver's loop.
SolveEvent ==
    /\ stage = "solve" /\ Pending(solver) # {}
    /\ IF solver.count < MaxMotionEvents
       THEN /\ \E handled \in {handle(solver, Selected(solver))} : solver' = refresh_triggers(handled)
            /\ stage' = stage
       ELSE stage' = "failed" /\ solver' = NoSolver
    /\ UNCHANGED <<Committed, next, waiting, index, doomed>>

\* finish, apply_motion_result and the rebuild after it; the systems after the
\* kernel mark who lost the ground.
SolveEnd ==
    /\ stage = "solve" /\ Pending(solver) = {}
    /\ next' = resting(solver)
    /\ index' = rebuilt(next') /\ stage' = "late" /\ solver' = NoSolver
    /\ doomed' = {solver.effects[i][2] : i \in {j \in DOMAIN solver.effects : solver.effects[j][1] = "lost"}}
    /\ UNCHANGED <<Committed, waiting>>

\* What the late systems do: a respawn moves, an expiry destroys, an
\* elimination may name one that was pushed out of the arena.
Pushed(bodies, e) == With(bodies, e, [bodies[e] EXCEPT !.position = - PlayerRadius])

LateChanges(bodies) ==
    {[bodies |-> bodies, doomed |-> {}]}
    \cup {[bodies |-> Without(bodies, {e}), doomed |-> {}] : e \in DOMAIN bodies}
    \cup {[bodies |-> Resized(bodies, e), doomed |-> {}] : e \in {f \in DOMAIN bodies : ~ is_static(bodies[f])}}
    \cup UNION {{[bodies |-> Pushed(bodies, e), doomed |-> gone] : gone \in SUBSET DOMAIN bodies} :
                   e \in {f \in DOMAIN bodies : bodies[f].kind = "folding"}}

\* apply_despawn_events.
Surviving(bodies, gone) == Without(bodies, gone)

\* kPostKernel, kLifecycle and phase 10.
Late(change) ==
    /\ stage = "late"
    /\ LET gone == (doomed \cup change.doomed) \cap DOMAIN change.bodies
           survivors == Surviving(change.bodies, gone)
       IN IF Cardinality(DOMAIN survivors) <= MaxBodies /\ CanIndex(survivors)
          THEN /\ world' = survivors /\ tick_sequence' = tick_sequence + 1 /\ stage' = "idle"
               /\ grid' = IF gone = {} /\ still_indexes(next, survivors) THEN index ELSE rebuilt(survivors)
               /\ next' = survivors /\ index' = grid'
          ELSE stage' = "failed" /\ next' = survivors /\ UNCHANGED <<Committed, index>>
    /\ doomed' = {} /\ UNCHANGED <<waiting, solver>>

AtMostOne(set) == {{}} \cup {{e} : e \in set}

Step ==
    \/ \E gone \in AtMostOne(DOMAIN world \cup waiting) :
          \E arrivals \in AtMostOne(Entities \ (DOMAIN world \cup waiting)) : Intake(gone, arrivals)
    \/ Seat
    \/ \E bodies \in PreKernelChanges(next) : PreKernel(bodies)
    \/ \E speeds \in [DOMAIN next -> Speeds] : Accelerate(speeds)
    \/ SolveEvent
    \/ SolveEnd
    \/ \E change \in LateChanges(next) : Late(change)

StepInit == \E bodies \in Worlds : Start(bodies)
StepSpec == StepInit /\ [][Step]_step_vars

---------------------------------------------------------------------------

StepTypeOK ==
    /\ tick_sequence \in 0 .. MaxSteps /\ waiting \subseteq Entities /\ doomed \subseteq Entities
    /\ stage \in {"idle", "seat", "pre_kernel", "kernel", "solve", "late", "failed"}
    /\ DOMAIN world \subseteq Entities /\ DOMAIN next \subseteq Entities
    /\ waiting \cap DOMAIN next = {}
    /\ stage # "solve" => solver = NoSolver

\* Every stage reads an index of the bodies it starts from, and the committed
\* one is an index of the committed world, whatever the systems did to bodies.
IndexIsCurrent ==
    /\ grid = rebuilt(world)
    /\ stage \in {"seat", "pre_kernel", "kernel", "solve", "late"} => index = rebuilt(next)

\* Bodies that touch are a candidate pair, the ones outside the arena included.
BroadPhaseIsComplete ==
    \A e, f \in DOMAIN world : e # f /\ Touch(world[e], world[f]) => {e, f} \in grid.pairs

\* Until when the motions of the solver hold.
Horizon == IF Pending(solver) = {} THEN End ELSE Selected(solver)[1]
Apart(e, f, time) == at(solver.bodies[e], time) - at(solver.bodies[f], time)
Distance(x) == IF x < 0 THEN -x ELSE x

\* In no moment of a solve are two bodies closer than their discs allow, unless
\* they began so, and then never closer than that; nor does one leave through
\* a wall.
NothingPassesThrough ==
    stage = "solve" =>
        /\ \A p \in DOMAIN solver.pairs :
              LET a == solver.bodies[p[1]]
                  b == solver.bodies[p[2]]
                  allowed == Smaller(contact_distance(a.body, b.body),
                                     Distance(next[p[1]].position - next[p[2]].position))
              IN a.terminated \/ b.terminated \/ Distance(Apart(p[1], p[2], Horizon)) >= allowed
        /\ \A e \in DOMAIN solver.bodies :
              LET reach == effective_radius(next[e])
                  low == Smaller(reach, next[e].position)
                  high == Larger(Width - reach, next[e].position)
              IN next[e].kind = "folding" => at(solver.bodies[e], Horizon) \in low .. high

\* No body that a mode drives is committed over the pit: one that was deflected
\* into it in the middle of a tick lost the ground too, and is gone.
GroundedOrGone ==
    \A e \in DOMAIN world :
        world[e].kind = "folding" => ~ OverPit(world[e].position)

\* Discs that overlap each other or a wall when the solve starts, or touch an
\* obstacle, may be caught there and be reflected for ever at one moment.
Crowded ==
    \/ \E e \in DOMAIN next :
          /\ next[e].kind = "folding"
          /\ next[e].position \notin effective_radius(next[e]) .. Width - effective_radius(next[e])
    \/ \E p \in Pairs(DOMAIN next) :
          LET a == next[p[1]]
              b == next[p[2]]
          IN /\ Touch(a, b)
             /\ is_static(a) # is_static(b) \/ Distance(a.position - b.position) < contact_distance(a, b)

\* Without that, a solve never needs its event budget: what happens at one
\* moment comes to an end.
SolvesAreShort == stage = "solve" /\ ~ Crowded => solver.count < MaxMotionEvents

\* The index is that of the bodies it is asked about, and misses no contact.
IndexIsSound == StepTypeOK /\ IndexIsCurrent /\ BroadPhaseIsComplete

\* A solve keeps bodies apart and inside, and comes to an end.
SolvesAreSound == NothingPassesThrough /\ SolvesAreShort
====
