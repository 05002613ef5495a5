------------------------------- MODULE Bots -------------------------------
(***************************************************************************)
(* A hosted bot and the body it drives (src/src/controllers): each control *)
(* pass the host shows its controllers the latest published snapshot and   *)
(* submits what they decide; the simulation ticks meanwhile on its own     *)
(* thread.  A tick drains the mailbox when it starts and publishes when it *)
(* commits, so a decision may rest on a world that has already moved on,   *)
(* and a command may reach a body that is no longer the one observed.      *)
(*                                                                         *)
(*   StartTick     seating, then the commands drained for this tick        *)
(*   PublishTick   stuns, deaths, the match; the snapshot is published     *)
(*   decide_once   one pass of ControllerHost over the bot                 *)
(*                                                                         *)
(* The engine's side (StartTick, PublishTick) keeps only what a bot can be *)
(* wrong about: whether there is a body, whether it is stunned, the        *)
(* generation its input has to carry, the thrust it holds.  Windows of the *)
(* bot are kept as the ticks they have left at the published tick.  The    *)
(* decision's reason and the target-hold label, which only explain it, are *)
(* left out.                                                               *)
(***************************************************************************)
EXTENDS TacticalObjectives, Sequences

CONSTANTS
    BotKinds,           \* the registered kinds to look at
    Scenes,             \* what may surround the bot when it looks
    RetryTicks,         \* kSpawnRequestRetryTicks
    HeadingPasses,      \* a wanderer's reaction_delay_frames
    StunTicks,
    BotRespawnDelay

ASSUME BotsAssumption ==
    /\ BotKinds \subseteq {"wanderer", "chaser", "hill_seeker", "racer", "tactical"}
    /\ RetryTicks \in Nat /\ RetryTicks >= 2
    /\ HeadingPasses \in Nat
    /\ StunTicks \in Nat \ {0}
    /\ BotRespawnDelay \in Nat \ {0}

\* Whatever surrounds the bot, entities are told apart by their ids, and places
\* and the race's progress are numbers.
ASSUME ScenesAssumption ==
    \A o \in Scenes :
        /\ o.schema \in {"hill", "race", "royale"}
        /\ o.self \in Int /\ o.progress \in Int /\ o.astray \in Int
        /\ IsFiniteSet(o.opponents)
        /\ \A a \in o.opponents : a.id \in Int
        /\ \A a, c \in o.opponents : a.id = c.id => a = c

VARIABLES
    kind,       \* the bot's registered kind
    bot,        \* its state
    world,      \* the body it drives, as the engine has it
    seen,       \* what of it is published
    pending,    \* the thrust in the mailbox, as a set of at most one
    asking,     \* a spawn command is in the mailbox
    ticking     \* a tick has drained and not yet committed

botVars == <<kind, bot, world, seen, pending, asking, ticking>>

None == -1
Directions == {-1, 0, 1}
Generations == 0 .. 4       \* enough to tell apart every generation anyone holds
Runs == 0 .. 2              \* likewise for running_started_tick

NoLease == [key |-> <<"none", 0>>, left |-> 0]
Idle == 9                   \* held_direction: none

\* TacticalController::State, and what the other controllers keep.
NewBot == [stale |-> FALSE, seeded |-> None, body |-> None, stunned |-> FALSE,
           reaction |-> None, lease |-> NoLease, held |-> Idle, passes |-> 0, wait |-> 0]

\* The driven entity: form "none" before it exists and "unbodied" while it
\* waits for a body.
NewWorld == [form |-> "none", gen |-> 0, stun |-> 0, timer |-> 0, force |-> 0, running |-> FALSE, run |-> 0]
View(w) == [form |-> w.form, gen |-> w.gen, stunned |-> w.stun > 0, running |-> w.running, run |-> w.run]

BotsInit ==
    /\ kind \in BotKinds
    /\ bot = NewBot /\ world = NewWorld /\ seen = View(NewWorld)
    /\ pending = {} /\ asking = FALSE /\ ticking = FALSE

---------------------------------------------------------------------------
(* The engine.                                                             *)

FreshGeneration == Min(Generations \ ({world.gen, seen.gen, bot.body} \cup {t.gen : t \in pending}))
FreshRun == Min(Runs \ {world.run, bot.seeded})

\* Phase 0 gives a body to whoever asked for one or waits for one, if it can,
\* and a seated body starts without thrust; then a thrust of the present
\* generation replaces the one held, unless the body is stunned.
StartTick ==
    /\ ~ ticking /\ ticking' = TRUE
    /\ \E seated \in BOOLEAN :
          /\ seated => (world.form = "none" /\ asking) \/ (world.form = "unbodied" /\ world.timer = 0)
          /\ LET w == IF seated
                      THEN [world EXCEPT !.form = "body", !.force = 0,
                                         !.gen = IF world.form = "none" THEN FreshGeneration ELSE @]
                      ELSE world
             IN  world' = IF w.form = "body" /\ w.stun = 0 /\ \E t \in pending : t.gen = w.gen
                          THEN [w EXCEPT !.force = (CHOOSE t \in pending : TRUE).direction] ELSE w
    /\ pending' = {} /\ asking' = FALSE
    /\ UNCHANGED <<kind, bot, seen>>

\* What a tick may do to the body and the match.
Passed(n) == IF n > 0 THEN n - 1 ELSE n
Outcomes ==
    LET w == [world EXCEPT !.stun = Passed(@), !.timer = Passed(@)] IN
    {w}
    \cup (IF w.form = "body" /\ w.running
          THEN {[w EXCEPT !.stun = StunTicks, !.force = 0, !.gen = FreshGeneration],
                [w EXCEPT !.form = "unbodied", !.timer = BotRespawnDelay, !.stun = 0],
                [w EXCEPT !.form = "none", !.stun = 0, !.force = 0]}
          ELSE {})
    \cup (IF w.running THEN {[w EXCEPT !.running = FALSE], [w EXCEPT !.running = FALSE, !.form = "none", !.stun = 0,
                                                                    !.timer = 0, !.force = 0]}
          ELSE {[w EXCEPT !.running = TRUE, !.run = FreshRun]})

Remaining(n) == IF n = None THEN None ELSE Passed(n)
PublishTick ==
    /\ ticking /\ ticking' = FALSE
    /\ \E w \in Outcomes : world' = w /\ seen' = View(w)
    /\ bot' = [bot EXCEPT !.stale = FALSE, !.reaction = Remaining(@), !.lease.left = Passed(@), !.wait = Passed(@)]
    /\ UNCHANGED <<kind, pending, asking>>

---------------------------------------------------------------------------
(* Controller: the requests every kind of bot makes.                       *)

\* A decision: the controller's next state, the thrust it requests (a set of
\* at most one direction), the ability pulse, and whether it asks to spawn.
Decision(b, thrust, pulse) == [bot |-> b, thrust |-> thrust, pulse |-> pulse, spawn |-> FALSE]

\* commandable_controllable
commandable == seen.form = "body" /\ ~ seen.stunned

request_thrust(direction) == IF commandable THEN {direction} ELSE {}

\* request_body: one request, and no other until the retry interval is over.
request_body(b) ==
    [bot |-> IF b.wait > 0 THEN b ELSE [b EXCEPT !.wait = RetryTicks],
     thrust |-> {}, pulse |-> "none", spawn |-> b.wait = 0]

---------------------------------------------------------------------------
(* The plain kinds.                                                        *)

\* A wanderer keeps a heading for some passes; a chaser drives at the nearest
\* player, a hill seeker at the hill with some jitter, a racer along the road.
wanderer(b) ==
    IF b.passes > 0 THEN {Decision([b EXCEPT !.passes = @ - 1], {}, "none")}
    ELSE {Decision([b EXCEPT !.passes = HeadingPasses], request_thrust(d), "none") : d \in Directions}

chaser(b, o) ==
    LET nearest == {a \in o.opponents : \A c \in o.opponents \ {a} : shove_opponent_precedes(o, a, c)}
        targets == {a.at : a \in nearest} \ {o.self}
    IN  {Decision(b, IF seen.form = "body" THEN UNION {request_thrust(Direction(at - o.self)) : at \in targets}
                     ELSE {}, "none")}

hill_seeker(b, o) ==
    IF seen.form # "body" \/ o.schema # "hill" THEN {Decision(b, {}, "none")}
    ELSE {Decision(b, request_thrust(d), "none") : d \in {Direction(o.place - o.self), 0}}

RacerCaution == 3           \* kDefaultRacerCautionFraction, in quarters
racer(b, o) ==
    IF seen.form # "body" \/ o.schema # "race" \/ o.progress < 0 THEN {Decision(b, {}, "none")}
    ELSE {Decision(b, request_thrust(IF o.progress = CourseGates \/ o.astray > RacerCaution THEN 0
                                     ELSE Direction(o.place - o.self)), "none")}

---------------------------------------------------------------------------
(* TacticalController.                                                     *)

clear_work(b) == [b EXCEPT !.reaction = None, !.lease = NoLease, !.held = Idle]

\* The decisions without a fit body: ask for one, hold still, or do nothing.
unfit_decision(b) ==
    LET cleared == [clear_work(b) EXCEPT !.body = None, !.stunned = FALSE] IN
    CASE seen.form = "none" -> request_body(cleared)
      [] seen.form = "unbodied" -> Decision(cleared, {}, "none")
      [] seen.form = "body" /\ ~ seen.running -> Decision(cleared, request_thrust(0), "none")
      [] OTHER -> Decision([cleared EXCEPT !.body = seen.gen, !.stunned = TRUE], {}, "none")
fit == seen.form = "body" /\ seen.running /\ ~ seen.stunned

\* Another match, another body or a stun in between ends the work in hand.
ChangedRun(b) == b.seeded # seen.run
ChangedBody(b) == ChangedRun(b) \/ b.body # seen.gen \/ b.stunned
identified(b) ==
    LET c == IF ChangedBody(b) THEN clear_work(b) ELSE b IN
    [c EXCEPT !.seeded = seen.run, !.body = seen.gen, !.stunned = FALSE,
              !.reaction = IF @ = None THEN Profile.reaction ELSE @]

\* The thrust that ends what was held when work has been cancelled.
stop(cancelled) == IF cancelled THEN request_thrust(0) ELSE {}

\* tactical_arrival_brake: against the motion relative to a hill, or coast.
tactical_arrival_brake(o, c) ==
    IF Profile.brake = 0 \/ c.key[1] # "hill" THEN 0 ELSE Direction(c.drift - o.velocity)

\* Where to steer for the selected candidate: there, unless the seek draw
\* declines.
steering(o, c) ==
    IF c.distance <= c.radius THEN {tactical_arrival_brake(o, c)}
    ELSE (IF Profile.seek > 0 THEN {Direction(c.target - o.self)} ELSE {})
         \cup (IF Profile.seek < 4 THEN {0} ELSE {})

\* request_ability: a shield against a contact to come, else a charge at the
\* opponent of a shove, unless the bot's own windows show it would be refused.
shield_pulse_refused(o) == o.shield # "free"
charge_pulse_refused(o) == o.shield = "active" \/ o.charge # "free"
request_ability(o, c) ==
    IF tactical_opponent_closes_to_contact(o) THEN (IF shield_pulse_refused(o) THEN "none" ELSE "shield")
    ELSE IF \E a \in shove_opponents(o, c) :
               /\ a.at # o.self
               /\ tactical_charge_alignment_admits(o)
               /\ tactical_charge_screen_admits(o, a)
               /\ ~ charge_pulse_refused(o)
         THEN "charge" ELSE "none"

\* The lease that selection leaves: the present one while its window is open.
LeaseAfter(b, candidates) ==
    IF b.lease # NoLease /\ b.lease.left > 0 THEN b.lease
    ELSE [key |-> tactical_select_candidate(candidates, b.lease.key).key, left |-> Profile.persistence]

\* Selection and steering, once the reaction window is over.
act(b, candidates, o) ==
    LET lease == LeaseAfter(b, candidates)
        selected == CHOOSE c \in candidates : c.key = lease.key
        acting == [b EXCEPT !.reaction = Profile.reaction, !.lease = lease]
    IN  {Decision([acting EXCEPT !.held = d], request_thrust(d), request_ability(o, selected)) :
           d \in steering(o, selected)}

\* Mutant of no_candidate: a target lost with all others leaves its thrust in force.
GiveUpQuietly(b, cancelled) == Decision([b EXCEPT !.held = Idle], {}, "none")

\* Screening leaves nothing to choose from: nothing is held, and what was held
\* until now is ended.
no_candidate(b, cancelled) == Decision([b EXCEPT !.held = Idle], stop(cancelled), "none")

\* decide_next for a fit body.
tactical(b, o) ==
    LET found == collect_tactical_objective_candidates(o)
        c == identified(b)
        lost == c.lease # NoLease /\ \A d \in found.candidates : d.key # c.lease.key
        kept == IF lost THEN [c EXCEPT !.lease = NoLease, !.held = Idle, !.reaction = Profile.reaction] ELSE c
        cancelled == lost \/ (ChangedBody(b) /\ b.held # Idle)
    IN  CASE found.disposition = "waiting" ->
               {Decision([c EXCEPT !.lease = NoLease, !.held = Idle,
                                   !.reaction = IF c.lease # NoLease THEN Profile.reaction ELSE @],
                         request_thrust(0), "none")}
          [] found.disposition = "finished" ->
               {Decision([c EXCEPT !.lease = NoLease, !.held = 0], request_thrust(0), "none")}
          [] found.disposition = "ready" /\ found.candidates = {} -> {no_candidate(kept, cancelled)}
          [] found.disposition = "ready" /\ found.candidates # {} /\ kept.reaction > 0 ->
               {Decision(kept, stop(cancelled), "none")}
          [] OTHER -> act(kept, found.candidates, o)

---------------------------------------------------------------------------
(* One pass of the host.                                                   *)

\* accepts_observation: a tactical bot decides once per published tick.
accepts_observation == kind # "tactical" \/ ~ bot.stale

\* Controller::decide: a body ends the wait for one.
observed(b) == IF seen.form = "none" THEN b ELSE [b EXCEPT !.wait = 0]

decisions(o) ==
    LET b == observed(bot) IN
    IF kind # "tactical" /\ seen.form = "none" THEN {request_body(b)}
    ELSE CASE kind = "wanderer"    -> wanderer(b)
           [] kind = "chaser"      -> chaser(b, o)
           [] kind = "hill_seeker" -> hill_seeker(b, o)
           [] kind = "racer"       -> racer(b, o)
           [] kind = "tactical"    -> IF fit THEN tactical(b, o) ELSE {unfit_decision(b)}

\* ControllerHost::decide_once: what is decided goes to the mailbox, where a
\* later thrust replaces an earlier one.
decide_once ==
    /\ accepts_observation
    /\ \E o \in Scenes : \E d \in decisions(o) :
          /\ bot' = [d.bot EXCEPT !.stale = TRUE]
          /\ pending' = IF d.thrust = {} THEN pending
                        ELSE {[direction |-> t, gen |-> seen.gen] : t \in d.thrust}
          /\ asking' = (asking \/ d.spawn)
    /\ UNCHANGED <<kind, world, seen, ticking>>

BotsNext == StartTick \/ PublishTick \/ decide_once

BotsSpec == BotsInit /\ [][BotsNext]_botVars

---------------------------------------------------------------------------
(* Properties.                                                             *)

\* A tactical bot's body is never driven by a thrust the bot has given up:
\* once it has decided on the published snapshot, what the engine holds, or
\* will hold when it drains the mailbox, is nothing or the direction the bot
\* holds itself, across lost targets, deaths, stuns and the end of the match
\* (tactical_controller.cpp: every branch that drops held_direction either
\* requests a zero thrust or relies on the engine having dropped it too).
Steered == IF \E t \in pending : t.gen = world.gen THEN (CHOOSE t \in pending : TRUE).direction ELSE world.force
NoRunawayThrust ==
    kind = "tactical" /\ bot.stale /\ world.form = "body" /\ world.stun = 0 /\ seen.form = "body"
      => Steered \in {0, bot.held}

===========================================================================
