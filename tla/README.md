# Verification of blob-royale

TLA+ modules, TLC configurations and TLAPS proofs for the C++ server of
blob-royale: a 400 Hz authoritative game simulation, the runtime that ticks it,
the mailbox through which sessions and bots reach a tick, the WebSocket server
that presents snapshots, and what the program reads and writes at its boundary.
`PROJECT.json` lists the components, runs, mutants, findings, hazards and
theorems, and maps every definition to the lines it models. Paths below are
relative to `src/src/`.

## 1. The system and its parts

Three kinds of thread run. Each room has a **worker** (`SimulationRuntime::run`)
that drains the room's mailbox, steps the simulation and publishes a snapshot.
One **server thread** runs the listener and every connection on one event loop;
sessions read snapshots and submit commands. The **application thread** loads and
validates the inputs, starts everything, runs the control loop (it drives the bots
and reconciles them with the lobby's seats) and shuts everything down.

| Component | State | Operations | Module |
| --- | --- | --- | --- |
| `runtime/simulation_runtime`, `snapshot_publication` | lifecycle state, failure, joined flag, tick count, latest snapshot, readiness | start, resume, pause, stop, worker loop, publish | `SimulationRuntime` |
| `runtime/command_mailbox` | pending commands, tuning exchanges, counters | submit, register, retire, drain, complete, claim | `CommandMailbox` |
| `runtime/command_sink`, `controller_directory`; `application/bot_reconciliation`; `controllers/controller_host` | next controller id, presentations, hosted bots, failed declarations | open_session, submit, close_session, reconcile, create, retire | `Room` |
| `simulation/game_simulation` phase 0 with lifecycle, spawn and reset; `gameplay/royale` scoring | seats, bodies, phase, start request, tuning, placements | the commands of a batch, then the systems in order | `RoyaleMatch` |
| `simulation/game_simulation` as a transaction, spatial index | next world, grid, committed world | the stages of `step` | `SpatialIndex`, `SimulationStep` |
| `simulation/continuous_motion` | bodies, event caches, contact certificates | the event loop and its responses | `MotionSolver` |
| `gameplay/shared` | shield, charge, stun and respawn timers, held input | ability, contact, status, respawn and hazard systems | `Combat` |
| `gameplay/king_of_the_hill`, `race`, royale zone | scores, progress, hill, zone | the systems of a mode, objective | `HillRules`, `RaceRules`, `ZoneRules`, `Modes` |
| `controllers/` | leases, headings, reaction windows | one decision pass per kind of bot | `TacticalObjectives`, `Bots` |
| `server/session_websocket_session`, `snapshot_delivery_state` | outstanding operations, timers, close state, delivery | one handler per completion and timer | `SessionWebSocket` |
| `server/snapshot_websocket_session`, `snapshot_egress_budget` | tokens, leases, waiter queue, several streams | reserve, commit, release, refill, the handlers | `SnapshotEgress`, `SnapshotStreams` |
| `server/peer_traffic_policy`, `peer_identity`, `game_api_router` | connections and rates by peer | reserve, close, prune; route | `PeerTraffic`, `GameApiRouter` |
| `server/tcp_listener`, `http_session`, `game_server`, `server_execution_context`; `application/blob_royale_application` | lifecycle, registered sessions, response queues | accept, read, respond, upgrade, run, stop, fail, drain | `GameServer` |
| `protocol/command_decoding` | none | decode a frame | `CommandDecoding` |
| `protocol/` encoders and conformance, `simulation/terrain_definition` | sequence, claimed result | welcome, snapshot, directory, error | `ServerFrames`, `Terrain` |
| `application/` loaders, command line, CSV tables | the document read so far | read, parse, type | `InputFiles` |
| every `*_configuration`, `match_startup_validation`, composition of rooms | the input and the step reached | validate, compose | `StartupRules`, `Startup` |
| entity id allocator, sandbox mode, floating-point geometry, logging, browser client | | | not modelled (section 8) |

What is hard here, and what correctness means:

- *Runtime*: callers and the worker meet only at a mutex and two waits. A pause
  must find a quiescent worker, a stop must return, a failure stays the last word,
  and no tick is skipped or published twice.
- *Mailbox*: bounded, superseding, evicting, one outstanding tuning request per
  controller. Lifecycle commands may not be evicted and every tuning request must
  be answered once.
- *Room*: directory, mailbox, host and reconciler each remember who is in the room,
  and the reconciler acts on a snapshot that is older than its own calls. Whichever
  call fails, the four must agree in the end, and every declared seat must fill or
  its failure be remembered.
- *Match*: a batch holds any mix of commands, applied in a canonical order and
  followed by systems that each see what the earlier ones did. Seats and bodies are
  exclusive, a departure leaves nothing behind, a match must be asked for, and its
  placements rank who was alive when.
- *Kernel*: every stage of a tick reads an index that an earlier one kept current,
  and the solver's caches must not outlive what they were computed from. A tick
  passes no body through another or out of the arena, leaves nobody it drives over a
  pit, and comes to an end.
- *Play*: contacts of one tick are answered from the world the kernel found, so two
  bodies that hit each other must both be stunned; windows must not leak over death
  or a reset; a bot acts on a world that ticks meanwhile.
- *Connections*: a handler that is already queued runs although another has
  cancelled or closed what it is about. Writes must not overlap, memory, budget and
  slots must be returned exactly once, and every connection must end.
- *Server*: stop may arrive at any moment of a start and must not be lost.
- *Boundary*: decoders, encoders and schemas are written three times over and must
  agree; validation rules span two inputs each.

The hazards, each at its line and with the properties that would catch it, are
in `PROJECT.json`.

## 2. Modules

**`SimulationRuntime`** - one action is one stretch of code under
`lifecycle_mutex_`. The worker gives the mutex up in its outer wait, around the
step, and in its deadline wait; those places are the values of `worker_pc`. A
caller holds `lifecycle_transition_mutex_` from entry to return
(`transition_mutex`), so a caller that waits keeps the others out. The step may
throw. The simulation is a tick number.

**`CommandMailbox`** - every public operation is atomic under `mutex_` and is one
action; the counters are part of the state. `submit_tuning` reads the clock before
it takes the mutex, which appears as a freely chosen time not after `now`. A
command is its kind, its addressed identity and, for tuning, its request id.

**`Room`** - the server, control and worker threads meet in the `CommandSink`. A
reconciliation is an `Observe` step, which decides everything from one published
snapshot, and one step per retirement and creation; a tick is `OpenTick` (the
drain) and `CommitTick` (step and publication). Every call of `create_bot` can
fail. The mailbox is a set of commands with a slot per kind and controller, the
tick its effect on seats and phase. An id returns once nothing remembers it.

**`RoyaleMatch`** - `GameSimulation::step` for the royale mode, as a pass over a
working copy: the commands of phase 0 one at a time in the order `InputBatch`
sorts them, the tail of the intake, seating, the kernel, placements, reset,
lifecycle. The batch is not a variable: a cursor remembers the last
(rank, identity) applied and any later accepted command may be next, so every
batch is covered. The kernel is a free choice of who is eliminated.

**`SpatialIndex`, `MotionSolver`, `SimulationStep`** - the same tick as a
transaction: a world built beside the committed one, stage by stage, with the grid
each stage reads, and the continuous solver's event loop (earliest event of any
pair, wall, pit edge or gate; simultaneous events as one group; cached predictions
revalidated after a response; a certificate that a solved contact does not recur).
One axis, equal masses, integers chosen so that every event time is exact.

**`Combat`, `HillRules`, `ZoneRules`, `RaceRules`, `Modes`,
`TacticalObjectives`, `Bots`** - the rules of play. `Combat` is the shared
pipeline of a tick with its abilities, statuses, hazards and respawns; `Modes` the
modes with a clock over several matches; `Bots` a hosted bot of any kind, its
decision pass, its commands on the way and the body they reach. Who collides, who
is inside a circle and random draws are inputs. `MCPlay` runs the three parts, which
share no state, side by side: a behaviour is of one part.

**`SessionWebSocket`** - one v3 connection. The session is a record, each member
function of the source is a function of it, and a handler is their composition in
the source's order. An asynchronous operation is pending until its result is
queued, a timer is armed until its handler is queued; cancelling and closing touch
only what is pending or armed, as in asio.

**`SnapshotStream`** - the abstract specification: what any connection promises its
peer. It opens once; a v3 stream says its welcome first; each snapshot is the
newest when it is put on the wire and newer than every one before; one frame at a
time; after the decision to close only the frame in flight and the close frame
follow. `SessionWebSocket` and every stream of `SnapshotStreams` implement it, by
the refinement mappings `ImplementsStream` and `ImplementStreams`.

**`SnapshotEgress`, `SnapshotStreams`** - the token bucket, owned bytes and waiter
queue as functions of a ledger, and v1 and v3 sessions that share it handler by
handler. A stop closes every session in one step: what one of them gives back does
not matter to the next, so the ledger gets the sum.

**`PeerTraffic`, `GameApiRouter`, `GameServer`** - the ledger of slots and peers, the
router's decision as a function of ledger and request, and two threads with the
listener and connections around them. A handler is one action. An `HttpSession`
without an outstanding handler is destroyed, and its leases with it. Stopping every
registered session is one step of the server's stop, and the ledger gets the sum.

**`CommandDecoding`, `ServerFrames`, `Terrain`, `InputFiles`, `StartupRules`,
`Startup`** - the boundary, run side by side in `MCBoundary`. Decoders and encoders
return the set of what they produce, empty where the code refuses; a schema is
stated beside them from the published files. A document is read line by line. A
create function is the sequence of the errors its checks find, in the code's order
(the first is the one thrown), and `Startup` composes them from the command line to
the rooms' first bodies.

Each family has an `MC` module with its finite values and one `.cfg` per question.
`RoyaleMatch`, `SnapshotStreams`, `GameServer` and `Room` have a `_proofs` module of
their own. `Simulation_proofs` is about the loop and its tick (`SimulationRuntime`,
`SimulationStep` with `MotionSolver` and `SpatialIndex`), `Play_proofs` about `Combat`,
`Modes` and `Bots`, `SessionWebSocket_proofs` about the session and the decoder of its
frames (`CommandDecoding`), and `Boundary_proofs` about `CommandMailbox`, `Startup`,
`InputFiles` and `ServerFrames` with `Terrain`. A definition whose comment begins
"Mutant of" is a deliberately wrong version of the one it names, used to show that a
property notices it; it is part of no specification.

## 3. Runs

| Run | Result | What it shows |
| --- | --- | --- |
| `runtime` | passes | Three callers and the worker: readiness means ticking, a pause that returns leaves it paused, a stop returns unless it queues behind a pause that overtook the worker. |
| `runtime_pause_hangs` | violated | `pause()` that overtakes the worker's wake-up never returns (section 4). |
| `mailbox` | passes | Two controllers, two slots, with supersession, eviction, refusal, rate limiting and late decisions: no tuning request is lost, the retry advice suffices, each request is answered. |
| `match_lobby` | passes | Seats under every order of resize, clear, declare, join, leave, Start; one tuning winner per tick, revision overflow; every countdown resolves. |
| `match_field` | passes | Three players over consecutive matches: placements and outcome agree with who was alive when, leavers hold nothing. |
| `session` | passes | One connection in every order of completions, timers, frames, failures and stops: safe writes, the promised stream, and an end. |
| `server` | passes | Both threads, listener, two connections and the ledger: slots are conserved on every path, a stop at any moment ends both threads. |
| `streams` | passes | A v1 and a v3 connection share a budget for one write: the ledger is what they hold, both are streams, a waiter is served. |
| `room` | passes | People, reconciler and worker: the registries agree whichever step failed, a bot is given up only when its join cannot seat it, declared seats fill, abandoned matches end. |
| `play` | passes | The modes over several matches, two fighters, and the bots: fair scores, final deaths, mutual stuns, spaced guards, aligned returns, no thrust left running, and every match ends. |
| `boundary` | passes | Client frames against the schemas, the server's messages while ticks and deliveries interleave, every document of up to six lines, configurations against what a started program needs. |
| `kernel` | passes | A whole tick from every arrangement of two or three bodies: the index is sound at every stage, solves terminate in a sound world, nobody ends over a pit. |

The larger runs reach 4.2 million distinct states (`match_field`), 1.3 million
(`room`), 0.5 million (`server`, `play`, `boundary`), 0.4 million (`session`), 0.25
million (`kernel`) and 0.1 million (`streams`).

### Bounds

- *runtime*: three callers are one more than any two operations that can meet, so
  that one waits at the transition mutex behind another that waits for the worker;
  six calls allow each to be repeated; three ticks let a pause fall before, in and
  after one.
- *mailbox*: capacity 2 is the smallest in which supersession, eviction and refusal
  differ; two request ids let a stale one meet a newer one; a millisecond is two
  clock units, so that rounding happens.
- *match*: two controllers, a declared bot and two to three seats for the roster,
  with a countdown of two ticks, which a departure can cancel
  part way, and a revision bound that is reached on purpose; three
  players, four entities and two spawn points for scoring (two eliminated together,
  one later, one spawned too late), with timers of zero. The field's run
  takes states for equal that differ only in histories it does not read (`FieldView`).
- *session*, *streams*: two ticks give a pending and an active snapshot of different
  age; one reservation fits in the bucket, so the second session always waits.
- *server*: two connections behind one proxy, two slots of each kind, one WebSocket
  per peer and two tracked peers, so that every bound is met; two of three requests
  pipelined; one unit of time, after which an idle peer may be forgotten.
- *room*: three controllers, one person, one seat that two declarations compete for,
  a host with one place, a join budget of three observations, one tick of lag.
- *play*: windows of one to three ticks, so that every pair can overlap or be
  adjacent; four ticks of match time; two gates; an arena of eight with a hole in
  the middle for the bots.
- *boundary*: integers and counts at, below and above every limit. Limits that do
  not fit TLC's integers are constants in the same order as the real ones.
- *kernel*: five unit lengths, bodies of radius one, a pit of one, one gate; twelve
  events, more than any start without a crowd needs. The solve of a crowded start
  (discs that overlap each other or a wall, or touch an obstacle) may exhaust them and
  is exempted from `SolvesAreShort`, which says the budget suffices, and from nothing
  else.

Deadlock checking is off where the system may stop (a stopped runtime, spent bounds
of the mailbox, finished sessions, a parsed document, the one tick of the kernel)
and on for the match, the server, the room and the modes.

### Fairness

- *runtime*: weak fairness of the worker and of each caller inside a call (threads
  are scheduled). Nobody has to call.
- *mailbox*: weak fairness of `drain` and of the completion of decisions: the worker
  ticks. Nothing is assumed of sessions.
- *match*, *modes*: weak fairness of the tick's own steps; commands need never come.
- *session*: weak fairness of the handshake and the closing handshake, which beast
  bounds (`websocket::stream_base::timeout`), of the handlers of a completed write
  and ping, of the deadline, idle and pong timers, and of the posted stop. A data
  write, a ping and a read may stay pending for ever.
- *streams*: weak fairness of the refill (time passes) and, per connection, of its
  write ending one way or its deadline the other, and of its presentation timer.
- *server*: weak fairness of the server thread's own steps, of work posted to it and
  the shutdown deadline, and of the application thread once it shuts down. No peer
  has to do anything.
- *room*: weak fairness of ticks, and infinitely many control passes (the control
  loop polls). People need never come or leave.

## 4. Findings

`runtime/simulation_runtime.cpp:212`: the outer wait wakes for running and stopping
only. A pause that arrives first leaves the worker asleep and the caller waiting,
with the transition mutex held, so `stop()` and the destructor block too, against
"Synchronously reaches a quiescent paused state" (`simulation_runtime.hpp:91`). The
run `runtime_pause_hangs` shows it.

Other places where the code and what is said of it differ, met while modelling. The
models do what the code does, and the properties named here state what remains true:

- `simulation_runtime.cpp:250`: a tick committed during a stop is neither counted nor
  published, against the comment at line 257.
- `command_mailbox.cpp:154`: `retire_controller` discards the refusal of its own
  leave, against `command_mailbox.hpp:111`; body and seat stay with nobody to resend
  it.
- `session_websocket_session.cpp:125`: `accepted` ignores `finished_`, against
  `session_websocket_session.hpp:52`; `ClosingFinishes` names the exception.
- `session_websocket_session.cpp:782`: `async_ping` has no deadline while it suspends
  the writes that have one, against `docs/protocol/v1.md:207`; `SilentPeerIsClosed`
  names the exception.
- `game_api_router.cpp:779`: sessions are counted when the handshake is accepted, so
  upgrades in flight may exceed the seats, against `docs/protocol/v3.md:1330`.
- `match_startup_validation.cpp:66`: the count of bodies it validates can be below
  what a started room holds, against `match_startup_validation.hpp:19-23`; the tick
  that exceeds the motion limit throws (`game_simulation.cpp:693`).
- `snapshot_egress_budget.cpp:75`: only the front of the queue is admitted; a session
  queued for its welcome whose body then vanishes holds up those behind it until it
  closes or is shown a body again. `WaiterIsServed` names the exception.

## 5. Proofs

TLAPS proves, for every value of the constants that satisfies the named
assumptions, `Spec => []IInv` for one inductive invariant per component and the listed
theorems from it.

- **`Simulation_proofs`**, of `SimulationRuntime` (any set of callers). `Inv` adds to the stated
  invariants who holds the transition mutex (`MutexInv`), what a waiting caller
  knows and which states need one (`CallerInv`), where the worker can be in each
  lifecycle state (`WorkerInv`) and how published, counted and committed ticks
  relate at each place (`TickInv`). Without the last two, neither quiescence nor
  freshness is preserved by the worker's steps.
- **`Simulation_proofs`**, of `SimulationStep` (any arena, grid, bodies, speeds, pit and
  gates, on the model's one axis). Nobody is committed over the pit because at every
  moment of a solve each body keeps its ground up to the time its support trigger says:
  `SolveInv` ties every cached prediction to the motion it was computed from
  (`PairsInv`: certificates carry the revisions of both bodies and lie ahead;
  `WallsInv`: who is outside reflects now; `TriggersInv`: until its event, the ground is
  there), says that epochs have begun (`BodiesInv`) and that an epoch that ended is lost
  or stands on the ground (`EndedInv`). A response breaks it for the bodies it touches;
  `Ready` is what is left, and `ReadyIsRefreshed` that rebuilding the pairs and
  refreshing the triggers restores it. `SupportLossFacts` is the geometry: before the
  entry it computes, a moving body does not stand over the pit. `StepInv` carries this
  through the stages of a tick, in which `Spared` excepts only bodies a despawn event
  names. That the index is the one of the world the stage reads (`IndexIsSound`) needs
  that an index depends on the places and sizes of the bodies alone, so that it may be
  kept where those did not change (`SameIndex`), and that bodies which touch share a
  cell (`TouchingArePaired`). `WorldsAssumption`, that no body starts over the pit, is
  what `spawn_system.cpp:106-130` and `spawn_seating.cpp:17-51` require of a map.
  `EventsInOrder` adds that a solve's time never runs backwards.
- **`Boundary_proofs`**, of `CommandMailbox` (any controllers, kinds, capacity, bounds). `Inv` adds
  that a tuning command carries a request id (`TuningHasId`), that requests and
  claims lie below the exchange's high-water mark (`ClaimInv`), and that no exchange
  is closed for longer than an interval from now (`EligibleInv`). The first two make
  `AnsweredOnce` inductive; the third makes the clamped retry advice sufficient.
  Lemmas about removing and appending to the pending sequence carry
  `OneSlotPerIdentity` through supersession and eviction.
- **`Boundary_proofs`**, of `Startup` (any limits and any input in `Inputs`, which fixes
  only the types). What an accepted program relies on is what every check found in order,
  so for each section there is a lemma of what its sequence of errors being empty means
  (`ErrorsConcat`, `ErrorsFlatten` for the sequences). `StartupInv` collects it: what the
  configuration guarantees once read (`Configured`), what the map adds (`Composed`), that
  the rooms are the fresh ones until a crowd enters, and that their seats are the
  configured bots, each of which can be built (`BotsCanBeBuilt`).
- **`Boundary_proofs`**, of `InputFiles` (any schemas, lines, files and tables). `ReadsAs`
  relates the document so far to the lines so far: its sections, instances and values are
  exactly those the lines name. Each kind of line either keeps `ReadsAs` or fails with an
  error no later line can mend (`Outcome`, with `ExtensibleIn`), which is why the reader
  may stop at the first. At the end the required fields and the values' types decide; the
  error is the one of the first bad value in the order of the schema.
- **`Boundary_proofs`**, of `ServerFrames` and `Terrain` (any worlds, maps, kinds of
  components and limits). `FramesInv` adds to `FramesConform` that the snapshots made,
  published and held are sound and at most a tick apart (`SnapshotsSound`), that a tuning
  result is covered by every snapshot that may carry it: one as late as its decision shows
  its revision (`CoveredBy`, in `ExchangeSound`), and that sequence numbers fit because
  deliveries follow ticks (`CountsSound`). The walk of `encode_entities` is unfolded by
  induction: each kind's cursor has passed exactly the entities below the next one
  (`Passed`), from which no component is left out. That a map accepted by
  `TerrainDefinition::create` has a conforming welcome (`WelcomeConforms`) relates the
  two sets of rules, written in different components. `FramesAssumption` asks the ticks
  of a behaviour to fit in a sequence number, as the code's 53 bits do.
- **`RoyaleMatch_proofs`** (any controllers, declarations, roster sizes, timers).
  `IInv` adds that a Start is spent by the transition it causes (`Requested`), that
  leaves are applied last and a leaver holds nothing after (`Departed`), that the
  arena is fresh when a lobby begins (`Fresh`), and for scoring that the eliminated
  were alive and the placements belong to the running match (`Scored`). Each action
  is first summarised as a roster step and a body step; the invariants are then
  preserved by the summaries, so that no proof expands every command. `MatchInv`
  adds what the two counting properties need: while a batch is applied nothing is
  decided and, as the batch ascends, the last contender is the greatest (`Decided`);
  entity ids are unique and below the next one (`Identified`); the list of placements
  and those alive fit together into the field, and no one alive is listed (`Ranked`).
- **`SessionWebSocket_proofs`** (any number of ticks). `Inv` is `Sound` of the session
  record: a write outstanding holds its lease and belongs to the active frame
  (`WriteInv`), a closing session is owed nothing (`CloseInv`), what is pending is
  newer than what was delivered and not newer than the latest (`DeliveryInv`). It is
  shown member function by member function; a handler is a composition of them. For
  the refinement, `Seen` says that a function changes what the peer sees by at most
  one step of `SnapshotStream`, and that a composition takes at most one of its parts
  to be seen.
- **`SessionWebSocket_proofs`**, of `CommandDecoding` (any frames, catalogue of bots and
  mask of the room). The decoders count members, the schemas forbid others: the two agree
  because counted members are all there are just when there is no other (`MembersCounted`).
  `DecodesAs` says of each of the nine decoders that it has a command just when the payload
  is valid for its kind, and that the command says what the payload says; the envelope
  adds the mask and the reasons of a rejection.
- **`SnapshotStreams_proofs`** (any finite set of clients, any bounds). The same for
  sessions that share the ledger: `Whole` joins a session, the ledger and the
  session's place in the queue, `Moves` says that a function changes the ledger by what
  the session's own holdings change. `Inv` says of every session that it is sound, of
  the queue that nobody waits twice (`QueueInv`) and of the ledger that its counts are
  the cardinalities of the sets of sessions that hold bytes and leases (`CountInv`).
- **`GameServer_proofs`** (any finite set of connections, any principals, requests
  and bounds). Three layers. Of the ledger: each function of `PeerTraffic` counts one
  more, one less or the same for one principal, and forgets only peers that count
  nothing (`OneMore`, `OneLess`, `SameSlots`). Of a connection: each member function
  keeps it `Sound` (a stage fits the leases and handlers it has) and takes no lease it
  was not given (`NoNewLease`). Of the server: the counts are the cardinalities of the
  sets of connections that hold a lease of a principal (`Accounts`), and until the
  server stops every unfinished session has an operation outstanding (`AllAlive`).

- **`Room_proofs`** (any people, bots, seats and declarations). The intake folds the
  commands of a batch over the world; `IntakeSteps` unfolds the fold into one `Apply`
  after another. What the invariant needs of it is `IntakeSeats`: whoever sits after a
  batch sat before it or joined, and no leaver sits, because leaves come last. `Inv`
  adds to the properties where each controller's leave and join are (`Tidy`: only who
  is gone has a leave under way, and a join or a seat without a session is followed by
  one), who owns an id (`OneOwner`) and how old a bot's join can be while it is under
  way (`Waits`). `RefusalsAreNotGuessed` has the hypothesis `MaxLag + 2 <= JoinBudget`:
  the code's budget is 400 ticks, "headroom for a stalled runtime"
  (bot_reconciliation.hpp:51-55), and one that a single reconciliation can outlast
  would give up bots whose join is still under way.
- **`Play_proofs`**, of `Combat` (any finite set of fighters, any lengths of the windows). One
  lemma per system says what it may change of a fighter. `CInv` adds that a stunned
  fighter has nothing to act with and a bodiless one nothing at all, at every turn of a
  tick and not only between ticks (`Coherent`); that a body's cooldown covers what is
  missing to a full cooldown since its last guard (`cooling + guarded >=
  ShieldCooldown`), also when a stun cut the guard short; and that whoever hits in a
  tick had an active attempt and whoever is hit a body (`Consequences`). The contacts
  are settled by a fold over the events; `ContactFacts` follows an attempt through it
  up to its first hit, which asks for the stun of its target.
- **`Play_proofs`**, of `Modes` (any finite set of players, any course, markers and
  lengths of the match and its windows). `Ticked` says what the systems of any mode may
  make of a player. `MInv` adds to the properties that a running hill match or race is
  undecided (`HillUndecided`, `RaceUndecided`), and a match ends in the tick that decides
  it, so that its clock never reaches `ClockBound`, the bound of the model; that no points are
  left over before a match (`Clean`, `NoScores`); that standings are sorted by time
  (`Ranked`), without which the next finisher's placement could not be read off the last
  one's; and how long a body has been awaited when its timer is up (`Awaited`: time since
  the loss plus timer covers the delay, and one tick more while the tick is being
  played). `SumGrows` adds a tick to the sum of points of whoever holds the hill alone;
  `RecorderRanks` unfolds the recorder's recursion over the finishers of a tick.
- **`Play_proofs`**, of `Bots` (any profile, any surroundings, any number of decisions
  between two ticks). `Answers` says of every branch of a decision what it does about the
  thrust held before: it requests a stop or what it holds from now on, or it requests
  nothing and either holds on or had nothing to end. `BInv` adds what the engine can have
  changed of a body since it was published (`Published`), that a thrust too late for a lost
  body is drained before that body returns (`Late`), that nothing is on its way to a
  stunned body (`Subdued`), and that a bot without a target holds at most a stop
  (`Holding`). The last needs that selection chooses one of its candidates: score, distance
  and key put the finitely many of an observation in a strict order (`SelectionIsACandidate`),
  for which `ScenesAssumption` says that entities are told apart by their ids.

The folds and recursions over sets are unfolded by induction. The library's induction
theorems take an operator as a parameter, which the provers cannot instantiate; `NatSets`
and `SubsetInduction` state them for sets instead, from the well-foundedness of the
naturals (`WFMin`).

Theorems that state a property of a run: `ReadyOnlyWhileTicking`,
`PauseReturnsInPaused`, `NoTuningRequestIsLost`, `RetryAdviceIsEnough`,
`StartsAreRequested`, `LeavesAreFinal`, `PersonsAreNotUnseated`, `TuningSettles`,
`PlacementsRankFairly`, `WritesStaySafe`, `StreamIsImplemented`, `BudgetStaysSound`,
`EveryStreamIsImplemented`, `EverySlotIsAccounted`, `StopsAreKept`,
`RegistriesStayConsistent`, `RefusalsAreNotGuessed`, `StunsAndDeathsAreFinal`,
`ShieldsAreSpaced`, `MutualHitsAreSettledTogether`, `ScoresStayFair`,
`ReturnsStayAligned`, `NoThrustRunsAway`, `IndexIsAlwaysSound`,
`NobodyStandsOverThePit`, `StartupAlwaysSound`, `InputsAlwaysExact`,
`FramesAlwaysConform`, `FramesAlwaysComplete`, `DecoderAlwaysMatchesSchema`. Proved and
no longer repeated by a run: types; `PausedIsQuiescent`, `TerminalIsFinal`,
`TerminalIsSticky`, `PublishedTickIsFresh`, `TicksNeverSkip`; `OneSlotPerIdentity`,
`Conservation`, `AnsweredOnce`, `ResultAnswersRequest`, `LifecycleIsNeverEvicted`;
`OneSeatPerController`, `SeatsDoNotMove`, `BotSeatsAreSafeInAMatch`,
`OneBodyPerController`, `NoBodySurvivesTheMatch`, `PlacedOnce`, `FieldIsClosed`.

Assumptions are the `ASSUME`s of the modules: non-empty or finite sets, natural
bounds, sentinels outside the sets they accompany, a request's flags Boolean. The
runs evaluate them.

## 6. Model-checked only

Liveness (`StopReturns`, `TuningIsAnswered`, `CountdownResolves`, `ClosingFinishes`,
`SilentPeerIsClosed`, `ShutdownCompletes`, `WaiterIsServed`, `RoomIsServed`,
`MatchesEnd`), which is out of the prover's reach.

Of the safety properties only `SolvesAreSound`. That bodies stay apart and inside
(`NothingPassesThrough`) rests on every event time being a whole number, which the run's
units see to and an arbitrary arena does not; in the code times are binary64. That twelve
events are enough (`SolvesAreShort`) is a count over the starts of that instance. What
holds of a solve in any arena is proved: its events come in order, and nobody is committed
over the pit.

What a recursive definition computes for every input is proved only where an invariant
needs it and the recursion is over a finite set or a sequence.

Limits of those models worth knowing: the kernel has one axis, equal masses and exact
arithmetic; a bot's respawn takes at least one tick (`NoRunawayThrust` relies on it); JSON
Schema's "integer" admits `1.0`, which the decoder refuses, so an integer of the schemas
is here one that is written as an integer.

## 7. Plan

Every safety property of the runs but one has its proof. What would say more:

1. A second axis for the kernel, with tangential contacts, and event times in exact
   fractions, in which `SolvesAreSound` could be stated for any arena.
2. The mode-state payloads of the encoders, with their conformance.
3. Termination of a solve as a measure (events left per pair and trigger) instead of a
   budget, from which liveness of the tick would follow.

## 8. Not modelled

- *Entity id allocator*: ids only grow and are reserved per tick.
- *Sandbox mode*: the systems it declares are `Combat`'s, and nothing is scored.
- *Floating-point geometry*: roots, projections and distances in binary64; their
  properties are numerical and TLC has no reals. What the solver does with their
  answers is `MotionSolver`'s.
- *Structured logging* is output; the *browser client* is a program of its own.

Partly modelled: which hazard archetype is drawn and the line it crosses on; the
solver's second axis and tangential contacts; the encoding of the mode-state payloads.
