------------------------------- MODULE Room -------------------------------
(***************************************************************************)
(* One room with its people and its bots: three threads that meet in the   *)
(* CommandSink (src/src/runtime/command_sink.cpp).                         *)
(*                                                                         *)
(*   server thread    opens and closes a session per connected person and  *)
(*                    submits that person's commands                       *)
(*   control thread   ApplicationControlWait polls the published world and *)
(*                    makes the bots match the seats                       *)
(*                    (src/src/application/bot_reconciliation.cpp)         *)
(*   worker           drains the mailbox, steps, publishes                 *)
(*                                                                         *)
(* A reconciliation decides everything from one published snapshot and its *)
(* own table, and then makes its calls one by one while ticks go on: so it *)
(* is an Observe step, which computes whom to retire and what to create,   *)
(* and one step per retirement and creation.  A tick is OpenTick (the      *)
(* drain) and CommitTick (the step and its publication).                   *)
(*                                                                         *)
(* CommandMailbox has the mailbox in full and RoyaleMatch the tick; here   *)
(* the one is a set of commands with a slot per kind and controller, and   *)
(* the other its effect on the seats and the phase.  ControllerIds are     *)
(* never reused by the sink; here an id may return once nothing in the     *)
(* room remembers it.                                                      *)
(***************************************************************************)
EXTENDS Integers, FiniteSets

CONSTANTS
    Controllers,    \* ControllerId values that can be in use together
    People,         \* connections a person may open
    SeatCount,      \* seats of the roster
    Declarations,   \* NpcDeclaration values
    MaxOpen,        \* kMaximumControllerDirectoryEntryCount
    MaxHosted,      \* kMaximumHostedControllerCount
    JoinBudget,     \* kJoinObservationBudgetTicks
    MaxLag          \* bound: ticks committed during one reconciliation

ASSUME RoomAssumption ==
    /\ Controllers \subseteq Nat \ {0} /\ IsFiniteSet(Controllers)
    /\ SeatCount \in Nat \ {0} /\ MaxOpen \in Nat /\ MaxHosted \in Nat
    /\ JoinBudget \in Nat \ {0} /\ MaxLag \in Nat

VARIABLES
    directory,   \* ControllerDirectory: controllers with an open session
    exchange,    \* CommandMailbox: controllers registered for exchanges
    pending,     \* CommandMailbox: commands submitted and not drained
    stepping,    \* a tick is in progress
    batch,       \* its commands
    world,       \* the committed and published world: seats and phase
    people,      \* per person: the controller of its session, or Nobody
    host,        \* ControllerHost: hosted controllers
    bots,        \* SeatBotReconciler::bots_
    failed,      \* SeatBotReconciler::failed_declarations_
    pass         \* the reconciliation in progress

vars == <<directory, exchange, pending, stepping, batch, world, people, host, bots, failed, pass>>

sink == <<directory, exchange, pending>>
control == <<host, bots, failed, pass>>
worker == <<stepping, batch, world>>

---------------------------------------------------------------------------
(* Values.                                                                 *)

Nobody == 0
NoDeclaration == "none"
Seats == 1 .. SeatCount

\* A seat is empty, a person's, or declared for a bot, which may hold it.
Seat(declaration, controller) == [declaration |-> declaration, controller |-> controller]
EmptySeat == Seat(NoDeclaration, Nobody)
Unfilled(seat) == seat.declaration # NoDeclaration /\ seat.controller = Nobody

SeatValues == {Seat(d, c) : d \in Declarations \cup {NoDeclaration},
                            c \in Controllers \cup {Nobody}}

Worlds == [seats : [Seats -> SeatValues],
           phase : {"lobby", "countdown", "running"}, start : BOOLEAN]

Command(kind, c, seat, declaration) ==
    [kind |-> kind, controller |-> c, seat |-> seat, declaration |-> declaration]

\* A bot: the seat and declaration it was made for, and how many ticks have
\* been committed since the snapshot its join was made from; Seated once a
\* reconciliation has seen it in its seat.
Seated == -1
AgeCap == JoinBudget + MaxLag
Bot(seat, declaration, age) == [seat |-> seat, declaration |-> declaration, age |-> age]
NoBot == Bot(0, NoDeclaration, 0)
Hosted == {c \in Controllers : bots[c] # NoBot}

NoPass == [on |-> FALSE, retire |-> {}, create |-> {}, lag |-> 0]

Connected == {p \in People : people[p] # Nobody}
session_count == Cardinality(Connected)

---------------------------------------------------------------------------
(* CommandSink.                                                            *)

\* Nothing in the room refers to the ControllerId.
Unused(c) ==
    /\ c \notin directory \cup exchange \cup host
    /\ bots[c] = NoBot
    /\ \A i \in Seats : world.seats[i].controller # c
    /\ \A m \in pending : m.controller # c
    /\ \A m \in batch : m.controller # c
    /\ \A p \in People : people[p] # c

\* A later command of a kind replaces the earlier one of its controller.
Put(commands, m) ==
    {n \in commands : n.kind # m.kind \/ n.controller # m.controller} \cup {m}

\* open_session issues c: ids are issued in order, and the directory has room.
Opens(c) ==
    /\ Unused(c) /\ \A d \in Controllers : Unused(d) => c <= d
    /\ Cardinality(directory) < MaxOpen

\* submit: a command of a closed session is refused.
submit(c, m) == pending' = IF c \in directory THEN Put(pending, m) ELSE pending

\* close_session: the exchange is retired together with the leave's
\* submission, and then the directory forgets the controller.
Leaving(c) == Put(pending, Command("leave", c, 0, NoDeclaration))
close_session(c) ==
    /\ exchange' = exchange \ {c}
    /\ pending' = IF c \in exchange THEN Leaving(c) ELSE pending
    /\ directory' = directory \ {c}

---------------------------------------------------------------------------
(* Server thread: people.                                                  *)

\* accepted() opens the controller of a session that the room counts already:
\* registered in the directory, then with the mailbox.
Accept(p) ==
    /\ people[p] = Nobody
    /\ \E c \in Controllers :
          /\ Opens(c)
          /\ people' = [people EXCEPT ![p] = c]
          /\ directory' = directory \cup {c} /\ exchange' = exchange \cup {c}
    /\ UNCHANGED <<pending, worker, control>>

\* leave_match, and the session is counted out.
LeaveMatch(p) ==
    /\ people[p] # Nobody
    /\ close_session(people[p])
    /\ people' = [people EXCEPT ![p] = Nobody]
    /\ UNCHANGED <<worker, control>>

Unseated(c) == \A i \in Seats : world.seats[i].controller # c

\* A person without a seat in the published world asks for one.
Join(p) ==
    /\ people[p] # Nobody /\ Unseated(people[p])
    /\ submit(people[p], Command("join", people[p], 0, NoDeclaration))
    /\ UNCHANGED <<directory, exchange, worker, people, control>>

\* The lobby commands a person may have submitted: a declaration, a cleared
\* seat, or the start.  (The decoder stamps them with the session's own
\* controller.)
LobbyCommands(c) ==
    {Command("seat_npc", c, i, d) : i \in Seats, d \in Declarations}
    \cup {Command("clear_seat", c, i, NoDeclaration) : i \in Seats}
    \cup {Command("start_match", c, 0, NoDeclaration)}

---------------------------------------------------------------------------
(* Control thread: reconciliation.                                         *)

same_declaration(i, d) == world.seats[i].declaration = d

\* Mutants of join_in_flight: the budget is one tick short; a join is never
\* given up.
JoinBudgetOneShort(bot) == bot.age # Seated /\ bot.age + 1 < JoinBudget
JoinIsNeverRefused(bot) == bot.age # Seated

\* Whether the join of a bot that does not sit yet may still be on its way.
join_in_flight(bot) == bot.age # Seated /\ bot.age < JoinBudget

Sits(c) == world.seats[bots[c].seat].controller = c

\* observe_room_world: nobody is connected while a match is on.
abandoned == session_count = 0 /\ world.phase \in {"countdown", "running"}

\* reconcile's step 1, and the cleaning of the failed declarations.
Retired ==
    {c \in Hosted : \/ abandoned
                    \/ ~ same_declaration(bots[c].seat, bots[c].declaration)
                    \/ ~ Sits(c) /\ ~ join_in_flight(bots[c])}
StillFailed ==
    {f \in failed : same_declaration(f[1], f[2]) /\ (abandoned \/ Unfilled(world.seats[f[1]]))}

\* reconcile's step 2: a bot for every declared seat that nobody holds, has
\* not failed, and no join is about to fill.
Wanted(kept, known) ==
    IF abandoned THEN {}
    ELSE {<<i, world.seats[i].declaration>> :
             i \in {j \in Seats : /\ Unfilled(world.seats[j])
                                  /\ \A c \in kept : bots[c].seat = j => Sits(c) \/ bots[c].age = Seated}}
         \ known

\* One published snapshot decides the whole reconciliation.
Observe ==
    /\ ~ pass.on
    /\ LET kept == Hosted \ Retired IN
       /\ bots' = [c \in Controllers |->
                     IF c \in kept /\ Sits(c) THEN [bots[c] EXCEPT !.age = Seated] ELSE bots[c]]
       /\ failed' = StillFailed
       /\ pass' = [on |-> TRUE, retire |-> Retired, create |-> Wanted(kept, StillFailed), lag |-> 0]
    /\ UNCHANGED <<sink, worker, people, host>>

retire_bot(c) ==
    /\ pass.on /\ c \in pass.retire
    /\ close_session(c)
    /\ host' = host \ {c}
    /\ bots' = [bots EXCEPT ![c] = NoBot]
    /\ pass' = [pass EXCEPT !.retire = @ \ {c}]
    /\ UNCHANGED <<worker, people, failed>>

\* The next seat to create a bot for, in ascending order.
IsNextCreation(want) ==
    /\ pass.on /\ pass.retire = {} /\ want \in pass.create
    /\ \A other \in pass.create : want[1] <= other[1]

Created(want) == pass' = [pass EXCEPT !.create = @ \ {want}]

\* create_bot: a session is opened, the bot is hosted, and its join submitted.
\* The mailbox may be full; nobody looks at what submit returns.
create_bot(want, c, mailbox_full) ==
    /\ IsNextCreation(want) /\ Created(want)
    /\ Opens(c) /\ Cardinality(host) < MaxHosted
    /\ directory' = directory \cup {c} /\ exchange' = exchange \cup {c}
    /\ host' = host \cup {c}
    /\ pending' = IF mailbox_full THEN pending
                  ELSE Put(pending, Command("join", c, want[1], want[2]))
    /\ bots' = [bots EXCEPT ![c] = Bot(want[1], want[2], pass.lag)]
    /\ UNCHANGED <<worker, people, failed>>

\* The profile is unknown, open_session throws, or the mailbox refuses the
\* registration and the directory entry is closed again: the declaration is
\* not tried again until it changes.
CreationFails(want) ==
    /\ IsNextCreation(want) /\ Created(want)
    /\ failed' = failed \cup {want}
    /\ UNCHANGED <<sink, worker, people, host, bots>>

\* The host is full or the registry cannot build the kind: the session that
\* was opened is closed, which leaves a leave in the mailbox.
HostRefuses(want, c) ==
    /\ IsNextCreation(want) /\ Created(want)
    /\ Opens(c)
    /\ pending' = Leaving(c)
    /\ failed' = failed \cup {want}
    /\ UNCHANGED <<directory, exchange, worker, people, host, bots>>

EndPass ==
    /\ pass.on /\ pass.retire = {} /\ pass.create = {}
    /\ pass' = NoPass
    /\ UNCHANGED <<sink, worker, people, host, bots, failed>>

---------------------------------------------------------------------------
(* Worker: the tick.                                                       *)

\* Mutant of Rank: a leave is applied before a join of the same tick.
LeaveBeforeJoin == [clear_seat |-> 5, seat_npc |-> 6, start_match |-> 7,
                    join |-> 9, leave |-> 8]

\* command_kind_application_rank.
Rank == [clear_seat |-> 5, seat_npc |-> 6, start_match |-> 7,
         join |-> 8, leave |-> 9]

Before(m, n) == \/ Rank[m.kind] < Rank[n.kind]
                \/ Rank[m.kind] = Rank[n.kind] /\ m.controller <= n.controller

IsLowest(i, S) == i \in S /\ \A j \in S : i <= j

\* The seat a join takes, or none: a bot's own, or a person's first joinable.
JoinSeats(w, m) ==
    LET empty == {i \in Seats : w.seats[i] = EmptySeat}
        declared == {i \in Seats : w.seats[i].declaration # NoDeclaration} IN
    IF \E i \in Seats : w.seats[i].controller = m.controller THEN {}
    ELSE IF m.seat # 0
         THEN {i \in {m.seat} : w.seats[i] = Seat(m.declaration, Nobody)}
         ELSE IF empty # {} \/ w.phase = "running" THEN {i \in Seats : IsLowest(i, empty)}
              ELSE {i \in Seats : IsLowest(i, declared)}

\* Phase 0 of the step, for one command.
Apply(w, m) ==
    LET set(i, seat) == [w EXCEPT !.seats[i] = seat] IN
    CASE m.kind = "clear_seat" ->
            IF w.phase = "lobby" /\ w.seats[m.seat].declaration # NoDeclaration
            THEN set(m.seat, EmptySeat) ELSE w
      [] m.kind = "seat_npc" ->
            IF w.phase = "lobby" /\ w.seats[m.seat] = EmptySeat
            THEN set(m.seat, Seat(m.declaration, Nobody)) ELSE w
      [] m.kind = "start_match" -> [w EXCEPT !.start = @ \/ w.phase = "lobby"]
      [] m.kind = "join" ->
            [w EXCEPT !.seats = [i \in Seats |-> IF i \in JoinSeats(w, m)
                                                 THEN Seat(m.declaration, m.controller)
                                                 ELSE w.seats[i]]]
      [] m.kind = "leave" ->
            [w EXCEPT !.seats = [i \in Seats |-> IF w.seats[i].controller = m.controller
                                                 THEN [w.seats[i] EXCEPT !.controller = Nobody]
                                                 ELSE w.seats[i]]]

\* The command of a batch that is applied last.
LastOf(commands) == CHOOSE m \in commands : \A n \in commands : Before(n, m)

Intake(w, commands) ==
    LET after[S \in SUBSET commands] ==
            IF S = {} THEN w
            ELSE LET last == LastOf(S) IN Apply(after[S \ {last}], last)
    IN after[commands]

\* The kernel and the lifecycle system.  A match may go on for any time while
\* two players are left, and is over as soon as there are fewer.
Lifecycle(w) ==
    LET players == {i \in Seats : w.seats[i].controller # Nobody}
        ready == w.start /\ players = Seats IN
    CASE w.phase = "lobby" -> {[w EXCEPT !.phase = IF ready THEN "countdown" ELSE "lobby"]}
      [] w.phase = "countdown" ->
            IF ready THEN {w, [w EXCEPT !.phase = "running"]}
            ELSE {[w EXCEPT !.phase = "lobby", !.start = FALSE]}
      [] w.phase = "running" ->
            {[w EXCEPT !.phase = "lobby", !.start = FALSE]}
            \cup (IF Cardinality(players) >= 2 THEN {w} ELSE {})

\* The drain.  Lobby commands change nothing before it, so one that a
\* person has submitted since the last is chosen here.
OpenTick ==
    /\ ~ stepping /\ stepping' = TRUE
    /\ \E asked \in {{}} \cup {{m} : m \in UNION {LobbyCommands(people[p]) : p \in Connected}} :
          batch' = pending \cup asked
    /\ pending' = {}
    /\ UNCHANGED <<directory, exchange, world, people, control>>

Older(age) == IF age = Seated \/ age = AgeCap THEN age ELSE age + 1

\* The step is committed and published.
CommitTick ==
    /\ stepping /\ stepping' = FALSE
    /\ pass.on => pass.lag < MaxLag
    /\ world' \in Lifecycle(Intake(world, batch))
    /\ batch' = {}
    /\ bots' = [c \in Controllers |-> IF bots[c] = NoBot THEN NoBot
                                      ELSE [bots[c] EXCEPT !.age = Older(@)]]
    /\ pass' = IF pass.on THEN [pass EXCEPT !.lag = @ + 1] ELSE pass
    /\ UNCHANGED <<sink, people, host, failed>>

---------------------------------------------------------------------------

\* The room is created with an empty roster and nobody in it.
Init ==
    /\ directory = {} /\ exchange = {} /\ pending = {} /\ stepping = FALSE /\ batch = {}
    /\ world = [seats |-> [i \in Seats |-> EmptySeat],
                phase |-> "lobby", start |-> FALSE]
    /\ people = [p \in People |-> Nobody]
    /\ host = {} /\ bots = [c \in Controllers |-> NoBot] /\ failed = {}
    /\ pass = NoPass

ServerThread ==
    \E p \in People : Accept(p) \/ LeaveMatch(p) \/ Join(p)

PassStep ==
    \/ Observe
    \/ \E c \in Controllers : retire_bot(c)
    \/ \E want \in pass.create, c \in Controllers : create_bot(want, c, FALSE)
    \/ EndPass

CreationGoesWrong ==
    \E want \in pass.create :
       CreationFails(want) \/ \E c \in Controllers : HostRefuses(want, c)

JoinIsDropped == \E want \in pass.create, c \in Controllers : create_bot(want, c, TRUE)

ControlThread == PassStep \/ CreationGoesWrong \/ JoinIsDropped

Next == ServerThread \/ ControlThread \/ OpenTick \/ CommitTick

Spec == Init /\ [][Next]_vars

\* The worker opens and commits ticks; the control thread, which can always
\* take a step of its reconciliation, does.  (Every step of it changes `pass`,
\* and only OpenTick and CommitTick change `stepping`.)
Ticks == (stepping /\ pass.on => pass.lag < MaxLag) /\ stepping' = ~ stepping
Polls == stepping' = stepping /\ pass' # pass

Fairness == WF_stepping(Ticks) /\ []<><<Polls>>_pass

FairSpec == Spec /\ Fairness

---------------------------------------------------------------------------
(* Properties.                                                             *)

\* The state of the three threads has its types.
TypeOK ==
    /\ directory \subseteq Controllers /\ exchange \subseteq Controllers
    /\ world \in Worlds
    /\ host \subseteq Controllers
    /\ failed \subseteq Seats \X Declarations
    /\ \A c \in Hosted : bots[c].seat \in Seats /\ bots[c].age \in Seated .. AgeCap

InFlight(c, kind) ==
    \E m \in pending \cup batch :
        m.kind = kind /\ m.controller = c

\* No seat is held by somebody who is gone: whoever sits has an open session,
\* or its leave is on the way.
NoGhosts ==
    \A c \in Controllers : Unseated(c) \/ c \in exchange \/ InFlight(c, "leave")

\* The directory, the mailbox, the host and the reconciler agree on who is
\* there, whichever step of opening or creating failed.
RegistriesAgree ==
    /\ directory = exchange
    /\ host = Hosted
    /\ directory = Hosted \cup {people[p] : p \in Connected}

\* A bot is given up only when its join can no longer seat it: what
\* reconcile takes for a refusal is one.
RefusalsAreReal ==
    \A c \in Controllers :
        c \in Retired /\ same_declaration(bots[c].seat, bots[c].declaration) /\ ~ abandoned
            => ~ InFlight(c, "join")

\* A bot is hosted and its join does not enter the mailbox.
JoinIsLost == host \subseteq host' /\ pending' = pending

\* A declared seat is filled, or changed, or its creation has failed, unless
\* the mailbox is full over and over when the join is submitted.
DeclaredSeatIsFilled ==
    \A i \in Seats :
       \/ Unfilled(world.seats[i]) ~>
              ~ Unfilled(world.seats[i]) \/ <<i, world.seats[i].declaration>> \in failed
       \/ []<><<JoinIsLost>>_host

\* A match that everybody has left ends, and the room returns to its lobby.
AbandonedMatchEnds ==
    session_count = 0 /\ world.phase # "lobby" ~> session_count # 0 \/ world.phase = "lobby"

\* Whichever step of opening, creating or leaving fails or comes late, the
\* three threads agree on who is there, and no seat is held by somebody gone.
RoomIsConsistent == TypeOK /\ NoGhosts /\ RegistriesAgree

\* What the room owes those who stay and those who come: a declared seat gets
\* its bot, and a match everybody has left does not go on.
RoomIsServed == DeclaredSeatIsFilled /\ AbandonedMatchEnds
====
