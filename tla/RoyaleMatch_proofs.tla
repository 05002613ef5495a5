----------------------- MODULE RoyaleMatch_proofs -----------------------
(***************************************************************************)
(* Proofs about RoyaleMatch, for every set of controllers, every number of *)
(* seats and spawn points, every duration and any number of matches.       *)
(*                                                                         *)
(* The roster and the bodies are each touched by few actions.  RosterStep  *)
(* and BodyStep say once what any step may do to them; the properties then *)
(* follow from these two, case by case, and not from seventeen actions.    *)
(***************************************************************************)
EXTENDS RoyaleMatch, FiniteSetTheorems, FunctionTheorems, TLAPS

---------------------------------------------------------------------------
(* Seats.                                                                  *)

\* A seat is exactly one of its three arms, and its fields are typed.
LEMMA SeatArms ==
    ASSUME NEW s \in Seat
    PROVE  /\ s.arm \in {"empty", "controller", "npc"}
           /\ s.controller \in Controllers \cup {NoController}
           /\ s.arm = "empty" => s = EmptySeat
           /\ s.arm = "controller" => s = ControllerSeat(s.controller)
                                      /\ s.controller \in Controllers
           /\ s.arm = "npc" => s = NpcSeat(s.declaration, s.controller)
                               /\ s.declaration \in Declarations
BY DEF Seat, EmptySeat, ControllerSeat, NpcSeat

\* The constructors build seats with the fields they are given.
LEMMA SeatConstructors ==
    ASSUME NEW c \in Controllers \cup {NoController}, NEW d \in Declarations
    PROVE  /\ EmptySeat \in Seat
           /\ EmptySeat.arm = "empty" /\ EmptySeat.controller = NoController
           /\ c # NoController => ControllerSeat(c) \in Seat
           /\ ControllerSeat(c).arm = "controller"
           /\ ControllerSeat(c).controller = c
           /\ NpcSeat(d, c) \in Seat
           /\ NpcSeat(d, c).arm = "npc"
           /\ NpcSeat(d, c).controller = c
           /\ NpcSeat(d, c).declaration = d
BY DEF Seat, EmptySeat, ControllerSeat, NpcSeat

\* The roster as TypeOK types it.
RosterOK == \E n \in 1 .. MaximumSeatCount : seats \in [1 .. n -> Seat]

\* What one step may do to the roster.
Resized ==
    /\ phase = "lobby"
    /\ \E n \in 1 .. MaximumSeatCount :
          /\ \A i \in DOMAIN seats : i > n => ~ seat_is_occupied(seats[i])
          /\ seats' = [i \in 1 .. n |->
                          IF i \in DOMAIN seats THEN seats[i] ELSE EmptySeat]

Cleared ==
    /\ phase = "lobby"
    /\ \E i \in DOMAIN seats :
          /\ seats[i].arm = "npc"
          /\ seats' = [seats EXCEPT ![i] = EmptySeat]

Declared ==
    \E i \in DOMAIN seats, d \in Declarations :
       /\ seats[i].arm = "empty"
       /\ seats' = [seats EXCEPT ![i] = NpcSeat(d, NoController)]

PersonSeated ==
    \E i \in DOMAIN seats, c \in Controllers :
       /\ ~ controller_holds_a_seat(c)
       /\ \/ seats[i].arm = "empty"
          \/ seats[i].arm = "npc" /\ phase \in {"lobby", "countdown"}
       /\ seats' = [seats EXCEPT ![i] = ControllerSeat(c)]

BotSeated ==
    \E i \in DOMAIN seats, c \in Controllers :
       /\ ~ controller_holds_a_seat(c)
       /\ seats[i].arm = "npc"
       /\ seats[i].controller = NoController
       /\ seats' = [seats EXCEPT ![i] = NpcSeat(seats[i].declaration, c)]

Vacated ==
    \E c \in Controllers :
       /\ left' = left \cup {c}
       /\ seats' = [i \in DOMAIN seats |->
                       IF seats[i].controller # c THEN seats[i]
                       ELSE IF seats[i].arm = "controller" THEN EmptySeat
                       ELSE NpcSeat(seats[i].declaration, NoController)]

RosterStep ==
    seats' = seats \/ Resized \/ Cleared \/ Declared \/ PersonSeated
    \/ BotSeated \/ Vacated

\* Every step is one of these.
LEMMA EveryStepIsARosterStep ==
    ASSUME RosterOK, [Next]_vars
    PROVE  RosterStep
<1> USE DEF roster, match, entities, tuning, history
<1>1. ASSUME NEW c \in Controllers, NEW n \in SeatNumbers, SetSeatCount(c, n)
      PROVE  RosterStep
  <2>1. CASE seats' = seats
    BY <2>1 DEF RosterStep
  <2>2. CASE seats' # seats
    <3>1. phase = "lobby" /\ seats' = try_set_seat_count(n)
      BY <1>1, <2>2 DEF SetSeatCount
    <3>2. \A i \in DOMAIN seats : i > n => ~ seat_is_occupied(seats[i])
      BY <3>1, <2>2 DEF try_set_seat_count
    <3>3. seats' = [i \in 1 .. n |->
                      IF i \in DOMAIN seats THEN seats[i] ELSE EmptySeat]
      BY <3>1, <3>2 DEF try_set_seat_count
    <3>4. n \in 1 .. MaximumSeatCount
      BY DEF SeatNumbers
    <3> QED BY <3>1, <3>2, <3>3, <3>4 DEF RosterStep, Resized
  <2> QED BY <2>1, <2>2
<1>2. ASSUME NEW c \in Controllers, NEW i \in SeatNumbers, ClearSeat(c, i)
      PROVE  RosterStep
  BY <1>2 DEF ClearSeat, RosterStep, Cleared, NpcSeats
<1>3. ASSUME NEW c \in Controllers, NEW i \in SeatNumbers, NEW d \in Declarations,
             SeatNpc(c, i, d)
      PROVE  RosterStep
  BY <1>3 DEF SeatNpc, RosterStep, Declared, EmptySeats
<1>4. ASSUME NEW c \in Controllers, JoinAnySeat(c)
      PROVE  RosterStep
  <2>1. CASE seats' = seats
    BY <2>1 DEF RosterStep
  <2>2. CASE seats' # seats
    <3>1. ~ controller_holds_a_seat(c)
      BY <1>4, <2>2 DEF JoinAnySeat
    <3>2. PICK i \in DOMAIN seats : /\ FirstJoinableSeat(i)
                                    /\ seats' = [seats EXCEPT ![i] = ControllerSeat(c)]
      BY <1>4, <2>2 DEF JoinAnySeat
    <3>3. \/ seats[i].arm = "empty"
          \/ seats[i].arm = "npc" /\ phase \in {"lobby", "countdown"}
      BY <3>2 DEF FirstJoinableSeat, IsLowest, EmptySeats, NpcSeats
    <3> QED BY <3>1, <3>2, <3>3 DEF RosterStep, PersonSeated
  <2> QED BY <2>1, <2>2
<1>5. ASSUME NEW c \in Controllers, NEW i \in SeatNumbers, NEW d \in Declarations,
             JoinDeclaredSeat(c, i, d)
      PROVE  RosterStep
  <2>1. CASE seats' = seats
    BY <2>1 DEF RosterStep
  <2>2. CASE seats' # seats
    <3>1. /\ ~ controller_holds_a_seat(c)
          /\ i \in DOMAIN seats
          /\ seats[i].arm = "npc"
          /\ seats[i].controller = NoController
          /\ seats' = [seats EXCEPT ![i].controller = c]
      BY <1>5, <2>2 DEF JoinDeclaredSeat, NpcSeats, seat_is_filled
    <3>2. seats[i] \in Seat
      BY <3>1 DEF RosterOK
    <3>3. seats[i] = NpcSeat(seats[i].declaration, seats[i].controller)
      BY <3>1, <3>2, SeatArms
    <3>4. [seats[i] EXCEPT !.controller = c] = NpcSeat(seats[i].declaration, c)
      BY <3>3 DEF NpcSeat
    <3>5. seats' = [seats EXCEPT ![i] = NpcSeat(seats[i].declaration, c)]
      BY <3>1, <3>4
    <3> QED BY <3>1, <3>5 DEF RosterStep, BotSeated
  <2> QED BY <2>1, <2>2
<1>6. ASSUME NEW c \in Controllers, Leave(c)
      PROVE  RosterStep
  BY <1>6 DEF Leave, RosterStep, Vacated
<1>7. CASE seats' = seats
  BY <1>7 DEF RosterStep
<1>8. CASE ApplyCommand
  BY <1>1, <1>2, <1>3, <1>4, <1>5, <1>6, <1>7, <1>8
     DEF ApplyCommand, Despawn, Spawn, SetMovementTuning, StartMatch
<1>9. CASE RunTick
  BY <1>7, <1>9 DEF RunTick, OpenTick, FinishIntake, SeatPendingEntities, Kernel,
                    RecordPlacements, ResetMatch, AdvanceLifecycle
<1>10. CASE UNCHANGED vars
  BY <1>7, <1>10 DEF vars
<1> QED BY <1>8, <1>9, <1>10 DEF Next

\* A roster step keeps the roster well typed.
LEMMA RosterTypePreserved ==
    ASSUME RosterOK, RosterStep
    PROVE  RosterOK'
<1> USE MatchAssumption
<1>0. PICK n \in 1 .. MaximumSeatCount : seats \in [1 .. n -> Seat]
  BY DEF RosterOK
<1>1. ASSUME NEW i \in DOMAIN seats, NEW s \in Seat, seats' = [seats EXCEPT ![i] = s]
      PROVE  RosterOK'
  <2>1. seats' \in [1 .. n -> Seat]
    BY <1>0, <1>1
  <2> QED BY <2>1 DEF RosterOK
<1>2. CASE seats' = seats
  BY <1>2 DEF RosterOK
<1>3. CASE Resized
  <2>1. PICK m \in 1 .. MaximumSeatCount :
           seats' = [i \in 1 .. m |->
                        IF i \in DOMAIN seats THEN seats[i] ELSE EmptySeat]
    BY <1>3 DEF Resized
  <2>2. EmptySeat \in Seat
    BY DEF Seat
  <2>3. seats' \in [1 .. m -> Seat]
    BY <1>0, <2>1, <2>2
  <2> QED BY <2>3 DEF RosterOK
<1>4. CASE Cleared
  <2>1. EmptySeat \in Seat
    BY DEF Seat
  <2> QED BY <1>1, <1>4, <2>1 DEF Cleared
<1>5. CASE Declared
  <2>1. \A d \in Declarations : NpcSeat(d, NoController) \in Seat
    BY DEF Seat
  <2> QED BY <1>1, <1>5, <2>1 DEF Declared
<1>6. CASE PersonSeated
  <2>1. \A c \in Controllers : ControllerSeat(c) \in Seat
    BY DEF Seat
  <2> QED BY <1>1, <1>6, <2>1 DEF PersonSeated
<1>7. CASE BotSeated
  <2>1. PICK i \in DOMAIN seats, c \in Controllers :
           /\ seats[i].arm = "npc"
           /\ seats' = [seats EXCEPT ![i] = NpcSeat(seats[i].declaration, c)]
    BY <1>7 DEF BotSeated
  <2>2. seats[i].declaration \in Declarations
    BY <1>0, <2>1, SeatArms
  <2>3. NpcSeat(seats[i].declaration, c) \in Seat
    BY <2>2, SeatConstructors
  <2> QED BY <1>1, <2>1, <2>3
<1>8. CASE Vacated
  <2>1. PICK c \in Controllers :
           seats' = [i \in DOMAIN seats |->
                       IF seats[i].controller # c THEN seats[i]
                       ELSE IF seats[i].arm = "controller" THEN EmptySeat
                       ELSE NpcSeat(seats[i].declaration, NoController)]
    BY <1>8 DEF Vacated
  <2>2. ASSUME NEW i \in 1 .. n
        PROVE  seats'[i] \in Seat
    <3>1. seats[i] \in Seat /\ i \in DOMAIN seats
      BY <1>0
    <3>2. c # NoController
      BY MatchAssumption
    <3>3. seats[i].controller = c => seats[i].arm \in {"controller", "npc"}
      BY <3>1, <3>2, SeatArms DEF EmptySeat
    <3>4. seats[i].arm = "npc" => NpcSeat(seats[i].declaration, NoController) \in Seat
      BY <3>1, SeatArms, SeatConstructors
    <3>5. EmptySeat \in Seat
      BY DEF Seat
    <3> QED BY <2>1, <3>1, <3>3, <3>4, <3>5
  <2>3. DOMAIN seats' = 1 .. n
    BY <1>0, <2>1
  <2>4. seats' = [i \in DOMAIN seats' |-> seats'[i]]
    BY <2>1
  <2>5. seats' \in [1 .. n -> Seat]
    BY <2>2, <2>3, <2>4
  <2> QED BY <2>5 DEF RosterOK
<1> QED BY <1>2, <1>3, <1>4, <1>5, <1>6, <1>7, <1>8 DEF RosterStep

\* Where a controller sits after a roster step, it sat before, unless the
\* step seated it, and then it sat nowhere.
LEMMA HoldersComeFromHolders ==
    ASSUME RosterOK, RosterStep, NEW c \in Controllers, NEW j \in DOMAIN seats',
           seats'[j].controller = c
    PROVE  \/ j \in DOMAIN seats /\ seats[j].controller = c
           \/ /\ ~ controller_holds_a_seat(c)
              /\ \A k \in DOMAIN seats' : seats'[k].controller = c => k = j
<1>0. c # NoController
  BY MatchAssumption
<1>1. CASE seats' = seats
  BY <1>1
<1>2. CASE Resized
  BY <1>0, <1>2 DEF Resized, EmptySeat
<1>3. CASE Cleared
  BY <1>0, <1>3 DEF Cleared, EmptySeat
<1>4. CASE Declared
  BY <1>0, <1>4 DEF Declared, NpcSeat
<1>5. CASE PersonSeated
  <2>1. PICK i \in DOMAIN seats, d \in Controllers :
           /\ ~ controller_holds_a_seat(d)
           /\ seats' = [seats EXCEPT ![i] = ControllerSeat(d)]
    BY <1>5 DEF PersonSeated
  <2>2. seats'[i].controller = d
    BY <2>1 DEF ControllerSeat
  <2>3. \A k \in DOMAIN seats : k # i => seats'[k] = seats[k]
    BY <2>1
  <2>4. DOMAIN seats' = DOMAIN seats
    BY <2>1
  <2> QED BY <2>1, <2>2, <2>3, <2>4 DEF controller_holds_a_seat, HoldsSeat
<1>6. CASE BotSeated
  <2>1. PICK i \in DOMAIN seats, d \in Controllers :
           /\ ~ controller_holds_a_seat(d)
           /\ seats' = [seats EXCEPT ![i] = NpcSeat(seats[i].declaration, d)]
    BY <1>6 DEF BotSeated
  <2>2. seats'[i].controller = d
    BY <2>1 DEF NpcSeat
  <2>3. \A k \in DOMAIN seats : k # i => seats'[k] = seats[k]
    BY <2>1
  <2>4. DOMAIN seats' = DOMAIN seats
    BY <2>1
  <2> QED BY <2>1, <2>2, <2>3, <2>4 DEF controller_holds_a_seat, HoldsSeat
<1>7. CASE Vacated
  BY <1>0, <1>7 DEF Vacated, EmptySeat, NpcSeat
<1> QED BY <1>1, <1>2, <1>3, <1>4, <1>5, <1>6, <1>7 DEF RosterStep

\* One seat per controller is preserved by every roster step.
LEMMA OneSeatPreserved ==
    ASSUME RosterOK, RosterStep, OneSeatPerController
    PROVE  OneSeatPerController'
<1> SUFFICES ASSUME NEW c \in Controllers,
                    NEW i \in DOMAIN seats', NEW j \in DOMAIN seats',
                    seats'[i].controller = c, seats'[j].controller = c
             PROVE  i = j
  BY DEF OneSeatPerController, HoldsSeat
<1> QED BY HoldersComeFromHolders DEF OneSeatPerController, HoldsSeat, controller_holds_a_seat

\* Nobody's seat moves.
LEMMA SeatsStay ==
    ASSUME RosterOK, RosterStep, OneSeatPerController
    PROVE  \A c \in Controllers : \A i \in DOMAIN seats, j \in DOMAIN seats' :
              seats[i].controller = c /\ seats'[j].controller = c => i = j
BY HoldersComeFromHolders DEF OneSeatPerController, HoldsSeat, controller_holds_a_seat

\* A person is only ever unseated by leaving.
LEMMA PersonsStay ==
    ASSUME RosterOK, RosterStep
    PROVE  \A i \in DOMAIN seats :
              seats[i].arm = "controller" =>
                 \/ i \in DOMAIN seats' /\ seats'[i] = seats[i]
                 \/ seats[i].controller \in left'
<1> SUFFICES ASSUME NEW i \in DOMAIN seats, seats[i].arm = "controller"
             PROVE  \/ i \in DOMAIN seats' /\ seats'[i] = seats[i]
                    \/ seats[i].controller \in left'
  OBVIOUS
<1>1. CASE seats' = seats
  BY <1>1
<1>2. CASE Resized
  <2>1. PICK n \in 1 .. MaximumSeatCount :
          /\ \A k \in DOMAIN seats : k > n => ~ seat_is_occupied(seats[k])
          /\ seats' = [k \in 1 .. n |->
                          IF k \in DOMAIN seats THEN seats[k] ELSE EmptySeat]
    BY <1>2 DEF Resized
  <2>2. ~ (i > n)
    BY <2>1 DEF seat_is_occupied
  <2>3. i \in 1 .. n
    BY <2>2, MatchAssumption DEF RosterOK
  <2> QED BY <2>1, <2>3
<1>3. CASE Cleared
  BY <1>3 DEF Cleared
<1>4. CASE Declared
  BY <1>4 DEF Declared
<1>5. CASE PersonSeated
  BY <1>5 DEF PersonSeated
<1>6. CASE BotSeated
  BY <1>6 DEF BotSeated
<1>7. CASE Vacated
  BY <1>7 DEF Vacated
<1> QED BY <1>1, <1>2, <1>3, <1>4, <1>5, <1>6, <1>7 DEF RosterStep

\* While a match is on, a bot's seat keeps its declaration and loses its bot
\* only to that bot's leave.
LEMMA BotsStay ==
    ASSUME RosterOK, RosterStep
    PROVE  \A i \in DOMAIN seats :
              phase \in {"running", "ended"} /\ seats[i].arm = "npc" =>
                 /\ i \in DOMAIN seats'
                 /\ seats'[i].declaration = seats[i].declaration
                 /\ seats'[i].controller # seats[i].controller =>
                       \/ seats[i].controller = NoController
                       \/ seats[i].controller \in left'
<1> SUFFICES ASSUME NEW i \in DOMAIN seats, phase \in {"running", "ended"},
                    seats[i].arm = "npc"
             PROVE  /\ i \in DOMAIN seats'
                    /\ seats'[i].declaration = seats[i].declaration
                    /\ seats'[i].controller # seats[i].controller =>
                          \/ seats[i].controller = NoController
                          \/ seats[i].controller \in left'
  OBVIOUS
<1>1. CASE seats' = seats
  BY <1>1
<1>2. CASE Resized \/ Cleared
  BY <1>2 DEF Resized, Cleared
<1>3. CASE Declared
  BY <1>3 DEF Declared
<1>4. CASE PersonSeated
  BY <1>4 DEF PersonSeated
<1>5. CASE BotSeated
  BY <1>5 DEF BotSeated, NpcSeat
<1>6. CASE Vacated
  BY <1>6 DEF Vacated, NpcSeat
<1> QED BY <1>1, <1>2, <1>3, <1>4, <1>5, <1>6 DEF RosterStep

---------------------------------------------------------------------------
(* Bodies.                                                                 *)

Body == [id : Nat, controller : Controllers, seated : BOOLEAN]

\* What one step may do to the bodies.
Removed == bodies' \subseteq bodies /\ next_entity' = next_entity

Created ==
    \E c \in Controllers :
       /\ ~ controller_holds_a_body(c)
       /\ bodies' = bodies \cup {[id |-> next_entity, controller |-> c,
                                  seated |-> FALSE]}
       /\ next_entity' = next_entity + 1
       /\ stage = "intake" /\ Precedes(cursor, <<1, c>>)

\* Every body comes from one with the same id and controller, and a body is
\* new only while seating is open.
Given ==
    /\ next_entity' = next_entity
    /\ stage = "seating"
    /\ ~ SeatingIsOpen => bodies' = bodies
    /\ \E chosen \in SUBSET bodies :
          bodies' = {IF b \in chosen THEN [b EXCEPT !.seated = TRUE] ELSE b :
                        b \in bodies}

BodyStep == Removed \/ Created \/ Given

\* Every step is one of these.
LEMMA EveryStepIsABodyStep ==
    ASSUME [Next]_vars
    PROVE  BodyStep
<1> USE DEF roster, match, entities, tuning, history
<1>1. CASE UNCHANGED <<bodies, next_entity>>
  BY <1>1 DEF BodyStep, Removed
<1>2. ASSUME NEW b \in bodies, Despawn(b)
      PROVE  BodyStep
  BY <1>2 DEF Despawn, BodyStep, Removed
<1>3. ASSUME NEW c \in Controllers, Spawn(c)
      PROVE  BodyStep
  <2>1. CASE controller_holds_a_body(c)
    BY <1>1, <1>3, <2>1 DEF Spawn
  <2>2. CASE ~ controller_holds_a_body(c)
    <3>1. command_kind_application_rank["spawn"] = 1
      BY DEF command_kind_application_rank
    <3>2. stage = "intake" /\ Precedes(cursor, <<1, c>>)
      BY <1>3, <3>1 DEF Spawn, NextCommand
    <3> QED BY <1>3, <2>2, <3>2 DEF Spawn, BodyStep, Created
  <2> QED BY <2>1, <2>2
<1>4. ASSUME NEW c \in Controllers, Leave(c)
      PROVE  BodyStep
  BY <1>4 DEF Leave, BodyStep, Removed
<1>5. CASE SeatPendingEntities
  <2>1. PICK chosen \in SUBSET {b \in bodies : ~ b.seated} :
          /\ ~ SeatingIsOpen => chosen = {}
          /\ bodies' = {IF b \in chosen THEN [b EXCEPT !.seated = TRUE] ELSE b :
                           b \in bodies}
    BY <1>5 DEF SeatPendingEntities
  <2>2. ~ SeatingIsOpen => bodies' = bodies
    BY <2>1
  <2>3. next_entity' = next_entity /\ stage = "seating"
    BY <1>5 DEF SeatPendingEntities
  <2> QED BY <2>1, <2>2, <2>3 DEF BodyStep, Given
<1>6. CASE RecordPlacements
  BY <1>6 DEF RecordPlacements, Survivors, BodyStep, Removed
<1>7. CASE ResetMatch
  BY <1>7 DEF ResetMatch, BodyStep, Removed
<1>8. CASE ApplyCommand
  BY <1>1, <1>2, <1>3, <1>4, <1>8
     DEF ApplyCommand, SetMovementTuning, SetSeatCount, ClearSeat, SeatNpc,
         StartMatch, JoinAnySeat, JoinDeclaredSeat
<1>9. CASE RunTick
  BY <1>1, <1>5, <1>6, <1>7, <1>9
     DEF RunTick, OpenTick, FinishIntake, Kernel, AdvanceLifecycle
<1>10. CASE UNCHANGED vars
  BY <1>1, <1>10 DEF vars
<1> QED BY <1>8, <1>9, <1>10 DEF Next

\* The bodies as TypeOK types them.
BodiesOK == bodies \subseteq Body /\ next_entity \in Nat

\* Seating keeps a body's identity and its controller.
LEMMA SeatedBody ==
    ASSUME NEW b \in Body
    PROVE  /\ [b EXCEPT !.seated = TRUE] \in Body
           /\ [b EXCEPT !.seated = TRUE].id = b.id
           /\ [b EXCEPT !.seated = TRUE].controller = b.controller
BY DEF Body

\* A body after a body step is new, or was there before with the same id and
\* controller; it is not new to the arena unless seating is open.
LEMMA BodiesComeFromBodies ==
    ASSUME BodiesOK, BodyStep, NEW b \in bodies'
    PROVE  /\ b \in Body
           /\ \/ \E a \in bodies : a.id = b.id /\ a.controller = b.controller
              \/ b.id = next_entity /\ Created /\ ~ b.seated
                 /\ ~ controller_holds_a_body(b.controller)
           /\ b \notin bodies => ~ b.seated \/ (stage = "seating" /\ SeatingIsOpen)
<1>1. CASE Removed
  BY <1>1 DEF Removed, BodiesOK
<1>2. CASE Created
  <2>1. PICK c \in Controllers :
          /\ ~ controller_holds_a_body(c)
          /\ bodies' = bodies \cup {[id |-> next_entity, controller |-> c,
                                     seated |-> FALSE]}
    BY <1>2 DEF Created
  <2>2. CASE b \in bodies
    BY <2>2 DEF BodiesOK
  <2>3. CASE b = [id |-> next_entity, controller |-> c, seated |-> FALSE]
    BY <1>2, <2>1, <2>3 DEF BodiesOK, Body
  <2> QED BY <2>1, <2>2, <2>3
<1>3. CASE Given
  <2>1. PICK chosen \in SUBSET bodies :
          bodies' = {IF a \in chosen THEN [a EXCEPT !.seated = TRUE] ELSE a :
                        a \in bodies}
    BY <1>3 DEF Given
  <2>2. PICK a \in bodies : b = IF a \in chosen THEN [a EXCEPT !.seated = TRUE] ELSE a
    BY <2>1
  <2>3. a \in Body
    BY DEF BodiesOK
  <2>4. b \in Body /\ a.id = b.id /\ a.controller = b.controller
    BY <2>2, <2>3, SeatedBody
  <2>5. b \notin bodies => stage = "seating" /\ SeatingIsOpen
    BY <1>3 DEF Given
  <2> QED BY <2>4, <2>5
<1> QED BY <1>1, <1>2, <1>3 DEF BodyStep

\* A body step keeps the bodies well typed.
LEMMA BodyTypePreserved ==
    ASSUME BodiesOK, BodyStep
    PROVE  BodiesOK'
<1>1. bodies' \subseteq Body
  BY BodiesComeFromBodies
<1>2. next_entity' = next_entity \/ next_entity' = next_entity + 1
  BY DEF BodyStep, Removed, Created, Given
<1>3. next_entity' \in Nat
  BY <1>2 DEF BodiesOK
<1> QED BY <1>1, <1>3 DEF BodiesOK

\* One body per controller is preserved by every body step.
LEMMA OneBodyPreserved ==
    ASSUME BodiesOK, BodyStep, OneBodyPerController
    PROVE  OneBodyPerController'
<1> SUFFICES ASSUME NEW a \in bodies', NEW b \in bodies', a.controller = b.controller
             PROVE  a = b
  BY DEF OneBodyPerController
<1>1. CASE Removed
  BY <1>1 DEF Removed, OneBodyPerController
<1>2. CASE Created
  <2>0. PICK c \in Controllers :
          /\ ~ controller_holds_a_body(c)
          /\ bodies' = bodies \cup {[id |-> next_entity, controller |-> c,
                                     seated |-> FALSE]}
    BY <1>2 DEF Created
  <2> DEFINE new == [id |-> next_entity, controller |-> c, seated |-> FALSE]
  <2>1. ~ controller_holds_a_body(c) /\ bodies' = bodies \cup {new}
    BY <2>0
  <2>2. new.controller = c
    OBVIOUS
  <2> HIDE DEF new
  <2>3. \A x \in bodies : x.controller # c
    BY <2>1 DEF controller_holds_a_body
  <2> QED BY <2>1, <2>2, <2>3 DEF OneBodyPerController
<1>3. CASE Given
  <2>1. PICK chosen \in SUBSET bodies :
          bodies' = {IF x \in chosen THEN [x EXCEPT !.seated = TRUE] ELSE x :
                        x \in bodies}
    BY <1>3 DEF Given
  <2>2. PICK x \in bodies : a = IF x \in chosen THEN [x EXCEPT !.seated = TRUE] ELSE x
    BY <2>1
  <2>3. PICK y \in bodies : b = IF y \in chosen THEN [y EXCEPT !.seated = TRUE] ELSE y
    BY <2>1
  <2>4. x \in Body /\ y \in Body
    BY DEF BodiesOK
  <2>5. x.controller = y.controller
    BY <2>2, <2>3, <2>4, SeatedBody
  <2>6. x = y
    BY <2>5 DEF OneBodyPerController
  <2> QED BY <2>2, <2>3, <2>6
<1> QED BY <1>1, <1>2, <1>3 DEF BodyStep

\* Outside open seating nobody becomes alive.
LEMMA AliveComeFromAlive ==
    ASSUME BodiesOK, BodyStep, ~ SeatingIsOpen
    PROVE  alive_entities' \subseteq alive_entities
BY BodiesComeFromBodies DEF alive_entities

---------------------------------------------------------------------------
(* The inductive invariant.                                                *)

\* A start request was pressed in this lobby, and so was the start of a
\* countdown or a match.
Requested == (start_requested => pressed) /\ EveryMatchWasRequested

\* After the first leave of a batch only leaves remain.
LeavesAreLast == stage = "intake" /\ left # {} => cursor[1] >= 9

Departed == LeaversHoldNothing /\ LeavesAreLast

\* The arena holds only bodies created since the last match ended.
ArenaIsFresh ==
    \/ phase \in {"countdown", "running"}
    \/ phase = "lobby" /\ (previous_phase # "ended" \/ stage = "lifecycle")

Fresh == /\ ended_at <= next_entity
         /\ ArenaIsFresh => \A b \in bodies : b.id >= ended_at

\* The list belongs to this match: ListIsCurrent, and the rest of the first
\* tick once its recorder has run.
ListBelongs ==
    \/ phase = "ended"
    \/ phase = "running" /\ (previous_phase = "running" \/ stage \in {"reset", "lifecycle"})

\* Nobody is placed twice, and nobody placed is alive.
PlacedApart ==
    /\ \A p, q \in placements : p.controller = q.controller => p = q
    /\ \A p \in placements, b \in alive_entities : p.controller # b.controller

\* Only a running tick eliminates, and only the living.
EliminatedWereAlive ==
    stage = "recorder" => /\ eliminated \subseteq alive_entities
                          /\ phase # "running" => eliminated = {}

\* The phase before running is countdown or running.
PhaseOrder ==
    /\ phase = "running" => previous_phase \in {"countdown", "running"}
    /\ phase = "ended" => previous_phase \in {"running", "ended"}

Scored == EliminatedWereAlive /\ PhaseOrder /\ (ListBelongs => PlacedApart)

IInv ==
    /\ TypeOK
    /\ OneSeatPerController
    /\ OneBodyPerController
    /\ Requested
    /\ Departed
    /\ Fresh
    /\ Scored

\* The initial state satisfies it.
LEMMA InitIInv == Init => IInv
<1> SUFFICES ASSUME Init PROVE IInv
  OBVIOUS
<1> USE MatchAssumption
<1>1. EmptySeat \in Seat
  BY DEF Seat
<1>2. seats \in [1 .. InitialSeatCount -> Seat]
  BY <1>1 DEF Init
<1>3. TypeOK
  BY <1>2 DEF Init, TypeOK, Stages, Phases, Undecided
<1>4. \A i \in DOMAIN seats : seats[i].controller = NoController
  BY DEF Init, EmptySeat
<1>5. OneSeatPerController
  BY <1>4 DEF OneSeatPerController, HoldsSeat
<1>6. OneBodyPerController /\ Requested /\ Departed /\ Fresh /\ Scored
  BY DEF Init, OneBodyPerController, Requested, EveryMatchWasRequested, Departed,
         LeaversHoldNothing, LeavesAreLast, Fresh, ArenaIsFresh, Scored,
         EliminatedWereAlive, PhaseOrder, ListBelongs, PlacedApart
<1> QED BY <1>3, <1>5, <1>6 DEF IInv

---------------------------------------------------------------------------
(* Every step preserves it.                                                *)

\* TypeOK without the roster and the bodies.
RestOK ==
    /\ stage \in Stages
    /\ cursor \in Nat \X Nat
    /\ start_requested \in BOOLEAN
    /\ phase \in Phases
    /\ previous_phase \in Phases
    /\ elapsed \in Nat
    /\ outcome \in [verdict : {"undecided", "won", "drawn"}, winner : Nat]
    /\ eliminated \subseteq Body
    /\ placements \subseteq [entity : Nat, controller : Controllers, placement : Nat]
    /\ revision \in Nat
    /\ entry_revision \in Nat
    /\ decisions \subseteq [controller : Controllers, status : DecisionStatuses]
    /\ pressed \in BOOLEAN
    /\ left \subseteq Controllers
    /\ entry_seated \subseteq Controllers
    /\ ended_at \in Nat
    /\ field \in Nat

LEMMA TypeOKParts == TypeOK <=> RosterOK /\ BodiesOK /\ RestOK
BY DEF TypeOK, RosterOK, BodiesOK, RestOK, Body

\* A command leaves everything typed.
LEMMA CommandRestOK ==
    ASSUME BodiesOK, RestOK, ApplyCommand
    PROVE  RestOK'
<1> USE DEF roster, match, entities, tuning, history
<1>1. ASSUME NEW kind \in CommandKinds, NEW id \in Nat, NextCommand(kind, id)
      PROVE  stage' \in Stages /\ cursor' \in Nat \X Nat
  BY <1>1 DEF NextCommand, RestOK, CommandKinds, command_kind_application_rank
<1>2. Controllers \subseteq Nat
  BY MatchAssumption
<1>3. CASE \E b \in bodies : Despawn(b)
  <2>1. PICK b \in bodies : Despawn(b)
    BY <1>3
  <2>2. b.id \in Nat
    BY DEF BodiesOK, Body
  <2>3. stage' \in Stages /\ cursor' \in Nat \X Nat
    BY <1>1, <2>1, <2>2 DEF Despawn, CommandKinds
  <2> QED BY <2>1, <2>3 DEF Despawn, RestOK
<1>4. ASSUME NEW c \in Controllers,
             \/ Spawn(c)
             \/ \E n \in SeatNumbers : SetSeatCount(c, n)
             \/ \E i \in SeatNumbers : ClearSeat(c, i)
             \/ \E i \in SeatNumbers, d \in Declarations : SeatNpc(c, i, d)
             \/ JoinAnySeat(c)
             \/ \E i \in SeatNumbers, d \in Declarations : JoinDeclaredSeat(c, i, d)
      PROVE  RestOK'
  <2>1. \E kind \in CommandKinds : NextCommand(kind, c)
    BY <1>4 DEF Spawn, SetSeatCount, ClearSeat, SeatNpc, JoinAnySeat,
                JoinDeclaredSeat, CommandKinds
  <2>2. stage' \in Stages /\ cursor' \in Nat \X Nat
    BY <1>1, <1>2, <2>1
  <2>3. UNCHANGED <<start_requested, match, eliminated, placements, tuning, history>>
    BY <1>4 DEF Spawn, SetSeatCount, ClearSeat, SeatNpc, JoinAnySeat,
                JoinDeclaredSeat
  <2> QED BY <2>2, <2>3 DEF RestOK
<1>5. ASSUME NEW c \in Controllers, NEW expected, NEW admitted \in BOOLEAN,
             SetMovementTuning(c, expected, admitted)
      PROVE  RestOK'
  <2>1. stage' \in Stages /\ cursor' \in Nat \X Nat
    BY <1>1, <1>2, <1>5 DEF SetMovementTuning, CommandKinds
  <2>2. TuningStatus(c, expected, admitted) \in DecisionStatuses
    BY DEF TuningStatus, DecisionStatuses
  <2>3. decisions' \subseteq [controller : Controllers, status : DecisionStatuses]
    BY <1>5, <2>2 DEF SetMovementTuning, RestOK
  <2> QED BY <1>5, <2>1, <2>3 DEF SetMovementTuning, RestOK
<1>6. ASSUME NEW c \in Controllers, StartMatch(c)
      PROVE  RestOK'
  <2>1. stage' \in Stages /\ cursor' \in Nat \X Nat
    BY <1>1, <1>2, <1>6 DEF StartMatch, CommandKinds
  <2>2. start_requested' \in BOOLEAN /\ pressed' \in BOOLEAN
    BY <1>6 DEF StartMatch
  <2> QED BY <1>6, <2>1, <2>2 DEF StartMatch, RestOK
<1>7. ASSUME NEW c \in Controllers, Leave(c)
      PROVE  RestOK'
  <2>1. stage' \in Stages /\ cursor' \in Nat \X Nat
    BY <1>1, <1>2, <1>7 DEF Leave, CommandKinds
  <2>2. left' \subseteq Controllers
    BY <1>7 DEF Leave, RestOK
  <2> QED BY <1>7, <2>1, <2>2 DEF Leave, RestOK
<1> QED BY <1>3, <1>4, <1>5, <1>6, <1>7 DEF ApplyCommand

\* There are no more bodies than controllers, so they can be counted.
LEMMA BodiesAreFinite ==
    ASSUME BodiesOK, OneBodyPerController
    PROVE  IsFiniteSet(bodies)
<1> DEFINE owner == [b \in bodies |-> b.controller]
<1>1. owner \in [bodies -> Controllers]
  BY DEF BodiesOK, Body
<1>2. owner \in Injection(bodies, Controllers)
  BY <1>1, Fun_IsInj DEF OneBodyPerController
<1>3. IsFiniteSet(Controllers)
  BY MatchAssumption
<1> QED BY <1>2, <1>3, FS_Injection

\* The number of bodies with a body of their own, in any subset, is a number.
LEMMA AliveCount ==
    ASSUME BodiesOK, OneBodyPerController, NEW S \in SUBSET bodies
    PROVE  Cardinality({b \in S : b.seated}) \in Nat
<1>1. IsFiniteSet(bodies)
  BY BodiesAreFinite
<1>2. {b \in S : b.seated} \subseteq bodies
  OBVIOUS
<1>3. IsFiniteSet({b \in S : b.seated})
  BY <1>1, <1>2, FS_Subset
<1> QED BY <1>3, FS_CardinalityType

\* The outcome of a running tick is typed.
LEMMA OutcomeOK ==
    ASSUME BodiesOK
    PROVE  royale_outcome \in [verdict : {"undecided", "won", "drawn"}, winner : Nat]
<1>1. CASE Cardinality(alive_entities) = 1
  <2>1. alive_entities # {}
    BY <1>1, FS_EmptySet
  <2>2. (CHOOSE b \in alive_entities : TRUE) \in bodies
    BY <2>1 DEF alive_entities
  <2>3. (CHOOSE b \in alive_entities : TRUE).id \in Nat
    BY <2>2 DEF BodiesOK, Body
  <2>4. royale_outcome = [verdict |-> "won",
                          winner |-> (CHOOSE b \in alive_entities : TRUE).id]
    BY <1>1, <2>1 DEF royale_outcome
  <2> QED BY <2>3, <2>4
<1>2. CASE Cardinality(alive_entities) # 1
  BY <1>2 DEF royale_outcome, Undecided
<1> QED BY <1>1, <1>2

\* The lifecycle leaves everything typed.
LEMMA LifecycleRestOK ==
    ASSUME BodiesOK, OneBodyPerController, RestOK, AdvanceLifecycle
    PROVE  RestOK'
<1> USE DEF roster, match, entities, tuning, history
<1>1. ASSUME NEW next \in Phases, commit_transition(next)
      PROVE  /\ phase' \in Phases /\ elapsed' \in Nat
             /\ start_requested' \in BOOLEAN /\ pressed' \in BOOLEAN
  BY <1>1 DEF commit_transition
<1>2. ASSUME StayInPhase
      PROVE  /\ phase' \in Phases /\ elapsed' \in Nat
             /\ start_requested' \in BOOLEAN /\ pressed' \in BOOLEAN
  BY <1>2 DEF StayInPhase, RestOK
<1>3. Cardinality(alive_entities) \in Nat
  BY AliveCount DEF alive_entities
<1>4. /\ phase' \in Phases /\ elapsed' \in Nat
      /\ start_requested' \in BOOLEAN /\ pressed' \in BOOLEAN
  BY <1>1, <1>2 DEF AdvanceLifecycle, LobbyArm, CountdownArm, RunningArm, EndedArm,
                    Phases
<1>5. outcome' \in [verdict : {"undecided", "won", "drawn"}, winner : Nat]
  BY OutcomeOK DEF AdvanceLifecycle, LobbyArm, CountdownArm, RunningArm, EndedArm,
                   RestOK
<1>6. ended_at' \in Nat
  BY DEF AdvanceLifecycle, LobbyArm, CountdownArm, RunningArm, EndedArm, RestOK,
         BodiesOK
<1>7. field' \in Nat
  BY <1>3 DEF AdvanceLifecycle, LobbyArm, CountdownArm, RunningArm, EndedArm, RestOK
<1>8. stage' \in Stages /\ previous_phase' \in Phases
  BY DEF AdvanceLifecycle, Stages, RestOK
<1>9. UNCHANGED <<cursor, eliminated, placements, tuning, left, entry_seated>>
  BY DEF AdvanceLifecycle
<1> QED BY <1>4, <1>5, <1>6, <1>7, <1>8, <1>9 DEF RestOK

\* The rest of the tick leaves everything typed.
LEMMA TickRestOK ==
    ASSUME BodiesOK, OneBodyPerController, RestOK, RunTick
    PROVE  RestOK'
<1> USE DEF roster, match, entities, tuning, history
<1>1. CASE OpenTick
  <2>1. elapsed' \in Nat
    BY <1>1 DEF OpenTick, RestOK
  <2>2. cursor' \in Nat \X Nat /\ stage' \in Stages
    BY <1>1 DEF OpenTick, Stages
  <2> QED BY <1>1, <2>1, <2>2 DEF OpenTick, RestOK
<1>2. CASE FinishIntake
  <2>1. revision' \in Nat
    BY <1>2 DEF FinishIntake, RestOK
  <2>2. ASSUME NEW d \in decisions, NEW new \in DecisionStatuses
        PROVE  [d EXCEPT !.status = new] \in
                  [controller : Controllers, status : DecisionStatuses]
    BY DEF RestOK
  <2>3. ASSUME NEW d \in decisions
        PROVE  (IF d.status = "superseded" /\ IsWinner(d.controller)
                THEN "applied" ELSE d.status) \in DecisionStatuses
    BY DEF RestOK, DecisionStatuses
  <2>4. decisions' \subseteq [controller : Controllers, status : DecisionStatuses]
    BY <1>2, <2>2, <2>3 DEF FinishIntake, RestOK
  <2>5. cursor' \in Nat \X Nat /\ stage' \in Stages
    BY <1>2 DEF FinishIntake, Stages
  <2> QED BY <1>2, <2>1, <2>4, <2>5 DEF FinishIntake, RestOK
<1>3. CASE SeatPendingEntities
  BY <1>3 DEF SeatPendingEntities, RestOK, Stages
<1>4. CASE Kernel
  <2>1. eliminated' \subseteq Body
    BY <1>4 DEF Kernel, alive_entities, BodiesOK
  <2> QED BY <1>4, <2>1 DEF Kernel, RestOK, Stages
<1>5. CASE RecordPlacements
  <2>1. SharedPlacement \in Nat
    BY AliveCount DEF SharedPlacement, Survivors
  <2>2. \A b \in eliminated :
           [entity |-> b.id, controller |-> b.controller,
            placement |-> SharedPlacement] \in
              [entity : Nat, controller : Controllers, placement : Nat]
    BY <2>1 DEF RestOK, Body
  <2>3. placements' \subseteq [entity : Nat, controller : Controllers, placement : Nat]
    BY <1>5, <2>2 DEF RecordPlacements, RestOK
  <2> QED BY <1>5, <2>3 DEF RecordPlacements, RestOK, Stages
<1>6. CASE ResetMatch
  BY <1>6 DEF ResetMatch, RestOK, Stages
<1>7. CASE AdvanceLifecycle
  BY <1>7, LifecycleRestOK
<1> QED BY <1>1, <1>2, <1>3, <1>4, <1>5, <1>6, <1>7 DEF RunTick

\* Types are preserved.
LEMMA TypePreserved ==
    ASSUME TypeOK, OneBodyPerController, [Next]_vars
    PROVE  TypeOK'
<1>1. RosterOK /\ BodiesOK /\ RestOK
  BY TypeOKParts
<1>2. RosterOK'
  BY <1>1, EveryStepIsARosterStep, RosterTypePreserved
<1>3. BodiesOK'
  BY <1>1, EveryStepIsABodyStep, BodyTypePreserved
<1>4. RestOK'
  <2>1. CASE UNCHANGED vars
    BY <1>1, <2>1 DEF vars, roster, match, entities, tuning, history, RestOK
  <2> QED BY <1>1, <2>1, CommandRestOK, TickRestOK DEF Next
<1> QED BY <1>2, <1>3, <1>4 DEF TypeOK, RosterOK, BodiesOK, RestOK, Body

\* Outside the lifecycle, StartMatch and OpenTick, the phase machine and what
\* the proofs remember of it stand still.
LEMMA PhaseFrame ==
    ASSUME [Next]_vars, ~ AdvanceLifecycle
    PROVE  /\ UNCHANGED <<phase, previous_phase, outcome, ended_at, field>>
           /\ \/ UNCHANGED <<start_requested, pressed>>
              \/ /\ start_requested' = (start_requested \/ phase = "lobby")
                 /\ pressed' = (pressed \/ phase = "lobby")
<1> USE DEF roster, match, entities, tuning, history
<1>1. CASE ApplyCommand
  BY <1>1 DEF ApplyCommand, Despawn, Spawn, SetMovementTuning, SetSeatCount,
              ClearSeat, SeatNpc, StartMatch, JoinAnySeat, JoinDeclaredSeat, Leave
<1>2. CASE RunTick
  BY <1>2 DEF RunTick, OpenTick, FinishIntake, SeatPendingEntities, Kernel,
              RecordPlacements, ResetMatch
<1>3. CASE UNCHANGED vars
  BY <1>3 DEF vars
<1> QED BY <1>1, <1>2, <1>3 DEF Next

\* Every start is asked for.
LEMMA RequestedPreserved ==
    ASSUME Requested, [Next]_vars
    PROVE  Requested'
<1>1. CASE ~ AdvanceLifecycle
  <2>1. phase' = phase
    BY <1>1, PhaseFrame
  <2>2. CASE UNCHANGED <<start_requested, pressed>>
    BY <2>1, <2>2 DEF Requested, EveryMatchWasRequested
  <2>3. CASE /\ start_requested' = (start_requested \/ phase = "lobby")
             /\ pressed' = (pressed \/ phase = "lobby")
    BY <2>1, <2>3 DEF Requested, EveryMatchWasRequested
  <2> QED BY <1>1, <2>2, <2>3, PhaseFrame
<1>2. CASE AdvanceLifecycle
  <2>1. ASSUME NEW next, commit_transition(next),
               next = "countdown" => start_requested,
               next = "running" => phase = "countdown"
        PROVE  Requested'
    BY <2>1 DEF commit_transition, Requested, EveryMatchWasRequested
  <2>2. ASSUME StayInPhase
        PROVE  Requested'
    BY <2>2 DEF StayInPhase, Requested, EveryMatchWasRequested
  <2>3. CASE LobbyArm
    BY <2>1, <2>2, <2>3 DEF LobbyArm, lobby_ready_to_start
  <2>4. CASE CountdownArm
    BY <2>1, <2>2, <2>4 DEF CountdownArm
  <2>5. CASE RunningArm
    BY <2>1, <2>2, <2>5 DEF RunningArm
  <2>6. CASE EndedArm
    BY <2>1, <2>2, <2>6 DEF EndedArm
  <2> QED BY <1>2, <2>3, <2>4, <2>5, <2>6 DEF AdvanceLifecycle
<1> QED BY <1>1, <1>2

\* Once a leave has been applied, the batch holds nothing but leaves.
LEMMA OnlyLeavesFollow ==
    ASSUME RestOK, BodiesOK, LeavesAreLast, left # {}, ApplyCommand
    PROVE  \E c \in Controllers : Leave(c)
<1>1. ASSUME NEW kind \in CommandKinds, NEW id \in Nat, NextCommand(kind, id)
      PROVE  kind = "leave"
  <2>1. stage = "intake" /\ Precedes(cursor, <<command_kind_application_rank[kind], id>>)
    BY <1>1 DEF NextCommand
  <2>2. cursor[1] \in Nat /\ cursor[1] >= 9
    BY <2>1 DEF LeavesAreLast, RestOK
  <2>3. command_kind_application_rank[kind] >= 9
    BY <2>1, <2>2 DEF Precedes, CommandKinds, command_kind_application_rank
  <2> QED BY <2>3 DEF CommandKinds, command_kind_application_rank
<1>2. Controllers \subseteq Nat
  BY MatchAssumption
<1>3. \A b \in bodies : ~ Despawn(b)
  BY <1>1 DEF Despawn, CommandKinds, BodiesOK, Body
<1>4. \A c \in Controllers :
        /\ ~ Spawn(c)
        /\ \A e, a : ~ SetMovementTuning(c, e, a)
        /\ \A n : ~ SetSeatCount(c, n)
        /\ \A i : ~ ClearSeat(c, i)
        /\ \A i, d : ~ SeatNpc(c, i, d)
        /\ ~ StartMatch(c)
        /\ ~ JoinAnySeat(c)
        /\ \A i, d : ~ JoinDeclaredSeat(c, i, d)
  BY <1>1, <1>2 DEF Spawn, SetMovementTuning, SetSeatCount, ClearSeat, SeatNpc,
                    StartMatch, JoinAnySeat, JoinDeclaredSeat, CommandKinds
<1> QED BY <1>3, <1>4 DEF ApplyCommand

\* A leave takes the leaver's seat and body and gives nobody anything.
LEMMA LeaveVacates ==
    ASSUME RosterOK, NEW c \in Controllers, Leave(c)
    PROVE  /\ left' = left \cup {c}
           /\ ~ controller_holds_a_seat(c)'
           /\ ~ controller_holds_a_body(c)'
           /\ \A d \in Controllers :
                 /\ controller_holds_a_seat(d)' => controller_holds_a_seat(d)
                 /\ controller_holds_a_body(d)' => controller_holds_a_body(d)
<1> USE DEF roster, match, entities, tuning, history
<1>0. NoController \notin Controllers
  BY MatchAssumption
<1>1. seats' = [i \in DOMAIN seats |->
                    IF seats[i].controller # c THEN seats[i]
                    ELSE IF seats[i].arm = "controller" THEN EmptySeat
                    ELSE NpcSeat(seats[i].declaration, NoController)]
  BY DEF Leave
<1>2. \A i \in DOMAIN seats' : /\ i \in DOMAIN seats
                               /\ \/ seats'[i] = seats[i] /\ seats[i].controller # c
                                  \/ seats'[i].controller = NoController
  BY <1>1 DEF EmptySeat, NpcSeat
<1>3. bodies' = {b \in bodies : b.controller # c} /\ left' = left \cup {c}
  BY DEF Leave
<1> QED BY <1>0, <1>2, <1>3 DEF controller_holds_a_seat, HoldsSeat, controller_holds_a_body

\* Leavers stay gone for the rest of the tick.
LEMMA DepartedPreserved ==
    ASSUME TypeOK, Departed, [Next]_vars
    PROVE  Departed'
<1> USE DEF roster, match, entities, tuning, history
<1>0. RosterOK /\ BodiesOK /\ RestOK
  BY TypeOKParts
<1>1. ASSUME NEW c \in Controllers, Leave(c)
      PROVE  Departed'
  <2>1. \A d \in left' : d \in Controllers
    BY <1>0, <1>1 DEF Leave, RestOK
  <2>2. LeaversHoldNothing'
    BY <1>0, <1>1, <2>1, LeaveVacates DEF Departed, LeaversHoldNothing
  <2>3. cursor'[1] = 9
    BY <1>1 DEF Leave, NextCommand, command_kind_application_rank
  <2> QED BY <2>2, <2>3 DEF Departed, LeavesAreLast
<1>2. CASE left' = {}
  BY <1>2 DEF Departed, LeaversHoldNothing, LeavesAreLast
<1>3. CASE left' = left /\ left # {} /\ (RunTick \/ UNCHANGED vars)
  <2>1. seats' = seats
    BY <1>3 DEF RunTick, OpenTick, FinishIntake, SeatPendingEntities, Kernel,
                RecordPlacements, ResetMatch, AdvanceLifecycle, vars
  <2>2. ~ Created
    <3>1. stage = "intake" => cursor[1] \in Nat /\ cursor[1] >= 9
      BY <1>0, <1>3 DEF Departed, LeavesAreLast, RestOK
    <3> QED BY <3>1 DEF Created, Precedes
  <2>3. \A d \in Controllers : controller_holds_a_body(d)' => controller_holds_a_body(d)
    BY <1>0, <2>2, EveryStepIsABodyStep, BodiesComeFromBodies DEF controller_holds_a_body
  <2>4. LeaversHoldNothing'
    BY <1>0, <1>3, <2>1, <2>3
       DEF Departed, LeaversHoldNothing, controller_holds_a_seat, HoldsSeat, RestOK
  <2>5. stage' = "intake" => stage = "intake" /\ cursor' = cursor
    BY <1>3 DEF RunTick, OpenTick, FinishIntake, SeatPendingEntities, Kernel,
                RecordPlacements, ResetMatch, AdvanceLifecycle, vars
  <2>6. LeavesAreLast'
    BY <1>3, <2>5 DEF Departed, LeavesAreLast
  <2> QED BY <2>4, <2>6 DEF Departed
<1>4. CASE ApplyCommand
  <2>1. CASE left # {}
    BY <1>0, <1>1, <1>4, <2>1, OnlyLeavesFollow DEF Departed
  <2>2. CASE left = {}
    BY <1>1, <1>2, <1>4, <2>2
       DEF ApplyCommand, Despawn, Spawn, SetMovementTuning, SetSeatCount, ClearSeat,
           SeatNpc, StartMatch, JoinAnySeat, JoinDeclaredSeat
  <2> QED BY <2>1, <2>2
<1>5. CASE RunTick \/ UNCHANGED vars
  <2>1. left' = {} \/ left' = left
    BY <1>5 DEF RunTick, OpenTick, FinishIntake, SeatPendingEntities, Kernel,
                RecordPlacements, ResetMatch, AdvanceLifecycle, vars
  <2> QED BY <1>2, <1>3, <1>5, <2>1
<1> QED BY <1>4, <1>5 DEF Next

\* Outside the lifecycle a fresh arena, a list of this match and the order of
\* phases were already there before the step, but for the recorder and reset.
LEMMA StageFrame ==
    ASSUME [Next]_vars, ~ AdvanceLifecycle
    PROVE  /\ stage' = "lifecycle" => stage = "lifecycle" \/ ResetMatch
           /\ stage' = "reset" => stage = "reset" \/ RecordPlacements
           /\ stage' = "recorder" => UNCHANGED <<stage, bodies, eliminated>> \/ Kernel
           /\ ~ RecordPlacements => UNCHANGED placements
<1> USE DEF roster, match, entities, tuning, history
<1>1. CASE ApplyCommand
  <2>1. stage' = "intake" /\ UNCHANGED placements
    BY <1>1 DEF ApplyCommand, Despawn, Spawn, SetMovementTuning, SetSeatCount,
                ClearSeat, SeatNpc, StartMatch, JoinAnySeat, JoinDeclaredSeat, Leave,
                NextCommand
  <2> QED BY <2>1
<1>2. CASE RunTick
  BY <1>2 DEF RunTick, OpenTick, FinishIntake, SeatPendingEntities, Kernel,
              RecordPlacements, ResetMatch
<1>3. CASE UNCHANGED vars
  BY <1>3 DEF vars
<1> QED BY <1>1, <1>2, <1>3 DEF Next

\* Ids never fall below the mark the last match left.
LEMMA FreshPreserved ==
    ASSUME TypeOK, Fresh, [Next]_vars
    PROVE  Fresh'
<1> USE DEF roster, match, entities, tuning, history
<1>0. BodiesOK /\ RestOK
  BY TypeOKParts
<1>1. BodyStep
  BY EveryStepIsABodyStep
<1>2. next_entity' \in Nat /\ next_entity' >= next_entity
  <2>1. next_entity' = next_entity \/ next_entity' = next_entity + 1
    BY <1>1 DEF BodyStep, Removed, Created, Given
  <2> QED BY <1>0, <2>1 DEF BodiesOK
<1>3. CASE AdvanceLifecycle
  <2>1. UNCHANGED <<bodies, next_entity>>
    BY <1>3 DEF AdvanceLifecycle
  <2>2. CASE RunningArm /\ phase' # "running"
    <3>1. ended_at' = next_entity /\ phase' = "ended"
      BY <2>2 DEF RunningArm, StayInPhase, commit_transition
    <3> QED BY <1>0, <2>1, <3>1 DEF Fresh, ArenaIsFresh, BodiesOK
  <2>3. CASE ~ (RunningArm /\ phase' # "running")
    <3>1. ended_at' = ended_at
      BY <1>3, <2>3 DEF AdvanceLifecycle, LobbyArm, CountdownArm, RunningArm, EndedArm,
                        commit_transition
    <3>2. stage = "lifecycle" /\ stage' = "idle" /\ previous_phase' = phase
      BY <1>3 DEF AdvanceLifecycle
    <3>3. phase = "ended" => phase' \in {"lobby", "ended"}
      BY <1>3 DEF AdvanceLifecycle, LobbyArm, CountdownArm, RunningArm, EndedArm,
                  commit_transition, StayInPhase
    <3>4. ArenaIsFresh' => phase # "ended"
      BY <3>2, <3>3 DEF ArenaIsFresh
    <3>5. ArenaIsFresh' => ArenaIsFresh
      BY <1>0, <3>2, <3>4 DEF ArenaIsFresh, RestOK, Phases
    <3> QED BY <2>1, <3>1, <3>5 DEF Fresh
  <2> QED BY <2>2, <2>3
<1>4. CASE ~ AdvanceLifecycle
  <2>1. UNCHANGED <<phase, previous_phase, ended_at>>
    BY <1>4, PhaseFrame
  <2>2. ended_at' <= next_entity'
    BY <1>0, <1>2, <2>1 DEF Fresh, BodiesOK, RestOK
  <2>3. CASE ArenaIsFresh
    <3>1. \A b \in bodies' : b.id \in Nat /\ (b.id = next_entity \/ \E a \in bodies : a.id = b.id)
      BY <1>0, <1>1, BodiesComeFromBodies DEF Body
    <3>2. \A b \in bodies' : b.id >= ended_at
      BY <1>0, <2>3, <3>1 DEF Fresh, BodiesOK, RestOK
    <3> QED BY <2>1, <2>2, <3>2 DEF Fresh
  <2>4. CASE ~ ArenaIsFresh
    <3>1. ArenaIsFresh' => stage' = "lifecycle" /\ stage # "lifecycle"
                           /\ phase = "lobby" /\ previous_phase = "ended"
      BY <2>1, <2>4 DEF ArenaIsFresh
    <3>2. ArenaIsFresh' => bodies' = {}
      BY <1>4, <3>1, StageFrame DEF ResetMatch
    <3> QED BY <2>2, <3>2 DEF Fresh
  <2> QED BY <2>3, <2>4
<1> QED BY <1>3, <1>4

\* The recorder places each eliminated player once, and none of the living.
LEMMA RecorderPlacesApart ==
    ASSUME BodiesOK, OneBodyPerController, EliminatedWereAlive, PhaseOrder,
           ListBelongs => PlacedApart, phase \in {"running", "ended"}, RecordPlacements
    PROVE  PlacedApart'
<1> DEFINE base == IF IsFirstRunningTick THEN {} ELSE placements
           place(b) == [entity |-> b.id, controller |-> b.controller,
                        placement |-> SharedPlacement]
<1>1. /\ \A p, q \in base : p.controller = q.controller => p = q
      /\ \A p \in base, b \in alive_entities : p.controller # b.controller
  BY DEF IsFirstRunningTick, PhaseOrder, ListBelongs, PlacedApart
<1>2. eliminated \subseteq alive_entities
  BY DEF EliminatedWereAlive, RecordPlacements
<1>3. placements' = base \cup {place(b) : b \in eliminated} /\ bodies' = bodies \ eliminated
  BY DEF RecordPlacements, Survivors
<1>4. \A b : place(b).controller = b.controller
  OBVIOUS
<1>5. \A a, b \in eliminated : a.controller = b.controller => a = b
  BY <1>2 DEF OneBodyPerController, alive_entities
<1>6. alive_entities' = alive_entities \ eliminated
  BY <1>3 DEF alive_entities
<1>7. \A a \in eliminated, b \in alive_entities' : a.controller # b.controller
  BY <1>2, <1>6 DEF OneBodyPerController, alive_entities
<1> HIDE DEF base, place
<1>8. \A p, q \in placements' : p.controller = q.controller => p = q
  BY <1>1, <1>2, <1>3, <1>4, <1>5
<1>9. \A p \in placements', b \in alive_entities' : p.controller # b.controller
  BY <1>1, <1>3, <1>4, <1>6, <1>7
<1> QED BY <1>8, <1>9 DEF PlacedApart

\* Nobody is placed twice, through every step.
LEMMA ScoredPreserved ==
    ASSUME TypeOK, OneBodyPerController, Scored, [Next]_vars
    PROVE  Scored'
<1> USE DEF roster, match, entities, tuning, history
<1>0. BodiesOK /\ RestOK
  BY TypeOKParts
<1>1. BodyStep
  BY EveryStepIsABodyStep
<1>2. CASE AdvanceLifecycle
  <2>1. /\ UNCHANGED <<bodies, placements, eliminated>>
        /\ stage = "lifecycle" /\ stage' = "idle" /\ previous_phase' = phase
    BY <1>2 DEF AdvanceLifecycle
  <2>2. /\ phase' = "running" => phase \in {"countdown", "running"}
        /\ phase' = "ended" => phase \in {"running", "ended"}
    BY <1>2 DEF AdvanceLifecycle, LobbyArm, CountdownArm, RunningArm, EndedArm,
                commit_transition, StayInPhase
  <2>3. PhaseOrder' /\ EliminatedWereAlive'
    BY <2>1, <2>2 DEF PhaseOrder, EliminatedWereAlive
  <2>4. ListBelongs' => ListBelongs
    BY <2>1, <2>2 DEF ListBelongs
  <2>5. PlacedApart => PlacedApart'
    BY <2>1 DEF PlacedApart, alive_entities
  <2> QED BY <2>3, <2>4, <2>5 DEF Scored
<1>3. CASE ~ AdvanceLifecycle
  <2>1. UNCHANGED <<phase, previous_phase>>
    BY <1>3, PhaseFrame
  <2>2. PhaseOrder'
    BY <2>1 DEF Scored, PhaseOrder
  <2>3. EliminatedWereAlive'
    <3>1. CASE UNCHANGED <<stage, bodies, eliminated>>
      BY <2>1, <3>1 DEF Scored, EliminatedWereAlive, alive_entities
    <3>2. CASE Kernel
      BY <3>2 DEF Kernel, EliminatedWereAlive, alive_entities
    <3> QED BY <1>3, <3>1, <3>2, StageFrame DEF EliminatedWereAlive
  <2>4. ASSUME ListBelongs'
        PROVE  PlacedApart'
    <3>1. phase \in {"running", "ended"}
      BY <2>1, <2>4 DEF ListBelongs
    <3>2. CASE RecordPlacements
      BY <1>0, <3>1, <3>2, RecorderPlacesApart DEF Scored
    <3>3. CASE ~ RecordPlacements
      <4>1. placements' = placements
        BY <1>3, <3>3, StageFrame
      <4>2. ListBelongs
        BY <1>3, <2>1, <2>4, <3>3, StageFrame DEF ListBelongs, ResetMatch
      <4>3. alive_entities' \subseteq alive_entities
        BY <1>0, <1>1, <3>1, AliveComeFromAlive DEF SeatingIsOpen
      <4> QED BY <4>1, <4>2, <4>3 DEF Scored, PlacedApart
    <3> QED BY <3>2, <3>3
  <2> QED BY <2>2, <2>3, <2>4 DEF Scored
<1> QED BY <1>2, <1>3

\* Every step preserves the invariant.
LEMMA NextIInv == IInv /\ [Next]_vars => IInv'
<1> SUFFICES ASSUME IInv, [Next]_vars PROVE IInv'
  OBVIOUS
<1>1. /\ TypeOK /\ OneSeatPerController /\ OneBodyPerController
      /\ Requested /\ Departed /\ Fresh /\ Scored
  BY DEF IInv
<1>2. RosterOK /\ BodiesOK /\ RosterStep /\ BodyStep
  BY <1>1, TypeOKParts, EveryStepIsARosterStep, EveryStepIsABodyStep
<1>3. TypeOK'
  BY <1>1, TypePreserved
<1>4. OneSeatPerController' /\ OneBodyPerController'
  BY <1>1, <1>2, OneSeatPreserved, OneBodyPreserved
<1>5. Requested' /\ Departed' /\ Fresh' /\ Scored'
  BY <1>1, RequestedPreserved, DepartedPreserved, FreshPreserved, ScoredPreserved
<1> QED BY <1>3, <1>4, <1>5 DEF IInv

\* The inductive invariant holds in every reachable state.
THEOREM Invariant == Spec => []IInv
BY InitIInv, NextIInv, PTL DEF Spec

---------------------------------------------------------------------------
(* What the project states of the match.                                   *)

\* Every field of the tick keeps its type: seating, scoring, resizing and
\* the lifecycle never produce a value outside it.
THEOREM TypeCorrect == Spec => []TypeOK
<1>1. IInv => TypeOK
  BY DEF IInv
<1> QED BY <1>1, Invariant, PTL

\* No batch of joins, displacements, resizes and leaves seats a controller
\* twice (apply_join).
THEOREM SeatsAreExclusive == Spec => []OneSeatPerController
<1>1. IInv => OneSeatPerController
  BY DEF IInv
<1> QED BY <1>1, Invariant, PTL

\* No sequence of spawns, leaves and resets gives a controller two bodies
\* (apply_input_batch).
THEOREM BodiesAreExclusive == Spec => []OneBodyPerController
<1>1. IInv => OneBodyPerController
  BY DEF IInv
<1> QED BY <1>1, Invariant, PTL

\* Every countdown and every match was asked for in its own lobby
\* (commit_transition clears the request on entering lobby).
THEOREM StartsAreRequested == Spec => []EveryMatchWasRequested
<1>1. IInv => EveryMatchWasRequested
  BY DEF IInv, Requested
<1> QED BY <1>1, Invariant, PTL

\* A leave is final within its tick, whatever else the batch holds
\* (command_kind_application_rank).
THEOREM LeavesAreFinal == Spec => []LeaversHoldNothing
<1>1. IInv => LeaversHoldNothing
  BY DEF IInv, Departed
<1> QED BY <1>1, Invariant, PTL

\* No body is carried from one match into the next (MatchResetSystem).
THEOREM ArenaIsCleared == Spec => []NoBodySurvivesTheMatch
<1>1. IInv => NoBodySurvivesTheMatch
  BY DEF IInv, Fresh, ArenaIsFresh, NoBodySurvivesTheMatch
<1> QED BY <1>1, Invariant, PTL

\* Nobody is placed twice in a match, nor placed while alive
\* (PlacementRecorderSystem).
THEOREM PlacementsAreUnique == Spec => []PlacedOnce
<1>1. IInv => PlacedOnce
  BY DEF IInv, Scored, PlacedOnce, PlacedApart, ListIsCurrent, ListBelongs
<1> QED BY <1>1, Invariant, PTL

\* A seated controller's seat index never changes (try_set_seat_count,
\* apply_join).
THEOREM SeatIndicesAreStable == Spec => SeatsDoNotMove
<1> DEFINE Still == \A c \in Controllers : \A i \in DOMAIN seats, j \in DOMAIN seats' :
              seats[i].controller = c /\ seats'[j].controller = c => i = j
<1>1. IInv /\ [Next]_vars => Still
  BY TypeOKParts, EveryStepIsARosterStep, SeatsStay DEF IInv
<1>2. IInv /\ [Next]_vars => [Still]_vars
  BY <1>1
<1> HIDE DEF Still
<1>3. Spec => [][Still]_vars
  BY <1>2, Invariant, PTL DEF Spec
<1> QED BY <1>3 DEF SeatsDoNotMove, Still

\* Only a person's own leave empties that person's seat (apply_leave).
THEOREM PersonsAreNotUnseated == Spec => PersonsKeepTheirSeats
<1> DEFINE Kept == \A i \in DOMAIN seats :
              seats[i].arm = "controller" =>
                 \/ i \in DOMAIN seats' /\ seats'[i] = seats[i]
                 \/ seats[i].controller \in left'
<1>1. IInv /\ [Next]_vars => Kept
  BY TypeOKParts, EveryStepIsARosterStep, PersonsStay DEF IInv
<1>2. IInv /\ [Next]_vars => [Kept]_vars
  BY <1>1
<1> HIDE DEF Kept
<1>3. Spec => [][Kept]_vars
  BY <1>2, Invariant, PTL DEF Spec
<1> QED BY <1>3 DEF PersonsKeepTheirSeats, Kept

\* A bot's seat is not taken from it during a match (first_joinable_seat).
THEOREM BotsAreNotDisplacedInAMatch == Spec => BotSeatsAreSafeInAMatch
<1> DEFINE Kept == \A i \in DOMAIN seats :
              phase \in {"running", "ended"} /\ seats[i].arm = "npc" =>
                 /\ i \in DOMAIN seats'
                 /\ seats'[i].declaration = seats[i].declaration
                 /\ seats'[i].controller # seats[i].controller =>
                       \/ seats[i].controller = NoController
                       \/ seats[i].controller \in left'
<1>1. IInv /\ [Next]_vars => Kept
  BY TypeOKParts, EveryStepIsARosterStep, BotsStay DEF IInv
<1>2. IInv /\ [Next]_vars => [Kept]_vars
  BY <1>1
<1> HIDE DEF Kept
<1>3. Spec => [][Kept]_vars
  BY <1>2, Invariant, PTL DEF Spec
<1> QED BY <1>3 DEF BotSeatsAreSafeInAMatch, Kept

\* Nobody enters the arena during a match or on the tick that clears it
\* (RotatingRingSpawnPolicy).
THEOREM FieldStaysClosed == Spec => FieldIsClosed
<1> DEFINE Closed ==
       \/ phase \in {"running", "ended"}
       \/ phase = "lobby" /\ previous_phase = "ended"
       => alive_entities' \subseteq alive_entities
<1>1. IInv /\ [Next]_vars => Closed
  BY TypeOKParts, EveryStepIsABodyStep, AliveComeFromAlive DEF IInv, SeatingIsOpen
<1>2. IInv /\ [Next]_vars => [Closed]_vars
  BY <1>1
<1> HIDE DEF Closed
<1>3. Spec => [][Closed]_vars
  BY <1>2, Invariant, PTL DEF Spec
<1> QED BY <1>3 DEF FieldIsClosed, Closed

---------------------------------------------------------------------------
(* The tuning requests of a tick.                                          *)

\* A tick decides at most one request per controller.
OneDecisionEach == \A d, e \in decisions : d.controller = e.controller => d = e

\* While the batch is applied nothing is decided yet: every decision lies
\* behind the cursor, a contender was seated when the tick opened and finds a
\* revision left, and the last contender is the greatest.  Nobody sits down
\* before the batch is past its tuning requests.
Deciding ==
    stage = "intake" =>
       /\ revision = entry_revision
       /\ \A d \in decisions :
             /\ d.status # "applied"
             /\ d.status = "superseded" =>
                   d.controller \in entry_seated /\ entry_revision < MaxRevision
             /\ cursor[1] > 3 \/ (cursor[1] = 3 /\ d.controller <= cursor[2])
       /\ Contenders # {} => \E c \in Contenders : IsWinner(c)
       /\ cursor[1] <= 3 =>
             \A c \in Controllers : controller_holds_a_seat(c) => c \in entry_seated

\* The invariant behind TuningIsSettled.
Decided == OneDecisionEach /\ revision <= MaxRevision /\ Deciding /\ TuningIsSettled

\* Only three actions touch what TuningIsSettled reads.
LEMMA TuningFrame ==
    ASSUME [Next]_vars, ~ OpenTick, ~ FinishIntake,
           \A c \in Controllers, a \in BOOLEAN : \A e : ~ SetMovementTuning(c, e, a)
    PROVE  /\ UNCHANGED <<tuning, entry_seated>>
           /\ stage' = "intake" => stage = "intake"
           /\ stage = "intake" => stage' = "intake"
           /\ stage = "idle" => stage' = "idle"
<1> USE DEF roster, match, entities, tuning, history
<1>1. CASE ApplyCommand
  <2>1. stage' = "intake" /\ stage = "intake" /\ UNCHANGED <<tuning, entry_seated>>
    BY <1>1 DEF ApplyCommand, Despawn, Spawn, SetSeatCount,
                ClearSeat, SeatNpc, StartMatch, JoinAnySeat, JoinDeclaredSeat, Leave,
                NextCommand
  <2> QED BY <2>1
<1>2. CASE RunTick
  BY <1>2 DEF RunTick, SeatPendingEntities, Kernel,
              RecordPlacements, ResetMatch, AdvanceLifecycle
<1>3. CASE UNCHANGED vars
  BY <1>3 DEF vars
<1> QED BY <1>1, <1>2, <1>3 DEF Next

\* Until the batch is past the tuning requests nobody new is seated, and its
\* position never falls.
LEMMA SeatsFollowTuning ==
    ASSUME RestOK, BodiesOK, ApplyCommand
    PROVE  /\ cursor[1] <= cursor'[1]
           /\ cursor'[1] = cursor[1] => cursor[2] <= cursor'[2]
           /\ cursor'[1] <= 3 => seats' = seats
<1> USE DEF roster, match, entities, tuning, history
<1>0. cursor[1] \in Nat /\ cursor[2] \in Nat
  BY DEF RestOK
<1>1. ASSUME NEW kind \in CommandKinds, NEW id \in Nat, NextCommand(kind, id)
      PROVE  /\ cursor[1] <= cursor'[1]
             /\ cursor'[1] = cursor[1] => cursor[2] <= cursor'[2]
             /\ cursor'[1] <= 3 => kind \in {"despawn", "spawn", "set_movement_tuning"}
  <2>1. /\ cursor' = <<command_kind_application_rank[kind], id>>
        /\ Precedes(cursor, <<command_kind_application_rank[kind], id>>)
    BY <1>1 DEF NextCommand
  <2>2. command_kind_application_rank[kind] \in Nat
        /\ (command_kind_application_rank[kind] <= 3 =>
              kind \in {"despawn", "spawn", "set_movement_tuning"})
    BY DEF CommandKinds, command_kind_application_rank
  <2> QED BY <1>0, <2>1, <2>2 DEF Precedes
<1>2. Controllers \subseteq Nat
  BY MatchAssumption
<1>3. \A b \in bodies : b.id \in Nat
  BY DEF BodiesOK, Body
<1>4. ASSUME NEW b \in bodies, Despawn(b)
      PROVE  seats' = seats /\ \E id \in Nat : NextCommand("despawn", id)
  BY <1>3, <1>4 DEF Despawn
<1>5. ASSUME NEW c \in Controllers, \/ Spawn(c)
                                    \/ \E e, a : SetMovementTuning(c, e, a)
      PROVE  seats' = seats /\ \E kind \in CommandKinds : \E id \in Nat : NextCommand(kind, id)
  BY <1>2, <1>5 DEF Spawn, SetMovementTuning, CommandKinds
<1>6. ASSUME NEW c \in Controllers,
             \/ \E n \in SeatNumbers : SetSeatCount(c, n)
             \/ \E i \in SeatNumbers : ClearSeat(c, i)
             \/ \E i \in SeatNumbers, d \in Declarations : SeatNpc(c, i, d)
             \/ StartMatch(c)
             \/ JoinAnySeat(c)
             \/ \E i \in SeatNumbers, d \in Declarations : JoinDeclaredSeat(c, i, d)
             \/ Leave(c)
      PROVE  \E kind \in CommandKinds \ {"despawn", "spawn", "set_movement_tuning"} :
                \E id \in Nat : NextCommand(kind, id)
  <2>1. c \in Nat
    BY <1>2
  <2> QED
    BY <1>6, <2>1 DEF SetSeatCount, ClearSeat, SeatNpc, StartMatch, JoinAnySeat,
                      JoinDeclaredSeat, Leave, CommandKinds
<1>7. "despawn" \in CommandKinds
  BY DEF CommandKinds
<1>8. ASSUME NEW b \in bodies, Despawn(b)
      PROVE  /\ cursor[1] <= cursor'[1]
             /\ cursor'[1] = cursor[1] => cursor[2] <= cursor'[2]
             /\ cursor'[1] <= 3 => seats' = seats
  BY <1>1, <1>4, <1>7, <1>8
<1>9. ASSUME NEW c \in Controllers, \/ Spawn(c)
                                    \/ \E e, a : SetMovementTuning(c, e, a)
      PROVE  /\ cursor[1] <= cursor'[1]
             /\ cursor'[1] = cursor[1] => cursor[2] <= cursor'[2]
             /\ cursor'[1] <= 3 => seats' = seats
  BY <1>1, <1>5, <1>9
<1>10. ASSUME NEW kind \in CommandKinds \ {"despawn", "spawn", "set_movement_tuning"},
              NEW id \in Nat, NextCommand(kind, id)
      PROVE  /\ cursor[1] <= cursor'[1]
             /\ cursor'[1] = cursor[1] => cursor[2] <= cursor'[2]
             /\ cursor'[1] <= 3 => seats' = seats
  BY <1>1, <1>10
<1> QED BY <1>6, <1>8, <1>9, <1>10 DEF ApplyCommand

\* A recorded request keeps the intake's promises.
LEMMA TuningDecides ==
    ASSUME TypeOK, Decided, NEW c \in Controllers,
           NEW expected, NEW admitted \in BOOLEAN,
           SetMovementTuning(c, expected, admitted)
    PROVE  Decided'
<1> USE DEF roster, match, entities, tuning, history
<1> DEFINE new == [controller |-> c, status |-> TuningStatus(c, expected, admitted)]
<1>0. RosterOK /\ BodiesOK /\ RestOK /\ Controllers \subseteq Nat
  BY TypeOKParts, MatchAssumption
<1>1. /\ stage = "intake" /\ stage' = "intake" /\ cursor' = <<3, c>>
      /\ Precedes(cursor, <<3, c>>)
  BY DEF SetMovementTuning, NextCommand, command_kind_application_rank
<1>2. /\ decisions' = decisions \cup {new}
      /\ UNCHANGED <<revision, entry_revision, entry_seated, seats>>
  BY DEF SetMovementTuning
<1>3. new.controller = c /\ new.status = TuningStatus(c, expected, admitted)
  OBVIOUS
<1>4. cursor[1] \in Nat /\ cursor[2] \in Nat /\ entry_revision \in Nat /\ MaxRevision \in Nat
  BY <1>0, MatchAssumption DEF RestOK
<1>5. \A d \in decisions : d.controller \in Nat
  BY <1>0 DEF RestOK
<1>6. cursor[1] <= 3 /\ (cursor[1] = 3 => cursor[2] < c)
  BY <1>0, <1>1, <1>4 DEF Precedes
<1>7. \A d \in decisions : d.controller < c
  BY <1>0, <1>1, <1>4, <1>5, <1>6 DEF Decided, Deciding
<1>8. TuningStatus(c, expected, admitted) # "applied"
  BY DEF TuningStatus
<1>9. TuningStatus(c, expected, admitted) = "superseded" =>
         controller_holds_a_seat(c) /\ entry_revision < MaxRevision
  BY <1>4 DEF TuningStatus
<1>10. \A d \in Controllers : controller_holds_a_seat(d) => d \in entry_seated
  BY <1>1, <1>6 DEF Decided, Deciding
<1> HIDE DEF new
<1>11. OneDecisionEach'
  <2>1. \A d \in decisions : d.controller # c
    BY <1>0, <1>5, <1>7
  <2> QED BY <1>2, <1>3, <2>1 DEF Decided, OneDecisionEach
<1>12. \A d \in decisions' : d = new \/ (d \in decisions /\ d.controller < c)
  BY <1>2, <1>7
<1>13. \A d \in decisions' :
             /\ d.status # "applied"
             /\ d.status = "superseded" =>
                   d.controller \in entry_seated' /\ entry_revision' < MaxRevision
             /\ d.controller <= c
  BY <1>0, <1>1, <1>2, <1>3, <1>5, <1>8, <1>9, <1>10, <1>12 DEF Decided, Deciding
<1>14. ASSUME Contenders' # {}
       PROVE  \E w \in Contenders' : IsWinner(w)'
  <2>1. \A d \in decisions' : d.controller <= c
    BY <1>13
  <2>2. CASE new.status = "superseded"
    <3>1. c \in Contenders'
      BY <1>2, <1>3, <2>2 DEF Contenders
    <3>2. \A w \in Contenders' : w <= c
      BY <2>1 DEF Contenders
    <3> QED BY <3>1, <3>2 DEF IsWinner
  <2>3. CASE new.status # "superseded"
    <3>1. Contenders' = Contenders
      BY <1>2, <2>3 DEF Contenders
    <3>2. PICK w \in Contenders : IsWinner(w)
      BY <1>1, <1>14, <3>1 DEF Decided, Deciding
    <3>3. IsWinner(w)'
      BY <3>1, <3>2 DEF IsWinner
    <3> QED BY <3>1, <3>3
  <2> QED BY <2>2, <2>3
<1>15. \A d \in Controllers : controller_holds_a_seat(d)' => d \in entry_seated'
  BY <1>2, <1>10 DEF controller_holds_a_seat, HoldsSeat
<1>16. cursor'[1] = 3 /\ cursor'[2] = c
  BY <1>1
<1>17. revision' = entry_revision' /\ revision' <= MaxRevision
  BY <1>1, <1>2 DEF Decided, Deciding
<1>18. Deciding'
  BY <1>13, <1>14, <1>15, <1>16, <1>17 DEF Deciding
<1>19. TuningIsSettled'
  BY <1>1 DEF TuningIsSettled
<1> QED BY <1>11, <1>17, <1>18, <1>19 DEF Decided

\* The end of the intake promotes exactly the last contender.
LEMMA IntakeSettles ==
    ASSUME TypeOK, Decided, FinishIntake
    PROVE  Decided'
<1> USE DEF roster, match, entities, tuning, history
<1>0. /\ RestOK /\ entry_revision \in Nat /\ MaxRevision \in Nat
      /\ Controllers \subseteq Nat
  BY TypeOKParts, MatchAssumption DEF RestOK
<1>1. /\ stage = "intake" /\ stage' = "seating"
      /\ UNCHANGED <<entry_revision, entry_seated>>
  BY DEF FinishIntake
<1>2. /\ revision = entry_revision /\ entry_revision <= MaxRevision
      /\ \A d \in decisions : d.status # "applied"
      /\ \A d \in decisions : d.status = "superseded" =>
            d.controller \in entry_seated /\ entry_revision < MaxRevision
      /\ Contenders # {} => \E c \in Contenders : IsWinner(c)
  BY <1>1 DEF Decided, Deciding
<1>3. Deciding'
  BY <1>1 DEF Deciding
<1>4. CASE Contenders = {}
  <2>1. revision' = revision /\ decisions' = decisions
    BY <1>4 DEF FinishIntake
  <2>2. {d \in decisions : d.status = "superseded"} = {}
    BY <1>4 DEF Contenders
  <2>3. {d \in decisions : d.status = "applied"} = {}
    BY <1>2
  <2>4. Cardinality({d \in decisions : d.status = "applied"}) = 0
    BY <2>3, FS_EmptySet
  <2>5. TuningIsSettled'
    BY <1>0, <1>1, <1>2, <2>1, <2>2, <2>3, <2>4 DEF TuningIsSettled
  <2> QED BY <1>1, <1>2, <1>3, <2>1, <2>5 DEF Decided, OneDecisionEach
<1>5. CASE Contenders # {}
  <2>1. PICK w \in Contenders : IsWinner(w)
    BY <1>2, <1>5
  <2>2. PICK e \in decisions : e.status = "superseded" /\ e.controller = w
    BY <2>1 DEF Contenders
  <2> DEFINE promoted(d) == [d EXCEPT !.status =
                               IF d.status = "superseded" /\ IsWinner(d.controller)
                               THEN "applied" ELSE d.status]
  <2>3. revision' = entry_revision + 1 /\ decisions' = {promoted(d) : d \in decisions}
    BY <1>5 DEF FinishIntake
  <2>4. \A c \in Contenders : IsWinner(c) => c = w
    <3>1. Contenders \subseteq Nat
      BY <1>0 DEF Contenders, RestOK
    <3> QED BY <2>1, <3>1 DEF IsWinner
  <2>5. ASSUME NEW d \in decisions
        PROVE  /\ promoted(d).controller = d.controller
               /\ promoted(d).status = IF d = e THEN "applied" ELSE d.status
    <3>1. d \in [controller : Controllers, status : DecisionStatuses]
      BY <1>0 DEF RestOK
    <3>2. promoted(d).controller = d.controller
      BY <3>1
    <3>3. promoted(d).status = IF d.status = "superseded" /\ IsWinner(d.controller)
                               THEN "applied" ELSE d.status
      BY <3>1
    <3>4. d.status = "superseded" => d.controller \in Contenders
      BY DEF Contenders
    <3>5. (d.status = "superseded" /\ IsWinner(d.controller)) <=> d = e
      BY <2>1, <2>2, <2>4, <3>4 DEF Decided, OneDecisionEach
    <3> QED BY <3>2, <3>3, <3>5
  <2> HIDE DEF promoted
  <2>6. {d \in decisions' : d.status = "applied"} = {promoted(e)}
    BY <1>2, <2>2, <2>3, <2>5
  <2>7. Cardinality({d \in decisions' : d.status = "applied"}) = 1
    BY <2>6, FS_Singleton
  <2>8. \A d \in {d \in decisions' : d.status = "applied"} : d.controller \in entry_seated'
    BY <1>1, <1>2, <2>2, <2>5, <2>6
  <2>9. revision' <= MaxRevision
    BY <1>0, <1>2, <2>2, <2>3
  <2>10. OneDecisionEach'
    BY <2>3, <2>5 DEF Decided, OneDecisionEach
  <2>11. TuningIsSettled'
    <3> DEFINE A == {d \in decisions' : d.status = "applied"}
               S == {d \in decisions' : d.status = "superseded"}
    <3>1. TuningIsSettled' <=>
            (stage' \notin {"intake"} =>
              /\ Cardinality(A) <= 1
              /\ S # {} => A # {}
              /\ stage' # "idle" => revision' = entry_revision' + Cardinality(A)
              /\ revision' <= MaxRevision
              /\ \A d \in A : d.controller \in entry_seated')
      BY DEF TuningIsSettled
    <3>2. A # {}
      BY <2>6
    <3>3. Cardinality(A) = 1
      BY <2>7
    <3>4. \A d \in A : d.controller \in entry_seated'
      BY <2>8
    <3> HIDE DEF A, S
    <3> QED BY <1>0, <1>1, <2>3, <2>9, <3>1, <3>2, <3>3, <3>4
  <2> QED BY <1>3, <2>9, <2>10, <2>11 DEF Decided
<1> QED BY <1>4, <1>5

\* Every step keeps the tuning requests settled.
LEMMA DecidedPreserved ==
    ASSUME TypeOK, Decided, [Next]_vars
    PROVE  Decided'
<1> USE DEF roster, match, entities, tuning, history
<1>0. RosterOK /\ BodiesOK /\ RestOK
  BY TypeOKParts
<1>1. CASE OpenTick
  <2>1. /\ stage' = "intake" /\ decisions' = {} /\ revision' = revision
        /\ entry_revision' = revision /\ seats' = seats
        /\ entry_seated' = {c \in Controllers : controller_holds_a_seat(c)}
    BY <1>1 DEF OpenTick
  <2>2. Contenders' = {}
    BY <2>1 DEF Contenders
  <2>3. \A c \in Controllers : controller_holds_a_seat(c)' => c \in entry_seated'
    BY <2>1 DEF controller_holds_a_seat, HoldsSeat
  <2>4. Deciding'
    BY <2>1, <2>2, <2>3 DEF Deciding
  <2> QED BY <2>1, <2>4 DEF Decided, OneDecisionEach, TuningIsSettled
<1>2. CASE FinishIntake
  BY <1>2, IntakeSettles
<1>3. ASSUME NEW c \in Controllers, NEW e, NEW a \in BOOLEAN, SetMovementTuning(c, e, a)
      PROVE  Decided'
  BY <1>3, TuningDecides
<1>4. ASSUME ~ OpenTick, ~ FinishIntake,
             \A c \in Controllers, a \in BOOLEAN : \A e : ~ SetMovementTuning(c, e, a)
      PROVE  Decided'
  <2>1. /\ UNCHANGED <<decisions, revision, entry_revision, entry_seated>>
        /\ stage' = "intake" <=> stage = "intake"
        /\ stage = "idle" => stage' = "idle"
    BY <1>4, TuningFrame
  <2>2. OneDecisionEach' /\ revision' <= MaxRevision
    BY <2>1 DEF Decided, OneDecisionEach
  <2>3. TuningIsSettled'
    BY <2>1 DEF Decided, TuningIsSettled
  <2>4. Deciding'
    <3>1. CASE ApplyCommand
      <4>1. /\ cursor[1] <= cursor'[1]
            /\ cursor'[1] = cursor[1] => cursor[2] <= cursor'[2]
            /\ cursor'[1] <= 3 => seats' = seats
        BY <1>0, <3>1, SeatsFollowTuning
      <4>2. /\ cursor[1] \in Nat /\ cursor[2] \in Nat
            /\ cursor'[1] \in Nat /\ cursor'[2] \in Nat
        BY <1>0, <3>1, CommandRestOK DEF RestOK
      <4>3. stage = "intake" /\ stage' = "intake"
        BY <2>1, <3>1 DEF ApplyCommand, Despawn, Spawn, SetSeatCount, SetMovementTuning,
                ClearSeat, SeatNpc, StartMatch, JoinAnySeat, JoinDeclaredSeat, Leave,
                NextCommand
      <4>4. Contenders' = Contenders /\ \A c \in Contenders : IsWinner(c) => IsWinner(c)'
        BY <2>1 DEF Contenders, IsWinner
      <4>5. \A d \in decisions : d.controller \in Nat
        BY <1>0, MatchAssumption DEF RestOK
      <4>6. \A d \in decisions' :
               cursor'[1] > 3 \/ (cursor'[1] = 3 /\ d.controller <= cursor'[2])
        BY <2>1, <4>1, <4>2, <4>3, <4>5 DEF Decided, Deciding
      <4>7. cursor'[1] <= 3 =>
               \A c \in Controllers : controller_holds_a_seat(c)' => c \in entry_seated'
        BY <2>1, <4>1, <4>2, <4>3 DEF Decided, Deciding, controller_holds_a_seat, HoldsSeat
      <4> QED BY <2>1, <4>3, <4>4, <4>6, <4>7 DEF Decided, Deciding
    <3>2. CASE UNCHANGED vars
      BY <3>2 DEF vars, Decided, Deciding, Contenders, IsWinner, controller_holds_a_seat, HoldsSeat
    <3>3. CASE RunTick
      <4>1. stage # "intake"
        BY <1>4, <3>3 DEF RunTick, SeatPendingEntities, Kernel, RecordPlacements,
                          ResetMatch, AdvanceLifecycle
      <4> QED BY <2>1, <4>1 DEF Deciding
    <3> QED BY <3>1, <3>2, <3>3 DEF Next
  <2> QED BY <2>2, <2>3, <2>4 DEF Decided
<1> QED BY <1>1, <1>2, <1>3, <1>4 DEF Next, ApplyCommand

---------------------------------------------------------------------------
(* The placements.                                                         *)

\* An entity id names one body, and no body has an id still to be issued.
Identified ==
    /\ \A a, b \in bodies : a.id = b.id => a = b
    /\ \A b \in bodies : b.id < next_entity

\* The list ranks the field: what PlacementsAreFair says, from the first
\* recorder of the match on, and what the first recorder needs of the field.
Ranked ==
    /\ IsFiniteSet(placements)
    /\ phase = "running" => Cardinality(alive_entities) <= field
    /\ ListBelongs =>
          /\ \A p \in placements : p.placement > Cardinality(alive_entities)
          /\ Cardinality(placements) + Cardinality(alive_entities) <= field
          /\ \A p \in placements, b \in alive_entities : p.entity # b.id
    /\ WinnerWasNotPlaced

\* Ids stay unique: a new body takes the next one, and seating keeps its own.
LEMMA IdentifiedPreserved ==
    ASSUME BodiesOK, BodyStep, Identified
    PROVE  Identified'
<1>0. next_entity \in Nat /\ \A b \in bodies : b.id \in Nat
  BY DEF BodiesOK, Body
<1>1. CASE Removed
  BY <1>1 DEF Removed, Identified
<1>2. CASE Created
  <2>0. PICK c \in Controllers :
          /\ bodies' = bodies \cup {[id |-> next_entity, controller |-> c,
                                     seated |-> FALSE]}
          /\ next_entity' = next_entity + 1
    BY <1>2 DEF Created
  <2> DEFINE new == [id |-> next_entity, controller |-> c, seated |-> FALSE]
  <2>1. bodies' = bodies \cup {new} /\ next_entity' = next_entity + 1
    BY <2>0
  <2>2. new.id = next_entity
    OBVIOUS
  <2> HIDE DEF new
  <2> QED BY <1>0, <2>1, <2>2 DEF Identified
<1>3. CASE Given
  <2>1. PICK chosen \in SUBSET bodies :
          bodies' = {IF x \in chosen THEN [x EXCEPT !.seated = TRUE] ELSE x :
                        x \in bodies}
    BY <1>3 DEF Given
  <2> DEFINE up(x) == IF x \in chosen THEN [x EXCEPT !.seated = TRUE] ELSE x
  <2>2. bodies' = {up(x) : x \in bodies} /\ next_entity' = next_entity
    BY <1>3, <2>1 DEF Given
  <2>3. \A x \in bodies : up(x).id = x.id
    BY SeatedBody DEF BodiesOK
  <2> HIDE DEF up
  <2> QED BY <2>2, <2>3 DEF Identified
<1> QED BY <1>1, <1>2, <1>3 DEF BodyStep

\* The living and the eliminated can be counted.
LEMMA AliveAreFinite ==
    ASSUME BodiesOK, OneBodyPerController
    PROVE  /\ IsFiniteSet(alive_entities) /\ Cardinality(alive_entities) \in Nat
           /\ \A S \in SUBSET alive_entities :
                 /\ IsFiniteSet(S) /\ Cardinality(S) \in Nat
                 /\ Cardinality(S) <= Cardinality(alive_entities)
<1>1. IsFiniteSet(bodies)
  BY BodiesAreFinite
<1>2. alive_entities \subseteq bodies
  BY DEF alive_entities
<1>3. IsFiniteSet(alive_entities)
  BY <1>1, <1>2, FS_Subset
<1> QED BY <1>3, FS_Subset, FS_CardinalityType

\* The entries a recorder adds are no more than the players it counts out.
LEMMA EntriesAreCounted ==
    ASSUME NEW S, IsFiniteSet(S), NEW place
    PROVE  LET T == {[entity |-> b.id, controller |-> b.controller,
                      placement |-> place] : b \in S}
           IN  /\ IsFiniteSet(T) /\ Cardinality(T) \in Nat
               /\ Cardinality(T) <= Cardinality(S)
<1> DEFINE entry(b) == [entity |-> b.id, controller |-> b.controller,
                        placement |-> place]
           T == {entry(b) : b \in S}
           record == [b \in S |-> entry(b)]
<1>1. record \in Surjection(S, T)
  BY DEF Surjection
<1>2. IsFiniteSet(T) /\ Cardinality(T) <= Cardinality(S)
  BY <1>1, FS_Surjection
<1> HIDE DEF T
<1>3. Cardinality(T) \in Nat
  BY <1>2, FS_CardinalityType
<1> USE DEF T
<1> QED BY <1>2, <1>3

\* The recorder ranks this tick's eliminated below the survivors and above
\* everyone it counted out before.
LEMMA RecorderRanks ==
    ASSUME BodiesOK, OneBodyPerController, RestOK, Identified, EliminatedWereAlive,
           PhaseOrder, Ranked, RecordPlacements
    PROVE  Ranked'
<1> USE DEF roster, match, entities, tuning, history
<1> DEFINE base == IF IsFirstRunningTick THEN {} ELSE placements
           added == {[entity |-> b.id, controller |-> b.controller,
                      placement |-> SharedPlacement] : b \in eliminated}
<1>1. /\ placements' = base \cup added /\ bodies' = bodies \ eliminated
      /\ UNCHANGED <<phase, previous_phase, outcome, field>>
      /\ stage = "recorder" /\ stage' = "reset"
  BY DEF RecordPlacements, Survivors
<1>2. eliminated \subseteq alive_entities /\ (phase # "running" => eliminated = {})
  BY <1>1 DEF EliminatedWereAlive
<1>3. /\ IsFiniteSet(alive_entities) /\ Cardinality(alive_entities) \in Nat
      /\ IsFiniteSet(eliminated) /\ Cardinality(eliminated) \in Nat
  BY <1>2, AliveAreFinite
<1>4. alive_entities' = alive_entities \ eliminated
  BY <1>1, <1>2 DEF alive_entities
<1>5. /\ Cardinality(alive_entities') = Cardinality(alive_entities) - Cardinality(eliminated)
      /\ Cardinality(alive_entities') \in Nat
  <2>1. alive_entities \cap eliminated = eliminated
    BY <1>2
  <2>2. /\ IsFiniteSet(alive_entities \ eliminated)
        /\ Cardinality(alive_entities \ eliminated) =
              Cardinality(alive_entities) - Cardinality(eliminated)
    <3>1. Cardinality(alive_entities \cap eliminated) = Cardinality(eliminated)
      BY <2>1
    <3>2. /\ IsFiniteSet(alive_entities \ eliminated)
          /\ Cardinality(alive_entities \ eliminated) =
                Cardinality(alive_entities) - Cardinality(alive_entities \cap eliminated)
      BY <1>3, FS_Difference
    <3> QED BY <3>1, <3>2
  <2>3. Cardinality(alive_entities \ eliminated) \in Nat
    BY <2>2, FS_CardinalityType
  <2> QED BY <1>4, <2>2, <2>3
<1>6. SharedPlacement = Cardinality(alive_entities') + 1
  BY <1>1 DEF SharedPlacement, Survivors, alive_entities
<1>7. IsFiniteSet(added) /\ Cardinality(added) \in Nat
      /\ Cardinality(added) <= Cardinality(eliminated)
  BY <1>3, EntriesAreCounted
<1>8. \A p \in added : /\ p.placement = Cardinality(alive_entities') + 1
                       /\ \E b \in eliminated : p.entity = b.id
  BY <1>6
<1>9. IsFiniteSet(base) /\ Cardinality(base) \in Nat
  BY FS_EmptySet, FS_CardinalityType DEF Ranked
<1> HIDE DEF base, added
<1>10. /\ IsFiniteSet(placements')
       /\ Cardinality(placements') \in Nat
       /\ Cardinality(placements') <= Cardinality(base) + Cardinality(added)
  <2>1. IsFiniteSet(base \cap added)
    BY <1>9, FS_Intersection
  <2>2. Cardinality(base \cap added) \in Nat
    BY <2>1, FS_CardinalityType
  <2>3. /\ IsFiniteSet(placements')
        /\ Cardinality(placements') =
             Cardinality(base) + Cardinality(added) - Cardinality(base \cap added)
    BY <1>1, <1>7, <1>9, FS_Union
  <2>4. Cardinality(placements') \in Nat
    BY <2>3, FS_CardinalityType
  <2> QED BY <1>7, <1>9, <2>2, <2>3, <2>4
<1>11. field \in Nat
  BY DEF RestOK
<1>12. phase' = "running" => Cardinality(alive_entities') <= field'
  BY <1>1, <1>3, <1>5, <1>11 DEF Ranked
<1>13. ASSUME ListBelongs'
       PROVE  /\ \A p \in base : p.placement > Cardinality(alive_entities)
              /\ Cardinality(base) + Cardinality(alive_entities) <= field
              /\ \A p \in base, b \in alive_entities : p.entity # b.id
  <2>1. phase \in {"running", "ended"}
    BY <1>1, <1>13 DEF ListBelongs
  <2>2. CASE IsFirstRunningTick
    <3>1. base = {} /\ phase = "running"
      BY <2>2 DEF base, IsFirstRunningTick
    <3> QED BY <1>3, <1>11, <3>1, FS_EmptySet DEF Ranked
  <2>3. CASE ~ IsFirstRunningTick
    <3>1. base = placements /\ ListBelongs
      BY <2>1, <2>3 DEF base, IsFirstRunningTick, ListBelongs, PhaseOrder
    <3> QED BY <3>1 DEF Ranked
  <2> QED BY <2>2, <2>3
<1>14. \A p \in base : p.placement \in Nat
  BY DEF base, RestOK
<1>15. ASSUME ListBelongs'
       PROVE  \A p \in placements' : p.placement > Cardinality(alive_entities')
  BY <1>1, <1>3, <1>5, <1>8, <1>13, <1>14, <1>15
<1>16. ASSUME ListBelongs'
       PROVE  Cardinality(placements') + Cardinality(alive_entities') <= field'
  BY <1>1, <1>3, <1>5, <1>7, <1>9, <1>10, <1>11, <1>13, <1>16
<1>17. ASSUME ListBelongs'
       PROVE  \A p \in placements', b \in alive_entities' : p.entity # b.id
  BY <1>1, <1>2, <1>4, <1>8, <1>13, <1>17 DEF Identified, alive_entities
<1>18. WinnerWasNotPlaced'
  <2>1. phase = "ended" => eliminated = {} /\ ~ IsFirstRunningTick
    BY <1>2 DEF IsFirstRunningTick
  <2>2. phase = "ended" => placements' = placements
    BY <1>1, <2>1 DEF base, added
  <2> QED BY <1>1, <2>2 DEF Ranked, WinnerWasNotPlaced
<1> QED BY <1>10, <1>12, <1>15, <1>16, <1>17, <1>18 DEF Ranked

\* Entering the running phase counts the field; leaving it names the one
\* survivor, whom the list does not hold.
LEMMA LifecycleRanks ==
    ASSUME BodiesOK, OneBodyPerController, RestOK, Ranked, AdvanceLifecycle
    PROVE  Ranked'
<1> USE DEF roster, match, entities, tuning, history
<1>1. /\ UNCHANGED <<bodies, placements>>
      /\ stage = "lifecycle" /\ stage' = "idle" /\ previous_phase' = phase
  BY DEF AdvanceLifecycle
<1>2. alive_entities' = alive_entities
  BY <1>1 DEF alive_entities
<1>3. IsFiniteSet(alive_entities) /\ Cardinality(alive_entities) \in Nat
  BY AliveAreFinite
<1>4. CASE LobbyArm
  <2>1. phase' \in {"lobby", "countdown"}
    BY <1>4 DEF LobbyArm, commit_transition, StayInPhase
  <2> QED BY <1>1, <2>1 DEF Ranked, ListBelongs, WinnerWasNotPlaced
<1>5. CASE CountdownArm
  <2>1. /\ phase = "countdown" /\ phase' \in {"lobby", "countdown", "running"}
        /\ phase' = "running" => field' = Cardinality(alive_entities)
    BY <1>5 DEF CountdownArm, commit_transition, StayInPhase
  <2>2. ~ ListBelongs'
    BY <1>1, <2>1 DEF ListBelongs
  <2>3. phase' = "running" => Cardinality(alive_entities') <= field'
    BY <1>2, <1>3, <2>1
  <2>4. WinnerWasNotPlaced'
    BY <2>1 DEF WinnerWasNotPlaced
  <2> QED BY <1>1, <2>2, <2>3, <2>4 DEF Ranked
<1>6. CASE RunningArm
  <2>1. phase = "running" /\ field' = field /\ phase' \in {"running", "ended"}
    BY <1>6 DEF RunningArm, commit_transition, StayInPhase
  <2>2. ListBelongs
    BY <1>1, <2>1 DEF ListBelongs
  <2>3. WinnerWasNotPlaced'
    <3> SUFFICES ASSUME phase' = "ended", outcome'.verdict = "won",
                        NEW p \in placements
                 PROVE  p.entity # outcome'.winner /\ p.placement > 1
      BY <1>1 DEF WinnerWasNotPlaced
    <3>1. outcome' = royale_outcome
      BY <1>6, <2>1 DEF RunningArm, commit_transition, StayInPhase
    <3>2. Cardinality(alive_entities) = 1
      BY <3>1 DEF royale_outcome, Undecided
    <3>3. alive_entities # {}
      BY <3>2, FS_EmptySet
    <3>4. (CHOOSE b \in alive_entities : TRUE) \in alive_entities
      BY <3>3
    <3>5. outcome'.winner = (CHOOSE b \in alive_entities : TRUE).id
      BY <3>1, <3>2 DEF royale_outcome
    <3>6. p.entity # outcome'.winner
      BY <2>2, <3>4, <3>5 DEF Ranked
    <3>7. p.placement > 1
      BY <2>2, <3>2 DEF Ranked
    <3> QED BY <3>6, <3>7
  <2>4. phase' = "running" => Cardinality(alive_entities') <= field'
    BY <1>2, <2>1 DEF Ranked
  <2> QED BY <1>1, <1>2, <2>1, <2>2, <2>3, <2>4 DEF Ranked
<1>7. CASE EndedArm
  <2>1. /\ phase = "ended" /\ phase' \in {"lobby", "ended"}
        /\ UNCHANGED <<outcome, field>>
    BY <1>7 DEF EndedArm, commit_transition, StayInPhase
  <2>2. ListBelongs
    BY <2>1 DEF ListBelongs
  <2>3. WinnerWasNotPlaced'
    BY <1>1, <2>1 DEF Ranked, WinnerWasNotPlaced
  <2> QED BY <1>1, <1>2, <2>1, <2>2, <2>3 DEF Ranked
<1> QED BY <1>4, <1>5, <1>6, <1>7 DEF AdvanceLifecycle

\* Every step keeps the list ranked: outside the recorder and the lifecycle
\* the living can only become fewer while a match is on.
LEMMA RankedPreserved ==
    ASSUME TypeOK, OneBodyPerController, Scored, Identified, Ranked, [Next]_vars
    PROVE  Ranked'
<1>0. BodiesOK /\ RestOK
  BY TypeOKParts
<1>1. CASE AdvanceLifecycle
  BY <1>0, <1>1, LifecycleRanks
<1>2. CASE RecordPlacements
  BY <1>0, <1>2, RecorderRanks DEF Scored
<1>3. CASE ~ AdvanceLifecycle /\ ~ RecordPlacements
  <2>1. UNCHANGED <<phase, previous_phase, outcome, field, placements>>
    BY <1>3, PhaseFrame, StageFrame
  <2>2. WinnerWasNotPlaced'
    BY <2>1 DEF Ranked, WinnerWasNotPlaced
  <2>3. ListBelongs' => ListBelongs
    BY <1>3, <2>1, StageFrame DEF ListBelongs, ResetMatch
  <2>4. ASSUME phase \in {"running", "ended"}
        PROVE  /\ alive_entities' \subseteq alive_entities
               /\ Cardinality(alive_entities) \in Nat
               /\ Cardinality(alive_entities') \in Nat
               /\ Cardinality(alive_entities') <= Cardinality(alive_entities)
    <3>1. alive_entities' \subseteq alive_entities
      BY <1>0, <2>4, EveryStepIsABodyStep, AliveComeFromAlive DEF SeatingIsOpen
    <3> QED BY <1>0, <3>1, AliveAreFinite
  <2>5. field \in Nat /\ \A p \in placements : p.placement \in Nat
    BY <1>0 DEF RestOK
  <2>6. Cardinality(placements) \in Nat
    BY FS_CardinalityType DEF Ranked
  <2>7. phase' = "running" => Cardinality(alive_entities') <= field'
    BY <2>1, <2>4, <2>5 DEF Ranked
  <2>8. ASSUME ListBelongs'
        PROVE  /\ \A p \in placements' : p.placement > Cardinality(alive_entities')
               /\ Cardinality(placements') + Cardinality(alive_entities') <= field'
               /\ \A p \in placements', b \in alive_entities' : p.entity # b.id
    <3>1. phase \in {"running", "ended"}
      BY <2>3, <2>8 DEF ListBelongs
    <3> QED BY <2>1, <2>3, <2>4, <2>5, <2>6, <2>8, <3>1 DEF Ranked
  <2> QED BY <2>1, <2>2, <2>7, <2>8 DEF Ranked
<1> QED BY <1>1, <1>2, <1>3

---------------------------------------------------------------------------
(* The tuning requests and the placements together.                        *)

\* The strengthened invariant.
MatchInv == IInv /\ Decided /\ Identified /\ Ranked

\* The initial state satisfies it.
LEMMA InitMatchInv == Init => MatchInv
<1> SUFFICES ASSUME Init PROVE MatchInv
  OBVIOUS
<1>1. {d \in decisions : d.status = "applied"} = {}
      /\ {d \in decisions : d.status = "superseded"} = {}
  BY DEF Init
<1>2. Decided
  BY <1>1, MatchAssumption, FS_EmptySet
     DEF Init, Decided, OneDecisionEach, Deciding, TuningIsSettled
<1>3. Identified
  BY DEF Init, Identified
<1>4. Ranked
  BY FS_EmptySet DEF Init, Ranked, ListBelongs, WinnerWasNotPlaced
<1> QED BY <1>2, <1>3, <1>4, InitIInv DEF MatchInv

\* Every step preserves it.
LEMMA NextMatchInv == MatchInv /\ [Next]_vars => MatchInv'
<1> SUFFICES ASSUME MatchInv, [Next]_vars PROVE MatchInv'
  OBVIOUS
<1>1. IInv'
  BY NextIInv DEF MatchInv
<1>2. Decided'
  BY DecidedPreserved DEF MatchInv, IInv
<1>3. Identified'
  BY TypeOKParts, EveryStepIsABodyStep, IdentifiedPreserved DEF MatchInv, IInv
<1>4. Ranked'
  BY RankedPreserved DEF MatchInv, IInv
<1> QED BY <1>1, <1>2, <1>3, <1>4 DEF MatchInv

\* It holds in every reachable state.
THEOREM MatchInvariant == Spec => []MatchInv
BY InitMatchInv, NextMatchInv, PTL DEF Spec

\* However many controllers ask in one batch, and whoever joins, leaves or is
\* displaced in it, one tick applies at most one tuning, to a controller that
\* was seated when the tick opened, and the revision counts exactly the
\* applied ones (the tail of apply_input_batch).
THEOREM TuningSettles == Spec => []TuningIsSettled
<1>1. MatchInv => TuningIsSettled
  BY DEF MatchInv, Decided
<1> QED BY <1>1, MatchInvariant, PTL

\* Every recorded placement ranks below everyone alive, the list and the
\* survivors never outgrow the field, and a winner is in no list
\* (PlacementRecorderSystem, RoyaleObjective::outcome).
THEOREM PlacementsRankFairly == Spec => []PlacementsAreFair
<1>1. MatchInv => PlacementsAreFair
  BY DEF MatchInv, Ranked, PlacementsAreFair, PlacementsRankTheField, ListIsCurrent,
         ListBelongs
<1> QED BY <1>1, MatchInvariant, PTL
====
