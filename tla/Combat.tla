------------------------------ MODULE Combat ------------------------------
(***************************************************************************)
(* Abilities, statuses, hazards and respawn: the gameplay that every mode  *)
(* shares (src/src/gameplay/shared).  A tick is the code's pipeline:       *)
(*                                                                         *)
(*   OpenTick       phase 0: entities awaiting a body are seated           *)
(*   PreKernel(p)   thrust_steering and ability, entity by entity          *)
(*   Collide, ...   the kernel: contacts and support loss, each answered   *)
(*                  from the world as the kernel found it                  *)
(*   Commit         charge_contact, status; respawn, match_reset,          *)
(*                  lifetime_expiry, hazard_spawn                          *)
(*                                                                         *)
(* A TickWindow [activation, expiry) is kept as the ticks it has left at   *)
(* the current tick: it contains the tick iff that is positive.  Motion is *)
(* an input: who moves into whom at a contact.  Two input generations are  *)
(* told apart, the current one and an earlier one.                         *)
(***************************************************************************)
EXTENDS Integers, FiniteSets, Sequences, SequencesExt

CONSTANTS
    Fighters,           \* EntityIds of player-driven bodies
    ShieldTicks, PerfectTicks, ShieldCooldown, ParryStun,
    ChargeCooldown, ChargeActive, HitStun,
    RespawnDelay,       \* respawn_delay_ticks
    HazardLife,         \* lifetime of a crossing hazard, in ticks
    MaxEvents           \* bound: consequences of the contacts of one tick

ASSUME CombatAssumption ==
    /\ Fighters \subseteq Nat /\ IsFiniteSet(Fighters)
    /\ \A d \in {ShieldTicks, PerfectTicks, ParryStun, ChargeCooldown, ChargeActive, HitStun, HazardLife} :
          d \in Nat \ {0}
    /\ PerfectTicks <= ShieldTicks
    /\ ShieldCooldown \in Nat /\ RespawnDelay \in Nat /\ MaxEvents \in Nat

VARIABLES
    match,      \* "before", "running" or "ended"
    turn,       \* systems of the tick still to run
    fighters,   \* the components of each player's entity
    hazard,     \* ticks the crossing hazard has left, or 0
    events,     \* WorldEvents of this tick
    guarded     \* history: ticks since the body's last shield activation

combatVars == <<match, turn, fighters, hazard, events, guarded>>

---------------------------------------------------------------------------
(* Values.                                                                 *)

\* A tactical input that is held between commands.
HeldInputs == {"none", "thrust", "brake"}

\* The components of an entity: its body, its respawn timer, and what the
\* windows of its Shield (guard, perfect, cooling), Charge (active, recharge)
\* and Stun have left; the input it holds, and whether commands may be about
\* that an invalidation has outdated.
Bare == [body |-> FALSE, timer |-> 0, guard |-> 0, perfect |-> 0, cooling |-> 0,
         active |-> 0, recharge |-> 0, stun |-> 0, held |-> "none", outdated |-> FALSE]

Elimination(p) == [kind |-> "elimination", entity |-> p]
StunRequest(p, ticks) == [kind |-> "stun", entity |-> p, ticks |-> ticks]
ChargeCandidate(a, t, blocked) == [kind |-> "charge", entity |-> a, target |-> t, blocked |-> blocked]

Order == SetToSortSeq(Fighters, <)
Kernel == Cardinality(Fighters) + 1      \* the turn after every PreKernel

OneLess(left) == IF left = 0 THEN 0 ELSE left - 1
Eliminated == {e.entity : e \in {f \in ToSet(events) : f.kind = "elimination"}}

---------------------------------------------------------------------------
(* Phase 0.                                                                *)

Aged(r) == [r EXCEPT !.guard = OneLess(@), !.perfect = OneLess(@), !.cooling = OneLess(@),
                     !.active = OneLess(@), !.recharge = OneLess(@), !.stun = OneLess(@)]

Spaced == ShieldCooldown + ShieldTicks      \* where `guarded` stops counting

\* The next tick: every window has one tick less left, and some of the
\* entities with neither a body nor a timer are given a body.
OpenTick ==
    /\ turn = 0 /\ turn' = 1
    /\ \E seated \in SUBSET {p \in Fighters : ~ fighters[p].body /\ fighters[p].timer = 0} :
          fighters' = [p \in Fighters |-> [Aged(fighters[p]) EXCEPT !.body = @ \/ p \in seated]]
    /\ guarded' = [p \in Fighters |-> IF guarded[p] = Spaced THEN Spaced ELSE guarded[p] + 1]
    /\ UNCHANGED <<match, hazard, events>>

---------------------------------------------------------------------------
(* kPreKernel.                                                             *)

input_is_locked(r) == r.stun > 0

\* thrust_steering: a locked body is made to hold nothing; a command of the
\* current generation replaces the held input; and braking ends a charge.
steer(r, thrust, current) ==
    LET held == IF input_is_locked(r) THEN "none"
                ELSE IF thrust # "none" /\ current THEN thrust ELSE r.held
    IN IF ~ r.body THEN r
       ELSE [r EXCEPT !.held = held,
                      !.active = IF held = "brake" /\ ~ input_is_locked(r) THEN 0 ELSE @]

shield_eligible(r, pulse, current) == pulse /\ current /\ r.guard = 0 /\ r.cooling = 0

\* The direction, the tuned fraction and the safety envelope are the input's.
charge_admissible(r, pulse, current) ==
    pulse /\ current /\ r.guard = 0 /\ r.recharge = 0 /\ r.held # "brake"

\* ability: both answers are taken before either component is written, and an
\* eligible shield wins.
ability(r, shield_pulse, charge_pulse, current) ==
    IF match # "running" \/ ~ r.body \/ input_is_locked(r) THEN r
    ELSE IF shield_eligible(r, shield_pulse, current)
         THEN [r EXCEPT !.guard = ShieldTicks, !.perfect = PerfectTicks, !.cooling = ShieldCooldown]
         ELSE IF charge_admissible(r, charge_pulse, current)
              THEN [r EXCEPT !.active = ChargeActive, !.recharge = ChargeCooldown]
              ELSE r

Activates(before, after) == before.guard = 0 /\ after.guard > 0

\* The input of the turn's entity: at most one command of each kind, all
\* stamped with the generation its client last saw.
PreKernel ==
    /\ turn \in 1 .. Cardinality(Fighters) /\ turn' = turn + 1
    /\ \E thrust \in HeldInputs, shield_pulse, charge_pulse \in BOOLEAN, p \in {Order[turn]} :
       \E current \in {TRUE} \cup (IF fighters[p].outdated THEN {FALSE} ELSE {}) :
          LET r == ability(steer(fighters[p], thrust, current), shield_pulse, charge_pulse, current)
          IN /\ fighters' = [fighters EXCEPT ![p] = r]
             /\ guarded' = IF Activates(fighters[p], r) THEN [guarded EXCEPT ![p] = 0] ELSE guarded
    /\ UNCHANGED <<match, hazard, events>>

---------------------------------------------------------------------------
(* The kernel.  Responses read the frozen world: `fighters` does not change. *)

OnField == {p \in Fighters : fighters[p].body} \ Eliminated

guard_state_of(p) ==
    CASE fighters[p].perfect > 0 -> "perfect"
      [] fighters[p].perfect = 0 /\ fighters[p].guard > 0 -> "ordinary"
      [] OTHER -> "none"

\* An eligible active attempt.
charge_activation_of(p) == ~ input_is_locked(fighters[p]) /\ fighters[p].active > 0

\* compose_guarded_pair for two fighters and a closing impact, and its
\* translation to events: stuns of whoever ran into a perfect guard, then
\* charge candidates, each in ascending order of the entities.
guarded_pair_response(first, second, first_in, second_in) ==
    LET stunned(p, other, moving) ==
            IF moving /\ guard_state_of(other) = "perfect" THEN <<StunRequest(p, ParryStun)>> ELSE <<>>
        hits(p, other, moving) ==
            IF match = "running" /\ moving /\ charge_activation_of(p)
            THEN <<ChargeCandidate(p, other, guard_state_of(other) # "none")>> ELSE <<>>
    IN stunned(first, second, first_in) \o stunned(second, first, second_in)
       \o hits(first, second, first_in) \o hits(second, first, second_in)

\* A closing impact: at least one of the two moves into the other.
Collide ==
    /\ turn = Kernel
    /\ \E first, second \in OnField, first_in, second_in \in BOOLEAN :
          /\ first < second /\ (first_in \/ second_in)
          /\ events' = events \o guarded_pair_response(first, second, first_in, second_in)
    /\ Len(events') <= MaxEvents
    /\ UNCHANGED <<match, turn, fighters, hazard, guarded>>

\* A lethal hazard kills on contact, unless its victim is guarded.
lethal_contact(p) == match = "running" /\ guard_state_of(p) = "none"

Leaves(p) ==
    /\ turn = Kernel /\ p \in OnField
    /\ events' = Append(events, Elimination(p))
    /\ Len(events') <= MaxEvents
    /\ UNCHANGED <<match, turn, fighters, hazard, guarded>>

HazardHits == hazard > 0 /\ \E p \in OnField : lethal_contact(p) /\ Leaves(p)

\* support_loss, bound while the match runs.
SupportLost == match = "running" /\ \E p \in OnField : Leaves(p)

---------------------------------------------------------------------------
(* kPostKernel and kLifecycle.                                             *)

\* Mutant of Settle: a hit stuns its target at once.
SettleAtOnce(field, e) ==
    IF e.kind # "charge" \/ field.fighters[e.entity].active = 0 THEN field
    ELSE IF e.blocked THEN [field EXCEPT !.fighters[e.entity].active = 0]
         ELSE [fighters |-> [field.fighters EXCEPT ![e.entity].active = 0, ![e.entity].recharge = 0,
                                                 ![e.target].active = 0],
               requests |-> field.requests \cup {StunRequest(e.target, HitStun)}]

\* charge_contact: the first candidate of an attempt settles it.  A hit
\* removes the charge, with its cooldown, and stuns; a block ends the attempt.
Settle(field, e) ==
    IF e.kind # "charge" \/ field.fighters[e.entity].active = 0 THEN field
    ELSE IF e.blocked THEN [field EXCEPT !.fighters[e.entity].active = 0]
         ELSE [fighters |-> [field.fighters EXCEPT ![e.entity].active = 0, ![e.entity].recharge = 0],
               requests |-> field.requests \cup {StunRequest(e.target, HitStun)}]

charge_contact(ps) ==
    FoldLeft(Settle, [fighters |-> ps, requests |-> {e \in ToSet(events) : e.kind = "stun"}], events)

\* The stun a body has after the requests: never shorter than it was.
StunLeft(r, p, requests) == Max({r.stun} \cup {e.ticks : e \in {f \in requests : f.entity = p}})

\* Mutant of Stunned: a stun ends the cooldown with the guard.
StunnedAndRefunded(r) ==
    [r EXCEPT !.held = "none", !.active = 0, !.guard = 0, !.perfect = 0, !.cooling = 0]

\* A stun ends the held input, the guard and the charge attempt, and leaves
\* both cooldowns.
Stunned(r) == [r EXCEPT !.held = "none", !.active = 0, !.guard = 0, !.perfect = 0]

status(ps, requests) ==
    [p \in Fighters |->
        LET asked == ps[p].body /\ \E e \in requests : e.entity = p
            r == IF asked THEN [ps[p] EXCEPT !.stun = StunLeft(ps[p], p, requests), !.outdated = TRUE]
                 ELSE ps[p]
        IN IF r.stun > 0 THEN Stunned(r) ELSE r]

post_kernel(ps) == LET w == charge_contact(ps) IN status(w.fighters, w.requests)

\* Mutant of respawn_system: body-bound components are left behind.
RespawnLeavesTheShield(r, eliminated) ==
    IF eliminated THEN [Bare EXCEPT !.timer = RespawnDelay, !.outdated = r.outdated, !.held = r.held,
                                    !.guard = r.guard, !.cooling = r.cooling]
    ELSE [r EXCEPT !.timer = OneLess(@)]

\* respawn_system: timers that stood count down; whoever was eliminated loses the
\* body, starts a timer, and with the body every body-bound component goes.
respawn_system(r, eliminated) ==
    IF eliminated THEN [Bare EXCEPT !.timer = RespawnDelay, !.outdated = r.outdated, !.held = r.held]
    ELSE [r EXCEPT !.timer = OneLess(@)]

\* lifetime_expiry, and then hazard_spawn while the match runs.
HazardsAfter == {OneLess(hazard)}
    \cup (IF match = "running" /\ OneLess(hazard) = 0 THEN {HazardLife} ELSE {})

\* What the match machine may do, and match_reset on the way to a new match.
PhasesAfter == {match} \cup (CASE match = "before" -> {"running"} [] match = "running" -> {"ended"}
                               [] match = "ended" -> {"before"})

Commit ==
    /\ turn = Kernel /\ turn' = 0
    /\ hazard' \in HazardsAfter
    /\ match' \in PhasesAfter
    /\ events' = <<>>
    /\ fighters' = IF match' = "before" /\ match # "before" THEN [p \in Fighters |-> Bare]
                  ELSE LET after == post_kernel(fighters)
                       IN [p \in Fighters |-> respawn_system(after[p], p \in Eliminated)]
    /\ guarded' = [p \in Fighters |-> IF fighters'[p].body THEN guarded[p] ELSE Spaced]

---------------------------------------------------------------------------

CombatInit ==
    /\ match = "before" /\ turn = 0 /\ hazard = 0 /\ events = <<>>
    /\ fighters = [p \in Fighters |-> Bare]
    /\ guarded = [p \in Fighters |-> Spaced]

CombatNext == OpenTick \/ PreKernel \/ Collide \/ HazardHits \/ SupportLost \/ Commit

CombatSpec == CombatInit /\ [][CombatNext]_combatVars

---------------------------------------------------------------------------
(* Properties.                                                             *)

\* The components have their types, and the perfect opening is the first part
\* of the guard.
CombatTypeOK ==
    /\ match \in {"before", "running", "ended"} /\ turn \in 0 .. Kernel /\ hazard \in 0 .. HazardLife
    /\ \A p \in Fighters :
          LET r == fighters[p] IN
          /\ r.guard \in 0 .. ShieldTicks /\ r.perfect \in 0 .. r.guard
          /\ r.held \in HeldInputs /\ r.timer \in 0 .. RespawnDelay

\* A stunned body does nothing: no guard, no charge attempt and no held input
\* outlasts the tick that stunned it, nor begins before the stun is over.
StunStopsEverything ==
    turn = 0 => \A p \in Fighters :
        fighters[p].stun > 1 => /\ fighters[p].guard = 0 /\ fighters[p].active = 0
                               /\ fighters[p].held = "none"

\* The first charge candidate of p's attempt in this tick is a hit on t.
FirstHit(p, t) ==
    \E i \in DOMAIN events :
        /\ events[i] = ChargeCandidate(p, t, FALSE)
        /\ \A j \in 1 .. i - 1 : ~ (events[j].kind = "charge" /\ events[j].entity = p)

\* Two charges that hit each other in one tick stun both, whatever the order
\* of their contacts (ability, then charge_contact before status).
MutualHitsStunBoth ==
    [][\A p, t \in Fighters :
          turn = Kernel /\ turn' = 0 /\ match' # "before" /\ FirstHit(p, t) /\ FirstHit(t, p)
              => \A q \in {p, t} : fighters'[q].stun >= HitStun \/ ~ fighters'[q].body]_combatVars

\* Guards of one body are spaced: a new one starts no earlier than the
\* cooldown after the last, also when a stun has cut that one short.
GuardsAreSpaced ==
    [][\A p \in Fighters : Activates(fighters[p], fighters'[p]) => guarded[p] >= ShieldCooldown]_combatVars

\* What belongs to a body goes with it: who has none has no guard, charge or
\* stun left to come back with.
BodilessIsBare ==
    turn = 0 => \A p \in Fighters :
        ~ fighters[p].body => fighters[p].guard = 0 /\ fighters[p].cooling = 0 /\ fighters[p].active = 0
                             /\ fighters[p].recharge = 0 /\ fighters[p].stun = 0

\* A stun and a death end what they are to end, however windows overlap.
StunAndDeathAreFinal == CombatTypeOK /\ StunStopsEverything /\ BodilessIsBare
====
