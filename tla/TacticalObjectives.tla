------------------------ MODULE TacticalObjectives ------------------------
(***************************************************************************)
(* What a tactical bot may go for, and which it chooses                    *)
(* (src/src/controllers/tactical_objective_candidates.cpp), as functions   *)
(* of one observation.                                                     *)
(*                                                                         *)
(* The arena is one axis, 0 .. Width, with Holes in it; a place, a speed   *)
(* and a distance are whole numbers, and a speed is the places covered per *)
(* tick.  Fractions of a profile are quarters, an exposure is in eighths,  *)
(* so that the products of the code's scores stay whole: One is 1.0.       *)
(*                                                                         *)
(* An observation `o` has self, velocity, opponents (records), hill or     *)
(* zone (place, radius, velocity), lethal (places of lethal bodies),       *)
(* progress and astray (race), and schema, the mode that is running.       *)
(***************************************************************************)
EXTENDS Integers, FiniteSets, FiniteSetsExt

CONSTANTS
    Width,          \* the arena's diagonal
    Holes,          \* unsupported places
    BodyRadius,     \* every body's radius
    CourseGates,          \* checkpoints of the race course
    MaxShove,       \* kMaximumTacticalShoveCandidateCount
    Profile         \* the TacticalProfile of the bot

Quarters == 0 .. 4
ObjectiveKinds == <<"hill", "zone", "race_gate", "race_recovery", "shove_setup">>
kind_ordinal(kind) == CHOOSE i \in 1 .. 5 : ObjectiveKinds[i] = kind

\* TacticalProfile::create: every authored number is in its range, and at
\* least one objective weighs something.
profile_accepted(section) ==
    /\ section.seek \in Quarters
    /\ section.reaction \in 0 .. 4000
    /\ section.persistence \in 0 .. 4000
    /\ \A i \in 1 .. 5 : section.weights[i] \in Quarters
    /\ \E i \in 1 .. 5 : section.weights[i] > 0
    /\ section.risk \in Quarters
    /\ section.horizon \in 0 .. 400
    /\ section.screen \in Quarters
    /\ section.anticipation \in 0 .. 40
    /\ section.caution \in Quarters \ {0}
    /\ section.brake \in Quarters
    /\ section.exposure_preference \in Quarters
    /\ section.minimum_opening \in 0 .. 32

ASSUME ObjectivesAssumption ==
    /\ Width \in Nat \ {0} /\ Holes \subseteq 0 .. Width
    /\ BodyRadius \in Nat /\ CourseGates \in Nat \ {0} /\ MaxShove \in Nat \ {0}
    /\ profile_accepted(Profile)

weight_of(kind) == Profile.weights[kind_ordinal(kind)]

---------------------------------------------------------------------------
(* Geometry on the axis.                                                   *)

Absolute(n) == IF n < 0 THEN -n ELSE n
Direction(n) == IF n < 0 THEN -1 ELSE IF n = 0 THEN 0 ELSE 1
Distance(a, b) == Absolute(b - a)

terrain_supports_point(x) == x \in (0 .. Width) \ Holes

\* How far from `from` the ground ends on the way by `displacement`: empty
\* when it does not.
support_exits(from, displacement) ==
    {d \in 0 .. Absolute(displacement) : ~ terrain_supports_point(from + Direction(displacement) * d)}

---------------------------------------------------------------------------
(* The providers of raw candidates.                                        *)

Candidate(kind, subject, target, radius, distance) ==
    [key |-> <<kind, subject>>, target |-> target, radius |-> radius, distance |-> distance,
     blocked |-> FALSE, opening |-> 32, drift |-> 0]

Ready(candidates) == [disposition |-> "ready", candidates |-> candidates]
NotReady(disposition) == [disposition |-> disposition, candidates |-> {}]

\* The hill's centre where it will be, when the profile looks ahead.
tactical_predicted_center(o) == o.place + o.drift * Profile.horizon

\* circles<Hill> and circles<Zone>: the published circle, a hill's ahead of
\* its motion.
circles(o, kind) ==
    LET target == IF kind = "hill" THEN tactical_predicted_center(o) ELSE o.place
    IN  Ready({[Candidate(kind, 0, target, o.radius, Distance(o.self, target))
                  EXCEPT !.drift = IF kind = "hill" THEN o.drift ELSE 0]})

\* race: nothing before the progress is published and nothing after the last
\* gate; a body too far from the centreline goes back to it first.
race(o) ==
    IF o.progress < 0 THEN NotReady("waiting")
    ELSE IF o.progress = CourseGates THEN NotReady("finished")
    ELSE IF o.astray > Profile.caution
         THEN Ready({Candidate("race_recovery", o.progress, o.self, 0, o.astray)})
         ELSE Ready({Candidate("race_gate", o.progress, o.place, o.radius, Distance(o.self, o.place))})

\* shove_opponent_precedes, and the MaxShove nearest opponents.
shove_opponent_precedes(o, a, b) ==
    \/ Distance(o.self, a.at) < Distance(o.self, b.at)
    \/ Distance(o.self, a.at) = Distance(o.self, b.at) /\ a.id < b.id

nearest_opponents(o) ==
    {a \in o.opponents : Cardinality({b \in o.opponents : shove_opponent_precedes(o, b, a)}) < MaxShove}

\* shove_exposure, in eighths: a stun counts four, each other weakness one.
shove_exposure(a) ==
    (IF a.stunned THEN 4 ELSE 0) + Cardinality({w \in {"shield", "charge", "zone", "hill"} : w \in a.open})

\* shove_opening, in 32nds.
shove_opening(exposure) ==
    exposure * Profile.exposure_preference + 8 * (4 - Profile.exposure_preference)

\* nearest_shove_hazard: what the opponent at `at` could be shoved into, by
\* distance, then by source (hole, lethal body, end of the hill), then by id;
\* `away` points from the hazard, or inwards from an edge.
shove_hazards(o, at) ==
    {<<Distance(h, at), 0, h, Direction(at - h)>> : h \in Holes \ {at}}
    \cup {<<Distance(l, at), 2, l, Direction(at - l)>> : l \in o.lethal \ {at}}
    \cup (IF o.schema = "hill" /\ o.place # at /\ Distance(o.place, at) <= o.radius
          THEN {<<o.radius - Distance(o.place, at), 3, 0, Direction(o.place - at)>>} ELSE {})

shove_hazard_precedes(g, h) ==
    \/ g[1] < h[1]
    \/ g[1] = h[1] /\ (g[2] < h[2] \/ (g[2] = h[2] /\ g[3] < h[3]))

nearest_shove_hazard(hazards) ==
    CHOOSE h \in hazards : \A g \in hazards \ {h} : shove_hazard_precedes(h, g)

\* shove_setup: beside each near opponent that is open enough and has
\* something behind it, on the side away from it.
Standoff == 2 * BodyRadius + 1
shove_setup(o) ==
    IF weight_of("shove_setup") = 0 THEN {}
    ELSE {LET hazard == nearest_shove_hazard(shove_hazards(o, a.at))
              target == a.at + hazard[4] * Standoff
          IN  [Candidate("shove_setup", a.id, target, 1, Distance(o.self, target))
                 EXCEPT !.opening = shove_opening(shove_exposure(a))] :
          a \in {b \in nearest_opponents(o) :
                    /\ shove_opening(shove_exposure(b)) >= Profile.minimum_opening
                    /\ shove_hazards(o, b.at) # {}}}

---------------------------------------------------------------------------
(* Screening, and the choice among what it leaves.                         *)

\* How far a body can get within the profile's horizon.
horizon_reach(o) ==
    LET travelled == o.top_speed * Profile.horizon IN IF travelled < Width THEN travelled ELSE Width

\* The ground ends within the horizon beyond this candidate.
horizon_exits_support(o, c) ==
    /\ horizon_reach(o) > 0 /\ o.self # c.target
    /\ support_exits(o.self, Direction(c.target - o.self) * horizon_reach(o)) # {}

\* collect_tactical_objective_candidates: the mode's provider, then the
\* unconditional one, then only what can be reached over ground.
collect_tactical_objective_candidates(o) ==
    LET raw == CASE o.schema = "hill"   -> circles(o, "hill")
                 [] o.schema = "royale" -> circles(o, "zone")
                 [] o.schema = "race"   -> race(o)
        merged == IF raw.disposition = "ready" THEN raw.candidates \cup shove_setup(o) ELSE {}
    IN  [disposition |-> raw.disposition,
         candidates |-> {[c EXCEPT !.blocked = horizon_exits_support(o, c)] :
                           c \in {d \in merged : /\ terrain_supports_point(d.target)
                                                 /\ support_exits(o.self, d.target - o.self) = {}}}]

\* tactical_candidate_score: what the objective weighs, times how near and how
\* open it is; less a penalty for a risk the profile does not tolerate; more
\* for the target already held (kTacticalHeldTargetBonus is 1/8).
One == 128 * Width
tactical_candidate_score(c, held) ==
    weight_of(c.key[1]) * (Width - Min({c.distance, Width})) * c.opening
    - (IF c.blocked THEN (4 - Profile.risk) * (One \div 4) ELSE 0)
    + (IF held = c.key THEN One \div 8 ELSE 0)

\* tactical_candidate_precedes: nearer first, then by key.
tactical_candidate_precedes(c, d) ==
    \/ c.distance < d.distance
    \/ /\ c.distance = d.distance
       /\ \/ kind_ordinal(c.key[1]) < kind_ordinal(d.key[1])
          \/ c.key[1] = d.key[1] /\ c.key[2] < d.key[2]

tactical_select_candidate(candidates, held) ==
    CHOOSE c \in candidates : \A d \in candidates \ {c} :
        LET mine == tactical_candidate_score(c, held) IN
        LET theirs == tactical_candidate_score(d, held) IN
            mine > theirs \/ (mine = theirs /\ tactical_candidate_precedes(c, d))

---------------------------------------------------------------------------
(* The two combat tests.                                                   *)

\* tactical_shove_opponent_body: the opponent a shove is about.
shove_opponents(o, c) == {a \in o.opponents : c.key = <<"shove_setup", a.id>>}

\* tactical_charge_screen_admits: the ground goes on until the opponent.
tactical_charge_screen_admits(o, a) ==
    LET ray == Width * Profile.screen
        exits == support_exits(o.self, Direction(a.at - o.self) * (ray \div 4))
    IN  \/ ray = 0 \/ exits = {}
        \/ Min(exits) > Distance(o.self, a.at) - 2 * BodyRadius

\* tactical_charge_alignment_admits: sideways speed is at most half the
\* published ceiling.
tactical_charge_alignment_admits(o) == 2 * Absolute(o.sideways) <= o.top_speed

\* tactical_opponent_closes_to_contact: where everyone will be when the
\* anticipation window ends.
tactical_opponent_closes_to_contact(o) ==
    /\ Profile.anticipation > 0
    /\ \E a \in o.opponents :
          Distance(o.self + o.velocity * Profile.anticipation, a.at + a.velocity * Profile.anticipation)
              <= 2 * BodyRadius
===========================================================================
