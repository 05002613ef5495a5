----------------------------- MODULE HillRules -----------------------------
(***************************************************************************)
(* King of the hill (src/src/gameplay/king_of_the_hill): where the hill is *)
(* and who scores.  The arena has one axis here: hill_roaming treats the   *)
(* two alike and independently.  Positions are integers; the markers of a  *)
(* tour lie a multiple of HillTravel apart, so that the interpolated stops *)
(* are integers as well.                                                   *)
(***************************************************************************)
EXTENDS Integers, FiniteSets, Sequences

CONSTANTS
    ArenaWidth,         \* ArenaBounds::width
    HillMarkers,        \* hill_markers(map), in map order
    HillDwell, HillTravel,
    HillSpeed,          \* largest distance the hill roams in one tick
    RetargetMinimum, RetargetMaximum,
    PointInterval, PointsToWin,
    ContestedHillScores \* contested_hill_scores

ASSUME HillAssumption ==
    /\ ArenaWidth \in Nat \ {0} /\ HillMarkers \in Seq(0 .. ArenaWidth) /\ HillMarkers # <<>>
    /\ HillDwell \in Nat /\ HillTravel \in Nat /\ HillDwell + HillTravel > 0 /\ HillSpeed \in Nat
    /\ RetargetMinimum \in Nat \ {0} /\ RetargetMaximum \in Nat /\ RetargetMaximum >= RetargetMinimum
    /\ PointInterval \in Nat /\ PointsToWin \in Nat \ {0}
    /\ ContestedHillScores \in BOOLEAN

\* The hill of a policy: its centre and, when it roams, its velocity and the
\* ticks until it takes the next one (none before it took the first).
NoSchedule == -1
HillAt(center) == [center |-> center, velocity |-> 0, left |-> NoSchedule]
FirstMarker == HillMarkers[1]

\* The stop of the tour the hill is at or leaves after so many ticks.
Stop(elapsed) == (elapsed \div (HillDwell + HillTravel)) % Len(HillMarkers)

\* marker_tour: dwell at a marker, then travel to the next in a straight line.
hill_center(elapsed) ==
    LET from == HillMarkers[Stop(elapsed) + 1]
        to == HillMarkers[((Stop(elapsed) + 1) % Len(HillMarkers)) + 1]
        into == elapsed % (HillDwell + HillTravel)
    IN IF Len(HillMarkers) = 1 \/ into < HillDwell THEN from
       ELSE from + ((to - from) * (into - HillDwell)) \div HillTravel

\* An axis that would leave the arena stays where it was and stops; one that
\* arrives at an edge stops there.
cancel_boundary_axis(hill) ==
    LET proposed == hill.center + hill.velocity
    IN IF proposed < 0 \/ proposed > ArenaWidth THEN [hill EXCEPT !.velocity = 0]
       ELSE IF (proposed = 0 /\ hill.velocity < 0) \/ (proposed = ArenaWidth /\ hill.velocity > 0)
            THEN [hill EXCEPT !.center = proposed, !.velocity = 0]
            ELSE [hill EXCEPT !.center = proposed]

\* What the hill's random stream may select.
sample_hill_roam ==
    {[velocity |-> v, left |-> t - 1] : v \in -HillSpeed .. HillSpeed,
                                        t \in RetargetMinimum .. RetargetMaximum}

\* random_roam in a running match: take a new course when the deadline is
\* reached, and then advance.
RoamsTo(hill) ==
    IF hill.left \in {NoSchedule, 0}
    THEN {cancel_boundary_axis([hill EXCEPT !.velocity = s.velocity, !.left = s.left]) : s \in sample_hill_roam}
    ELSE {cancel_boundary_axis([hill EXCEPT !.left = @ - 1])}

\* hill_movement under either policy, given the phase and the ticks the match
\* has run: everything the hill may be after this tick.
hill_movement(policy, hill, phase, elapsed) ==
    CASE policy = "marker_tour" -> {HillAt(hill_center(elapsed))}
      [] policy = "random_roam" /\ phase \in {"lobby", "countdown"} -> {HillAt(FirstMarker)}
      [] policy = "random_roam" /\ phase = "ended" -> {hill}
      [] policy = "random_roam" /\ phase = "running" -> RoamsTo(hill)

\* Whether anybody scores with these players inside.
hill_scores(inside) == ContestedHillScores \/ Cardinality(inside) <= 1

\* hill_scoring for one player on the field: leaving loses the partial point,
\* a contested hill freezes it.
hill_scoring(player, is_inside, inside) ==
    CASE ~ is_inside -> [player EXCEPT !.presence = 0]
      [] is_inside /\ ~ hill_scores(inside) -> player
      [] is_inside /\ hill_scores(inside) ->
            IF player.presence + 1 >= PointInterval
            THEN [player EXCEPT !.presence = 0, !.score = @ + 1]
            ELSE [player EXCEPT !.presence = @ + 1]

\* The participants with the most of something.
Leaders(participants, amount) ==
    {p \in participants : \A q \in participants : amount[q] <= amount[p]}

\* HillObjective::outcome: no result, or one: its winners, several or none of
\* whom make a draw.
hill_outcome(participants, score, elapsed, time_limit) ==
    CASE Cardinality(participants) <= 1 -> {participants}
      [] Cardinality(participants) > 1
            /\ (elapsed >= time_limit \/ \E p \in participants : score[p] >= PointsToWin) ->
            {Leaders(participants, score)}
      [] OTHER -> {}
====
