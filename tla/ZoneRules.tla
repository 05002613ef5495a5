----------------------------- MODULE ZoneRules -----------------------------
(***************************************************************************)
(* Royale's safe zone (src/src/gameplay/royale/zone_*.cpp): a radius that  *)
(* is a function of the ticks the match has run, and the grace a player    *)
(* has outside it.  ZoneFull - ZoneMinimum is a multiple of ZoneShrink, so *)
(* that radii are integers.                                                *)
(***************************************************************************)
EXTENDS Integers

CONSTANTS
    ZoneFull, ZoneMinimum,  \* zone_full_radius, zone_minimum_radius
    ZoneShrink,             \* zone_shrink_ticks
    EliminationGrace        \* elimination_grace_ticks

ASSUME ZoneAssumption ==
    /\ ZoneMinimum \in Nat /\ ZoneFull \in Nat /\ ZoneFull >= ZoneMinimum
    /\ ZoneShrink \in Nat /\ EliminationGrace \in Nat

\* The held radius is the minimum itself, also when shrinking takes no time.
zone_radius(elapsed) ==
    IF elapsed >= ZoneShrink THEN ZoneMinimum
    ELSE ZoneFull - ((ZoneFull - ZoneMinimum) * elapsed) \div ZoneShrink

zone_shrink(phase, elapsed) ==
    IF phase \in {"lobby", "countdown"} THEN ZoneFull ELSE zone_radius(elapsed)

\* zone_elimination for one player: coming back inside forgets the grace used.
Exposed(player, is_outside) ==
    [player EXCEPT !.exposure = IF is_outside THEN @ + 1 ELSE 0]

\* Whether the exposure just counted is past the grace.
zone_elimination(player, is_outside) == is_outside /\ player.exposure + 1 >= EliminationGrace

\* RoyaleObjective::outcome, of those alive: no result, or one.
royale_outcome(alive) == IF \E p, q \in alive : p # q THEN {} ELSE {alive}
====
