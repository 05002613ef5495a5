------------------------------ MODULE Terrain ------------------------------
(***************************************************************************)
(* What a map may author as terrain                                        *)
(* (src/src/simulation/terrain_definition.cpp), what the welcome carries   *)
(* of it and what a frame may carry (src/src/protocol).  One axis: a point *)
(* is one coordinate.  A number is an integer or NegativeZero, which is    *)
(* equal to zero everywhere except on the wire.                            *)
(***************************************************************************)
EXTENDS Integers, Sequences, Functions

CONSTANTS
    MaximumWorldDimension,      \* kMaximumWorldDimension
    MaximumTerrainShapes,       \* kMaximumTerrainCorridorCount, ..HoleCount
    MaximumTerrainPoints,       \* kMaximumTerrainPointCount
    MaximumTerrainSegments,     \* kMaximumTerrainSegmentCount
    ShapeNames                  \* the names of wire kind form

ASSUME TerrainAssumption == MaximumWorldDimension \in Nat

NegativeZero == -1000
Value(x) == IF x = NegativeZero THEN 0 ELSE x
Total(counts) == FoldFunction(+, 0, counts)
DistinctNames(shapes) == \A i, j \in DOMAIN shapes : shapes[i].name = shapes[j].name => i = j

\* What a map's files say, whether it is accepted or not.
TerrainGiven(t) ==
    /\ t.extent \in Int /\ t.ground \in {"solid", "corridors"}
    /\ t.corridors \in Seq([name : STRING, half_width : Int, points : Seq(Int)])
    /\ t.holes \in Seq([name : STRING, center : Int, radius : Int])

require_terrain_extent(x) == Value(x) > 0 /\ Value(x) <= MaximumWorldDimension

\* TerrainCorridor::create
corridor_accepted(c) ==
    /\ c.name \in ShapeNames /\ require_terrain_extent(c.half_width)
    /\ Len(c.points) >= 2 /\ Len(c.points) <= MaximumTerrainPoints /\ Len(c.points) - 1 <= MaximumTerrainSegments
    /\ \A i \in 2 .. Len(c.points) : Value(c.points[i]) # Value(c.points[i - 1])

\* TerrainHole::create
hole_accepted(h) == h.name \in ShapeNames /\ require_terrain_extent(h.radius)

\* ArenaBounds::contains
Within(t, x) == Value(x) \in 0 .. t.extent

PointCounts(corridors) == [i \in DOMAIN corridors |-> Len(corridors[i].points)]
SegmentCounts(corridors) == [i \in DOMAIN corridors |-> Len(corridors[i].points) - 1]

\* TerrainDefinition::create
terrain_accepted(t) ==
    /\ require_terrain_extent(t.extent)
    /\ t.ground = "solid" <=> t.corridors = <<>>
    /\ Len(t.corridors) <= MaximumTerrainShapes /\ Len(t.holes) <= MaximumTerrainShapes
    /\ \A i \in DOMAIN t.corridors : corridor_accepted(t.corridors[i])
    /\ \A i \in DOMAIN t.holes : hole_accepted(t.holes[i])
    /\ Total(PointCounts(t.corridors)) <= MaximumTerrainPoints
    /\ Total(SegmentCounts(t.corridors)) <= MaximumTerrainSegments
    /\ DistinctNames(t.corridors) /\ DistinctNames(t.holes)
    /\ \A i \in DOMAIN t.corridors : \A p \in DOMAIN t.corridors[i].points : Within(t, t.corridors[i].points[p])
    /\ \A i \in DOMAIN t.holes : Within(t, t.holes[i].center)

---------------------------------------------------------------------------
(* The wire.                                                               *)

\* A whole number goes out as an integer, which has no negative zero.
encode_json_number(x) == Value(x)

encode_terrain(t) ==
    [extent |-> encode_json_number(t.extent), ground |-> t.ground,
     corridors |-> [i \in DOMAIN t.corridors |->
        [name |-> t.corridors[i].name, half_width |-> encode_json_number(t.corridors[i].half_width),
         points |-> [p \in DOMAIN t.corridors[i].points |-> encode_json_number(t.corridors[i].points[p])]]],
     holes |-> [i \in DOMAIN t.holes |->
        [name |-> t.holes[i].name, center |-> encode_json_number(t.holes[i].center),
         radius |-> encode_json_number(t.holes[i].radius)]]]

\* terrain_number: on the wire a negative zero is not a coordinate.
terrain_number(x, positive) ==
    x # NegativeZero /\ x <= MaximumWorldDimension /\ IF positive THEN x > 0 ELSE x >= 0
terrain_point(t, x) == terrain_number(x, FALSE) /\ x <= t.extent
terrain_names_conform(shapes) ==
    /\ Len(shapes) <= MaximumTerrainShapes
    /\ \A i \in DOMAIN shapes : shapes[i].name \in ShapeNames /\ \A j \in 1 .. i - 1 : shapes[j].name # shapes[i].name

has_negative_zero_token(t) ==
    \/ \E i \in DOMAIN t.corridors : \E p \in DOMAIN t.corridors[i].points : t.corridors[i].points[p] = NegativeZero
    \/ \E i \in DOMAIN t.holes : t.holes[i].center = NegativeZero

welcome_terrain_conforms(t) ==
    /\ terrain_number(t.extent, TRUE)
    /\ t.ground \in {"solid", "corridors"}
    /\ t.ground = "solid" => t.corridors = <<>>
    /\ t.ground = "corridors" => t.corridors # <<>>
    /\ terrain_names_conform(t.corridors) /\ terrain_names_conform(t.holes)
    /\ Total(PointCounts(t.corridors)) <= MaximumTerrainPoints
    /\ Total(SegmentCounts(t.corridors)) <= MaximumTerrainSegments
    /\ \A i \in DOMAIN t.corridors :
          LET c == t.corridors[i] IN
          /\ terrain_number(c.half_width, TRUE) /\ Len(c.points) >= 2
          /\ \A p \in DOMAIN c.points : terrain_point(t, c.points[p])
          /\ \A p \in 2 .. Len(c.points) : c.points[p] # c.points[p - 1]
    /\ \A i \in DOMAIN t.holes : terrain_number(t.holes[i].radius, TRUE) /\ terrain_point(t, t.holes[i].center)
===========================================================================
