---------------------------- MODULE SpatialIndex ----------------------------
(***************************************************************************)
(* Bodies and the uniform grid over them (src/src/simulation:              *)
(* physics_body, motion_body_envelope, spatial_grid), on one axis: rows    *)
(* and columns are covered alike and independently.  Lengths are integers. *)
(***************************************************************************)
EXTENDS Integers, FiniteSets

CONSTANTS
    Width,              \* ArenaBounds::width
    Cells,              \* spatial_grid_columns
    PlayerRadius        \* SimulationConfig::player_radius

ASSUME IndexAssumption ==
    /\ Width \in Nat \ {0} /\ Cells \in 1 .. Width /\ PlayerRadius \in Nat \ {0}

\* A PhysicsBody: what the index and the solver read of it.  Radius 0 is an
\* undeclared one.
Body(position, velocity, radius, kind) ==
    [position |-> position, velocity |-> velocity, radius |-> radius, kind |-> kind]

Kinds == {"folding", "crossing", "static"}
Bodies == [position : Int, velocity : Int, radius : Nat, kind : Kinds]
is_static(body) == body.kind = "static"
crosses_bounds(body) == body.kind = "crossing"

effective_radius(body) == IF body.radius = 0 THEN PlayerRadius ELSE body.radius

InArena(position) == position \in 0 .. Width

\* Whether the body has a legal motion envelope: a crossing body has any.
fits_envelope(body) ==
    CASE is_static(body) -> InArena(body.position)
      [] crosses_bounds(body) -> TRUE
      [] OTHER -> /\ InArena(body.position) /\ Width >= 2 * effective_radius(body)
                  /\ Width = 2 * effective_radius(body) => body.velocity = 0

\* The edge between two cells, and the part of the arena that a closed cell is.
internal_boundary(index) == (Width * index) \div Cells
Cell(c) == internal_boundary(c) .. internal_boundary(c + 1)

\* How far a disc reaches beyond its radius: the tolerance of the narrow phase.
Padding == 1

\* Mutant of body_coverage: a body outside the arena is left out.
CoverageInsideOnly(body) ==
    LET reach == effective_radius(body) + Padding
    IN {c \in 0 .. Cells - 1 : /\ internal_boundary(c + 1) >= body.position - reach
                               /\ internal_boundary(c) <= body.position + reach}

\* The cells a disc is in.  Outside the arena it is in the nearest ones.
body_coverage(body) ==
    LET reach == effective_radius(body) + Padding
        clamped(x) == IF x < 0 THEN 0 ELSE IF x > Width THEN Width ELSE x
    IN {c \in 0 .. Cells - 1 : /\ internal_boundary(c + 1) >= clamped(body.position - reach)
                               /\ internal_boundary(c) <= clamped(body.position + reach)}

\* build_cells: the members of each cell.
build_cells(bodies) ==
    [c \in 0 .. Cells - 1 |-> {e \in DOMAIN bodies : c \in body_coverage(bodies[e])}]

\* build_candidate_pairs: every pair seen in some cell, once.
build_candidate_pairs(cells) ==
    UNION {{pair \in SUBSET cells[c] : Cardinality(pair) = 2} : c \in DOMAIN cells}

\* SpatialGrid::create and rebuilt, which fails if a body has no envelope.
CanIndex(bodies) == \A e \in DOMAIN bodies : fits_envelope(bodies[e])
rebuilt(bodies) == [cells |-> build_cells(bodies), pairs |-> build_candidate_pairs(build_cells(bodies))]

\* pair_contact_distance.
contact_distance(first, second) == effective_radius(first) + effective_radius(second)

Touch(first, second) ==
    LET apart == first.position - second.position
    IN (IF apart < 0 THEN -apart ELSE apart) <= contact_distance(first, second)
====
