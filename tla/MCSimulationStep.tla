-------------------------- MODULE MCSimulationStep --------------------------
(* An arena of five units of length; up to three bodies.                    *)
EXTENDS SimulationStep

Unit == 12
Places == {Unit * i : i \in 0 .. Width \div Unit}
MCEntities == 1 .. 4
MCSpeeds == {-2, 0, 1}
MCPit == <<2 * Unit, 3 * Unit>>
MCGates == <<0>>
MCMarkers == {Unit}

Driven(place) == Body(place, 0, 0, "folding")
Obstacle(place) == Body(place, 0, Unit, "static")
Supported(place) == ~ (MCPit[1] < place /\ place < MCPit[2])

\* Two driven bodies, and an obstacle or a third one or none, anywhere they may
\* stand; discs may overlap, centres do not coincide.
MCWorlds ==
    UNION {{<<Driven(a), Driven(b)>>}
           \cup {<<Driven(a), Driven(b), Obstacle(c)>> : c \in Places \ {a, b}}
           \cup {<<Driven(a), Driven(b), Driven(c)>> : c \in {p \in Places : Supported(p) /\ p > b}} :
               <<a, b>> \in {q \in Places \X Places : Supported(q[1]) /\ Supported(q[2]) /\ q[1] < q[2]}}
====
