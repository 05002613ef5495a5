----------------------- MODULE MCSimulationRuntime -----------------------
(* SimulationRuntime on small instances; one cfg per question. *)
EXTENDS SimulationRuntime
=============================================================================
