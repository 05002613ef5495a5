-------------------------- MODULE MCCommandMailbox --------------------------
(* CommandMailbox on small instances; one cfg per question. *)
EXTENDS CommandMailbox

\* An identity no exchange belongs to: an entity id, or a controller of another tick.
CONSTANT e1

MCKeys == Controllers \cup {e1}
=============================================================================
