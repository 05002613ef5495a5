-------------------------- MODULE MCRoyaleMatch --------------------------
(* Instances of RoyaleMatch for TLC: the values are in the configurations. *)
EXTENDS RoyaleMatch

LobbyKinds == {"set_movement_tuning", "set_seat_count", "clear_seat", "seat_npc",
               "start_match", "join", "leave"}

\* The field's run tells states apart without the histories that neither an
\* action nor one of its two invariants reads.
FieldView == <<stage, cursor, roster, match, entities, eliminated, placements, left, field>>
MatchKinds == {"spawn", "despawn", "start_match", "join", "leave"}
====
