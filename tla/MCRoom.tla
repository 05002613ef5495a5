------------------------------ MODULE MCRoom ------------------------------
(* Room on a small instance. *)
EXTENDS Room
====
