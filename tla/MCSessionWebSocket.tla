----------------------- MODULE MCSessionWebSocket -----------------------
(* SessionWebSocket on small instances; one cfg per question. *)
EXTENDS SessionWebSocket
====
