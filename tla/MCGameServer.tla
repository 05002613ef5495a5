--------------------------- MODULE MCGameServer ---------------------------
(* A trusted proxy in front of two clients, one of which only asks and one *)
(* of which opens sessions; a request whose target is too long has neither.*)
EXTENDS GameServer

MCSockets == {"proxy"}

Plain == [faults |-> {}, target |-> "config", forwarded |-> "asker", has_origin |-> TRUE,
          upgrade |-> FALSE, keep_alive |-> TRUE]

MCRequests ==
    {Plain,
     [Plain EXCEPT !.faults = {"target_size"}],
     [Plain EXCEPT !.target = "session_v3", !.upgrade = TRUE, !.forwarded = "player"]}
====
