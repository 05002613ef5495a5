------------------------ MODULE MCSnapshotStreams ------------------------
(* SnapshotStreams on a small instance. *)
EXTENDS SnapshotStreams
====
