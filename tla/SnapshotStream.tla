-------------------------- MODULE SnapshotStream --------------------------
(***************************************************************************)
(* What a WebSocket connection promises its peer, whichever protocol it    *)
(* speaks: it opens once; a protocol v3 stream says its welcome before     *)
(* anything else; then come snapshots, each the newest published when it   *)
(* was put on the wire and newer than every one before it, one frame at a  *)
(* time; once the connection has decided to close, nothing but the frame   *)
(* in flight and the close frame follows; and after the end, nothing.      *)
(*                                                                         *)
(* SessionWebSocket (v3) and every stream of SnapshotStreams (v1 and v3)   *)
(* implement it.                                                           *)
(***************************************************************************)
EXTENDS Integers

CONSTANTS
    MaxTick,     \* bound: ticks published in a behaviour
    Welcomes     \* whether a welcome precedes the snapshots

VARIABLES
    published,   \* the tick of the latest published snapshot
    phase,       \* connecting, open, closing, over
    welcomed,    \* the peer has its welcome, or the protocol has none
    last,        \* the newest tick the peer has, or 0
    wire         \* the frame being written: none, welcome, close or a tick

vars == <<published, phase, welcomed, last, wire>>

NoFrame == 0
Welcome == -1
CloseFrame == -2

Init ==
    /\ published = 1
    /\ phase = "connecting"
    /\ welcomed = ~ Welcomes
    /\ last = 0
    /\ wire = NoFrame

Publish ==
    /\ published < MaxTick
    /\ published' = published + 1
    /\ UNCHANGED <<phase, welcomed, last, wire>>

Open ==
    /\ phase = "connecting"
    /\ phase' = "open"
    /\ UNCHANGED <<published, welcomed, last, wire>>

Begin ==
    /\ phase = "open" /\ wire = NoFrame
    /\ IF welcomed THEN published > last /\ wire' = published ELSE wire' = Welcome
    /\ UNCHANGED <<published, phase, welcomed, last>>

\* The frame has left; a close that waited for it may go out at once.
Sent ==
    /\ wire \notin {NoFrame, CloseFrame}
    /\ welcomed' = TRUE
    /\ last' = IF wire = Welcome THEN last ELSE wire
    /\ wire' \in {NoFrame} \cup (IF phase = "closing" THEN {CloseFrame} ELSE {})
    /\ UNCHANGED <<published, phase>>

Close ==
    /\ phase \in {"connecting", "open"}
    /\ phase' = "closing"
    /\ wire' \in {wire} \cup (IF wire = NoFrame THEN {CloseFrame} ELSE {})
    /\ UNCHANGED <<published, welcomed, last>>

SayClose ==
    /\ phase = "closing" /\ wire = NoFrame
    /\ wire' = CloseFrame
    /\ UNCHANGED <<published, phase, welcomed, last>>

\* The connection is gone, from whatever state; a frame in flight is lost.
End ==
    /\ phase # "over"
    /\ phase' = "over"
    /\ wire' = NoFrame
    /\ UNCHANGED <<published, welcomed, last>>

Next == Publish \/ Open \/ Begin \/ Sent \/ Close \/ SayClose \/ End

Spec == Init /\ [][Next]_vars
====
