-------------------------- MODULE CommandDecoding --------------------------
(***************************************************************************)
(* A client's frame becomes a command, or is rejected for one reason       *)
(* (src/src/protocol/command_decoding.cpp), and what the published v3      *)
(* schemas say about the same frame.                                       *)
(*                                                                         *)
(* A JSON value is [t |-> type, n |-> number, s |-> text]; type is "int",  *)
(* "double", "infinite", "text", "bool" (n is 0 or 1), "null" or "array".  *)
(* An object is a function from its member names.  Numbers are small: the  *)
(* bounds are CONSTANTS.  A decoder returns the set of the command it      *)
(* decodes, empty where the code answers kPayloadInvalid; a command keeps  *)
(* the wire names of its members, and Absent where one was not given.      *)
(***************************************************************************)
EXTENDS Integers, FiniteSets

CONSTANTS
    SafeInteger,                \* kMaximumSafeInteger
    LobbySeatCountMaximum,      \* kLobbySeatCountMaximum
    NpcCatalogue,               \* <<kind, profile>> pairs, profile Plain when there is none
    WireKindNames,              \* what is_wire_kind_name accepts
    StampedEntity, StampedController,
    Frames                      \* the frames clients may send

VARIABLES
    accepts,    \* the mask of the room's mode: its accepted_command_kinds
    frame,      \* the frame the session has read, NoFrame between two
    answer      \* the CommandDecodeResult for it

wireVars == <<accepts, frame, answer>>

Absent == -1
Plain == "no profile"

\* A payload whose values are all of one shape.
Json(type, number, text) == [t |-> type, n |-> number, s |-> text]
Integer(n) == Json("int", n, "")
Text(s) == Json("text", 0, s)
Null == Json("null", 0, "")

\* A JSON value: a text is never Plain, which stands for no text at all.
JsonGiven(v) ==
    \/ v.t \in {"int", "double"} /\ v.n \in Int /\ v = Json(v.t, v.n, "")
    \/ v.t = "bool" /\ v.n \in {0, 1} /\ v = Json("bool", v.n, "")
    \/ v.t = "text" /\ v.s # Plain /\ v = Text(v.s)
    \/ v.t \in {"infinite", "null", "array"} /\ v = Json(v.t, 0, "")

ASSUME DecodingAssumption ==
    /\ SafeInteger \in Nat /\ LobbySeatCountMaximum \in 1 .. SafeInteger
    /\ \A c \in NpcCatalogue : c = <<c[1], c[2]>>
    /\ \A f \in Frames : /\ {f.fits, f.parses, f.object} \subseteq BOOLEAN /\ IsFiniteSet(f.members)
                          /\ JsonGiven(f.kind) /\ IsFiniteSet(DOMAIN f.payload)
                          /\ \A m \in DOMAIN f.payload : JsonGiven(f.payload[m])

---------------------------------------------------------------------------
(* Values.                                                                 *)

finite_number_of(v) == IF v.t \in {"int", "double"} THEN {v.n} ELSE {}

bounded_unsigned_of(v, minimum, maximum) == IF v.t = "int" THEN {v.n} \cap minimum .. maximum ELSE {}

\* Two thrust components of magnitude at most one.
axis_of(v) == finite_number_of(v) \cap -1 .. 1

\* An input generation, or that there is none.
generation_of(p) ==
    IF "input_generation" \notin DOMAIN p THEN {Absent}
    ELSE bounded_unsigned_of(p.input_generation, 1, SafeInteger)

HasMembers(p, fields) == fields \subseteq DOMAIN p
Size(p) == Cardinality(DOMAIN p)
MemberCount(p, field) == IF field \in DOMAIN p THEN 1 ELSE 0

---------------------------------------------------------------------------
(* One decoder per kind.                                                   *)

\* Mutant of decode_set_thrust: braking, the newest member, is not counted.
ThrustWithoutBraking(p, entity) ==
    IF \/ Size(p) # 2 + MemberCount(p, "input_generation")
       \/ ~ HasMembers(p, {"x", "y"})
       \/ "braking" \in DOMAIN p /\ p.braking.t # "bool"
    THEN {}
    ELSE [kind : {"set_thrust"}, identity : {entity}, x : axis_of(p.x), y : axis_of(p.y),
          input_generation : generation_of(p),
          braking : IF "braking" \in DOMAIN p THEN {p.braking.n} ELSE {0}]

decode_set_thrust(p, entity) ==
    IF \/ Size(p) # 2 + MemberCount(p, "input_generation") + MemberCount(p, "braking")
       \/ ~ HasMembers(p, {"x", "y"})
       \/ "braking" \in DOMAIN p /\ p.braking.t # "bool"
    THEN {}
    ELSE [kind : {"set_thrust"}, identity : {entity}, x : axis_of(p.x), y : axis_of(p.y),
          input_generation : generation_of(p),
          braking : IF "braking" \in DOMAIN p THEN {p.braking.n} ELSE {0}]

\* The generation is given, as null when there is none.
decode_shield(p, entity) ==
    IF Size(p) # 1 \/ ~ HasMembers(p, {"input_generation"}) THEN {}
    ELSE [kind : {"shield"}, identity : {entity},
          input_generation : IF p.input_generation.t = "null" THEN {Absent} ELSE generation_of(p)]

decode_charge(p, entity) ==
    IF Size(p) # 2 + MemberCount(p, "input_generation") \/ ~ HasMembers(p, {"x", "y"}) THEN {}
    ELSE [kind : {"charge"}, identity : {entity}, x : axis_of(p.x), y : axis_of(p.y),
          input_generation : generation_of(p)]

decode_rotate_velocity(p, entity) ==
    IF \/ Size(p) # 1 + MemberCount(p, "input_generation") \/ ~ HasMembers(p, {"direction"})
       \/ p.direction.t # "text" \/ p.direction.s \notin {"left", "right"}
    THEN {}
    ELSE [kind : {"rotate_velocity"}, identity : {entity}, direction : {p.direction.s},
          input_generation : generation_of(p)]

decode_seat_index(v) == bounded_unsigned_of(v, 0, LobbySeatCountMaximum - 1)

decode_set_seat_count(p, controller) ==
    IF Size(p) # 1 \/ ~ HasMembers(p, {"seat_count"}) THEN {}
    ELSE [kind : {"set_seat_count"}, identity : {controller},
          seat_count : bounded_unsigned_of(p.seat_count, 1, LobbySeatCountMaximum)]

decode_clear_seat(p, controller) ==
    IF Size(p) # 1 \/ ~ HasMembers(p, {"seat_index"}) THEN {}
    ELSE [kind : {"clear_seat"}, identity : {controller}, seat_index : decode_seat_index(p.seat_index)]

\* The pair has to be in the room's catalogue, and its kind a wire name.
decode_seat_npc(p, controller) ==
    IF \/ Size(p) # 2 + MemberCount(p, "profile_name") \/ ~ HasMembers(p, {"seat_index", "npc_kind"})
       \/ p.npc_kind.t # "text"
       \/ "profile_name" \in DOMAIN p /\ p.profile_name.t # "text"
    THEN {}
    ELSE LET profile == IF "profile_name" \in DOMAIN p THEN p.profile_name.s ELSE Plain IN
         IF <<p.npc_kind.s, profile>> \notin NpcCatalogue \/ p.npc_kind.s \notin WireKindNames THEN {}
         ELSE [kind : {"seat_npc"}, identity : {controller}, seat_index : decode_seat_index(p.seat_index),
               npc_kind : {p.npc_kind.s}, profile_name : {profile}]

decode_start_match(p, controller) ==
    IF DOMAIN p # {} THEN {} ELSE {[kind |-> "start_match", identity |-> controller]}

\* Five scalars, each within the limits of its own; one of them stands for
\* the two spawn rates.
TuningLimits == [acceleration |-> <<1, 3>>, top_speed |-> <<1, 2>>, charge |-> <<0, 2>>, spawn_rate |-> <<0, 1>>]
scalar(p, field) == finite_number_of(p[field]) \cap TuningLimits[field][1] .. TuningLimits[field][2]
decode_set_movement_tuning(p, controller) ==
    IF Size(p) # 2 + Cardinality(DOMAIN TuningLimits)
       \/ ~ HasMembers(p, {"tuning_request_id", "expected_revision"} \cup DOMAIN TuningLimits)
    THEN {}
    ELSE [kind : {"set_movement_tuning"}, identity : {controller},
          tuning_request_id : bounded_unsigned_of(p.tuning_request_id, 1, SafeInteger),
          expected_revision : bounded_unsigned_of(p.expected_revision, 0, SafeInteger),
          acceleration : scalar(p, "acceleration"), top_speed : scalar(p, "top_speed"),
          charge : scalar(p, "charge"), spawn_rate : scalar(p, "spawn_rate")]

---------------------------------------------------------------------------
(* The envelope.                                                           *)

\* client_command_kind_of_wire_name: spawn, despawn, join and leave are
\* commands without a wire name.
EntityKinds == {"set_thrust", "shield", "charge", "rotate_velocity"}
ControllerCommands == {"set_seat_count", "clear_seat", "seat_npc", "start_match", "set_movement_tuning"}
ClientKinds == EntityKinds \cup ControllerCommands

\* decode_payload: the session's identity is stamped, never read.
decode_payload(kind, p) ==
    CASE kind = "set_thrust"          -> decode_set_thrust(p, StampedEntity)
      [] kind = "shield"              -> decode_shield(p, StampedEntity)
      [] kind = "charge"              -> decode_charge(p, StampedEntity)
      [] kind = "rotate_velocity"     -> decode_rotate_velocity(p, StampedEntity)
      [] kind = "set_seat_count"      -> decode_set_seat_count(p, StampedController)
      [] kind = "clear_seat"          -> decode_clear_seat(p, StampedController)
      [] kind = "seat_npc"            -> decode_seat_npc(p, StampedController)
      [] kind = "start_match"         -> decode_start_match(p, StampedController)
      [] kind = "set_movement_tuning" -> decode_set_movement_tuning(p, StampedController)

Rejected(reason) == [rejection |-> reason, command |-> {}]
Decoded(commands) == [rejection |-> "none", command |-> commands]

\* A frame: whether it fits, whether it parses as an object, the names of the
\* object's members, and the values of kind and payload.
decode_command_envelope(f) ==
    IF ~ f.fits THEN Rejected("too_large")
    ELSE IF ~ f.parses \/ Cardinality(f.members) # 2 \/ ~ {"kind", "payload"} \subseteq f.members \/ ~ f.object
         THEN Rejected("malformed")
    ELSE IF f.kind.t # "text" \/ f.kind.s \notin ClientKinds \cap accepts THEN Rejected("kind_rejected")
    ELSE LET commands == decode_payload(f.kind.s, f.payload) IN
         IF commands = {} THEN Rejected("payload_invalid") ELSE Decoded(commands)

---------------------------------------------------------------------------
(* The published schemas (docs/protocol/schema/v3).                        *)

RequiredMembers ==
    [set_thrust |-> {"x", "y"}, shield |-> {"input_generation"}, charge |-> {"x", "y"},
     rotate_velocity |-> {"direction"}, set_seat_count |-> {"seat_count"}, clear_seat |-> {"seat_index"},
     seat_npc |-> {"seat_index", "npc_kind"}, start_match |-> {},
     set_movement_tuning |-> {"tuning_request_id", "expected_revision", "acceleration", "top_speed", "charge",
                              "spawn_rate"}]
OptionalMembers(kind) ==
    CASE kind = "set_thrust" -> {"input_generation", "braking"}
      [] kind \in {"charge", "rotate_velocity"} -> {"input_generation"}
      [] kind = "seat_npc" -> {"profile_name"}
      [] OTHER -> {}

\* The values a member may have.
Whole(v, minimum, maximum) == v.t = "int" /\ v.n \in minimum .. maximum
Number(v, minimum, maximum) == v.t \in {"int", "double"} /\ v.n \in minimum .. maximum
SchemaAdmits(kind, member, v) ==
    CASE member \in {"x", "y"}            -> Number(v, -1, 1)
      [] member = "input_generation"      -> Whole(v, 1, SafeInteger) \/ (kind = "shield" /\ v = Null)
      [] member = "braking"               -> v.t = "bool"
      [] member = "direction"             -> v \in {Text("left"), Text("right")}
      [] member = "seat_count"            -> Whole(v, 1, LobbySeatCountMaximum)
      [] member = "seat_index"            -> Whole(v, 0, LobbySeatCountMaximum - 1)
      [] member \in {"npc_kind", "profile_name"} -> v.t = "text"
      [] member = "tuning_request_id"     -> Whole(v, 1, SafeInteger)
      [] member = "expected_revision"     -> Whole(v, 0, SafeInteger)
      [] member = "acceleration"          -> Number(v, 1, 3)
      [] member = "top_speed"             -> Number(v, 1, 2)
      [] member = "charge"                -> Number(v, 0, 2)
      [] member = "spawn_rate"            -> Number(v, 0, 1)

Declares(p) ==
    \E c \in NpcCatalogue : /\ p.npc_kind = Text(c[1]) /\ c[1] \in WireKindNames
                            /\ IF c[2] = Plain THEN "profile_name" \notin DOMAIN p
                               ELSE "profile_name" \in DOMAIN p /\ p.profile_name = Text(c[2])
SchemaValid(kind, p) ==
    /\ RequiredMembers[kind] \subseteq DOMAIN p
    /\ DOMAIN p \subseteq RequiredMembers[kind] \cup OptionalMembers(kind)
    /\ \A member \in DOMAIN p : SchemaAdmits(kind, member, p[member])
    /\ kind = "seat_npc" => Declares(p)

\* What a member of the command says: the value given, or the default.
Meaning(member, v) == IF v.t = "text" THEN <<v.s>> ELSE IF v.t = "null" THEN <<Absent>> ELSE <<v.n>>
Default(member) == CASE member = "braking" -> <<0>> [] member = "profile_name" -> <<Plain>> [] OTHER -> <<Absent>>
Says(kind, p, command) ==
    /\ command.kind = kind
    /\ command.identity = IF kind \in EntityKinds THEN StampedEntity ELSE StampedController
    /\ \A member \in RequiredMembers[kind] \cup OptionalMembers(kind) :
          <<command[member]>> = IF member \in DOMAIN p THEN Meaning(member, p[member]) ELSE Default(member)

---------------------------------------------------------------------------
(* A session reads its frames one after another.                           *)

NoFrame == [fits |-> FALSE, parses |-> FALSE, members |-> {}, object |-> FALSE, kind |-> Null, payload |-> <<>>]

WireInit(masks) == accepts \in masks /\ frame = NoFrame /\ answer = Rejected("none")

ReadFrame ==
    /\ frame = NoFrame
    /\ frame' \in Frames
    /\ answer' = decode_command_envelope(frame')
    /\ UNCHANGED accepts

\* The session has applied or refused it, and reads on.
FrameHandled == frame # NoFrame /\ frame' = NoFrame /\ answer' = Rejected("none") /\ UNCHANGED accepts

WireNext == ReadFrame \/ FrameHandled
WireSpec == WireInit(SUBSET ClientKinds) /\ [][WireNext]_wireVars

\* A frame is accepted exactly when its envelope and its payload are valid
\* under the published schemas and the room accepts its kind, and the command
\* then says what the members say, the defaults for those left out, and the
\* session's own identity (command_decoding.cpp counts members by hand, once
\* per kind, where the schema says additionalProperties: false).
DecoderMatchesSchema ==
    frame # NoFrame =>
      LET valid == /\ frame.fits /\ frame.parses /\ frame.object /\ frame.members = {"kind", "payload"}
                   /\ frame.kind.t = "text" /\ frame.kind.s \in ClientKinds \cap accepts
                   /\ SchemaValid(frame.kind.s, frame.payload)
      IN  IF valid THEN \E c \in answer.command : answer = Decoded({c}) /\ Says(frame.kind.s, frame.payload, c)
          ELSE answer.command = {} /\ answer.rejection # "none"
===========================================================================
