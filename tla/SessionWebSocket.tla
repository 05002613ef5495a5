------------------------- MODULE SessionWebSocket -------------------------
(***************************************************************************)
(* One protocol v3 connection: SessionWebSocketSession                     *)
(* (src/src/server/session_websocket_session.cpp) with its                 *)
(* SnapshotDeliveryState, from the upgrade to its last handler.            *)
(*                                                                         *)
(* Everything runs on the server's one event loop, so a handler is one     *)
(* action.  What can go wrong is the order: a handler that asio has        *)
(* already queued still runs, with the result it was queued with, after    *)
(* another handler has cancelled its timer, closed the socket or finished  *)
(* the session.  So an asynchronous operation is "pending" until its       *)
(* result is queued ("ok" or "error"), and a timer is armed until its      *)
(* handler is queued ("fired"); cancelling touches what is pending or      *)
(* armed, and never what is queued.                                        *)
(*                                                                         *)
(* Around the session: the publication (whose snapshots say whether the    *)
(* session's controller has a body and whether others fill the lobby), the *)
(* egress budget (grants a reservation or queues the session), the peer    *)
(* (may fall silent, and may stop reading, so that a write never           *)
(* completes), and the server, which stops gracefully, then at once.       *)
(*                                                                         *)
(* The session is a record and the source's member functions are functions *)
(* of it, so that a handler is their composition, in the source's order.   *)
(* Left out: the bytes of frames and messages, message sequence numbers,   *)
(* the cadence arithmetic of presentation deadlines, logging.              *)
(***************************************************************************)
EXTENDS Integers, FiniteSets

CONSTANT
    MaxTick      \* bound: ticks published in a behaviour

ASSUME SessionAssumption == MaxTick \in Nat \ {0}

VARIABLES
    session,   \* the SessionWebSocketSession
    latest,    \* the tick of the latest published snapshot
    server     \* ServerExecutionContext: serving, stopping, stopped

vars == <<session, latest, server>>

\* async_accept, async_read, async_write of data, async_ping, async_close.
Operations == {"accept", "read", "write", "ping", "close"}
OperationStates == {"none", "pending", "ok", "error"}
Timers == {"presentation", "deadline", "idle", "pong"}
\* CloseIntent; what the transport refuses is one intent here, and so is what
\* admit_client_command refuses.
Intents == {"none", "server_shutdown", "peer_timeout", "protocol_error",
            "control_rate_exceeded", "command_rejected", "internal_failure",
            "slow_consumer", "service_not_ready", "lobby_full"}

Ticks == 0 .. MaxTick

\* The members that decide control.  Three of the source's flags are read off
\* the operations: control_write_active_ is a ping outstanding,
\* snapshot_write_operation_active_ a write outstanding, idle_wait_active_ an
\* idle wait armed or fired.  An empty optional tick or snapshot is 0.
Session ==
    [op : [Operations -> OperationStates],
     armed : SUBSET Timers,
     fired : SUBSET Timers,
     posted : SUBSET {"control_rate", "fail"},  \* asio::post, ServerExecutionContext::fail
     registered : BOOLEAN,                      \* session_id_
     controller : BOOLEAN,                      \* controller_
     left_match : BOOLEAN,
     welcome_write_active : BOOLEAN,
     welcome_delivered : BOOLEAN,
     pending : Ticks, active : Ticks, delivered : Ticks,  \* SnapshotDeliveryState
     lease : BOOLEAN,                           \* active_egress_lease_ and the payload
     queued : BOOLEAN,                          \* waiting in the egress budget
     waiting_for_pong : BOOLEAN,
     heard : BOOLEAN,                           \* a frame came since the idle wait was armed
     intent : Intents,                          \* requested_close_intent_
     close_requested : BOOLEAN,
     close_started : BOOLEAN,
     finished : BOOLEAN]

data_write_active(s) == s.welcome_write_active \/ s.active # 0
control_write_active(s) == s.op["ping"] # "none"

\* open_session has been called on the sink and close_session has not.
InMatch(s) == s.controller /\ ~ s.left_match

---------------------------------------------------------------------------
(* Member functions.                                                       *)

\* The operation's handler runs: it is no longer outstanding.
Done(s, o) == [s EXCEPT !.op[o] = "none"]
Ran(s, t) == [s EXCEPT !.fired = @ \ {t}]

\* expires_at, expires_after and async_wait; timer.cancel.
Arm(s, t) == [s EXCEPT !.armed = @ \cup {t}]
cancel_timer(s, T) == [s EXCEPT !.armed = @ \ T]

close_socket(s) ==
    [s EXCEPT !.op = [o \in Operations |-> IF @[o] = "pending" THEN "error" ELSE @[o]]]

leave_match(s) == [s EXCEPT !.left_match = @ \/ s.controller]

\* Mutant of release_unless_written: the payload goes although its write runs.
ReleaseAtOnce(s) == [s EXCEPT !.lease = FALSE]

\* finish releases the payload unless a write still reads it.
release_unless_written(s) == [s EXCEPT !.lease = @ /\ s.op["write"] # "none"]

finish(s) ==
    IF s.finished THEN s
    ELSE release_unless_written(
           [close_socket(leave_match(s)) EXCEPT
              !.finished = TRUE, !.armed = {}, !.pending = 0, !.active = 0,
              !.queued = FALSE, !.registered = FALSE])

begin_close(s) ==
    IF s.finished \/ s.close_started \/ data_write_active(s) \/ control_write_active(s)
    THEN s
    ELSE [s EXCEPT !.close_started = TRUE, !.op["close"] = "pending"]

request_close(s, intent) ==
    IF s.finished \/ s.close_requested THEN s
    ELSE begin_close(leave_match(
           [cancel_timer(s, {"presentation", "idle", "pong"}) EXCEPT
              !.close_requested = TRUE, !.queued = FALSE, !.intent = intent,
              !.pending = 0]))

report_session_failure(s) ==
    [request_close(s, "internal_failure") EXCEPT !.posted = @ \cup {"fail"}]

read_client_frame(s) ==
    IF s.finished \/ s.close_requested THEN s ELSE [s EXCEPT !.op["read"] = "pending"]

schedule_presentation_slot(s) ==
    IF s.finished \/ s.close_requested THEN s ELSE Arm(s, "presentation")

\* The wait ends one idle interval after the last frame, so every frame that
\* comes after it is armed extends it.
schedule_idle_check(s) ==
    IF s.finished \/ s.close_requested \/ "idle" \in s.armed \cup s.fired THEN s
    ELSE [Arm(s, "idle") EXCEPT !.heard = FALSE]

---------------------------------------------------------------------------
(* The presentation slot.                                                  *)

\* What a slot finds: in the lobby, a runtime that is not ready, a snapshot in
\* which others hold every seat it could take, or one with or without a body of
\* its controller; at the egress budget, a denial, or a grant after which the
\* encoding or the start of the write may throw.
Views == [lobby : {"not_ready", "full", "body", "no_body"},
          egress : {"denied", "granted", "encoding_throws", "write_throws"}]

\* The body is resolved by controller id in every snapshot: current_entity_ is
\* what this slot sees, and nothing remembers it.
observe_own_entity(s, view) == s.controller /\ view.lobby = "body"

\* A session that sits nowhere asks for a seat, and closes if the roster it
\* observed has none its join could take.  (The asking itself, like the asking
\* for a body, is a submission to the sink and changes only its pacing.)
request_seat_if_absent(s, view) ==
    IF s.controller /\ view.lobby = "full" THEN request_close(s, "lobby_full") ELSE s

Newest(s) == LET S == {s.delivered, s.active, s.pending} IN
             CHOOSE t \in S : \A u \in S : u <= t

\* Mutant of observe: whatever is published is pending, new or not.
ObserveAnything(s) == [s EXCEPT !.pending = latest]

\* SnapshotDeliveryState::observe.
observe(s) == IF latest > Newest(s) THEN [s EXCEPT !.pending = latest] ELSE s

\* start_welcome_write and start_snapshot_write.  Encoding may throw, and so
\* may starting the write; either is reported from the slot.
StartWrite(s, egress) ==
    LET owning == [s EXCEPT !.lease = TRUE, !.queued = FALSE]
        timed == Arm(owning, "deadline") IN
    CASE egress = "encoding_throws" ->
            report_session_failure([owning EXCEPT !.welcome_write_active = FALSE])
      [] egress = "write_throws" ->
            report_session_failure([timed EXCEPT !.welcome_write_active = FALSE])
      [] egress = "granted" -> [timed EXCEPT !.op["write"] = "pending"]

begin_active_write(s) == [s EXCEPT !.active = s.pending, !.pending = 0]

\* The slot's second half: the welcome first, then the newest snapshot.
Present(s, view) ==
    LET seen == IF s.welcome_delivered THEN observe(s) ELSE s
        due == IF s.welcome_delivered THEN seen.pending # 0
               ELSE observe_own_entity(s, view)
        owning == IF s.welcome_delivered THEN begin_active_write(seen)
                  ELSE [s EXCEPT !.welcome_write_active = TRUE] IN
    CASE ~ due \/ data_write_active(s) -> seen
      [] due /\ ~ data_write_active(s) /\ view.egress = "denied" -> [seen EXCEPT !.queued = TRUE]
      [] OTHER -> StartWrite(owning, view.egress)

Slot(s, view) ==
    CASE s.finished \/ s.close_requested -> s
      [] ~ (s.finished \/ s.close_requested) /\ view.lobby = "not_ready" ->
            request_close(s, "service_not_ready")
      [] ~ (s.finished \/ s.close_requested) /\ view.lobby # "not_ready" /\ control_write_active(s) ->
            schedule_presentation_slot(s)
      [] OTHER ->
            LET asked == request_seat_if_absent(s, view) IN
            IF asked.close_requested THEN asked
            ELSE schedule_presentation_slot(Present(asked, view))

---------------------------------------------------------------------------
(* Handlers: one action each.  The loop runs none once it is stopped.      *)

Running == server # "stopped"
Unmoved == UNCHANGED <<latest, server>>

\* The operation's result is queued and its handler runs now.
Completes(o, result) == Running /\ session.op[o] = result
Fires(t) == Running /\ t \in session.fired

\* accepted does not look at finished_: it opens the match session whatever
\* has happened since the upgrade began.
Accepted ==
    LET s == Done(session, "accept") IN
    /\ \/ /\ Completes("accept", "error")
          /\ session' = finish(s)
       \/ /\ Completes("accept", "ok")
          /\ \/ session' = schedule_presentation_slot(schedule_idle_check(
                              read_client_frame([s EXCEPT !.controller = TRUE])))
             \/ session' = request_close(s, "service_not_ready")
             \/ session' = report_session_failure(s)
    /\ Unmoved

\* client_frame_read with admit_client_command: accepted, or refused with a
\* close.  What an accepted command does is the sink's.
ClientFrameRead ==
    LET s == Done(session, "read")
        heard == schedule_idle_check([s EXCEPT !.heard = TRUE]) IN
    /\ \/ /\ Completes("read", "error")
          /\ \/ session' = finish(s)                          \* the peer closed
             \/ session' = request_close(s, "protocol_error")
       \/ /\ Completes("read", "ok")
          /\ \/ session' = read_client_frame(heard)
             \/ session' = request_close(heard, "command_rejected")
    /\ Unmoved

\* observe_control_frame: the peer pings us or answers our ping.  A pong is
\* read after the ping it answers was written, and its handler with it.
ControlFrame ==
    /\ Completes("read", "pending")
    /\ ~ session.finished
    /\ \E pong \in BOOLEAN, exceeded \in BOOLEAN :
          LET answered == IF pong /\ session.waiting_for_pong
                          THEN [cancel_timer(session, {"pong"})
                                  EXCEPT !.waiting_for_pong = FALSE]
                          ELSE session
              posted == IF exceeded THEN {"control_rate"} ELSE {} IN
          session' = schedule_idle_check(
                        [answered EXCEPT !.heard = TRUE, !.posted = @ \cup posted])
    /\ Unmoved

\* The close posted by observe_control_frame.
ControlRateExceeded ==
    /\ Running /\ "control_rate" \in session.posted
    /\ session' = request_close([session EXCEPT !.posted = @ \ {"control_rate"}],
                                "control_rate_exceeded")
    /\ Unmoved

PresentationSlot ==
    /\ Fires("presentation")
    /\ \E view \in Views : session' = Slot(Ran(session, "presentation"), view)
    /\ Unmoved

\* Mutant of Written: the close a write held up is forgotten.
WrittenForgetsClose(s) ==
    IF s.welcome_write_active
    THEN [s EXCEPT !.welcome_write_active = FALSE, !.welcome_delivered = TRUE]
    ELSE [s EXCEPT !.delivered = s.active, !.active = 0]

\* The success path of welcome_written and of snapshot_written
\* (complete_active_write), which a requested close has been waiting for.
Written(s) ==
    LET done == IF s.welcome_write_active
                THEN [s EXCEPT !.welcome_write_active = FALSE, !.welcome_delivered = TRUE]
                ELSE [s EXCEPT !.delivered = s.active, !.active = 0] IN
    IF done.close_requested THEN begin_close(done) ELSE done

\* welcome_written and snapshot_written.
DataWritten ==
    LET s == [cancel_timer(Done(session, "write"), {"deadline"}) EXCEPT !.lease = FALSE]
        failed == [s EXCEPT !.welcome_write_active = FALSE] IN
    /\ \/ /\ Completes("write", "error")
          /\ session' = finish(failed)
       \/ /\ Completes("write", "ok")
          /\ session' = IF s.finished THEN failed ELSE Written(s)
    /\ Unmoved

\* Mutant of DataWriteTimedOut: the deadline asks for a close frame, which
\* waits for the write that stalled.
DataWriteTimedOutPolitely ==
    /\ Fires("deadline")
    /\ session' = request_close(Ran(session, "deadline"), "slow_consumer")
    /\ Unmoved

DataWriteTimedOut ==
    LET s == Ran(session, "deadline") IN
    /\ Fires("deadline")
    /\ session' = IF s.finished THEN s
                  ELSE finish(close_socket([s EXCEPT !.intent = "slow_consumer"]))
    /\ Unmoved

\* idle_check: a frame came meanwhile, or something is being written, or ping.
IdleCheck ==
    LET s == Ran(session, "idle") IN
    /\ Fires("idle")
    /\ session' =
          CASE s.finished \/ s.close_requested -> s
            [] ~ (s.finished \/ s.close_requested) /\ s.heard ->
                  [Arm(s, "idle") EXCEPT !.heard = FALSE]
            [] ~ (s.finished \/ s.close_requested) /\ ~ s.heard
               /\ (data_write_active(s) \/ control_write_active(s)) -> Arm(s, "idle")
            [] OTHER -> [s EXCEPT !.queued = FALSE, !.op["ping"] = "pending"]
    /\ Unmoved

\* ping_written.
PingWritten ==
    LET s == Done(session, "ping") IN
    /\ \/ /\ Completes("ping", "error")
          /\ session' = finish(s)
       \/ /\ Completes("ping", "ok")
          /\ session' = CASE s.finished -> s
                          [] ~ s.finished /\ s.close_requested -> begin_close(s)
                          [] OTHER -> [Arm(s, "pong") EXCEPT !.waiting_for_pong = TRUE]
    /\ Unmoved

PongTimedOut ==
    LET s == Ran(session, "pong") IN
    /\ Fires("pong")
    /\ session' = IF s.finished \/ ~ s.waiting_for_pong THEN s
                  ELSE request_close(s, "peer_timeout")
    /\ Unmoved

Closed ==
    /\ \E result \in {"ok", "error"} : Completes("close", result)
    /\ session' = finish(Done(session, "close"))
    /\ Unmoved

---------------------------------------------------------------------------
(* The server (server_execution_context.cpp).                              *)

\* begin_stop_on_executor asks every registered session to close.
BeginStop ==
    /\ server = "serving"
    /\ server' = "stopping"
    /\ session' = IF session.registered THEN request_close(session, "server_shutdown")
                  ELSE session
    /\ UNCHANGED latest

\* The shutdown deadline, or a failure: everything is closed at once and the
\* loop is stopped.
StopAtOnce ==
    /\ server = "stopping" \/ "fail" \in session.posted
    /\ Running
    /\ server' = "stopped"
    /\ session' = IF session.registered THEN finish(close_socket(session)) ELSE session
    /\ UNCHANGED latest

\* stop_if_drained: the last registered session is gone.  Other sessions may
\* outlive this one.
Drained ==
    /\ server = "stopping" /\ ~ session.registered
    /\ server' = "stopped"
    /\ UNCHANGED <<session, latest>>

---------------------------------------------------------------------------
(* The world outside the process, and the clock.                           *)

\* asio and the peer finish an operation.  Nothing says that they do: a peer
\* may send no frame, and may leave what is written to it unread.
OperationEnds(o) ==
    /\ Completes(o, "pending")
    /\ \E result \in {"ok", "error"} : session' = [session EXCEPT !.op[o] = result]
    /\ Unmoved

TimerExpires(t) ==
    /\ Running /\ t \in session.armed
    /\ session' = [session EXCEPT !.armed = @ \ {t}, !.fired = @ \cup {t}]
    /\ Unmoved

\* The runtime publishes the next tick.
Publish ==
    /\ latest < MaxTick
    /\ latest' = latest + 1
    /\ UNCHANGED <<session, server>>

---------------------------------------------------------------------------

\* run() has registered the session and begun async_accept.
Init ==
    /\ session =
          [op |-> [o \in Operations |-> IF o = "accept" THEN "pending" ELSE "none"],
           armed |-> {}, fired |-> {}, posted |-> {}, registered |-> TRUE,
           controller |-> FALSE, left_match |-> FALSE,
           welcome_write_active |-> FALSE, welcome_delivered |-> FALSE,
           pending |-> 0, active |-> 0, delivered |-> 0,
           lease |-> FALSE, queued |-> FALSE, waiting_for_pong |-> FALSE,
           heard |-> FALSE, intent |-> "none", close_requested |-> FALSE,
           close_started |-> FALSE, finished |-> FALSE]
    /\ latest = 1
    /\ server = "serving"

Handlers ==
    \/ Accepted
    \/ ClientFrameRead
    \/ ControlRateExceeded
    \/ PresentationSlot
    \/ DataWritten
    \/ DataWriteTimedOut
    \/ IdleCheck
    \/ PingWritten
    \/ PongTimedOut
    \/ Closed

Next ==
    \/ Handlers
    \/ ControlFrame
    \/ BeginStop
    \/ StopAtOnce
    \/ Drained
    \/ \E o \in Operations : OperationEnds(o)
    \/ \E t \in Timers : TimerExpires(t)
    \/ Publish

Spec == Init /\ [][Next]_vars

\* The loop runs every queued handler and every timer expires; the handshake
\* and the closing handshake have deadlines of their own (beast's timeout
\* option), and a failure's post runs.  A write or a ping that the peer does
\* not read need never complete, and a peer need never send.  Fairness of the
\* reading and presenting handlers is not assumed: no property needs it.
Fairness ==
    /\ WF_vars(OperationEnds("accept") \/ Accepted)
    /\ WF_vars(OperationEnds("close") \/ Closed)
    /\ WF_vars(DataWritten) /\ WF_vars(PingWritten)
    /\ WF_vars(TimerExpires("deadline") \/ DataWriteTimedOut)
    /\ WF_vars(TimerExpires("idle") \/ IdleCheck)
    /\ WF_vars(TimerExpires("pong") \/ PongTimedOut)
    /\ WF_vars(StopAtOnce)

FairSpec == Spec /\ Fairness

---------------------------------------------------------------------------
(* Properties.                                                             *)

\* The session's members have their types.
TypeOK ==
    /\ session \in Session
    /\ latest \in 1 .. MaxTick
    /\ server \in {"serving", "stopping", "stopped"}

\* A data frame, a ping and a close frame are never on the wire together: each
\* waits for the others (begin_close, idle_check, presentation_slot).
OneWriteAtATime ==
    \A o, q \in {"write", "ping", "close"} :
        session.op[o] # "none" /\ session.op[q] # "none" => o = q

\* The payload and its egress reservation live as long as the write that reads
\* them, and no longer than the session: finish leaves them to the write's own
\* handler, and everything else returns them.
PayloadOutlivesItsWrite ==
    /\ session.op["write"] # "none" => session.lease
    /\ session.finished /\ session.op["write"] = "none" => ~ session.lease

\* A session that is closing or gone is not in the egress queue, where it
\* would hold up every other session (cancel_waiter on every path out).
ClosingIsNotQueued == session.close_requested \/ session.finished => ~ session.queued

\* The connection as its peer sees it: how far it has come, and the frame on
\* the wire (none is 0, the welcome -1, the close frame -2).
StreamPhase(s) ==
    CASE s.finished -> "over"
      [] ~ s.finished /\ s.close_requested -> "closing"
      [] ~ s.finished /\ ~ s.close_requested /\ s.op["accept"] # "none" -> "connecting"
      [] OTHER -> "open"

StreamWire(s) ==
    CASE s.finished -> 0
      [] ~ s.finished /\ s.op["write"] # "none" ->
            IF s.welcome_write_active THEN -1 ELSE s.active
      [] ~ s.finished /\ s.op["write"] = "none" /\ s.close_started -> -2
      [] OTHER -> 0

Stream ==
    INSTANCE SnapshotStream WITH
        Welcomes <- TRUE,
        published <- latest,
        phase <- StreamPhase(session),
        welcomed <- session.welcome_delivered,
        last <- session.delivered,
        wire <- StreamWire(session)

\* The session implements the stream its peer is promised: the welcome first,
\* then ever newer snapshots, each the newest when it was written, one frame
\* at a time, none after the decision to close or after the end.
ImplementsStream == Stream!Spec

\* From some point on, a ping whose bytes the peer never takes: it has no
\* deadline.
PingStalls == <>[](session.op["ping"] = "pending")

Gone == session.finished \/ server = "stopped"

\* The peer sends a frame: data, or a control frame.
FrameArrives ==
    \/ ControlFrame
    \/ session.op["read"] = "pending" /\ session'.op["read"] = "ok"

\* A session that decides to close is gone in the end, whatever it was
\* writing; only a stalled ping can hold it up.
ClosingFinishes == (session.close_requested ~> Gone) \/ PingStalls

\* A peer from which nothing comes any more is closed by the keepalive, by a
\* write that stalls or by the server, unless the ping itself stalls.
SilentPeerIsClosed == []<><<FrameArrives>>_vars \/ <>Gone \/ PingStalls

\* Whatever ends, closes or times out, the members keep their types, frames are
\* written one at a time from a payload that is still there, and nobody who is
\* leaving stands in the egress queue.
WritesAreSafe == TypeOK /\ OneWriteAtATime /\ PayloadOutlivesItsWrite /\ ClosingIsNotQueued
====
