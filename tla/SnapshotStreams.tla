-------------------------- MODULE SnapshotStreams --------------------------
(***************************************************************************)
(* Several connections on one event loop that share the egress budget: the *)
(* v1 sessions of src/src/server/snapshot_websocket_session.cpp handler by *)
(* handler, and v3 sessions, which have the same handlers around a welcome *)
(* (SessionWebSocket has those in full).  A v3 session asks the budget     *)
(* only while it has something to say: before its welcome that depends on  *)
(* whether the newest snapshot shows its body.                             *)
(*                                                                         *)
(* Handlers queued behind a cancellation are SessionWebSocket's subject;   *)
(* here an outstanding operation ends when its handler runs, with an error *)
(* once the socket is closed.                                              *)
(***************************************************************************)
EXTENDS SnapshotEgress, FiniteSets, FiniteSetsExt

CONSTANTS
    Viewers,     \* v1 sessions
    Players,     \* v3 sessions
    MaxTick      \* bound: ticks published in a behaviour

ASSUME StreamsAssumption ==
    /\ MaxTick \in Nat \ {0}
    /\ Viewers \cap Players = {}
    /\ IsFiniteSet(Viewers \cup Players) /\ Cardinality(Viewers \cup Players) <= LeaseMax

VARIABLES
    ledger,      \* the SnapshotEgressBudget
    streams,     \* the sessions
    latest,      \* the tick of the latest published snapshot
    bodies       \* the players whose body the latest snapshot shows

vars == <<ledger, streams, latest, bodies>>

Clients == Viewers \cup Players
Operations == {"accept", "read", "write", "ping", "close"}

\* The members that decide control.  snapshot_write_operation_active_,
\* control_write_active_ and the write deadline are read off the outstanding
\* operations; welcoming and welcomed are a v3 session's.
Stream ==
    [busy : SUBSET Operations,
     idle_wait : BOOLEAN,
     waiting_for_pong : BOOLEAN,          \* pong_timer_ is armed
     welcoming : BOOLEAN, welcomed : BOOLEAN,
     pending : 0 .. MaxTick, active : 0 .. MaxTick, delivered : 0 .. MaxTick,
     lease : [owned : 0 .. Reservation, committed : BOOLEAN],
     close_requested : BOOLEAN,
     close_started : BOOLEAN,
     finished : BOOLEAN]

write_active(s) == s.welcoming \/ s.active # 0
control_write_active(s) == "ping" \in s.busy
Leaving(s) == s.finished \/ s.close_requested

---------------------------------------------------------------------------
(* Member functions, of the session and the budget together.               *)

\* What a function works on: the session c and the ledger.
At(c) == [stream |-> streams[c], ledger |-> ledger, self |-> c]

Update(w, stream) == [w EXCEPT !.stream = stream]

cancel_wait(w) == [w EXCEPT !.ledger = cancel_waiter(@, w.self)]

release_active_payload(w) ==
    [w EXCEPT !.ledger = release(@, w.stream.lease), !.stream = [@ EXCEPT !.lease = NoLease]]

\* finish leaves the payload to a write that still reads it.  The other
\* handlers outstanding find finished_ and return: they are over here.
finish(w) ==
    IF w.stream.finished THEN w
    ELSE LET gone == cancel_wait(
               Update(w, [w.stream EXCEPT
                  !.finished = TRUE, !.busy = @ \cap {"write"}, !.idle_wait = FALSE,
                  !.waiting_for_pong = FALSE, !.pending = 0, !.active = 0])) IN
         IF "write" \in w.stream.busy THEN gone ELSE release_active_payload(gone)

begin_close(s) ==
    IF s.finished \/ s.close_started \/ write_active(s) \/ control_write_active(s) THEN s
    ELSE [s EXCEPT !.close_started = TRUE, !.busy = @ \cup {"close"}]

request_close(w) ==
    IF Leaving(w.stream) THEN w
    ELSE LET asked == cancel_wait(w) IN
         Update(asked, begin_close([asked.stream EXCEPT
                  !.close_requested = TRUE, !.pending = 0, !.idle_wait = FALSE,
                  !.waiting_for_pong = FALSE]))

read_client_frame(s) == IF Leaving(s) THEN s ELSE [s EXCEPT !.busy = @ \cup {"read"}]
schedule_idle_check(s) == IF Leaving(s) THEN s ELSE [s EXCEPT !.idle_wait = TRUE]

\* Mutant of observe: whatever is published is pending, new or not.
ObserveAnything(s) == [s EXCEPT !.pending = latest]

\* SnapshotDeliveryState::observe.
observe(s) ==
    IF latest > Max({s.delivered, s.active, s.pending}) THEN [s EXCEPT !.pending = latest]
    ELSE s

\* start_snapshot_write and start_welcome_write under a grant: the payload is
\* encoded in `outcome` bytes, and what it does not need is returned.
\* Encoding may throw (0); the slot reports it, which requests a close.
start_write(w, outcome) ==
    LET s == w.stream
        owning == [s EXCEPT !.lease = [owned |-> Reservation, committed |-> FALSE],
                            !.active = IF s.welcomed THEN s.pending ELSE 0,
                            !.pending = IF s.welcomed THEN 0 ELSE @,
                            !.welcoming = ~ s.welcomed]
        failed == [owning EXCEPT !.welcoming = FALSE]
        granted == reserve(w.ledger, w.self) IN
    IF outcome = 0
    THEN request_close([w EXCEPT !.ledger = granted, !.stream = failed])
    ELSE [w EXCEPT !.ledger = commit_encoding(granted, outcome),
                   !.stream = [owning EXCEPT !.lease = [owned |-> outcome, committed |-> TRUE],
                                             !.busy = @ \cup {"write"}]]

---------------------------------------------------------------------------
(* Handlers.                                                               *)

Becomes(c, after) ==
    \E w \in {after} :
       /\ streams' = [streams EXCEPT ![c] = w.stream]
       /\ ledger' = w.ledger
       /\ UNCHANGED <<latest, bodies>>

\* The handler of operation o of c runs.
Ends(c, o) == o \in streams[c].busy
After(c, o) == Update(At(c), [streams[c] EXCEPT !.busy = @ \ {o}])

Accepted(c) ==
    LET w == After(c, "accept")
        s == schedule_idle_check(read_client_frame(w.stream)) IN
    /\ Ends(c, "accept")
    /\ \/ Becomes(c, finish(w))
       \/ Becomes(c, Update(w, s))

\* client_frame_read: the peer closed, or the frame is unreadable, or (v1) any
\* data at all, which is forbidden.  A v3 session reads on after a command it
\* accepts.
ClientFrameRead(c) ==
    LET w == After(c, "read") IN
    /\ Ends(c, "read")
    /\ \/ Becomes(c, finish(w))
       \/ Becomes(c, request_close(w))
       \/ /\ c \in Players
          /\ Becomes(c, Update(w, schedule_idle_check(read_client_frame(w.stream))))

\* observe_control_frame.
ControlFrame(c) ==
    /\ Ends(c, "read")
    /\ \/ Becomes(c, Update(At(c), schedule_idle_check(
                       [streams[c] EXCEPT !.waiting_for_pong = FALSE])))
       \/ Becomes(c, request_close(At(c)))   \* the posted rate violation

\* The budget can grant nothing, so the slot queues.
Denied(w) == [w EXCEPT !.ledger = enqueue_waiter(@, w.self)]

\* What presentation_slot has to write: the newest snapshot if it is news, or
\* before the welcome, the welcome, once the newest snapshot shows a body to
\* name in it.
HasSomethingToSay(c, s) == IF s.welcomed THEN s.pending # 0 ELSE c \in bodies

\* presentation_slot of an open connection; not while a ping is on the wire.
\* A v3 session whose body has gone before its welcome asks the budget no more,
\* and keeps the place in the queue that an earlier slot took.
PresentationSlot(c) ==
    LET w == At(c)
        seen == Update(w, IF w.stream.welcomed THEN observe(w.stream) ELSE w.stream) IN
    /\ ~ Ends(c, "accept") /\ ~ Leaving(w.stream) /\ ~ control_write_active(w.stream)
    /\ IF HasSomethingToSay(c, seen.stream) /\ ~ write_active(w.stream)
       THEN IF Admits(ledger, c)
            THEN \E outcome \in 1 .. Reservation \cup {0} :
                    Becomes(c, start_write(seen, outcome))
            ELSE Becomes(c, Denied(seen))
       ELSE Becomes(c, seen)

\* The publication is not ready.
ServiceNotReady(c) ==
    /\ ~ Ends(c, "accept") /\ ~ Leaving(streams[c])
    /\ Becomes(c, request_close(At(c)))

\* snapshot_written and welcome_written.
DataWritten(c) ==
    LET w == release_active_payload(After(c, "write"))
        s == w.stream
        done == [s EXCEPT !.welcomed = TRUE, !.welcoming = FALSE, !.active = 0,
                          !.delivered = IF s.welcoming THEN @ ELSE s.active] IN
    /\ Ends(c, "write")
    /\ \/ Becomes(c, finish(Update(w, [s EXCEPT !.welcoming = FALSE])))
       \/ /\ ~ s.finished
          /\ Becomes(c, Update(w, IF done.close_requested THEN begin_close(done) ELSE done))

DataWriteTimedOut(c) ==
    Ends(c, "write") /\ ~ streams[c].finished /\ Becomes(c, finish(At(c)))

\* idle_check: while something is written, later; else the place in the queue
\* is given up and the peer is pinged.
IdleCheck(c) ==
    /\ streams[c].idle_wait
    /\ ~ write_active(streams[c]) /\ ~ control_write_active(streams[c])
    /\ Becomes(c, cancel_wait(Update(At(c),
           [streams[c] EXCEPT !.idle_wait = FALSE, !.busy = @ \cup {"ping"}])))

PingWritten(c) ==
    LET w == After(c, "ping") IN
    /\ Ends(c, "ping")
    /\ \/ Becomes(c, finish(w))
       \/ Becomes(c, Update(w, IF w.stream.close_requested THEN begin_close(w.stream)
                               ELSE [w.stream EXCEPT !.waiting_for_pong = TRUE]))

PongTimedOut(c) == streams[c].waiting_for_pong /\ Becomes(c, request_close(At(c)))

Closed(c) == Ends(c, "close") /\ Becomes(c, finish(After(c, "close")))

\* The bytes that the sessions of C own, each counted once, and who of them
\* owns any.
OwnedBytes(C) == {b \in C \X (1 .. Reservation) : b[2] <= streams[b[1]].lease.owned}
Owners(C) == {c \in C : streams[c].lease # NoLease}

\* stop_sessions asks every session in turn: for a close frame
\* (request_stop(kGraceful)) when the server is asked to stop, and to finish
\* (kImmediate) at the shutdown deadline or when the server has failed.  What
\* one gives back is of no concern to the next, so it adds up.
BeginStop ==
    LET asked == {c \in Clients : ~ Leaving(streams[c])} IN
    /\ asked # {}
    /\ streams' = [c \in Clients |-> request_close(At(c)).stream]
    /\ ledger' = cancel_waiters(ledger, asked)
    /\ UNCHANGED <<latest, bodies>>

StopAtOnce ==
    LET gone == {c \in Clients : ~ streams[c].finished}
        returning == {c \in gone : "write" \notin streams[c].busy}
        uncommitted == {c \in returning : ~ streams[c].lease.committed} IN
    /\ gone # {}
    /\ streams' = [c \in Clients |-> finish(At(c)).stream]
    /\ ledger' = [cancel_waiters(ledger, gone) EXCEPT
                    !.active = @ - Cardinality(OwnedBytes(returning)),
                    !.leases = @ - Cardinality(Owners(returning)),
                    !.tokens = AtMost(@ + Cardinality(OwnedBytes(uncommitted)), Capacity)]
    /\ UNCHANGED <<latest, bodies>>

Publish ==
    /\ latest < MaxTick
    /\ latest' = latest + 1
    /\ UNCHANGED <<ledger, streams, bodies>>

\* A player's body appears in the snapshots or is gone from them; after the
\* welcome that is of no concern here.
BodyChanges(c) ==
    /\ ~ streams[c].welcomed /\ ~ Leaving(streams[c])
    /\ bodies' = IF c \in bodies THEN bodies \ {c} ELSE bodies \cup {c}
    /\ UNCHANGED <<ledger, streams, latest>>

Refill ==
    /\ ledger.tokens < Capacity
    /\ ledger' = refill(ledger)
    /\ UNCHANGED <<streams, latest, bodies>>

---------------------------------------------------------------------------

\* Every session has been upgraded by run() and registered.
Init ==
    /\ ledger = NewLedger
    /\ streams = [c \in Clients |->
          [busy |-> {"accept"}, idle_wait |-> FALSE,
           waiting_for_pong |-> FALSE, welcoming |-> FALSE, welcomed |-> c \in Viewers,
           pending |-> 0, active |-> 0, delivered |-> 0, lease |-> NoLease,
           close_requested |-> FALSE, close_started |-> FALSE, finished |-> FALSE]]
    /\ latest = 1
    /\ bodies = {}

Handlers(c) ==
    \/ Accepted(c) \/ ClientFrameRead(c) \/ ControlFrame(c)
    \/ PresentationSlot(c) \/ ServiceNotReady(c)
    \/ DataWritten(c) \/ DataWriteTimedOut(c)
    \/ IdleCheck(c) \/ PingWritten(c) \/ PongTimedOut(c) \/ Closed(c)

Next ==
    \/ \E c \in Clients : Handlers(c)
    \/ \E c \in Players : BodyChanges(c)
    \/ BeginStop \/ StopAtOnce \/ Publish \/ Refill

Spec == Init /\ [][Next]_vars

\* The bucket refills with time, every open connection has its presentation
\* slots, and a write ends or meets its deadline.
Fairness ==
    /\ WF_vars(Refill)
    /\ \A c \in Clients :
          WF_vars(DataWritten(c) \/ DataWriteTimedOut(c) \/ PresentationSlot(c))

FairSpec == Spec /\ Fairness

---------------------------------------------------------------------------
(* Properties.                                                             *)

\* The sessions and the ledger have their types.
TypeOK ==
    /\ streams \in [Clients -> Stream]
    /\ ledger \in [tokens : 0 .. Capacity, active : 0 .. ActiveMax,
                   leases : 0 .. LeaseMax, waiters : Seq(Clients)]
    /\ latest \in 1 .. MaxTick /\ bodies \subseteq Players

\* The ledger is what the sessions hold, to the byte, so release never finds
\* too little (it would terminate the process): a lease is counted while a
\* write reads its payload, and a session that is gone holds none once that
\* write has ended.
EgressIsConserved ==
    /\ ledger.active = Cardinality(OwnedBytes(Clients))
    /\ ledger.leases = Cardinality(Owners(Clients))
    /\ \A c \in Clients :
          streams[c].finished /\ "write" \notin streams[c].busy => streams[c].lease = NoLease

\* Whoever waits in the egress queue waits once, is open, and is not held up
\* by a ping: a session that can no longer ask at a presentation slot would
\* keep every other one from being served.
WaitersCanAsk ==
    /\ \A i, j \in DOMAIN ledger.waiters : ledger.waiters[i] = ledger.waiters[j] => i = j
    /\ \A c \in Range(ledger.waiters) :
          ~ Leaving(streams[c]) /\ ~ control_write_active(streams[c])

\* The head of the queue is a v3 session that was queued for its welcome and
\* whose body is not in the snapshots.
HeadIsBodiless ==
    /\ ledger.waiters # <<>>
    /\ ~ streams[Head(ledger.waiters)].welcomed /\ Head(ledger.waiters) \notin bodies

\* An encoding has thrown: report_snapshot_failure has failed the server, and
\* the lease is held until it stops everyone.
Failed == \E c \in Clients : streams[c].lease # NoLease /\ ~ streams[c].lease.committed

\* Whoever waits for the budget is served, or leaves, unless the server fails
\* or over and over the head of the queue is a session whose body vanished
\* before its welcome.
WaiterIsServed ==
    \A c \in Clients : (Waits(ledger, c) ~> ~ Waits(ledger, c) \/ Failed)
                       \/ []<>HeadIsBodiless

\* A connection as its peer sees it: how far it has come, and the frame on the
\* wire (none is 0, the welcome -1, the close frame -2).
StreamPhase(s) ==
    IF s.finished THEN "over" ELSE IF s.close_requested THEN "closing"
    ELSE IF "accept" \in s.busy THEN "connecting" ELSE "open"

StreamWire(s) ==
    IF s.finished THEN 0
    ELSE IF "write" \in s.busy THEN IF s.welcoming THEN -1 ELSE s.active
    ELSE IF s.close_started THEN -2 ELSE 0

Abstract(c) ==
    INSTANCE SnapshotStream WITH
        Welcomes <- c \in Players,
        published <- latest,
        phase <- StreamPhase(streams[c]),
        welcomed <- streams[c].welcomed,
        last <- streams[c].delivered,
        wire <- StreamWire(streams[c])

\* Every connection implements the stream its peer is promised, whatever the
\* others do to the budget they share.
\* (\A c : Abstract(c)!Spec, in the form TLC takes.)
ImplementStreams ==
    /\ \A c \in Clients : Abstract(c)!Init
    /\ [][\A c \in Clients : [Abstract(c)!Next]_(Abstract(c)!vars)]_vars

\* The shared budget is accounted for and its queue can move.
BudgetIsSound == TypeOK /\ EgressIsConserved /\ WaitersCanAsk
====
