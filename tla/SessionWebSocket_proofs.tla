---------------------- MODULE SessionWebSocket_proofs ----------------------
(***************************************************************************)
(* Proofs about SessionWebSocket, for any number of published ticks, and   *)
(* about CommandDecoding, which reads the frames its clients send, for any *)
(* frames, bot catalogue and mask of the room.                             *)
(*                                                                         *)
(* The properties are not inductive.  That frames do not overlap depends   *)
(* on a write's being owned while it runs (WriteInv), on a close frame's   *)
(* following the decision to close (CloseInv); that each snapshot is the   *)
(* newest one depends on what may be pending (DeliveryInv); that nothing   *)
(* is presented before the upgrade, on when the slot's timer is first      *)
(* armed (AcceptedFirst).  All of it is a property of the session record   *)
(* and the latest tick (Sound).                                            *)
(*                                                                         *)
(* Most member functions touch only handlers and timers (Like), or only    *)
(* deliveries (Edited).  For each member function there is a lemma that    *)
(* it keeps a session sound and what a peer sees of it (Seen); a handler   *)
(* is their composition, and so is its proof.  The same lemmas give the    *)
(* invariant and the refinement of SnapshotStream.                         *)
(*                                                                         *)
(* A decoder checks its members one by one and counts them; the schema     *)
(* admits values and forbids every other member.  The lemmas on counting   *)
(* come first, then one lemma per member, then one per decoder             *)
(* (DecodesAs), then the envelope around them.                             *)
(***************************************************************************)
EXTENDS SessionWebSocket, CommandDecoding, FiniteSetTheorems, TLAPS

\* The operations that put a frame on the wire.
Writes == {"write", "ping", "close"}

\* At most one frame is being written.
OneFrame(s) == \A o, q \in Writes : s.op[o] # "none" /\ s.op[q] # "none" => o = q

\* A data write runs on a leased payload and, while the session lives, for a
\* frame it owns; a finished session without a write leases nothing.
WriteInv(s) ==
    /\ s.op["write"] # "none" => s.lease /\ (s.finished \/ data_write_active(s))
    /\ s.finished /\ s.op["write"] = "none" => ~ s.lease

\* A session that is closing is owed no snapshot and stands in no queue, a
\* finished one writes none; a close frame is the consequence of the decision
\* to close, and once started it is outstanding until the session finishes.
CloseInv(s) ==
    /\ s.close_requested \/ s.finished => ~ s.queued /\ s.pending = 0
    /\ s.finished => s.active = 0
    /\ s.op["close"] # "none" => s.close_started
    /\ s.close_started => s.close_requested
    /\ s.close_started /\ ~ s.finished => s.op["close"] # "none"

\* With n the latest tick: what is pending is newer than what was written or is
\* being written, and not newer than n; snapshots come after the welcome.
DeliveryInv(s, n) ==
    /\ s.pending # 0 => s.welcome_delivered /\ s.pending > s.delivered /\ s.pending > s.active
    /\ s.active # 0 => s.welcome_delivered
    /\ s.pending <= n

\* No slot is awaited or due before the accept handler has run.
AcceptedFirst(s) == "presentation" \in s.armed \cup s.fired => s.op["accept"] = "none"

\* A session the handlers can leave behind, with n the latest tick.
Sound(s, n) ==
    s \in Session /\ OneFrame(s) /\ WriteInv(s) /\ CloseInv(s) /\ DeliveryInv(s, n)
    /\ AcceptedFirst(s)

\* The inductive invariant.
Inv ==
    /\ Sound(session, latest)
    /\ latest \in 1 .. MaxTick
    /\ server \in {"serving", "stopping", "stopped"}

\* t writes, holds and owes what s does.
Like(s, t) ==
    /\ t \in Session
    /\ \A o \in Writes : t.op[o] = "none" <=> s.op[o] = "none"
    /\ t.welcome_write_active = s.welcome_write_active
    /\ t.welcome_delivered = s.welcome_delivered
    /\ t.pending = s.pending /\ t.active = s.active /\ t.delivered = s.delivered
    /\ t.lease = s.lease /\ t.queued = s.queued
    /\ t.close_requested = s.close_requested /\ t.close_started = s.close_started
    /\ t.finished = s.finished

\* The accept handler has run in t if and only if it has in s.
SameAccept(s, t) == t.op["accept"] = "none" <=> s.op["accept"] = "none"

\* A sound session stays sound when only its handlers and timers change.
LEMMA LikeSound ==
  ASSUME NEW n, NEW s \in Session, NEW t, Sound(s, n), Like(s, t), AcceptedFirst(t)
  PROVE  Sound(t, n) 
  <1>1. OneFrame(t)
    BY DEF Sound, Like, OneFrame
  <1>2. WriteInv(t)
    BY DEF Sound, Like, WriteInv, data_write_active, Writes
  <1>3. CloseInv(t)
    BY DEF Sound, Like, CloseInv, Writes
  <1>4. DeliveryInv(t, n)
    BY DEF Sound, Like, DeliveryInv
  <1> QED
    BY <1>1, <1>2, <1>3, <1>4 DEF Sound, Like

\* A peer does not see such a change, unless the accept handler ran.
LEMMA LikeWire ==
  ASSUME NEW s \in Session, NEW t, Like(s, t)
  PROVE  /\ StreamWire(t) = StreamWire(s)
         /\ SameAccept(s, t) => StreamPhase(t) = StreamPhase(s)
  BY DEF Like, StreamWire, StreamPhase, SameAccept, Writes

\* Likeness is transitive.
LEMMA LikeTransitive ==
  ASSUME NEW s, NEW t, NEW u, Like(s, t), Like(t, u)
  PROVE  Like(s, u) 
  BY DEF Like

\* An accept or a read that has run changes nothing that is owed or written.
LEMMA DoneLike ==
  ASSUME NEW s \in Session, NEW o \in {"accept", "read"}
  PROVE  /\ Like(s, Done(s, o))
         /\ Done(s, o).op["accept"] = IF o = "accept" THEN "none" ELSE s.op["accept"]
         /\ Done(s, o).armed = s.armed /\ Done(s, o).fired = s.fired
  BY DEF Done, Like, Session, Operations, OperationStates, Writes

\* Nor does a timer handler that begins to run.
LEMMA RanLike ==
  ASSUME NEW s \in Session, NEW t \in Timers
  PROVE  /\ Like(s, Ran(s, t)) /\ Ran(s, t).op = s.op
         /\ Ran(s, t).armed = s.armed /\ Ran(s, t).fired = s.fired \ {t}
  BY DEF Ran, Like, Session

\* Nor does arming a timer.
LEMMA ArmLike ==
  ASSUME NEW s \in Session, NEW t \in Timers
  PROVE  /\ Like(s, Arm(s, t)) /\ Arm(s, t).op = s.op
         /\ Arm(s, t).armed = s.armed \cup {t} /\ Arm(s, t).fired = s.fired
  BY DEF Arm, Like, Session

\* Nor does cancelling timers.
LEMMA CancelLike ==
  ASSUME NEW s \in Session, NEW T \in SUBSET Timers
  PROVE  /\ Like(s, cancel_timer(s, T)) /\ cancel_timer(s, T).op = s.op
         /\ cancel_timer(s, T).armed = s.armed \ T /\ cancel_timer(s, T).fired = s.fired
  BY DEF cancel_timer, Like, Session

\* Nor does close_socket: it fails what is pending, and what is outstanding
\* stays outstanding until its handler has run.
LEMMA CloseSocketLike ==
  ASSUME NEW s \in Session
  PROVE  /\ Like(s, close_socket(s)) /\ SameAccept(s, close_socket(s))
         /\ close_socket(s).armed = s.armed /\ close_socket(s).fired = s.fired
  BY DEF close_socket, Like, SameAccept, Session, Operations, OperationStates, Writes

\* Nor does leave_match.
LEMMA LeaveMatchLike ==
  ASSUME NEW s \in Session
  PROVE  /\ Like(s, leave_match(s)) /\ leave_match(s).op = s.op
         /\ leave_match(s).armed = s.armed /\ leave_match(s).fired = s.fired
  BY DEF leave_match, Like, Session

---------------------------------------------------------------------------

\* What finish needs of a session that is not finished; less than Sound, since
\* the close handler has just run when it calls finish.
Finishable(s) ==
    /\ s \in Session /\ ~ s.finished
    /\ OneFrame(s) /\ (s.op["write"] # "none" => s.lease)
    /\ s.op["close"] # "none" => s.close_started
    /\ s.close_started => s.close_requested

\* Ticks are naturals; an empty optional tick is 0.
LEMMA TicksAreNat ==
  /\ Ticks \in SUBSET Nat
  /\ 0 \in Ticks
  /\ \A n \in 1 .. MaxTick : n \in Ticks /\ n # 0
  BY SessionAssumption DEF Ticks

\* What finish leaves in a session that was not finished.
LEMMA FinishFields ==
  ASSUME NEW s \in Session, ~ s.finished
  PROVE  /\ finish(s) \in Session
         /\ finish(s).finished /\ finish(s).armed = {} 
         /\ finish(s).pending = 0 /\ finish(s).active = 0 /\ ~ finish(s).queued
         /\ finish(s).fired = s.fired /\ finish(s).delivered = s.delivered
         /\ finish(s).welcome_delivered = s.welcome_delivered
         /\ finish(s).close_requested = s.close_requested
         /\ finish(s).close_started = s.close_started
         /\ \A o \in Writes \cup {"accept"} : finish(s).op[o] = "none" <=> s.op[o] = "none"
         /\ finish(s).lease <=> s.lease /\ s.op["write"] # "none"
  <1> DEFINE c == close_socket(leave_match(s))
             d == [c EXCEPT !.finished = TRUE, !.armed = {}, !.pending = 0, !.active = 0,
                            !.queued = FALSE, !.registered = FALSE]
             f == release_unless_written(d)
  <1>1. finish(s) = f
    BY DEF finish
  <1>2. /\ Like(s, c) /\ SameAccept(s, c) /\ c.fired = s.fired
    BY LeaveMatchLike, CloseSocketLike, LikeTransitive DEF Like, SameAccept
  <1> HIDE DEF c
  <1>3. /\ d \in Session /\ d.finished /\ d.armed = {} /\ d.pending = 0 /\ d.active = 0 /\ ~ d.queued
        /\ d.fired = c.fired /\ d.delivered = c.delivered
        /\ d.welcome_delivered = c.welcome_delivered
        /\ d.close_requested = c.close_requested /\ d.close_started = c.close_started
        /\ d.op = c.op /\ d.lease = c.lease
    BY <1>2, TicksAreNat DEF Like, Session
  <1> HIDE DEF d
  <1>4. /\ f \in Session /\ f.finished /\ f.armed = {} /\ f.pending = 0 /\ f.active = 0 /\ ~ f.queued
        /\ f.fired = d.fired /\ f.delivered = d.delivered
        /\ f.welcome_delivered = d.welcome_delivered
        /\ f.close_requested = d.close_requested /\ f.close_started = d.close_started
        /\ f.op = d.op /\ f.lease = (d.lease /\ d.op["write"] # "none")
    BY <1>3 DEF release_unless_written, Session
  <1> HIDE DEF f
  <1>5. \A o \in Writes \cup {"accept"} : f.op[o] = "none" <=> s.op[o] = "none"
    BY <1>2, <1>3, <1>4 DEF Like, SameAccept
  <1>6. f.lease <=> s.lease /\ s.op["write"] # "none"
    BY <1>2, <1>3, <1>4, <1>5 DEF Like, Writes
  <1>7. /\ f.fired = s.fired /\ f.delivered = s.delivered
        /\ f.welcome_delivered = s.welcome_delivered
        /\ f.close_requested = s.close_requested
        /\ f.close_started = s.close_started
    BY <1>2, <1>3, <1>4 DEF Like
  <1> QED
    BY <1>1, <1>4, <1>5, <1>6, <1>7

\* finish leaves a sound session behind, whatever was outstanding.
LEMMA FinishSound ==
  ASSUME NEW n \in Nat, NEW s, Finishable(s), AcceptedFirst(s)
  PROVE  Sound(finish(s), n)
  <1> DEFINE f == finish(s)
  <1>1. s \in Session /\ ~ s.finished
    BY DEF Finishable
  <1>2. /\ f \in Session
        /\ f.finished /\ f.armed = {} 
        /\ f.pending = 0 /\ f.active = 0 /\ ~ f.queued
        /\ f.fired = s.fired
        /\ f.close_requested = s.close_requested
        /\ f.close_started = s.close_started
        /\ \A o \in Writes \cup {"accept"} : f.op[o] = "none" <=> s.op[o] = "none"
        /\ f.lease <=> s.lease /\ s.op["write"] # "none"
    BY <1>1, FinishFields
  <1> HIDE DEF f
  <1>3. OneFrame(f)
    BY <1>2 DEF OneFrame, Finishable
  <1>4. WriteInv(f)
    BY <1>2 DEF WriteInv, Finishable, Writes
  <1>5. CloseInv(f)
    BY <1>2 DEF CloseInv, Finishable, Writes
  <1>6. DeliveryInv(f, n)
    BY <1>2 DEF DeliveryInv
  <1>7. AcceptedFirst(f)
    BY <1>2 DEF AcceptedFirst
  <1> QED
    BY <1>2, <1>3, <1>4, <1>5, <1>6, <1>7 DEF Sound, f

\* A sound session can be finished.
LEMMA SoundFinishable ==
  ASSUME NEW n, NEW s, Sound(s, n), ~ s.finished
  PROVE  Finishable(s) /\ AcceptedFirst(s)
  BY DEF Sound, Finishable, WriteInv, CloseInv

---------------------------------------------------------------------------

\* What begin_close changes when no frame is being written.
LEMMA BeginCloseFields ==
  ASSUME NEW s \in Session,
         ~ s.finished, ~ s.close_started, ~ data_write_active(s), ~ control_write_active(s)
  PROVE  /\ begin_close(s) = [s EXCEPT !.close_started = TRUE, !.op = [s.op EXCEPT !["close"] = "pending"]]
         /\ begin_close(s) \in Session /\ begin_close(s).close_started
         /\ begin_close(s).op = [s.op EXCEPT !["close"] = "pending"]
         /\ begin_close(s).armed = s.armed /\ begin_close(s).fired = s.fired
         /\ begin_close(s).welcome_write_active = s.welcome_write_active
         /\ begin_close(s).welcome_delivered = s.welcome_delivered
         /\ begin_close(s).pending = s.pending /\ begin_close(s).active = s.active
         /\ begin_close(s).delivered = s.delivered
         /\ begin_close(s).lease = s.lease /\ begin_close(s).queued = s.queued
         /\ begin_close(s).close_requested = s.close_requested
         /\ begin_close(s).finished = s.finished
  <1> DEFINE t == [s EXCEPT !.close_started = TRUE, !.op = [s.op EXCEPT !["close"] = "pending"]]
  <1>1. begin_close(s) = t
    BY DEF begin_close
  <1>2. /\ t \in Session /\ t.close_started
        /\ t.op = [s.op EXCEPT !["close"] = "pending"]
        /\ t.armed = s.armed /\ t.fired = s.fired
         /\ t.welcome_write_active = s.welcome_write_active
         /\ t.welcome_delivered = s.welcome_delivered
         /\ t.pending = s.pending /\ t.active = s.active
         /\ t.delivered = s.delivered
         /\ t.lease = s.lease /\ t.queued = s.queued
         /\ t.close_requested = s.close_requested
         /\ t.finished = s.finished
    BY DEF Session, Operations, OperationStates
  <1> QED
    BY <1>1, <1>2

\* begin_close keeps a session that has decided to close sound.
LEMMA BeginCloseSound ==
  ASSUME NEW n, NEW s, Sound(s, n), s.close_requested
  PROVE  Sound(begin_close(s), n)
  <1>0. s \in Session
    BY DEF Sound
  <1>1. CASE s.finished \/ s.close_started \/ data_write_active(s) \/ control_write_active(s)
    BY <1>1 DEF begin_close
  <1>2. CASE ~ s.finished /\ ~ s.close_started /\ ~ data_write_active(s) /\ ~ control_write_active(s)
    <2> DEFINE t == begin_close(s)
    <2>1. /\ t \in Session /\ t.close_started
          /\ t.op = [s.op EXCEPT !["close"] = "pending"]
          /\ t.armed = s.armed /\ t.fired = s.fired
          /\ t.welcome_write_active = s.welcome_write_active
          /\ t.welcome_delivered = s.welcome_delivered
          /\ t.pending = s.pending /\ t.active = s.active
          /\ t.delivered = s.delivered
          /\ t.lease = s.lease /\ t.queued = s.queued
          /\ t.close_requested = s.close_requested
          /\ t.finished = s.finished
      BY <1>0, <1>2, BeginCloseFields
    <2>2. s.op \in [Operations -> OperationStates]
      BY <1>0 DEF Session
    <2> HIDE DEF t
    <2>3. /\ t.op["close"] = "pending"
          /\ t.op["write"] = s.op["write"] /\ t.op["ping"] = s.op["ping"]
          /\ t.op["accept"] = s.op["accept"]
      BY <2>1, <2>2 DEF Operations
    <2>4. s.op["write"] = "none" /\ s.op["ping"] = "none"
      BY <1>2 DEF Sound, WriteInv, control_write_active
    <2>5. OneFrame(t)
      BY <2>3, <2>4 DEF OneFrame, Writes
    <2>6. WriteInv(t)
      BY <1>2, <2>1, <2>3, <2>4 DEF WriteInv
    <2>7. CloseInv(t)
      BY <1>2, <2>1, <2>3 DEF CloseInv, Sound
    <2>8. DeliveryInv(t, n)
      BY <2>1 DEF DeliveryInv, Sound
    <2>9. AcceptedFirst(t)
      BY <2>1, <2>3 DEF AcceptedFirst, Sound
    <2> QED
      BY <2>1, <2>5, <2>6, <2>7, <2>8, <2>9 DEF Sound, t
  <1> QED
    BY <1>1, <1>2

\* What the peer is told of is the same in s and t.
Told(s, t) == t.welcome_delivered = s.welcome_delivered /\ t.delivered = s.delivered

\* The peer sees no difference.
Unseen(s, t) ==
    /\ Told(s, t) /\ StreamPhase(t) = StreamPhase(s) /\ StreamWire(t) = StreamWire(s)

\* The connection decides to close; the close frame may go out at once.
Closes(s, t) ==
    /\ Told(s, t) /\ StreamPhase(s) \in {"connecting", "open"} /\ StreamPhase(t) = "closing"
    /\ \/ StreamWire(t) = StreamWire(s)
       \/ StreamWire(s) = 0 /\ StreamWire(t) = -2

\* The close frame goes out.
SaysClose(s, t) ==
    /\ Told(s, t) /\ StreamPhase(s) = "closing" /\ StreamPhase(t) = "closing"
    /\ StreamWire(s) = 0 /\ StreamWire(t) = -2

\* The connection is gone.
Ends(s, t) ==
    /\ Told(s, t) /\ StreamPhase(s) # "over" /\ StreamPhase(t) = "over" /\ StreamWire(t) = 0

\* The upgrade is complete.
Opens(s, t) ==
    /\ Told(s, t) /\ StreamPhase(s) = "connecting" /\ StreamPhase(t) = "open"
    /\ StreamWire(t) = StreamWire(s)

\* How the phase and the wire are read off a session.
LEMMA PhaseCases ==
  ASSUME NEW s \in Session
  PROVE  /\ s.finished => StreamPhase(s) = "over" /\ StreamWire(s) = 0
         /\ ~ s.finished /\ s.close_requested => StreamPhase(s) = "closing"
         /\ ~ s.finished /\ ~ s.close_requested => 
                StreamPhase(s) = IF s.op["accept"] # "none" THEN "connecting" ELSE "open"
         /\ ~ s.finished /\ s.op["write"] # "none" =>
                StreamWire(s) = IF s.welcome_write_active THEN -1 ELSE s.active
         /\ ~ s.finished /\ s.op["write"] = "none" =>
                StreamWire(s) = IF s.close_started THEN -2 ELSE 0
  BY DEF StreamPhase, StreamWire

\* To the peer, finish ends the stream.
LEMMA FinishEnds ==
  ASSUME NEW s \in Session, ~ s.finished, NEW r \in Session, ~ r.finished, Told(r, s)
  PROVE  Ends(r, finish(s))
  <1>1. /\ finish(s) \in Session /\ finish(s).finished
        /\ Told(s, finish(s))
    BY FinishFields DEF Told
  <1>2. Told(r, finish(s))
    BY <1>1 DEF Told
  <1>3. StreamPhase(finish(s)) = "over" /\ StreamWire(finish(s)) = 0
    BY <1>1, PhaseCases
  <1>4. StreamPhase(r) # "over"
    BY PhaseCases
  <1> QED
    BY <1>2, <1>3, <1>4 DEF Ends

\* To the peer, begin_close is a close frame or nothing.
LEMMA BeginCloseSeen ==
  ASSUME NEW n, NEW s, Sound(s, n), s.close_requested
  PROVE  Unseen(s, begin_close(s)) \/ SaysClose(s, begin_close(s))
  <1>0. s \in Session
    BY DEF Sound
  <1>1. CASE s.finished \/ s.close_started \/ data_write_active(s) \/ control_write_active(s)
    BY <1>1 DEF begin_close, Unseen, Told
  <1>2. CASE ~ s.finished /\ ~ s.close_started /\ ~ data_write_active(s) /\ ~ control_write_active(s)
    <2> DEFINE t == begin_close(s)
    <2>1. /\ t \in Session /\ t.close_started
          /\ t.op = [s.op EXCEPT !["close"] = "pending"]
          /\ t.welcome_delivered = s.welcome_delivered
          /\ t.delivered = s.delivered
          /\ t.close_requested = s.close_requested
          /\ t.finished = s.finished
      BY <1>0, <1>2, BeginCloseFields
    <2>2. s.op \in [Operations -> OperationStates]
      BY <1>0 DEF Session
    <2> HIDE DEF t
    <2>3. t.op["write"] = s.op["write"]
      BY <2>1, <2>2 DEF Operations
    <2>4. s.op["write"] = "none"
      BY <1>2 DEF Sound, WriteInv
    <2>5. StreamPhase(s) = "closing" /\ StreamWire(s) = 0
      BY <1>0, <1>2, <2>4, PhaseCases
    <2>6. StreamPhase(t) = "closing" /\ StreamWire(t) = -2
      BY <1>2, <2>1, <2>3, <2>4, PhaseCases
    <2> QED
      BY <2>1, <2>5, <2>6 DEF SaysClose, Told, t
  <1> QED
    BY <1>1, <1>2

\* request_close keeps a session sound; to the peer it closes the stream, or is
\* nothing if it was closing.
LEMMA RequestCloseSound ==
  ASSUME NEW n \in Nat, NEW s, Sound(s, n), NEW intent \in Intents
  PROVE  /\ Sound(request_close(s, intent), n)
         /\ IF s.finished \/ s.close_requested THEN request_close(s, intent) = s
            ELSE Closes(s, request_close(s, intent))
  <1>0. s \in Session
    BY DEF Sound
  <1>1. CASE s.finished \/ s.close_requested
    BY <1>1 DEF request_close
  <1>2. CASE ~ (s.finished \/ s.close_requested)
    <2> DEFINE c == cancel_timer(s, {"presentation", "idle", "pong"})
               d == [c EXCEPT !.close_requested = TRUE, !.queued = FALSE, !.intent = intent,
                              !.pending = 0]
               e == leave_match(d)
    <2>1. request_close(s, intent) = begin_close(e)
      BY <1>2 DEF request_close
    <2>2. Like(s, c) /\ c.op = s.op /\ c.armed \in SUBSET s.armed /\ c.fired = s.fired
      BY <1>0, CancelLike DEF Timers
    <2> HIDE DEF c
    <2>3. /\ d \in Session /\ d.close_requested /\ ~ d.queued /\ d.pending = 0
          /\ d.op = s.op /\ d.armed \in SUBSET s.armed /\ d.fired = s.fired
          /\ d.welcome_write_active = s.welcome_write_active
          /\ d.welcome_delivered = s.welcome_delivered
          /\ d.active = s.active /\ d.delivered = s.delivered
          /\ d.lease = s.lease /\ d.close_started = s.close_started
          /\ d.finished = s.finished
      BY <2>2, TicksAreNat DEF Like, Session
    <2> HIDE DEF d
    <2>4. OneFrame(d) /\ AcceptedFirst(d)
      BY <2>3 DEF Sound, OneFrame, AcceptedFirst
    <2>5. WriteInv(d)
      BY <2>3 DEF Sound, WriteInv, data_write_active
    <2>6. CloseInv(d)
      BY <2>3, <1>2 DEF Sound, CloseInv
    <2>7. DeliveryInv(d, n)
      BY <2>3 DEF Sound, DeliveryInv
    <2>8. Sound(d, n)
      BY <2>3, <2>4, <2>5, <2>6, <2>7 DEF Sound
    <2>9. Like(d, e) /\ e.op = d.op /\ e.armed = d.armed /\ e.fired = d.fired
      BY <2>3, LeaveMatchLike
    <2> HIDE DEF e
    <2>10. Sound(e, n) /\ e.close_requested
      BY <2>3, <2>4, <2>8, <2>9, LikeSound DEF AcceptedFirst, Like
    <2>11. Sound(begin_close(e), n)
      BY <2>10, BeginCloseSound
    <2>12. ~ s.close_started
      BY <1>2 DEF Sound, CloseInv
    <2>13. Told(s, e) /\ StreamPhase(e) = "closing" /\ StreamWire(e) = StreamWire(s)
           /\ StreamPhase(s) \in {"connecting", "open"}
      <3>1. Told(s, e) /\ e \in Session /\ ~ e.finished /\ ~ e.close_started
            /\ e.op["write"] = s.op["write"] /\ e.active = s.active
            /\ e.welcome_write_active = s.welcome_write_active
        BY <1>2, <2>3, <2>9, <2>12 DEF Told, Like
      <3>2. StreamPhase(e) = "closing" /\ StreamPhase(s) \in {"connecting", "open"}
        BY <1>0, <1>2, <3>1, <2>10, PhaseCases
      <3>3. StreamWire(e) = StreamWire(s)
        BY <1>0, <1>2, <2>12, <3>1, PhaseCases
      <3> QED
        BY <3>1, <3>2, <3>3
    <2>14. Unseen(e, begin_close(e)) \/ SaysClose(e, begin_close(e))
      BY <2>10, BeginCloseSeen
    <2>15. Closes(s, begin_close(e))
      BY <2>13, <2>14 DEF Unseen, SaysClose, Closes, Told
    <2> QED
      BY <1>2, <2>1, <2>11, <2>15
  <1> QED
    BY <1>1, <1>2

---------------------------------------------------------------------------

\* A frame goes out: the welcome, or the latest snapshot, newer than the last.
Begins(s, t, n) ==
    /\ Told(s, t) /\ StreamPhase(s) = "open" /\ StreamPhase(t) = "open"
    /\ StreamWire(s) = 0
    /\ IF s.welcome_delivered THEN n > s.delivered /\ StreamWire(t) = n
                              ELSE StreamWire(t) = -1

\* The frame has left, and a close frame may follow at once.
Sends(s, t) ==
    /\ StreamPhase(t) = StreamPhase(s)
    /\ StreamWire(s) \notin {0, -2}
    /\ t.welcome_delivered = TRUE
    /\ t.delivered = IF StreamWire(s) = -1 THEN s.delivered ELSE StreamWire(s)
    /\ \/ StreamWire(t) = 0
       \/ StreamPhase(s) = "closing" /\ StreamWire(t) = -2

\* What the peer may see of a step from s to t when n is the latest tick.
Seen(s, t, n) ==
    \/ Unseen(s, t) \/ Opens(s, t) \/ Begins(s, t, n) \/ Sends(s, t)
    \/ Closes(s, t) \/ SaysClose(s, t) \/ Ends(s, t)

\* What a peer sees of a step is not changed by what it does not see before.
LEMMA UnseenThen ==
  ASSUME NEW s, NEW t, NEW u, NEW n, Unseen(s, t), Seen(t, u, n)
  PROVE  Seen(s, u, n)
  BY DEF Unseen, Seen, Opens, Begins, Sends, Closes, SaysClose, Ends, Told

\* Nor by what it does not see after.
LEMMA ThenUnseen ==
  ASSUME NEW s, NEW t, NEW u, NEW n, Seen(s, t, n), Unseen(t, u)
  PROVE  Seen(s, u, n)
  BY DEF Unseen, Seen, Opens, Begins, Sends, Closes, SaysClose, Ends, Told

\* Changing only handlers and timers, other than the accept, is sound and
\* unseen.
LEMMA LikeStep ==
  ASSUME NEW n, NEW s, Sound(s, n), NEW t, Like(s, t), SameAccept(s, t), AcceptedFirst(t)
  PROVE  Sound(t, n) /\ Unseen(s, t)
  <1>1. s \in Session
    BY DEF Sound
  <1>2. StreamPhase(t) = StreamPhase(s) /\ StreamWire(t) = StreamWire(s)
    BY <1>1, LikeWire
  <1>3. Told(s, t)
    BY DEF Like, Told
  <1> QED
    BY <1>1, <1>2, <1>3, LikeSound DEF Unseen

\* request_close is sound, and a step of the stream.
LEMMA RequestCloseStep ==
  ASSUME NEW n \in Nat, NEW s, Sound(s, n), NEW intent \in Intents
  PROVE  Sound(request_close(s, intent), n) /\ Seen(s, request_close(s, intent), n)
  BY RequestCloseSound DEF Seen, Unseen, Told

\* So is report_session_failure; it closes the stream or is not seen.
LEMMA ReportFailureStep ==
  ASSUME NEW n \in Nat, NEW s, Sound(s, n)
  PROVE  /\ Sound(report_session_failure(s), n)
         /\ \/ Closes(s, report_session_failure(s))
            \/ Unseen(s, report_session_failure(s))
  <1> DEFINE r == request_close(s, "internal_failure")
             t == [r EXCEPT !.posted = @ \cup {"fail"}]
  <1>1. Sound(r, n) /\ (Closes(s, r) \/ Unseen(s, r))
    BY RequestCloseSound DEF Intents, Unseen, Told
  <1>2. r \in Session
    BY <1>1 DEF Sound
  <1> HIDE DEF r
  <1>3. Like(r, t) /\ t.op = r.op /\ t.armed = r.armed /\ t.fired = r.fired
    BY <1>2 DEF Like, Session
  <1>4. Sound(t, n) /\ Unseen(r, t)
    <2>1. AcceptedFirst(t)
      BY <1>1, <1>3 DEF Sound, AcceptedFirst
    <2>2. SameAccept(r, t)
      BY <1>3 DEF SameAccept
    <2> HIDE DEF t
    <2> QED
      BY <1>1, <1>3, <2>1, <2>2, LikeStep
  <1>5. report_session_failure(s) = t
    BY DEF report_session_failure, r
  <1> HIDE DEF t
  <1> QED
    BY <1>1, <1>4, <1>5 DEF Closes, Unseen, Told

\* finish, of a session the peer was told nothing new by, is sound and ends the
\* stream or is not seen.
LEMMA FinishStep ==
  ASSUME NEW n \in Nat, NEW r \in Session, NEW s, Told(r, s), r.finished = s.finished,
         s.finished => Sound(s, n), ~ s.finished => Finishable(s) /\ AcceptedFirst(s)
  PROVE  Sound(finish(s), n) /\ Seen(r, finish(s), n)
  <1>1. CASE s.finished
    <2>1. finish(s) = s /\ s \in Session
      BY <1>1 DEF finish, Sound
    <2>2. Unseen(r, s)
      BY <1>1, <2>1, PhaseCases DEF Unseen
    <2> QED
      BY <1>1, <2>1, <2>2 DEF Seen
  <1>2. CASE ~ s.finished
    <2>1. s \in Session
      BY <1>2 DEF Finishable
    <2>2. Ends(r, finish(s))
      BY <1>2, <2>1, FinishEnds
    <2> QED
      BY <1>2, <2>2, FinishSound DEF Seen
  <1> QED
    BY <1>1, <1>2

\* read_client_frame is sound and unseen.
LEMMA ReadStep ==
  ASSUME NEW n, NEW s, Sound(s, n)
  PROVE  /\ Sound(read_client_frame(s), n) /\ Unseen(s, read_client_frame(s))
         /\ read_client_frame(s).op["accept"] = s.op["accept"]
  <1>0. s \in Session
    BY DEF Sound
  <1>1. CASE s.finished \/ s.close_requested
    BY <1>1 DEF read_client_frame, Unseen, Told
  <1>2. CASE ~ (s.finished \/ s.close_requested)
    <2> DEFINE t == [s EXCEPT !.op["read"] = "pending"]
    <2>1. read_client_frame(s) = t
      BY <1>2 DEF read_client_frame
    <2>2. Like(s, t) /\ t.op["accept"] = s.op["accept"] /\ t.armed = s.armed /\ t.fired = s.fired
      BY <1>0 DEF Like, Session, Operations, OperationStates, Writes
    <2> HIDE DEF t
    <2>3. AcceptedFirst(t) /\ SameAccept(s, t)
      BY <2>2 DEF AcceptedFirst, Sound, SameAccept
    <2> QED
      BY <2>1, <2>2, <2>3, LikeStep
  <1> QED
    BY <1>1, <1>2

\* schedule_presentation_slot is, once the accept handler has run.
LEMMA ScheduleSlotStep ==
  ASSUME NEW n, NEW s, Sound(s, n), s.close_requested \/ s.op["accept"] = "none"
  PROVE  /\ Sound(schedule_presentation_slot(s), n)
         /\ Unseen(s, schedule_presentation_slot(s))
  <1>0. s \in Session
    BY DEF Sound
  <1>1. CASE s.finished \/ s.close_requested
    BY <1>1 DEF schedule_presentation_slot, Unseen, Told
  <1>2. CASE ~ (s.finished \/ s.close_requested)
    <2> DEFINE t == Arm(s, "presentation")
    <2>1. schedule_presentation_slot(s) = t
      BY <1>2 DEF schedule_presentation_slot
    <2>2. Like(s, t) /\ t.op = s.op
      BY <1>0, ArmLike DEF Timers
    <2> HIDE DEF t
    <2>3. AcceptedFirst(t) /\ SameAccept(s, t)
      BY <1>2, <2>2 DEF AcceptedFirst, SameAccept
    <2> QED
      BY <2>1, <2>2, <2>3, LikeStep
  <1> QED
    BY <1>1, <1>2

\* Arming another timer is.
LEMMA ArmStep ==
  ASSUME NEW n, NEW s, Sound(s, n), NEW t \in Timers \ {"presentation"}
  PROVE  Sound(Arm(s, t), n) /\ Unseen(s, Arm(s, t)) /\ Arm(s, t).op = s.op
  <1>1. s \in Session
    BY DEF Sound
  <1>2. /\ Like(s, Arm(s, t)) /\ Arm(s, t).op = s.op
        /\ Arm(s, t).armed = s.armed \cup {t} /\ Arm(s, t).fired = s.fired
    BY <1>1, ArmLike
  <1>3. AcceptedFirst(Arm(s, t)) /\ SameAccept(s, Arm(s, t))
    BY <1>2 DEF AcceptedFirst, Sound, SameAccept
  <1> QED
    BY <1>2, <1>3, LikeStep

\* Hearing a frame is.
LEMMA HeardStep ==
  ASSUME NEW n, NEW s, Sound(s, n), NEW b \in BOOLEAN
  PROVE  LET t == [s EXCEPT !.heard = b] IN
         Sound(t, n) /\ Unseen(s, t) /\ t.op = s.op
  <1> DEFINE t == [s EXCEPT !.heard = b]
  <1>1. s \in Session
    BY DEF Sound
  <1>2. Like(s, t) /\ t.op = s.op /\ t.armed = s.armed /\ t.fired = s.fired
    BY <1>1 DEF Like, Session
  <1> HIDE DEF t
  <1>3. AcceptedFirst(t) /\ SameAccept(s, t)
    BY <1>2 DEF AcceptedFirst, Sound, SameAccept
  <1>4. Sound(t, n) /\ Unseen(s, t) /\ t.op = s.op
    BY <1>2, <1>3, LikeStep
  <1> QED
    BY <1>4 DEF t

\* Two unseen changes are one.
LEMMA UnseenTransitive ==
  ASSUME NEW s, NEW t, NEW u, Unseen(s, t), Unseen(t, u)
  PROVE  Unseen(s, u)
  BY DEF Unseen, Told

\* schedule_idle_check is sound and unseen.
LEMMA ScheduleIdleStep ==
  ASSUME NEW n, NEW s, Sound(s, n)
  PROVE  /\ Sound(schedule_idle_check(s), n) /\ Unseen(s, schedule_idle_check(s))
         /\ schedule_idle_check(s).op = s.op
  <1>1. CASE s.finished \/ s.close_requested \/ "idle" \in s.armed \cup s.fired
    BY <1>1 DEF schedule_idle_check, Unseen, Told
  <1>2. CASE ~ (s.finished \/ s.close_requested \/ "idle" \in s.armed \cup s.fired)
    <2>1. schedule_idle_check(s) = [Arm(s, "idle") EXCEPT !.heard = FALSE]
      BY <1>2 DEF schedule_idle_check
    <2>2. Sound(Arm(s, "idle"), n) /\ Unseen(s, Arm(s, "idle")) /\ Arm(s, "idle").op = s.op
      BY ArmStep DEF Timers
    <2> QED
      BY <2>1, <2>2, HeardStep, UnseenTransitive
  <1> QED
    BY <1>1, <1>2

\* A timer handler that begins to run is.
LEMMA RanStep ==
  ASSUME NEW n, NEW s, Sound(s, n), NEW t \in Timers
  PROVE  Sound(Ran(s, t), n) /\ Unseen(s, Ran(s, t)) /\ Ran(s, t).op = s.op
  <1>1. s \in Session
    BY DEF Sound
  <1>2. /\ Like(s, Ran(s, t)) /\ Ran(s, t).op = s.op
        /\ Ran(s, t).armed = s.armed /\ Ran(s, t).fired = s.fired \ {t}
    BY <1>1, RanLike
  <1>3. AcceptedFirst(Ran(s, t)) /\ SameAccept(s, Ran(s, t))
    BY <1>2 DEF AcceptedFirst, Sound, SameAccept
  <1> QED
    BY <1>2, <1>3, LikeStep

---------------------------------------------------------------------------

\* t is s with other deliveries: no handler, timer or decision differs.
Edited(s, t) ==
    /\ t \in Session /\ t.op = s.op /\ t.armed = s.armed /\ t.fired = s.fired
    /\ Told(s, t)
    /\ t.close_requested = s.close_requested /\ t.close_started = s.close_started
    /\ t.finished = s.finished

\* While the session is open, changing what it is owed or owns is sound and
\* unseen, if it keeps the delivery invariant and does not touch a running
\* write.
LEMMA EditStep ==
  ASSUME NEW n, NEW s, Sound(s, n), ~ s.finished, ~ s.close_requested,
         NEW t, Edited(s, t), DeliveryInv(t, n),
         \/ s.op["write"] = "none"
         \/ /\ t.lease = s.lease /\ t.welcome_write_active = s.welcome_write_active
            /\ t.active = s.active
  PROVE  Sound(t, n) /\ Unseen(s, t)
  <1>1. s \in Session
    BY DEF Sound
  <1>2. OneFrame(t) /\ AcceptedFirst(t)
    BY DEF Sound, OneFrame, AcceptedFirst, Edited
  <1>3. WriteInv(t)
    BY DEF Sound, WriteInv, data_write_active, Edited
  <1>4. CloseInv(t)
    BY DEF Sound, CloseInv, Edited
  <1>5. StreamPhase(t) = StreamPhase(s)
    BY <1>1, PhaseCases DEF Edited
  <1>6. StreamWire(t) = StreamWire(s)
    BY <1>1, PhaseCases DEF Edited
  <1> QED
    BY <1>2, <1>3, <1>4, <1>5, <1>6 DEF Sound, Unseen, Edited

\* Newest is the maximum of the three ticks a session remembers.
LEMMA NewestIsMax ==
  ASSUME NEW s \in Session
  PROVE  /\ Newest(s) \in {s.delivered, s.active, s.pending}
         /\ \A u \in {s.delivered, s.active, s.pending} : u <= Newest(s)
  <1> DEFINE S == {s.delivered, s.active, s.pending}
             P(t) == \A u \in S : u <= t
  <1>1. s.delivered \in Nat /\ s.active \in Nat /\ s.pending \in Nat
    BY TicksAreNat DEF Session
  <1>2. \E t \in S : P(t)
    <2>1. P(s.delivered) \/ P(s.active) \/ P(s.pending)
      BY <1>1
    <2> QED
      BY <2>1
  <1>3. Newest(s) = CHOOSE t \in S : P(t)
    BY DEF Newest
  <1> HIDE DEF S, P
  <1>4. Newest(s) \in S /\ P(Newest(s))
    BY <1>2, <1>3
  <1> QED
    BY <1>4 DEF S, P

\* observe is sound and unseen, and what is then pending is the latest tick,
\* newer than every snapshot the peer has.
LEMMA ObserveStep ==
  ASSUME NEW s, Sound(s, latest), latest \in 1 .. MaxTick,
         ~ s.finished, ~ s.close_requested, s.welcome_delivered
  PROVE  LET t == observe(s) IN
         /\ Sound(t, latest) /\ Unseen(s, t) /\ Edited(s, t)
         /\ t.active = s.active /\ t.welcome_write_active = s.welcome_write_active
         /\ t.pending # 0 => t.pending = latest /\ t.pending > t.delivered
  <1>1. s \in Session
    BY DEF Sound
  <1>2. s.delivered \in Nat /\ s.active \in Nat /\ s.pending \in Nat /\ latest \in Nat
    BY <1>1, TicksAreNat DEF Session
  <1>3. CASE latest > Newest(s)
    <2> DEFINE t == [s EXCEPT !.pending = latest]
    <2>1. observe(s) = t
      BY <1>3 DEF observe
    <2>2. Edited(s, t) /\ t.pending = latest /\ t.active = s.active
          /\ t.welcome_write_active = s.welcome_write_active /\ t.lease = s.lease
      BY <1>1, TicksAreNat DEF Session, Edited, Told
    <2>3. latest > s.delivered /\ latest > s.active
      <3>1. Newest(s) \in Nat /\ s.delivered <= Newest(s) /\ s.active <= Newest(s)
        BY <1>1, <1>2, NewestIsMax
      <3> QED
        BY <3>1, <1>2, <1>3
    <2> HIDE DEF t
    <2>4. DeliveryInv(t, latest)
      <3>1. t.pending # 0 => t.welcome_delivered /\ t.pending > t.delivered /\ t.pending > t.active
        BY <2>2, <2>3 DEF Edited, Told
      <3>2. t.active # 0 => t.welcome_delivered
        BY <2>2 DEF Edited, Told
      <3>3. t.pending <= latest
        BY <1>2, <2>2
      <3> QED
        BY <3>1, <3>2, <3>3 DEF DeliveryInv
    <2>5. Sound(t, latest) /\ Unseen(s, t)
      BY <2>2, <2>4, EditStep
    <2>6. t.pending = latest /\ t.pending > t.delivered
      BY <2>2, <2>3 DEF Edited, Told
    <2> QED
      BY <2>1, <2>2, <2>5, <2>6
  <1>4. CASE ~ (latest > Newest(s))
    <2>1. observe(s) = s
      BY <1>4 DEF observe
    <2>2. Unseen(s, s) /\ Edited(s, s)
      BY <1>1 DEF Unseen, Told, Edited
    <2>3. ASSUME s.pending # 0 PROVE s.pending = latest /\ s.pending > s.delivered
      <3>1. s.pending > s.delivered /\ s.pending > s.active /\ s.pending <= latest
        BY <2>3 DEF Sound, DeliveryInv
      <3>2. Newest(s) \in {s.delivered, s.active, s.pending} /\ s.pending <= Newest(s)
        BY <1>1, NewestIsMax
      <3>3. Newest(s) = s.pending
        BY <1>2, <3>1, <3>2
      <3> QED
        BY <1>2, <1>4, <3>1, <3>3
    <2> QED
      BY <2>1, <2>2, <2>3
  <1> QED
    BY <1>3, <1>4

\* A failure leaves a session that lives with the decision to close.
LEMMA ReportFailureCloses ==
  ASSUME NEW n \in Nat, NEW s, Sound(s, n), ~ s.finished
  PROVE  report_session_failure(s).close_requested
  <1> DEFINE r == request_close(s, "internal_failure")
  <1>1. Sound(r, n) /\ (IF s.close_requested THEN r = s ELSE Closes(s, r))
    BY RequestCloseSound DEF Intents
  <1>2. r \in Session
    BY <1>1 DEF Sound
  <1>3. r.close_requested
    BY <1>1, <1>2, PhaseCases DEF Closes
  <1> HIDE DEF r
  <1>4. [r EXCEPT !.posted = @ \cup {"fail"}].close_requested = r.close_requested
    BY <1>2 DEF Session
  <1> QED
    BY <1>3, <1>4 DEF report_session_failure, r

\* A data frame may go out, and this is the state in which s owns it.
MayWrite(s, n) ==
    /\ ~ s.finished /\ ~ s.close_requested
    /\ s.op["write"] = "none" /\ s.op["ping"] = "none" /\ s.op["accept"] = "none"
    /\ IF s.welcome_delivered
       THEN ~ s.welcome_write_active /\ s.active = n /\ n > s.delivered
       ELSE s.welcome_write_active

\* Starting the write puts the frame on the wire that the stream asks for.
LEMMA GrantedStep ==
  ASSUME NEW n \in Nat \ {0}, NEW s, Sound(s, n), MayWrite(s, n), s.lease
  PROVE  LET t == [s EXCEPT !.op["write"] = "pending"] IN
         Sound(t, n) /\ Begins(s, t, n) /\ t.op["accept"] = "none"
  <1> DEFINE t == [s EXCEPT !.op["write"] = "pending"]
  <1>1. s \in Session
    BY DEF Sound
  <1>2. /\ t \in Session /\ t.op["write"] = "pending" /\ t.op["ping"] = s.op["ping"]
        /\ t.op["close"] = s.op["close"] /\ t.op["accept"] = s.op["accept"]
    BY <1>1 DEF Session, Operations, OperationStates
  <1>3. /\ t.armed = s.armed /\ t.fired = s.fired /\ t.lease = s.lease /\ t.queued = s.queued
        /\ t.welcome_write_active = s.welcome_write_active
        /\ t.welcome_delivered = s.welcome_delivered
        /\ t.pending = s.pending /\ t.active = s.active /\ t.delivered = s.delivered
        /\ t.close_requested = s.close_requested /\ t.close_started = s.close_started
        /\ t.finished = s.finished
    BY <1>1 DEF Session
  <1> HIDE DEF t
  <1>4. s.op["close"] = "none" /\ ~ s.close_started
    BY DEF Sound, CloseInv, MayWrite
  <1>5. OneFrame(t)
    BY <1>2, <1>4 DEF OneFrame, Writes, MayWrite
  <1>6. WriteInv(t)
    BY <1>2, <1>3 DEF WriteInv, data_write_active, MayWrite
  <1>7. CloseInv(t)
    BY <1>2, <1>3 DEF CloseInv, Sound
  <1>8. DeliveryInv(t, n) /\ AcceptedFirst(t)
    BY <1>2, <1>3 DEF DeliveryInv, AcceptedFirst, Sound
  <1>9. StreamPhase(s) = "open" /\ StreamWire(s) = 0
    BY <1>1, <1>4, PhaseCases DEF MayWrite
  <1>10. StreamPhase(t) = "open" /\ StreamWire(t) = IF t.welcome_write_active THEN -1 ELSE t.active
    BY <1>2, <1>3, PhaseCases DEF MayWrite
  <1>11. Begins(s, t, n)
    BY <1>3, <1>9, <1>10 DEF Begins, Told, MayWrite
  <1>12. Sound(t, n) /\ t.op["accept"] = "none"
    BY <1>2, <1>5, <1>6, <1>7, <1>8 DEF Sound, MayWrite
  <1> QED
    BY <1>11, <1>12 DEF t

\* Whether the write starts or throws, the step is sound and the stream's.
LEMMA StartWriteStep ==
  ASSUME NEW n \in Nat \ {0}, NEW s, Sound(s, n), MayWrite(s, n),
         NEW egress \in {"granted", "encoding_throws", "write_throws"}
  PROVE  /\ Sound(StartWrite(s, egress), n) /\ Seen(s, StartWrite(s, egress), n)
         /\ \/ StartWrite(s, egress).close_requested
            \/ StartWrite(s, egress).op["accept"] = "none"
  <1> DEFINE q == [s EXCEPT !.lease = TRUE, !.queued = FALSE]
             timed == Arm(q, "deadline")
             u == [q EXCEPT !.welcome_write_active = FALSE]
             v == [timed EXCEPT !.welcome_write_active = FALSE]
  <1>1. s \in Session
    BY DEF Sound
  <1>2. /\ Edited(s, q) /\ q.lease /\ q.welcome_write_active = s.welcome_write_active
        /\ q.pending = s.pending /\ q.active = s.active
    BY <1>1 DEF Session, Edited, Told
  <1> HIDE DEF q
  <1>3. DeliveryInv(q, n)
    BY <1>2 DEF Sound, DeliveryInv, Edited, Told
  <1>4. Sound(q, n) /\ Unseen(s, q)
    BY <1>2, <1>3, EditStep DEF MayWrite
  <1>5. q \in Session /\ q.op = s.op /\ q.delivered = s.delivered
        /\ q.welcome_delivered = s.welcome_delivered /\ q.finished = s.finished
        /\ q.close_requested = s.close_requested
    BY <1>2 DEF Edited, Told
  <1>6. /\ Sound(timed, n) /\ Unseen(q, timed) /\ timed.op = q.op /\ Like(q, timed)
    BY <1>4, <1>5, ArmStep, ArmLike DEF Timers
  <1> HIDE DEF timed
  <1>7. timed \in Session /\ ~ timed.finished /\ ~ timed.close_requested
        /\ timed.op["write"] = "none" /\ timed.lease /\ MayWrite(timed, n)
    BY <1>2, <1>5, <1>6 DEF Like, MayWrite
  <1>8. CASE egress = "encoding_throws"
    <2>1. Edited(q, u) /\ u.pending = q.pending /\ u.active = q.active
      BY <1>5 DEF Session, Edited, Told
    <2> HIDE DEF u
    <2>2. DeliveryInv(u, n)
      BY <1>3, <2>1 DEF DeliveryInv, Edited, Told
    <2>3. Sound(u, n) /\ Unseen(q, u)
      BY <1>4, <1>5, <2>1, <2>2, EditStep DEF MayWrite
    <2>4. ~ u.finished
      BY <1>5, <2>1 DEF Edited, MayWrite
    <2>5. StartWrite(s, egress) = report_session_failure(u)
      BY <1>8 DEF StartWrite, u, q
    <2> QED
      BY <1>4, <2>3, <2>4, <2>5, ReportFailureStep, ReportFailureCloses, UnseenThen DEF Seen
  <1>9. CASE egress = "write_throws"
    <2>1. Edited(timed, v) /\ v.pending = timed.pending /\ v.active = timed.active
      BY <1>7 DEF Session, Edited, Told
    <2> HIDE DEF v
    <2>2. DeliveryInv(v, n)
      BY <1>6, <2>1 DEF DeliveryInv, Edited, Told, Sound
    <2>3. Sound(v, n) /\ Unseen(timed, v)
      BY <1>6, <1>7, <2>1, <2>2, EditStep
    <2>4. ~ v.finished
      BY <1>7, <2>1 DEF Edited
    <2>5. StartWrite(s, egress) = report_session_failure(v)
      BY <1>9 DEF StartWrite, v, q, timed
    <2> QED
      BY <1>4, <1>6, <2>3, <2>4, <2>5, ReportFailureStep, ReportFailureCloses, UnseenThen DEF Seen
  <1>10. CASE egress = "granted"
    <2> DEFINE w == [timed EXCEPT !.op["write"] = "pending"]
    <2>1. Sound(w, n) /\ Begins(timed, w, n) /\ w.op["accept"] = "none"
      BY <1>6, <1>7, GrantedStep
    <2>2. StartWrite(s, egress) = w
      BY <1>10 DEF StartWrite, q, timed
    <2> HIDE DEF w
    <2>3. Seen(s, w, n)
      BY <1>4, <1>6, <2>1, UnseenThen DEF Seen
    <2> QED
      BY <2>1, <2>2, <2>3
  <1> QED
    BY <1>8, <1>9, <1>10

\* So is the second half of a presentation slot.
LEMMA PresentStep ==
  ASSUME NEW s, Sound(s, latest), latest \in 1 .. MaxTick, NEW view \in Views,
         ~ s.finished, ~ s.close_requested, s.op["ping"] = "none", s.op["accept"] = "none"
  PROVE  /\ Sound(Present(s, view), latest) /\ Seen(s, Present(s, view), latest)
         /\ Present(s, view).close_requested \/ Present(s, view).op["accept"] = "none"
  <1> DEFINE seen == IF s.welcome_delivered THEN observe(s) ELSE s
             due == IF s.welcome_delivered THEN seen.pending # 0
                    ELSE observe_own_entity(s, view)
             owning == IF s.welcome_delivered THEN begin_active_write(seen)
                       ELSE [s EXCEPT !.welcome_write_active = TRUE]
             P == Present(s, view)
  <1>1. s \in Session /\ latest \in Nat \ {0} /\ latest \in Ticks
    BY TicksAreNat DEF Sound
  <1>2. /\ Sound(seen, latest) /\ Unseen(s, seen) /\ Edited(s, seen)
        /\ seen.active = s.active /\ seen.welcome_write_active = s.welcome_write_active
        /\ s.welcome_delivered /\ seen.pending # 0 =>
               seen.pending = latest /\ seen.pending > seen.delivered
    <2>1. CASE s.welcome_delivered
      BY <2>1, ObserveStep
    <2>2. CASE ~ s.welcome_delivered
      BY <2>2, <1>1 DEF Unseen, Told, Edited
    <2> QED
      BY <2>1, <2>2
  <1>3. seen \in Session /\ ~ seen.finished /\ ~ seen.close_requested /\ seen.op = s.op
        /\ seen.delivered = s.delivered /\ seen.welcome_delivered = s.welcome_delivered
    BY <1>2 DEF Edited, Told
  <1>4. CASE ~ due \/ data_write_active(s)
    <2>1. P = seen
      BY <1>4 DEF Present
    <2> QED
      BY <1>2, <1>3, <2>1 DEF Seen
  <1>5. CASE due /\ ~ data_write_active(s) /\ view.egress = "denied"
    <2> DEFINE t == [seen EXCEPT !.queued = TRUE]
    <2>1. P = t
      BY <1>5 DEF Present
    <2> HIDE DEF seen
    <2>2. Edited(seen, t) /\ t.pending = seen.pending /\ t.active = seen.active
          /\ t.lease = seen.lease /\ t.welcome_write_active = seen.welcome_write_active
      BY <1>3 DEF Session, Edited, Told
    <2> HIDE DEF t
    <2>3. DeliveryInv(t, latest)
      BY <1>2, <2>2 DEF Sound, DeliveryInv, Edited, Told
    <2>4. Sound(t, latest) /\ Unseen(seen, t)
      BY <1>2, <1>3, <2>2, <2>3, EditStep
    <2>5. t.op["accept"] = "none"
      BY <1>3, <2>2 DEF Edited
    <2> QED
      BY <1>2, <2>1, <2>4, <2>5, UnseenTransitive DEF Seen
  <1>6. CASE due /\ ~ data_write_active(s) /\ view.egress # "denied"
    <2>1. P = StartWrite(owning, view.egress)
      BY <1>6 DEF Present
    <2>2. view.egress \in {"granted", "encoding_throws", "write_throws"}
      BY <1>6 DEF Views
    <2>3. s.op["write"] = "none" /\ ~ s.welcome_write_active /\ s.active = 0
      BY <1>6 DEF Sound, WriteInv, data_write_active
    <2>4. /\ Edited(seen, owning) /\ DeliveryInv(owning, latest)
          /\ IF s.welcome_delivered
             THEN ~ owning.welcome_write_active /\ owning.active = latest
                  /\ latest > owning.delivered
             ELSE owning.welcome_write_active
      <3>1. CASE s.welcome_delivered
        <4> HIDE DEF seen
        <4> DEFINE t == [seen EXCEPT !.active = seen.pending, !.pending = 0]
        <4>1. owning = t
          BY <3>1 DEF begin_active_write
        <4>2. /\ Edited(seen, t) /\ t.pending = 0 /\ t.active = seen.pending
              /\ t.welcome_write_active = seen.welcome_write_active
          BY <1>3, TicksAreNat DEF Session, Edited, Told
        <4> HIDE DEF t
        <4>3. seen.pending # 0
          BY <1>6, <3>1 DEF seen
        <4>4. t.active = latest /\ latest > t.delivered /\ t.welcome_delivered
          BY <1>2, <1>3, <3>1, <4>2, <4>3 DEF Edited, Told
        <4>5. DeliveryInv(t, latest)
          BY <1>1, <4>2, <4>4 DEF DeliveryInv
        <4>6. ~ t.welcome_write_active
          BY <1>2, <2>3, <4>2
        <4> HIDE DEF owning
        <4> QED
          BY <3>1, <4>1, <4>2, <4>4, <4>5, <4>6
      <3>2. CASE ~ s.welcome_delivered
        <4> DEFINE t == [s EXCEPT !.welcome_write_active = TRUE]
        <4>1. owning = t /\ seen = s
          BY <3>2
        <4>2. /\ Edited(s, t) /\ t.pending = s.pending /\ t.active = s.active
              /\ t.welcome_write_active
          BY <1>1 DEF Session, Edited, Told
        <4> HIDE DEF t
        <4>3. DeliveryInv(t, latest)
          BY <4>2 DEF Sound, DeliveryInv, Edited, Told
        <4> HIDE DEF owning, seen
        <4> QED
          BY <3>2, <4>1, <4>2, <4>3
      <3> QED
        BY <3>1, <3>2
    <2> HIDE DEF owning, seen, due, P
    <2>5. Sound(owning, latest) /\ Unseen(seen, owning)
      BY <1>2, <1>3, <2>3, <2>4, EditStep
    <2>6. MayWrite(owning, latest)
      BY <1>3, <2>3, <2>4 DEF MayWrite, Edited, Told
    <2>7. Sound(P, latest) /\ Seen(owning, P, latest)
          /\ (P.close_requested \/ P.op["accept"] = "none")
      BY <1>1, <2>1, <2>2, <2>5, <2>6, StartWriteStep
    <2>8. Seen(s, P, latest)
      BY <1>2, <2>5, <2>7, UnseenThen
    <2> QED
      BY <2>7, <2>8 DEF P
  <1> QED
    BY <1>4, <1>5, <1>6

\* So is a presentation slot.
LEMMA SlotStep ==
  ASSUME NEW s, Sound(s, latest), latest \in 1 .. MaxTick, NEW view \in Views,
         s.op["accept"] = "none"
  PROVE  Sound(Slot(s, view), latest) /\ Seen(s, Slot(s, view), latest)
  <1>1. latest \in Nat
    BY TicksAreNat
  <1>2. CASE s.finished \/ s.close_requested
    <2>1. Slot(s, view) = s
      BY <1>2 DEF Slot
    <2> QED
      BY <2>1 DEF Seen, Unseen, Told
  <1>3. CASE ~ (s.finished \/ s.close_requested) /\ view.lobby = "not_ready"
    <2>1. Slot(s, view) = request_close(s, "service_not_ready")
      BY <1>3 DEF Slot
    <2> QED
      BY <1>1, <2>1, RequestCloseStep DEF Intents
  <1>4. CASE ~ (s.finished \/ s.close_requested) /\ view.lobby # "not_ready" /\ control_write_active(s)
    <2>1. Slot(s, view) = schedule_presentation_slot(s)
      BY <1>4 DEF Slot
    <2> QED
      BY <2>1, ScheduleSlotStep DEF Seen
  <1>5. CASE ~ (s.finished \/ s.close_requested) /\ view.lobby # "not_ready" /\ ~ control_write_active(s)
    <2> DEFINE asked == request_seat_if_absent(s, view)
    <2>1. Slot(s, view) = IF asked.close_requested THEN asked
                          ELSE schedule_presentation_slot(Present(asked, view))
      BY <1>5 DEF Slot
    <2>2. CASE s.controller /\ view.lobby = "full"
      <3>1. asked = request_close(s, "lobby_full")
        BY <2>2 DEF request_seat_if_absent
      <3>2. Sound(asked, latest) /\ Closes(s, asked)
        BY <1>1, <1>5, <3>1, RequestCloseSound DEF Intents
      <3> HIDE DEF asked
      <3>3. asked.close_requested
        BY <3>2, PhaseCases DEF Closes, Sound
      <3> QED
        BY <2>1, <3>2, <3>3 DEF Seen
    <2>3. CASE ~ (s.controller /\ view.lobby = "full")
      <3>1. asked = s
        BY <2>3 DEF request_seat_if_absent
      <3>2. Slot(s, view) = schedule_presentation_slot(Present(s, view))
        BY <1>5, <2>1, <3>1
      <3>3. /\ Sound(Present(s, view), latest) /\ Seen(s, Present(s, view), latest)
            /\ Present(s, view).close_requested \/ Present(s, view).op["accept"] = "none"
        BY <1>5, PresentStep DEF control_write_active
      <3> QED
        BY <3>2, <3>3, ScheduleSlotStep, ThenUnseen
    <2> QED
      BY <2>2, <2>3
  <1> QED
    BY <1>2, <1>3, <1>4, <1>5

---------------------------------------------------------------------------

\* A step of the session's own: what it leaves behind is sound, and what the
\* peer sees of it is a step of its stream.
SessionStep == Sound(session', latest) /\ Seen(session, session', latest)

\* The accept handler begins: sound, and to the peer the upgrade is complete.
LEMMA DoneAccept ==
  ASSUME NEW n, NEW s, Sound(s, n)
  PROVE  LET t == Done(s, "accept") IN
         /\ Sound(t, n) /\ Told(s, t) /\ t.finished = s.finished
         /\ t.close_requested = s.close_requested
         /\ t.op["accept"] = "none" /\ StreamWire(t) = StreamWire(s)
         /\ s.op["accept"] # "none" => Unseen(s, t) \/ Opens(s, t)
  <1> DEFINE t == Done(s, "accept")
  <1>1. s \in Session
    BY DEF Sound
  <1>2. Like(s, t) /\ t.op["accept"] = "none" /\ t.armed = s.armed /\ t.fired = s.fired
    BY <1>1, DoneLike
  <1> HIDE DEF t
  <1>3. Sound(t, n)
    BY <1>1, <1>2, LikeSound DEF AcceptedFirst
  <1>4. /\ Told(s, t) /\ t.finished = s.finished /\ t.close_requested = s.close_requested
        /\ StreamWire(t) = StreamWire(s) /\ t \in Session
    BY <1>1, <1>2, LikeWire DEF Told, Like
  <1>5. ASSUME s.op["accept"] # "none" PROVE Unseen(s, t) \/ Opens(s, t)
    <2>1. CASE s.finished
      <3>1. t.finished
        BY <1>4, <2>1
      <3>2. StreamPhase(s) = "over"
        BY <1>1, <2>1, PhaseCases
      <3>3. StreamPhase(t) = "over"
        BY <1>4, <3>1, PhaseCases
      <3> QED
        BY <1>4, <3>2, <3>3 DEF Unseen
    <2>2. CASE ~ s.finished /\ s.close_requested
      <3>1. ~ t.finished /\ t.close_requested
        BY <1>4, <2>2
      <3>2. StreamPhase(s) = "closing"
        BY <1>1, <2>2, PhaseCases
      <3>3. StreamPhase(t) = "closing"
        BY <1>4, <3>1, PhaseCases
      <3> QED
        BY <1>4, <3>2, <3>3 DEF Unseen
    <2>3. CASE ~ s.finished /\ ~ s.close_requested
      BY <1>1, <1>2, <1>4, <1>5, <2>3, PhaseCases DEF Opens
    <2> QED
      BY <2>1, <2>2, <2>3
  <1> QED
    BY <1>2, <1>3, <1>4, <1>5 DEF t

\* An accept handler that ends in a close only closes the stream.
LEMMA OpensThenCloses ==
  ASSUME NEW s \in Session, NEW t \in Session, NEW u, NEW n,
         Unseen(s, t) \/ Opens(s, t), Closes(t, u) \/ Unseen(t, u)
  PROVE  Seen(s, u, n)
  BY DEF Unseen, Opens, Closes, Told, Seen

\* accepted: the upgrade succeeds or fails, whatever happened meanwhile.
LEMMA AcceptedStep ==
  ASSUME Inv, Accepted
  PROVE  SessionStep
  <1> DEFINE s == Done(session, "accept")
  <1>1. latest \in Nat /\ Sound(session, latest) /\ session \in Session
    BY TicksAreNat DEF Inv, Sound
  <1>2. /\ Sound(s, latest) /\ Told(session, s) /\ s.finished = session.finished
        /\ s.op["accept"] = "none"
        /\ session.op["accept"] # "none" => Unseen(session, s) \/ Opens(session, s)
    BY <1>1, DoneAccept
  <1>3. s \in Session
    BY <1>2 DEF Sound
  <1>4. \/ session' = finish(s)
        \/ session.op["accept"] # "none" /\ session' =
              schedule_presentation_slot(schedule_idle_check(
                              read_client_frame([s EXCEPT !.controller = TRUE])))
        \/ session.op["accept"] # "none" /\ session' = request_close(s, "service_not_ready")
        \/ session.op["accept"] # "none" /\ session' = report_session_failure(s)
    BY DEF Accepted, Completes
  <1> HIDE DEF s
  <1>5. CASE session' = finish(s)
    <2>1. ~ s.finished => Finishable(s) /\ AcceptedFirst(s)
      BY <1>2, SoundFinishable
    <2> QED
      BY <1>1, <1>2, <1>5, <2>1, FinishStep DEF SessionStep
  <1>6. CASE session.op["accept"] # "none" /\ session' =
              schedule_presentation_slot(schedule_idle_check(
                              read_client_frame([s EXCEPT !.controller = TRUE])))
    <2> DEFINE t == [s EXCEPT !.controller = TRUE]
               u == read_client_frame(t)
               v == schedule_idle_check(u)
    <2>1. Like(s, t) /\ t.op = s.op /\ t.armed = s.armed /\ t.fired = s.fired
      BY <1>3 DEF Like, Session
    <2> HIDE DEF t
    <2>2. AcceptedFirst(t) /\ SameAccept(s, t)
      BY <1>2, <2>1 DEF AcceptedFirst, SameAccept
    <2>3. Sound(t, latest) /\ Unseen(s, t)
      BY <1>2, <2>1, <2>2, LikeStep
    <2>4. Sound(u, latest) /\ Unseen(t, u) /\ u.op["accept"] = t.op["accept"]
      BY <2>3, ReadStep
    <2> HIDE DEF u
    <2>5. Sound(v, latest) /\ Unseen(u, v) /\ v.op = u.op
      BY <2>4, ScheduleIdleStep
    <2> HIDE DEF v
    <2>6. Sound(session', latest) /\ Unseen(v, session')
      BY <1>2, <1>6, <2>1, <2>4, <2>5, ScheduleSlotStep DEF t, u, v
    <2>7. Unseen(s, session')
      BY <2>3, <2>4, <2>5, <2>6, UnseenTransitive
    <2>8. Seen(session, s, latest)
      BY <1>2, <1>6 DEF Seen
    <2> QED
      BY <2>6, <2>7, <2>8, ThenUnseen DEF SessionStep
  <1>7. CASE session.op["accept"] # "none" /\ session' = request_close(s, "service_not_ready")
    <2>1. Sound(session', latest)
          /\ (IF s.finished \/ s.close_requested THEN session' = s ELSE Closes(s, session'))
      BY <1>1, <1>2, <1>7, RequestCloseSound DEF Intents
    <2>2. Closes(s, session') \/ Unseen(s, session')
      BY <2>1 DEF Unseen, Told
    <2> QED
      BY <1>1, <1>2, <1>3, <1>7, <2>1, <2>2, OpensThenCloses DEF SessionStep
  <1>8. CASE session.op["accept"] # "none" /\ session' = report_session_failure(s)
    <2>1. Sound(session', latest) /\ (Closes(s, session') \/ Unseen(s, session'))
      BY <1>1, <1>2, <1>8, ReportFailureStep
    <2> QED
      BY <1>1, <1>2, <1>3, <1>8, <2>1, OpensThenCloses DEF SessionStep
  <1> QED
    BY <1>4, <1>5, <1>6, <1>7, <1>8

\* A read handler that begins to run is sound and unseen.
LEMMA DoneRead ==
  ASSUME NEW n, NEW s, Sound(s, n)
  PROVE  Sound(Done(s, "read"), n) /\ Unseen(s, Done(s, "read"))
  <1>1. s \in Session
    BY DEF Sound
  <1>2. /\ Like(s, Done(s, "read"))
        /\ Done(s, "read").op["accept"] = s.op["accept"]
        /\ Done(s, "read").armed = s.armed /\ Done(s, "read").fired = s.fired
    BY <1>1, DoneLike
  <1>3. AcceptedFirst(Done(s, "read")) /\ SameAccept(s, Done(s, "read"))
    BY <1>2 DEF AcceptedFirst, SameAccept, Sound
  <1> QED
    BY <1>2, <1>3, LikeStep

\* finish leaves a sound session sound, and ends the stream or changes nothing.
LEMMA FinishOfSound ==
  ASSUME NEW n \in Nat, NEW r \in Session, NEW s, Sound(s, n),
         Told(r, s), r.finished = s.finished
  PROVE  Sound(finish(s), n) /\ Seen(r, finish(s), n)
  BY SoundFinishable, FinishStep

\* client_frame_read.
LEMMA ClientFrameReadStep ==
  ASSUME Inv, ClientFrameRead
  PROVE  SessionStep
  <1> DEFINE s == Done(session, "read")
             h == [s EXCEPT !.heard = TRUE]
             heard == schedule_idle_check(h)
  <1>1. latest \in Nat /\ Sound(session, latest) /\ session \in Session
    BY TicksAreNat DEF Inv, Sound
  <1>2. Sound(s, latest) /\ Unseen(session, s) /\ s.finished = session.finished
    BY <1>1, DoneRead, DoneLike DEF Like
  <1>3. \/ session' = finish(s) \/ session' = request_close(s, "protocol_error")
        \/ session' = read_client_frame(heard) \/ session' = request_close(heard, "command_rejected")
    BY DEF ClientFrameRead
  <1> HIDE DEF s
  <1>4. Sound(h, latest) /\ Unseen(s, h)
    BY <1>2, HeardStep
  <1> HIDE DEF h
  <1>5. Sound(heard, latest) /\ Unseen(session, heard)
    BY <1>2, <1>4, ScheduleIdleStep, UnseenTransitive
  <1> HIDE DEF heard
  <1>6. CASE session' = finish(s)
    BY <1>1, <1>2, <1>6, FinishOfSound DEF SessionStep, Unseen
  <1>7. CASE session' = request_close(s, "protocol_error")
    BY <1>1, <1>2, <1>7, RequestCloseStep, UnseenThen DEF SessionStep, Intents
  <1>8. CASE session' = read_client_frame(heard)
    BY <1>5, <1>8, ReadStep, UnseenTransitive DEF SessionStep, Seen
  <1>9. CASE session' = request_close(heard, "command_rejected")
    BY <1>1, <1>5, <1>9, RequestCloseStep, UnseenThen DEF SessionStep, Intents
  <1> QED
    BY <1>3, <1>6, <1>7, <1>8, <1>9

\* observe_control_frame.
LEMMA ControlFrameStep ==
  ASSUME Inv, ControlFrame
  PROVE  SessionStep
  <1>1. latest \in Nat /\ Sound(session, latest) /\ session \in Session
    BY TicksAreNat DEF Inv, Sound
  <1>2. PICK pong \in BOOLEAN, exceeded \in BOOLEAN :
          LET answered == IF pong /\ session.waiting_for_pong
                          THEN [cancel_timer(session, {"pong"})
                                  EXCEPT !.waiting_for_pong = FALSE]
                          ELSE session
              posted == IF exceeded THEN {"control_rate"} ELSE {} IN
          session' = schedule_idle_check(
                        [answered EXCEPT !.heard = TRUE, !.posted = @ \cup posted])
    BY DEF ControlFrame
  <1> DEFINE c == cancel_timer(session, {"pong"})
             d == [c EXCEPT !.waiting_for_pong = FALSE]
             answered == IF pong /\ session.waiting_for_pong THEN d ELSE session
             posted == IF exceeded THEN {"control_rate"} ELSE {}
             t == [answered EXCEPT !.heard = TRUE, !.posted = @ \cup posted]
  <1>3. session' = schedule_idle_check(t)
    BY <1>2
  <1>4. Like(session, c) /\ c.op = session.op /\ c.armed \in SUBSET session.armed
        /\ c.fired = session.fired
    BY <1>1, CancelLike DEF Timers
  <1> HIDE DEF c
  <1>5. Like(c, d) /\ d.op = c.op /\ d.armed = c.armed /\ d.fired = c.fired
    BY <1>4 DEF Like, Session
  <1> HIDE DEF d
  <1>6. Like(session, answered) /\ answered.op = session.op
        /\ answered.armed \in SUBSET session.armed /\ answered.fired = session.fired
    <2>1. Like(session, session)
      BY <1>1 DEF Like
    <2> QED
      BY <2>1, <1>4, <1>5, LikeTransitive
  <1> HIDE DEF answered
  <1>7. Like(answered, t) /\ t.op = answered.op /\ t.armed = answered.armed
        /\ t.fired = answered.fired
    <2>1. posted \in SUBSET {"control_rate", "fail"}
      OBVIOUS
    <2> HIDE DEF posted
    <2>2. answered \in Session
      BY <1>6 DEF Like
    <2> QED
      BY <2>1, <2>2 DEF Like, Session
  <1> HIDE DEF t
  <1>8. Like(session, t) /\ AcceptedFirst(t) /\ SameAccept(session, t)
    BY <1>1, <1>6, <1>7, LikeTransitive DEF AcceptedFirst, SameAccept, Sound
  <1>9. Sound(t, latest) /\ Unseen(session, t)
    BY <1>1, <1>8, LikeStep
  <1> QED
    BY <1>3, <1>9, ScheduleIdleStep, UnseenTransitive DEF SessionStep, Seen

\* The close that observe_control_frame posted.
LEMMA ControlRateExceededStep ==
  ASSUME Inv, ControlRateExceeded
  PROVE  SessionStep
  <1> DEFINE t == [session EXCEPT !.posted = @ \ {"control_rate"}]
  <1>1. latest \in Nat /\ Sound(session, latest) /\ session \in Session
    BY TicksAreNat DEF Inv, Sound
  <1>2. Like(session, t) /\ t.op = session.op /\ t.armed = session.armed
        /\ t.fired = session.fired
    BY <1>1 DEF Like, Session
  <1>3. session' = request_close(t, "control_rate_exceeded")
    BY DEF ControlRateExceeded
  <1> HIDE DEF t
  <1>4. AcceptedFirst(t) /\ SameAccept(session, t)
    BY <1>1, <1>2 DEF AcceptedFirst, SameAccept, Sound
  <1>5. Sound(t, latest) /\ Unseen(session, t)
    BY <1>1, <1>2, <1>4, LikeStep
  <1> QED
    BY <1>1, <1>3, <1>5, RequestCloseStep, UnseenThen DEF SessionStep, Intents

\* presentation_slot.
LEMMA PresentationSlotStep ==
  ASSUME Inv, PresentationSlot
  PROVE  SessionStep
  <1> DEFINE t == Ran(session, "presentation")
  <1>1. latest \in 1 .. MaxTick /\ Sound(session, latest)
    BY DEF Inv
  <1>2. Sound(t, latest) /\ Unseen(session, t) /\ t.op = session.op
    BY <1>1, RanStep DEF Timers
  <1>3. t.op["accept"] = "none"
    BY <1>1, <1>2 DEF PresentationSlot, Fires, Sound, AcceptedFirst
  <1>4. PICK view \in Views : session' = Slot(t, view)
    BY DEF PresentationSlot
  <1> HIDE DEF t
  <1> QED
    BY <1>1, <1>2, <1>3, <1>4, SlotStep, UnseenThen DEF SessionStep

\* welcome_written and snapshot_written: the payload is returned, and the frame
\* counts as delivered unless the session is over.
LEMMA DataWrittenStep ==
  ASSUME Inv, DataWritten
  PROVE  SessionStep
  <1> DEFINE c == cancel_timer(Done(session, "write"), {"deadline"})
             s == [c EXCEPT !.lease = FALSE]
             failed == [s EXCEPT !.welcome_write_active = FALSE]
             done == IF s.welcome_write_active
                     THEN [s EXCEPT !.welcome_write_active = FALSE, !.welcome_delivered = TRUE]
                     ELSE [s EXCEPT !.delivered = s.active, !.active = 0]
  <1>1. latest \in Nat /\ Sound(session, latest) /\ session \in Session
    BY TicksAreNat DEF Inv, Sound
  <1>2. session.op["write"] # "none"
    BY DEF DataWritten, Completes
  <1>3. \/ session' = finish(failed)
        \/ session' = IF s.finished THEN failed ELSE Written(s)
    BY DEF DataWritten
  <1>4. /\ s \in Session /\ s.op = [session.op EXCEPT !["write"] = "none"] /\ ~ s.lease
        /\ s.armed \in SUBSET session.armed /\ s.fired = session.fired
        /\ s.welcome_write_active = session.welcome_write_active
        /\ s.welcome_delivered = session.welcome_delivered
        /\ s.pending = session.pending /\ s.active = session.active
        /\ s.delivered = session.delivered /\ s.queued = session.queued
        /\ s.close_requested = session.close_requested
        /\ s.close_started = session.close_started /\ s.finished = session.finished
    <2> DEFINE d == Done(session, "write")
    <2>1. /\ d \in Session /\ d.op = [session.op EXCEPT !["write"] = "none"]
          /\ d.armed = session.armed /\ d.fired = session.fired
          /\ d.welcome_write_active = session.welcome_write_active
          /\ d.welcome_delivered = session.welcome_delivered
          /\ d.pending = session.pending /\ d.active = session.active
          /\ d.delivered = session.delivered /\ d.queued = session.queued
          /\ d.close_requested = session.close_requested
          /\ d.close_started = session.close_started /\ d.finished = session.finished
      BY <1>1 DEF Done, Session, Operations, OperationStates
    <2> HIDE DEF d
    <2>2. c = cancel_timer(d, {"deadline"})
      BY DEF d
    <2>3. Like(d, c) /\ c.op = d.op /\ c.armed \in SUBSET d.armed /\ c.fired = d.fired
      BY <2>1, <2>2, CancelLike DEF Timers
    <2> HIDE DEF c
    <2>4. /\ s \in Session /\ s.op = c.op /\ ~ s.lease
          /\ s.armed = c.armed /\ s.fired = c.fired
          /\ s.welcome_write_active = c.welcome_write_active
          /\ s.welcome_delivered = c.welcome_delivered
          /\ s.pending = c.pending /\ s.active = c.active
          /\ s.delivered = c.delivered /\ s.queued = c.queued
          /\ s.close_requested = c.close_requested
          /\ s.close_started = c.close_started /\ s.finished = c.finished
      BY <2>3 DEF Like, Session
    <2> HIDE DEF s
    <2> QED
      BY <2>1, <2>3, <2>4 DEF Like
  <1> HIDE DEF s
  <1>5. /\ s.op["write"] = "none" /\ s.op["accept"] = session.op["accept"]
        /\ s.op["close"] = session.op["close"] /\ s.op["ping"] = session.op["ping"]
    <2>1. session.op \in [Operations -> OperationStates]
      BY <1>1 DEF Session
    <2> QED
      BY <1>4, <2>1 DEF Operations
  <1>6. session.op["close"] = "none" /\ session.op["ping"] = "none"
    BY <1>1, <1>2 DEF Sound, OneFrame, Writes
  <1>7. ~ session.finished => ~ session.close_started
    BY <1>1, <1>6 DEF Sound, CloseInv
  <1>8. Sound(s, latest)
    <2>1. OneFrame(s)
      BY <1>5, <1>6 DEF OneFrame, Writes
    <2>2. WriteInv(s)
      BY <1>4, <1>5 DEF WriteInv
    <2>3. CloseInv(s)
      BY <1>1, <1>4, <1>5 DEF CloseInv, Sound
    <2>4. DeliveryInv(s, latest)
      BY <1>1, <1>4 DEF DeliveryInv, Sound
    <2>5. AcceptedFirst(s)
      BY <1>1, <1>4, <1>5 DEF AcceptedFirst, Sound
    <2> QED
      BY <1>4, <2>1, <2>2, <2>3, <2>4, <2>5 DEF Sound
  <1>9. /\ failed \in Session /\ failed.op = s.op /\ failed.lease = s.lease
        /\ failed.armed = s.armed /\ failed.fired = s.fired
        /\ failed.welcome_delivered = s.welcome_delivered
        /\ failed.pending = s.pending /\ failed.active = s.active
        /\ failed.delivered = s.delivered /\ failed.queued = s.queued
        /\ failed.close_requested = s.close_requested
        /\ failed.close_started = s.close_started /\ failed.finished = s.finished
    BY <1>4 DEF Session
  <1>10. Sound(failed, latest)
    <2> HIDE DEF failed
    <2>1. OneFrame(failed) /\ AcceptedFirst(failed)
      BY <1>8, <1>9 DEF OneFrame, AcceptedFirst, Sound
    <2>2. WriteInv(failed)
      BY <1>4, <1>5, <1>9 DEF WriteInv
    <2>3. CloseInv(failed)
      BY <1>8, <1>9 DEF CloseInv, Sound
    <2>4. DeliveryInv(failed, latest)
      BY <1>8, <1>9 DEF DeliveryInv, Sound
    <2> QED
      BY <1>9, <2>1, <2>2, <2>3, <2>4 DEF Sound
  <1>11. Told(session, failed) /\ failed.finished = session.finished
    BY <1>4, <1>9 DEF Told
  <1>12. CASE session' = finish(failed)
    <2> HIDE DEF failed
    <2> QED
      BY <1>1, <1>10, <1>11, <1>12, FinishOfSound DEF SessionStep
  <1>13. CASE s.finished /\ session' = failed
    <2> HIDE DEF failed
    <2>1. Unseen(session, failed)
      BY <1>1, <1>4, <1>9, <1>11, <1>13, PhaseCases DEF Unseen
    <2> QED
      BY <1>10, <1>13, <2>1 DEF SessionStep, Seen
  <1>14. CASE ~ s.finished /\ session' = Written(s)
    <2>1. session.welcome_write_active \/ session.active # 0
      BY <1>1, <1>2, <1>4, <1>14 DEF Sound, WriteInv, data_write_active
    <2>2. StreamWire(session) = IF session.welcome_write_active THEN -1 ELSE session.active
      BY <1>1, <1>2, <1>4, <1>14, PhaseCases
    <2>3. session.active \in Nat
      BY <1>1, TicksAreNat DEF Session
    <2>4. /\ done \in Session /\ done.op = s.op /\ done.lease = s.lease
          /\ done.armed = s.armed /\ done.fired = s.fired
          /\ done.pending = s.pending /\ done.queued = s.queued
          /\ done.close_requested = s.close_requested
          /\ done.close_started = s.close_started /\ done.finished = s.finished
      <3>1. CASE s.welcome_write_active
        BY <1>4, <3>1 DEF Session
      <3>2. CASE ~ s.welcome_write_active
        BY <1>4, <3>2, TicksAreNat DEF Session
      <3> QED
        BY <3>1, <3>2
    <2>5. /\ done.welcome_delivered = TRUE
          /\ done.delivered = IF s.welcome_write_active THEN s.delivered ELSE s.active
          /\ done.active = IF s.welcome_write_active THEN s.active ELSE 0
      <3>1. CASE s.welcome_write_active
        BY <1>4, <3>1 DEF Session
      <3>2. CASE ~ s.welcome_write_active
        <4>1. s.welcome_delivered
          BY <1>4, <1>8, <2>1, <3>2 DEF Sound, DeliveryInv
        <4>2. s.welcome_delivered = TRUE
          BY <1>4, <4>1 DEF Session
        <4> QED
          BY <1>4, <3>2, <4>2 DEF Session
      <3> QED
        BY <3>1, <3>2
    <2>6. Written(s) = IF done.close_requested THEN begin_close(done) ELSE done
      BY DEF Written
    <2> HIDE DEF done
    <2>7. Sound(done, latest)
      <3>1. OneFrame(done) /\ AcceptedFirst(done)
        BY <1>8, <2>4 DEF OneFrame, AcceptedFirst, Sound
      <3>2. WriteInv(done)
        BY <1>4, <1>5, <2>4 DEF WriteInv
      <3>3. CloseInv(done)
        BY <1>4, <1>7, <1>8, <1>14, <2>4 DEF CloseInv, Sound
      <3>4. DeliveryInv(done, latest)
        <4>1. s.pending \in Nat
          BY <1>4, TicksAreNat DEF Session
        <4>2. s.pending # 0 => s.pending > s.delivered /\ s.pending > s.active
          BY <1>8 DEF Sound, DeliveryInv
        <4>3. s.pending <= latest
          BY <1>8 DEF Sound, DeliveryInv
        <4> QED
          BY <2>4, <2>5, <4>1, <4>2, <4>3 DEF DeliveryInv
      <3> QED
        BY <2>4, <3>1, <3>2, <3>3, <3>4 DEF Sound
    <2>8. StreamPhase(done) = StreamPhase(session)
      BY <1>1, <1>4, <1>5, <1>14, <2>4, PhaseCases
    <2>9. StreamWire(done) = 0
      BY <1>4, <1>5, <1>7, <1>14, <2>4, PhaseCases
    <2>10. Sends(session, done)
      BY <1>4, <2>1, <2>2, <2>3, <2>5, <2>8, <2>9 DEF Sends
    <2>11. CASE ~ done.close_requested
      BY <1>14, <2>6, <2>7, <2>10, <2>11 DEF SessionStep, Seen
    <2>12. CASE done.close_requested
      <3>1. Sound(begin_close(done), latest)
        BY <2>7, <2>12, BeginCloseSound
      <3>2. Unseen(done, begin_close(done)) \/ SaysClose(done, begin_close(done))
        BY <2>7, <2>12, BeginCloseSeen
      <3>3. Sends(session, begin_close(done))
        BY <2>10, <3>2 DEF Sends, Unseen, SaysClose, Told
      <3> QED
        BY <1>14, <2>6, <2>12, <3>1, <3>3 DEF SessionStep, Seen
    <2> QED
      BY <2>11, <2>12
  <1> QED
    BY <1>3, <1>12, <1>13, <1>14

\* data_write_timed_out.
LEMMA DataWriteTimedOutStep ==
  ASSUME Inv, DataWriteTimedOut
  PROVE  SessionStep
  <1> DEFINE s == Ran(session, "deadline")
             i == [s EXCEPT !.intent = "slow_consumer"]
             c == close_socket(i)
  <1>1. latest \in Nat /\ Sound(session, latest) /\ session \in Session
    BY TicksAreNat DEF Inv, Sound
  <1>2. Sound(s, latest) /\ Unseen(session, s)
        /\ s.finished = session.finished
    BY <1>1, RanStep, RanLike DEF Timers, Like
  <1>3. session' = IF s.finished THEN s ELSE finish(c)
    BY DEF DataWriteTimedOut
  <1> HIDE DEF s
  <1>4. s \in Session
    BY <1>2 DEF Sound
  <1>5. Like(s, i) /\ i.op = s.op /\ i.armed = s.armed /\ i.fired = s.fired
    BY <1>4 DEF Like, Session, Intents
  <1> HIDE DEF i
  <1>6. Like(i, c) /\ SameAccept(i, c) /\ c.armed = i.armed /\ c.fired = i.fired
    BY <1>5, CloseSocketLike DEF Like
  <1> HIDE DEF c
  <1>7. Like(s, c) /\ SameAccept(s, c) /\ AcceptedFirst(c)
    BY <1>2, <1>5, <1>6, LikeTransitive DEF SameAccept, AcceptedFirst, Sound
  <1>8. Sound(c, latest) /\ Unseen(session, c) /\ c.finished = session.finished
    BY <1>2, <1>7, LikeStep, UnseenTransitive DEF Like
  <1>9. CASE s.finished
    BY <1>2, <1>3, <1>9 DEF SessionStep, Seen
  <1>10. CASE ~ s.finished
    BY <1>1, <1>3, <1>8, <1>10, FinishOfSound DEF SessionStep, Unseen
  <1> QED
    BY <1>9, <1>10

\* A ping handler that begins to run is sound and unseen.
LEMMA DonePing ==
  ASSUME NEW n, NEW s, Sound(s, n)
  PROVE  LET t == Done(s, "ping") IN
         /\ Sound(t, n) /\ Unseen(s, t)
         /\ t.finished = s.finished /\ t.close_requested = s.close_requested
  <1> DEFINE t == Done(s, "ping")
  <1>1. s \in Session
    BY DEF Sound
  <1>2. /\ t.op["ping"] = "none" /\ t.op["accept"] = s.op["accept"]
        /\ t.op["write"] = s.op["write"] /\ t.op["close"] = s.op["close"]
    BY <1>1 DEF Done, Session, Operations
  <1>3. /\ t \in Session /\ t.armed = s.armed /\ t.fired = s.fired
        /\ t.lease = s.lease /\ t.queued = s.queued
        /\ t.welcome_write_active = s.welcome_write_active
        /\ t.welcome_delivered = s.welcome_delivered
        /\ t.pending = s.pending /\ t.active = s.active /\ t.delivered = s.delivered
        /\ t.close_requested = s.close_requested /\ t.close_started = s.close_started
        /\ t.finished = s.finished
    BY <1>1 DEF Done, Session, Operations, OperationStates
  <1> HIDE DEF t
  <1>4. OneFrame(t)
    BY <1>2 DEF OneFrame, Writes, Sound
  <1>5. WriteInv(t)
    BY <1>2, <1>3 DEF WriteInv, data_write_active, Sound
  <1>6. CloseInv(t)
    BY <1>2, <1>3 DEF CloseInv, Sound
  <1>7. DeliveryInv(t, n) /\ AcceptedFirst(t)
    BY <1>2, <1>3 DEF DeliveryInv, AcceptedFirst, Sound
  <1>8. StreamPhase(t) = StreamPhase(s) /\ StreamWire(t) = StreamWire(s)
    BY <1>2, <1>3 DEF StreamPhase, StreamWire
  <1>9. Sound(t, n) /\ Unseen(s, t)
    BY <1>3, <1>4, <1>5, <1>6, <1>7, <1>8 DEF Sound, Unseen, Told
  <1> QED
    BY <1>3, <1>9 DEF t

\* idle_check: a ping goes out only when no other frame does.
LEMMA IdleCheckStep ==
  ASSUME Inv, IdleCheck
  PROVE  SessionStep
  <1> DEFINE s == Ran(session, "idle")
             a == Arm(s, "idle")
             t == [s EXCEPT !.queued = FALSE, !.op["ping"] = "pending"]
  <1>1. Sound(session, latest)
    BY DEF Inv
  <1>2. Sound(s, latest) /\ Unseen(session, s)
    BY <1>1, RanStep DEF Timers
  <1>3. \/ session' = s
        \/ session' = [a EXCEPT !.heard = FALSE]
        \/ session' = a
        \/ /\ ~ s.finished /\ ~ s.close_requested
           /\ ~ data_write_active(s) /\ ~ control_write_active(s)
           /\ session' = t
    BY DEF IdleCheck
  <1> HIDE DEF s
  <1>4. Sound(a, latest) /\ Unseen(s, a)
    BY <1>2, ArmStep DEF Timers
  <1> HIDE DEF a
  <1>5. CASE session' = s
    BY <1>2, <1>5 DEF SessionStep, Seen
  <1>6. CASE session' = [a EXCEPT !.heard = FALSE]
    BY <1>2, <1>4, <1>6, HeardStep, UnseenTransitive DEF SessionStep, Seen
  <1>7. CASE session' = a
    BY <1>2, <1>4, <1>7, UnseenTransitive DEF SessionStep, Seen
  <1>8. CASE /\ ~ s.finished /\ ~ s.close_requested
             /\ ~ data_write_active(s) /\ ~ control_write_active(s)
             /\ session' = t
    <2>1. s \in Session
      BY <1>2 DEF Sound
    <2>2. /\ t.op["ping"] = "pending" /\ t.op["accept"] = s.op["accept"]
          /\ t.op["write"] = s.op["write"] /\ t.op["close"] = s.op["close"]
      BY <2>1 DEF Session, Operations
    <2>3. /\ t \in Session /\ t.armed = s.armed /\ t.fired = s.fired
          /\ t.lease = s.lease /\ ~ t.queued
          /\ t.welcome_write_active = s.welcome_write_active
          /\ t.welcome_delivered = s.welcome_delivered
          /\ t.pending = s.pending /\ t.active = s.active /\ t.delivered = s.delivered
          /\ t.close_requested = s.close_requested /\ t.close_started = s.close_started
          /\ t.finished = s.finished
      BY <2>1 DEF Session, Operations, OperationStates
    <2> HIDE DEF t
    <2>4. s.op["write"] = "none" /\ s.op["close"] = "none"
      BY <1>2, <1>8 DEF Sound, WriteInv, CloseInv
    <2>5. OneFrame(t)
      BY <2>2, <2>4 DEF OneFrame, Writes
    <2>6. WriteInv(t)
      BY <1>8, <2>2, <2>3, <2>4 DEF WriteInv
    <2>7. CloseInv(t)
      BY <1>2, <2>2, <2>3 DEF CloseInv, Sound
    <2>8. DeliveryInv(t, latest) /\ AcceptedFirst(t)
      BY <1>2, <2>2, <2>3 DEF DeliveryInv, AcceptedFirst, Sound
    <2>9. StreamPhase(t) = StreamPhase(s) /\ StreamWire(t) = StreamWire(s)
      BY <2>2, <2>3 DEF StreamPhase, StreamWire
    <2>10. Sound(t, latest) /\ Unseen(s, t)
      BY <2>3, <2>5, <2>6, <2>7, <2>8, <2>9 DEF Sound, Unseen, Told
    <2> QED
      BY <1>2, <1>8, <2>10, UnseenTransitive DEF SessionStep, Seen
  <1> QED
    BY <1>3, <1>5, <1>6, <1>7, <1>8

\* ping_written: a close that waited for the ping goes out.
LEMMA PingWrittenStep ==
  ASSUME Inv, PingWritten
  PROVE  SessionStep
  <1> DEFINE s == Done(session, "ping")
             a == Arm(s, "pong")
             t == [a EXCEPT !.waiting_for_pong = TRUE]
  <1>1. latest \in Nat /\ Sound(session, latest) /\ session \in Session
    BY TicksAreNat DEF Inv, Sound
  <1>2. Sound(s, latest) /\ Unseen(session, s) /\ s.finished = session.finished
    BY <1>1, DonePing
  <1>3. \/ session' = finish(s)
        \/ session' = s
        \/ s.close_requested /\ session' = begin_close(s)
        \/ session' = t
    BY DEF PingWritten
  <1> HIDE DEF s
  <1>4. Sound(a, latest) /\ Unseen(s, a)
    BY <1>2, ArmStep DEF Timers
  <1>5. a \in Session
    BY <1>4 DEF Sound
  <1> HIDE DEF a
  <1>6. Like(a, t) /\ t.op = a.op /\ t.armed = a.armed /\ t.fired = a.fired
    BY <1>5 DEF Like, Session
  <1> HIDE DEF t
  <1>7. AcceptedFirst(t) /\ SameAccept(a, t)
    BY <1>4, <1>6 DEF AcceptedFirst, SameAccept, Sound
  <1>8. Sound(t, latest) /\ Unseen(session, t)
    BY <1>2, <1>4, <1>6, <1>7, LikeStep, UnseenTransitive
  <1>9. CASE session' = finish(s)
    BY <1>1, <1>2, <1>9, FinishOfSound DEF SessionStep, Unseen
  <1>10. CASE session' = s
    BY <1>2, <1>10 DEF SessionStep, Seen
  <1>11. CASE s.close_requested /\ session' = begin_close(s)
    <2>1. Sound(begin_close(s), latest)
      BY <1>2, <1>11, BeginCloseSound
    <2>2. Unseen(s, begin_close(s)) \/ SaysClose(s, begin_close(s))
      BY <1>2, <1>11, BeginCloseSeen
    <2>3. Seen(s, begin_close(s), latest)
      BY <2>2 DEF Seen
    <2> QED
      BY <1>2, <1>11, <2>1, <2>3, UnseenThen DEF SessionStep
  <1>12. CASE session' = t
    BY <1>8, <1>12 DEF SessionStep, Seen
  <1> QED
    BY <1>3, <1>9, <1>10, <1>11, <1>12

\* pong_timed_out.
LEMMA PongTimedOutStep ==
  ASSUME Inv, PongTimedOut
  PROVE  SessionStep
  <1> DEFINE s == Ran(session, "pong")
  <1>1. latest \in Nat /\ Sound(session, latest)
    BY TicksAreNat DEF Inv
  <1>2. Sound(s, latest) /\ Unseen(session, s)
    BY <1>1, RanStep DEF Timers
  <1>3. session' = s \/ session' = request_close(s, "peer_timeout")
    BY DEF PongTimedOut
  <1> HIDE DEF s
  <1>4. CASE session' = s
    BY <1>2, <1>4 DEF SessionStep, Seen
  <1>5. CASE session' = request_close(s, "peer_timeout")
    BY <1>1, <1>2, <1>5, RequestCloseStep, UnseenThen DEF SessionStep, Intents
  <1> QED
    BY <1>3, <1>4, <1>5

\* closed: the close frame has left, or could not.
LEMMA ClosedStep ==
  ASSUME Inv, Closed
  PROVE  SessionStep
  <1> DEFINE s == session
             t == Done(session, "close")
  <1>1. latest \in Nat /\ Sound(s, latest) /\ s \in Session
    BY TicksAreNat DEF Inv, Sound
  <1>2. session' = finish(t)
    BY DEF Closed
  <1>3. /\ t.op["close"] = "none" /\ t.op["accept"] = s.op["accept"]
        /\ t.op["write"] = s.op["write"] /\ t.op["ping"] = s.op["ping"]
    BY <1>1 DEF Done, Session, Operations
  <1>4. /\ t \in Session /\ t.armed = s.armed /\ t.fired = s.fired
        /\ t.lease = s.lease /\ t.queued = s.queued
        /\ t.welcome_write_active = s.welcome_write_active
        /\ t.welcome_delivered = s.welcome_delivered
        /\ t.pending = s.pending /\ t.active = s.active /\ t.delivered = s.delivered
        /\ t.close_requested = s.close_requested /\ t.close_started = s.close_started
        /\ t.finished = s.finished
    BY <1>1 DEF Done, Session, Operations, OperationStates
  <1> HIDE DEF t
  <1>5. OneFrame(t)
    BY <1>1, <1>3 DEF OneFrame, Writes, Sound
  <1>6. AcceptedFirst(t)
    BY <1>1, <1>3, <1>4 DEF AcceptedFirst, Sound
  <1>7. ~ t.finished => Finishable(t)
    BY <1>1, <1>3, <1>4, <1>5 DEF Finishable, Sound, WriteInv, CloseInv
  <1>8. ASSUME t.finished PROVE Sound(t, latest)
    <2>1. WriteInv(t)
      BY <1>1, <1>3, <1>4, <1>8 DEF WriteInv, Sound
    <2>2. CloseInv(t)
      BY <1>1, <1>3, <1>4, <1>8 DEF CloseInv, Sound
    <2>3. DeliveryInv(t, latest)
      BY <1>1, <1>4 DEF DeliveryInv, Sound
    <2> QED
      BY <1>4, <1>5, <1>6, <2>1, <2>2, <2>3 DEF Sound
  <1>9. Told(session, t)
    BY <1>4 DEF Told
  <1> QED
    BY <1>1, <1>2, <1>4, <1>6, <1>7, <1>8, <1>9, FinishStep DEF SessionStep

\* begin_stop_on_executor, for this session.
LEMMA BeginStopStep ==
  ASSUME Inv, BeginStop
  PROVE  SessionStep
  <1>1. latest \in Nat /\ Sound(session, latest)
    BY TicksAreNat DEF Inv
  <1>2. session' = session \/ session' = request_close(session, "server_shutdown")
    BY DEF BeginStop
  <1>3. CASE session' = session
    BY <1>1, <1>3 DEF SessionStep, Seen, Unseen, Told
  <1>4. CASE session' = request_close(session, "server_shutdown")
    BY <1>1, <1>4, RequestCloseStep DEF SessionStep, Intents
  <1> QED
    BY <1>2, <1>3, <1>4

\* stop_now, for this session.
LEMMA StopAtOnceStep ==
  ASSUME Inv, StopAtOnce
  PROVE  SessionStep
  <1> DEFINE c == close_socket(session)
  <1>1. latest \in Nat /\ Sound(session, latest) /\ session \in Session
    BY TicksAreNat DEF Inv, Sound
  <1>2. session' = session \/ session' = finish(c)
    BY DEF StopAtOnce
  <1>3. Like(session, c) /\ SameAccept(session, c) /\ c.armed = session.armed
        /\ c.fired = session.fired
    BY <1>1, CloseSocketLike
  <1> HIDE DEF c
  <1>4. AcceptedFirst(c)
    BY <1>1, <1>3 DEF SameAccept, AcceptedFirst, Sound
  <1>5. Sound(c, latest) /\ Unseen(session, c) /\ c.finished = session.finished
    BY <1>1, <1>3, <1>4, LikeStep DEF Like
  <1>6. CASE session' = session
    BY <1>1, <1>6 DEF SessionStep, Seen, Unseen, Told
  <1>7. CASE session' = finish(c)
    BY <1>1, <1>5, <1>7, FinishOfSound DEF SessionStep, Unseen
  <1> QED
    BY <1>2, <1>6, <1>7

\* The result of an operation is queued.
LEMMA OperationEndsStep ==
  ASSUME Inv, NEW o \in Operations, OperationEnds(o)
  PROVE  SessionStep
  <1>1. Sound(session, latest) /\ session \in Session
    BY DEF Inv, Sound
  <1>2. PICK result \in {"ok", "error"} : session' = [session EXCEPT !.op[o] = result]
    BY DEF OperationEnds
  <1> DEFINE t == [session EXCEPT !.op[o] = result]
  <1>3. session.op[o] = "pending"
    BY DEF OperationEnds, Completes
  <1>4. /\ t.op = [session.op EXCEPT ![o] = result]
        /\ t.armed = session.armed /\ t.fired = session.fired
    BY <1>1 DEF Session
  <1>5. session.op \in [Operations -> OperationStates]
    BY <1>1 DEF Session
  <1>6. \A q \in Operations : t.op[q] = "none" <=> session.op[q] = "none"
    BY <1>3, <1>4, <1>5
  <1>7. Like(session, t)
    <2>1. /\ t \in Session
          /\ t.lease = session.lease /\ t.queued = session.queued
          /\ t.welcome_write_active = session.welcome_write_active
          /\ t.welcome_delivered = session.welcome_delivered
          /\ t.pending = session.pending /\ t.active = session.active
          /\ t.delivered = session.delivered
          /\ t.close_requested = session.close_requested
          /\ t.close_started = session.close_started
          /\ t.finished = session.finished
      BY <1>1 DEF Session, OperationStates
    <2> QED
      BY <1>6, <2>1 DEF Like, Operations, Writes
  <1> HIDE DEF t
  <1>8. AcceptedFirst(t) /\ SameAccept(session, t)
    BY <1>1, <1>4, <1>6 DEF AcceptedFirst, SameAccept, Sound, Operations
  <1>9. session' = t
    BY <1>2 DEF t
  <1> QED
    BY <1>1, <1>7, <1>8, <1>9, LikeStep DEF SessionStep, Seen

\* A timer's handler is queued.
LEMMA TimerExpiresStep ==
  ASSUME Inv, NEW t \in Timers, TimerExpires(t)
  PROVE  SessionStep
  <1> DEFINE u == [session EXCEPT !.armed = @ \ {t}, !.fired = @ \cup {t}]
  <1>1. Sound(session, latest) /\ session \in Session
    BY DEF Inv, Sound
  <1>2. session' = u /\ t \in session.armed
    BY DEF TimerExpires
  <1>3. /\ Like(session, u) /\ u.op = session.op
        /\ u.armed = session.armed \ {t} /\ u.fired = session.fired \cup {t}
    BY <1>1 DEF Like, Session
  <1> HIDE DEF u
  <1>4. AcceptedFirst(u) /\ SameAccept(session, u)
    BY <1>1, <1>2, <1>3 DEF AcceptedFirst, SameAccept, Sound
  <1> QED
    BY <1>1, <1>2, <1>3, <1>4, LikeStep DEF SessionStep, Seen

---------------------------------------------------------------------------

\* Every step keeps the invariant and is a step of the stream or a publication.
LEMMA StepIsSound ==
  ASSUME Inv, [Next]_vars
  PROVE  /\ Inv'
         /\ \/ latest' = latest /\ Seen(session, session', latest)
            \/ latest < MaxTick /\ latest' = latest + 1 /\ session' = session
  <1> SUFFICES /\ \/ latest' = latest /\ SessionStep
                  \/ latest < MaxTick /\ latest' = latest + 1 /\ session' = session
               /\ server' \in {"serving", "stopping", "stopped"}
    <2>1. Sound(session, latest) /\ latest \in 1 .. MaxTick
      BY DEF Inv
    <2>2. ASSUME latest < MaxTick, latest' = latest + 1, session' = session
          PROVE  Sound(session', latest') /\ latest' \in 1 .. MaxTick
      <3>1. latest \in Nat /\ session.pending \in Nat /\ session.pending <= latest
        BY <2>1, TicksAreNat DEF Sound, Session, DeliveryInv
      <3>2. latest' \in 1 .. MaxTick
        BY <2>1, <2>2, SessionAssumption
      <3>3. DeliveryInv(session, latest')
        BY <2>1, <2>2, <3>1 DEF Sound, DeliveryInv
      <3> QED
        BY <2>1, <2>2, <3>2, <3>3 DEF Sound
    <2> QED
      BY <2>1, <2>2 DEF Inv, SessionStep
  <1>1. ASSUME Handlers \/ ControlFrame PROVE Unmoved /\ SessionStep
    <2>1. CASE Accepted
      BY <2>1, AcceptedStep DEF Accepted
    <2>2. CASE ClientFrameRead
      BY <2>2, ClientFrameReadStep DEF ClientFrameRead
    <2>3. CASE ControlRateExceeded
      BY <2>3, ControlRateExceededStep DEF ControlRateExceeded
    <2>4. CASE PresentationSlot
      BY <2>4, PresentationSlotStep DEF PresentationSlot
    <2>5. CASE DataWritten
      BY <2>5, DataWrittenStep DEF DataWritten
    <2>6. CASE DataWriteTimedOut
      BY <2>6, DataWriteTimedOutStep DEF DataWriteTimedOut
    <2>7. CASE IdleCheck
      BY <2>7, IdleCheckStep DEF IdleCheck
    <2>8. CASE PingWritten
      BY <2>8, PingWrittenStep DEF PingWritten
    <2>9. CASE PongTimedOut
      BY <2>9, PongTimedOutStep DEF PongTimedOut
    <2>10. CASE Closed
      BY <2>10, ClosedStep DEF Closed
    <2>11. CASE ControlFrame
      BY <2>11, ControlFrameStep DEF ControlFrame
    <2> QED
      BY <1>1, <2>1, <2>2, <2>3, <2>4, <2>5, <2>6, <2>7, <2>8, <2>9, <2>10, <2>11 DEF Handlers
  <1>2. CASE Handlers \/ ControlFrame
    BY <1>1, <1>2 DEF Unmoved, Inv
  <1>3. CASE BeginStop
    BY <1>3, BeginStopStep DEF BeginStop
  <1>4. CASE StopAtOnce
    BY <1>4, StopAtOnceStep DEF StopAtOnce
  <1>5. CASE Drained \/ UNCHANGED vars
    BY <1>5 DEF Drained, vars, Inv, SessionStep, Seen, Unseen, Told
  <1>6. CASE \E o \in Operations : OperationEnds(o)
    BY <1>6, OperationEndsStep DEF OperationEnds, Unmoved, Inv
  <1>7. CASE \E t \in Timers : TimerExpires(t)
    BY <1>7, TimerExpiresStep DEF TimerExpires, Unmoved, Inv
  <1>8. CASE Publish
    BY <1>8 DEF Publish, Inv
  <1> QED
    BY <1>2, <1>3, <1>4, <1>5, <1>6, <1>7, <1>8 DEF Next

\* The session that run() has registered is sound.
LEMMA InitIsSound ==
  ASSUME Init
  PROVE  Inv
  <1>1. session \in Session
    BY TicksAreNat DEF Init, Session, Operations, OperationStates, Intents
  <1>2. /\ session.op["accept"] = "pending" /\ session.op["write"] = "none"
        /\ session.op["ping"] = "none" /\ session.op["close"] = "none"
    BY DEF Init, Operations
  <1>3. /\ session.armed = {} /\ session.fired = {} /\ ~ session.lease /\ ~ session.queued
        /\ session.pending = 0 /\ session.active = 0
        /\ ~ session.close_requested /\ ~ session.close_started /\ ~ session.finished
    BY DEF Init
  <1>4. latest = 1 /\ latest \in 1 .. MaxTick /\ server = "serving"
    BY SessionAssumption DEF Init
  <1>5. OneFrame(session)
    BY <1>2 DEF OneFrame, Writes
  <1>6. WriteInv(session) /\ CloseInv(session) /\ AcceptedFirst(session)
    BY <1>2, <1>3 DEF WriteInv, CloseInv, AcceptedFirst
  <1>7. DeliveryInv(session, latest)
    BY <1>3, <1>4 DEF DeliveryInv
  <1> QED
    BY <1>1, <1>4, <1>5, <1>6, <1>7 DEF Inv, Sound

\* The inductive invariant holds in every behaviour.
THEOREM SessionInvariant == Spec => []Inv
  <1>1. Inv /\ [Next]_vars => Inv'
    BY StepIsSound
  <1> QED
    BY InitIsSound, <1>1, PTL DEF Spec

\* In every behaviour of SessionWebSocketSession, whatever handlers run late,
\* whatever throws, stalls, closes or times out: frames are written one at a
\* time, a payload and its egress reservation outlive the write that reads them
\* and are returned when it is over, and a session that is leaving is not in
\* the egress queue.
THEOREM WritesStaySafe == Spec => []WritesAreSafe
  <1>1. Inv => WritesAreSafe
    <2> SUFFICES ASSUME Inv PROVE WritesAreSafe
      OBVIOUS
    <2>1. TypeOK
      BY DEF Inv, Sound, TypeOK
    <2>2. OneWriteAtATime
      BY DEF Inv, Sound, OneFrame, Writes, OneWriteAtATime
    <2>3. PayloadOutlivesItsWrite
      BY DEF Inv, Sound, WriteInv, PayloadOutlivesItsWrite
    <2>4. ClosingIsNotQueued
      BY DEF Inv, Sound, CloseInv, ClosingIsNotQueued
    <2> QED
      BY <2>1, <2>2, <2>3, <2>4 DEF WritesAreSafe
  <1> QED
    BY SessionInvariant, <1>1, PTL

\* The session implements the stream its peer is promised (SnapshotStream): the
\* welcome before any snapshot, each snapshot the newest when its write began
\* and newer than every one before, one frame at a time, nothing but the close
\* frame after the decision to close, and nothing after the end.
THEOREM StreamIsImplemented == Spec => ImplementsStream
  <1>1. Init => Stream!Init
    <2> SUFFICES ASSUME Init PROVE Stream!Init
      OBVIOUS
    <2>1. /\ session \in Session /\ ~ session.finished /\ ~ session.close_requested
          /\ ~ session.close_started
          /\ session.op["accept"] # "none" /\ session.op["write"] = "none"
      BY InitIsSound DEF Inv, Sound, Init, Operations
    <2>2. StreamPhase(session) = "connecting" /\ StreamWire(session) = 0
      BY <2>1, PhaseCases
    <2> QED
      BY <2>2 DEF Init, Stream!Init, Stream!NoFrame
  <1>2. Inv /\ [Next]_vars => [Stream!Next]_Stream!vars
    <2> SUFFICES ASSUME Inv, [Next]_vars PROVE [Stream!Next]_Stream!vars
      OBVIOUS
    <2>1. \/ latest' = latest /\ Seen(session, session', latest)
          \/ latest < MaxTick /\ latest' = latest + 1 /\ session' = session
      BY StepIsSound
    <2>2. CASE latest < MaxTick /\ latest' = latest + 1 /\ session' = session
      BY <2>2 DEF Stream!Next, Stream!Publish
    <2>3. CASE latest' = latest /\ Unseen(session, session')
      BY <2>3 DEF Unseen, Told, Stream!vars
    <2>4. CASE latest' = latest /\ Opens(session, session')
      BY <2>4 DEF Opens, Told, Stream!Next, Stream!Open
    <2>5. CASE latest' = latest /\ Begins(session, session', latest)
      BY <2>5 DEF Begins, Told, Stream!Next, Stream!Begin, Stream!NoFrame, Stream!Welcome
    <2>6. CASE latest' = latest /\ Sends(session, session')
      BY <2>6 DEF Sends, Stream!Next, Stream!Sent, Stream!NoFrame, Stream!Welcome, Stream!CloseFrame
    <2>7. CASE latest' = latest /\ Closes(session, session')
      BY <2>7 DEF Closes, Told, Stream!Next, Stream!Close, Stream!NoFrame, Stream!CloseFrame
    <2>8. CASE latest' = latest /\ SaysClose(session, session')
      BY <2>8 DEF SaysClose, Told, Stream!Next, Stream!SayClose, Stream!NoFrame, Stream!CloseFrame
    <2>9. CASE latest' = latest /\ Ends(session, session')
      BY <2>9 DEF Ends, Told, Stream!Next, Stream!End, Stream!NoFrame
    <2> QED
      BY <2>1, <2>2, <2>3, <2>4, <2>5, <2>6, <2>7, <2>8, <2>9 DEF Seen
  <1> QED
    BY <1>1, <1>2, SessionInvariant, PTL DEF Spec, ImplementsStream, Stream!Spec

---------------------------------------------------------------------------
(* CommandDecoding: the members of a payload are counted.                  *)

\* Members counted one by one are all there are if and only if there is no other.
LEMMA MembersCounted ==
    ASSUME NEW D, IsFiniteSet(D), NEW R, NEW O, IsFiniteSet(R), IsFiniteSet(O), R \cap O = {}, R \subseteq D
    PROVE  Cardinality(D) = Cardinality(R) + Cardinality(O \cap D) <=> D \subseteq R \cup O
<1> DEFINE P == O \cap D
           M == R \cup P
<1>1. IsFiniteSet(P) /\ R \cap P = {} /\ M \subseteq D
  <2>1. P \subseteq O
    OBVIOUS
  <2>2. IsFiniteSet(P)
    <3> HIDE DEF P
    <3> QED BY <2>1, FS_Subset
  <2> QED BY <2>2
<1>2. IsFiniteSet(M) /\ Cardinality(M) = Cardinality(R) + Cardinality(P)
  <2> HIDE DEF P
  <2>1. Cardinality(R \cap P) = 0
    BY <1>1, FS_EmptySet
  <2>2. Cardinality(R) \in Nat /\ Cardinality(P) \in Nat
    BY <1>1, FS_CardinalityType
  <2>3. IsFiniteSet(M) /\ Cardinality(M) = Cardinality(R) + Cardinality(P) - Cardinality(R \cap P)
    BY <1>1, FS_Union
  <2> HIDE DEF M
  <2> QED BY <2>1, <2>2, <2>3
<1>3. Cardinality(M) = Cardinality(D) <=> M = D
  <2> HIDE DEF M
  <2> QED BY <1>1, FS_Subset
<1>4. M = D <=> D \subseteq R \cup O
  BY <1>1
<1> HIDE DEF M, P
<1>5. Cardinality(D) = Cardinality(R) + Cardinality(P) <=> D \subseteq R \cup O
  BY <1>2, <1>3, <1>4, Zenon
<1> QED BY <1>5, Zenon DEF P

\* One member, or two, that may be left out.
LEMMA OneCounted ==
    ASSUME NEW p, NEW a
    PROVE  MemberCount(p, a) \in Nat /\ Cardinality({a} \cap DOMAIN p) = MemberCount(p, a)
<1>1. CASE a \in DOMAIN p
  <2>1. {a} \cap DOMAIN p = {a}
    BY <1>1
  <2> QED BY <1>1, <2>1, FS_Singleton DEF MemberCount
<1>2. CASE a \notin DOMAIN p
  <2>1. {a} \cap DOMAIN p = {}
    BY <1>2
  <2> QED BY <1>2, <2>1, FS_EmptySet DEF MemberCount
<1> QED BY <1>1, <1>2

LEMMA TwoCounted ==
    ASSUME NEW p, NEW a, NEW b, a # b
    PROVE  Cardinality({a, b} \cap DOMAIN p) = MemberCount(p, a) + MemberCount(p, b)
<1> DEFINE S == {a} \cap DOMAIN p
           T == {b} \cap DOMAIN p
<1>1. IsFiniteSet(S) /\ IsFiniteSet(T) /\ S \cap T = {} /\ {a, b} \cap DOMAIN p = S \cup T
  <2>1. IsFiniteSet({a}) /\ IsFiniteSet({b}) /\ S \subseteq {a} /\ T \subseteq {b}
    BY FS_Singleton
  <2>2. S \cap T = {} /\ {a, b} \cap DOMAIN p = S \cup T
    OBVIOUS
  <2>3. IsFiniteSet(S) /\ IsFiniteSet(T)
    <3> HIDE DEF S, T
    <3> QED BY <2>1, FS_Subset
  <2> QED BY <2>2, <2>3
<1>2. Cardinality(S) = MemberCount(p, a) /\ Cardinality(T) = MemberCount(p, b)
  BY OneCounted
<1>3. MemberCount(p, a) \in Nat /\ MemberCount(p, b) \in Nat
  BY OneCounted
<1> HIDE DEF S, T
<1>4. Cardinality(S \cup T) = Cardinality(S) + Cardinality(T) - Cardinality(S \cap T)
  BY <1>1, FS_Union
<1>5. Cardinality(S \cap T) = 0
  BY <1>1, FS_EmptySet
<1> DEFINE U == {a, b} \cap DOMAIN p
<1>6. U = S \cup T
  BY <1>1
<1> HIDE DEF U
<1>7. Cardinality(U) = MemberCount(p, a) + MemberCount(p, b)
  BY <1>2, <1>3, <1>4, <1>5, <1>6
<1> QED BY <1>7 DEF U

\* The sizes of small sets.
LEMMA PairSize ==
    ASSUME NEW a, NEW b, a # b
    PROVE  IsFiniteSet({a, b}) /\ Cardinality({a, b}) = 2
<1>1. IsFiniteSet({a}) /\ Cardinality({a}) = 1 /\ b \notin {a} /\ {a} \cup {b} = {a, b}
  BY FS_Singleton
<1>2. IsFiniteSet({a} \cup {b}) /\ Cardinality({a} \cup {b}) = Cardinality({a}) + 1
  BY <1>1, FS_AddElement
<1> QED BY <1>1, <1>2

LEMMA FourSize ==
    ASSUME NEW a, NEW b, NEW c, NEW d, a # b, a # c, a # d, b # c, b # d, c # d
    PROVE  IsFiniteSet({a, b, c, d}) /\ Cardinality({a, b, c, d}) = 4
<1>1. IsFiniteSet({a, b}) /\ Cardinality({a, b}) = 2
  BY PairSize
<1>2. {a, b} \cup {c} = {a, b, c} /\ c \notin {a, b}
  OBVIOUS
<1>3. IsFiniteSet({a, b, c}) /\ Cardinality({a, b, c}) = 3
  <2>1. IsFiniteSet({a, b} \cup {c}) /\ Cardinality({a, b} \cup {c}) = Cardinality({a, b}) + 1
    BY <1>1, <1>2, FS_AddElement
  <2> QED BY <1>1, <1>2, <2>1
<1>4. {a, b, c} \cup {d} = {a, b, c, d} /\ d \notin {a, b, c}
  OBVIOUS
<1>5. IsFiniteSet({a, b, c} \cup {d}) /\ Cardinality({a, b, c} \cup {d}) = Cardinality({a, b, c}) + 1
  BY <1>3, <1>4, FS_AddElement
<1> QED BY <1>3, <1>4, <1>5

\* A set with two of its members, and no other, has size two.
LEMMA SizeTwo ==
    ASSUME NEW S, IsFiniteSet(S), NEW a, NEW b, a # b
    PROVE  Cardinality(S) = 2 /\ {a, b} \subseteq S <=> S = {a, b}
<1>1. IsFiniteSet({a, b}) /\ Cardinality({a, b}) = 2
  BY PairSize
<1>2. {a, b} \subseteq S => (Cardinality({a, b}) = Cardinality(S) <=> {a, b} = S)
  BY FS_Subset
<1> QED BY <1>1, <1>2

---------------------------------------------------------------------------
(* CommandDecoding: what each decoder makes of a member.                   *)

PayloadGiven(p) == IsFiniteSet(DOMAIN p) /\ \A m \in DOMAIN p : JsonGiven(p[m])
MembersOf(kind) == RequiredMembers[kind] \cup OptionalMembers(kind)

\* The values a member of the command may have: what the payload says if the
\* schema admits it, the default if it says nothing.
Said(kind, p, m) == IF m \in DOMAIN p THEN Meaning(m, p[m]) ELSE Default(m)
MemberHeld(kind, p, m, values) ==
    /\ values # {} <=> (m \in DOMAIN p => SchemaAdmits(kind, m, p[m]))
    /\ \A x \in values : <<x>> = Said(kind, p, m)

\* The values the schema admits, one lemma for each member.
LEMMA Admitted ==
    ASSUME NEW kind, NEW v
    PROVE  /\ SchemaAdmits(kind, "x", v) <=> Number(v, -1, 1)
           /\ SchemaAdmits(kind, "y", v) <=> Number(v, -1, 1)
           /\ SchemaAdmits(kind, "input_generation", v) <=> (Whole(v, 1, SafeInteger) \/ (kind = "shield" /\ v = Null))
           /\ SchemaAdmits(kind, "braking", v) <=> v.t = "bool"
           /\ SchemaAdmits(kind, "direction", v) <=> v \in {Text("left"), Text("right")}
<1>1. SchemaAdmits(kind, "x", v) <=> Number(v, -1, 1)
  BY Zenon DEF SchemaAdmits
<1>2. SchemaAdmits(kind, "y", v) <=> Number(v, -1, 1)
  BY Zenon DEF SchemaAdmits
<1>3. SchemaAdmits(kind, "input_generation", v) <=> (Whole(v, 1, SafeInteger) \/ (kind = "shield" /\ v = Null))
  BY Zenon DEF SchemaAdmits
<1>4. SchemaAdmits(kind, "braking", v) <=> v.t = "bool"
  BY Zenon DEF SchemaAdmits
<1>5. SchemaAdmits(kind, "direction", v) <=> v \in {Text("left"), Text("right")}
  BY Zenon DEF SchemaAdmits
<1> QED BY <1>1, <1>2, <1>3, <1>4, <1>5

LEMMA AdmittedToo ==
    ASSUME NEW kind, NEW v
    PROVE  /\ SchemaAdmits(kind, "seat_count", v) <=> Whole(v, 1, LobbySeatCountMaximum)
           /\ SchemaAdmits(kind, "seat_index", v) <=> Whole(v, 0, LobbySeatCountMaximum - 1)
           /\ SchemaAdmits(kind, "npc_kind", v) <=> v.t = "text"
           /\ SchemaAdmits(kind, "profile_name", v) <=> v.t = "text"
           /\ SchemaAdmits(kind, "tuning_request_id", v) <=> Whole(v, 1, SafeInteger)
           /\ SchemaAdmits(kind, "expected_revision", v) <=> Whole(v, 0, SafeInteger)
           /\ SchemaAdmits(kind, "acceleration", v) <=> Number(v, 1, 3)
           /\ SchemaAdmits(kind, "top_speed", v) <=> Number(v, 1, 2)
           /\ SchemaAdmits(kind, "charge", v) <=> Number(v, 0, 2)
           /\ SchemaAdmits(kind, "spawn_rate", v) <=> Number(v, 0, 1)
<1>1. SchemaAdmits(kind, "seat_count", v) <=> Whole(v, 1, LobbySeatCountMaximum)
  BY Zenon DEF SchemaAdmits
<1>2. SchemaAdmits(kind, "seat_index", v) <=> Whole(v, 0, LobbySeatCountMaximum - 1)
  BY Zenon DEF SchemaAdmits
<1>3. SchemaAdmits(kind, "npc_kind", v) <=> v.t = "text"
  BY Zenon DEF SchemaAdmits
<1>4. SchemaAdmits(kind, "profile_name", v) <=> v.t = "text"
  BY Zenon DEF SchemaAdmits
<1>5. SchemaAdmits(kind, "tuning_request_id", v) <=> Whole(v, 1, SafeInteger)
  BY Zenon DEF SchemaAdmits
<1>6. SchemaAdmits(kind, "expected_revision", v) <=> Whole(v, 0, SafeInteger)
  BY Zenon DEF SchemaAdmits
<1>7. SchemaAdmits(kind, "acceleration", v) <=> Number(v, 1, 3)
  BY Zenon DEF SchemaAdmits
<1>8. SchemaAdmits(kind, "top_speed", v) <=> Number(v, 1, 2)
  BY Zenon DEF SchemaAdmits
<1>9. SchemaAdmits(kind, "charge", v) <=> Number(v, 0, 2)
  BY Zenon DEF SchemaAdmits
<1>10. SchemaAdmits(kind, "spawn_rate", v) <=> Number(v, 0, 1)
  BY Zenon DEF SchemaAdmits
<1> QED BY <1>1, <1>2, <1>3, <1>4, <1>5, <1>6, <1>7, <1>8, <1>9, <1>10

\* What a member left out says.
LEMMA Defaulted ==
    /\ Default("input_generation") = <<Absent>> /\ Default("braking") = <<0>> /\ Default("profile_name") = <<Plain>>
<1>1. Default("braking") = <<0>> /\ Default("profile_name") = <<Plain>>
  BY Zenon DEF Default
<1>2. Default("input_generation") = <<Absent>>
  BY Zenon DEF Default
<1> QED BY <1>1, <1>2

\* A number, and a whole one.
LEMMA NumberRead ==
    ASSUME NEW kind, NEW p, NEW m, NEW low, NEW high, m \in DOMAIN p, JsonGiven(p[m]),
           SchemaAdmits(kind, m, p[m]) <=> Number(p[m], low, high)
    PROVE  MemberHeld(kind, p, m, finite_number_of(p[m]) \cap low .. high)
<1> DEFINE v == p[m]
<1>1. v.t \in {"int", "double"} => Meaning(m, v) = <<v.n>>
  BY Zenon DEF Meaning
<1> HIDE DEF v
<1>2. finite_number_of(v) \cap low .. high = IF Number(v, low, high) THEN {v.n} ELSE {}
  BY DEF finite_number_of, Number
<1>3. Number(v, low, high) => v.t \in {"int", "double"}
  BY DEF Number
<1> QED BY <1>1, <1>2, <1>3 DEF MemberHeld, Said, v

LEMMA WholeRead ==
    ASSUME NEW kind, NEW p, NEW m, NEW low, NEW high, m \in DOMAIN p, JsonGiven(p[m]),
           SchemaAdmits(kind, m, p[m]) <=> Whole(p[m], low, high)
    PROVE  MemberHeld(kind, p, m, bounded_unsigned_of(p[m], low, high))
<1> DEFINE v == p[m]
<1>1. v.t = "int" => Meaning(m, v) = <<v.n>>
  BY Zenon DEF Meaning
<1> HIDE DEF v
<1>2. bounded_unsigned_of(v, low, high) = IF Whole(v, low, high) THEN {v.n} ELSE {}
  BY DEF bounded_unsigned_of, Whole
<1>3. Whole(v, low, high) => v.t = "int"
  BY DEF Whole
<1> QED BY <1>1, <1>2, <1>3 DEF MemberHeld, Said, v

\* The generation, of a kind that does not give it as null.
LEMMA GenerationRead ==
    ASSUME NEW kind, kind # "shield", NEW p, PayloadGiven(p)
    PROVE  MemberHeld(kind, p, "input_generation", generation_of(p))
<1>1. CASE "input_generation" \in DOMAIN p
  <2>1. generation_of(p) = bounded_unsigned_of(p["input_generation"], 1, SafeInteger)
    BY <1>1, Zenon DEF generation_of
  <2>2. SchemaAdmits(kind, "input_generation", p["input_generation"]) <=> Whole(p["input_generation"], 1, SafeInteger)
    BY Admitted, Zenon
  <2>3. JsonGiven(p["input_generation"])
    BY <1>1, Zenon DEF PayloadGiven
  <2> QED BY <1>1, <2>1, <2>2, <2>3, WholeRead
<1>2. CASE "input_generation" \notin DOMAIN p
  <2>1. generation_of(p) = {Absent}
    BY <1>2, Zenon DEF generation_of
  <2>2. Said(kind, p, "input_generation") = <<Absent>>
    BY <1>2, Defaulted, Zenon DEF Said
  <2> QED BY <1>2, <2>1, <2>2 DEF MemberHeld
<1> QED BY <1>1, <1>2

---------------------------------------------------------------------------
(* CommandDecoding: one decoder after another.                             *)

\* A decoder's commands are the payload's, if the schema takes the payload.
DecodesAs(kind, p, commands) ==
    /\ \A c \in commands : Says(kind, p, c)
    /\ \A c, d \in commands : c = d
    /\ commands # {} <=> SchemaValid(kind, p)

\* The schema's conditions on members, apart from the catalogue's.
Members(kind, p) == RequiredMembers[kind] \subseteq DOMAIN p /\ DOMAIN p \subseteq MembersOf(kind)
LEMMA ValidIs ==
    ASSUME NEW kind, NEW p
    PROVE  SchemaValid(kind, p) <=>
              /\ Members(kind, p)
              /\ \A m \in MembersOf(kind) : m \in DOMAIN p => SchemaAdmits(kind, m, p[m])
              /\ kind = "seat_npc" => Declares(p)
<1>1. Members(kind, p) => ((\A m \in MembersOf(kind) : m \in DOMAIN p => SchemaAdmits(kind, m, p[m]))
                             <=> \A m \in DOMAIN p : SchemaAdmits(kind, m, p[m]))
  BY Zenon DEF Members
<1> QED BY <1>1, Zenon DEF SchemaValid, Members, MembersOf

\* decode_set_thrust
LEMMA ThrustDecides ==
    ASSUME NEW p, PayloadGiven(p)
    PROVE  DecodesAs("set_thrust", p, decode_set_thrust(p, StampedEntity))
<1> DEFINE k == "set_thrust"
           D == decode_set_thrust(p, StampedEntity)
           G == generation_of(p)
           B == IF "braking" \in DOMAIN p THEN {p["braking"].n} ELSE {0}
           X == axis_of(p["x"])
           Y == axis_of(p["y"])
           R == [kind : {k}, identity : {StampedEntity}, x : X, y : Y, input_generation : G, braking : B]
           counted == Size(p) = 2 + MemberCount(p, "input_generation") + MemberCount(p, "braking") /\ {"x", "y"} \subseteq DOMAIN p
           braked == "braking" \in DOMAIN p => p["braking"].t = "bool"
<1>1. D = IF counted /\ braked THEN R ELSE {}
  BY Zenon DEF decode_set_thrust, HasMembers
<1>2. MembersOf(k) = {"x", "y", "input_generation", "braking"} /\ RequiredMembers[k] = {"x", "y"} /\ k \in EntityKinds
  <2>1. OptionalMembers(k) = {"input_generation", "braking"}
    BY Zenon DEF OptionalMembers
  <2>2. RequiredMembers[k] = {"x", "y"} /\ k \in EntityKinds
    BY DEF RequiredMembers, EntityKinds
  <2> QED BY <2>1, <2>2 DEF MembersOf
<1>3. counted <=> Members(k, p)
  <2> DEFINE d == DOMAIN p
             Q == {"x", "y"}
             O == {"input_generation", "braking"}
  <2>1. IsFiniteSet(Q) /\ IsFiniteSet(O) /\ Cardinality(Q) = 2 /\ Q \cap O = {} /\ MembersOf(k) = Q \cup O
    BY <1>2, PairSize
  <2>2. Cardinality(O \cap d) = MemberCount(p, "input_generation") + MemberCount(p, "braking")
    BY TwoCounted
  <2>3. IsFiniteSet(d)
    BY DEF PayloadGiven
  <2> HIDE DEF d, O, Q
  <2>4. Q \subseteq d => (Cardinality(d) = Cardinality(Q) + Cardinality(O \cap d) <=> d \subseteq Q \cup O)
    BY <2>1, <2>3, MembersCounted
  <2>5. MemberCount(p, "input_generation") \in Nat /\ MemberCount(p, "braking") \in Nat
    BY OneCounted
  <2>6. Size(p) = Cardinality(d)
    BY DEF Size, d
  <2>7. counted <=> Q \subseteq d /\ d \subseteq Q \cup O
    BY <2>1, <2>2, <2>4, <2>5, <2>6 DEF Q, d
  <2> QED BY <1>2, <2>1, <2>7, Zenon DEF Members, Q, d
<1>4. CASE ~ Members(k, p)
  BY <1>1, <1>3, <1>4, ValidIs, Zenon DEF DecodesAs
<1>5. CASE Members(k, p)
  <2>1. JsonGiven(p["x"]) /\ JsonGiven(p["y"]) /\ "x" \in DOMAIN p /\ "y" \in DOMAIN p
    BY <1>3, <1>5 DEF PayloadGiven
  <2>2. MemberHeld(k, p, "x", X) /\ MemberHeld(k, p, "y", Y)
    BY <2>1, Admitted, NumberRead, Zenon DEF axis_of
  <2>3. MemberHeld(k, p, "input_generation", G)
    BY GenerationRead
  <2>4. braked => MemberHeld(k, p, "braking", B)
    <3>1. CASE "braking" \in DOMAIN p
      <4>1. p["braking"].t = "bool" => Meaning("braking", p["braking"]) = <<p["braking"].n>>
        BY Zenon DEF Meaning
      <4> QED BY <3>1, <4>1, Admitted DEF MemberHeld, Said
    <3>2. CASE "braking" \notin DOMAIN p
      <4>1. Said(k, p, "braking") = <<0>> /\ B = {0}
        BY <3>2, Defaulted, Zenon DEF Said
      <4> QED BY <3>2, <4>1 DEF MemberHeld
    <3> QED BY <3>1, <3>2
  <2>5. SchemaValid(k, p) <=> \A m \in {"x", "y", "input_generation", "braking"} : m \in DOMAIN p => SchemaAdmits(k, m, p[m])
    BY <1>2, <1>5, ValidIs
  <2>6. CASE ~ braked
    <3>1. ~ SchemaAdmits(k, "braking", p["braking"])
      BY <2>6, Admitted, Zenon
    <3> QED BY <1>1, <2>5, <2>6, <3>1 DEF DecodesAs
  <2>7. CASE braked
    <3>1. D = R
      BY <1>1, <1>3, <1>5, <2>7
    <3>2. MemberHeld(k, p, "braking", B)
      BY <2>4, <2>7
    <3> HIDE DEF D, X, Y, G, B, counted, braked
    <3>3. SchemaValid(k, p) <=> X # {} /\ Y # {} /\ G # {} /\ B # {}
      BY <2>2, <2>3, <2>5, <3>2 DEF MemberHeld
    <3>4. D # {} <=> X # {} /\ Y # {} /\ G # {} /\ B # {}
      <4>1. ASSUME NEW x \in X, NEW y \in Y, NEW g \in G, NEW b \in B PROVE D # {}
        <5>1. [kind |-> k, identity |-> StampedEntity, x |-> x, y |-> y, input_generation |-> g, braking |-> b] \in R
          OBVIOUS
        <5> QED BY <3>1, <5>1
      <4>2. ASSUME NEW c \in D PROVE c.x \in X /\ c.y \in Y /\ c.input_generation \in G /\ c.braking \in B
        BY <3>1
      <4> QED BY <4>1, <4>2, Zenon
    <3>5. ASSUME NEW c \in D
          PROVE  /\ c = [kind |-> k, identity |-> StampedEntity, x |-> c.x, y |-> c.y,
                         input_generation |-> c.input_generation, braking |-> c.braking]
                 /\ \A m \in {"x", "y", "input_generation", "braking"} : <<c[m]>> = Said(k, p, m)
                 /\ c.kind = k /\ c.identity = StampedEntity
      <4>1. c \in R
        BY <3>1
      <4>2. /\ c.x \in X /\ c.y \in Y /\ c.input_generation \in G /\ c.braking \in B
            /\ c.kind = k /\ c.identity = StampedEntity
        BY <4>1
      <4>3. c = [kind |-> k, identity |-> StampedEntity, x |-> c.x, y |-> c.y,
                         input_generation |-> c.input_generation, braking |-> c.braking]
        BY <4>1
      <4>4. <<c["x"]>> = Said(k, p, "x") /\ <<c["y"]>> = Said(k, p, "y")
            /\ <<c["input_generation"]>> = Said(k, p, "input_generation") /\ <<c["braking"]>> = Said(k, p, "braking")
        BY <2>2, <2>3, <3>2, <4>2, Zenon DEF MemberHeld
      <4> QED BY <4>2, <4>3, <4>4, Zenon
    <3>6. \A c \in D : Says(k, p, c)
      BY <1>2, <3>5, Zenon DEF Says, Said, MembersOf
    <3>7. \A c, d \in D : c = d
      <4> SUFFICES ASSUME NEW c \in D, NEW d \in D PROVE c = d
        OBVIOUS
      <4>1. c["x"] = d["x"] /\ c["y"] = d["y"] /\ c["input_generation"] = d["input_generation"] /\ c["braking"] = d["braking"]
        <5>1. \A a, b : <<a>> = <<b>> => a = b
          OBVIOUS
        <5>2. \A m \in {"x", "y", "input_generation", "braking"} : <<c[m]>> = <<d[m]>>
          BY <3>5, Zenon
        <5> QED BY <5>1, <5>2
      <4> QED BY <3>5, <4>1, Zenon
    <3> QED BY <3>3, <3>4, <3>6, <3>7, Zenon DEF DecodesAs, D
  <2> QED BY <2>6, <2>7
<1> QED BY <1>4, <1>5

\* The count of a decoder with no member that may be left out, and with one.
LEMMA AllCounted ==
    ASSUME NEW kind, NEW p, PayloadGiven(p), NEW Q, IsFiniteSet(Q), RequiredMembers[kind] = Q, MembersOf(kind) = Q
    PROVE  Size(p) = Cardinality(Q) /\ HasMembers(p, Q) <=> Members(kind, p)
<1> DEFINE d == DOMAIN p
<1>1. IsFiniteSet(d) /\ Size(p) = Cardinality(d) /\ (HasMembers(p, Q) <=> Q \subseteq d)
  BY DEF PayloadGiven, Size, HasMembers
<1>2. Members(kind, p) <=> Q \subseteq d /\ d \subseteq Q
  BY Zenon DEF Members
<1> HIDE DEF d
<1>3. Q \subseteq d => (Cardinality(Q) = Cardinality(d) <=> Q = d)
  BY <1>1, FS_Subset
<1>4. Cardinality(d) = Cardinality(Q) /\ Q \subseteq d <=> Q \subseteq d /\ d \subseteq Q
  BY <1>3
<1> QED BY <1>1, <1>2, <1>4, Zenon

LEMMA AllButOneCounted ==
    ASSUME NEW kind, NEW p, PayloadGiven(p), NEW Q, IsFiniteSet(Q), NEW a, a \notin Q,
           RequiredMembers[kind] = Q, MembersOf(kind) = Q \cup {a}
    PROVE  Size(p) = Cardinality(Q) + MemberCount(p, a) /\ HasMembers(p, Q) <=> Members(kind, p)
<1> DEFINE d == DOMAIN p
           O == {a}
<1>1. IsFiniteSet(d) /\ Size(p) = Cardinality(d) /\ (HasMembers(p, Q) <=> Q \subseteq d)
  BY DEF PayloadGiven, Size, HasMembers
<1>2. Members(kind, p) <=> Q \subseteq d /\ d \subseteq Q \cup O
  BY Zenon DEF Members
<1>3. IsFiniteSet(O) /\ Q \cap O = {} /\ Cardinality(O \cap d) = MemberCount(p, a)
  BY OneCounted, FS_Singleton
<1> HIDE DEF d, O
<1>4. Q \subseteq d => (Cardinality(d) = Cardinality(Q) + Cardinality(O \cap d) <=> d \subseteq Q \cup O)
  BY <1>1, <1>3, MembersCounted
<1>5. Size(p) = Cardinality(Q) + MemberCount(p, a) <=> Cardinality(d) = Cardinality(Q) + Cardinality(O \cap d)
  BY <1>1, <1>3, Zenon
<1> QED BY <1>1, <1>2, <1>4, <1>5, Zenon

\* What a value is, by the sequence it is given in.
LEMMA SameSingle == \A a, b : <<a>> = <<b>> => a = b
OBVIOUS

\* decode_charge
LEMMA ChargeDecides ==
    ASSUME NEW p, PayloadGiven(p)
    PROVE  DecodesAs("charge", p, decode_charge(p, StampedEntity))
<1> DEFINE k == "charge"
           D == decode_charge(p, StampedEntity)
           Q == {"x", "y"}
           X == axis_of(p["x"])
           Y == axis_of(p["y"])
           G == generation_of(p)
           R == [kind : {k}, identity : {StampedEntity}, x : X, y : Y, input_generation : G]
           counted == Size(p) = 2 + MemberCount(p, "input_generation") /\ HasMembers(p, Q)
<1>1. D = IF counted THEN R ELSE {}
  BY Zenon DEF decode_charge
<1>2. MembersOf(k) = {"x", "y", "input_generation"} /\ RequiredMembers[k] = Q /\ k \in EntityKinds
  <2>1. OptionalMembers(k) = {"input_generation"}
    BY Zenon DEF OptionalMembers
  <2>2. RequiredMembers[k] = Q /\ k \in EntityKinds
    BY DEF RequiredMembers, EntityKinds
  <2> QED BY <2>1, <2>2 DEF MembersOf
<1>3. counted <=> Members(k, p)
  <2>1. IsFiniteSet(Q) /\ Cardinality(Q) = 2
    BY PairSize
  <2>2. "input_generation" \notin Q /\ MembersOf(k) = Q \cup {"input_generation"}
    BY <1>2
  <2> HIDE DEF Q
  <2> QED BY <1>2, <2>1, <2>2, AllButOneCounted
<1>4. CASE ~ Members(k, p)
  BY <1>1, <1>3, <1>4, ValidIs, Zenon DEF DecodesAs
<1>5. CASE Members(k, p)
  <2>1. JsonGiven(p["x"]) /\ "x" \in DOMAIN p /\ JsonGiven(p["y"]) /\ "y" \in DOMAIN p
    BY <1>3, <1>5 DEF PayloadGiven, HasMembers
  <2>2. MemberHeld(k, p, "x", X)
    BY <2>1, Admitted, NumberRead, Zenon DEF axis_of
  <2>3. MemberHeld(k, p, "y", Y)
    BY <2>1, Admitted, NumberRead, Zenon DEF axis_of
  <2>4. MemberHeld(k, p, "input_generation", G)
    BY GenerationRead
  <2>5. SchemaValid(k, p) <=> (\A m \in {"x", "y", "input_generation"} : m \in DOMAIN p => SchemaAdmits(k, m, p[m]))
    BY <1>2, <1>5, ValidIs
  <2>6. D = R
    BY <1>1, <1>3, <1>5
  <2> HIDE DEF D, X, Y, G, counted, Q
  <2>8. SchemaValid(k, p) <=> X # {} /\ Y # {} /\ G # {}
    BY <2>2, <2>3, <2>4, <2>5 DEF MemberHeld
  <2>9. D # {} <=> X # {} /\ Y # {} /\ G # {}
    <3>1. ASSUME NEW x \in X, NEW y \in Y, NEW g \in G PROVE D # {}
      <4>1. [kind |-> k, identity |-> StampedEntity, x |-> x, y |-> y, input_generation |-> g] \in R
        OBVIOUS
      <4> QED BY <2>6, <4>1
    <3>2. ASSUME NEW c \in D PROVE c.x \in X /\ c.y \in Y /\ c.input_generation \in G
      BY <2>6
    <3> QED BY <3>1, <3>2, Zenon
  <2>10. ASSUME NEW c \in D
        PROVE  /\ c = [kind |-> k, identity |-> StampedEntity, x |-> c.x, y |-> c.y, input_generation |-> c.input_generation]
               /\ \A m \in {"x", "y", "input_generation"} : <<c[m]>> = Said(k, p, m)
               /\ c.kind = k /\ c.identity = StampedEntity
    <3>1. c \in R
      BY <2>6
    <3>2. c.x \in X /\ c.y \in Y /\ c.input_generation \in G /\ c.kind = k /\ c.identity = StampedEntity
      BY <3>1
    <3>3. c = [kind |-> k, identity |-> StampedEntity, x |-> c.x, y |-> c.y, input_generation |-> c.input_generation]
      BY <3>1
    <3>4. <<c["x"]>> = Said(k, p, "x") /\ <<c["y"]>> = Said(k, p, "y") /\ <<c["input_generation"]>> = Said(k, p, "input_generation")
      BY <2>2, <2>3, <2>4, <3>2, Zenon DEF MemberHeld
    <3> QED BY <3>2, <3>3, <3>4, Zenon
  <2>11. \A c \in D : Says(k, p, c)
    BY <1>2, <2>10, Zenon DEF Says, Said, MembersOf
  <2>12. \A c, d \in D : c = d
    <3> SUFFICES ASSUME NEW c \in D, NEW d \in D PROVE c = d
      OBVIOUS
    <3>1. c["x"] = d["x"] /\ c["y"] = d["y"] /\ c["input_generation"] = d["input_generation"]
      <4>1. \A m \in {"x", "y", "input_generation"} : <<c[m]>> = <<d[m]>>
        BY <2>10, Zenon
      <4> QED BY <4>1, SameSingle
    <3> QED BY <2>10, <3>1, Zenon
  <2> QED BY <2>8, <2>9, <2>11, <2>12, Zenon DEF DecodesAs, D
<1> QED BY <1>4, <1>5

\* decode_shield
LEMMA ShieldDecides ==
    ASSUME NEW p, PayloadGiven(p)
    PROVE  DecodesAs("shield", p, decode_shield(p, StampedEntity))
<1> DEFINE k == "shield"
           D == decode_shield(p, StampedEntity)
           Q == {"input_generation"}
           G == IF p["input_generation"].t = "null" THEN {Absent} ELSE generation_of(p)
           R == [kind : {k}, identity : {StampedEntity}, input_generation : G]
           counted == Size(p) = 1 /\ HasMembers(p, Q)
<1>1. D = IF counted THEN R ELSE {}
  BY Zenon DEF decode_shield
<1>2. MembersOf(k) = {"input_generation"} /\ RequiredMembers[k] = Q /\ k \in EntityKinds
  <2>1. OptionalMembers(k) = {}
    BY Zenon DEF OptionalMembers
  <2>2. RequiredMembers[k] = Q /\ k \in EntityKinds
    BY DEF RequiredMembers, EntityKinds
  <2> QED BY <2>1, <2>2 DEF MembersOf
<1>3. counted <=> Members(k, p)
  <2>1. IsFiniteSet(Q) /\ Cardinality(Q) = 1
    BY FS_Singleton
  <2>2. MembersOf(k) = Q
    BY <1>2
  <2> HIDE DEF Q
  <2> QED BY <1>2, <2>1, <2>2, AllCounted
<1>4. CASE ~ Members(k, p)
  BY <1>1, <1>3, <1>4, ValidIs, Zenon DEF DecodesAs
<1>5. CASE Members(k, p)
  <2>1. JsonGiven(p["input_generation"]) /\ "input_generation" \in DOMAIN p
    BY <1>3, <1>5 DEF PayloadGiven, HasMembers
  <2>2. MemberHeld(k, p, "input_generation", G)
    <3> DEFINE v == p["input_generation"]
    <3>1. SchemaAdmits(k, "input_generation", v) <=> (Whole(v, 1, SafeInteger) \/ v = Null)
      BY Admitted, Zenon
    <3>2. generation_of(p) = bounded_unsigned_of(v, 1, SafeInteger)
      BY <2>1, Zenon DEF generation_of
    <3>3. /\ v.t = "int" => Meaning("input_generation", v) = <<v.n>>
          /\ v.t = "null" => Meaning("input_generation", v) = <<Absent>>
      BY Zenon DEF Meaning
    <3>4. Said(k, p, "input_generation") = Meaning("input_generation", v)
      BY <2>1, Zenon DEF Said
    <3>5. v = Null <=> v.t = "null"
      <4>1. JsonGiven(v)
        BY <2>1
      <4>2. Null.t = "null" /\ Null = Json("null", 0, "")
        BY DEF Null, Json
      <4> HIDE DEF v
      <4>3. v.t = "null" => v = Json(v.t, 0, "")
        BY <4>1, Zenon DEF JsonGiven
      <4> QED BY <4>2, <4>3, Zenon
    <3>6. bounded_unsigned_of(v, 1, SafeInteger) = IF Whole(v, 1, SafeInteger) THEN {v.n} ELSE {}
      BY DEF bounded_unsigned_of, Whole
    <3>7. Whole(v, 1, SafeInteger) => v.t = "int"
      BY DEF Whole
    <3>8. G = IF v.t = "null" THEN {Absent} ELSE generation_of(p)
      OBVIOUS
    <3> HIDE DEF v, G
    <3> QED BY <2>1, <3>1, <3>2, <3>3, <3>4, <3>5, <3>6, <3>7, <3>8 DEF MemberHeld, v
  <2>3. SchemaValid(k, p) <=> (\A m \in {"input_generation"} : m \in DOMAIN p => SchemaAdmits(k, m, p[m]))
    BY <1>2, <1>5, ValidIs
  <2>4. D = R
    BY <1>1, <1>3, <1>5
  <2> HIDE DEF D, G, counted, Q
  <2>6. SchemaValid(k, p) <=> G # {}
    BY <2>2, <2>3 DEF MemberHeld
  <2>7. D # {} <=> G # {}
    <3>1. ASSUME NEW g \in G PROVE D # {}
      <4>1. [kind |-> k, identity |-> StampedEntity, input_generation |-> g] \in R
        OBVIOUS
      <4> QED BY <2>4, <4>1
    <3>2. ASSUME NEW c \in D PROVE c.input_generation \in G
      BY <2>4
    <3> QED BY <3>1, <3>2, Zenon
  <2>8. ASSUME NEW c \in D
        PROVE  /\ c = [kind |-> k, identity |-> StampedEntity, input_generation |-> c.input_generation]
               /\ \A m \in {"input_generation"} : <<c[m]>> = Said(k, p, m)
               /\ c.kind = k /\ c.identity = StampedEntity
    <3>1. c \in R
      BY <2>4
    <3>2. c.input_generation \in G /\ c.kind = k /\ c.identity = StampedEntity
      BY <3>1
    <3>3. c = [kind |-> k, identity |-> StampedEntity, input_generation |-> c.input_generation]
      BY <3>1
    <3>4. <<c["input_generation"]>> = Said(k, p, "input_generation")
      BY <2>2, <3>2, Zenon DEF MemberHeld
    <3> QED BY <3>2, <3>3, <3>4, Zenon
  <2>9. \A c \in D : Says(k, p, c)
    BY <1>2, <2>8, Zenon DEF Says, Said, MembersOf
  <2>10. \A c, d \in D : c = d
    <3> SUFFICES ASSUME NEW c \in D, NEW d \in D PROVE c = d
      OBVIOUS
    <3>1. c["input_generation"] = d["input_generation"]
      <4>1. \A m \in {"input_generation"} : <<c[m]>> = <<d[m]>>
        BY <2>8, Zenon
      <4> QED BY <4>1, SameSingle
    <3> QED BY <2>8, <3>1, Zenon
  <2> QED BY <2>6, <2>7, <2>9, <2>10, Zenon DEF DecodesAs, D
<1> QED BY <1>4, <1>5

\* decode_rotate_velocity
LEMMA RotateDecides ==
    ASSUME NEW p, PayloadGiven(p)
    PROVE  DecodesAs("rotate_velocity", p, decode_rotate_velocity(p, StampedEntity))
<1> DEFINE k == "rotate_velocity"
           D == decode_rotate_velocity(p, StampedEntity)
           Q == {"direction"}
           V == {p["direction"].s}
           G == generation_of(p)
           R == [kind : {k}, identity : {StampedEntity}, direction : V, input_generation : G]
           counted == Size(p) = 1 + MemberCount(p, "input_generation") /\ HasMembers(p, Q)
           fits == p["direction"].t = "text" /\ p["direction"].s \in {"left", "right"}
<1>1. D = IF counted /\ fits THEN R ELSE {}
  BY Zenon DEF decode_rotate_velocity
<1>2. MembersOf(k) = {"direction", "input_generation"} /\ RequiredMembers[k] = Q /\ k \in EntityKinds
  <2>1. OptionalMembers(k) = {"input_generation"}
    BY Zenon DEF OptionalMembers
  <2>2. RequiredMembers[k] = Q /\ k \in EntityKinds
    BY DEF RequiredMembers, EntityKinds
  <2> QED BY <2>1, <2>2 DEF MembersOf
<1>3. counted <=> Members(k, p)
  <2>1. IsFiniteSet(Q) /\ Cardinality(Q) = 1
    BY FS_Singleton
  <2>2. "input_generation" \notin Q /\ MembersOf(k) = Q \cup {"input_generation"}
    BY <1>2
  <2> HIDE DEF Q
  <2> QED BY <1>2, <2>1, <2>2, AllButOneCounted
<1>4. CASE ~ Members(k, p)
  BY <1>1, <1>3, <1>4, ValidIs, Zenon DEF DecodesAs
<1>5. CASE Members(k, p)
  <2>1. JsonGiven(p["direction"]) /\ "direction" \in DOMAIN p
    BY <1>3, <1>5 DEF PayloadGiven, HasMembers
  <2>2. fits => MemberHeld(k, p, "direction", V)
    <3> DEFINE v == p["direction"]
    <3>1. v.t = "text" => Meaning("direction", v) = <<v.s>>
      BY Zenon DEF Meaning
    <3>2. Said(k, p, "direction") = Meaning("direction", v)
      BY <2>1, Zenon DEF Said
    <3>3. fits => SchemaAdmits(k, "direction", v)
      <4>1. fits => v = Text("left") \/ v = Text("right")
        BY <2>1 DEF JsonGiven
      <4> QED BY <4>1, Admitted
    <3>4. V = {v.s} /\ (fits => v.t = "text")
      OBVIOUS
    <3> HIDE DEF v, V, fits
    <3> QED BY <3>1, <3>2, <3>3, <3>4 DEF MemberHeld, v
  <2>3. MemberHeld(k, p, "input_generation", G)
    BY GenerationRead
  <2>4. SchemaValid(k, p) <=> (\A m \in {"direction", "input_generation"} : m \in DOMAIN p => SchemaAdmits(k, m, p[m]))
    BY <1>2, <1>5, ValidIs
  <2>5. CASE ~ fits
    <3>1. ~ SchemaAdmits(k, "direction", p["direction"])
      <4>1. p["direction"] \notin {Text("left"), Text("right")}
        BY <2>5 DEF Text, Json
      <4> QED BY <4>1, Admitted, Zenon
    <3>2. D = {}
      BY <1>1, <2>5
    <3> QED BY <2>1, <2>4, <3>1, <3>2 DEF DecodesAs
  <2>6. CASE fits
    <3>1. D = R
      BY <1>1, <1>3, <1>5, <2>6
    <3>2. MemberHeld(k, p, "direction", V)
      BY <2>2, <2>6, Zenon
    <3> HIDE DEF D, V, G, counted, Q, fits
    <3>3. SchemaValid(k, p) <=> V # {} /\ G # {}
      BY <2>3, <3>2, <2>4 DEF MemberHeld
    <3>4. D # {} <=> V # {} /\ G # {}
      <4>1. ASSUME NEW v \in V, NEW g \in G PROVE D # {}
        <5>1. [kind |-> k, identity |-> StampedEntity, direction |-> v, input_generation |-> g] \in R
          OBVIOUS
        <5> QED BY <3>1, <5>1
      <4>2. ASSUME NEW c \in D PROVE c.direction \in V /\ c.input_generation \in G
        BY <3>1
      <4> QED BY <4>1, <4>2, Zenon
    <3>5. ASSUME NEW c \in D
          PROVE  /\ c = [kind |-> k, identity |-> StampedEntity, direction |-> c.direction, input_generation |-> c.input_generation]
                 /\ \A m \in {"direction", "input_generation"} : <<c[m]>> = Said(k, p, m)
                 /\ c.kind = k /\ c.identity = StampedEntity
      <4>1. c \in R
        BY <3>1
      <4>2. c.direction \in V /\ c.input_generation \in G /\ c.kind = k /\ c.identity = StampedEntity
        BY <4>1
      <4>3. c = [kind |-> k, identity |-> StampedEntity, direction |-> c.direction, input_generation |-> c.input_generation]
        BY <4>1
      <4>4. <<c["direction"]>> = Said(k, p, "direction") /\ <<c["input_generation"]>> = Said(k, p, "input_generation")
        BY <2>3, <3>2, <4>2, Zenon DEF MemberHeld
      <4> QED BY <4>2, <4>3, <4>4, Zenon
    <3>6. \A c \in D : Says(k, p, c)
      BY <1>2, <3>5, Zenon DEF Says, Said, MembersOf
    <3>7. \A c, d \in D : c = d
      <4> SUFFICES ASSUME NEW c \in D, NEW d \in D PROVE c = d
        OBVIOUS
      <4>1. c["direction"] = d["direction"] /\ c["input_generation"] = d["input_generation"]
        <5>1. \A m \in {"direction", "input_generation"} : <<c[m]>> = <<d[m]>>
          BY <3>5, Zenon
        <5> QED BY <5>1, SameSingle
      <4> QED BY <3>5, <4>1, Zenon
    <3> QED BY <3>3, <3>4, <3>6, <3>7, Zenon DEF DecodesAs, D
  <2> QED BY <2>5, <2>6
<1> QED BY <1>4, <1>5

\* decode_set_seat_count
LEMMA SeatCountDecides ==
    ASSUME NEW p, PayloadGiven(p)
    PROVE  DecodesAs("set_seat_count", p, decode_set_seat_count(p, StampedController))
<1> DEFINE k == "set_seat_count"
           D == decode_set_seat_count(p, StampedController)
           Q == {"seat_count"}
           N == bounded_unsigned_of(p["seat_count"], 1, LobbySeatCountMaximum)
           R == [kind : {k}, identity : {StampedController}, seat_count : N]
           counted == Size(p) = 1 /\ HasMembers(p, Q)
<1>1. D = IF counted THEN R ELSE {}
  BY Zenon DEF decode_set_seat_count
<1>2. MembersOf(k) = {"seat_count"} /\ RequiredMembers[k] = Q /\ k \notin EntityKinds
  <2>1. OptionalMembers(k) = {}
    BY Zenon DEF OptionalMembers
  <2>2. RequiredMembers[k] = Q /\ k \notin EntityKinds
    BY DEF RequiredMembers, EntityKinds
  <2> QED BY <2>1, <2>2 DEF MembersOf
<1>3. counted <=> Members(k, p)
  <2>1. IsFiniteSet(Q) /\ Cardinality(Q) = 1
    BY FS_Singleton
  <2>2. MembersOf(k) = Q
    BY <1>2
  <2> HIDE DEF Q
  <2> QED BY <1>2, <2>1, <2>2, AllCounted
<1>4. CASE ~ Members(k, p)
  BY <1>1, <1>3, <1>4, ValidIs, Zenon DEF DecodesAs
<1>5. CASE Members(k, p)
  <2>1. JsonGiven(p["seat_count"]) /\ "seat_count" \in DOMAIN p
    BY <1>3, <1>5 DEF PayloadGiven, HasMembers
  <2>2. MemberHeld(k, p, "seat_count", N)
    BY <2>1, AdmittedToo, WholeRead, Zenon
  <2>3. SchemaValid(k, p) <=> (\A m \in {"seat_count"} : m \in DOMAIN p => SchemaAdmits(k, m, p[m]))
    BY <1>2, <1>5, ValidIs
  <2>4. D = R
    BY <1>1, <1>3, <1>5
  <2> HIDE DEF D, N, counted, Q
  <2>6. SchemaValid(k, p) <=> N # {}
    BY <2>2, <2>3 DEF MemberHeld
  <2>7. D # {} <=> N # {}
    <3>1. ASSUME NEW n \in N PROVE D # {}
      <4>1. [kind |-> k, identity |-> StampedController, seat_count |-> n] \in R
        OBVIOUS
      <4> QED BY <2>4, <4>1
    <3>2. ASSUME NEW c \in D PROVE c.seat_count \in N
      BY <2>4
    <3> QED BY <3>1, <3>2, Zenon
  <2>8. ASSUME NEW c \in D
        PROVE  /\ c = [kind |-> k, identity |-> StampedController, seat_count |-> c.seat_count]
               /\ \A m \in {"seat_count"} : <<c[m]>> = Said(k, p, m)
               /\ c.kind = k /\ c.identity = StampedController
    <3>1. c \in R
      BY <2>4
    <3>2. c.seat_count \in N /\ c.kind = k /\ c.identity = StampedController
      BY <3>1
    <3>3. c = [kind |-> k, identity |-> StampedController, seat_count |-> c.seat_count]
      BY <3>1
    <3>4. <<c["seat_count"]>> = Said(k, p, "seat_count")
      BY <2>2, <3>2, Zenon DEF MemberHeld
    <3> QED BY <3>2, <3>3, <3>4, Zenon
  <2>9. \A c \in D : Says(k, p, c)
    BY <1>2, <2>8, Zenon DEF Says, Said, MembersOf
  <2>10. \A c, d \in D : c = d
    <3> SUFFICES ASSUME NEW c \in D, NEW d \in D PROVE c = d
      OBVIOUS
    <3>1. c["seat_count"] = d["seat_count"]
      <4>1. \A m \in {"seat_count"} : <<c[m]>> = <<d[m]>>
        BY <2>8, Zenon
      <4> QED BY <4>1, SameSingle
    <3> QED BY <2>8, <3>1, Zenon
  <2> QED BY <2>6, <2>7, <2>9, <2>10, Zenon DEF DecodesAs, D
<1> QED BY <1>4, <1>5

\* decode_clear_seat
LEMMA ClearSeatDecides ==
    ASSUME NEW p, PayloadGiven(p)
    PROVE  DecodesAs("clear_seat", p, decode_clear_seat(p, StampedController))
<1> DEFINE k == "clear_seat"
           D == decode_clear_seat(p, StampedController)
           Q == {"seat_index"}
           I == decode_seat_index(p["seat_index"])
           R == [kind : {k}, identity : {StampedController}, seat_index : I]
           counted == Size(p) = 1 /\ HasMembers(p, Q)
<1>1. D = IF counted THEN R ELSE {}
  BY Zenon DEF decode_clear_seat
<1>2. MembersOf(k) = {"seat_index"} /\ RequiredMembers[k] = Q /\ k \notin EntityKinds
  <2>1. OptionalMembers(k) = {}
    BY Zenon DEF OptionalMembers
  <2>2. RequiredMembers[k] = Q /\ k \notin EntityKinds
    BY DEF RequiredMembers, EntityKinds
  <2> QED BY <2>1, <2>2 DEF MembersOf
<1>3. counted <=> Members(k, p)
  <2>1. IsFiniteSet(Q) /\ Cardinality(Q) = 1
    BY FS_Singleton
  <2>2. MembersOf(k) = Q
    BY <1>2
  <2> HIDE DEF Q
  <2> QED BY <1>2, <2>1, <2>2, AllCounted
<1>4. CASE ~ Members(k, p)
  BY <1>1, <1>3, <1>4, ValidIs, Zenon DEF DecodesAs
<1>5. CASE Members(k, p)
  <2>1. JsonGiven(p["seat_index"]) /\ "seat_index" \in DOMAIN p
    BY <1>3, <1>5 DEF PayloadGiven, HasMembers
  <2>2. MemberHeld(k, p, "seat_index", I)
    BY <2>1, AdmittedToo, WholeRead, Zenon DEF decode_seat_index
  <2>3. SchemaValid(k, p) <=> (\A m \in {"seat_index"} : m \in DOMAIN p => SchemaAdmits(k, m, p[m]))
    BY <1>2, <1>5, ValidIs
  <2>4. D = R
    BY <1>1, <1>3, <1>5
  <2> HIDE DEF D, I, counted, Q
  <2>6. SchemaValid(k, p) <=> I # {}
    BY <2>2, <2>3 DEF MemberHeld
  <2>7. D # {} <=> I # {}
    <3>1. ASSUME NEW i \in I PROVE D # {}
      <4>1. [kind |-> k, identity |-> StampedController, seat_index |-> i] \in R
        OBVIOUS
      <4> QED BY <2>4, <4>1
    <3>2. ASSUME NEW c \in D PROVE c.seat_index \in I
      BY <2>4
    <3> QED BY <3>1, <3>2, Zenon
  <2>8. ASSUME NEW c \in D
        PROVE  /\ c = [kind |-> k, identity |-> StampedController, seat_index |-> c.seat_index]
               /\ \A m \in {"seat_index"} : <<c[m]>> = Said(k, p, m)
               /\ c.kind = k /\ c.identity = StampedController
    <3>1. c \in R
      BY <2>4
    <3>2. c.seat_index \in I /\ c.kind = k /\ c.identity = StampedController
      BY <3>1
    <3>3. c = [kind |-> k, identity |-> StampedController, seat_index |-> c.seat_index]
      BY <3>1
    <3>4. <<c["seat_index"]>> = Said(k, p, "seat_index")
      BY <2>2, <3>2, Zenon DEF MemberHeld
    <3> QED BY <3>2, <3>3, <3>4, Zenon
  <2>9. \A c \in D : Says(k, p, c)
    BY <1>2, <2>8, Zenon DEF Says, Said, MembersOf
  <2>10. \A c, d \in D : c = d
    <3> SUFFICES ASSUME NEW c \in D, NEW d \in D PROVE c = d
      OBVIOUS
    <3>1. c["seat_index"] = d["seat_index"]
      <4>1. \A m \in {"seat_index"} : <<c[m]>> = <<d[m]>>
        BY <2>8, Zenon
      <4> QED BY <4>1, SameSingle
    <3> QED BY <2>8, <3>1, Zenon
  <2> QED BY <2>6, <2>7, <2>9, <2>10, Zenon DEF DecodesAs, D
<1> QED BY <1>4, <1>5

\* Six members.
LEMMA SixSize ==
    ASSUME NEW a, NEW b, NEW c, NEW d, NEW e, NEW f, a # b, a # c, a # d, a # e, a # f, b # c, b # d, b # e, b # f,
           c # d, c # e, c # f, d # e, d # f, e # f
    PROVE  IsFiniteSet({a, b, c, d, e, f}) /\ Cardinality({a, b, c, d, e, f}) = 6
<1>1. IsFiniteSet({a, b, c, d}) /\ Cardinality({a, b, c, d}) = 4
  BY FourSize
<1>2. {a, b, c, d} \cup {e} = {a, b, c, d, e} /\ e \notin {a, b, c, d}
  OBVIOUS
<1>3. IsFiniteSet({a, b, c, d} \cup {e}) /\ Cardinality({a, b, c, d} \cup {e}) = Cardinality({a, b, c, d}) + 1
  BY <1>1, <1>2, FS_AddElement
<1>4. IsFiniteSet({a, b, c, d, e}) /\ Cardinality({a, b, c, d, e}) = 5
  BY <1>1, <1>2, <1>3
<1>5. {a, b, c, d, e} \cup {f} = {a, b, c, d, e, f} /\ f \notin {a, b, c, d, e}
  OBVIOUS
<1>6. IsFiniteSet({a, b, c, d, e} \cup {f}) /\ Cardinality({a, b, c, d, e} \cup {f}) = Cardinality({a, b, c, d, e}) + 1
  BY <1>4, <1>5, FS_AddElement
<1> QED BY <1>4, <1>5, <1>6

\* decode_set_movement_tuning
LEMMA TuningDecides ==
    ASSUME NEW p, PayloadGiven(p)
    PROVE  DecodesAs("set_movement_tuning", p, decode_set_movement_tuning(p, StampedController))
<1> DEFINE k == "set_movement_tuning"
           D == decode_set_movement_tuning(p, StampedController)
           Q == {"tuning_request_id", "expected_revision", "acceleration", "top_speed", "charge", "spawn_rate"}
           I == bounded_unsigned_of(p["tuning_request_id"], 1, SafeInteger)
           E == bounded_unsigned_of(p["expected_revision"], 0, SafeInteger)
           A == scalar(p, "acceleration")
           T == scalar(p, "top_speed")
           C == scalar(p, "charge")
           S == scalar(p, "spawn_rate")
           R == [kind : {k}, identity : {StampedController}, tuning_request_id : I, expected_revision : E, acceleration : A, top_speed : T, charge : C, spawn_rate : S]
           counted == Size(p) = 6 /\ HasMembers(p, Q)
<1>1. D = IF counted THEN R ELSE {}
  <2>1. DOMAIN TuningLimits = {"acceleration", "top_speed", "charge", "spawn_rate"}
    BY DEF TuningLimits
  <2>0. Cardinality({"acceleration", "top_speed", "charge", "spawn_rate"}) = 4
    <3> DEFINE a == "acceleration"
               b == "top_speed"
               c == "charge"
               d == "spawn_rate"
    <3>1. a # b /\ a # c /\ a # d /\ b # c /\ b # d /\ c # d
      OBVIOUS
    <3> HIDE DEF a, b, c, d
    <3>2. Cardinality({a, b, c, d}) = 4
      BY <3>1, FourSize, Zenon
    <3> QED BY <3>2 DEF a, b, c, d
  <2>2. Cardinality(DOMAIN TuningLimits) = 4 /\ {"tuning_request_id", "expected_revision"} \cup DOMAIN TuningLimits = Q
    BY <2>0, <2>1
  <2>3. D = IF \/ Size(p) # 2 + Cardinality(DOMAIN TuningLimits)
               \/ ~ HasMembers(p, {"tuning_request_id", "expected_revision"} \cup DOMAIN TuningLimits)
            THEN {} ELSE R
    BY Zenon DEF decode_set_movement_tuning
  <2> HIDE DEF D, R, Q
  <2>4. counted <=> Size(p) = 2 + 4 /\ HasMembers(p, Q)
    OBVIOUS
  <2> QED BY <2>2, <2>3, <2>4
<1>2. MembersOf(k) = {"tuning_request_id", "expected_revision", "acceleration", "top_speed", "charge", "spawn_rate"} /\ RequiredMembers[k] = Q /\ k \notin EntityKinds
  <2>1. OptionalMembers(k) = {}
    BY Zenon DEF OptionalMembers
  <2>2. RequiredMembers[k] = Q /\ k \notin EntityKinds
    BY DEF RequiredMembers, EntityKinds
  <2> QED BY <2>1, <2>2 DEF MembersOf
<1>3. counted <=> Members(k, p)
  <2>1. IsFiniteSet(Q) /\ Cardinality(Q) = 6
    <3> DEFINE a == "tuning_request_id"
               b == "expected_revision"
               c == "acceleration"
               d == "top_speed"
               e == "charge"
               f == "spawn_rate"
    <3>1. /\ a # b /\ a # c /\ a # d /\ a # e /\ a # f /\ b # c /\ b # d /\ b # e /\ b # f
          /\ c # d /\ c # e /\ c # f /\ d # e /\ d # f /\ e # f
      OBVIOUS
    <3>2. Q = {a, b, c, d, e, f}
      OBVIOUS
    <3> HIDE DEF a, b, c, d, e, f, Q
    <3>3. IsFiniteSet({a, b, c, d, e, f}) /\ Cardinality({a, b, c, d, e, f}) = 6
      BY <3>1, SixSize, Zenon
    <3> QED BY <3>2, <3>3, Zenon
  <2>2. MembersOf(k) = Q
    BY <1>2
  <2> HIDE DEF Q
  <2> QED BY <1>2, <2>1, <2>2, AllCounted
<1>4. CASE ~ Members(k, p)
  BY <1>1, <1>3, <1>4, ValidIs, Zenon DEF DecodesAs
<1>5. CASE Members(k, p)
  <2>1. JsonGiven(p["tuning_request_id"]) /\ "tuning_request_id" \in DOMAIN p /\ JsonGiven(p["expected_revision"]) /\ "expected_revision" \in DOMAIN p
        /\ JsonGiven(p["acceleration"]) /\ "acceleration" \in DOMAIN p
        /\ JsonGiven(p["top_speed"]) /\ "top_speed" \in DOMAIN p
        /\ JsonGiven(p["charge"]) /\ "charge" \in DOMAIN p
        /\ JsonGiven(p["spawn_rate"]) /\ "spawn_rate" \in DOMAIN p
    BY <1>3, <1>5 DEF PayloadGiven, HasMembers
  <2>2. MemberHeld(k, p, "tuning_request_id", I)
    BY <2>1, AdmittedToo, WholeRead, Zenon
  <2>3. MemberHeld(k, p, "expected_revision", E)
    BY <2>1, AdmittedToo, WholeRead, Zenon
  <2>4. MemberHeld(k, p, "acceleration", A)
    <3>1. A = finite_number_of(p["acceleration"]) \cap 1 .. 3
      BY DEF scalar, TuningLimits
    <3> HIDE DEF A
    <3> QED BY <2>1, <3>1, AdmittedToo, NumberRead, Zenon
  <2>5. MemberHeld(k, p, "top_speed", T)
    <3>1. T = finite_number_of(p["top_speed"]) \cap 1 .. 2
      BY DEF scalar, TuningLimits
    <3> HIDE DEF T
    <3> QED BY <2>1, <3>1, AdmittedToo, NumberRead, Zenon
  <2>6. MemberHeld(k, p, "charge", C)
    <3>1. C = finite_number_of(p["charge"]) \cap 0 .. 2
      BY DEF scalar, TuningLimits
    <3> HIDE DEF C
    <3> QED BY <2>1, <3>1, AdmittedToo, NumberRead, Zenon
  <2>7. MemberHeld(k, p, "spawn_rate", S)
    <3>1. S = finite_number_of(p["spawn_rate"]) \cap 0 .. 1
      BY DEF scalar, TuningLimits
    <3> HIDE DEF S
    <3> QED BY <2>1, <3>1, AdmittedToo, NumberRead, Zenon
  <2>8. SchemaValid(k, p) <=> (\A m \in {"tuning_request_id", "expected_revision", "acceleration", "top_speed", "charge", "spawn_rate"} : m \in DOMAIN p => SchemaAdmits(k, m, p[m]))
    BY <1>2, <1>5, ValidIs
  <2>9. D = R
    BY <1>1, <1>3, <1>5
  <2> HIDE DEF D, I, E, A, T, C, S, counted, Q
  <2>11. SchemaValid(k, p) <=> I # {} /\ E # {} /\ A # {} /\ T # {} /\ C # {} /\ S # {}
    BY <2>2, <2>3, <2>4, <2>5, <2>6, <2>7, <2>8 DEF MemberHeld
  <2>12. D # {} <=> I # {} /\ E # {} /\ A # {} /\ T # {} /\ C # {} /\ S # {}
    <3>1. ASSUME NEW i \in I, NEW e \in E, NEW a \in A, NEW t \in T, NEW c \in C, NEW s \in S PROVE D # {}
      <4>1. [kind |-> k, identity |-> StampedController, tuning_request_id |-> i, expected_revision |-> e, acceleration |-> a, top_speed |-> t, charge |-> c, spawn_rate |-> s] \in R
        OBVIOUS
      <4> QED BY <2>9, <4>1
    <3>2. ASSUME NEW c \in D PROVE c.tuning_request_id \in I /\ c.expected_revision \in E /\ c.acceleration \in A /\ c.top_speed \in T /\ c.charge \in C /\ c.spawn_rate \in S
      BY <2>9
    <3> QED BY <3>1, <3>2, Zenon
  <2>13. ASSUME NEW c \in D
        PROVE  /\ c = [kind |-> k, identity |-> StampedController, tuning_request_id |-> c.tuning_request_id, expected_revision |-> c.expected_revision, acceleration |-> c.acceleration, top_speed |-> c.top_speed, charge |-> c.charge, spawn_rate |-> c.spawn_rate]
               /\ \A m \in {"tuning_request_id", "expected_revision", "acceleration", "top_speed", "charge", "spawn_rate"} : <<c[m]>> = Said(k, p, m)
               /\ c.kind = k /\ c.identity = StampedController
    <3>1. c \in R
      BY <2>9
    <3>2. c.tuning_request_id \in I /\ c.expected_revision \in E /\ c.acceleration \in A /\ c.top_speed \in T /\ c.charge \in C /\ c.spawn_rate \in S /\ c.kind = k /\ c.identity = StampedController
      BY <3>1
    <3>3. c = [kind |-> k, identity |-> StampedController, tuning_request_id |-> c.tuning_request_id, expected_revision |-> c.expected_revision, acceleration |-> c.acceleration, top_speed |-> c.top_speed, charge |-> c.charge, spawn_rate |-> c.spawn_rate]
      BY <3>1
    <3>4. <<c["tuning_request_id"]>> = Said(k, p, "tuning_request_id") /\ <<c["expected_revision"]>> = Said(k, p, "expected_revision") /\ <<c["acceleration"]>> = Said(k, p, "acceleration") /\ <<c["top_speed"]>> = Said(k, p, "top_speed") /\ <<c["charge"]>> = Said(k, p, "charge") /\ <<c["spawn_rate"]>> = Said(k, p, "spawn_rate")
      BY <2>2, <2>3, <2>4, <2>5, <2>6, <2>7, <3>2, Zenon DEF MemberHeld
    <3> QED BY <3>2, <3>3, <3>4, Zenon
  <2>14. \A c \in D : Says(k, p, c)
    BY <1>2, <2>13, Zenon DEF Says, Said, MembersOf
  <2>15. \A c, d \in D : c = d
    <3> SUFFICES ASSUME NEW c \in D, NEW d \in D PROVE c = d
      OBVIOUS
    <3>1. c["tuning_request_id"] = d["tuning_request_id"] /\ c["expected_revision"] = d["expected_revision"] /\ c["acceleration"] = d["acceleration"] /\ c["top_speed"] = d["top_speed"] /\ c["charge"] = d["charge"] /\ c["spawn_rate"] = d["spawn_rate"]
      <4>1. \A m \in {"tuning_request_id", "expected_revision", "acceleration", "top_speed", "charge", "spawn_rate"} : <<c[m]>> = <<d[m]>>
        BY <2>13, Zenon
      <4> QED BY <4>1, SameSingle
    <3> QED BY <2>13, <3>1, Zenon
  <2> QED BY <2>11, <2>12, <2>14, <2>15, Zenon DEF DecodesAs, D
<1> QED BY <1>4, <1>5

\* decode_seat_npc
LEMMA SeatNpcDecides ==
    ASSUME NEW p, PayloadGiven(p)
    PROVE  DecodesAs("seat_npc", p, decode_seat_npc(p, StampedController))
<1> DEFINE k == "seat_npc"
           D == decode_seat_npc(p, StampedController)
           Q == {"seat_index", "npc_kind"}
           profile == IF "profile_name" \in DOMAIN p THEN p["profile_name"].s ELSE Plain
           I == decode_seat_index(p["seat_index"])
           N == {p["npc_kind"].s}
           P == {profile}
           R == [kind : {k}, identity : {StampedController}, seat_index : I, npc_kind : N, profile_name : P]
           counted == Size(p) = 2 + MemberCount(p, "profile_name") /\ HasMembers(p, Q)
           typed == p["npc_kind"].t = "text" /\ ("profile_name" \in DOMAIN p => p["profile_name"].t = "text")
           listed == <<p["npc_kind"].s, profile>> \in NpcCatalogue /\ p["npc_kind"].s \in WireKindNames
           fits == typed /\ listed
<1>1. D = IF counted /\ fits THEN R ELSE {}
  BY Zenon DEF decode_seat_npc
<1>2. MembersOf(k) = {"seat_index", "npc_kind", "profile_name"} /\ RequiredMembers[k] = Q /\ k \notin EntityKinds
  <2>1. OptionalMembers(k) = {"profile_name"}
    BY Zenon DEF OptionalMembers
  <2>2. RequiredMembers[k] = Q /\ k \notin EntityKinds
    BY DEF RequiredMembers, EntityKinds
  <2> QED BY <2>1, <2>2 DEF MembersOf
<1>3. counted <=> Members(k, p)
  <2>1. IsFiniteSet(Q) /\ Cardinality(Q) = 2
    BY PairSize
  <2>2. "profile_name" \notin Q /\ MembersOf(k) = Q \cup {"profile_name"}
    BY <1>2
  <2> HIDE DEF Q
  <2> QED BY <1>2, <2>1, <2>2, AllButOneCounted
<1>4. CASE ~ Members(k, p)
  BY <1>1, <1>3, <1>4, ValidIs, Zenon DEF DecodesAs
<1>6. typed /\ Members(k, p) => (Declares(p) <=> listed)
  <2> SUFFICES ASSUME typed, Members(k, p) PROVE Declares(p) <=> listed
    OBVIOUS
  <2> DEFINE v == p["npc_kind"]
             u == p["profile_name"]
             named == "profile_name" \in DOMAIN p
  <2>1. JsonGiven(v) /\ v.t = "text" /\ (named => JsonGiven(u) /\ u.t = "text")
    BY <1>2 DEF Members, PayloadGiven
  <2>2. v = Text(v.s) /\ (named => u = Text(u.s) /\ u.s # Plain)
    <3> HIDE DEF v, u, named
    <3> QED BY <2>1, Zenon DEF JsonGiven
  <2>3. \A s : Text(s).s = s
    BY DEF Text, Json
  <2>4. profile = IF named THEN u.s ELSE Plain
    OBVIOUS
  <2>5. Declares(p) <=> \E c \in NpcCatalogue : /\ v = Text(c[1]) /\ c[1] \in WireKindNames
                                              /\ IF c[2] = Plain THEN ~ named ELSE named /\ u = Text(c[2])
    BY Zenon DEF Declares
  <2>6. \A c \in NpcCatalogue : c = <<c[1], c[2]>>
    BY DecodingAssumption, Zenon
  <2>7. listed <=> <<v.s, profile>> \in NpcCatalogue /\ v.s \in WireKindNames
    OBVIOUS
  <2> HIDE DEF v, u, named, profile, listed
  <2>8. ASSUME NEW c \in NpcCatalogue, v = Text(c[1]), c[1] \in WireKindNames,
               IF c[2] = Plain THEN ~ named ELSE named /\ u = Text(c[2])
        PROVE  listed
    <3>1. v.s = c[1] /\ profile = c[2]
      BY <2>3, <2>4, <2>8
    <3> QED BY <2>6, <2>7, <2>8, <3>1, Zenon
  <2>9. ASSUME listed
        PROVE  \E c \in NpcCatalogue : /\ v = Text(c[1]) /\ c[1] \in WireKindNames
                                       /\ IF c[2] = Plain THEN ~ named ELSE named /\ u = Text(c[2])
    <3> DEFINE c == <<v.s, profile>>
    <3>1. c[1] = v.s /\ c[2] = profile /\ c \in NpcCatalogue /\ v.s \in WireKindNames
      BY <2>7, <2>9
    <3> HIDE DEF c
    <3>2. v = Text(c[1]) /\ c[1] \in WireKindNames
      BY <2>2, <3>1
    <3>3. IF c[2] = Plain THEN ~ named ELSE named /\ u = Text(c[2])
      BY <2>2, <2>4, <3>1
    <3> QED BY <3>1, <3>2, <3>3
  <2> QED BY <2>5, <2>8, <2>9, Zenon
<1>5. CASE Members(k, p)
  <2>1. JsonGiven(p["seat_index"]) /\ "seat_index" \in DOMAIN p /\ JsonGiven(p["npc_kind"]) /\ "npc_kind" \in DOMAIN p
    BY <1>3, <1>5 DEF PayloadGiven, HasMembers
  <2>2. MemberHeld(k, p, "seat_index", I)
    BY <2>1, AdmittedToo, WholeRead, Zenon DEF decode_seat_index
  <2>3. fits => MemberHeld(k, p, "npc_kind", N)
    <3> DEFINE v == p["npc_kind"]
    <3>1. v.t = "text" => Meaning("npc_kind", v) = <<v.s>>
      BY Zenon DEF Meaning
    <3>2. Said(k, p, "npc_kind") = Meaning("npc_kind", v)
      BY <2>1, Zenon DEF Said
    <3>3. N = {v.s} /\ (fits => v.t = "text")
      OBVIOUS
    <3> HIDE DEF v, N, fits
    <3> QED BY <2>1, <3>1, <3>2, <3>3, AdmittedToo DEF MemberHeld, v
  <2>4. fits => MemberHeld(k, p, "profile_name", P)
    <3>1. CASE "profile_name" \in DOMAIN p
      <4>1. p["profile_name"].t = "text" => Meaning("profile_name", p["profile_name"]) = <<p["profile_name"].s>>
        BY Zenon DEF Meaning
      <4>2. Said(k, p, "profile_name") = Meaning("profile_name", p["profile_name"])
        BY <3>1, Zenon DEF Said
      <4>3. P = {p["profile_name"].s} /\ (fits => p["profile_name"].t = "text")
        BY <3>1
      <4> HIDE DEF P, fits
      <4> QED BY <3>1, <4>1, <4>2, <4>3, AdmittedToo DEF MemberHeld
    <3>2. CASE "profile_name" \notin DOMAIN p
      <4>1. Said(k, p, "profile_name") = <<Plain>> /\ P = {Plain}
        BY <3>2, Defaulted, Zenon DEF Said
      <4> QED BY <3>2, <4>1 DEF MemberHeld
    <3> QED BY <3>1, <3>2
  <2>5. SchemaValid(k, p) <=> (\A m \in {"seat_index", "npc_kind", "profile_name"} : m \in DOMAIN p => SchemaAdmits(k, m, p[m])) /\ Declares(p)
    BY <1>2, <1>5, ValidIs
  <2>6. CASE ~ fits
    <3>1. ~ typed => ~ SchemaAdmits(k, "npc_kind", p["npc_kind"])
                      \/ ("profile_name" \in DOMAIN p /\ ~ SchemaAdmits(k, "profile_name", p["profile_name"]))
      BY AdmittedToo, Zenon
    <3>2. typed => ~ listed
      BY <2>6
    <3>3. D = {}
      BY <1>1, <2>6
    <3> QED BY <1>6, <1>5, <2>1, <2>5, <3>1, <3>2, <3>3, Zenon DEF DecodesAs
  <2>7. CASE fits
    <3>0. Declares(p)
      BY <1>5, <1>6, <2>7
    <3>1. D = R
      BY <1>1, <1>3, <1>5, <2>7
    <3>2. MemberHeld(k, p, "npc_kind", N) /\ MemberHeld(k, p, "profile_name", P)
      BY <2>3, <2>4, <2>7, Zenon
    <3> HIDE DEF D, I, N, P, counted, Q, fits, typed, listed
    <3>3. SchemaValid(k, p) <=> I # {} /\ N # {} /\ P # {}
      BY <2>2, <3>2, <2>5, <3>0 DEF MemberHeld
    <3>4. D # {} <=> I # {} /\ N # {} /\ P # {}
      <4>1. ASSUME NEW i \in I, NEW n \in N, NEW q \in P PROVE D # {}
        <5>1. [kind |-> k, identity |-> StampedController, seat_index |-> i, npc_kind |-> n, profile_name |-> q] \in R
          OBVIOUS
        <5> QED BY <3>1, <5>1
      <4>2. ASSUME NEW c \in D PROVE c.seat_index \in I /\ c.npc_kind \in N /\ c.profile_name \in P
        BY <3>1
      <4> QED BY <4>1, <4>2, Zenon
    <3>5. ASSUME NEW c \in D
          PROVE  /\ c = [kind |-> k, identity |-> StampedController, seat_index |-> c.seat_index, npc_kind |-> c.npc_kind, profile_name |-> c.profile_name]
                 /\ \A m \in {"seat_index", "npc_kind", "profile_name"} : <<c[m]>> = Said(k, p, m)
                 /\ c.kind = k /\ c.identity = StampedController
      <4>1. c \in R
        BY <3>1
      <4>2. c.seat_index \in I /\ c.npc_kind \in N /\ c.profile_name \in P /\ c.kind = k /\ c.identity = StampedController
        BY <4>1
      <4>3. c = [kind |-> k, identity |-> StampedController, seat_index |-> c.seat_index, npc_kind |-> c.npc_kind, profile_name |-> c.profile_name]
        BY <4>1
      <4>4. <<c["seat_index"]>> = Said(k, p, "seat_index") /\ <<c["npc_kind"]>> = Said(k, p, "npc_kind") /\ <<c["profile_name"]>> = Said(k, p, "profile_name")
        BY <2>2, <3>2, <4>2, Zenon DEF MemberHeld
      <4> QED BY <4>2, <4>3, <4>4, Zenon
    <3>6. \A c \in D : Says(k, p, c)
      BY <1>2, <3>5, Zenon DEF Says, Said, MembersOf
    <3>7. \A c, d \in D : c = d
      <4> SUFFICES ASSUME NEW c \in D, NEW d \in D PROVE c = d
        OBVIOUS
      <4>1. c["seat_index"] = d["seat_index"] /\ c["npc_kind"] = d["npc_kind"] /\ c["profile_name"] = d["profile_name"]
        <5>1. \A m \in {"seat_index", "npc_kind", "profile_name"} : <<c[m]>> = <<d[m]>>
          BY <3>5, Zenon
        <5> QED BY <5>1, SameSingle
      <4> QED BY <3>5, <4>1, Zenon
    <3> QED BY <3>3, <3>4, <3>6, <3>7, Zenon DEF DecodesAs, D
  <2> QED BY <2>6, <2>7
<1> QED BY <1>4, <1>5

\* decode_start_match
LEMMA StartDecides ==
    ASSUME NEW p, PayloadGiven(p)
    PROVE  DecodesAs("start_match", p, decode_start_match(p, StampedController))
<1> DEFINE k == "start_match"
           D == decode_start_match(p, StampedController)
           c == [kind |-> k, identity |-> StampedController]
<1>1. D = IF DOMAIN p # {} THEN {} ELSE {c}
  BY Zenon DEF decode_start_match
<1>2. MembersOf(k) = {} /\ RequiredMembers[k] = {} /\ OptionalMembers(k) = {} /\ k \notin EntityKinds
  <2>1. OptionalMembers(k) = {}
    BY Zenon DEF OptionalMembers
  <2>2. RequiredMembers[k] = {} /\ k \notin EntityKinds
    BY DEF RequiredMembers, EntityKinds
  <2> QED BY <2>1, <2>2 DEF MembersOf
<1>3. SchemaValid(k, p) <=> DOMAIN p = {}
  BY <1>2, ValidIs DEF Members
<1>4. c.kind = k /\ c.identity = StampedController
  OBVIOUS
<1> HIDE DEF c, D
<1>5. Says(k, p, c)
  BY <1>2, <1>4 DEF Says
<1> QED BY <1>1, <1>3, <1>5, Zenon DEF DecodesAs, D

---------------------------------------------------------------------------
(* CommandDecoding: the envelope.                                          *)

\* decode_payload
LEMMA PayloadDecides ==
    ASSUME NEW kind \in ClientKinds, NEW p, PayloadGiven(p)
    PROVE  DecodesAs(kind, p, decode_payload(kind, p))
<1>1. CASE kind = "set_thrust"
  <2>1. decode_payload(kind, p) = decode_set_thrust(p, StampedEntity)
    BY <1>1, Zenon DEF decode_payload
  <2> QED BY <1>1, <2>1, ThrustDecides, Zenon
<1>2. CASE kind = "shield"
  <2>1. decode_payload(kind, p) = decode_shield(p, StampedEntity)
    BY <1>2, Zenon DEF decode_payload
  <2> QED BY <1>2, <2>1, ShieldDecides, Zenon
<1>3. CASE kind = "charge"
  <2>1. decode_payload(kind, p) = decode_charge(p, StampedEntity)
    BY <1>3, Zenon DEF decode_payload
  <2> QED BY <1>3, <2>1, ChargeDecides, Zenon
<1>4. CASE kind = "rotate_velocity"
  <2>1. decode_payload(kind, p) = decode_rotate_velocity(p, StampedEntity)
    BY <1>4, Zenon DEF decode_payload
  <2> QED BY <1>4, <2>1, RotateDecides, Zenon
<1>5. CASE kind = "set_seat_count"
  <2>1. decode_payload(kind, p) = decode_set_seat_count(p, StampedController)
    BY <1>5, Zenon DEF decode_payload
  <2> QED BY <1>5, <2>1, SeatCountDecides, Zenon
<1>6. CASE kind = "clear_seat"
  <2>1. decode_payload(kind, p) = decode_clear_seat(p, StampedController)
    BY <1>6, Zenon DEF decode_payload
  <2> QED BY <1>6, <2>1, ClearSeatDecides, Zenon
<1>7. CASE kind = "seat_npc"
  <2>1. decode_payload(kind, p) = decode_seat_npc(p, StampedController)
    BY <1>7, Zenon DEF decode_payload
  <2> QED BY <1>7, <2>1, SeatNpcDecides, Zenon
<1>8. CASE kind = "start_match"
  <2>1. decode_payload(kind, p) = decode_start_match(p, StampedController)
    BY <1>8, Zenon DEF decode_payload
  <2> QED BY <1>8, <2>1, StartDecides, Zenon
<1>9. CASE kind = "set_movement_tuning"
  <2>1. decode_payload(kind, p) = decode_set_movement_tuning(p, StampedController)
    BY <1>9, Zenon DEF decode_payload
  <2> QED BY <1>9, <2>1, TuningDecides, Zenon
<1> QED BY <1>1, <1>2, <1>3, <1>4, <1>5, <1>6, <1>7, <1>8, <1>9 DEF ClientKinds, EntityKinds, ControllerCommands

\* What a frame has to be, and what is answered.
FrameValid(f) ==
    /\ f.fits /\ f.parses /\ f.object /\ f.members = {"kind", "payload"}
    /\ f.kind.t = "text" /\ f.kind.s \in ClientKinds \cap accepts
    /\ SchemaValid(f.kind.s, f.payload)
Answers(f, a) ==
    IF FrameValid(f) THEN \E c \in a.command : a = Decoded({c}) /\ Says(f.kind.s, f.payload, c)
    ELSE a.command = {} /\ a.rejection # "none"

\* decode_command_envelope
LEMMA EnvelopeAnswers ==
    ASSUME NEW f \in Frames
    PROVE  Answers(f, decode_command_envelope(f))
<1> DEFINE a == decode_command_envelope(f)
           k == f.kind.s
           p == f.payload
           enveloped == f.parses /\ f.object /\ f.members = {"kind", "payload"}
           known == f.kind.t = "text" /\ k \in ClientKinds \cap accepts
           commands == decode_payload(k, p)
<1>1. f.fits \in BOOLEAN /\ f.parses \in BOOLEAN /\ f.object \in BOOLEAN /\ IsFiniteSet(f.members) /\ PayloadGiven(p)
  BY DecodingAssumption, Zenon DEF PayloadGiven
<1>2. Cardinality(f.members) = 2 /\ {"kind", "payload"} \subseteq f.members <=> f.members = {"kind", "payload"}
  <2> DEFINE M == f.members
             x == "kind"
             y == "payload"
  <2>1. x # y /\ IsFiniteSet(M)
    BY <1>1
  <2> HIDE DEF M, x, y
  <2>2. Cardinality(M) = 2 /\ {x, y} \subseteq M <=> M = {x, y}
    BY <2>1, SizeTwo
  <2> QED BY <2>2 DEF M, x, y
<1>3. a = IF ~ f.fits THEN Rejected("too_large")
          ELSE IF ~ f.parses \/ Cardinality(f.members) # 2 \/ ~ {"kind", "payload"} \subseteq f.members \/ ~ f.object
               THEN Rejected("malformed")
          ELSE IF f.kind.t # "text" \/ k \notin ClientKinds \cap accepts THEN Rejected("kind_rejected")
          ELSE IF commands = {} THEN Rejected("payload_invalid") ELSE Decoded(commands)
  BY Zenon DEF decode_command_envelope
<1>4. a = IF ~ f.fits THEN Rejected("too_large") ELSE IF ~ enveloped THEN Rejected("malformed")
          ELSE IF ~ known THEN Rejected("kind_rejected")
          ELSE IF commands = {} THEN Rejected("payload_invalid") ELSE Decoded(commands)
  <2> HIDE DEF a, commands
  <2> QED BY <1>1, <1>2, <1>3
<1>5. FrameValid(f) <=> f.fits /\ enveloped /\ known /\ SchemaValid(k, p)
  BY <1>1, Zenon DEF FrameValid
<1>6. known => DecodesAs(k, p, commands)
  BY <1>1, PayloadDecides
<1>7. ASSUME NEW reason, reason # "none", a = Rejected(reason) PROVE a.command = {} /\ a.rejection # "none"
  <2> HIDE DEF a
  <2> QED BY <1>7 DEF Rejected
<1> HIDE DEF a, commands, enveloped, known
<1>8. CASE ~ FrameValid(f)
  <2>1. known /\ ~ SchemaValid(k, p) => commands = {}
    BY <1>6, Zenon DEF DecodesAs
  <2>2. a \in {Rejected("too_large"), Rejected("malformed"), Rejected("kind_rejected"), Rejected("payload_invalid")}
    BY <1>1, <1>4, <1>5, <1>8, <2>1
  <2>3. "too_large" # "none" /\ "malformed" # "none" /\ "kind_rejected" # "none" /\ "payload_invalid" # "none"
    OBVIOUS
  <2>4. a.command = {} /\ a.rejection # "none"
    BY <1>7, <2>2, <2>3, Zenon
  <2> QED BY <1>8, <2>4, Zenon DEF Answers, a
<1>9. CASE FrameValid(f)
  <2>1. DecodesAs(k, p, commands) /\ SchemaValid(k, p) /\ f.fits /\ enveloped /\ known
    BY <1>5, <1>6, <1>9, Zenon
  <2>2. PICK c \in commands : TRUE
    BY <2>1, Zenon DEF DecodesAs
  <2>3. commands = {c}
    BY <2>1, <2>2 DEF DecodesAs
  <2>4. a = Decoded({c})
    BY <1>4, <2>1, <2>2, <2>3
  <2>5. a.command = {c}
    BY <2>4 DEF Decoded
  <2>6. Says(k, p, c)
    BY <2>1, <2>2, Zenon DEF DecodesAs
  <2> QED BY <1>9, <2>4, <2>5, <2>6, Zenon DEF Answers, a
<1> QED BY <1>8, <1>9

\* A decoder accepts exactly what the published schemas accept, whatever the
\* frames, the catalogue and the room's mask (decode_command_envelope and the
\* nine decoders behind it).
THEOREM DecoderAlwaysMatchesSchema == WireSpec => []DecoderMatchesSchema
<1> DEFINE WireInv == frame # NoFrame => frame \in Frames /\ answer = decode_command_envelope(frame)
<1>1. WireInit(SUBSET ClientKinds) => WireInv
  BY Zenon DEF WireInit
<1>2. WireInv /\ [WireNext]_wireVars => WireInv'
  <2>1. ASSUME WireInv, ReadFrame PROVE WireInv'
    <3>1. /\ frame' \in Frames /\ accepts' = accepts
          /\ answer' = decode_command_envelope(frame')
      BY <2>1, Zenon DEF ReadFrame
    <3>2. answer' = decode_command_envelope(frame)'
      BY <3>1, Zenon DEF decode_command_envelope
    <3> QED BY <3>1, <3>2, Zenon
  <2>2. ASSUME WireInv, FrameHandled PROVE WireInv'
    BY <2>2, Zenon DEF FrameHandled, NoFrame
  <2>3. ASSUME WireInv, UNCHANGED wireVars PROVE WireInv'
    <3>1. frame' = frame /\ answer' = answer /\ accepts' = accepts
      BY <2>3, Zenon DEF wireVars
    <3>2. decode_command_envelope(frame)' = decode_command_envelope(frame)
      BY <3>1, Zenon DEF decode_command_envelope
    <3> QED BY <2>3, <3>1, <3>2, Zenon DEF NoFrame
  <2> QED BY <2>1, <2>2, <2>3, Zenon DEF WireNext
<1>3. WireInv => DecoderMatchesSchema
  <2> SUFFICES ASSUME WireInv, frame # NoFrame PROVE DecoderMatchesSchema
    BY Zenon DEF DecoderMatchesSchema
  <2>1. Answers(frame, answer)
    BY EnvelopeAnswers, Zenon
  <2> QED BY <2>1, Zenon DEF DecoderMatchesSchema, Answers, FrameValid
<1> QED BY <1>1, <1>2, <1>3, PTL DEF WireSpec
============================================================================
