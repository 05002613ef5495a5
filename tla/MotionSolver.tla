---------------------------- MODULE MotionSolver ----------------------------
(***************************************************************************)
(* solve_continuous_motion (src/src/simulation/continuous_motion), on one  *)
(* axis and in exact arithmetic.  A tick is End units of time, a velocity  *)
(* is a distance per unit, and lengths are chosen so that every root is an *)
(* integer.  The solver is a record; its operations are functions of it:   *)
(*                                                                         *)
(*   now      time of the last event                                       *)
(*   bodies   EpochBody by entity: motion since its own anchor             *)
(*   pairs    PairCache by pair (lower entity first)                       *)
(*   walls    the wall event of each body, and the side it was made for    *)
(*   triggers TriggerCache by <<entity, kind>>                             *)
(*   effects  what was published, in order; count  the events so far      *)
(***************************************************************************)
EXTENDS Integers, FiniteSets, FiniteSetsExt, Sequences, SpatialIndex

CONSTANTS
    End,                \* MotionTime::end
    Pit,                \* <<from, to>>: unsupported ground between, exclusive
    GatePosition, GateRadius, \* the gates, in order
    MaxMotionEvents     \* MotionLimits::events

ASSUME SolverAssumption ==
    /\ End \in Nat \ {0} /\ MaxMotionEvents \in Nat
    /\ Pit \in Int \X Int /\ Pit[1] <= Pit[2]
    /\ GatePosition \in Seq(Int) /\ GateRadius \in Nat \ {0}

Never == -1             \* no event
Sign(x) == IF x < 0 THEN -1 ELSE IF x > 0 THEN 1 ELSE 0
Larger(a, b) == IF a > b THEN a ELSE b
Smaller(a, b) == IF a < b THEN a ELSE b

\* MotionEventPriority.
SupportLoss == 0
BodyContact == 1
WallX == 2
Checkpoint == 4

\* MotionEventKey and its order: time, priority, then the identities.
Key(time, priority, first, second) == <<time, priority, first, second>>
Before(k, l) ==
    \E i \in 1 .. 4 : k[i] < l[i] /\ \A j \in 1 .. i - 1 : k[j] = l[j]

Pairs(entities) == {p \in entities \X entities : p[1] < p[2]}

---------------------------------------------------------------------------
(* Epochs.                                                                 *)

\* geometric_velocity.
velocity_of(body) == IF is_static(body) THEN 0 ELSE body.velocity

\* State::at: where an epoch puts its body at a time.
at(epoch, time) ==
    IF is_static(epoch.body) \/ epoch.terminated THEN epoch.body.position
    ELSE epoch.body.position + epoch.body.velocity * (time - epoch.anchor)

Epoch(body, policy) ==
    [body |-> body, anchor |-> 0, revision |-> 0, terminated |-> FALSE, touch |-> policy]

---------------------------------------------------------------------------
(* Events of pairs.                                                        *)

\* A certificate: when, and whether an impact was admitted at these revisions.
NoCertificate == [time |-> Never, normal |-> 1, impact |-> FALSE, revisions |-> <<0, 0>>]
Revisions(s, p) == <<s.bodies[p[1]].revision, s.bodies[p[2]].revision>>

\* contact_geometry: from the first to the second; along the relative motion
\* when they coincide.
contact_normal(apart, approach) ==
    IF apart # 0 THEN Sign(apart) ELSE IF approach # 0 THEN Sign(approach) ELSE 1

closing(first, second, normal) == (velocity_of(second) - velocity_of(first)) * normal < 0

\* pair_event: an overlap is an event at the start of the later epoch; outside,
\* only the entry is one.
pair_event(s, p) ==
    LET a == s.bodies[p[1]]
        b == s.bodies[p[2]]
        begin == Larger(a.anchor, b.anchor)
        apart == at(b, begin) - at(a, begin)
        approach == velocity_of(a.body) - velocity_of(b.body)
        distance == contact_distance(a.body, b.body)
        observes == a.touch \/ b.touch
        entry == begin + ((Sign(apart) * apart) - distance) \div (Sign(approach) * approach)
        make(time, impact) ==
            LET normal == contact_normal(at(b, time) - at(a, time), approach)
            IN IF observes \/ (impact /\ closing(a.body, b.body, normal))
               THEN [time |-> time, normal |-> normal, impact |-> impact, revisions |-> Revisions(s, p)]
               ELSE NoCertificate
    IN IF Sign(apart) * apart <= distance
       THEN make(begin, approach # 0 /\ (apart = 0 \/ approach * apart > 0))
       ELSE IF begin = End \/ approach * apart <= 0 THEN NoCertificate
            ELSE IF entry > End \/ entry < s.now THEN NoCertificate ELSE make(entry, TRUE)

\* The swept boxes of two epochs overlap, and they are not both static.
candidate(s, p) ==
    LET a == s.bodies[p[1]]
        b == s.bodies[p[2]]
        low(e) == Smaller(e.body.position, e.body.position + velocity_of(e.body) * (End - e.anchor))
                      - effective_radius(e.body)
        high(e) == Larger(e.body.position, e.body.position + velocity_of(e.body) * (End - e.anchor))
                      + effective_radius(e.body)
    IN /\ ~ (is_static(a.body) /\ is_static(b.body))
       /\ low(a) <= high(b) /\ low(b) <= high(a)

\* Mutant of refresh_pair: an event outlives the motion it was computed for.
RefreshOnce(s, p) ==
    LET cache == s.pairs[p]
        live == ~ s.bodies[p[1]].terminated /\ ~ s.bodies[p[2]].terminated
        event == IF ~ live \/ cache.suppressed = Revisions(s, p) THEN NoCertificate
                 ELSE IF cache.event.time # Never THEN cache.event
                 ELSE IF ~ candidate(s, p) THEN NoCertificate
                 ELSE IF cache.seen # Revisions(s, p) THEN pair_event(s, p) ELSE cache.event
    IN [cache EXCEPT !.event = event, !.seen = Revisions(s, p)]

\* rebuild, for one pair: a certificate of this very moment is kept, others are
\* computed anew when either motion changed.
refresh_pair(s, p) ==
    LET cache == s.pairs[p]
        live == ~ s.bodies[p[1]].terminated /\ ~ s.bodies[p[2]].terminated
        event == IF ~ live \/ cache.suppressed = Revisions(s, p) THEN NoCertificate
                 ELSE IF cache.event.time = s.now THEN cache.event
                 ELSE IF ~ candidate(s, p) THEN NoCertificate
                 ELSE IF cache.seen # Revisions(s, p) THEN pair_event(s, p) ELSE cache.event
    IN [cache EXCEPT !.event = event, !.seen = Revisions(s, p)]

---------------------------------------------------------------------------
(* Events of walls.                                                        *)

NoWall == [time |-> Never, side |-> 0]

\* rebuild, for one body: the time it meets the wall it moves to.  Overlapping
\* the wall, it is reflected at once.
refresh_wall(s, e) ==
    LET epoch == s.bodies[e]
        speed == velocity_of(epoch.body)
        start == epoch.body.position
        boundary == IF speed < 0 THEN effective_radius(epoch.body) ELSE Width - effective_radius(epoch.body)
        beyond == (speed < 0 /\ start <= boundary) \/ (speed > 0 /\ start >= boundary)
        time == IF beyond THEN epoch.anchor
                ELSE epoch.anchor + (Sign(speed) * (boundary - start)) \div (Sign(speed) * speed)
    IN IF epoch.terminated \/ is_static(epoch.body) \/ crosses_bounds(epoch.body) THEN NoWall
       ELSE IF s.walls[e].time = s.now THEN s.walls[e]
       ELSE IF speed # 0 /\ (beyond \/ (time >= s.now /\ time <= End))
            THEN [time |-> time, side |-> IF speed < 0 THEN 0 ELSE 1]
            ELSE NoWall

\* State::rebuild, when a motion or a wall changed.
rebuild(s) ==
    [s EXCEPT !.pairs = [p \in DOMAIN s.pairs |-> refresh_pair(s, p)],
              !.walls = [e \in DOMAIN s.walls |-> refresh_wall(s, e)]]

---------------------------------------------------------------------------
(* Triggers.                                                               *)

OverPit(position) == Pit[1] < position /\ position < Pit[2]

\* support_loss_motion_trigger: when the ground the body is on ends.
support_loss(s, e) ==
    LET epoch == s.bodies[e]
        x == at(epoch, s.now)
        speed == velocity_of(epoch.body)
        edge == IF speed > 0 THEN Pit[1] ELSE Pit[2]
        ends == s.now + (Sign(speed) * (edge - x)) \div (Sign(speed) * speed)
    IN IF OverPit(x) THEN s.now
       ELSE IF speed = 0 \/ (speed > 0 /\ x > Pit[1]) \/ (speed < 0 /\ x < Pit[2]) \/ Pit[1] = Pit[2]
            THEN Never
            ELSE IF ends < End THEN ends ELSE Never

\* ordered_gate_motion_trigger: the first time from now on inside the gate.
gate_entry(s, e, cursor) ==
    LET epoch == s.bodies[e]
        x == at(epoch, s.now)
        speed == velocity_of(epoch.body)
        gate == GatePosition[cursor + 1]
        edge == IF speed > 0 THEN gate - GateRadius ELSE gate + GateRadius
        enters == s.now + (Sign(speed) * (edge - x)) \div (Sign(speed) * speed)
    IN IF cursor >= Len(GatePosition) THEN Never
       ELSE IF x \in gate - GateRadius .. gate + GateRadius THEN s.now
       ELSE IF speed = 0 \/ (speed > 0 /\ x > gate) \/ (speed < 0 /\ x < gate) THEN Never
       ELSE IF enters <= End THEN enters ELSE Never

TriggerPriority(kind) == IF kind = "support" THEN SupportLoss ELSE Checkpoint

\* Mutant of refresh_trigger: an event found once is not looked for again.
RefreshTriggerOnce(s, t) ==
    LET cache == s.triggers[t]
        epoch == s.bodies[t[1]]
    IN IF epoch.terminated THEN [cache EXCEPT !.time = Never]
       ELSE IF cache.initialized THEN cache
       ELSE [cache EXCEPT !.time = IF t[2] = "support" THEN support_loss(s, t[1])
                                   ELSE gate_entry(s, t[1], cache.cursor),
                          !.revision = epoch.revision, !.initialized = TRUE]

\* The loop's refresh of one cache: a tied event survives a change of motion.
refresh_trigger(s, t) ==
    LET cache == s.triggers[t]
        epoch == s.bodies[t[1]]
    IN IF epoch.terminated THEN [cache EXCEPT !.time = Never]
       ELSE IF cache.initialized /\ (cache.revision = epoch.revision \/ cache.time = s.now) THEN cache
       ELSE [cache EXCEPT !.time = IF t[2] = "support" THEN support_loss(s, t[1])
                                   ELSE gate_entry(s, t[1], cache.cursor),
                          !.revision = epoch.revision, !.initialized = TRUE]

refresh_triggers(s) == [s EXCEPT !.triggers = [t \in DOMAIN s.triggers |-> refresh_trigger(s, t)]]

---------------------------------------------------------------------------
(* The events pending, as their keys.                                      *)

ContactKeys(s) ==
    {Key(s.pairs[p].event.time, BodyContact, p[1], p[2]) :
        p \in {q \in DOMAIN s.pairs : s.pairs[q].event.time # Never}}

WallKeys(s) ==
    {Key(s.walls[e].time, WallX, e, s.walls[e].side) :
        e \in {f \in DOMAIN s.walls : s.walls[f].time # Never}}

TriggerKeys(s) ==
    {Key(s.triggers[t].time, TriggerPriority(t[2]), t[1], s.triggers[t].cursor) :
        t \in {u \in DOMAIN s.triggers : s.triggers[u].time # Never}}

Pending(s) == ContactKeys(s) \cup WallKeys(s) \cup TriggerKeys(s)
Selected(s) == CHOOSE k \in Pending(s) : \A l \in Pending(s) : l = k \/ Before(k, l)

---------------------------------------------------------------------------
(* Responses.                                                              *)

\* replace: a new velocity or a termination starts an epoch here and now.
replace(s, e, velocity, terminates) ==
    LET epoch == s.bodies[e]
        body == [epoch.body EXCEPT !.position = at(epoch, s.now), !.velocity = velocity]
    IN IF velocity = epoch.body.velocity /\ ~ terminates THEN s
       ELSE [s EXCEPT !.bodies[e] = [epoch EXCEPT !.body = body, !.anchor = s.now, !.revision = epoch.revision + 1,
                                                  !.terminated = terminates]]

\* contact: whether the certificate still stands for an impact, asking the
\* current motion when it is not the one it was made for.
impact_admitted(s, p) ==
    LET event == s.pairs[p].event
        a == s.bodies[p[1]]
        b == s.bodies[p[2]]
        apart == at(b, s.now) - at(a, s.now)
        approach == velocity_of(a.body) - velocity_of(b.body)
    IN /\ IF event.revisions = Revisions(s, p) THEN event.impact ELSE apart = 0 \/ approach * apart > 0
       /\ closing(a.body, b.body, event.normal)

\* ContactRuleTable::built_in: equal discs exchange their velocities, a static
\* one reflects.
respond_pair(s, p) ==
    LET a == s.bodies[p[1]].body
        b == s.bodies[p[2]].body
    IN IF ~ impact_admitted(s, p) THEN s
       ELSE replace(replace(s, p[1], IF is_static(a) THEN 0 ELSE IF is_static(b) THEN -a.velocity ELSE b.velocity, FALSE),
                    p[2], IF is_static(b) THEN 0 ELSE IF is_static(a) THEN -b.velocity ELSE a.velocity, FALSE)

\* finish_event: the pair is consumed at the revisions its response left.
HandleContact(s, p) ==
    LET done == respond_pair(s, p)
        observed == impact_admitted(s, p) \/ s.bodies[p[1]].touch \/ s.bodies[p[2]].touch
    IN [done EXCEPT !.pairs[p] = [@ EXCEPT !.suppressed = Revisions(done, p), !.event = NoCertificate],
                    !.effects = IF observed THEN Append(@, <<"contact", p[1], p[2]>>) ELSE @]

\* reflect_wall: only a body that still moves outward.
HandleWall(s, e, side) ==
    LET consumed == [s EXCEPT !.walls[e] = NoWall]
        speed == velocity_of(s.bodies[e].body)
        outward == IF side = 0 THEN speed < 0 ELSE speed > 0
    IN IF outward THEN replace(consumed, e, -speed, FALSE) ELSE consumed

\* Losing the ground ends the motion; the last gate does and the others do not.
HandleTrigger(s, t) ==
    LET cache == s.triggers[t]
        gate == t[2] = "gate"
        emptied == [cache EXCEPT !.initialized = FALSE, !.time = Never,
                                 !.cursor = IF gate THEN cache.cursor + 1 ELSE cache.cursor]
        effect == IF gate THEN <<"gate", t[1], cache.cursor + 1>> ELSE <<"lost", t[1], 0>>
        reset == [s EXCEPT !.triggers[t] = emptied, !.effects = Append(s.effects, effect)]
    IN IF t[2] = "support" THEN replace(reset, t[1], s.bodies[t[1]].body.velocity, TRUE)
       ELSE IF cache.cursor + 1 = Len(GatePosition) THEN replace(reset, t[1], 0, TRUE) ELSE reset

---------------------------------------------------------------------------
(* The loop.                                                               *)

\* ContinuousMotionSolver's constructor and the caches of the triggers: the
\* policies and the gates already passed are given.
start_solve(bodies, policies, cursors, grounded) ==
    LET triggered == (grounded \X {"support"}) \cup ((DOMAIN cursors) \X {"gate"})
    IN rebuild(
        [now |-> 0, count |-> 0, effects |-> <<>>,
         bodies |-> [e \in DOMAIN bodies |-> Epoch(bodies[e], e \in policies)],
         pairs |-> [p \in Pairs(DOMAIN bodies) |->
                       [event |-> NoCertificate, seen |-> <<-1, -1>>, suppressed |-> <<-1, -1>>]],
         walls |-> [e \in DOMAIN bodies |-> NoWall],
         triggers |-> [t \in triggered |-> [cursor |-> IF t[2] = "gate" THEN cursors[t[1]] ELSE 0,
                                            time |-> Never, revision |-> 0, initialized |-> FALSE]]])

\* begin_event, the response and finish_event.
handle(s, key) ==
    LET begun == [s EXCEPT !.now = key[1], !.count = @ + 1]
    IN rebuild(CASE key[2] = BodyContact -> HandleContact(begun, <<key[3], key[4]>>)
                 [] key[2] = WallX -> HandleWall(begun, key[3], key[4])
                 [] key[2] = SupportLoss -> HandleTrigger(begun, <<key[3], "support">>)
                 [] key[2] = Checkpoint -> HandleTrigger(begun, <<key[3], "gate">>))

\* finish: where the bodies end up.
resting(s) ==
    [e \in DOMAIN s.bodies |-> [s.bodies[e].body EXCEPT !.position = at(s.bodies[e], End)]]
====
