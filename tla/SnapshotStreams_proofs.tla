---------------------- MODULE SnapshotStreams_proofs ----------------------
(***************************************************************************)
(* Proofs about SnapshotStreams, for any number of sessions and any sizes: *)
(* the shared egress budget is accounted for and its queue can move, and   *)
(* every connection implements the stream its peer is promised.            *)
(*                                                                         *)
(* The argument.  A member function of a session works on a record of the  *)
(* session, the ledger and the session's identity.  Each preserves Whole:  *)
(* the session is Sound, and if it waits it can ask; each Moves the ledger *)
(* by what the session's own lease gained or lost and puts nobody else in  *)
(* the queue; and what the peer Sees of it is at most one step of the      *)
(* abstract stream.  A handler is a chain of such functions (Steps).  The  *)
(* ledger's counts are cardinalities of sets over all sessions, and only   *)
(* one session's part of these sets changes (BytesStep), so what its lease *)
(* gained is what the counts gained.  stop_sessions changes every session: *)
(* each by its own function, and the counts by a set difference.           *)
(***************************************************************************)
EXTENDS SnapshotStreams, FiniteSetTheorems, SequenceTheorems, TLAPS

---------------------------------------------------------------------------
(* The queue.                                                              *)

\* Nobody is in the queue twice.
Unique(q) == \A i, j \in 1 .. Len(q) : q[i] = q[j] => i = j

\* The members of a queue, by their places.
LEMMA InRange ==
  ASSUME NEW S, NEW q \in Seq(S)
  PROVE  /\ \A x : x \in Range(q) <=> \E i \in 1 .. Len(q) : q[i] = x
         /\ Range(q) \subseteq S
  BY DEF Range

\* Removing the k-th element: the elements behind it move up.
LEMMA RemoveAtFacts ==
  ASSUME NEW S, NEW s \in Seq(S), NEW k \in 1 .. Len(s)
  PROVE  /\ RemoveAt(s, k) \in Seq(S)
         /\ Len(RemoveAt(s, k)) = Len(s) - 1
         /\ \A j \in 1 .. Len(s) - 1 :
              RemoveAt(s, k)[j] = s[IF j < k THEN j ELSE j + 1]
  <1> DEFINE a == SubSeq(s, 1, k - 1)
             b == SubSeq(s, k + 1, Len(s))
  <1>1. a \in Seq(S) /\ Len(a) = k - 1 /\ \A j \in 1 .. k - 1 : a[j] = s[j]
    OBVIOUS
  <1>2. b \in Seq(S) /\ Len(b) = Len(s) - k /\ \A j \in 1 .. Len(s) - k : b[j] = s[k + j]
    OBVIOUS
  <1> HIDE DEF a, b
  <1>3. a \o b \in Seq(S) /\ Len(a \o b) = Len(s) - 1
    <2>1. a \o b \in Seq(S) /\ Len(a \o b) = Len(a) + Len(b)
      BY <1>1, <1>2, ConcatProperties
    <2>2. Len(s) \in Nat /\ k \in Nat
      OBVIOUS
    <2> QED
      BY <1>1, <1>2, <2>1, <2>2
  <1>4. ASSUME NEW j \in 1 .. Len(s) - 1 PROVE (a \o b)[j] = s[IF j < k THEN j ELSE j + 1]
    <2>1. CASE j < k
      BY <1>1, <1>2, <2>1
    <2>2. CASE ~ (j < k)
      <3>1. j - (k - 1) \in 1 .. Len(s) - k
        BY <2>2
      <3>2. (a \o b)[j] = b[j - (k - 1)]
        BY <1>1, <1>2, <2>2
      <3> QED
        BY <1>2, <2>2, <3>1, <3>2
    <2> QED
      BY <2>1, <2>2
  <1>5. RemoveAt(s, k) = a \o b
    BY DEF RemoveAt, a, b
  <1> QED
    BY <1>3, <1>4, <1>5

\* In a queue where nobody is twice, the first place of a waiter is its place.
LEMMA FirstPlaceFacts ==
  ASSUME NEW S, NEW q \in Seq(S), NEW c, NEW k \in 1 .. Len(q), q[k] = c, Unique(q)
  PROVE  FirstPlace(q, c) = k
  <1> DEFINE P(i) == q[i] = c /\ \A j \in 1 .. i - 1 : q[j] # c
  <1>1. P(k)
    BY DEF Unique
  <1>2. \A i \in 1 .. Len(q) : P(i) => i = k
    BY DEF Unique
  <1>3. FirstPlace(q, c) = CHOOSE i \in 1 .. Len(q) : P(i)
    BY DEF FirstPlace
  <1> HIDE DEF P
  <1> QED
    BY <1>1, <1>2, <1>3

\* cancel_waiter (snapshot_egress_budget.cpp:94) takes out the waiter and
\* nobody else.
LEMMA WithoutFacts ==
  ASSUME NEW S, NEW q \in Seq(S), Unique(q), NEW c
  PROVE  /\ Without(q, c) \in Seq(S) /\ Unique(Without(q, c))
         /\ Range(Without(q, c)) = Range(q) \ {c}
  <1>1. CASE \A i \in 1 .. Len(q) : q[i] # c
    <2>1. Without(q, c) = q
      BY <1>1 DEF Without
    <2>2. c \notin Range(q)
      BY <1>1, InRange
    <2> QED
      BY <2>1, <2>2
  <1>2. ASSUME NEW k \in 1 .. Len(q), q[k] = c
        PROVE  /\ Without(q, c) \in Seq(S) /\ Unique(Without(q, c))
               /\ Range(Without(q, c)) = Range(q) \ {c}
    <2> DEFINE r == Without(q, c)
    <2>1. r = RemoveAt(q, k)
      BY <1>2, FirstPlaceFacts DEF Without
    <2>2. r \in Seq(S) /\ Len(r) = Len(q) - 1
          /\ \A j \in 1 .. Len(q) - 1 : r[j] = q[IF j < k THEN j ELSE j + 1]
      BY <2>1, RemoveAtFacts
    <2>3. Len(q) \in Nat /\ k \in Nat /\ k <= Len(q) /\ k >= 1
      OBVIOUS
    <2> HIDE DEF r
    <2>4. Unique(r)
      <3> SUFFICES ASSUME NEW i \in 1 .. Len(r), NEW j \in 1 .. Len(r), r[i] = r[j]
                   PROVE  i = j
        BY DEF Unique
      <3> DEFINE a == IF i < k THEN i ELSE i + 1
                 b == IF j < k THEN j ELSE j + 1
      <3>0. i \in Nat /\ j \in Nat /\ i >= 1 /\ j >= 1 /\ i <= Len(q) - 1 /\ j <= Len(q) - 1
        BY <2>2, <2>3
      <3>1. a \in 1 .. Len(q) /\ b \in 1 .. Len(q)
        BY <3>0, <2>3
      <3>2. q[a] = q[b]
        BY <2>2, <3>0
      <3>3. a = b
        BY <3>1, <3>2 DEF Unique
      <3> QED
        BY <3>0, <2>3, <3>3
    <2>5. ASSUME NEW x PROVE x \in Range(r) <=> x \in Range(q) /\ x # c
      <3>1. ASSUME x \in Range(r) PROVE x \in Range(q) /\ x # c
        <4>1. PICK i \in 1 .. Len(r) : r[i] = x
          BY <2>2, <3>1, InRange
        <4> DEFINE a == IF i < k THEN i ELSE i + 1
        <4>2. a \in 1 .. Len(q) /\ a # k /\ i \in 1 .. Len(q) - 1
          BY <2>2, <2>3
        <4>3. q[a] = x
          BY <2>2, <4>1, <4>2
        <4>4. q[a] # q[k]
          BY <4>2 DEF Unique
        <4> QED
          BY <1>2, <4>2, <4>3, <4>4, InRange
      <3>2. ASSUME x \in Range(q), x # c PROVE x \in Range(r)
        <4>1. PICK i \in 1 .. Len(q) : q[i] = x
          BY <3>2, InRange
        <4>2. i # k
          BY <1>2, <3>2, <4>1
        <4> DEFINE j == IF i < k THEN i ELSE i - 1
        <4>3. j \in 1 .. Len(q) - 1 /\ i = IF j < k THEN j ELSE j + 1
          BY <2>3, <4>2
        <4>4. r[j] = x
          BY <2>2, <4>1, <4>3
        <4> QED
          BY <2>2, <4>3, <4>4, InRange
      <3> QED
        BY <3>1, <3>2
    <2> QED
      BY <2>2, <2>4, <2>5 DEF r
  <1> QED
    BY <1>1, <1>2

\* A waiter who was not in the queue joins it once.
LEMMA AppendFacts ==
  ASSUME NEW S, NEW q \in Seq(S), Unique(q), NEW c \in S, c \notin Range(q)
  PROVE  /\ Append(q, c) \in Seq(S) /\ Unique(Append(q, c))
         /\ Range(Append(q, c)) = Range(q) \cup {c}
  <1> DEFINE r == Append(q, c)
  <1>1. r \in Seq(S) /\ Len(r) = Len(q) + 1 /\ r[Len(q) + 1] = c
        /\ \A i \in 1 .. Len(q) : r[i] = q[i]
    OBVIOUS
  <1>2. Len(q) \in Nat
    OBVIOUS
  <1>3. \A i \in 1 .. Len(q) : q[i] # c
    BY InRange
  <1> HIDE DEF r
  <1>4. Unique(r)
    <2> SUFFICES ASSUME NEW i \in 1 .. Len(r), NEW j \in 1 .. Len(r), r[i] = r[j]
                 PROVE  i = j
      BY DEF Unique
    <2>1. (i \in 1 .. Len(q) \/ i = Len(q) + 1) /\ (j \in 1 .. Len(q) \/ j = Len(q) + 1)
      BY <1>1, <1>2
    <2> QED
      BY <1>1, <1>3, <2>1 DEF Unique
  <1>5. ASSUME NEW x PROVE x \in Range(r) <=> x \in Range(q) \/ x = c
    <2>1. x \in Range(r) <=> \E i \in 1 .. Len(r) : r[i] = x
      BY <1>1, InRange
    <2>2. x \in Range(q) <=> \E i \in 1 .. Len(q) : q[i] = x
      BY InRange
    <2>3. ASSUME NEW i \in 1 .. Len(r), r[i] = x PROVE x \in Range(q) \/ x = c
      <3>1. i \in 1 .. Len(q) \/ i = Len(q) + 1
        BY <1>1, <1>2
      <3> QED
        BY <1>1, <2>2, <2>3, <3>1
    <2>4. ASSUME NEW i \in 1 .. Len(q), q[i] = x PROVE x \in Range(r)
      <3>1. i \in 1 .. Len(r)
        BY <1>1, <1>2
      <3> QED
        BY <1>1, <2>1, <2>4, <3>1
    <2>5. Len(q) + 1 \in 1 .. Len(r)
      BY <1>1, <1>2
    <2> QED
      BY <1>1, <2>1, <2>2, <2>3, <2>4, <2>5
  <1> QED
    BY <1>1, <1>4, <1>5 DEF r

---------------------------------------------------------------------------
(* The invariant.                                                          *)

\* The type of a lease.
Lease == [owned : 0 .. Reservation, committed : BOOLEAN]

\* A ledger whose counts are still to be shown to be in range.
Ledger == [tokens : 0 .. Capacity, active : Int, leases : Int, waiters : Seq(Clients)]

\* Whoever waits in the egress queue can still ask.
CanAsk(s) == ~ Leaving(s) /\ ~ control_write_active(s)

\* An outstanding data write is counted by a live session, and none is
\* outstanding once the close frame has been started; the close is started only
\* when it was requested.
WriteInv(s) ==
    /\ "write" \in s.busy => s.finished \/ write_active(s)
    /\ s.close_started => s.close_requested
    /\ s.close_started /\ ~ s.finished => "write" \notin s.busy

\* A lease owns bytes, and a session that is gone keeps one only for a write
\* that still reads the payload.
OwnInv(s) ==
    /\ s.lease # NoLease => s.lease.owned # 0
    /\ s.finished /\ "write" \notin s.busy => s.lease = NoLease

\* Whoever holds a lease is writing, or is leaving with a failed encoding.
LeaseInv(s) == OwnInv(s) /\ (s.lease # NoLease => Leaving(s) \/ "write" \in s.busy)

\* What is pending is newer than what was delivered or is on the wire and not
\* from the future; before the welcome no snapshot is pending or on the wire.
DeliveryInv(s, n) ==
    /\ s.pending # 0 => s.welcomed /\ s.pending > s.delivered /\ s.pending > s.active
    /\ s.pending <= n
    /\ s.active # 0 => s.welcomed

\* The invariant of one session, n being the latest published tick.
Sound(s, n) == s \in Stream /\ WriteInv(s) /\ LeaseInv(s) /\ DeliveryInv(s, n)

\* What a member function may be given and leaves behind: the session, the
\* ledger, and the session's place in the queue.
Whole(w, n) ==
    /\ w \in [stream : Stream, ledger : Ledger, self : Clients]
    /\ Sound(w.stream, n)
    /\ Unique(w.ledger.waiters)
    /\ w.self \in Range(w.ledger.waiters) => CanAsk(w.stream)

\* How many leases the session holds.
Count(s) == IF s.lease = NoLease THEN 0 ELSE 1

\* The ledger changes by what the session takes or gives back, within its
\* limits, and nobody else is put into the queue.
Balanced(s, l, t, m, c) ==
    /\ m \in Ledger
    /\ m.active = l.active - s.lease.owned + t.lease.owned
    /\ m.leases = l.leases - Count(s) + Count(t)
    /\ m.active <= l.active \/ m.active <= ActiveMax
    /\ m.leases <= l.leases \/ m.leases <= LeaseMax
    /\ Unique(m.waiters)
    /\ Range(m.waiters) \ {c} \subseteq Range(l.waiters)

\* The function that takes w to v works for the same session and balances the
\* books.
Moves(w, v) == v.self = w.self /\ Balanced(w.stream, w.ledger, v.stream, v.ledger, w.self)

\* What the assumptions on the constants say of the bounds.
LEMMA NumberFacts ==
  /\ MaxTick \in Nat /\ 0 \in 0 .. MaxTick /\ (0 .. MaxTick) \subseteq Nat
  /\ Reservation \in Nat \ {0} /\ Capacity \in Nat /\ ActiveMax \in Nat /\ LeaseMax \in Nat
  /\ Reservation <= Capacity /\ Reservation <= ActiveMax
  /\ 0 \in 0 .. Reservation /\ (0 .. Reservation) \subseteq Nat /\ Reservation \in 0 .. Reservation
  BY StreamsAssumption, EgressAssumption

\* The empty lease has the type of a lease and owns nothing.
LEMMA NoLeaseType ==
  NoLease \in Lease /\ NoLease.owned = 0
  BY NumberFacts DEF Lease, NoLease

\* The types of a session's members.
LEMMA StreamType ==
  ASSUME NEW s \in Stream
  PROVE  /\ s.busy \in SUBSET Operations /\ s.lease \in Lease
         /\ s.pending \in Nat /\ s.active \in Nat /\ s.delivered \in Nat
         /\ s.lease.owned \in Nat /\ s.lease.owned \in 0 .. Reservation
         /\ s.lease.committed \in BOOLEAN /\ Count(s) \in {0, 1}
  BY NumberFacts DEF Stream, Lease, Count

\* Cancelling a waiter changes the queue alone.
LEMMA CancelFacts ==
  ASSUME NEW l \in Ledger, Unique(l.waiters), NEW c
  PROVE  LET m == cancel_waiter(l, c) IN
         /\ m \in Ledger /\ m.active = l.active /\ m.leases = l.leases /\ m.tokens = l.tokens
         /\ Unique(m.waiters) /\ Range(m.waiters) = Range(l.waiters) \ {c}
  <1> DEFINE r == Without(l.waiters, c)
             m == [l EXCEPT !.waiters = r]
  <1>1. l.waiters \in Seq(Clients)
    BY DEF Ledger
  <1>2. r \in Seq(Clients) /\ Unique(r) /\ Range(r) = Range(l.waiters) \ {c}
    BY <1>1, WithoutFacts
  <1>3. cancel_waiter(l, c) = m
    BY DEF cancel_waiter
  <1> HIDE DEF r
  <1>4. m \in Ledger /\ m.active = l.active /\ m.leases = l.leases /\ m.tokens = l.tokens
        /\ m.waiters = r
    BY <1>2 DEF Ledger
  <1> HIDE DEF m
  <1> QED
    BY <1>2, <1>3, <1>4

\* Releasing a lease takes its bytes off the ledger and counts it no more.
LEMMA ReleaseFacts ==
  ASSUME NEW l \in Ledger, NEW lease \in Lease
  PROVE  LET m == release(l, lease) IN
         /\ m \in Ledger /\ m.waiters = l.waiters
         /\ m.active = l.active - lease.owned
         /\ m.leases = l.leases - (IF lease = NoLease THEN 0 ELSE 1)
  <1>1. lease.owned \in Nat /\ lease.committed \in BOOLEAN
    BY NumberFacts DEF Lease
  <1>2. l.tokens \in 0 .. Capacity /\ l.active \in Int /\ l.leases \in Int
    BY DEF Ledger
  <1>3. CASE lease = NoLease
    <2>1. release(l, lease) = l /\ lease.owned = 0
      BY <1>3, NoLeaseType DEF release
    <2> QED
      BY <1>2, <1>3, <2>1
  <1>4. CASE lease # NoLease
    <2> DEFINE k == IF lease.committed THEN l.tokens ELSE AtMost(l.tokens + lease.owned, Capacity)
               a == l.active - lease.owned
               b == l.leases - 1
               m == [l EXCEPT !.active = a, !.leases = b, !.tokens = k]
    <2>1. k \in 0 .. Capacity
      BY <1>1, <1>2, NumberFacts DEF AtMost
    <2>2. a \in Int /\ b \in Int
      BY <1>1, <1>2
    <2>3. release(l, lease) = m
      BY <1>4 DEF release, Ledger
    <2> HIDE DEF k, a, b
    <2>4. m \in Ledger /\ m.waiters = l.waiters /\ m.active = a /\ m.leases = b
      BY <2>1, <2>2 DEF Ledger
    <2> QED
      BY <1>4, <2>3, <2>4 DEF a, b
  <1> QED
    BY <1>3, <1>4

\* A grant counts one reservation more, within the limits, and gives up the
\* place in the queue.
LEMMA ReserveFacts ==
  ASSUME NEW l \in Ledger, Unique(l.waiters), NEW c, Admits(l, c)
  PROVE  LET m == reserve(l, c) IN
         /\ m \in Ledger /\ Unique(m.waiters) /\ Range(m.waiters) = Range(l.waiters) \ {c}
         /\ m.active = l.active + Reservation /\ m.leases = l.leases + 1
         /\ m.active <= ActiveMax /\ m.leases <= LeaseMax
  <1> DEFINE d == cancel_waiter(l, c)
             k == d.tokens - Reservation
             a == d.active + Reservation
             b == d.leases + 1
             m == [d EXCEPT !.tokens = k, !.active = a, !.leases = b]
  <1>1. /\ d \in Ledger /\ d.active = l.active /\ d.leases = l.leases /\ d.tokens = l.tokens
        /\ Unique(d.waiters) /\ Range(d.waiters) = Range(l.waiters) \ {c}
    BY CancelFacts
  <1>2. l.tokens \in 0 .. Capacity /\ l.active \in Int /\ l.leases \in Int
    BY DEF Ledger
  <1>3. l.tokens >= Reservation /\ l.active <= ActiveMax - Reservation /\ l.leases < LeaseMax
    BY DEF Admits
  <1>4. reserve(l, c) = m
    BY <1>1 DEF reserve, Ledger
  <1> HIDE DEF d
  <1>5. /\ k \in 0 .. Capacity /\ a \in Int /\ b \in Int /\ a = l.active + Reservation
        /\ b = l.leases + 1 /\ a <= ActiveMax /\ b <= LeaseMax
    BY <1>1, <1>2, <1>3, NumberFacts
  <1> HIDE DEF k, a, b
  <1>6. m \in Ledger /\ m.active = a /\ m.leases = b /\ m.waiters = d.waiters
    BY <1>1, <1>5 DEF Ledger
  <1> HIDE DEF m
  <1> QED
    BY <1>1, <1>4, <1>5, <1>6

\* Committing keeps what the encoding needs and returns the rest.
LEMMA CommitFacts ==
  ASSUME NEW l \in Ledger, NEW encoded \in 1 .. Reservation
  PROVE  LET m == commit_encoding(l, encoded) IN
         /\ m \in Ledger /\ m.waiters = l.waiters
         /\ m.active = l.active - Reservation + encoded /\ m.leases = l.leases
         /\ m.active <= l.active
  <1> DEFINE k == AtMost(l.tokens + (Reservation - encoded), Capacity)
             a == l.active - (Reservation - encoded)
             m == [l EXCEPT !.active = a, !.tokens = k]
  <1>1. l.tokens \in 0 .. Capacity /\ l.active \in Int /\ l.leases \in Int
    BY DEF Ledger
  <1>2. k \in 0 .. Capacity /\ a \in Int /\ a = l.active - Reservation + encoded /\ a <= l.active
    BY <1>1, NumberFacts DEF AtMost
  <1>3. commit_encoding(l, encoded) = m
    BY DEF commit_encoding, Ledger
  <1> HIDE DEF k, a
  <1>4. m \in Ledger /\ m.waiters = l.waiters /\ m.active = a /\ m.leases = l.leases
    BY <1>2 DEF Ledger
  <1> HIDE DEF m
  <1> QED
    BY <1>2, <1>3, <1>4

---------------------------------------------------------------------------
(* What the peer sees.                                                     *)

\* The peer has been told as much before as after.
Told(s, t) == t.welcomed = s.welcomed /\ t.delivered = s.delivered

\* The peer sees no difference.
Unseen(s, t) ==
    /\ Told(s, t) /\ StreamPhase(t) = StreamPhase(s) /\ StreamWire(t) = StreamWire(s)

\* The upgrade is accepted.
Opens(s, t) ==
    /\ Told(s, t) /\ StreamPhase(s) = "connecting" /\ StreamPhase(t) = "open"
    /\ StreamWire(t) = StreamWire(s)

\* A data frame is put on the wire: the snapshot n, newer than any before, or
\* the welcome.
Begins(s, t, n) ==
    /\ Told(s, t) /\ StreamPhase(s) = "open" /\ StreamPhase(t) = "open"
    /\ StreamWire(s) = 0
    /\ IF s.welcomed THEN n > s.delivered /\ StreamWire(t) = n ELSE StreamWire(t) = -1

\* The data frame on the wire has left.
Sends(s, t) ==
    /\ StreamPhase(t) = StreamPhase(s)
    /\ StreamWire(s) \notin {0, -2}
    /\ t.welcomed = TRUE
    /\ t.delivered = IF StreamWire(s) = -1 THEN s.delivered ELSE StreamWire(s)
    /\ \/ StreamWire(t) = 0
       \/ StreamPhase(s) = "closing" /\ StreamWire(t) = -2

\* The connection decides to close.
Closes(s, t) ==
    /\ Told(s, t) /\ StreamPhase(s) \in {"connecting", "open"} /\ StreamPhase(t) = "closing"
    /\ \/ StreamWire(t) = StreamWire(s)
       \/ StreamWire(s) = 0 /\ StreamWire(t) = -2

\* The close frame is put on the wire.
SaysClose(s, t) ==
    /\ Told(s, t) /\ StreamPhase(s) = "closing" /\ StreamPhase(t) = "closing"
    /\ StreamWire(s) = 0 /\ StreamWire(t) = -2

\* The connection is gone.
IsOver(s, t) ==
    /\ Told(s, t) /\ StreamPhase(s) # "over" /\ StreamPhase(t) = "over" /\ StreamWire(t) = 0

\* What the peer sees is at most one step of the stream it is promised.
Seen(s, t, n) ==
    \/ Unseen(s, t) \/ Opens(s, t) \/ Begins(s, t, n) \/ Sends(s, t)
    \/ Closes(s, t) \/ SaysClose(s, t) \/ IsOver(s, t)

\* How the phase and the wire of the refinement mapping follow from the
\* members.
LEMMA PhaseCases ==
  ASSUME NEW s \in Stream
  PROVE  /\ s.finished => StreamPhase(s) = "over" /\ StreamWire(s) = 0
         /\ ~ s.finished /\ s.close_requested => StreamPhase(s) = "closing"
         /\ ~ s.finished /\ ~ s.close_requested =>
                StreamPhase(s) = IF "accept" \in s.busy THEN "connecting" ELSE "open"
         /\ ~ s.finished /\ "write" \in s.busy =>
                StreamWire(s) = IF s.welcoming THEN -1 ELSE s.active
         /\ ~ s.finished /\ "write" \notin s.busy =>
                StreamWire(s) = IF s.close_started THEN -2 ELSE 0
  BY DEF StreamPhase, StreamWire

\* A step that is not seen may come before one that is.
LEMMA UnseenThen ==
  ASSUME NEW s, NEW t, NEW u, NEW n, Unseen(s, t), Seen(t, u, n)
  PROVE  Seen(s, u, n)
  BY DEF Unseen, Seen, Opens, Begins, Sends, Closes, SaysClose, IsOver, Told

\* Accepting an upgrade may be followed, in the same handler, by a close or the
\* end.
LEMMA OpensThen ==
  ASSUME NEW s, NEW t, NEW u, NEW n, Unseen(s, t) \/ Opens(s, t),
         Unseen(t, u) \/ Closes(t, u) \/ IsOver(t, u)
  PROVE  Seen(s, u, n)
  BY DEF Unseen, Seen, Opens, Closes, IsOver, Told

\* Two balanced moves of the ledger are one.
LEMMA MovesThen ==
  ASSUME NEW w, NEW v, NEW u, w.ledger \in Ledger, v.ledger \in Ledger,
         w.stream \in Stream, v.stream \in Stream, u.stream \in Stream,
         Moves(w, v), Moves(v, u)
  PROVE  Moves(w, u)
  <1>1. u.self = w.self
    BY DEF Moves
  <1>2. u.ledger \in Ledger /\ Unique(u.ledger.waiters)
    BY DEF Moves, Balanced
  <1>3. /\ w.ledger.active \in Int /\ v.ledger.active \in Int /\ u.ledger.active \in Int
        /\ w.ledger.leases \in Int /\ v.ledger.leases \in Int /\ u.ledger.leases \in Int
    BY <1>2 DEF Ledger
  <1>4. /\ w.stream.lease.owned \in Nat /\ v.stream.lease.owned \in Nat /\ u.stream.lease.owned \in Nat
        /\ Count(w.stream) \in {0, 1} /\ Count(v.stream) \in {0, 1} /\ Count(u.stream) \in {0, 1}
    BY StreamType
  <1>5. /\ v.ledger.active = w.ledger.active - w.stream.lease.owned + v.stream.lease.owned
        /\ v.ledger.leases = w.ledger.leases - Count(w.stream) + Count(v.stream)
        /\ v.ledger.active <= w.ledger.active \/ v.ledger.active <= ActiveMax
        /\ v.ledger.leases <= w.ledger.leases \/ v.ledger.leases <= LeaseMax
    BY DEF Moves, Balanced
  <1>6. /\ u.ledger.active = v.ledger.active - v.stream.lease.owned + u.stream.lease.owned
        /\ u.ledger.leases = v.ledger.leases - Count(v.stream) + Count(u.stream)
        /\ u.ledger.active <= v.ledger.active \/ u.ledger.active <= ActiveMax
        /\ u.ledger.leases <= v.ledger.leases \/ u.ledger.leases <= LeaseMax
    BY DEF Moves, Balanced
  <1>7. /\ u.ledger.active = w.ledger.active - w.stream.lease.owned + u.stream.lease.owned
        /\ u.ledger.leases = w.ledger.leases - Count(w.stream) + Count(u.stream)
    BY <1>3, <1>4, <1>5, <1>6
  <1>8. /\ u.ledger.active <= w.ledger.active \/ u.ledger.active <= ActiveMax
        /\ u.ledger.leases <= w.ledger.leases \/ u.ledger.leases <= LeaseMax
    BY <1>3, <1>5, <1>6, NumberFacts
  <1>9. Range(u.ledger.waiters) \ {w.self} \subseteq Range(w.ledger.waiters)
    BY DEF Moves, Balanced
  <1> QED
    BY <1>1, <1>2, <1>7, <1>8, <1>9 DEF Moves, Balanced

\* A function that leaves lease and ledger alone is a balanced move.
LEMMA SameLedgerMoves ==
  ASSUME NEW n, NEW w, Whole(w, n), NEW t \in Stream, t.lease = w.stream.lease
  PROVE  /\ Moves(w, Update(w, t))
         /\ Update(w, t) = [stream |-> t, ledger |-> w.ledger, self |-> w.self]
  <1> DEFINE v == [stream |-> t, ledger |-> w.ledger, self |-> w.self]
  <1>1. w.stream \in Stream /\ w.ledger \in Ledger /\ Unique(w.ledger.waiters)
        /\ w = [stream |-> w.stream, ledger |-> w.ledger, self |-> w.self]
    BY DEF Whole
  <1>2. Update(w, t) = v
    BY <1>1 DEF Update
  <1>3. w.ledger.active \in Int /\ w.ledger.leases \in Int
    BY <1>1 DEF Ledger
  <1>4. w.stream.lease.owned \in Nat /\ Count(w.stream) \in {0, 1} /\ Count(t) = Count(w.stream)
    BY <1>1, StreamType DEF Count
  <1>5. Balanced(w.stream, w.ledger, t, w.ledger, w.self)
    BY <1>1, <1>3, <1>4 DEF Balanced
  <1> QED
    BY <1>2, <1>5 DEF Moves

\* t differs from s in the handlers and timers outstanding.
Like(s, t) ==
    /\ t \in Stream
    /\ "write" \in t.busy <=> "write" \in s.busy
    /\ t.welcoming = s.welcoming /\ t.welcomed = s.welcomed
    /\ t.pending = s.pending /\ t.active = s.active /\ t.delivered = s.delivered
    /\ t.lease = s.lease
    /\ t.close_requested = s.close_requested /\ t.close_started = s.close_started
    /\ t.finished = s.finished

\* Starting or ending an operation that is not a data write, or a timer, leaves
\* the session sound, and unseen unless the operation was the accept.
LEMMA LikeStep ==
  ASSUME NEW n, NEW s, Sound(s, n), NEW t, Like(s, t)
  PROVE  /\ Sound(t, n) /\ Told(s, t) /\ StreamWire(t) = StreamWire(s)
         /\ ("accept" \in t.busy <=> "accept" \in s.busy) => Unseen(s, t)
  <1>1. s \in Stream
    BY DEF Sound
  <1>2. WriteInv(t)
    BY DEF Sound, Like, WriteInv, write_active
  <1>3. LeaseInv(t)
    BY DEF Sound, Like, LeaseInv, OwnInv, Leaving
  <1>4. DeliveryInv(t, n)
    BY DEF Sound, Like, DeliveryInv
  <1>5. Told(s, t)
    BY DEF Told, Like
  <1>6. StreamWire(t) = StreamWire(s)
    BY DEF Like, StreamWire
  <1>7. ("accept" \in t.busy <=> "accept" \in s.busy) => StreamPhase(t) = StreamPhase(s)
    BY DEF Like, StreamPhase
  <1> QED
    BY <1>2, <1>3, <1>4, <1>5, <1>6, <1>7 DEF Sound, Like, Unseen

\* A function of the session alone that keeps it sound and its lease.
LEMMA WholeUpdate ==
  ASSUME NEW n, NEW w, Whole(w, n), NEW t, Sound(t, n), t.lease = w.stream.lease,
         w.self \in Range(w.ledger.waiters) => CanAsk(t)
  PROVE  Whole(Update(w, t), n) /\ Moves(w, Update(w, t)) /\ Update(w, t).stream = t
  <1>1. t \in Stream
    BY DEF Sound
  <1>2. /\ Moves(w, Update(w, t))
        /\ Update(w, t) = [stream |-> t, ledger |-> w.ledger, self |-> w.self]
    BY <1>1, SameLedgerMoves
  <1> QED
    BY <1>1, <1>2 DEF Whole

\* What a member function is given, before any invariant.
World == [stream : Stream, ledger : Ledger, self : Clients]

\* cancel_wait: the session is in the queue no more.
LEMMA CancelStep ==
  ASSUME NEW w \in World, Unique(w.ledger.waiters)
  PROVE  LET v == cancel_wait(w) IN
         /\ v \in World /\ v.stream = w.stream /\ v.self = w.self
         /\ Unique(v.ledger.waiters) /\ w.self \notin Range(v.ledger.waiters)
         /\ Moves(w, v)
  <1> DEFINE m == cancel_waiter(w.ledger, w.self)
             v == [stream |-> w.stream, ledger |-> m, self |-> w.self]
  <1>1. /\ w.stream \in Stream /\ w.ledger \in Ledger /\ w.self \in Clients
        /\ w = [stream |-> w.stream, ledger |-> w.ledger, self |-> w.self]
    BY DEF World
  <1>2. /\ m \in Ledger /\ m.active = w.ledger.active /\ m.leases = w.ledger.leases
        /\ Unique(m.waiters) /\ Range(m.waiters) = Range(w.ledger.waiters) \ {w.self}
    BY <1>1, CancelFacts
  <1>3. cancel_wait(w) = v
    BY <1>1 DEF cancel_wait
  <1> HIDE DEF m
  <1>4. v \in World
    BY <1>1, <1>2 DEF World
  <1>5. w.ledger.active \in Int /\ w.ledger.leases \in Int
    BY <1>1 DEF Ledger
  <1>6. w.stream.lease.owned \in Nat /\ Count(w.stream) \in {0, 1}
    BY <1>1, StreamType
  <1>7. Balanced(w.stream, w.ledger, w.stream, m, w.self)
    BY <1>2, <1>5, <1>6 DEF Balanced
  <1>8. Moves(w, v)
    BY <1>7 DEF Moves
  <1> QED
    BY <1>2, <1>3, <1>4, <1>8

\* release_active_payload: the lease is empty, the ledger balanced.
LEMMA ReleaseStep ==
  ASSUME NEW w \in World, Unique(w.ledger.waiters)
  PROVE  LET v == release_active_payload(w) IN
         /\ v \in World /\ v.self = w.self
         /\ v.stream = [w.stream EXCEPT !.lease = NoLease]
         /\ v.ledger.waiters = w.ledger.waiters
         /\ Moves(w, v)
  <1> DEFINE m == release(w.ledger, w.stream.lease)
             t == [w.stream EXCEPT !.lease = NoLease]
             v == [stream |-> t, ledger |-> m, self |-> w.self]
  <1>1. /\ w.stream \in Stream /\ w.ledger \in Ledger /\ w.self \in Clients
        /\ w = [stream |-> w.stream, ledger |-> w.ledger, self |-> w.self]
    BY DEF World
  <1>2. w.stream.lease \in Lease /\ w.stream.lease.owned \in Nat /\ Count(w.stream) \in {0, 1}
    BY <1>1, StreamType
  <1>3. /\ m \in Ledger /\ m.waiters = w.ledger.waiters
        /\ m.active = w.ledger.active - w.stream.lease.owned
        /\ m.leases = w.ledger.leases - Count(w.stream)
    BY <1>1, <1>2, ReleaseFacts DEF Count
  <1>4. t \in Stream /\ t.lease = NoLease
    BY <1>1, NoLeaseType DEF Stream, Lease
  <1>5. release_active_payload(w) = [w EXCEPT !.ledger = m, !.stream = t]
    BY DEF release_active_payload
  <1> HIDE DEF m, t
  <1>11. release_active_payload(w) = v
    BY <1>1, <1>5
  <1>6. v \in World
    BY <1>1, <1>3, <1>4 DEF World
  <1>7. w.ledger.active \in Int /\ w.ledger.leases \in Int
    BY <1>1 DEF Ledger
  <1>8. t.lease.owned = 0 /\ Count(t) = 0
    BY <1>4, NoLeaseType DEF Count
  <1>9. Balanced(w.stream, w.ledger, t, m, w.self)
    BY <1>2, <1>3, <1>7, <1>8 DEF Balanced
  <1>10. Moves(w, v)
    BY <1>9 DEF Moves
  <1> QED
    BY <1>3, <1>11, <1>6, <1>10 DEF t

\* finish keeps everything sound, ends the connection once, and keeps the lease
\* only for a write in flight.
LEMMA FinishStep ==
  ASSUME NEW n \in Nat, NEW w, Whole(w, n)
  PROVE  LET v == finish(w) IN
         /\ Whole(v, n) /\ Moves(w, v)
         /\ w.stream.finished => v = w
         /\ ~ w.stream.finished => IsOver(w.stream, v.stream)
         /\ v.stream.lease = IF w.stream.finished \/ "write" \in w.stream.busy
                             THEN w.stream.lease ELSE NoLease
  <1> DEFINE s == w.stream
             t == [s EXCEPT
                  !.finished = TRUE, !.busy = @ \cap {"write"}, !.idle_wait = FALSE,
                  !.waiting_for_pong = FALSE, !.pending = 0, !.active = 0]
             a == Update(w, t)
             gone == cancel_wait(a)
             v == IF "write" \in s.busy THEN gone ELSE release_active_payload(gone)
  <1>1. w \in World /\ s \in Stream /\ Sound(s, n) /\ Unique(w.ledger.waiters)
    BY DEF Whole, World
  <1>2. CASE s.finished
    <2>1. finish(w) = w
      BY <1>2 DEF finish
    <2>2. Moves(w, w)
      <3>1. Update(w, s) = w /\ Moves(w, Update(w, s))
        BY <1>1, SameLedgerMoves DEF Whole
      <3> QED
        BY <3>1
    <2> QED
      BY <1>2, <2>1, <2>2
  <1>3. CASE ~ s.finished
    <2>1. finish(w) = v
      BY <1>3 DEF finish
    <2>2. /\ t \in Stream /\ t.finished /\ t.pending = 0 /\ t.active = 0
          /\ t.lease = s.lease /\ t.welcomed = s.welcomed /\ t.delivered = s.delivered
          /\ t.close_started = s.close_started /\ t.close_requested = s.close_requested
          /\ "write" \in t.busy <=> "write" \in s.busy
      BY <1>1, NumberFacts DEF Stream
    <2>3. Moves(w, a) /\ a = [stream |-> t, ledger |-> w.ledger, self |-> w.self]
      BY <2>2, SameLedgerMoves
    <2> HIDE DEF t
    <2>4. a \in World /\ Unique(a.ledger.waiters) /\ a.stream = t
      BY <1>1, <2>2, <2>3 DEF World
    <2> HIDE DEF a
    <2>5. /\ gone \in World /\ gone.stream = t /\ gone.self = w.self
          /\ Unique(gone.ledger.waiters) /\ w.self \notin Range(gone.ledger.waiters)
          /\ Moves(a, gone)
      BY <2>3, <2>4, CancelStep
    <2> HIDE DEF gone
    <2>6. Moves(w, gone)
      BY <1>1, <2>3, <2>4, <2>5, MovesThen DEF World
    <2>7. \A u : u.finished = TRUE /\ u \in Stream /\ u.pending = 0 /\ u.active = 0 /\ u.welcomed = s.welcomed
                 /\ u.delivered = s.delivered
                 /\ u.close_started = s.close_started /\ u.close_requested = s.close_requested
                 /\ OwnInv(u)
                 => Sound(u, n) /\ IsOver(s, u)
      <3> SUFFICES ASSUME NEW u, u \in Stream, u.finished = TRUE, u.pending = 0, u.active = 0, u.welcomed = s.welcomed,
                   u.delivered = s.delivered, u.close_started = s.close_started,
                   u.close_requested = s.close_requested, OwnInv(u)
                   PROVE  Sound(u, n) /\ IsOver(s, u)
        OBVIOUS
      <3>1. WriteInv(u)
        BY <1>1 DEF Sound, WriteInv
      <3>2. LeaseInv(u)
        BY DEF LeaseInv, Leaving
      <3>3. DeliveryInv(u, n)
        BY DEF DeliveryInv
      <3>4. StreamPhase(s) # "over"
        BY <1>3 DEF StreamPhase
      <3>5. StreamPhase(u) = "over" /\ StreamWire(u) = 0
        BY DEF StreamPhase, StreamWire
      <3> QED
        BY <3>1, <3>2, <3>3, <3>4, <3>5 DEF Sound, IsOver, Told
    <2>8. CASE "write" \in s.busy
      <3>1. OwnInv(t)
        BY <1>1, <2>2, <2>8 DEF Sound, LeaseInv, OwnInv
      <3>2. Sound(t, n) /\ IsOver(s, t)
        BY <2>2, <2>7, <3>1 DEF Stream
      <3> QED
        BY <1>3, <2>1, <2>2, <2>5, <2>6, <2>8, <3>2 DEF Whole, World
    <2>9. CASE "write" \notin s.busy
      <3> DEFINE r == release_active_payload(gone)
                 u == [t EXCEPT !.lease = NoLease]
      <3>1. /\ r \in World /\ r.self = w.self /\ r.stream = u
            /\ r.ledger.waiters = gone.ledger.waiters /\ Moves(gone, r)
        BY <2>5, ReleaseStep
      <3> HIDE DEF r
      <3>2. /\ u \in Stream /\ u.finished = TRUE /\ u.pending = 0 /\ u.active = 0
            /\ u.welcomed = s.welcomed /\ u.delivered = s.delivered
            /\ u.close_started = s.close_started /\ u.close_requested = s.close_requested
            /\ u.lease = NoLease
        BY <2>2, NoLeaseType DEF Stream, Lease
      <3> HIDE DEF u
      <3>3. Sound(u, n) /\ IsOver(s, u)
        BY <2>7, <3>2 DEF OwnInv
      <3>4. Moves(w, r)
        BY <1>1, <2>5, <2>6, <3>1, MovesThen DEF World
      <3>5. v = r
        BY <2>9 DEF r
      <3> QED
        BY <1>3, <2>1, <2>5, <2>9, <3>1, <3>2, <3>3, <3>4, <3>5 DEF Whole, World
    <2> QED
      BY <2>8, <2>9
  <1> QED
    BY <1>2, <1>3

\* A session at the entry of request_close: as when an encoding has just
\* thrown, it may hold a lease without a write.
Closable(s, n) == s \in Stream /\ WriteInv(s) /\ OwnInv(s) /\ DeliveryInv(s, n)

\* begin_close: the close frame goes on the wire only if nothing else is there.
LEMMA BeginCloseStep ==
  ASSUME NEW n \in Nat, NEW s, Closable(s, n), s.close_requested
  PROVE  LET t == begin_close(s) IN
         /\ Sound(t, n) /\ t.lease = s.lease /\ t.finished = s.finished
         /\ Told(s, t) /\ StreamPhase(t) = StreamPhase(s)
         /\ StreamWire(t) = StreamWire(s) \/ (StreamWire(s) = 0 /\ StreamWire(t) = -2)
  <1> DEFINE t == [s EXCEPT !.close_started = TRUE, !.busy = @ \cup {"close"}]
  <1>1. s \in Stream /\ WriteInv(s) /\ OwnInv(s) /\ DeliveryInv(s, n)
    BY DEF Closable
  <1>2. CASE s.finished \/ s.close_started \/ write_active(s) \/ control_write_active(s)
    <2>1. begin_close(s) = s
      BY <1>2 DEF begin_close
    <2>2. LeaseInv(s)
      BY <1>1 DEF LeaseInv, Leaving
    <2> QED
      BY <1>1, <2>1, <2>2 DEF Sound, Told
  <1>3. CASE ~ (s.finished \/ s.close_started \/ write_active(s) \/ control_write_active(s))
    <2>1. begin_close(s) = t
      BY <1>3 DEF begin_close
    <2>2. "write" \notin s.busy
      BY <1>1, <1>3 DEF WriteInv
    <2>3. /\ t \in Stream /\ t.close_started = TRUE /\ t.busy = s.busy \cup {"close"}
          /\ t.close_requested = s.close_requested /\ t.finished = s.finished
          /\ t.welcoming = s.welcoming /\ t.welcomed = s.welcomed
          /\ t.pending = s.pending /\ t.active = s.active /\ t.delivered = s.delivered
          /\ t.lease = s.lease
      BY <1>1 DEF Stream, Operations
    <2> HIDE DEF t
    <2>4. "write" \notin t.busy /\ ("accept" \in t.busy <=> "accept" \in s.busy)
      BY <2>2, <2>3
    <2>5. WriteInv(t)
      BY <2>3, <2>4 DEF WriteInv
    <2>6. LeaseInv(t)
      BY <1>1, <2>3, <2>4, <2>2 DEF LeaseInv, OwnInv, Leaving
    <2>7. DeliveryInv(t, n)
      BY <1>1, <2>3 DEF DeliveryInv
    <2>8. Told(s, t) /\ StreamPhase(t) = StreamPhase(s)
      BY <2>3, <2>4 DEF Told, StreamPhase
    <2>9. StreamWire(s) = 0 /\ StreamWire(t) = -2
      BY <1>3, <2>2, <2>3, <2>4 DEF StreamWire
    <2> QED
      BY <2>1, <2>3, <2>5, <2>6, <2>7, <2>8, <2>9 DEF Sound
  <1> QED
    BY <1>2, <1>3

\* request_close of an open session: it leaves the queue and closes.
LEMMA RequestCloseStep ==
  ASSUME NEW n \in Nat, NEW w \in World, Unique(w.ledger.waiters), Closable(w.stream, n),
         ~ Leaving(w.stream)
  PROVE  LET v == request_close(w) IN
         /\ Whole(v, n) /\ Moves(w, v) /\ Closes(w.stream, v.stream)
         /\ v.stream.lease = w.stream.lease
  <1> DEFINE s == w.stream
             t == [s EXCEPT !.close_requested = TRUE, !.pending = 0, !.idle_wait = FALSE,
                            !.waiting_for_pong = FALSE]
             u == begin_close(t)
             asked == cancel_wait(w)
  <1>1. s \in Stream /\ WriteInv(s) /\ OwnInv(s) /\ DeliveryInv(s, n)
    BY DEF Closable
  <1>2. /\ asked \in World /\ asked.stream = s /\ asked.self = w.self
        /\ Unique(asked.ledger.waiters) /\ w.self \notin Range(asked.ledger.waiters)
        /\ Moves(w, asked)
    BY CancelStep
  <1> HIDE DEF asked
  <1>3. request_close(w) = Update(asked, u)
    BY <1>2 DEF request_close, asked
  <1>4. /\ t \in Stream /\ t.close_requested = TRUE /\ t.pending = 0
        /\ t.busy = s.busy /\ t.close_started = s.close_started /\ t.finished = s.finished
        /\ t.welcoming = s.welcoming /\ t.welcomed = s.welcomed
        /\ t.active = s.active /\ t.delivered = s.delivered /\ t.lease = s.lease
    BY <1>1, NumberFacts DEF Stream
  <1> HIDE DEF t
  <1>5. Closable(t, n)
    <2>1. WriteInv(t)
      BY <1>1, <1>4 DEF WriteInv, write_active
    <2>2. OwnInv(t)
      BY <1>1, <1>4 DEF OwnInv
    <2>3. DeliveryInv(t, n)
      BY <1>1, <1>4 DEF DeliveryInv
    <2> QED
      BY <1>4, <2>1, <2>2, <2>3 DEF Closable
  <1>6. /\ Sound(u, n) /\ u.lease = t.lease /\ u.finished = t.finished
        /\ Told(t, u) /\ StreamPhase(u) = StreamPhase(t)
        /\ StreamWire(u) = StreamWire(t) \/ (StreamWire(t) = 0 /\ StreamWire(u) = -2)
    BY <1>4, <1>5, BeginCloseStep
  <1> HIDE DEF u
  <1>7. Closes(s, u)
    <2>1. StreamPhase(s) \in {"connecting", "open"} /\ StreamPhase(t) = "closing"
      BY <1>4 DEF StreamPhase, Leaving
    <2>2. StreamWire(t) = StreamWire(s)
      BY <1>4 DEF StreamWire
    <2>3. Told(s, u)
      BY <1>4, <1>6 DEF Told
    <2> QED
      BY <1>6, <2>1, <2>2, <2>3 DEF Closes
  <1>8. Update(asked, u) = [stream |-> u, ledger |-> asked.ledger, self |-> w.self]
    BY <1>2 DEF Update, World
  <1>9. u \in Stream
    BY <1>6 DEF Sound
  <1>10. Whole(Update(asked, u), n)
    BY <1>2, <1>6, <1>8, <1>9 DEF Whole, World
  <1>11. Moves(asked, Update(asked, u))
    <2>1. u.lease.owned \in Nat /\ Count(u) = Count(s) /\ Count(s) \in {0, 1} /\ u.lease = s.lease
      BY <1>1, <1>4, <1>6, <1>9, StreamType DEF Count
    <2>2. asked.ledger.active \in Int /\ asked.ledger.leases \in Int /\ asked.ledger \in Ledger
      BY <1>2 DEF World, Ledger
    <2>3. Balanced(s, asked.ledger, u, asked.ledger, w.self)
      BY <1>2, <2>1, <2>2 DEF Balanced
    <2> QED
      BY <1>2, <1>8, <2>3 DEF Moves
  <1>12. Moves(w, Update(asked, u))
    BY <1>1, <1>2, <1>8, <1>9, <1>11, MovesThen DEF World
  <1> QED
    BY <1>3, <1>4, <1>6, <1>7, <1>8, <1>10, <1>12

\* Reading on and scheduling the idle check change only what is outstanding.
LEMMA ReadStep ==
  ASSUME NEW s \in Stream
  PROVE  /\ Like(s, read_client_frame(s)) /\ Like(s, schedule_idle_check(s))
         /\ "accept" \in read_client_frame(s).busy <=> "accept" \in s.busy
         /\ "accept" \in schedule_idle_check(s).busy <=> "accept" \in s.busy
         /\ CanAsk(s) => CanAsk(read_client_frame(s))
         /\ CanAsk(s) => CanAsk(schedule_idle_check(s))
  <1> DEFINE r == [s EXCEPT !.busy = @ \cup {"read"}]
             i == [s EXCEPT !.idle_wait = TRUE]
  <1>1. read_client_frame(s) \in {s, r} /\ schedule_idle_check(s) \in {s, i}
    BY DEF read_client_frame, schedule_idle_check
  <1>2. Like(s, s)
    BY DEF Like
  <1>3. /\ Like(s, r) /\ ("accept" \in r.busy <=> "accept" \in s.busy) /\ (CanAsk(s) => CanAsk(r))
    BY DEF Like, Stream, Operations, CanAsk, Leaving, control_write_active
  <1>4. /\ Like(s, i) /\ ("accept" \in i.busy <=> "accept" \in s.busy) /\ (CanAsk(s) => CanAsk(i))
    BY DEF Like, Stream, Operations, CanAsk, Leaving, control_write_active
  <1> HIDE DEF r, i
  <1> QED
    BY <1>1, <1>2, <1>3, <1>4

\* Max of three numbers is one of them and no less than any.
LEMMA NewestIsMax ==
  ASSUME NEW a \in Nat, NEW b \in Nat, NEW c \in Nat
  PROVE  LET m == Max({a, b, c}) IN m \in {a, b, c} /\ m >= a /\ m >= b /\ m >= c
  <1> DEFINE P(x) == \A y \in {a, b, c} : x >= y
  <1>1. \E x \in {a, b, c} : P(x)
    OBVIOUS
  <1>2. Max({a, b, c}) = CHOOSE x \in {a, b, c} : P(x)
    BY DEF Max
  <1>3. Max({a, b, c}) \in {a, b, c} /\ P(Max({a, b, c}))
    <2> HIDE DEF P
    <2> QED
      BY <1>1, <1>2
  <1> QED
    BY <1>3

\* observe: what is pending afterwards is the latest tick or was so before.
LEMMA ObserveStep ==
  ASSUME latest \in 1 .. MaxTick, NEW s, Sound(s, latest), s.welcomed
  PROVE  LET t == observe(s) IN
         /\ Sound(t, latest) /\ Unseen(s, t) /\ t.lease = s.lease /\ t.welcomed = s.welcomed
         /\ CanAsk(t) = CanAsk(s) /\ t.busy = s.busy /\ Leaving(t) = Leaving(s)
         /\ t.pending # 0 => t.pending = latest
         /\ write_active(t) = write_active(s)
  <1>0. /\ s \in Stream /\ s.pending \in Nat /\ s.active \in Nat /\ s.delivered \in Nat
        /\ latest \in Nat /\ latest \in 0 .. MaxTick /\ latest > 0
    BY StreamType, NumberFacts DEF Sound
  <1>1. /\ WriteInv(s) /\ LeaseInv(s) /\ DeliveryInv(s, latest)
    BY DEF Sound
  <1> DEFINE m == Max({s.delivered, s.active, s.pending})
             t == [s EXCEPT !.pending = latest]
  <1>2. m \in {s.delivered, s.active, s.pending} /\ m >= s.delivered /\ m >= s.active /\ m >= s.pending
    BY <1>0, NewestIsMax
  <1>3. observe(s) = IF latest > m THEN t ELSE s
    BY DEF observe
  <1> HIDE DEF m
  <1>4. CASE latest > m
    <2>1. /\ t \in Stream /\ t.pending = latest
          /\ t.busy = s.busy /\ t.close_started = s.close_started /\ t.finished = s.finished
          /\ t.welcoming = s.welcoming /\ t.welcomed = s.welcomed
          /\ t.active = s.active /\ t.delivered = s.delivered /\ t.lease = s.lease
          /\ t.close_requested = s.close_requested
      BY <1>0 DEF Stream
    <2> HIDE DEF t
    <2>2. latest > s.delivered /\ latest > s.active
      BY <1>0, <1>2, <1>4
    <2>3. DeliveryInv(t, latest)
      BY <1>0, <1>1, <2>1, <2>2 DEF DeliveryInv
    <2>4. WriteInv(t)
      BY <1>1, <2>1 DEF WriteInv, write_active
    <2>5. LeaseInv(t)
      BY <1>1, <2>1 DEF LeaseInv, OwnInv, Leaving
    <2>6. Unseen(s, t)
      BY <2>1 DEF Unseen, Told, StreamPhase, StreamWire
    <2>7. Leaving(t) = Leaving(s) /\ write_active(t) = write_active(s) /\ CanAsk(t) = CanAsk(s)
      BY <2>1 DEF Leaving, write_active, CanAsk, control_write_active
    <2> QED
      BY <1>3, <1>4, <2>1, <2>3, <2>4, <2>5, <2>6, <2>7 DEF Sound
  <1>5. CASE ~ (latest > m)
    <2>1. s.pending # 0 => s.pending = latest
      BY <1>0, <1>1, <1>2, <1>5 DEF DeliveryInv
    <2> QED
      BY <1>3, <1>5, <2>1 DEF Unseen, Told
  <1> QED
    BY <1>4, <1>5

---------------------------------------------------------------------------
(* The handlers.                                                           *)

\* What the handler of one session does to it, to the ledger and to what its
\* peer sees.
Steps(c) ==
    \E v : /\ Whole(v, latest) /\ Moves(At(c), v) /\ Seen(streams[c], v.stream, latest)
           /\ Becomes(c, v)

\* A session in a state of the invariant.
Ready(c) == c \in Clients /\ latest \in 1 .. MaxTick /\ Whole(At(c), latest)

\* What the invariant says of one session and the ledger.
LEMMA AtFacts ==
  ASSUME NEW c, Ready(c)
  PROVE  /\ At(c) \in World /\ At(c).stream = streams[c] /\ At(c).ledger = ledger
         /\ At(c).self = c /\ Sound(streams[c], latest) /\ streams[c] \in Stream
         /\ ledger \in Ledger /\ Unique(ledger.waiters) /\ latest \in Nat
         /\ c \in Range(ledger.waiters) => CanAsk(streams[c])
         /\ Moves(At(c), At(c))
  <1>1. /\ At(c).stream = streams[c] /\ At(c).ledger = ledger /\ At(c).self = c
    BY DEF At
  <1>2. At(c) \in World /\ latest \in Nat /\ Whole(At(c), latest)
    BY NumberFacts DEF Ready, Whole, World
  <1>3. /\ Sound(streams[c], latest) /\ streams[c] \in Stream
        /\ ledger \in Ledger /\ Unique(ledger.waiters)
        /\ c \in Range(ledger.waiters) => CanAsk(streams[c])
    BY <1>1, <1>2 DEF Whole, Sound, World
  <1>4. Moves(At(c), Update(At(c), streams[c]))
    BY <1>1, <1>2, <1>3, SameLedgerMoves
  <1>5. Update(At(c), streams[c]) = At(c)
    BY DEF Update, At
  <1> QED
    BY <1>1, <1>2, <1>3, <1>4, <1>5

\* A handler that begins unseen (or accepts the upgrade) and goes on with one
\* more function.
LEMMA Chain ==
  ASSUME NEW c, Ready(c),
         NEW w, Whole(w, latest), Moves(At(c), w),
         Unseen(streams[c], w.stream) \/ Opens(streams[c], w.stream),
         NEW v, Whole(v, latest), Moves(w, v),
         Unseen(w.stream, v.stream) \/ Closes(w.stream, v.stream) \/ IsOver(w.stream, v.stream),
         Becomes(c, v)
  PROVE  Steps(c)
  <1>1. At(c) \in World /\ w \in World /\ v \in World
    BY AtFacts DEF Whole, World
  <1>2. Moves(At(c), v)
    BY <1>1, MovesThen DEF World
  <1>3. Seen(streams[c], v.stream, latest)
    BY OpensThen
  <1> QED
    BY <1>2, <1>3 DEF Steps

\* A handler that ends in finish.
LEMMA FinishSteps ==
  ASSUME NEW c, Ready(c),
         NEW w, Whole(w, latest), Moves(At(c), w),
         Unseen(streams[c], w.stream) \/ Opens(streams[c], w.stream),
         Becomes(c, finish(w))
  PROVE  Steps(c)
  <1> DEFINE v == finish(w)
  <1>1. latest \in Nat
    BY AtFacts
  <1>2. /\ Whole(v, latest) /\ Moves(w, v)
        /\ w.stream.finished => v = w
        /\ ~ w.stream.finished => IsOver(w.stream, v.stream)
    BY <1>1, FinishStep
  <1> HIDE DEF v
  <1>3. Unseen(w.stream, v.stream) \/ IsOver(w.stream, v.stream)
    BY <1>2 DEF Unseen, Told
  <1>4. Becomes(c, v)
    BY DEF v
  <1> QED
    BY <1>2, <1>3, <1>4, Chain

\* A handler that ends in request_close.
LEMMA CloseSteps ==
  ASSUME NEW c, Ready(c),
         NEW w, Whole(w, latest), Moves(At(c), w),
         Unseen(streams[c], w.stream) \/ Opens(streams[c], w.stream),
         Becomes(c, request_close(w))
  PROVE  Steps(c)
  <1> DEFINE v == request_close(w)
  <1>1. latest \in Nat /\ Becomes(c, v)
    BY AtFacts
  <1>2. w \in World /\ Unique(w.ledger.waiters) /\ Closable(w.stream, latest)
    BY DEF Whole, World, Sound, LeaseInv, Closable
  <1>3. CASE Leaving(w.stream)
    <2>1. v = w
      BY <1>3 DEF request_close
    <2>2. Unseen(w.stream, w.stream)
      BY DEF Unseen, Told
    <2>3. Moves(w, w)
      <3>1. Update(w, w.stream) = w
        BY <1>2 DEF Update, World
      <3> QED
        BY <1>2, <3>1, SameLedgerMoves DEF World
    <2> HIDE DEF v
    <2> QED
      BY <1>1, <2>1, <2>2, <2>3, Chain
  <1>4. CASE ~ Leaving(w.stream)
    <2>1. Whole(v, latest) /\ Moves(w, v) /\ Closes(w.stream, v.stream)
      BY <1>1, <1>2, <1>4, RequestCloseStep
    <2> HIDE DEF v
    <2> QED
      BY <1>1, <2>1, Chain
  <1> QED
    BY <1>3, <1>4

\* A handler that starts operations or timers.
LEMMA LikeSteps ==
  ASSUME NEW c, Ready(c),
         NEW w, Whole(w, latest), Moves(At(c), w),
         Unseen(streams[c], w.stream) \/ Opens(streams[c], w.stream),
         NEW t, Like(w.stream, t), "accept" \in t.busy <=> "accept" \in w.stream.busy,
         w.self \in Range(w.ledger.waiters) => CanAsk(t),
         Becomes(c, Update(w, t))
  PROVE  Steps(c)
  <1>1. Sound(w.stream, latest)
    BY DEF Whole
  <1>2. Sound(t, latest) /\ Unseen(w.stream, t)
    BY <1>1, LikeStep
  <1>3. t.lease = w.stream.lease
    BY DEF Like
  <1>4. Whole(Update(w, t), latest) /\ Moves(w, Update(w, t)) /\ Update(w, t).stream = t
    BY <1>2, <1>3, WholeUpdate
  <1> QED
    BY <1>2, <1>4, Chain

\* The end of an operation that is not a data write.
LEMMA AfterStep ==
  ASSUME NEW c, Ready(c), NEW o \in Operations \ {"write"}
  PROVE  LET w == After(c, o) IN
         /\ Whole(w, latest) /\ Moves(At(c), w)
         /\ Unseen(streams[c], w.stream) \/ Opens(streams[c], w.stream)
         /\ w.self = c
         /\ w.stream = [streams[c] EXCEPT !.busy = @ \ {o}]
  <1> DEFINE s == streams[c]
             t == [s EXCEPT !.busy = @ \ {o}]
             w == Update(At(c), t)
  <1>1. /\ Whole(At(c), latest) /\ Sound(s, latest) /\ s \in Stream
        /\ At(c).stream = s /\ At(c).self = c /\ At(c).ledger = ledger /\ At(c) \in World
        /\ c \in Range(ledger.waiters) => CanAsk(s)
    BY AtFacts DEF Ready
  <1>2. Like(s, t) /\ (CanAsk(s) => CanAsk(t)) /\ t.busy = s.busy \ {o}
    BY <1>1 DEF Like, Stream, CanAsk, Leaving, control_write_active
  <1> HIDE DEF t
  <1>3. Sound(t, latest) /\ Told(s, t) /\ StreamWire(t) = StreamWire(s)
    BY <1>1, <1>2, LikeStep
  <1>4. t.lease = s.lease
    BY <1>2 DEF Like
  <1>5. Whole(w, latest) /\ Moves(At(c), w) /\ w.stream = t
    BY <1>1, <1>2, <1>3, <1>4, WholeUpdate
  <1>6. ASSUME "accept" \in t.busy <=> "accept" \in s.busy PROVE Unseen(s, t)
    BY <1>1, <1>2, <1>6, LikeStep
  <1>7. ASSUME ~ ("accept" \in t.busy <=> "accept" \in s.busy)
        PROVE  Unseen(s, t) \/ Opens(s, t)
    <2>1. "accept" \in s.busy /\ "accept" \notin t.busy
      BY <1>2, <1>7
    <2>2. t.finished = s.finished /\ t.close_requested = s.close_requested
      BY <1>2 DEF Like
    <2>3. CASE s.finished \/ s.close_requested
      <3>1. StreamPhase(t) = StreamPhase(s)
        BY <2>2, <2>3 DEF StreamPhase
      <3> QED
        BY <1>3, <3>1 DEF Unseen
    <2>4. CASE ~ (s.finished \/ s.close_requested)
      <3>1. StreamPhase(s) = "connecting" /\ StreamPhase(t) = "open"
        BY <2>1, <2>2, <2>4 DEF StreamPhase
      <3> QED
        BY <1>3, <3>1 DEF Opens
    <2> QED
      BY <2>3, <2>4
  <1>8. After(c, o) = w
    BY DEF After, t
  <1>9. w.self = c
    BY <1>5, <1>1 DEF Moves
  <1> QED
    BY <1>5, <1>6, <1>7, <1>8, <1>9 DEF t

\* Like is transitive.
LEMMA LikeThen ==
  ASSUME NEW s, NEW t, Like(s, t), NEW u, Like(t, u)
  PROVE  Like(s, u)
  BY DEF Like

\* A handler that reads on.
LEMMA ReadOnSteps ==
  ASSUME NEW c, Ready(c), NEW o \in {"accept", "read"},
         Becomes(c, Update(After(c, o), schedule_idle_check(read_client_frame(After(c, o).stream))))
  PROVE  Steps(c)
  <1> DEFINE w == After(c, o)
             s == w.stream
             r == read_client_frame(s)
             t == schedule_idle_check(r)
  <1>1. o \in Operations \ {"write"}
    BY DEF Operations
  <1>2. /\ Whole(w, latest) /\ Moves(At(c), w)
        /\ Unseen(streams[c], w.stream) \/ Opens(streams[c], w.stream)
    BY <1>1, AfterStep
  <1>3. s \in Stream /\ (w.self \in Range(w.ledger.waiters) => CanAsk(s))
    BY <1>2 DEF Whole, Sound
  <1>4. Becomes(c, Update(w, t))
    OBVIOUS
  <1> HIDE DEF w
  <1>5. /\ Like(s, r) /\ ("accept" \in r.busy <=> "accept" \in s.busy)
        /\ CanAsk(s) => CanAsk(r)
    BY <1>3, ReadStep
  <1>6. r \in Stream
    BY <1>5 DEF Like
  <1> HIDE DEF r
  <1>7. /\ Like(r, t) /\ ("accept" \in t.busy <=> "accept" \in r.busy)
        /\ CanAsk(r) => CanAsk(t)
    BY <1>6, ReadStep
  <1> HIDE DEF t
  <1>8. Like(s, t)
    BY <1>5, <1>7, LikeThen
  <1> QED
    BY <1>2, <1>3, <1>4, <1>5, <1>7, <1>8, LikeSteps

\* The upgrade response has been written, or could not be.
LEMMA AcceptedSteps ==
  ASSUME NEW c, Ready(c), Accepted(c)
  PROVE  Steps(c)
  <1>1. CASE Becomes(c, finish(After(c, "accept")))
    BY <1>1, AfterStep, FinishSteps DEF Operations
  <1>2. CASE ~ Becomes(c, finish(After(c, "accept")))
    BY <1>2, ReadOnSteps DEF Accepted
  <1> QED
    BY <1>1, <1>2

\* A frame has been read: end, close, or read on.
LEMMA ClientFrameReadSteps ==
  ASSUME NEW c, Ready(c), ClientFrameRead(c)
  PROVE  Steps(c)
  <1>1. CASE Becomes(c, finish(After(c, "read")))
    BY <1>1, AfterStep, FinishSteps DEF Operations
  <1>2. CASE Becomes(c, request_close(After(c, "read")))
    BY <1>2, AfterStep, CloseSteps DEF Operations
  <1>3. CASE Becomes(c, Update(After(c, "read"),
                    schedule_idle_check(read_client_frame(After(c, "read").stream))))
    BY <1>3, ReadOnSteps
  <1> QED
    BY <1>1, <1>2, <1>3 DEF ClientFrameRead

\* A handler that is nothing but request_close.
LEMMA RequestCloseSteps ==
  ASSUME NEW c, Ready(c), Becomes(c, request_close(At(c)))
  PROVE  Steps(c)
  <1>1. Unseen(streams[c], At(c).stream) /\ Whole(At(c), latest) /\ Moves(At(c), At(c))
    BY AtFacts DEF Unseen, Told, Ready
  <1> QED
    BY <1>1, CloseSteps

\* A control frame is observed while the read goes on.
LEMMA ControlFrameSteps ==
  ASSUME NEW c, Ready(c), ControlFrame(c)
  PROVE  Steps(c)
  <1>1. CASE Becomes(c, request_close(At(c)))
    BY <1>1, RequestCloseSteps
  <1>2. CASE Becomes(c, Update(At(c), schedule_idle_check(
                                  [streams[c] EXCEPT !.waiting_for_pong = FALSE])))
    <2> DEFINE s == streams[c]
               r == [s EXCEPT !.waiting_for_pong = FALSE]
               t == schedule_idle_check(r)
    <2>1. /\ At(c).stream = s /\ At(c).ledger = ledger /\ At(c).self = c /\ s \in Stream
          /\ c \in Range(ledger.waiters) => CanAsk(s)
          /\ Whole(At(c), latest) /\ Moves(At(c), At(c))
      BY AtFacts DEF Ready
    <2>2. Like(s, r) /\ r.busy = s.busy /\ (CanAsk(s) => CanAsk(r))
      BY <2>1 DEF Like, Stream, CanAsk, Leaving, control_write_active
    <2>3. r \in Stream
      BY <2>2 DEF Like
    <2> HIDE DEF r
    <2>4. /\ Like(r, t) /\ ("accept" \in t.busy <=> "accept" \in r.busy)
          /\ CanAsk(r) => CanAsk(t)
      BY <2>3, ReadStep
    <2>5. Becomes(c, Update(At(c), t))
      BY <1>2 DEF r
    <2> HIDE DEF t
    <2>6. Like(s, t) /\ Unseen(s, s)
      BY <2>2, <2>4, LikeThen DEF Unseen, Told
    <2>7. Unseen(streams[c], At(c).stream) /\ Like(At(c).stream, t)
          /\ ("accept" \in t.busy <=> "accept" \in At(c).stream.busy)
          /\ (At(c).self \in Range(At(c).ledger.waiters) => CanAsk(t))
      BY <2>1, <2>2, <2>4, <2>6
    <2> QED
      BY <2>1, <2>5, <2>7, LikeSteps
  <1> QED
    BY <1>1, <1>2 DEF ControlFrame

\* The publication is not ready.
LEMMA ServiceNotReadySteps ==
  ASSUME NEW c, Ready(c), ServiceNotReady(c)
  PROVE  Steps(c)
  BY RequestCloseSteps DEF ServiceNotReady

\* No pong came in time.
LEMMA PongTimedOutSteps ==
  ASSUME NEW c, Ready(c), PongTimedOut(c)
  PROVE  Steps(c)
  BY RequestCloseSteps DEF PongTimedOut

\* The write missed its deadline.
LEMMA DataWriteTimedOutSteps ==
  ASSUME NEW c, Ready(c), DataWriteTimedOut(c)
  PROVE  Steps(c)
  <1>1. Unseen(streams[c], At(c).stream) /\ Whole(At(c), latest) /\ Moves(At(c), At(c))
    BY AtFacts DEF Unseen, Told, Ready
  <1> QED
    BY <1>1, FinishSteps DEF DataWriteTimedOut

\* The close frame has been written.
LEMMA ClosedSteps ==
  ASSUME NEW c, Ready(c), Closed(c)
  PROVE  Steps(c)
  BY AfterStep, FinishSteps DEF Closed, Operations

\* The idle check gives up the place in the queue and pings: a waiter that
\* pings would hold up the others.
LEMMA IdleCheckSteps ==
  ASSUME NEW c, Ready(c), IdleCheck(c)
  PROVE  Steps(c)
  <1> DEFINE s == streams[c]
             t == [s EXCEPT !.idle_wait = FALSE, !.busy = @ \cup {"ping"}]
             a == Update(At(c), t)
             v == cancel_wait(a)
  <1>1. /\ At(c).stream = s /\ At(c).ledger = ledger /\ At(c).self = c /\ s \in Stream
        /\ Sound(s, latest) /\ Whole(At(c), latest) /\ At(c) \in World /\ ledger \in Ledger
        /\ Unique(ledger.waiters)
    BY AtFacts DEF Ready
  <1>2. Like(s, t) /\ ("accept" \in t.busy <=> "accept" \in s.busy)
    BY <1>1 DEF Like, Stream, Operations
  <1>3. Becomes(c, v)
    BY DEF IdleCheck
  <1> HIDE DEF t
  <1>4. Sound(t, latest) /\ Unseen(s, t) /\ t \in Stream /\ t.lease = s.lease
    BY <1>1, <1>2, LikeStep DEF Like
  <1>5. Moves(At(c), a) /\ a = [stream |-> t, ledger |-> ledger, self |-> c]
    BY <1>1, <1>4, SameLedgerMoves
  <1> HIDE DEF a
  <1>6. a \in World /\ Unique(a.ledger.waiters)
    BY <1>1, <1>4, <1>5 DEF World
  <1>7. /\ v \in World /\ v.stream = t /\ v.self = c
        /\ Unique(v.ledger.waiters) /\ c \notin Range(v.ledger.waiters)
        /\ Moves(a, v)
    BY <1>5, <1>6, CancelStep
  <1> HIDE DEF v
  <1>8. Whole(v, latest)
    BY <1>4, <1>7 DEF Whole, World
  <1>9. Moves(At(c), v)
    BY <1>1, <1>5, <1>6, <1>7, MovesThen DEF World
  <1>10. Seen(streams[c], v.stream, latest)
    BY <1>4, <1>7 DEF Seen
  <1> QED
    BY <1>3, <1>8, <1>9, <1>10 DEF Steps

\* The ping has been written; a close that waited for it goes out.
LEMMA PingWrittenSteps ==
  ASSUME NEW c, Ready(c), PingWritten(c)
  PROVE  Steps(c)
  <1> DEFINE w == After(c, "ping")
             s == w.stream
             pong == [s EXCEPT !.waiting_for_pong = TRUE]
  <1>1. /\ Whole(w, latest) /\ Moves(At(c), w) /\ w.self = c
        /\ Unseen(streams[c], s) \/ Opens(streams[c], s)
    BY AfterStep DEF Operations
  <1>2. /\ Sound(s, latest) /\ s \in Stream /\ w \in World
        /\ w.self \in Range(w.ledger.waiters) => CanAsk(s)
    BY <1>1 DEF Whole, Sound, World
  <1>3. CASE Becomes(c, finish(w))
    BY <1>1, <1>3, FinishSteps
  <1>4. CASE ~ s.close_requested /\ Becomes(c, Update(w, pong))
    <2>1. Like(s, pong) /\ pong.busy = s.busy /\ (CanAsk(s) => CanAsk(pong))
      BY <1>2 DEF Like, Stream, CanAsk, Leaving, control_write_active
    <2> HIDE DEF w, pong
    <2> QED
      BY <1>1, <1>2, <1>4, <2>1, LikeSteps
  <1>5. CASE s.close_requested /\ Becomes(c, Update(w, begin_close(s)))
    <2> HIDE DEF w
    <2> DEFINE t == begin_close(s)
    <2>1. Closable(s, latest) /\ latest \in Nat
      BY <1>2, AtFacts DEF Closable, Sound, LeaseInv
    <2>2. /\ Sound(t, latest) /\ t.lease = s.lease /\ t.finished = s.finished
          /\ Told(s, t) /\ StreamPhase(t) = StreamPhase(s)
          /\ StreamWire(t) = StreamWire(s) \/ (StreamWire(s) = 0 /\ StreamWire(t) = -2)
      BY <1>5, <2>1, BeginCloseStep
    <2> HIDE DEF t
    <2>3. w.self \notin Range(w.ledger.waiters)
      BY <1>2, <1>5 DEF CanAsk, Leaving
    <2>4. Whole(Update(w, t), latest) /\ Moves(w, Update(w, t)) /\ Update(w, t).stream = t
      BY <1>1, <2>2, <2>3, WholeUpdate
    <2>5. StreamPhase(s) \in {"closing", "over"}
      BY <1>5 DEF StreamPhase
    <2>6. Unseen(streams[c], s)
      BY <1>1, <2>5 DEF Opens
    <2>7. Unseen(s, t) \/ SaysClose(s, t)
      <3>1. CASE StreamWire(t) = StreamWire(s)
        BY <2>2, <3>1 DEF Unseen
      <3>2. CASE StreamWire(s) = 0 /\ StreamWire(t) = -2
        <4>1. ~ t.finished
          BY <3>2 DEF StreamWire
        <4>2. StreamPhase(s) = "closing"
          BY <1>5, <2>2, <4>1 DEF StreamPhase
        <4> QED
          BY <2>2, <3>2, <4>2 DEF SaysClose
      <3> QED
        BY <2>2, <3>1, <3>2
    <2>8. Seen(streams[c], t, latest)
      <3>1. Seen(s, t, latest)
        BY <2>7 DEF Seen
      <3> QED
        BY <2>6, <3>1, UnseenThen
    <2>9. At(c) \in World /\ Update(w, t) \in World
      BY <2>4, AtFacts DEF Whole, World
    <2>10. Moves(At(c), Update(w, t))
      BY <1>1, <1>2, <2>4, <2>9, MovesThen DEF World
    <2> QED
      BY <1>5, <2>4, <2>8, <2>10 DEF Steps, t
  <1>6. \/ Becomes(c, finish(w))
        \/ Becomes(c, Update(w, IF s.close_requested THEN begin_close(s) ELSE pong))
    BY DEF PingWritten
  <1> HIDE DEF w, pong
  <1>7. CASE s.close_requested
    BY <1>3, <1>5, <1>6, <1>7
  <1>8. CASE ~ s.close_requested
    BY <1>3, <1>4, <1>6, <1>8
  <1> QED
    BY <1>7, <1>8

\* snapshot_written: the lease is given back before anything else, the frame
\* counts as delivered, and a close that waited for it goes out; or the
\* connection ends.
LEMMA DataWrittenSteps ==
  ASSUME NEW c, Ready(c), DataWritten(c)
  PROVE  Steps(c)
  <1> DEFINE o == streams[c]
             free == [o EXCEPT !.busy = @ \ {"write"}]
             a == After(c, "write")
             w == release_active_payload(a)
             s == [free EXCEPT !.lease = NoLease]
             lost == [s EXCEPT !.welcoming = FALSE]
             done == [s EXCEPT !.welcomed = TRUE, !.welcoming = FALSE, !.active = 0,
                               !.delivered = IF s.welcoming THEN s.delivered ELSE s.active]
             t == IF done.close_requested THEN begin_close(done) ELSE done
  <1>1. /\ At(c).stream = o /\ At(c).ledger = ledger /\ At(c).self = c /\ o \in Stream
        /\ Sound(o, latest) /\ Whole(At(c), latest) /\ At(c) \in World /\ ledger \in Ledger
        /\ Unique(ledger.waiters) /\ latest \in Nat
        /\ c \in Range(ledger.waiters) => CanAsk(o)
    BY AtFacts DEF Ready
  <1>2. WriteInv(o) /\ LeaseInv(o) /\ DeliveryInv(o, latest) /\ "write" \in o.busy
    BY <1>1 DEF Sound, DataWritten, Ends
  <1>3. free \in Stream /\ free.lease = o.lease
    BY <1>1 DEF Stream
  <1>4. /\ s \in Stream /\ s.lease = NoLease /\ s.busy = o.busy \ {"write"}
        /\ s.welcoming = o.welcoming /\ s.welcomed = o.welcomed
        /\ s.pending = o.pending /\ s.active = o.active /\ s.delivered = o.delivered
        /\ s.close_requested = o.close_requested /\ s.close_started = o.close_started
        /\ s.finished = o.finished
    BY <1>1, NoLeaseType DEF Stream, Lease
  <1>5. a = Update(At(c), free)
    BY DEF After
  <1>6. Moves(At(c), a) /\ a = [stream |-> free, ledger |-> ledger, self |-> c]
    BY <1>1, <1>3, <1>5, SameLedgerMoves
  <1>7. Becomes(c, finish(Update(w, lost))) \/ (~ s.finished /\ Becomes(c, Update(w, t)))
    <2>1. w.stream = s
      <3>1. a \in World /\ Unique(a.ledger.waiters) /\ a.stream = free
        BY <1>1, <1>3, <1>6 DEF World
      <3> HIDE DEF a, free
      <3> QED
        BY <3>1, ReleaseStep
    <2>2. \/ Becomes(c, finish(Update(w, [w.stream EXCEPT !.welcoming = FALSE])))
          \/ /\ ~ w.stream.finished
             /\ LET done_ == [w.stream EXCEPT !.welcomed = TRUE, !.welcoming = FALSE, !.active = 0,
                              !.delivered = IF w.stream.welcoming THEN w.stream.delivered
                                            ELSE w.stream.active]
                IN  Becomes(c, Update(w, IF done_.close_requested THEN begin_close(done_) ELSE done_))
      BY DEF DataWritten
    <2> HIDE DEF w, s
    <2> QED
      BY <2>1, <2>2
  <1>8. a \in World /\ Unique(a.ledger.waiters) /\ a.stream = free /\ a.self = c
    BY <1>1, <1>3, <1>6 DEF World
  <1> HIDE DEF a
  <1>9. /\ w \in World /\ w.self = c /\ w.stream = s
        /\ w.ledger.waiters = ledger.waiters /\ Moves(a, w)
    BY <1>6, <1>8, ReleaseStep
  <1>10. Moves(At(c), w)
    BY <1>1, <1>6, <1>8, <1>9, MovesThen DEF World
  <1> HIDE DEF w, free
  <1>11. Sound(s, latest)
    <2> HIDE DEF s
    <2>1. WriteInv(s)
      BY <1>2, <1>4 DEF WriteInv
    <2>2. LeaseInv(s)
      BY <1>4 DEF LeaseInv, OwnInv
    <2>3. DeliveryInv(s, latest)
      BY <1>2, <1>4 DEF DeliveryInv
    <2> QED
      BY <1>4, <2>1, <2>2, <2>3 DEF Sound
  <1>12. CanAsk(o) => CanAsk(s)
    BY <1>4 DEF CanAsk, Leaving, control_write_active
  <1>13. Whole(w, latest)
    BY <1>1, <1>9, <1>11, <1>12 DEF Whole, World
  <1>14. CASE Becomes(c, finish(Update(w, lost)))
    <2> DEFINE u == Update(w, lost)
               v == finish(u)
    <2>1. /\ lost \in Stream /\ lost.lease = NoLease /\ lost.busy = s.busy
          /\ lost.welcoming = FALSE /\ lost.welcomed = s.welcomed
          /\ lost.pending = s.pending /\ lost.active = s.active /\ lost.delivered = s.delivered
          /\ lost.close_requested = s.close_requested /\ lost.close_started = s.close_started
          /\ lost.finished = s.finished
      BY <1>4 DEF Stream
    <2>2. Becomes(c, v)
      BY <1>14
    <2> HIDE DEF s, lost
    <2>3. WriteInv(lost)
      BY <1>2, <1>4, <2>1 DEF WriteInv
    <2>4. LeaseInv(lost)
      BY <1>4, <2>1 DEF LeaseInv, OwnInv
    <2>5. DeliveryInv(lost, latest)
      BY <1>2, <1>4, <2>1 DEF DeliveryInv
    <2>6. CanAsk(s) => CanAsk(lost)
      BY <2>1 DEF CanAsk, Leaving, control_write_active
    <2>7. Whole(u, latest) /\ Moves(w, u) /\ u.stream = lost
      <3>1. Sound(lost, latest)
        BY <2>1, <2>3, <2>4, <2>5 DEF Sound
      <3> QED
        BY <1>1, <1>4, <1>9, <1>12, <1>13, <2>1, <2>6, <3>1, WholeUpdate
    <2> HIDE DEF u
    <2>8. /\ Whole(v, latest) /\ Moves(u, v)
          /\ lost.finished => v = u
          /\ ~ lost.finished => IsOver(lost, v.stream)
      BY <1>1, <2>7, FinishStep
    <2> HIDE DEF v
    <2>9. Moves(w, v)
      BY <1>9, <2>7, <2>8, MovesThen DEF Whole, World
    <2>10. Moves(At(c), v)
      BY <1>1, <1>9, <1>10, <2>8, <2>9, MovesThen DEF Whole, World
    <2>11. Seen(o, v.stream, latest)
      <3>1. CASE o.finished
        <4>1. v.stream = lost
          BY <1>4, <2>1, <2>7, <2>8, <3>1
        <4>2. Unseen(o, lost)
          BY <1>4, <2>1, <3>1 DEF Unseen, Told, StreamPhase, StreamWire
        <4> QED
          BY <4>1, <4>2 DEF Seen
      <3>2. CASE ~ o.finished
        <4>1. IsOver(lost, v.stream)
          BY <1>4, <2>1, <2>8, <3>2
        <4>2. Told(o, lost)
          BY <1>4, <2>1 DEF Told
        <4>3. StreamPhase(o) # "over"
          BY <3>2 DEF StreamPhase
        <4>4. IsOver(o, v.stream)
          BY <4>1, <4>2, <4>3 DEF IsOver, Told
        <4> QED
          BY <4>4 DEF Seen
      <3> QED
        BY <3>1, <3>2
    <2> QED
      BY <2>2, <2>8, <2>10, <2>11 DEF Steps
  <1>15. CASE ~ s.finished /\ Becomes(c, Update(w, t))
    <2>1. /\ done \in Stream /\ done.lease = NoLease /\ done.busy = s.busy
          /\ done.welcoming = FALSE /\ done.welcomed = TRUE
          /\ done.pending = s.pending /\ done.active = 0
          /\ done.delivered = IF s.welcoming THEN s.delivered ELSE s.active
          /\ done.close_requested = s.close_requested /\ done.close_started = s.close_started
          /\ done.finished = s.finished
      BY <1>4, NumberFacts DEF Stream
    <2>2. /\ s.pending \in Nat /\ s.active \in Nat /\ s.delivered \in Nat
      BY <1>4, StreamType
    <2> HIDE DEF s, done
    <2>3. /\ o.active = s.active /\ "write" \notin done.busy /\ ~ o.finished /\ ~ done.finished
          /\ ~ o.close_started /\ ~ done.close_started
      BY <1>2, <1>4, <1>15, <2>1 DEF WriteInv
    <2>4. WriteInv(done)
      BY <2>3 DEF WriteInv
    <2>5. LeaseInv(done)
      BY <2>1, <2>3 DEF LeaseInv, OwnInv
    <2>6. DeliveryInv(done, latest)
      BY <1>2, <1>4, <2>1, <2>2 DEF DeliveryInv
    <2>7. CanAsk(s) => CanAsk(done)
      BY <2>1 DEF CanAsk, Leaving, control_write_active
    <2>8. Sound(done, latest) /\ Closable(done, latest)
      BY <2>1, <2>4, <2>5, <2>6 DEF Sound, Closable, LeaseInv
    <2>9. /\ StreamPhase(done) = StreamPhase(o)
          /\ StreamWire(o) = IF o.welcoming THEN -1 ELSE o.active
          /\ StreamWire(done) = 0
      <3>1. "accept" \in done.busy <=> "accept" \in o.busy
        BY <1>4, <2>1
      <3>2. StreamPhase(done) = StreamPhase(o)
        BY <1>4, <2>1, <2>3, <3>1 DEF StreamPhase
      <3> QED
        BY <1>2, <2>3, <3>2 DEF StreamWire
    <2>10. StreamWire(o) \notin {0, -2}
           /\ done.delivered = IF StreamWire(o) = -1 THEN o.delivered ELSE StreamWire(o)
      <3>1. o.welcoming \/ o.active # 0
        BY <1>2, <2>3 DEF WriteInv, write_active
      <3> QED
        BY <1>4, <2>1, <2>2, <2>9, <3>1
    <2>11. /\ Sound(t, latest) /\ t.lease = NoLease /\ t.welcomed = TRUE
           /\ t.delivered = done.delivered /\ StreamPhase(t) = StreamPhase(o)
           /\ StreamWire(t) = 0 \/ (StreamPhase(o) = "closing" /\ StreamWire(t) = -2)
           /\ CanAsk(o) => CanAsk(t)
      <3>1. CASE done.close_requested
        <4> DEFINE b == begin_close(done)
        <4>1. /\ Sound(b, latest) /\ b.lease = done.lease
              /\ Told(done, b) /\ StreamPhase(b) = StreamPhase(done)
              /\ StreamWire(b) = StreamWire(done) \/ (StreamWire(done) = 0 /\ StreamWire(b) = -2)
          BY <1>1, <2>8, <3>1, BeginCloseStep
        <4>2. t = b
          BY <3>1
        <4> HIDE DEF b, t
        <4>3. StreamPhase(done) = "closing"
          BY <2>3, <3>1 DEF StreamPhase
        <4>4. ~ CanAsk(o)
          BY <1>4, <2>1, <3>1 DEF CanAsk, Leaving
        <4> QED
          BY <2>1, <2>9, <4>1, <4>2, <4>3, <4>4 DEF Told
      <3>2. CASE ~ done.close_requested
        BY <1>12, <2>1, <2>7, <2>8, <2>9, <3>2
      <3> QED
        BY <3>1, <3>2
    <2> HIDE DEF t
    <2>12. Sends(o, t)
      BY <2>10, <2>11 DEF Sends
    <2>13. Whole(Update(w, t), latest) /\ Moves(w, Update(w, t)) /\ Update(w, t).stream = t
      BY <1>1, <1>4, <1>9, <1>13, <2>11, WholeUpdate
    <2>14. Moves(At(c), Update(w, t))
      BY <1>1, <1>9, <1>10, <2>13, MovesThen DEF Whole, World
    <2>15. Seen(o, t, latest)
      BY <2>12 DEF Seen
    <2> QED
      BY <1>15, <2>13, <2>14, <2>15 DEF Steps
  <1> QED
    BY <1>7, <1>14, <1>15

\* A record of three fields, two of them replaced.
LEMMA Replaced ==
  ASSUME NEW w \in World, NEW s, NEW l
  PROVE  [w EXCEPT !.ledger = l, !.stream = s] = [stream |-> s, ledger |-> l, self |-> w.self]
  <1>1. w = [stream |-> w.stream, ledger |-> w.ledger, self |-> w.self]
    BY DEF World
  <1> DEFINE a == [w EXCEPT !.ledger = l]
  <1>2. a = [stream |-> w.stream, ledger |-> l, self |-> w.self]
    BY <1>1
  <1> HIDE DEF a
  <1>3. [a EXCEPT !.stream = s] = [stream |-> s, ledger |-> l, self |-> w.self]
    BY <1>2
  <1> QED
    BY <1>3 DEF a

\* start_write under a grant: a data frame goes on the wire, or the encoding
\* throws, which requests a close while the lease is held.
LEMMA StartWriteStep ==
  ASSUME NEW n \in 1 .. MaxTick, NEW w, Whole(w, n), Admits(w.ledger, w.self),
         ~ Leaving(w.stream), ~ write_active(w.stream), "accept" \notin w.stream.busy,
         w.stream.welcomed => w.stream.pending = n,
         NEW outcome \in 0 .. Reservation
  PROVE  LET v == start_write(w, outcome) IN
         /\ Whole(v, n) /\ Moves(w, v)
         /\ Begins(w.stream, v.stream, n) \/ Closes(w.stream, v.stream)
  <1> DEFINE s == w.stream
             taken == [owned |-> Reservation, committed |-> FALSE]
             kept == [owned |-> outcome, committed |-> TRUE]
             owning == [s EXCEPT !.lease = taken,
                                 !.active = IF s.welcomed THEN s.pending ELSE 0,
                                 !.pending = IF s.welcomed THEN 0 ELSE @,
                                 !.welcoming = ~ s.welcomed]
             failed == [owning EXCEPT !.welcoming = FALSE]
             t == [owning EXCEPT !.lease = kept, !.busy = @ \cup {"write"}]
             granted == reserve(w.ledger, w.self)
             committed == commit_encoding(granted, outcome)
             f == [w EXCEPT !.ledger = granted, !.stream = failed]
             v == [w EXCEPT !.ledger = committed, !.stream = t]
  <1>1. /\ w \in World /\ s \in Stream /\ Sound(s, n) /\ w.ledger \in Ledger /\ w.self \in Clients
        /\ Unique(w.ledger.waiters) /\ n \in Nat /\ n # 0
        /\ w = [stream |-> s, ledger |-> w.ledger, self |-> w.self]
    BY NumberFacts DEF Whole, World
  <1>2. WriteInv(s) /\ LeaseInv(s) /\ DeliveryInv(s, n)
    BY <1>1 DEF Sound
  <1>3. /\ s.busy \in SUBSET Operations /\ s.pending \in Nat /\ s.active \in Nat
        /\ s.delivered \in Nat /\ s.pending \in 0 .. MaxTick
    BY <1>1, StreamType DEF Stream
  <1>4. /\ "write" \notin s.busy /\ ~ s.close_started /\ ~ s.finished /\ ~ s.close_requested
        /\ s.lease = NoLease /\ ~ s.welcoming /\ s.active = 0
    BY <1>2 DEF WriteInv, LeaseInv, Leaving, write_active
  <1>5. /\ granted \in Ledger /\ Unique(granted.waiters)
        /\ Range(granted.waiters) = Range(w.ledger.waiters) \ {w.self}
        /\ granted.active = w.ledger.active + Reservation /\ granted.leases = w.ledger.leases + 1
        /\ granted.active <= ActiveMax /\ granted.leases <= LeaseMax
    BY <1>1, ReserveFacts
  <1>6. taken \in Lease /\ taken.owned = Reservation /\ taken # NoLease
    BY NumberFacts, NoLeaseType DEF Lease
  <1>7. start_write(w, outcome) = IF outcome = 0 THEN request_close(f) ELSE v
    BY DEF start_write
  <1>8. /\ owning \in Stream /\ owning.lease = taken /\ owning.busy = s.busy
        /\ owning.active = (IF s.welcomed THEN s.pending ELSE 0)
        /\ owning.pending = (IF s.welcomed THEN 0 ELSE s.pending)
        /\ owning.welcoming = ~ s.welcomed /\ owning.welcomed = s.welcomed
        /\ owning.delivered = s.delivered
        /\ owning.close_requested = s.close_requested /\ owning.close_started = s.close_started
        /\ owning.finished = s.finished
    BY <1>1, <1>3, <1>6, NumberFacts DEF Stream, Lease
  <1> HIDE DEF granted, taken
  <1>9. w.ledger.active \in Int /\ w.ledger.leases \in Int
    BY <1>1 DEF Ledger
  <1>10. NoLease.owned = 0 /\ Count(s) = 0 /\ s.lease.owned = 0
    BY <1>4, NoLeaseType DEF Count
  <1>11. s.pending # 0 => s.welcomed /\ s.pending > s.delivered
    BY <1>2 DEF DeliveryInv
  <1>12. StreamPhase(s) = "open" /\ StreamWire(s) = 0
    BY <1>4 DEF StreamPhase, StreamWire
  <1>13. CASE outcome = 0
    <2>1. /\ failed \in Stream /\ failed.lease = taken /\ failed.busy = s.busy
          /\ failed.active = (IF s.welcomed THEN s.pending ELSE 0)
          /\ failed.pending = (IF s.welcomed THEN 0 ELSE s.pending)
          /\ failed.welcomed = s.welcomed /\ failed.delivered = s.delivered
          /\ failed.close_requested = s.close_requested /\ failed.close_started = s.close_started
          /\ failed.finished = s.finished
      <3> HIDE DEF owning
      <3> QED
        BY <1>8 DEF Stream
    <2> HIDE DEF owning, failed
    <2>2. f = [stream |-> failed, ledger |-> granted, self |-> w.self]
      BY <1>1, Replaced
    <2> HIDE DEF f
    <2>3. f \in World /\ f.stream = failed /\ f.ledger = granted
      BY <1>1, <1>5, <2>1, <2>2 DEF World
    <2>4. WriteInv(failed)
      BY <1>4, <2>1 DEF WriteInv
    <2>5. OwnInv(failed)
      BY <1>4, <1>6, <2>1, NumberFacts DEF OwnInv
    <2>6. DeliveryInv(failed, n)
      BY <1>1, <1>3, <1>4, <1>11, <2>1 DEF DeliveryInv
    <2>7. Closable(failed, n) /\ ~ Leaving(failed)
      BY <1>4, <2>1, <2>4, <2>5, <2>6 DEF Closable, Leaving
    <2>8. Unseen(s, failed)
      BY <1>4, <2>1 DEF Unseen, Told, StreamPhase, StreamWire
    <2>9. Moves(w, f)
      <3>1. Count(failed) = 1 /\ failed.lease.owned = Reservation
        BY <1>6, <2>1 DEF Count
      <3>2. Balanced(s, w.ledger, failed, granted, w.self)
        BY <1>5, <1>9, <1>10, <3>1, NumberFacts DEF Balanced
      <3> QED
        BY <2>2, <3>2 DEF Moves
    <2> DEFINE x == request_close(f)
    <2>10. Whole(x, n) /\ Moves(f, x) /\ Closes(failed, x.stream)
      BY <1>1, <1>5, <2>3, <2>7, RequestCloseStep
    <2>11. start_write(w, outcome) = x
      BY <1>7, <1>13
    <2> HIDE DEF x
    <2>12. Moves(w, x)
      BY <1>1, <2>3, <2>9, <2>10, MovesThen DEF Whole, World
    <2>13. Closes(s, x.stream)
      BY <2>8, <2>10 DEF Closes, Unseen, Told
    <2> QED
      BY <2>10, <2>11, <2>12, <2>13
  <1>14. CASE outcome # 0
    <2>1. outcome \in 1 .. Reservation /\ kept \in Lease /\ kept.owned = outcome /\ kept # NoLease
      BY <1>14, NumberFacts, NoLeaseType DEF Lease
    <2>2. /\ committed \in Ledger /\ committed.waiters = granted.waiters
          /\ committed.active = granted.active - Reservation + outcome
          /\ committed.leases = granted.leases /\ committed.active <= granted.active
      BY <1>5, <2>1, CommitFacts
    <2> HIDE DEF kept, committed
    <2>3. /\ t \in Stream /\ t.lease = kept /\ t.busy = s.busy \cup {"write"}
          /\ t.active = (IF s.welcomed THEN s.pending ELSE 0)
          /\ t.pending = (IF s.welcomed THEN 0 ELSE s.pending)
          /\ t.welcoming = ~ s.welcomed
          /\ t.welcomed = s.welcomed /\ t.delivered = s.delivered
          /\ t.close_requested = s.close_requested /\ t.close_started = s.close_started
          /\ t.finished = s.finished
      <3> HIDE DEF owning
      <3> QED
        BY <1>3, <1>8, <2>1 DEF Stream, Operations, Lease
    <2> HIDE DEF owning, t
    <2>4. v = [stream |-> t, ledger |-> committed, self |-> w.self]
      BY <1>1, Replaced
    <2> HIDE DEF v
    <2>5. v \in World /\ v.stream = t /\ v.ledger = committed
      BY <1>1, <2>2, <2>3, <2>4 DEF World
    <2>6. WriteInv(t)
      BY <1>1, <1>4, <2>3 DEF WriteInv, write_active
    <2>7. LeaseInv(t)
      BY <1>4, <2>1, <2>3, NumberFacts DEF LeaseInv, OwnInv
    <2>8. DeliveryInv(t, n)
      BY <1>1, <1>3, <1>4, <1>11, <2>3 DEF DeliveryInv
    <2>9. Moves(w, v)
      <3>1. Count(t) = 1 /\ t.lease.owned = outcome /\ outcome \in Nat
        BY <2>1, <2>3, NumberFacts DEF Count
      <3>2. committed.active = w.ledger.active + outcome /\ committed.active <= ActiveMax
        BY <1>5, <1>9, <2>2, <3>1, NumberFacts
      <3>3. Balanced(s, w.ledger, t, committed, w.self)
        BY <1>5, <1>9, <1>10, <2>2, <3>1, <3>2, NumberFacts DEF Balanced
      <3> QED
        BY <2>4, <3>3 DEF Moves
    <2>10. Begins(s, t, n)
      <3>1. "write" \in t.busy /\ ~ t.finished /\ ~ t.close_requested /\ "accept" \notin t.busy
        BY <1>4, <2>3
      <3>2. StreamPhase(t) = "open"
        BY <3>1 DEF StreamPhase
      <3>3. StreamWire(t) = IF s.welcomed THEN n ELSE -1
        BY <3>1, <2>3 DEF StreamWire
      <3>4. s.welcomed => n > s.delivered
        BY <1>1, <1>11
      <3> QED
        BY <1>12, <2>3, <3>2, <3>3, <3>4 DEF Begins, Told
    <2>11. w.self \notin Range(committed.waiters)
      BY <1>5, <2>2
    <2>12. Whole(v, n)
      BY <1>5, <2>2, <2>3, <2>4, <2>5, <2>6, <2>7, <2>8, <2>11 DEF Whole, World, Sound
    <2>13. start_write(w, outcome) = v
      BY <1>7, <1>14
    <2> QED
      BY <2>5, <2>9, <2>10, <2>12, <2>13
  <1> QED
    BY <1>13, <1>14

\* A session that can ask joins the queue, once.
LEMMA DeniedStep ==
  ASSUME NEW n, NEW w, Whole(w, n), CanAsk(w.stream)
  PROVE  LET v == Denied(w) IN Whole(v, n) /\ Moves(w, v) /\ v.stream = w.stream
  <1> DEFINE l == w.ledger
             m == enqueue_waiter(l, w.self)
             v == [stream |-> w.stream, ledger |-> m, self |-> w.self]
  <1>1. /\ w.stream \in Stream /\ l \in Ledger /\ w.self \in Clients /\ Unique(l.waiters)
        /\ w = [stream |-> w.stream, ledger |-> l, self |-> w.self] /\ Sound(w.stream, n)
    BY DEF Whole
  <1>2. l.waiters \in Seq(Clients) /\ l.active \in Int /\ l.leases \in Int
    BY <1>1 DEF Ledger
  <1>3. Denied(w) = v
    BY <1>1 DEF Denied
  <1>4. /\ m \in Ledger /\ m.active = l.active /\ m.leases = l.leases
        /\ Unique(m.waiters) /\ Range(m.waiters) \subseteq Range(l.waiters) \cup {w.self}
    <2>1. CASE Waits(l, w.self)
      BY <1>1, <2>1 DEF enqueue_waiter
    <2>2. CASE ~ Waits(l, w.self)
      <3> DEFINE r == Append(l.waiters, w.self)
      <3>1. r \in Seq(Clients) /\ Unique(r) /\ Range(r) = Range(l.waiters) \cup {w.self}
        BY <1>1, <1>2, <2>2, AppendFacts DEF Waits
      <3>2. m = [l EXCEPT !.waiters = r]
        BY <2>2 DEF enqueue_waiter
      <3> HIDE DEF r, m
      <3>3. m \in Ledger /\ m.active = l.active /\ m.leases = l.leases /\ m.waiters = r
        BY <1>1, <3>1, <3>2 DEF Ledger
      <3> QED
        BY <3>1, <3>3
    <2> QED
      BY <2>1, <2>2
  <1> HIDE DEF m
  <1>5. w.stream.lease.owned \in Nat /\ Count(w.stream) \in {0, 1}
    BY <1>1, StreamType
  <1>6. Balanced(w.stream, l, w.stream, m, w.self)
    BY <1>2, <1>4, <1>5 DEF Balanced
  <1>7. Moves(w, v)
    BY <1>6 DEF Moves
  <1>8. Whole(v, n)
    BY <1>1, <1>4 DEF Whole
  <1> QED
    BY <1>3, <1>7, <1>8

\* A presentation slot: observe, then write, queue or nothing.
LEMMA PresentationSlotSteps ==
  ASSUME NEW c, Ready(c), PresentationSlot(c)
  PROVE  Steps(c)
  <1> DEFINE s == streams[c]
             x == IF s.welcomed THEN observe(s) ELSE s
             seen == Update(At(c), x)
  <1>1. /\ At(c).stream = s /\ At(c).ledger = ledger /\ At(c).self = c /\ s \in Stream
        /\ Sound(s, latest) /\ Whole(At(c), latest) /\ At(c) \in World
        /\ c \in Range(ledger.waiters) => CanAsk(s)
        /\ latest \in 1 .. MaxTick
    BY AtFacts DEF Ready
  <1>2. "accept" \notin s.busy /\ ~ Leaving(s) /\ ~ control_write_active(s)
    BY <1>1 DEF PresentationSlot, Ends
  <1>3. \/ /\ HasSomethingToSay(c, seen.stream) /\ ~ write_active(s)
           /\ \/ /\ Admits(ledger, c)
                 /\ \E outcome \in 1 .. Reservation \cup {0} : Becomes(c, start_write(seen, outcome))
              \/ Becomes(c, Denied(seen))
        \/ Becomes(c, seen)
    <2>1. Update(At(c), IF At(c).stream.welcomed THEN observe(At(c).stream) ELSE At(c).stream) = seen
      BY <1>1
    <2> HIDE DEF seen
    <2> QED
      BY <1>1, <2>1 DEF PresentationSlot
  <1>4. /\ Sound(x, latest) /\ Unseen(s, x) /\ x.lease = s.lease
        /\ CanAsk(x) /\ ~ Leaving(x) /\ (write_active(x) <=> write_active(s)) /\ x.busy = s.busy
        /\ x.welcomed /\ x.pending # 0 => x.pending = latest
    <2>1. CASE s.welcomed
      <3>1. x = observe(s)
        BY <2>1
      <3> HIDE DEF x
      <3> QED
        BY <1>1, <1>2, <2>1, <3>1, ObserveStep DEF CanAsk
    <2>2. CASE ~ s.welcomed
      BY <1>1, <1>2, <2>2 DEF CanAsk, Unseen, Told
    <2> QED
      BY <2>1, <2>2
  <1> HIDE DEF x
  <1>5. Whole(seen, latest) /\ Moves(At(c), seen) /\ seen.stream = x
    BY <1>1, <1>4, WholeUpdate
  <1>6. seen.ledger = ledger /\ seen.self = c
    BY <1>1 DEF Update, World
  <1> HIDE DEF seen
  <1>7. CASE Becomes(c, seen)
    <2>1. Seen(s, seen.stream, latest)
      BY <1>4, <1>5 DEF Seen
    <2> QED
      BY <1>5, <1>7, <2>1 DEF Steps
  <1>8. CASE Becomes(c, Denied(seen))
    <2> DEFINE v == Denied(seen)
    <2>1. Whole(v, latest) /\ Moves(seen, v) /\ v.stream = x
      BY <1>4, <1>5, DeniedStep
    <2>2. Becomes(c, v)
      BY <1>8
    <2> HIDE DEF v
    <2>3. Moves(At(c), v)
      BY <1>1, <1>5, <2>1, MovesThen DEF Whole, World
    <2>4. Seen(s, v.stream, latest)
      BY <1>4, <2>1 DEF Seen
    <2> QED
      BY <2>1, <2>2, <2>3, <2>4 DEF Steps
  <1>9. ASSUME HasSomethingToSay(c, x), ~ write_active(s), Admits(ledger, c),
               NEW outcome \in 0 .. Reservation, Becomes(c, start_write(seen, outcome))
        PROVE  Steps(c)
    <2> DEFINE v == start_write(seen, outcome)
    <2>1. x.welcomed => x.pending = latest
      BY <1>4, <1>9 DEF HasSomethingToSay
    <2>2. /\ Whole(v, latest) /\ Moves(seen, v)
          /\ Begins(x, v.stream, latest) \/ Closes(x, v.stream)
      BY <1>1, <1>2, <1>4, <1>5, <1>6, <1>9, <2>1, StartWriteStep
    <2>3. Becomes(c, v)
      BY <1>9
    <2> HIDE DEF v
    <2>4. Moves(At(c), v)
      BY <1>1, <1>5, <2>2, MovesThen DEF Whole, World
    <2>5. Seen(x, v.stream, latest)
      BY <2>2 DEF Seen
    <2>6. Seen(s, v.stream, latest)
      BY <1>4, <2>5, UnseenThen
    <2> QED
      BY <2>2, <2>3, <2>4, <2>6 DEF Steps
  <1> QED
    BY <1>3, <1>5, <1>7, <1>8, <1>9, NumberFacts

\* Every handler of a session is such a step.
LEMMA HandlersStep ==
  ASSUME NEW c, Ready(c), Handlers(c)
  PROVE  Steps(c)
  BY AcceptedSteps, ClientFrameReadSteps, ControlFrameSteps, PresentationSlotSteps,
     ServiceNotReadySteps, DataWrittenSteps, DataWriteTimedOutSteps, IdleCheckSteps,
     PingWrittenSteps, PongTimedOutSteps, ClosedSteps DEF Handlers

---------------------------------------------------------------------------
(* All sessions together.                                                  *)

\* OwnedBytes and Owners of any assignment of sessions.
Bytes(f, C) == {b \in C \X (1 .. Reservation) : b[2] <= f[b[1]].lease.owned}
Holders(f, C) == {c \in C : f[c].lease # NoLease}

\* There are finitely many sessions, no more than may hold a lease.
LEMMA ClientsFinite ==
  IsFiniteSet(Clients) /\ Cardinality(Clients) \in Nat /\ Cardinality(Clients) <= LeaseMax
  BY StreamsAssumption, FS_CardinalityType DEF Clients

\* The bytes and the holders can be counted.
LEMMA BytesFinite ==
  ASSUME NEW f, NEW C \in SUBSET Clients
  PROVE  /\ IsFiniteSet(Bytes(f, C)) /\ IsFiniteSet(Holders(f, C))
         /\ Cardinality(Bytes(f, C)) \in Nat /\ Cardinality(Holders(f, C)) \in Nat
  <1>1. IsFiniteSet(C)
    BY ClientsFinite, FS_Subset
  <1>2. IsFiniteSet(1 .. Reservation)
    BY NumberFacts, FS_Interval
  <1>3. IsFiniteSet(C \X (1 .. Reservation))
    BY <1>1, <1>2, FS_Product
  <1>4. Bytes(f, C) \in SUBSET (C \X (1 .. Reservation))
    BY DEF Bytes
  <1>5. Holders(f, C) \in SUBSET C
    BY DEF Holders
  <1>6. IsFiniteSet(Bytes(f, C)) /\ IsFiniteSet(Holders(f, C))
    BY <1>1, <1>3, <1>4, <1>5, FS_Subset
  <1> QED
    BY <1>6, FS_CardinalityType

\* A set of n pairs.
LEMMA PairsFacts ==
  ASSUME NEW c, NEW n \in Nat
  PROVE  IsFiniteSet({c} \X (1 .. n)) /\ Cardinality({c} \X (1 .. n)) = n
  <1>1. IsFiniteSet(1 .. n) /\ Cardinality(1 .. n) = IF 1 > n THEN 0 ELSE n - 1 + 1
    BY FS_Interval
  <1>2. Cardinality(1 .. n) = n
    BY <1>1
  <1>3. IsFiniteSet({c}) /\ Cardinality({c}) = 1
    BY FS_Singleton
  <1> DEFINE U == {c}
             V == 1 .. n
  <1>4. IsFiniteSet(U) /\ IsFiniteSet(V) /\ Cardinality(U) = 1 /\ Cardinality(V) = n
    BY <1>1, <1>2, <1>3
  <1> HIDE DEF U, V
  <1>5. IsFiniteSet(U \X V) /\ Cardinality(U \X V) = Cardinality(U) * Cardinality(V)
    BY <1>4, FS_Product
  <1>6. Cardinality(U \X V) = n
    BY <1>4, <1>5
  <1> QED
    BY <1>5, <1>6 DEF U, V

\* What all sessions own is what one owns and what the others own.
LEMMA BytesOfOne ==
  ASSUME NEW f, NEW c \in Clients, f[c] \in Stream
  PROVE  /\ Cardinality(Bytes(f, Clients))
              = Cardinality(Bytes(f, Clients \ {c})) + f[c].lease.owned
         /\ Cardinality(Holders(f, Clients))
              = Cardinality(Holders(f, Clients \ {c})) + Count(f[c])
  <1> DEFINE rest == Clients \ {c}
             n == f[c].lease.owned
             mine == {c} \X (1 .. n)
             all == Bytes(f, Clients)
             others == Bytes(f, rest)
  <1>1. n \in Nat /\ n <= Reservation /\ Reservation \in Nat
    BY StreamType, NumberFacts
  <1>2. IsFiniteSet(mine) /\ Cardinality(mine) = n
    BY <1>1, PairsFacts
  <1>3. all = others \cup mine
    <2>1. ASSUME NEW b \in all PROVE b \in others \cup mine
      <3>1. b \in Clients \X (1 .. Reservation) /\ b[2] <= f[b[1]].lease.owned
        BY DEF Bytes
      <3>2. b = <<b[1], b[2]>> /\ b[1] \in Clients /\ b[2] \in 1 .. Reservation
        BY <3>1
      <3>3. CASE b[1] = c
        <4>1. b[2] \in 1 .. n
          BY <1>1, <3>1, <3>2, <3>3
        <4> QED
          BY <3>2, <3>3, <4>1
      <3>4. CASE b[1] # c
        <4>1. b \in rest \X (1 .. Reservation)
          BY <3>2, <3>4
        <4> QED
          BY <3>1, <4>1 DEF Bytes
      <3> QED
        BY <3>3, <3>4
    <2>2. others \subseteq all
      BY DEF Bytes
    <2>3. ASSUME NEW b \in mine PROVE b \in all
      <3>1. b[1] = c /\ b[2] \in 1 .. n /\ b = <<b[1], b[2]>>
        OBVIOUS
      <3>2. b[2] \in 1 .. Reservation /\ b[2] <= f[b[1]].lease.owned
        BY <1>1, <3>1
      <3>3. b \in Clients \X (1 .. Reservation)
        BY <3>1, <3>2
      <3> QED
        BY <3>2, <3>3 DEF Bytes
    <2> QED
      BY <2>1, <2>2, <2>3
  <1>4. others \cap mine = {}
    BY DEF Bytes
  <1>5. IsFiniteSet(others) /\ Cardinality(others) \in Nat
    BY BytesFinite
  <1>6. Cardinality(all) = Cardinality(others) + n
    <2> HIDE DEF others, mine, all
    <2>1. Cardinality(others \cup mine)
            = Cardinality(others) + Cardinality(mine) - Cardinality(others \cap mine)
      BY <1>2, <1>5, FS_Union
    <2>2. Cardinality(others \cap mine) = 0
      BY <1>4, FS_EmptySet
    <2> QED
      BY <1>1, <1>2, <1>3, <1>5, <2>1, <2>2
  <1>7. Cardinality(Holders(f, Clients)) = Cardinality(Holders(f, rest)) + Count(f[c])
    <2>1. IsFiniteSet(Holders(f, rest)) /\ Cardinality(Holders(f, rest)) \in Nat
      BY BytesFinite
    <2>2. CASE f[c].lease = NoLease
      <3>1. Holders(f, Clients) = Holders(f, rest) /\ Count(f[c]) = 0
        BY <2>2 DEF Holders, Count
      <3> QED
        BY <2>1, <3>1
    <2>3. CASE f[c].lease # NoLease
      <3>1. Holders(f, Clients) = Holders(f, rest) \cup {c} /\ c \notin Holders(f, rest)
            /\ Count(f[c]) = 1
        BY <2>3 DEF Holders, Count
      <3> QED
        BY <2>1, <3>1, FS_AddElement
    <2> QED
      BY <2>2, <2>3
  <1> QED
    BY <1>6, <1>7

\* When one session changes, the sums change by its part.
LEMMA BytesStep ==
  ASSUME NEW f \in [Clients -> Stream], NEW c \in Clients, NEW t \in Stream
  PROVE  LET g == [f EXCEPT ![c] = t] IN
         /\ g \in [Clients -> Stream]
         /\ Cardinality(Bytes(g, Clients))
              = Cardinality(Bytes(f, Clients)) - f[c].lease.owned + t.lease.owned
         /\ Cardinality(Holders(g, Clients))
              = Cardinality(Holders(f, Clients)) - Count(f[c]) + Count(t)
  <1> DEFINE g == [f EXCEPT ![c] = t]
             rest == Clients \ {c}
  <1>1. g \in [Clients -> Stream] /\ g[c] = t /\ \A d \in rest : g[d] = f[d]
    OBVIOUS
  <1> HIDE DEF g
  <1>2. Bytes(g, rest) = Bytes(f, rest)
    <2>1. \A b \in rest \X (1 .. Reservation) : g[b[1]] = f[b[1]]
      BY <1>1
    <2> HIDE DEF rest
    <2> QED
      BY <2>1 DEF Bytes
  <1>3. Holders(g, rest) = Holders(f, rest)
    BY <1>1 DEF Holders
  <1>4. /\ Cardinality(Bytes(g, Clients)) = Cardinality(Bytes(g, rest)) + t.lease.owned
        /\ Cardinality(Holders(g, Clients)) = Cardinality(Holders(g, rest)) + Count(t)
    BY <1>1, BytesOfOne
  <1>5. /\ Cardinality(Bytes(f, Clients)) = Cardinality(Bytes(f, rest)) + f[c].lease.owned
        /\ Cardinality(Holders(f, Clients)) = Cardinality(Holders(f, rest)) + Count(f[c])
    BY BytesOfOne
  <1>6. /\ t.lease.owned \in Nat /\ Count(t) \in Nat /\ f[c] \in Stream
        /\ Cardinality(Bytes(f, rest)) \in Nat /\ Cardinality(Holders(f, rest)) \in Nat
    BY StreamType, BytesFinite
  <1>7. f[c].lease.owned \in Nat /\ Count(f[c]) \in Nat
    BY <1>6, StreamType
  <1> HIDE DEF rest
  <1>8. /\ Cardinality(Bytes(g, Clients))
              = Cardinality(Bytes(f, Clients)) - f[c].lease.owned + t.lease.owned
        /\ Cardinality(Holders(g, Clients))
              = Cardinality(Holders(f, Clients)) - Count(f[c]) + Count(t)
    BY <1>2, <1>3, <1>4, <1>5, <1>6, <1>7
  <1> QED
    BY <1>1, <1>8 DEF g

\* The counts of the ledger are in range.
LedgerOK(l) == l.active \in 0 .. ActiveMax /\ l.leases \in 0 .. LeaseMax

\* Every session is sound.
SessionsInv == streams \in [Clients -> Stream] /\ \A c \in Clients : Sound(streams[c], latest)
\* Nobody waits twice, and whoever waits can ask.
QueueInv == Unique(ledger.waiters) /\ \A c \in Range(ledger.waiters) : CanAsk(streams[c])
\* The ledger counts what the sessions hold.
CountInv ==
    /\ ledger.active = Cardinality(Bytes(streams, Clients))
    /\ ledger.leases = Cardinality(Holders(streams, Clients))

\* The inductive invariant.
Inv ==
    /\ latest \in 1 .. MaxTick /\ bodies \subseteq Players
    /\ ledger \in Ledger /\ LedgerOK(ledger)
    /\ SessionsInv /\ QueueInv /\ CountInv

\* Every session is ready for its handler in a state of the invariant.
LEMMA ReadyAll ==
  ASSUME Inv, NEW c \in Clients
  PROVE  Ready(c)
  <1>1. /\ At(c).stream = streams[c] /\ At(c).ledger = ledger /\ At(c).self = c
        /\ At(c) = [stream |-> streams[c], ledger |-> ledger, self |-> c]
    BY DEF At
  <1>2. /\ streams[c] \in Stream /\ Sound(streams[c], latest) /\ ledger \in Ledger
        /\ Unique(ledger.waiters) /\ (c \in Range(ledger.waiters) => CanAsk(streams[c]))
        /\ latest \in 1 .. MaxTick
    BY DEF Inv, SessionsInv, QueueInv
  <1>3. Whole(At(c), latest)
    BY <1>1, <1>2 DEF Whole
  <1> QED
    BY <1>2, <1>3 DEF Ready

\* A handler of one session preserves the invariant, shows its peer at most one
\* step and the others' peers none.
LEMMA StepKeepsInv ==
  ASSUME Inv, NEW c \in Clients, Steps(c)
  PROVE  /\ Inv' /\ UNCHANGED <<latest, bodies>>
         /\ Seen(streams[c], streams'[c], latest)
         /\ \A d \in Clients \ {c} : streams'[d] = streams[d]
  <1>1. PICK v : /\ Whole(v, latest) /\ Moves(At(c), v)
                 /\ Seen(streams[c], v.stream, latest) /\ Becomes(c, v)
    BY DEF Steps
  <1> DEFINE t == v.stream
             g == [streams EXCEPT ![c] = t]
  <1>2. streams' = g /\ ledger' = v.ledger /\ latest' = latest /\ bodies' = bodies
    BY <1>1 DEF Becomes
  <1>3. /\ streams \in [Clients -> Stream] /\ streams[c] \in Stream /\ ledger \in Ledger
        /\ LedgerOK(ledger) /\ CountInv /\ Unique(ledger.waiters)
        /\ \A d \in Clients : Sound(streams[d], latest)
        /\ \A d \in Range(ledger.waiters) : CanAsk(streams[d])
    BY DEF Inv, SessionsInv, QueueInv
  <1>4. v.self = c /\ Balanced(streams[c], ledger, t, ledger', c)
    BY <1>1, <1>2, AtFacts, ReadyAll DEF Moves
  <1>5. t \in Stream /\ Sound(t, latest) /\ (c \in Range(ledger'.waiters) => CanAsk(t))
    BY <1>1, <1>2, <1>4 DEF Whole
  <1> HIDE DEF t, g
  <1>6. g \in [Clients -> Stream] /\ g[c] = t /\ \A d \in Clients \ {c} : g[d] = streams[d]
    BY <1>3, <1>5 DEF g
  <1>7. SessionsInv'
    BY <1>2, <1>3, <1>5, <1>6 DEF SessionsInv
  <1>8. QueueInv'
    <2>1. ledger' \in Ledger /\ Unique(ledger'.waiters)
          /\ Range(ledger'.waiters) \ {c} \subseteq Range(ledger.waiters)
      BY <1>4 DEF Balanced
    <2>2. Range(ledger'.waiters) \subseteq Clients
      BY <2>1, InRange DEF Ledger
    <2>3. ASSUME NEW d \in Range(ledger'.waiters) PROVE CanAsk(streams'[d])
      <3>1. CASE d = c
        BY <1>2, <1>5, <1>6, <2>3, <3>1
      <3>2. CASE d # c
        BY <1>2, <1>3, <1>6, <2>1, <2>2, <2>3, <3>2
      <3> QED
        BY <3>1, <3>2
    <2>4. Unique(ledger.waiters)'
      BY <2>1 DEF Unique
    <2>5. \A d \in Range(ledger.waiters)' : CanAsk(streams[d])'
      <3>1. Range(ledger.waiters)' = Range(ledger'.waiters)
        BY DEF Range
      <3>2. \A d : CanAsk(streams[d])' <=> CanAsk(streams'[d])
        BY DEF CanAsk, Leaving, control_write_active
      <3> QED
        BY <2>3, <3>1, <3>2
    <2> QED
      BY <2>4, <2>5 DEF QueueInv
  <1>9. /\ Cardinality(Bytes(g, Clients))
              = Cardinality(Bytes(streams, Clients)) - streams[c].lease.owned + t.lease.owned
        /\ Cardinality(Holders(g, Clients))
              = Cardinality(Holders(streams, Clients)) - Count(streams[c]) + Count(t)
    BY <1>3, <1>5, BytesStep DEF g
  <1>10. /\ ledger'.active = ledger.active - streams[c].lease.owned + t.lease.owned
         /\ ledger'.leases = ledger.leases - Count(streams[c]) + Count(t)
    BY <1>4 DEF Balanced
  <1>11. CountInv'
    <2>1. ledger'.active = Cardinality(Bytes(g, Clients))
          /\ ledger'.leases = Cardinality(Holders(g, Clients))
      BY <1>3, <1>9, <1>10 DEF CountInv
    <2> QED
      BY <1>2, <2>1 DEF CountInv, Bytes, Holders
  <1>12. LedgerOK(ledger')
    <2>1. Cardinality(Bytes(g, Clients)) \in Nat /\ Cardinality(Holders(g, Clients)) \in Nat
      BY BytesFinite
    <2>2. ledger'.active \in Nat /\ ledger'.leases \in Nat
      BY <1>3, <1>9, <1>10, <2>1 DEF CountInv
    <2>3. /\ ledger'.active <= ledger.active \/ ledger'.active <= ActiveMax
          /\ ledger'.leases <= ledger.leases \/ ledger'.leases <= LeaseMax
      BY <1>4 DEF Balanced
    <2> QED
      BY <1>3, <2>2, <2>3, NumberFacts DEF LedgerOK
  <1>13. ledger' \in Ledger
    BY <1>4 DEF Balanced
  <1>14. Inv'
    <2>1. (ledger \in Ledger)' /\ LedgerOK(ledger)'
      BY <1>12, <1>13 DEF LedgerOK, Ledger
    <2> QED
      BY <1>2, <1>7, <1>8, <1>11, <2>1 DEF Inv
  <1> QED
    BY <1>1, <1>2, <1>6, <1>14 DEF t

\* When everyone who waits leaves, the queue is empty.
LEMMA EverybodyLeaves ==
  ASSUME NEW l \in Ledger, NEW S, Range(l.waiters) \subseteq S
  PROVE  cancel_waiters(l, S) = [l EXCEPT !.waiters = <<>>]
  BY DEF cancel_waiters

\* The empty queue.
LEMMA EmptyQueue ==
  Unique(<<>>) /\ Range(<<>>) = {} /\ <<>> \in Seq(Clients)
  BY DEF Unique, Range

\* The graceful stop: everyone closes, nobody waits, and no lease changes
\* hands.
LEMMA BeginStopStep ==
  ASSUME Inv, BeginStop
  PROVE  /\ Inv' /\ UNCHANGED <<latest, bodies>>
         /\ \A c \in Clients : Seen(streams[c], streams'[c], latest)
  <1> DEFINE asked == {c \in Clients : ~ Leaving(streams[c])}
             g == [c \in Clients |-> request_close(At(c)).stream]
             m == [ledger EXCEPT !.waiters = <<>>]
  <1>1. /\ streams \in [Clients -> Stream] /\ ledger \in Ledger
        /\ LedgerOK(ledger) /\ CountInv /\ Unique(ledger.waiters) /\ latest \in Nat
        /\ \A d \in Clients : Sound(streams[d], latest)
        /\ \A d \in Range(ledger.waiters) : CanAsk(streams[d])
    BY NumberFacts DEF Inv, SessionsInv, QueueInv
  <1>2. streams' = g /\ ledger' = cancel_waiters(ledger, asked) /\ latest' = latest /\ bodies' = bodies
    BY DEF BeginStop
  <1>3. ASSUME NEW c \in Clients
        PROVE  /\ g[c] \in Stream /\ Sound(g[c], latest) /\ g[c].lease = streams[c].lease
               /\ Seen(streams[c], g[c], latest)
    <2> DEFINE x == request_close(At(c)).stream
    <2>1. /\ At(c) \in World /\ At(c).stream = streams[c] /\ Unique(At(c).ledger.waiters)
          /\ Sound(streams[c], latest) /\ streams[c] \in Stream
      BY AtFacts, ReadyAll
    <2>2. Closable(streams[c], latest)
      BY <2>1 DEF Closable, Sound, LeaseInv
    <2>3. Sound(x, latest) /\ x.lease = streams[c].lease /\ Seen(streams[c], x, latest)
      <3>1. CASE Leaving(streams[c])
        <4>1. x = streams[c]
          BY <2>1, <3>1 DEF request_close
        <4> HIDE DEF x
        <4> QED
          BY <2>1, <4>1 DEF Seen, Unseen, Told
      <3>2. CASE ~ Leaving(streams[c])
        <4> DEFINE v == request_close(At(c))
        <4>1. Whole(v, latest) /\ Closes(streams[c], v.stream) /\ v.stream.lease = streams[c].lease
          BY <1>1, <2>1, <2>2, <3>2, RequestCloseStep
        <4> HIDE DEF v
        <4>2. Sound(v.stream, latest) /\ Seen(streams[c], v.stream, latest)
          BY <4>1 DEF Whole, Seen
        <4> QED
          BY <4>1, <4>2 DEF v
      <3> QED
        BY <3>1, <3>2
    <2>4. g[c] = x
      OBVIOUS
    <2> HIDE DEF x, g
    <2> QED
      BY <2>3, <2>4 DEF Sound
  <1>4. Range(ledger.waiters) \subseteq asked
    BY <1>1, InRange DEF CanAsk, Ledger
  <1>5. ledger' = m
    BY <1>1, <1>2, <1>4, EverybodyLeaves
  <1>6. /\ ledger' \in Ledger /\ ledger'.active = ledger.active /\ ledger'.leases = ledger.leases
        /\ ledger'.waiters = <<>>
    BY <1>1, <1>5, EmptyQueue DEF Ledger
  <1>7. g \in [Clients -> Stream]
    BY <1>3
  <1> HIDE DEF g
  <1>8. SessionsInv'
    BY <1>2, <1>3, <1>7 DEF SessionsInv
  <1>9. QueueInv'
    <2>1. Unique(ledger.waiters)' /\ Range(ledger.waiters)' = {}
      BY <1>6, EmptyQueue DEF Unique, Range
    <2> QED
      BY <2>1 DEF QueueInv
  <1>10. CountInv'
    <2>1. Holders(g, Clients) = Holders(streams, Clients)
      BY <1>3 DEF Holders
    <2>2. Bytes(g, Clients) = Bytes(streams, Clients)
      <3>1. \A b \in Clients \X (1 .. Reservation) : g[b[1]].lease = streams[b[1]].lease
        BY <1>3
      <3> QED
        BY <3>1 DEF Bytes
    <2>3. /\ ledger'.active = Cardinality(Bytes(g, Clients))
          /\ ledger'.leases = Cardinality(Holders(g, Clients))
      BY <1>1, <1>6, <2>1, <2>2 DEF CountInv
    <2> QED
      BY <1>2, <2>3 DEF CountInv, Bytes, Holders
  <1>11. (ledger \in Ledger)' /\ LedgerOK(ledger)'
    BY <1>1, <1>6 DEF LedgerOK, Ledger
  <1>12. Inv'
    BY <1>2, <1>8, <1>9, <1>10, <1>11 DEF Inv
  <1> QED
    BY <1>2, <1>3, <1>12

\* The immediate stop: everyone ends, and the leases of those without a write
\* in flight are given back, whatever their number.
LEMMA StopAtOnceStep ==
  ASSUME Inv, StopAtOnce
  PROVE  /\ Inv' /\ UNCHANGED <<latest, bodies>>
         /\ \A c \in Clients : Seen(streams[c], streams'[c], latest)
  <1> DEFINE gone == {c \in Clients : ~ streams[c].finished}
             returning == {c \in gone : "write" \notin streams[c].busy}
             uncommitted == {c \in returning : ~ streams[c].lease.committed}
             g == [c \in Clients |-> finish(At(c)).stream]
             a == ledger.active - Cardinality(Bytes(streams, returning))
             b == ledger.leases - Cardinality(Holders(streams, returning))
             k == AtMost(ledger.tokens + Cardinality(Bytes(streams, uncommitted)), Capacity)
             d == cancel_waiters(ledger, gone)
             m == [d EXCEPT !.active = a, !.leases = b, !.tokens = k]
  <1>1. /\ streams \in [Clients -> Stream] /\ ledger \in Ledger
        /\ LedgerOK(ledger) /\ CountInv /\ Unique(ledger.waiters) /\ latest \in Nat
        /\ \A e \in Clients : Sound(streams[e], latest)
        /\ \A e \in Range(ledger.waiters) : CanAsk(streams[e])
    BY NumberFacts DEF Inv, SessionsInv, QueueInv
  <1>2. Range(ledger.waiters) \subseteq gone
    BY <1>1, InRange DEF CanAsk, Leaving, Ledger
  <1>3. d = [ledger EXCEPT !.waiters = <<>>]
    BY <1>1, <1>2, EverybodyLeaves
  <1>4. /\ d \in Ledger /\ d.active = ledger.active /\ d.leases = ledger.leases
        /\ d.tokens = ledger.tokens /\ d.waiters = <<>>
    BY <1>1, <1>3, EmptyQueue DEF Ledger
  <1>5. streams' = g /\ ledger' = m /\ latest' = latest /\ bodies' = bodies
    <2>1. /\ OwnedBytes(returning) = Bytes(streams, returning)
          /\ OwnedBytes(uncommitted) = Bytes(streams, uncommitted)
          /\ Owners(returning) = Holders(streams, returning)
      BY DEF OwnedBytes, Bytes, Owners, Holders
    <2>2. ledger' = [d EXCEPT !.active = @ - Cardinality(OwnedBytes(returning)),
                              !.leases = @ - Cardinality(Owners(returning)),
                              !.tokens = AtMost(@ + Cardinality(OwnedBytes(uncommitted)), Capacity)]
      BY DEF StopAtOnce
    <2>3. streams' = g /\ latest' = latest /\ bodies' = bodies
      BY DEF StopAtOnce
    <2> HIDE DEF d, returning, uncommitted, g
    <2> QED
      BY <1>4, <2>1, <2>2, <2>3
  <1>6. ASSUME NEW c \in Clients
        PROVE  /\ g[c] \in Stream /\ Sound(g[c], latest) /\ Seen(streams[c], g[c], latest)
               /\ g[c].lease = IF c \in returning THEN NoLease ELSE streams[c].lease
    <2> DEFINE v == finish(At(c))
    <2>1. /\ At(c).stream = streams[c] /\ Whole(At(c), latest) /\ latest \in Nat
      BY AtFacts, ReadyAll DEF Ready
    <2>2. /\ Whole(v, latest)
          /\ streams[c].finished => v = At(c)
          /\ ~ streams[c].finished => IsOver(streams[c], v.stream)
          /\ v.stream.lease = IF streams[c].finished \/ "write" \in streams[c].busy
                              THEN streams[c].lease ELSE NoLease
      BY <2>1, FinishStep
    <2>3. g[c] = v.stream
      OBVIOUS
    <2> HIDE DEF v, g
    <2>4. Seen(streams[c], v.stream, latest)
      BY <2>1, <2>2 DEF Seen, Unseen, Told
    <2>5. Sound(v.stream, latest) /\ v.stream \in Stream
      BY <2>2 DEF Whole, Sound
    <2>6. v.stream.lease = IF c \in returning THEN NoLease ELSE streams[c].lease
      BY <2>2
    <2> QED
      BY <2>3, <2>4, <2>5, <2>6
  <1>7. g \in [Clients -> Stream]
    BY <1>6
  <1>8. returning \subseteq Clients /\ uncommitted \subseteq Clients
    OBVIOUS
  <1> HIDE DEF g, returning, uncommitted, d
  <1>9. Cardinality(Bytes(g, Clients))
          = Cardinality(Bytes(streams, Clients)) - Cardinality(Bytes(streams, returning))
    <2> DEFINE S == Bytes(streams, Clients)
               T == Bytes(streams, returning)
    <2>1. Bytes(g, Clients) = S \ T
      <3>1. ASSUME NEW p \in Clients \X (1 .. Reservation)
            PROVE  p \in Bytes(g, Clients) <=> p \in S \ T
        <4>1. p[1] \in Clients /\ p[2] \in 1 .. Reservation
              /\ (p \in returning \X (1 .. Reservation) <=> p[1] \in returning)
          OBVIOUS
        <4>2. CASE p[1] \in returning
          <5>1. ~ (p[2] <= g[p[1]].lease.owned)
            BY <1>6, <4>1, <4>2, NoLeaseType, NumberFacts
          <5> QED
            BY <4>1, <4>2, <5>1 DEF Bytes
        <4>3. CASE p[1] \notin returning
          <5>1. g[p[1]].lease = streams[p[1]].lease
            BY <1>6, <4>1, <4>3
          <5> QED
            BY <4>1, <4>3, <5>1 DEF Bytes
        <4> QED
          BY <4>2, <4>3
      <3>2. Bytes(g, Clients) \subseteq Clients \X (1 .. Reservation)
            /\ S \subseteq Clients \X (1 .. Reservation)
        BY DEF Bytes
      <3> HIDE DEF S, T
      <3> QED
        BY <3>1, <3>2
    <2>2. S \cap T = T
      <3>1. T \subseteq S
        BY <1>8 DEF Bytes
      <3> QED
        BY <3>1
    <2>3. IsFiniteSet(S)
      BY BytesFinite
    <2> HIDE DEF S, T
    <2>4. Cardinality(S \ T) = Cardinality(S) - Cardinality(S \cap T)
      BY <2>3, FS_Difference
    <2> QED
      BY <2>1, <2>2, <2>4 DEF S, T
  <1>10. Cardinality(Holders(g, Clients))
          = Cardinality(Holders(streams, Clients)) - Cardinality(Holders(streams, returning))
    <2> DEFINE S == Holders(streams, Clients)
               T == Holders(streams, returning)
    <2>1. Holders(g, Clients) = S \ T
      BY <1>6, <1>8 DEF Holders
    <2>2. S \cap T = T
      BY <1>8 DEF Holders
    <2>3. IsFiniteSet(S)
      BY BytesFinite
    <2> HIDE DEF S, T
    <2>4. Cardinality(S \ T) = Cardinality(S) - Cardinality(S \cap T)
      BY <2>3, FS_Difference
    <2> QED
      BY <2>1, <2>2, <2>4 DEF S, T
  <1>11. /\ Cardinality(Bytes(g, Clients)) \in Nat /\ Cardinality(Holders(g, Clients)) \in Nat
         /\ Cardinality(Bytes(streams, returning)) \in Nat
         /\ Cardinality(Holders(streams, returning)) \in Nat
         /\ Cardinality(Bytes(streams, uncommitted)) \in Nat
    BY <1>8, BytesFinite
  <1>12. /\ ledger.tokens \in 0 .. Capacity /\ ledger.active \in Nat /\ ledger.leases \in Nat
         /\ ledger.active <= ActiveMax /\ ledger.leases <= LeaseMax
    BY <1>1 DEF Ledger, LedgerOK
  <1>13. /\ k \in 0 .. Capacity /\ a = Cardinality(Bytes(g, Clients))
         /\ b = Cardinality(Holders(g, Clients)) /\ a <= ActiveMax /\ b <= LeaseMax
         /\ a \in Nat /\ b \in Nat
    <2>1. k \in 0 .. Capacity
      BY <1>11, <1>12, NumberFacts DEF AtMost
    <2>2. a = Cardinality(Bytes(g, Clients)) /\ b = Cardinality(Holders(g, Clients))
      BY <1>1, <1>9, <1>10 DEF CountInv
    <2>3. a <= ActiveMax /\ b <= LeaseMax
      BY <1>11, <1>12, NumberFacts
    <2> QED
      BY <1>11, <2>1, <2>2, <2>3
  <1> HIDE DEF a, b, k
  <1>14. /\ ledger' \in Ledger /\ ledger'.active = a /\ ledger'.leases = b
         /\ ledger'.waiters = <<>>
    <2>1. ledger' = m
      BY <1>5
    <2>2. a \in Int /\ b \in Int /\ k \in 0 .. Capacity
      BY <1>13
    <2>3. m \in Ledger /\ m.active = a /\ m.leases = b /\ m.waiters = d.waiters
      BY <1>4, <2>2 DEF Ledger
    <2> HIDE DEF m
    <2> QED
      BY <1>4, <2>1, <2>3
  <1>15. SessionsInv'
    BY <1>5, <1>6, <1>7 DEF SessionsInv
  <1>16. QueueInv'
    <2>1. Unique(ledger.waiters)' /\ Range(ledger.waiters)' = {}
      BY <1>14, EmptyQueue DEF Unique, Range
    <2> QED
      BY <2>1 DEF QueueInv
  <1>17. CountInv'
    BY <1>5, <1>13, <1>14 DEF CountInv, Bytes, Holders
  <1>18. (ledger \in Ledger)' /\ LedgerOK(ledger)'
    BY <1>13, <1>14, NumberFacts DEF LedgerOK, Ledger
  <1>19. Inv'
    BY <1>5, <1>15, <1>16, <1>17, <1>18 DEF Inv
  <1> QED
    BY <1>5, <1>6, <1>19

\* A new snapshot makes nothing pending that was not.
LEMMA PublishStep ==
  ASSUME Inv, Publish
  PROVE  Inv'
  <1>1. /\ latest \in 1 .. MaxTick /\ latest' = latest + 1 /\ latest' \in 1 .. MaxTick
        /\ latest \in Nat /\ latest' \in Nat
    BY NumberFacts DEF Inv, Publish
  <1>2. ledger' = ledger /\ streams' = streams /\ bodies' = bodies
    BY DEF Publish
  <1>3. ASSUME NEW c \in Clients PROVE Sound(streams[c], latest')
    <2>1. Sound(streams[c], latest) /\ streams[c].pending \in Nat
      BY StreamType DEF Inv, SessionsInv, Sound
    <2>2. DeliveryInv(streams[c], latest')
      BY <1>1, <2>1 DEF Sound, DeliveryInv
    <2> QED
      BY <2>1, <2>2 DEF Sound
  <1>4. SessionsInv'
    BY <1>2, <1>3 DEF Inv, SessionsInv
  <1>5. QueueInv'
    BY <1>2 DEF Inv, QueueInv, Unique, Range, CanAsk, Leaving, control_write_active
  <1>6. CountInv'
    BY <1>2 DEF Inv, CountInv, Bytes, Holders
  <1>7. (ledger \in Ledger)' /\ LedgerOK(ledger)'
    BY <1>2 DEF Inv, LedgerOK, Ledger
  <1> QED
    BY <1>1, <1>2, <1>4, <1>5, <1>6, <1>7 DEF Inv

\* Bodies are of no concern to the invariant.
LEMMA BodyChangesStep ==
  ASSUME Inv, NEW c \in Players, BodyChanges(c)
  PROVE  Inv' /\ UNCHANGED <<ledger, streams, latest>>
  <1>1. ledger' = ledger /\ streams' = streams /\ latest' = latest /\ bodies' \subseteq Players
    BY DEF BodyChanges, Inv
  <1>2. SessionsInv'
    BY <1>1 DEF Inv, SessionsInv
  <1>3. QueueInv'
    BY <1>1 DEF Inv, QueueInv, Unique, Range, CanAsk, Leaving, control_write_active
  <1>4. CountInv'
    BY <1>1 DEF Inv, CountInv, Bytes, Holders
  <1>5. (ledger \in Ledger)' /\ LedgerOK(ledger)'
    BY <1>1 DEF Inv, LedgerOK, Ledger
  <1> QED
    BY <1>1, <1>2, <1>3, <1>4, <1>5 DEF Inv

\* The bucket refills up to its capacity.
LEMMA RefillStep ==
  ASSUME Inv, Refill
  PROVE  Inv' /\ UNCHANGED <<streams, latest, bodies>>
  <1> DEFINE k == AtMost(ledger.tokens + 1, Capacity)
             m == [ledger EXCEPT !.tokens = k]
  <1>1. ledger' = m /\ streams' = streams /\ latest' = latest /\ bodies' = bodies
    BY DEF Refill, refill
  <1>2. ledger \in Ledger /\ ledger.tokens \in 0 .. Capacity
    BY DEF Inv, Ledger
  <1>3. k \in 0 .. Capacity
    BY <1>2, NumberFacts DEF AtMost
  <1> HIDE DEF k
  <1>4. /\ m \in Ledger /\ m.active = ledger.active /\ m.leases = ledger.leases
        /\ m.waiters = ledger.waiters
    BY <1>2, <1>3 DEF Ledger
  <1> HIDE DEF m
  <1>5. SessionsInv'
    BY <1>1 DEF Inv, SessionsInv
  <1>6. QueueInv'
    BY <1>1, <1>4 DEF Inv, QueueInv, Unique, Range, CanAsk, Leaving, control_write_active
  <1>7. CountInv'
    BY <1>1, <1>4 DEF Inv, CountInv, Bytes, Holders
  <1>8. (ledger \in Ledger)' /\ LedgerOK(ledger)'
    BY <1>1, <1>4 DEF Inv, LedgerOK, Ledger
  <1> QED
    BY <1>1, <1>5, <1>6, <1>7, <1>8 DEF Inv

\* The invariant holds initially.
LEMMA InitInv ==
  ASSUME Init
  PROVE  Inv
  <1> DEFINE fresh(c) == [busy |-> {"accept"}, idle_wait |-> FALSE,
           waiting_for_pong |-> FALSE, welcoming |-> FALSE, welcomed |-> c \in Viewers,
           pending |-> 0, active |-> 0, delivered |-> 0, lease |-> NoLease,
           close_requested |-> FALSE, close_started |-> FALSE, finished |-> FALSE]
  <1>1. streams = [c \in Clients |-> fresh(c)] /\ latest = 1 /\ bodies = {} /\ ledger = NewLedger
    BY DEF Init
  <1>2. ASSUME NEW c \in Clients PROVE Sound(fresh(c), 1) /\ fresh(c).lease = NoLease
    <2>1. fresh(c) \in Stream
      BY NumberFacts, NoLeaseType DEF Stream, Operations, Lease
    <2>2. WriteInv(fresh(c)) /\ DeliveryInv(fresh(c), 1)
      BY DEF WriteInv, DeliveryInv
    <2>3. LeaseInv(fresh(c))
      BY DEF LeaseInv, OwnInv
    <2> QED
      BY <2>1, <2>2, <2>3 DEF Sound
  <1> HIDE DEF fresh
  <1>3. SessionsInv
    BY <1>1, <1>2 DEF SessionsInv, Sound
  <1>4. /\ NewLedger \in Ledger /\ NewLedger.active = 0 /\ NewLedger.leases = 0
        /\ NewLedger.waiters = <<>>
    BY NumberFacts, EmptyQueue DEF NewLedger, Ledger
  <1>5. ledger \in Ledger /\ LedgerOK(ledger)
    BY <1>1, <1>4, NumberFacts DEF LedgerOK
  <1>6. QueueInv
    BY <1>1, <1>4, EmptyQueue DEF QueueInv
  <1>7. CountInv
    <2>1. \A c \in Clients : streams[c].lease = NoLease
      BY <1>1, <1>2
    <2>2. Holders(streams, Clients) = {}
      BY <2>1 DEF Holders
    <2>3. Bytes(streams, Clients) = {}
      <3>1. \A b \in Clients \X (1 .. Reservation) : ~ (b[2] <= streams[b[1]].lease.owned)
        BY <2>1, NoLeaseType, NumberFacts
      <3> QED
        BY <3>1 DEF Bytes
    <2> QED
      BY <1>1, <1>4, <2>2, <2>3, FS_EmptySet DEF CountInv
  <1>8. latest \in 1 .. MaxTick
    BY <1>1, StreamsAssumption
  <1> QED
    BY <1>1, <1>3, <1>5, <1>6, <1>7, <1>8 DEF Inv

\* The invariant is inductive.
LEMMA NextInv ==
  ASSUME Inv, [Next]_vars
  PROVE  Inv'
  <1>1. ASSUME NEW c \in Clients, Handlers(c) PROVE Inv'
    BY <1>1, ReadyAll, HandlersStep, StepKeepsInv
  <1>2. ASSUME NEW c \in Players, BodyChanges(c) PROVE Inv'
    BY <1>2, BodyChangesStep
  <1>3. CASE UNCHANGED vars
    <2>1. ledger' = ledger /\ streams' = streams /\ latest' = latest /\ bodies' = bodies
      BY <1>3 DEF vars
    <2>2. SessionsInv'
      BY <2>1 DEF Inv, SessionsInv
    <2>3. QueueInv'
      BY <2>1 DEF Inv, QueueInv, Unique, Range, CanAsk, Leaving, control_write_active
    <2>4. CountInv'
      BY <2>1 DEF Inv, CountInv, Bytes, Holders
    <2>5. (ledger \in Ledger)' /\ LedgerOK(ledger)'
      BY <2>1 DEF Inv, LedgerOK, Ledger
    <2> QED
      BY <2>1, <2>2, <2>3, <2>4, <2>5 DEF Inv
  <1> QED
    BY <1>1, <1>2, <1>3, BeginStopStep, StopAtOnceStep, PublishStep, RefillStep DEF Next

\* The invariant implies what the runs check.
LEMMA InvIsSound ==
  ASSUME Inv
  PROVE  BudgetIsSound
  <1>1. TypeOK
    BY DEF Inv, SessionsInv, Ledger, LedgerOK, TypeOK
  <1>2. EgressIsConserved
    <2>1. OwnedBytes(Clients) = Bytes(streams, Clients) /\ Owners(Clients) = Holders(streams, Clients)
      BY DEF OwnedBytes, Bytes, Owners, Holders
    <2>2. \A c \in Clients :
             streams[c].finished /\ "write" \notin streams[c].busy => streams[c].lease = NoLease
      BY DEF Inv, SessionsInv, Sound, LeaseInv, OwnInv
    <2> QED
      BY <2>1, <2>2 DEF Inv, CountInv, EgressIsConserved
  <1>3. WaitersCanAsk
    <2>1. DOMAIN ledger.waiters = 1 .. Len(ledger.waiters)
      BY DEF Inv, Ledger
    <2> QED
      BY <2>1 DEF Inv, QueueInv, Unique, CanAsk, WaitersCanAsk
  <1> QED
    BY <1>1, <1>2, <1>3 DEF BudgetIsSound

\* The inductive invariant holds in every behaviour: sessions are sound, the
\* queue can move, and the ledger counts what the sessions hold.
THEOREM StreamsInvariant == Spec => []Inv
  <1>1. Init => Inv
    BY InitInv
  <1>2. Inv /\ [Next]_vars => Inv'
    BY NextInv
  <1> QED
    BY <1>1, <1>2, PTL DEF Spec

\* However many sessions share it, the egress budget
\* (snapshot_egress_budget.cpp) counts exactly the bytes and leases the
\* sessions hold, stays within its limits, and queues only sessions that can
\* still ask, each once; so release never finds too little.
THEOREM BudgetStaysSound == Spec => []BudgetIsSound
  <1>1. Inv => BudgetIsSound
    BY InvIsSound
  <1> QED
    BY <1>1, StreamsInvariant, PTL

---------------------------------------------------------------------------
(* The stream each peer is promised.                                       *)

\* What the peer sees is a step of SnapshotStream or a stutter.
LEMMA SeenIsStep ==
  ASSUME NEW c \in Clients, latest' = latest, Seen(streams[c], streams'[c], latest)
  PROVE  [Abstract(c)!Next]_(Abstract(c)!vars)
  <1> DEFINE s == streams[c]
             t == streams'[c]
  <1>1. /\ StreamPhase(streams[c])' = StreamPhase(t) /\ StreamWire(streams[c])' = StreamWire(t)
        /\ (streams[c].welcomed)' = t.welcomed /\ (streams[c].delivered)' = t.delivered
    BY DEF StreamPhase, StreamWire
  <1> HIDE DEF s, t
  <1>2. CASE Unseen(s, t)
    <2>1. UNCHANGED Abstract(c)!vars
      BY <1>1, <1>2 DEF Unseen, Told, Abstract!vars, s, t
    <2> QED
      BY <2>1
  <1>3. CASE Opens(s, t)
    <2>1. Abstract(c)!Open
      BY <1>1, <1>3 DEF Opens, Told, Abstract!Open, s, t
    <2> QED
      BY <2>1 DEF Abstract!Next
  <1>4. CASE Begins(s, t, latest)
    <2>1. Abstract(c)!Begin
      BY <1>1, <1>4 DEF Begins, Told, Abstract!Begin, Abstract!NoFrame, Abstract!Welcome, s, t
    <2> QED
      BY <2>1 DEF Abstract!Next
  <1>5. CASE Sends(s, t)
    <2>1. Abstract(c)!Sent
      BY <1>1, <1>5 DEF Sends, Abstract!Sent, Abstract!NoFrame, Abstract!Welcome,
                        Abstract!CloseFrame, s, t
    <2> QED
      BY <2>1 DEF Abstract!Next
  <1>6. CASE Closes(s, t)
    <2>1. Abstract(c)!Close
      BY <1>1, <1>6 DEF Closes, Told, Abstract!Close, Abstract!NoFrame, Abstract!CloseFrame, s, t
    <2> QED
      BY <2>1 DEF Abstract!Next
  <1>7. CASE SaysClose(s, t)
    <2>1. Abstract(c)!SayClose
      BY <1>1, <1>7 DEF SaysClose, Told, Abstract!SayClose, Abstract!NoFrame,
                        Abstract!CloseFrame, s, t
    <2> QED
      BY <2>1 DEF Abstract!Next
  <1>8. CASE IsOver(s, t)
    <2>1. Abstract(c)!End
      BY <1>1, <1>8 DEF IsOver, Told, Abstract!End, Abstract!NoFrame, s, t
    <2> QED
      BY <2>1 DEF Abstract!Next
  <1> QED
    BY <1>2, <1>3, <1>4, <1>5, <1>6, <1>7, <1>8 DEF Seen, s, t

\* A session that does not change shows its peer nothing.
LEMMA UnchangedIsStutter ==
  ASSUME NEW c \in Clients, latest' = latest, streams'[c] = streams[c]
  PROVE  [Abstract(c)!Next]_(Abstract(c)!vars)
  <1>1. Seen(streams[c], streams'[c], latest)
    BY DEF Seen, Unseen, Told
  <1> QED
    BY <1>1, SeenIsStep

\* Every step of the system is, for every connection, a step of its stream or a
\* stutter.
LEMMA NextImplements ==
  ASSUME Inv, [Next]_vars, NEW c \in Clients
  PROVE  [Abstract(c)!Next]_(Abstract(c)!vars)
  <1>1. ASSUME NEW d \in Clients, Handlers(d) PROVE [Abstract(c)!Next]_(Abstract(c)!vars)
    <2>1. /\ UNCHANGED <<latest, bodies>> /\ Seen(streams[d], streams'[d], latest)
          /\ \A e \in Clients \ {d} : streams'[e] = streams[e]
      BY <1>1, ReadyAll, HandlersStep, StepKeepsInv
    <2>2. CASE c = d
      BY <2>1, <2>2, SeenIsStep
    <2>3. CASE c # d
      BY <2>1, <2>3, UnchangedIsStutter
    <2> QED
      BY <2>2, <2>3
  <1>2. ASSUME NEW d \in Players, BodyChanges(d) PROVE [Abstract(c)!Next]_(Abstract(c)!vars)
    BY <1>2, UnchangedIsStutter DEF BodyChanges
  <1>3. CASE BeginStop
    BY <1>3, BeginStopStep, SeenIsStep
  <1>4. CASE StopAtOnce
    BY <1>4, StopAtOnceStep, SeenIsStep
  <1>5. CASE Publish
    <2>1. latest < MaxTick /\ latest' = latest + 1 /\ streams' = streams
      BY <1>5 DEF Publish
    <2>2. Abstract(c)!Publish
      BY <2>1 DEF Abstract!Publish, StreamPhase, StreamWire
    <2> QED
      BY <2>2 DEF Abstract!Next
  <1>6. CASE Refill
    BY <1>6, UnchangedIsStutter DEF Refill
  <1>7. CASE UNCHANGED vars
    BY <1>7, UnchangedIsStutter DEF vars
  <1> QED
    BY <1>1, <1>2, <1>3, <1>4, <1>5, <1>6, <1>7 DEF Next

\* Every connection begins as a stream does.
LEMMA InitImplements ==
  ASSUME Init, NEW c \in Clients
  PROVE  Abstract(c)!Init
  <1>1. /\ streams[c].busy = {"accept"} /\ streams[c].finished = FALSE
        /\ streams[c].close_requested = FALSE /\ streams[c].close_started = FALSE
        /\ streams[c].welcomed = (c \in Viewers) /\ streams[c].delivered = 0 /\ latest = 1
    BY DEF Init
  <1>2. StreamPhase(streams[c]) = "connecting" /\ StreamWire(streams[c]) = 0
    BY <1>1 DEF StreamPhase, StreamWire
  <1>3. streams[c].welcomed = ~ (c \in Players)
    BY <1>1, StreamsAssumption DEF Clients
  <1> QED
    BY <1>1, <1>2, <1>3 DEF Abstract!Init, Abstract!NoFrame

\* Every connection of the server, v1 or v3, implements the stream its peer is
\* promised, whatever the others do to the budget they share.
THEOREM EveryStreamIsImplemented == Spec => ImplementStreams
  <1>1. Init => \A c \in Clients : Abstract(c)!Init
    BY InitImplements
  <1>2. Inv /\ [Next]_vars => [\A c \in Clients : [Abstract(c)!Next]_(Abstract(c)!vars)]_vars
    BY NextImplements
  <1> QED
    BY <1>1, <1>2, StreamsInvariant, PTL DEF Spec, ImplementStreams
====
