-------------------------- MODULE SnapshotEgress --------------------------
(***************************************************************************)
(* SnapshotEgressBudget (src/src/server/snapshot_egress_budget.cpp): the   *)
(* token bucket, the count of owned bytes and the first-come queue that    *)
(* admit the snapshot writes of all connections.  Its ledger is a record   *)
(* and its member functions are functions of it.  Time is left out of      *)
(* refill: it adds one unit, and what the bucket gains between two         *)
(* admissions is as many of those as the caller likes.                     *)
(***************************************************************************)
EXTENDS Integers, Sequences, SequencesExt

CONSTANTS
    Reservation,   \* kSnapshotEgressReservationByteCount
    Capacity,      \* kSnapshotEgressTokenBucketCapacityByteCount
    ActiveMax,     \* kSnapshotEgressActiveMaximumByteCount
    LeaseMax       \* kConcurrentWebSocketMaximumCount, and the waiters' places

ASSUME EgressAssumption ==
    /\ Reservation \in Nat \ {0} /\ Capacity \in Nat /\ ActiveMax \in Nat
    /\ LeaseMax \in Nat \ {0}
    /\ Reservation <= Capacity /\ Reservation <= ActiveMax

\* A full bucket, and nothing owned or waited for.
NewLedger == [tokens |-> Capacity, active |-> 0, leases |-> 0, waiters |-> <<>>]

\* An empty lease: budget_ is null.
NoLease == [owned |-> 0, committed |-> FALSE]

AtMost(n, m) == IF n <= m THEN n ELSE m

refill(l) == [l EXCEPT !.tokens = AtMost(@ + 1, Capacity)]

Waits(l, c) == c \in Range(l.waiters)

\* A waiter keeps its place.  The throw at a full queue is not a case: there
\* are as many places as sessions, and none waits twice.
enqueue_waiter(l, c) == IF Waits(l, c) THEN l ELSE [l EXCEPT !.waiters = Append(@, c)]

\* The first place that c has is given up.
FirstPlace(q, c) == CHOOSE i \in 1 .. Len(q) : q[i] = c /\ \A j \in 1 .. i - 1 : q[j] # c
Without(q, c) ==
    IF \A i \in 1 .. Len(q) : q[i] # c THEN q ELSE RemoveAt(q, FirstPlace(q, c))
cancel_waiter(l, c) == [l EXCEPT !.waiters = Without(@, c)]

\* cancel_waiter of every session of S, one after the other.
cancel_waiters(l, S) ==
    [l EXCEPT !.waiters = IF Range(@) \subseteq S THEN <<>>
                          ELSE SelectSeq(@, LAMBDA w : w \notin S)]

\* Only the head of the queue is looked at: whoever else asks joins it.
Admits(l, c) ==
    /\ l.waiters = <<>> \/ Head(l.waiters) = c
    /\ l.tokens >= Reservation
    /\ l.active <= ActiveMax - Reservation
    /\ l.leases < LeaseMax

\* Mutant of reserve: the head is granted and stays at the head.
ReserveKeepsPlace(l, c) ==
    [l EXCEPT !.tokens = @ - Reservation, !.active = @ + Reservation, !.leases = @ + 1]

\* The granting half of try_reserve; the lease it returns owns Reservation.
reserve(l, c) ==
    [cancel_waiter(l, c) EXCEPT
        !.tokens = @ - Reservation, !.active = @ + Reservation, !.leases = @ + 1]

\* What the encoding did not need goes back to the bucket at once.
commit_encoding(l, encoded) ==
    [l EXCEPT !.active = @ - (Reservation - encoded),
              !.tokens = AtMost(@ + (Reservation - encoded), Capacity)]

\* Mutant of release: the bytes stay owned.
ReleaseForgetsBytes(l, lease) ==
    IF lease = NoLease THEN l ELSE [l EXCEPT !.leases = @ - 1]

\* A lease that was never committed gives its tokens back as well.
release(l, lease) ==
    IF lease = NoLease THEN l
    ELSE [l EXCEPT !.active = @ - lease.owned, !.leases = @ - 1,
                   !.tokens = IF lease.committed THEN @
                              ELSE AtMost(@ + lease.owned, Capacity)]
====
