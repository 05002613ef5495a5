---------------------------- MODULE PeerTraffic ----------------------------
(***************************************************************************)
(* The server's resource ledger: PeerTrafficPolicy                         *)
(* (src/src/server/peer_traffic_policy.cpp), as functions of the ledger.   *)
(*                                                                         *)
(* A peer is tracked while it holds a connection or has been active lately.*)
(* Every bound is charged to an accounting principal, which is the socket  *)
(* address or, behind a trusted proxy, the address it forwards; all        *)
(* loopback addresses are one principal, which the caller's Principals     *)
(* already reflect.  A lease is the caller's: it names its principal and   *)
(* closes it exactly once.                                                 *)
(*                                                                         *)
(* Whether a token bucket still holds a token is the caller's input        *)
(* ("paid"): how full a bucket is decides nothing else, and a peer may be  *)
(* at any level of it.                                                     *)
(***************************************************************************)
EXTENDS Integers, FiniteSets, FiniteSetsExt, Functions

CONSTANTS
    MaxTcp,            \* kConcurrentTcpConnectionMaximumCount
    MaxWs,             \* kConcurrentWebSocketMaximumCount
    MaxWsPerPeer,      \* kConcurrentWebSocketPerPeerMaximumCount
    MaxPeers,          \* kTrackedPeerMaximumCount
    IdleRetention      \* kPeerRateStateIdleRetention

ASSUME PeerTrafficAssumption ==
    /\ {MaxTcp, MaxWs, MaxWsPerPeer, MaxPeers} \subseteq Nat \ {0}
    /\ IdleRetention \in Nat \ {0}

\* The ledger before any traffic; [peers |-> principal -> PeerState, and the
\* two global counts].
EmptyLedger == [peers |-> << >>, tcp |-> 0, ws |-> 0]

NewPeerState(now) == [tcp |-> 0, ws |-> 0, last |-> now]

Tracked(ledger) == DOMAIN ledger.peers
Idle(peer) == peer.tcp = 0 /\ peer.ws = 0

\* The ledger with another state of one principal.
WithPeer(ledger, p, state) == [ledger EXCEPT !.peers = [@ EXCEPT ![p] = state]]

prune_idle(ledger, now) ==
    [ledger EXCEPT !.peers = Restrict(@,
        {p \in DOMAIN @ : ~ (Idle(@[p]) /\ now - @[p].last >= IdleRetention)})]

\* Mutant of oldest_inactive_peer: the oldest goes, inactive or not.
OldestPeer(ledger) ==
    LET P == Tracked(ledger) IN
    {p \in P : \A q \in P : ledger.peers[p].last <= ledger.peers[q].last}

\* The inactive peers of the oldest activity.  Among equals the source takes
\* the least name; here any of them.
oldest_inactive_peer(ledger) ==
    LET Inactive == {p \in Tracked(ledger) : Idle(ledger.peers[p])} IN
    {p \in Inactive : \A q \in Inactive : ledger.peers[p].last <= ledger.peers[q].last}

\* The ledger in which the principal is tracked, or the ledger unchanged when
\* the table is full of connected peers.
find_or_admit_peer(ledger, p, now) ==
    LET Victims == oldest_inactive_peer(ledger)
        IsFull == Cardinality(Tracked(ledger)) >= MaxPeers
        Kept == IF ~ IsFull THEN Tracked(ledger)
                ELSE Tracked(ledger) \ {CHOOSE v \in Victims : TRUE}
        Admit(S) == [ledger EXCEPT !.peers =
                        [q \in S \cup {p} |-> IF q \in S THEN @[q] ELSE NewPeerState(now)]] IN
    CASE p \in Tracked(ledger) -> WithPeer(ledger, p, [ledger.peers[p] EXCEPT !.last = now])
      [] p \notin Tracked(ledger) /\ IsFull /\ Victims = {} ->
            ledger
      [] OTHER -> Admit(Kept)

Denied(ledger) == [allowed |-> FALSE, ledger |-> ledger]
Granted(ledger) == [allowed |-> TRUE, ledger |-> ledger]

\* Each reservation and charge first forgets idle peers, then finds or admits
\* the principal.
reserve_tcp_connection(ledger, p, now) ==
    LET pruned == prune_idle(ledger, now)
        found == find_or_admit_peer(pruned, p, now) IN
    CASE pruned.tcp >= MaxTcp -> Denied(pruned)
      [] pruned.tcp < MaxTcp /\ p \notin Tracked(found) -> Denied(found)
      [] OTHER -> Granted([WithPeer(found, p, [found.peers[p] EXCEPT !.tcp = @ + 1])
                            EXCEPT !.tcp = @ + 1])

close_tcp_connection(ledger, p, now) ==
    IF p \notin Tracked(ledger) THEN ledger
    ELSE IF ledger.peers[p].tcp > 0
         THEN [WithPeer(ledger, p, [tcp |-> ledger.peers[p].tcp - 1,
                                    ws |-> ledger.peers[p].ws, last |-> now])
               EXCEPT !.tcp = @ - 1]
         ELSE WithPeer(ledger, p, [ledger.peers[p] EXCEPT !.last = now])

\* consume_http_request and consume_websocket_upgrade, of their own buckets.
consume_http_request(ledger, p, paid, now) ==
    LET found == find_or_admit_peer(prune_idle(ledger, now), p, now) IN
    IF paid /\ p \in Tracked(found) THEN Granted(found) ELSE Denied(found)

consume_websocket_upgrade(ledger, p, paid, now) ==
    LET found == find_or_admit_peer(prune_idle(ledger, now), p, now) IN
    IF paid /\ p \in Tracked(found) THEN Granted(found) ELSE Denied(found)

reserve_websocket(ledger, p, now) ==
    LET found == find_or_admit_peer(prune_idle(ledger, now), p, now) IN
    IF p \notin Tracked(found) \/ found.ws >= MaxWs THEN Denied(found)
    ELSE IF found.peers[p].ws >= MaxWsPerPeer THEN Denied(found)
         ELSE Granted([WithPeer(found, p, [found.peers[p] EXCEPT !.ws = @ + 1])
                       EXCEPT !.ws = @ + 1])

close_websocket(ledger, p, now) ==
    IF p \notin Tracked(ledger) THEN ledger
    ELSE IF ledger.peers[p].ws > 0
         THEN [WithPeer(ledger, p, [tcp |-> ledger.peers[p].tcp,
                                    ws |-> ledger.peers[p].ws - 1, last |-> now])
               EXCEPT !.ws = @ - 1]
         ELSE WithPeer(ledger, p, [ledger.peers[p] EXCEPT !.last = now])
====
