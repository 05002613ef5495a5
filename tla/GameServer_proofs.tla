------------------------- MODULE GameServer_proofs -------------------------
(***************************************************************************)
(* Proofs about GameServer: connections, leases and the ledger are in      *)
(* accord in every reachable state, for any number of connections, sockets *)
(* and requests and any limits.                                            *)
(*                                                                         *)
(* The argument has three layers.  PeerTraffic's functions count one slot  *)
(* more, one less or the same, whatever they prune, evict or admit         *)
(* (SameSlots, OneMore..., OneLess...), and the router grants a slot       *)
(* exactly with an upgrade (RouteOutcome).  A count for each principal is  *)
(* the cardinality of its holders (Counted), so that the accounts stay     *)
(* right when a holder comes, goes or moves (Accounts).  And every member  *)
(* function of a connection keeps it Sound, keeps it Alive while the       *)
(* server is not stopping, and takes no lease that its handler was not     *)
(* granted (NoNewLease).  IInv puts the three together.                    *)
(***************************************************************************)
EXTENDS GameServer, FiniteSetTheorems, TLAPS

---------------------------------------------------------------------------
(* The ledger.                                                             *)

\* What the ledger keeps of a principal.
PeerState == [tcp : Nat, ws : Nat, last : Nat]

\* A ledger whose numbers are natural.
Shaped(l) ==
    /\ l = [peers |-> l.peers, tcp |-> l.tcp, ws |-> l.ws]
    /\ l.peers \in [DOMAIN l.peers -> PeerState]
    /\ l.tcp \in Nat /\ l.ws \in Nat

\* m counts what l counts: peers that hold nothing may come and go.
SameSlots(l, m) ==
    /\ Shaped(m)
    /\ m.tcp = l.tcp /\ m.ws = l.ws
    /\ \A p \in Tracked(l) \cap Tracked(m) :
          m.peers[p].tcp = l.peers[p].tcp /\ m.peers[p].ws = l.peers[p].ws
    /\ \A p \in Tracked(l) \ Tracked(m) : Idle(l.peers[p])
    /\ \A p \in Tracked(m) \ Tracked(l) : Idle(m.peers[p])

\* n is m with one TCP slot more for p.
OneMoreTcp(m, n, p) ==
    /\ Shaped(n) /\ Tracked(n) = Tracked(m) /\ p \in Tracked(m)
    /\ n.tcp = m.tcp + 1 /\ n.ws = m.ws
    /\ \A q \in Tracked(m) :
          /\ n.peers[q].ws = m.peers[q].ws
          /\ n.peers[q].tcp = IF q = p THEN m.peers[q].tcp + 1 ELSE m.peers[q].tcp

\* n is m with one WebSocket slot more for p.
OneMoreWs(m, n, p) ==
    /\ Shaped(n) /\ Tracked(n) = Tracked(m) /\ p \in Tracked(m)
    /\ n.tcp = m.tcp /\ n.ws = m.ws + 1
    /\ \A q \in Tracked(m) :
          /\ n.peers[q].tcp = m.peers[q].tcp
          /\ n.peers[q].ws = IF q = p THEN m.peers[q].ws + 1 ELSE m.peers[q].ws

\* A ledger counts what it counts.
LEMMA SamePeers ==
    ASSUME NEW l, Shaped(l)
    PROVE  SameSlots(l, l)
BY DEF SameSlots

\* Counting the same is transitive.
LEMMA SameSlotsChain ==
    ASSUME NEW l, NEW m, NEW n, SameSlots(l, m), SameSlots(m, n)
    PROVE  SameSlots(l, n)
BY DEF SameSlots, Idle

\* WithPeer replaces one principal and nothing else.
LEMMA WithPeerFields ==
    ASSUME NEW l, Shaped(l), NEW p \in Tracked(l), NEW s \in PeerState
    PROVE  /\ Shaped(WithPeer(l, p, s))
           /\ Tracked(WithPeer(l, p, s)) = Tracked(l)
           /\ WithPeer(l, p, s).tcp = l.tcp /\ WithPeer(l, p, s).ws = l.ws
           /\ \A q \in Tracked(l) :
                 WithPeer(l, p, s).peers[q] = IF q = p THEN s ELSE l.peers[q]
<1> DEFINE P == [l.peers EXCEPT ![p] = s]
<1>1. WithPeer(l, p, s) = [peers |-> P, tcp |-> l.tcp, ws |-> l.ws]
  BY DEF WithPeer, Shaped
<1>2. /\ P \in [DOMAIN l.peers -> PeerState]
      /\ DOMAIN P = DOMAIN l.peers
      /\ \A q \in DOMAIN l.peers : P[q] = IF q = p THEN s ELSE l.peers[q]
  BY DEF Shaped, Tracked
<1> HIDE DEF P
<1> QED BY <1>1, <1>2 DEF Shaped, Tracked

\* A tracked principal has natural counts.
LEMMA PeerFields ==
    ASSUME NEW l, Shaped(l), NEW p \in Tracked(l)
    PROVE  /\ l.peers[p] \in PeerState
           /\ l.peers[p].tcp \in Nat /\ l.peers[p].ws \in Nat /\ l.peers[p].last \in Nat
BY DEF Shaped, Tracked, PeerState

\* prune_idle forgets only peers that hold nothing.
LEMMA PruneKeepsSlots ==
    ASSUME NEW l, Shaped(l), NEW now
    PROVE  SameSlots(l, prune_idle(l, now))
<1> DEFINE K == {p \in DOMAIN l.peers : ~ (Idle(l.peers[p]) /\ now - l.peers[p].last >= IdleRetention)}
           P == [p \in K |-> l.peers[p]]
<1>1. prune_idle(l, now) = [peers |-> P, tcp |-> l.tcp, ws |-> l.ws]
  BY DEF prune_idle, Shaped, Restrict
<1>2. /\ P \in [K -> PeerState] /\ DOMAIN P = K
      /\ \A p \in K : P[p] = l.peers[p]
      /\ K \subseteq DOMAIN l.peers
      /\ \A p \in DOMAIN l.peers \ K : Idle(l.peers[p])
  BY DEF Shaped
<1> HIDE DEF K, P
<1>3. Shaped(prune_idle(l, now)) /\ Tracked(prune_idle(l, now)) = K
  BY <1>1, <1>2 DEF Shaped, Tracked
<1> QED BY <1>1, <1>2, <1>3 DEF SameSlots, Tracked

\* find_or_admit_peer evicts and admits only peers that hold nothing.
LEMMA AdmissionKeepsSlots ==
    ASSUME NEW l, Shaped(l), NEW p, NEW now \in Nat
    PROVE  SameSlots(l, find_or_admit_peer(l, p, now))
<1> DEFINE found == find_or_admit_peer(l, p, now)
           Victims == oldest_inactive_peer(l)
           v == CHOOSE x \in Victims : TRUE
           IsFull == Cardinality(Tracked(l)) >= MaxPeers
           Kept == IF ~ IsFull THEN Tracked(l) ELSE Tracked(l) \ {v}
           P == [q \in Kept \cup {p} |-> IF q \in Kept THEN l.peers[q] ELSE NewPeerState(now)]
<1>1. CASE p \in Tracked(l)
  <2> DEFINE s == [l.peers[p] EXCEPT !.last = now]
  <2>1. /\ s \in PeerState /\ s.tcp = l.peers[p].tcp /\ s.ws = l.peers[p].ws
    BY <1>1, PeerFields DEF PeerState
  <2>2. found = WithPeer(l, p, s)
    BY <1>1 DEF find_or_admit_peer
  <2> HIDE DEF s, found
  <2>3. SameSlots(l, found)
    BY <1>1, <2>1, <2>2, WithPeerFields DEF SameSlots
  <2> QED BY <2>3 DEF found
<1>2. CASE p \notin Tracked(l) /\ IsFull /\ Victims = {}
  <2>1. found = l
    BY <1>2 DEF find_or_admit_peer
  <2> QED BY <2>1, SamePeers
<1>3. CASE p \notin Tracked(l) /\ ~ (IsFull /\ Victims = {})
  <2>1. found = [peers |-> P, tcp |-> l.tcp, ws |-> l.ws]
    <3>1. found = [l EXCEPT !.peers = P]
      BY <1>3 DEF find_or_admit_peer
    <3> HIDE DEF P, found
    <3> QED BY <3>1 DEF Shaped
  <2>2. Kept \subseteq Tracked(l) /\ \A q \in Tracked(l) \ Kept : Idle(l.peers[q])
    <3>1. Kept \subseteq Tracked(l)
      OBVIOUS
    <3>2. \A x \in Victims : x \in Tracked(l) /\ Idle(l.peers[x])
      BY DEF oldest_inactive_peer
    <3>3. ASSUME NEW q \in Tracked(l) \ Kept
          PROVE  Idle(l.peers[q])
      <4>1. IsFull /\ q = v
        BY <3>3
      <4>2. CASE Victims # {}
        <5>1. v \in Victims
          BY <4>2
        <5> QED BY <3>2, <4>1, <5>1
      <4>3. CASE Victims = {}
        BY <1>3, <4>1, <4>3
      <4> QED BY <4>2, <4>3
    <3> QED BY <3>1, <3>3
  <2>3. NewPeerState(now) \in PeerState /\ Idle(NewPeerState(now))
    BY DEF NewPeerState, PeerState, Idle
  <2>4. \A q \in Kept : l.peers[q] \in PeerState
    BY <2>2, PeerFields
  <2>5. /\ P \in [Kept \cup {p} -> PeerState] /\ DOMAIN P = Kept \cup {p}
        /\ \A q \in Kept : P[q] = l.peers[q]
        /\ P[p] = NewPeerState(now)
    <3>1. p \notin Kept
      BY <1>3, <2>2
    <3> HIDE DEF Kept
    <3> QED BY <2>3, <2>4, <3>1
  <2> HIDE DEF P, Kept, found
  <2>6. Shaped(found) /\ Tracked(found) = Kept \cup {p}
    BY <2>1, <2>5 DEF Shaped, Tracked
  <2>7. SameSlots(l, found)
    BY <1>3, <2>1, <2>2, <2>3, <2>5, <2>6 DEF SameSlots, Tracked
  <2> QED BY <2>7 DEF found
<1> QED BY <1>1, <1>2, <1>3

\* Charging a request or an upgrade, paid or not, counts no slot.
LEMMA ChargeKeepsSlots ==
    ASSUME NEW l, Shaped(l), NEW p, NEW now \in Nat, NEW paid
    PROVE  /\ SameSlots(l, consume_http_request(l, p, paid, now).ledger)
           /\ SameSlots(l, consume_websocket_upgrade(l, p, paid, now).ledger)
<1> DEFINE pruned == prune_idle(l, now)
           found == find_or_admit_peer(pruned, p, now)
<1>1. SameSlots(l, pruned)
  BY PruneKeepsSlots
<1>2. SameSlots(pruned, found)
  BY <1>1, AdmissionKeepsSlots DEF SameSlots
<1>3. SameSlots(l, found)
  BY <1>1, <1>2, SameSlotsChain
<1>4. /\ consume_http_request(l, p, paid, now).ledger = found
      /\ consume_websocket_upgrade(l, p, paid, now).ledger = found
  BY DEF consume_http_request, consume_websocket_upgrade, Granted, Denied
<1> QED BY <1>3, <1>4

\* One slot more for a tracked principal.
LEMMA SlotGranted ==
    ASSUME NEW m, Shaped(m), NEW p \in Tracked(m)
    PROVE  /\ OneMoreTcp(m, [WithPeer(m, p, [m.peers[p] EXCEPT !.tcp = @ + 1])
                                EXCEPT !.tcp = @ + 1], p)
           /\ OneMoreWs(m, [WithPeer(m, p, [m.peers[p] EXCEPT !.ws = @ + 1])
                               EXCEPT !.ws = @ + 1], p)
<1>0. m.peers[p] \in PeerState /\ m.peers[p].tcp \in Nat /\ m.peers[p].ws \in Nat
  BY PeerFields
<1>1. ASSUME NEW n, NEW w, Shaped(w), n = [w EXCEPT !.tcp = @ + 1]
      PROVE  Shaped(n) /\ n.peers = w.peers /\ n.tcp = w.tcp + 1 /\ n.ws = w.ws
  <2>1. n = [peers |-> w.peers, tcp |-> w.tcp + 1, ws |-> w.ws]
    BY <1>1 DEF Shaped
  <2> QED BY <1>1, <2>1 DEF Shaped
<1>2. ASSUME NEW n, NEW w, Shaped(w), n = [w EXCEPT !.ws = @ + 1]
      PROVE  Shaped(n) /\ n.peers = w.peers /\ n.ws = w.ws + 1 /\ n.tcp = w.tcp
  <2>1. n = [peers |-> w.peers, tcp |-> w.tcp, ws |-> w.ws + 1]
    BY <1>2 DEF Shaped
  <2> QED BY <1>2, <2>1 DEF Shaped
<1> DEFINE s == [m.peers[p] EXCEPT !.tcp = @ + 1]
           t == [m.peers[p] EXCEPT !.ws = @ + 1]
<1>3. /\ s \in PeerState /\ s.tcp = m.peers[p].tcp + 1 /\ s.ws = m.peers[p].ws
      /\ t \in PeerState /\ t.ws = m.peers[p].ws + 1 /\ t.tcp = m.peers[p].tcp
  BY <1>0 DEF PeerState
<1> HIDE DEF s, t
<1> DEFINE a == WithPeer(m, p, s)
           b == WithPeer(m, p, t)
           na == [a EXCEPT !.tcp = @ + 1]
           nb == [b EXCEPT !.ws = @ + 1]
<1>4. /\ Shaped(a) /\ Tracked(a) = Tracked(m) /\ a.tcp = m.tcp /\ a.ws = m.ws
      /\ \A q \in Tracked(m) : a.peers[q] = IF q = p THEN s ELSE m.peers[q]
  BY <1>3, WithPeerFields
<1>5. /\ Shaped(b) /\ Tracked(b) = Tracked(m) /\ b.tcp = m.tcp /\ b.ws = m.ws
      /\ \A q \in Tracked(m) : b.peers[q] = IF q = p THEN t ELSE m.peers[q]
  BY <1>3, WithPeerFields
<1> HIDE DEF a, b
<1>6. Shaped(na) /\ na.peers = a.peers /\ na.tcp = a.tcp + 1 /\ na.ws = a.ws
  BY <1>1, <1>4
<1>7. Shaped(nb) /\ nb.peers = b.peers /\ nb.ws = b.ws + 1 /\ nb.tcp = b.tcp
  BY <1>2, <1>5
<1> HIDE DEF na, nb
<1>8. OneMoreTcp(m, na, p)
  BY <1>3, <1>4, <1>6 DEF OneMoreTcp, Tracked
<1>9. OneMoreWs(m, nb, p)
  BY <1>3, <1>5, <1>7 DEF OneMoreWs, Tracked
<1> QED BY <1>8, <1>9 DEF na, nb, a, b, s, t

\* A slot given back by a tracked principal that holds one.
OneLessTcp(m, n, p) ==
    /\ Shaped(n) /\ Tracked(n) = Tracked(m)
    /\ n.tcp = m.tcp - 1 /\ n.ws = m.ws
    /\ \A q \in Tracked(m) :
          /\ n.peers[q].ws = m.peers[q].ws
          /\ n.peers[q].tcp = IF q = p THEN m.peers[q].tcp - 1 ELSE m.peers[q].tcp

\* A WebSocket slot given back likewise.
OneLessWs(m, n, p) ==
    /\ Shaped(n) /\ Tracked(n) = Tracked(m)
    /\ n.tcp = m.tcp /\ n.ws = m.ws - 1
    /\ \A q \in Tracked(m) :
          /\ n.peers[q].tcp = m.peers[q].tcp
          /\ n.peers[q].ws = IF q = p THEN m.peers[q].ws - 1 ELSE m.peers[q].ws

\* close_tcp_connection of a principal that holds one.
LEMMA TcpClosed ==
    ASSUME NEW m, Shaped(m), NEW p \in Tracked(m), m.peers[p].tcp > 0, m.tcp > 0,
           NEW now \in Nat
    PROVE  OneLessTcp(m, close_tcp_connection(m, p, now), p)
<1>0. m.peers[p] \in PeerState /\ m.peers[p].tcp \in Nat /\ m.tcp \in Nat
  BY PeerFields DEF Shaped
<1> DEFINE s == [tcp |-> m.peers[p].tcp - 1, ws |-> m.peers[p].ws, last |-> now]
           w == WithPeer(m, p, s)
           n == [w EXCEPT !.tcp = @ - 1]
<1>1. s \in PeerState /\ s.tcp = m.peers[p].tcp - 1 /\ s.ws = m.peers[p].ws
  BY <1>0 DEF PeerState
<1>2. close_tcp_connection(m, p, now) = n
  BY DEF close_tcp_connection
<1> HIDE DEF s
<1>3. /\ Shaped(w) /\ Tracked(w) = Tracked(m) /\ w.tcp = m.tcp /\ w.ws = m.ws
      /\ \A q \in Tracked(m) : w.peers[q] = IF q = p THEN s ELSE m.peers[q]
  BY <1>1, WithPeerFields
<1> HIDE DEF w
<1>4. n = [peers |-> w.peers, tcp |-> w.tcp - 1, ws |-> w.ws]
  BY <1>3 DEF Shaped
<1> HIDE DEF n
<1> QED BY <1>0, <1>1, <1>2, <1>3, <1>4 DEF OneLessTcp, Shaped, Tracked

\* close_websocket of a principal that holds one.
LEMMA WsClosed ==
    ASSUME NEW m, Shaped(m), NEW p \in Tracked(m), m.peers[p].ws > 0, m.ws > 0,
           NEW now \in Nat
    PROVE  OneLessWs(m, close_websocket(m, p, now), p)
<1>0. m.peers[p] \in PeerState /\ m.peers[p].ws \in Nat /\ m.ws \in Nat
  BY PeerFields DEF Shaped
<1> DEFINE s == [tcp |-> m.peers[p].tcp, ws |-> m.peers[p].ws - 1, last |-> now]
           w == WithPeer(m, p, s)
           n == [w EXCEPT !.ws = @ - 1]
<1>1. s \in PeerState /\ s.ws = m.peers[p].ws - 1 /\ s.tcp = m.peers[p].tcp
  BY <1>0 DEF PeerState
<1>2. close_websocket(m, p, now) = n
  BY DEF close_websocket
<1> HIDE DEF s
<1>3. /\ Shaped(w) /\ Tracked(w) = Tracked(m) /\ w.tcp = m.tcp /\ w.ws = m.ws
      /\ \A q \in Tracked(m) : w.peers[q] = IF q = p THEN s ELSE m.peers[q]
  BY <1>1, WithPeerFields
<1> HIDE DEF w
<1>4. n = [peers |-> w.peers, tcp |-> w.tcp, ws |-> w.ws - 1]
  BY <1>3 DEF Shaped
<1> HIDE DEF n
<1> QED BY <1>0, <1>1, <1>2, <1>3, <1>4 DEF OneLessWs, Shaped, Tracked

\* reserve_tcp_connection counts one slot exactly when it allows one.
LEMMA TcpReserved ==
    ASSUME NEW l, Shaped(l), NEW p, NEW now \in Nat
    PROVE  LET r == reserve_tcp_connection(l, p, now)
           IN  \/ ~ r.allowed /\ SameSlots(l, r.ledger)
               \/ r.allowed /\ \E m : SameSlots(l, m) /\ OneMoreTcp(m, r.ledger, p)
<1> DEFINE pruned == prune_idle(l, now)
           found == find_or_admit_peer(pruned, p, now)
           more == [WithPeer(found, p, [found.peers[p] EXCEPT !.tcp = @ + 1])
                      EXCEPT !.tcp = @ + 1]
           r == reserve_tcp_connection(l, p, now)
<1>1. SameSlots(l, pruned)
  BY PruneKeepsSlots
<1>2. SameSlots(pruned, found)
  BY <1>1, AdmissionKeepsSlots DEF SameSlots
<1>3. SameSlots(l, found)
  BY <1>1, <1>2, SameSlotsChain
<1>4. pruned.tcp \in Nat /\ MaxTcp \in Nat
  BY <1>1, PeerTrafficAssumption DEF SameSlots, Shaped
<1>5. CASE pruned.tcp >= MaxTcp
  <2>1. r = Denied(pruned)
    BY <1>4, <1>5 DEF reserve_tcp_connection
  <2> QED BY <1>1, <2>1 DEF Denied
<1>6. CASE pruned.tcp < MaxTcp /\ p \notin Tracked(found)
  <2>1. r = Denied(found)
    BY <1>4, <1>6 DEF reserve_tcp_connection
  <2> QED BY <1>3, <2>1 DEF Denied
<1>7. CASE pruned.tcp < MaxTcp /\ p \in Tracked(found)
  <2>1. r = Granted(more)
    BY <1>4, <1>7 DEF reserve_tcp_connection
  <2>2. OneMoreTcp(found, more, p)
    BY <1>3, <1>7, SlotGranted DEF SameSlots
  <2> QED BY <1>3, <2>1, <2>2 DEF Granted
<1> QED BY <1>4, <1>5, <1>6, <1>7

\* reserve_websocket counts one slot exactly when it allows one.
LEMMA WsReserved ==
    ASSUME NEW l, Shaped(l), NEW p, NEW now \in Nat
    PROVE  LET r == reserve_websocket(l, p, now)
           IN  \/ ~ r.allowed /\ SameSlots(l, r.ledger)
               \/ r.allowed /\ \E m : SameSlots(l, m) /\ OneMoreWs(m, r.ledger, p)
<1> DEFINE pruned == prune_idle(l, now)
           found == find_or_admit_peer(pruned, p, now)
           more == [WithPeer(found, p, [found.peers[p] EXCEPT !.ws = @ + 1])
                      EXCEPT !.ws = @ + 1]
           r == reserve_websocket(l, p, now)
<1>1. SameSlots(l, pruned)
  BY PruneKeepsSlots
<1>2. SameSlots(pruned, found)
  BY <1>1, AdmissionKeepsSlots DEF SameSlots
<1>3. SameSlots(l, found)
  BY <1>1, <1>2, SameSlotsChain
<1>4. r = Denied(found) \/ (r = Granted(more) /\ p \in Tracked(found))
  BY DEF reserve_websocket
<1>5. p \in Tracked(found) => OneMoreWs(found, more, p)
  BY <1>3, SlotGranted DEF SameSlots
<1>6. Denied(found).ledger = found /\ ~ Denied(found).allowed
      /\ Granted(more).ledger = more /\ Granted(more).allowed
  BY DEF Granted, Denied
<1> HIDE DEF r, found, more
<1>7. \/ ~ r.allowed /\ SameSlots(l, r.ledger)
      \/ r.allowed /\ \E m : SameSlots(l, m) /\ OneMoreWs(m, r.ledger, p)
  BY <1>3, <1>4, <1>5, <1>6
<1> QED BY <1>7 DEF r

\* What route() says and does to the ledger: it grants a WebSocket slot
\* exactly when it answers with an upgrade.
RouteOutcome(l, r, request, socket) ==
    \/ /\ r.disposition \in {"close", "response"} /\ r.keep_alive \in BOOLEAN
       /\ r.principal = "none"
       /\ SameSlots(l, r.ledger)
    \/ /\ r.disposition = "upgrade" /\ r.keep_alive = TRUE
       /\ r.principal \in {socket, request.forwarded}
       /\ r.code \in UpgradeTargets
       /\ \E m : SameSlots(l, m) /\ OneMoreWs(m, r.ledger, r.principal)

\* An answer grants nothing.
LEMMA AnswerOutcome ==
    ASSUME NEW l, NEW m, SameSlots(l, m), NEW request, request.keep_alive \in BOOLEAN,
           NEW code, NEW socket
    PROVE  RouteOutcome(l, Answer(code, request, m), request, socket)
BY DEF Answer, RouteOutcome

\* The checks of an upgrade grant a slot exactly with the upgrade.
LEMMA UpgradeOutcome ==
    ASSUME NEW l, NEW c, SameSlots(l, c), NEW request, request.keep_alive \in BOOLEAN,
           request.target \in UpgradeTargets, NEW socket, NEW room, NEW paid,
           NEW now \in Nat
    PROVE  RouteOutcome(l, RouteUpgrade(request, socket, derive_peer_identity(request, socket),
                                        room, c, paid, now), request, socket)
<1> DEFINE identity == derive_peer_identity(request, socket)
           charged == consume_websocket_upgrade(c, identity.principal, paid, now)
           reserved == reserve_websocket(charged.ledger, identity.principal, now)
           r == RouteUpgrade(request, socket, identity, room, c, paid, now)
<1>1. identity.principal \in {socket, request.forwarded}
  BY DEF derive_peer_identity
<1> HIDE DEF identity
<1>2. SameSlots(c, charged.ledger)
  <2>1. Shaped(c)
    BY DEF SameSlots
  <2> QED BY <2>1, ChargeKeepsSlots
<1>3. SameSlots(l, charged.ledger) /\ Shaped(charged.ledger)
  BY <1>2, SameSlotsChain DEF SameSlots
<1>4. \/ ~ reserved.allowed /\ SameSlots(charged.ledger, reserved.ledger)
      \/ /\ reserved.allowed
         /\ \E m : SameSlots(charged.ledger, m)
                   /\ OneMoreWs(m, reserved.ledger, identity.principal)
  BY <1>3, WsReserved
<1>5. \/ \E code : r = Answer(code, request, charged.ledger)
      \/ ~ reserved.allowed /\ r = Answer("connection_limit", request, reserved.ledger)
      \/ reserved.allowed
         /\ r = [disposition |-> "upgrade", code |-> request.target,
                 principal |-> identity.principal, keep_alive |-> TRUE,
                 ledger |-> reserved.ledger]
  <2> HIDE DEF charged
  <2> HIDE DEF reserved
  <2>1. r = RouteUpgrade(request, socket, identity, room, c, paid, now)
    OBVIOUS
  <2> QED BY DEF RouteUpgrade, charged, reserved
<1> HIDE DEF charged, reserved, r
<1>6. CASE \E code : r = Answer(code, request, charged.ledger)
  BY <1>3, <1>6, AnswerOutcome DEF r, identity
<1>7. CASE ~ reserved.allowed /\ r = Answer("connection_limit", request, reserved.ledger)
  <2>1. SameSlots(l, reserved.ledger)
    BY <1>3, <1>4, <1>7, SameSlotsChain
  <2> QED BY <1>7, <2>1, AnswerOutcome DEF r, identity
<1>8. CASE /\ reserved.allowed
           /\ r = [disposition |-> "upgrade", code |-> request.target,
                   principal |-> identity.principal, keep_alive |-> TRUE,
                   ledger |-> reserved.ledger]
  <2>1. PICK m : SameSlots(charged.ledger, m)
                 /\ OneMoreWs(m, reserved.ledger, identity.principal)
    BY <1>4, <1>8
  <2>2. SameSlots(l, m)
    BY <1>3, <2>1, SameSlotsChain
  <2>3. RouteOutcome(l, r, request, socket)
    BY <1>1, <1>8, <2>1, <2>2 DEF RouteOutcome
  <2> QED BY <2>3 DEF r, identity
<1> QED BY <1>5, <1>6, <1>7, <1>8

\* route() as a whole does.
LEMMA RouteGrantsUpgrades ==
    ASSUME NEW l, Shaped(l), NEW room, NEW request, request.keep_alive \in BOOLEAN,
           NEW socket, NEW paid, NEW now \in Nat
    PROVE  RouteOutcome(l, route(l, room, request, socket, paid, now), request, socket)
<1> DEFINE identity == derive_peer_identity(request, socket)
           payer == IF "target_size" \in request.faults THEN socket ELSE identity.principal
           charged == consume_http_request(l, payer, paid.http, now)
           r == route(l, room, request, socket, paid, now)
<1>1. SameSlots(l, charged.ledger)
  BY ChargeKeepsSlots
<1>2. \/ r = [disposition |-> "close", code |-> "none", principal |-> "none",
              keep_alive |-> FALSE, ledger |-> charged.ledger]
      \/ \E code : r = Answer(code, request, charged.ledger)
      \/ /\ request.target \in UpgradeTargets
         /\ r = RouteUpgrade(request, socket, identity, room, charged.ledger, paid.upgrade, now)
      \/ r = RouteHttp(request, room, charged.ledger)
  <2> HIDE DEF identity
  <2> QED BY DEF route, identity
<1>3. \E code : RouteHttp(request, room, charged.ledger) = Answer(code, request, charged.ledger)
  <2> HIDE DEF charged
  <2> QED BY DEF RouteHttp
<1> HIDE DEF charged, r
<1>4. CASE r = [disposition |-> "close", code |-> "none", principal |-> "none",
                keep_alive |-> FALSE, ledger |-> charged.ledger]
  <2>1. RouteOutcome(l, r, request, socket)
    BY <1>1, <1>4 DEF RouteOutcome
  <2> QED BY <2>1 DEF r
<1>5. CASE \E code : r = Answer(code, request, charged.ledger)
  BY <1>1, <1>5, AnswerOutcome DEF r
<1>6. CASE /\ request.target \in UpgradeTargets
           /\ r = RouteUpgrade(request, socket, identity, room, charged.ledger,
                               paid.upgrade, now)
  BY <1>1, <1>6, UpgradeOutcome DEF r
<1> QED BY <1>2, <1>3, <1>4, <1>5, <1>6

---------------------------------------------------------------------------
(* Counting holders.                                                       *)

\* The holders whose slot is charged to p.
OwnedBy(H, owner, p) == {c \in H : owner[c] = p}

\* A total and a count for each principal are those of the holders in H.
Counted(total, per, H, owner) ==
    /\ total = Cardinality(H)
    /\ \A c \in H : owner[c] \in DOMAIN per
    /\ \A p \in DOMAIN per : per[p] = Cardinality(OwnedBy(H, owner, p))

\* They are finitely many.
LEMMA OwnedAreFinite ==
    ASSUME NEW H, IsFiniteSet(H), NEW owner, NEW p
    PROVE  /\ IsFiniteSet(OwnedBy(H, owner, p))
           /\ Cardinality(OwnedBy(H, owner, p)) \in Nat
           /\ Cardinality(H) \in Nat
BY FS_Subset, FS_CardinalityType DEF OwnedBy

\* A new holder is one more in the total and one more for its principal.
LEMMA CountedUp ==
    ASSUME NEW H, IsFiniteSet(H), NEW c, c \notin H, NEW total, NEW per, NEW owner,
           Counted(total, per, H, owner),
           NEW new, NEW more, NEW p \in DOMAIN per,
           DOMAIN more = DOMAIN per,
           \A q \in DOMAIN per : more[q] = IF q = p THEN per[q] + 1 ELSE per[q],
           \A d \in H : new[d] = owner[d], new[c] = p
    PROVE  Counted(total + 1, more, H \cup {c}, new)
<1>1. Cardinality(H \cup {c}) = Cardinality(H) + 1
  BY FS_AddElement
<1>2. \A d \in H \cup {c} : new[d] \in DOMAIN more
  BY DEF Counted
<1>3. ASSUME NEW q \in DOMAIN more
      PROVE  more[q] = Cardinality(OwnedBy(H \cup {c}, new, q))
  <2>1. CASE q = p
    <3>1. OwnedBy(H \cup {c}, new, q) = OwnedBy(H, owner, q) \cup {c}
      BY <2>1 DEF OwnedBy
    <3>2. c \notin OwnedBy(H, owner, q)
      BY DEF OwnedBy
    <3>3. Cardinality(OwnedBy(H, owner, q) \cup {c}) = Cardinality(OwnedBy(H, owner, q)) + 1
      BY <3>2, OwnedAreFinite, FS_AddElement
    <3> QED BY <2>1, <3>1, <3>3 DEF Counted
  <2>2. CASE q # p
    <3>1. OwnedBy(H \cup {c}, new, q) = OwnedBy(H, owner, q)
      BY <2>2 DEF OwnedBy
    <3> QED BY <2>2, <3>1 DEF Counted
  <2> QED BY <2>1, <2>2
<1> QED BY <1>1, <1>2, <1>3 DEF Counted

\* Giving back a set of slots.
LEMMA CountedDown ==
    ASSUME NEW H, IsFiniteSet(H), NEW R \in SUBSET H, NEW total, NEW per, NEW owner,
           Counted(total, per, H, owner),
           NEW new, NEW less, DOMAIN less = DOMAIN per,
           \A q \in DOMAIN per : less[q] = per[q] - Cardinality(OwnedBy(R, owner, q)),
           \A d \in H \ R : new[d] = owner[d]
    PROVE  Counted(total - Cardinality(R), less, H \ R, new)
<1>1. IsFiniteSet(R) /\ IsFiniteSet(H \ R)
  BY FS_Subset
<1>2. Cardinality(H \ R) = Cardinality(H) - Cardinality(R)
  <2>1. H \cap R = R
    OBVIOUS
  <2>2. Cardinality(H \ R) = Cardinality(H) - Cardinality(H \cap R)
    BY FS_Difference
  <2> QED BY <2>1, <2>2
<1>3. Cardinality(H \ R) \in Nat
  BY <1>1, FS_CardinalityType
<1>4. \A d \in H \ R : new[d] \in DOMAIN less
  BY DEF Counted
<1>5. ASSUME NEW q \in DOMAIN less
      PROVE  less[q] = Cardinality(OwnedBy(H \ R, new, q)) /\ less[q] \in Nat
  <2> DEFINE A == OwnedBy(H, owner, q)
             B == OwnedBy(R, owner, q)
  <2>1. OwnedBy(H \ R, new, q) = A \ B
    BY DEF OwnedBy
  <2>2. A \cap B = B
    BY DEF OwnedBy
  <2>3. IsFiniteSet(A)
    BY OwnedAreFinite
  <2>4. Cardinality(A \ B) = Cardinality(A) - Cardinality(A \cap B)
    BY <2>3, FS_Difference
  <2>5. Cardinality(A \ B) \in Nat
    BY <2>3, FS_Subset, FS_CardinalityType
  <2>6. per[q] = Cardinality(A)
    BY DEF Counted
  <2> QED BY <2>1, <2>2, <2>4, <2>5, <2>6
<1> QED BY <1>2, <1>3, <1>4, <1>5 DEF Counted

\* Principals that hold nothing come and go.
LEMMA CountedMoved ==
    ASSUME NEW H, IsFiniteSet(H), NEW total, NEW per, NEW owner,
           Counted(total, per, H, owner),
           NEW new, NEW moved, \A d \in H : new[d] = owner[d],
           \A q \in DOMAIN per \cap DOMAIN moved : moved[q] = per[q],
           \A q \in DOMAIN per \ DOMAIN moved : per[q] = 0,
           \A q \in DOMAIN moved \ DOMAIN per : moved[q] = 0
    PROVE  Counted(total, moved, H, new)
<1>1. \A q : OwnedBy(H, new, q) = OwnedBy(H, owner, q)
  BY DEF OwnedBy
<1>2. ASSUME NEW q, Cardinality(OwnedBy(H, owner, q)) = 0
      PROVE  OwnedBy(H, owner, q) = {}
  BY <1>2, OwnedAreFinite, FS_EmptySet
<1>3. ASSUME NEW d \in H
      PROVE  new[d] \in DOMAIN moved
  <2>1. d \in OwnedBy(H, owner, owner[d]) /\ owner[d] \in DOMAIN per
    BY DEF OwnedBy, Counted
  <2>2. per[owner[d]] # 0
    BY <1>2, <2>1 DEF Counted
  <2> QED BY <2>1, <2>2
<1>4. ASSUME NEW q \in DOMAIN moved
      PROVE  moved[q] = Cardinality(OwnedBy(H, new, q))
  <2>1. CASE q \in DOMAIN per
    BY <1>1, <2>1 DEF Counted
  <2>2. CASE q \notin DOMAIN per
    <3>1. OwnedBy(H, new, q) = {}
      BY <1>1, <2>2 DEF OwnedBy, Counted
    <3> QED BY <2>2, <3>1, FS_EmptySet
  <2> QED BY <2>1, <2>2
<1> QED BY <1>3, <1>4 DEF Counted

\* A holder is counted.
LEMMA HolderIsCounted ==
    ASSUME NEW H, IsFiniteSet(H), NEW total, NEW per, NEW owner,
           Counted(total, per, H, owner), NEW c \in H
    PROVE  /\ total \in Nat /\ total > 0
           /\ owner[c] \in DOMAIN per
           /\ per[owner[c]] \in Nat /\ per[owner[c]] > 0
<1> DEFINE A == OwnedBy(H, owner, owner[c])
<1>1. A # {} /\ H # {}
  BY DEF OwnedBy
<1>2. IsFiniteSet(A) /\ Cardinality(A) \in Nat /\ Cardinality(H) \in Nat
  BY OwnedAreFinite
<1> HIDE DEF A
<1>3. Cardinality(A) # 0 /\ Cardinality(H) # 0
  BY <1>1, <1>2, FS_EmptySet
<1>4. owner[c] \in DOMAIN per /\ per[owner[c]] = Cardinality(A) /\ total = Cardinality(H)
  BY DEF Counted, A
<1> QED BY <1>2, <1>3, <1>4

---------------------------------------------------------------------------
(* The ledger and the connections.                                         *)

\* Who holds which slots, and to whom they are charged; what the ledger
\* says of each principal.
TcpHolders(k) == {c \in Connections : k[c].tcp}
WsHolders(k) == {c \in Connections : k[c].ws}
SocketOf(k) == [c \in Connections |-> k[c].socket]
PrincipalOf(k) == [c \in Connections |-> k[c].principal]
Tcps(l) == [p \in Tracked(l) |-> l.peers[p].tcp]
Wss(l) == [p \in Tracked(l) |-> l.peers[p].ws]

\* The ledger's count of TCP slots, and of WebSocket slots, is that of the
\* connections.
TcpCounted(l, k) == Counted(l.tcp, Tcps(l), TcpHolders(k), SocketOf(k))
WsCounted(l, k) == Counted(l.ws, Wss(l), WsHolders(k), PrincipalOf(k))

\* The ledger is sound and counts exactly what the connections hold.
Accounts(l, k) == Shaped(l) /\ TcpCounted(l, k) /\ WsCounted(l, k)

\* That is the property the run checks.
LEMMA AccountsConserve ==
    ASSUME Accounts(ledger, conns)
    PROVE  SlotsAreConserved
<1>1. \A p : /\ OwnedBy(TcpHolders(conns), SocketOf(conns), p)
                  = {c \in {d \in Connections : conns[d].tcp} : conns[c].socket = p}
             /\ OwnedBy(WsHolders(conns), PrincipalOf(conns), p)
                  = {c \in {d \in Connections : conns[d].ws} : conns[c].principal = p}
  BY DEF OwnedBy, TcpHolders, WsHolders, SocketOf, PrincipalOf
<1>2. /\ DOMAIN Tcps(ledger) = Tracked(ledger) /\ DOMAIN Wss(ledger) = Tracked(ledger)
      /\ \A p \in Tracked(ledger) : /\ Tcps(ledger)[p] = ledger.peers[p].tcp
                                    /\ Wss(ledger)[p] = ledger.peers[p].ws
  BY DEF Tcps, Wss
<1>3. /\ TcpHolders(conns) = {c \in Connections : conns[c].tcp}
      /\ WsHolders(conns) = {c \in Connections : conns[c].ws}
      /\ \A c \in Connections : SocketOf(conns)[c] = conns[c].socket
                                /\ PrincipalOf(conns)[c] = conns[c].principal
  BY DEF TcpHolders, WsHolders, SocketOf, PrincipalOf
<1> DEFINE Tcp == {c \in Connections : conns[c].tcp}
           Ws == {c \in Connections : conns[c].ws}
<1>4. /\ Counted(ledger.tcp, Tcps(ledger), Tcp, SocketOf(conns))
      /\ Counted(ledger.ws, Wss(ledger), Ws, PrincipalOf(conns))
  BY <1>3 DEF Accounts, TcpCounted, WsCounted
<1>5. \A p : /\ OwnedBy(Tcp, SocketOf(conns), p) = {c \in Tcp : conns[c].socket = p}
             /\ OwnedBy(Ws, PrincipalOf(conns), p) = {c \in Ws : conns[c].principal = p}
  BY <1>1, <1>3
<1>6. /\ \A c \in Tcp : SocketOf(conns)[c] = conns[c].socket
      /\ \A c \in Ws : PrincipalOf(conns)[c] = conns[c].principal
  BY <1>3
<1>7. SlotsAreConserved <=>
        /\ ledger.tcp = Cardinality(Tcp) /\ ledger.ws = Cardinality(Ws)
        /\ \A c \in Tcp : conns[c].socket \in Tracked(ledger)
        /\ \A c \in Ws : conns[c].principal \in Tracked(ledger)
        /\ \A p \in Tracked(ledger) :
              /\ ledger.peers[p].tcp = Cardinality({c \in Tcp : conns[c].socket = p})
              /\ ledger.peers[p].ws = Cardinality({c \in Ws : conns[c].principal = p})
  BY DEF SlotsAreConserved
<1> HIDE DEF Tcp, Ws
<1>8. /\ ledger.tcp = Cardinality(Tcp) /\ ledger.ws = Cardinality(Ws)
      /\ \A c \in Tcp : conns[c].socket \in Tracked(ledger)
      /\ \A c \in Ws : conns[c].principal \in Tracked(ledger)
  BY <1>2, <1>4, <1>6 DEF Counted
<1>9. ASSUME NEW p \in Tracked(ledger)
      PROVE  /\ ledger.peers[p].tcp = Cardinality({c \in Tcp : conns[c].socket = p})
             /\ ledger.peers[p].ws = Cardinality({c \in Ws : conns[c].principal = p})
  <2>1. /\ Tcps(ledger)[p] = Cardinality(OwnedBy(Tcp, SocketOf(conns), p))
        /\ Wss(ledger)[p] = Cardinality(OwnedBy(Ws, PrincipalOf(conns), p))
    BY <1>2, <1>4 DEF Counted
  <2>2. /\ Cardinality(OwnedBy(Tcp, SocketOf(conns), p))
              = Cardinality({c \in Tcp : conns[c].socket = p})
        /\ Cardinality(OwnedBy(Ws, PrincipalOf(conns), p))
              = Cardinality({c \in Ws : conns[c].principal = p})
    BY <1>5
  <2> QED BY <1>2, <2>1, <2>2
<1> QED BY <1>7, <1>8, <1>9

\* The holders are finitely many.
LEMMA HoldersAreFinite ==
    ASSUME NEW k
    PROVE  IsFiniteSet(TcpHolders(k)) /\ IsFiniteSet(WsHolders(k))
BY GameServerAssumption, FS_Subset DEF TcpHolders, WsHolders

\* Two maps of connections with the same leases.
SameTcp(k, j) == /\ TcpHolders(j) = TcpHolders(k)
                 /\ \A c \in TcpHolders(k) : j[c].socket = k[c].socket
SameWs(k, j) == /\ WsHolders(j) = WsHolders(k)
                /\ \A c \in WsHolders(k) : j[c].principal = k[c].principal

\* A ledger that counts the same TCP slots counts those of the same holders.
LEMMA TcpMoved ==
    ASSUME NEW l, NEW m, NEW k, NEW j, TcpCounted(l, k), SameTcp(k, j),
           m.tcp = l.tcp,
           \A p \in Tracked(l) \cap Tracked(m) : m.peers[p].tcp = l.peers[p].tcp,
           \A p \in Tracked(l) \ Tracked(m) : l.peers[p].tcp = 0,
           \A p \in Tracked(m) \ Tracked(l) : m.peers[p].tcp = 0
    PROVE  TcpCounted(m, j)
<1> DEFINE H == TcpHolders(k)
<1>1. IsFiniteSet(H) /\ TcpHolders(j) = H
  BY HoldersAreFinite DEF SameTcp
<1>2. \A d \in H : SocketOf(j)[d] = SocketOf(k)[d]
  BY DEF SameTcp, SocketOf, TcpHolders
<1>3. /\ DOMAIN Tcps(l) = Tracked(l) /\ DOMAIN Tcps(m) = Tracked(m)
      /\ \A p \in Tracked(l) : Tcps(l)[p] = l.peers[p].tcp
      /\ \A p \in Tracked(m) : Tcps(m)[p] = m.peers[p].tcp
  BY DEF Tcps
<1>4. Counted(l.tcp, Tcps(l), H, SocketOf(k))
  BY DEF TcpCounted
<1> HIDE DEF H
<1>5. Counted(l.tcp, Tcps(m), H, SocketOf(j))
  BY <1>1, <1>2, <1>3, <1>4, CountedMoved
<1> QED BY <1>1, <1>5 DEF TcpCounted

\* Likewise for WebSocket slots.
LEMMA WsMoved ==
    ASSUME NEW l, NEW m, NEW k, NEW j, WsCounted(l, k), SameWs(k, j),
           m.ws = l.ws,
           \A p \in Tracked(l) \cap Tracked(m) : m.peers[p].ws = l.peers[p].ws,
           \A p \in Tracked(l) \ Tracked(m) : l.peers[p].ws = 0,
           \A p \in Tracked(m) \ Tracked(l) : m.peers[p].ws = 0
    PROVE  WsCounted(m, j)
<1> DEFINE H == WsHolders(k)
<1>1. IsFiniteSet(H) /\ WsHolders(j) = H
  BY HoldersAreFinite DEF SameWs
<1>2. \A d \in H : PrincipalOf(j)[d] = PrincipalOf(k)[d]
  BY DEF SameWs, PrincipalOf, WsHolders
<1>3. /\ DOMAIN Wss(l) = Tracked(l) /\ DOMAIN Wss(m) = Tracked(m)
      /\ \A p \in Tracked(l) : Wss(l)[p] = l.peers[p].ws
      /\ \A p \in Tracked(m) : Wss(m)[p] = m.peers[p].ws
  BY DEF Wss
<1>4. Counted(l.ws, Wss(l), H, PrincipalOf(k))
  BY DEF WsCounted
<1> HIDE DEF H
<1>5. Counted(l.ws, Wss(m), H, PrincipalOf(j))
  BY <1>1, <1>2, <1>3, <1>4, CountedMoved
<1> QED BY <1>1, <1>5 DEF WsCounted

\* Charging, pruning and admitting leave the accounts as they are.
LEMMA AccountsKept ==
    ASSUME NEW l, NEW m, NEW k, NEW j, Accounts(l, k), SameSlots(l, m),
           SameTcp(k, j), SameWs(k, j)
    PROVE  Accounts(m, j)
<1>1. TcpCounted(m, j)
  BY TcpMoved DEF Accounts, SameSlots, Idle
<1>2. WsCounted(m, j)
  BY WsMoved DEF Accounts, SameSlots, Idle
<1> QED BY <1>1, <1>2 DEF Accounts, SameSlots

\* A connection takes a slot.
LEMMA TcpTaken ==
    ASSUME NEW l, NEW m, NEW k, NEW j, Accounts(l, k), NEW c \in Connections,
           NEW p, OneMoreTcp(l, m, p), ~ k[c].tcp, j[c].tcp, j[c].socket = p,
           \A d \in Connections \ {c} : /\ j[d].tcp <=> k[d].tcp
                                        /\ j[d].socket = k[d].socket,
           SameWs(k, j)
    PROVE  Accounts(m, j)
<1> DEFINE H == TcpHolders(k)
<1>1. IsFiniteSet(H) /\ c \notin H /\ TcpHolders(j) = H \cup {c}
  BY HoldersAreFinite DEF TcpHolders
<1>2. (\A d \in H : SocketOf(j)[d] = SocketOf(k)[d]) /\ SocketOf(j)[c] = p
  BY <1>1 DEF SocketOf, TcpHolders
<1>3. /\ DOMAIN Tcps(l) = Tracked(l) /\ DOMAIN Tcps(m) = Tracked(l) /\ p \in Tracked(l)
      /\ \A q \in Tracked(l) : Tcps(m)[q] = IF q = p THEN Tcps(l)[q] + 1 ELSE Tcps(l)[q]
  BY DEF Tcps, OneMoreTcp
<1>4. Counted(l.tcp, Tcps(l), H, SocketOf(k))
  BY DEF Accounts, TcpCounted
<1> HIDE DEF H
<1>5. Counted(l.tcp + 1, Tcps(m), H \cup {c}, SocketOf(j))
  BY <1>1, <1>2, <1>3, <1>4, CountedUp
<1>6. TcpCounted(m, j)
  BY <1>1, <1>5 DEF TcpCounted, OneMoreTcp
<1>7. WsCounted(m, j)
  BY WsMoved DEF Accounts, OneMoreTcp
<1> QED BY <1>6, <1>7 DEF Accounts, OneMoreTcp

\* A connection takes a WebSocket slot.
LEMMA WsTaken ==
    ASSUME NEW l, NEW m, NEW k, NEW j, Accounts(l, k), NEW c \in Connections,
           NEW p, OneMoreWs(l, m, p), ~ k[c].ws, j[c].ws, j[c].principal = p,
           \A d \in Connections \ {c} : /\ j[d].ws <=> k[d].ws
                                        /\ j[d].principal = k[d].principal,
           SameTcp(k, j)
    PROVE  Accounts(m, j)
<1> DEFINE H == WsHolders(k)
<1>1. IsFiniteSet(H) /\ c \notin H /\ WsHolders(j) = H \cup {c}
  BY HoldersAreFinite DEF WsHolders
<1>2. (\A d \in H : PrincipalOf(j)[d] = PrincipalOf(k)[d]) /\ PrincipalOf(j)[c] = p
  BY <1>1 DEF PrincipalOf, WsHolders
<1>3. /\ DOMAIN Wss(l) = Tracked(l) /\ DOMAIN Wss(m) = Tracked(l) /\ p \in Tracked(l)
      /\ \A q \in Tracked(l) : Wss(m)[q] = IF q = p THEN Wss(l)[q] + 1 ELSE Wss(l)[q]
  BY DEF Wss, OneMoreWs
<1>4. Counted(l.ws, Wss(l), H, PrincipalOf(k))
  BY DEF Accounts, WsCounted
<1> HIDE DEF H
<1>5. Counted(l.ws + 1, Wss(m), H \cup {c}, PrincipalOf(j))
  BY <1>1, <1>2, <1>3, <1>4, CountedUp
<1>6. WsCounted(m, j)
  BY <1>1, <1>5 DEF WsCounted, OneMoreWs
<1>7. TcpCounted(m, j)
  BY TcpMoved DEF Accounts, OneMoreWs
<1> QED BY <1>6, <1>7 DEF Accounts, OneMoreWs

\* A connection gives one back.
LEMMA WsGivenBack ==
    ASSUME NEW l, NEW k, NEW j, Accounts(l, k), NEW c \in Connections, NEW now \in Nat,
           k[c].ws, ~ j[c].ws,
           \A d \in Connections \ {c} : /\ j[d].ws <=> k[d].ws
                                        /\ j[d].principal = k[d].principal,
           SameTcp(k, j)
    PROVE  Accounts(close_websocket(l, k[c].principal, now), j)
<1> DEFINE H == WsHolders(k)
           p == k[c].principal
           m == close_websocket(l, p, now)
<1>1. /\ IsFiniteSet(H) /\ c \in H /\ WsHolders(j) = H \ {c}
      /\ {c} \in SUBSET H
  BY HoldersAreFinite DEF WsHolders
<1>2. (\A d \in H \ {c} : PrincipalOf(j)[d] = PrincipalOf(k)[d]) /\ PrincipalOf(k)[c] = p
  BY <1>1 DEF PrincipalOf, WsHolders
<1>3. Counted(l.ws, Wss(l), H, PrincipalOf(k))
  BY DEF Accounts, WsCounted
<1> HIDE DEF H, p
<1>4. p \in DOMAIN Wss(l) /\ Wss(l)[p] > 0 /\ l.ws > 0
  BY <1>1, <1>2, <1>3, HolderIsCounted
<1>5. p \in Tracked(l) /\ l.peers[p].ws > 0
  BY <1>4 DEF Wss
<1>6. OneLessWs(l, m, p)
  BY <1>4, <1>5, WsClosed DEF Accounts
<1> HIDE DEF m
<1>7. \A q : Cardinality(OwnedBy({c}, PrincipalOf(k), q)) = IF q = p THEN 1 ELSE 0
  <2>1. \A q : OwnedBy({c}, PrincipalOf(k), q) = IF q = p THEN {c} ELSE {}
    BY <1>2 DEF OwnedBy
  <2> QED BY <2>1, FS_Singleton, FS_EmptySet
<1>8. /\ DOMAIN Wss(m) = DOMAIN Wss(l)
      /\ \A q \in DOMAIN Wss(l) :
            Wss(m)[q] = Wss(l)[q] - Cardinality(OwnedBy({c}, PrincipalOf(k), q))
  <2>1. /\ DOMAIN Wss(m) = Tracked(l) /\ DOMAIN Wss(l) = Tracked(l)
        /\ \A q \in Tracked(l) : Wss(m)[q] = m.peers[q].ws /\ Wss(l)[q] = l.peers[q].ws
    BY <1>6 DEF Wss, OneLessWs
  <2>2. \A q \in Tracked(l) : l.peers[q].ws \in Nat
    BY PeerFields DEF Accounts
  <2>3. ASSUME NEW q \in Tracked(l)
        PROVE  Wss(m)[q] = Wss(l)[q] - Cardinality(OwnedBy({c}, PrincipalOf(k), q))
    <3>1. m.peers[q].ws = IF q = p THEN l.peers[q].ws - 1 ELSE l.peers[q].ws
      BY <1>6 DEF OneLessWs
    <3>2. CASE q = p
      <4>1. Cardinality(OwnedBy({c}, PrincipalOf(k), q)) = 1
        BY <1>7, <3>2
      <4> QED BY <2>1, <3>1, <3>2, <4>1
    <3>3. CASE q # p
      <4>1. Cardinality(OwnedBy({c}, PrincipalOf(k), q)) = 0
        BY <1>7, <3>3
      <4> QED BY <2>1, <2>2, <3>1, <3>3, <4>1
    <3> QED BY <3>2, <3>3
  <2> QED BY <2>1, <2>3
<1>9. Counted(l.ws - Cardinality({c}), Wss(m), H \ {c}, PrincipalOf(j))
  <2> DEFINE R == {c}
  <2>1. /\ IsFiniteSet(H) /\ R \in SUBSET H
        /\ \A d \in H \ R : PrincipalOf(j)[d] = PrincipalOf(k)[d]
        /\ DOMAIN Wss(m) = DOMAIN Wss(l)
        /\ \A q \in DOMAIN Wss(l) :
              Wss(m)[q] = Wss(l)[q] - Cardinality(OwnedBy(R, PrincipalOf(k), q))
    BY <1>1, <1>2, <1>8
  <2> HIDE DEF R
  <2>2. Counted(l.ws - Cardinality(R), Wss(m), H \ R, PrincipalOf(j))
    BY <1>3, <2>1, CountedDown
  <2> QED BY <2>2 DEF R
<1>10. WsCounted(m, j)
  BY <1>1, <1>6, <1>9, FS_Singleton DEF WsCounted, OneLessWs
<1>11. TcpCounted(m, j)
  BY <1>6, TcpMoved DEF Accounts, OneLessWs
<1>12. Accounts(m, j)
  BY <1>6, <1>10, <1>11 DEF Accounts, OneLessWs
<1> QED BY <1>12 DEF m, p

\* A connection gives its TCP slot back.
LEMMA TcpGivenBack ==
    ASSUME NEW l, NEW k, NEW j, Accounts(l, k), NEW c \in Connections, NEW now \in Nat,
           k[c].tcp, ~ j[c].tcp,
           \A d \in Connections \ {c} : /\ j[d].tcp <=> k[d].tcp
                                        /\ j[d].socket = k[d].socket,
           SameWs(k, j)
    PROVE  Accounts(close_tcp_connection(l, k[c].socket, now), j)
<1> DEFINE H == TcpHolders(k)
           p == k[c].socket
           m == close_tcp_connection(l, p, now)
<1>1. /\ IsFiniteSet(H) /\ c \in H /\ TcpHolders(j) = H \ {c}
      /\ {c} \in SUBSET H
  BY HoldersAreFinite DEF TcpHolders
<1>2. (\A d \in H \ {c} : SocketOf(j)[d] = SocketOf(k)[d]) /\ SocketOf(k)[c] = p
  BY <1>1 DEF SocketOf, TcpHolders
<1>3. Counted(l.tcp, Tcps(l), H, SocketOf(k))
  BY DEF Accounts, TcpCounted
<1> HIDE DEF H, p
<1>4. p \in DOMAIN Tcps(l) /\ Tcps(l)[p] > 0 /\ l.tcp > 0
  BY <1>1, <1>2, <1>3, HolderIsCounted
<1>5. p \in Tracked(l) /\ l.peers[p].tcp > 0
  BY <1>4 DEF Tcps
<1>6. OneLessTcp(l, m, p)
  BY <1>4, <1>5, TcpClosed DEF Accounts
<1> HIDE DEF m
<1>7. \A q : Cardinality(OwnedBy({c}, SocketOf(k), q)) = IF q = p THEN 1 ELSE 0
  <2>1. \A q : OwnedBy({c}, SocketOf(k), q) = IF q = p THEN {c} ELSE {}
    BY <1>2 DEF OwnedBy
  <2> QED BY <2>1, FS_Singleton, FS_EmptySet
<1>8. /\ DOMAIN Tcps(m) = DOMAIN Tcps(l)
      /\ \A q \in DOMAIN Tcps(l) :
            Tcps(m)[q] = Tcps(l)[q] - Cardinality(OwnedBy({c}, SocketOf(k), q))
  <2>1. /\ DOMAIN Tcps(m) = Tracked(l) /\ DOMAIN Tcps(l) = Tracked(l)
        /\ \A q \in Tracked(l) : Tcps(m)[q] = m.peers[q].tcp /\ Tcps(l)[q] = l.peers[q].tcp
    BY <1>6 DEF Tcps, OneLessTcp
  <2>2. \A q \in Tracked(l) : l.peers[q].tcp \in Nat
    BY PeerFields DEF Accounts
  <2>3. ASSUME NEW q \in Tracked(l)
        PROVE  Tcps(m)[q] = Tcps(l)[q] - Cardinality(OwnedBy({c}, SocketOf(k), q))
    <3>1. m.peers[q].tcp = IF q = p THEN l.peers[q].tcp - 1 ELSE l.peers[q].tcp
      BY <1>6 DEF OneLessTcp
    <3>2. CASE q = p
      <4>1. Cardinality(OwnedBy({c}, SocketOf(k), q)) = 1
        BY <1>7, <3>2
      <4> QED BY <2>1, <3>1, <3>2, <4>1
    <3>3. CASE q # p
      <4>1. Cardinality(OwnedBy({c}, SocketOf(k), q)) = 0
        BY <1>7, <3>3
      <4> QED BY <2>1, <2>2, <3>1, <3>3, <4>1
    <3> QED BY <3>2, <3>3
  <2> QED BY <2>1, <2>3
<1>9. Counted(l.tcp - Cardinality({c}), Tcps(m), H \ {c}, SocketOf(j))
  <2> DEFINE R == {c}
  <2>1. /\ IsFiniteSet(H) /\ R \in SUBSET H
        /\ \A d \in H \ R : SocketOf(j)[d] = SocketOf(k)[d]
        /\ DOMAIN Tcps(m) = DOMAIN Tcps(l)
        /\ \A q \in DOMAIN Tcps(l) :
              Tcps(m)[q] = Tcps(l)[q] - Cardinality(OwnedBy(R, SocketOf(k), q))
    BY <1>1, <1>2, <1>8
  <2> HIDE DEF R
  <2>2. Counted(l.tcp - Cardinality(R), Tcps(m), H \ R, SocketOf(j))
    BY <1>3, <2>1, CountedDown
  <2> QED BY <2>2 DEF R
<1>10. TcpCounted(m, j)
  BY <1>1, <1>6, <1>9, FS_Singleton DEF TcpCounted, OneLessTcp
<1>11. WsCounted(m, j)
  BY <1>6, WsMoved DEF Accounts, OneLessTcp
<1>12. Accounts(m, j)
  BY <1>6, <1>10, <1>11 DEF Accounts, OneLessTcp
<1> QED BY <1>12 DEF m, p

\* What a connection held before and does not hold after is given back, and
\* the accounts are right again.
LEMMA ReleasedAccounts ==
    ASSUME NEW l, NEW k, DOMAIN k = Connections, NEW c \in Connections,
           NEW before, NEW after, NEW now \in Nat,
           Accounts(l, [k EXCEPT ![c] = before]),
           after.tcp => before.tcp /\ after.socket = before.socket,
           after.ws => before.ws /\ after.principal = before.principal
    PROVE  Accounts(Released(l, before, after, now), [k EXCEPT ![c] = after])
<1> DEFINE M == [tcp |-> before.tcp, socket |-> before.socket,
                 ws |-> after.ws, principal |-> before.principal]
           old == [k EXCEPT ![c] = before]
           mid == [k EXCEPT ![c] = M]
           new == [k EXCEPT ![c] = after]
           web == IF before.ws /\ ~ after.ws
                  THEN close_websocket(l, before.principal, now) ELSE l
<1>1. /\ M.tcp = before.tcp /\ M.socket = before.socket
      /\ M.ws = after.ws /\ M.principal = before.principal
  OBVIOUS
<1> HIDE DEF M
<1>2. /\ old[c] = before /\ mid[c] = M /\ new[c] = after
      /\ \A d \in Connections \ {c} : old[d] = k[d] /\ mid[d] = k[d] /\ new[d] = k[d]
  OBVIOUS
<1>3. Accounts(l, old)
  OBVIOUS
<1> HIDE DEF old, mid, new
<1>4. SameTcp(old, mid)
  BY <1>1, <1>2 DEF SameTcp, TcpHolders
<1>5. SameWs(mid, new)
  BY <1>1, <1>2 DEF SameWs, WsHolders
<1>6. Accounts(web, mid)
  <2>1. CASE before.ws /\ ~ after.ws
    <3>1. Accounts(close_websocket(l, old[c].principal, now), mid)
      BY <1>1, <1>2, <1>3, <1>4, <2>1, WsGivenBack
    <3> QED BY <1>2, <2>1, <3>1
  <2>2. CASE ~ (before.ws /\ ~ after.ws)
    <3>1. SameWs(old, mid)
      BY <1>1, <1>2, <2>2 DEF SameWs, WsHolders
    <3>2. SameSlots(l, l)
      BY <1>3, SamePeers DEF Accounts
    <3> QED BY <1>3, <1>4, <2>2, <3>1, <3>2, AccountsKept
  <2> QED BY <2>1, <2>2
<1> HIDE DEF web
<1>7. CASE before.tcp /\ ~ after.tcp
  <2>0. /\ mid[c].tcp /\ ~ new[c].tcp
        /\ \A d \in Connections \ {c} : /\ new[d].tcp <=> mid[d].tcp
                                        /\ new[d].socket = mid[d].socket
    BY <1>1, <1>2, <1>7
  <2>1. Accounts(close_tcp_connection(web, mid[c].socket, now), new)
    BY <1>5, <1>6, <2>0, TcpGivenBack
  <2>2. Released(l, before, after, now) = close_tcp_connection(web, before.socket, now)
    BY <1>7 DEF Released, web
  <2> QED BY <1>1, <1>2, <2>1, <2>2 DEF new
<1>8. CASE ~ (before.tcp /\ ~ after.tcp)
  <2>1. SameTcp(mid, new)
    BY <1>1, <1>2, <1>8 DEF SameTcp, TcpHolders
  <2>2. SameSlots(web, web)
    BY <1>6, SamePeers DEF Accounts
  <2>3. Accounts(web, new)
    BY <1>5, <1>6, <2>1, <2>2, AccountsKept
  <2>4. Released(l, before, after, now) = web
    BY <1>8 DEF Released, web
  <2> QED BY <2>3, <2>4 DEF new
<1> QED BY <1>7, <1>8

---------------------------------------------------------------------------
(* A connection.                                                           *)

\* Its type.
Typed(k) == k \in Connection /\ Len(k.queue) <= MaxPipelined

\* What its stage says of its operations and leases; a finished connection
\* holds nothing.
Placed(k) ==
    /\ k.stage \in {"free", "orphan"} =>
          /\ k.read = "none" /\ k.write = "none" /\ k.accept = "none"
          /\ ~ k.tcp /\ ~ k.ws
    /\ k.stage = "free" => ~ k.registered
    /\ k.stage = "websocket" => k.read = "none" /\ k.write = "none" /\ ~ k.upgrading
    /\ k.stage = "http" => k.accept = "none" /\ ~ k.counted
    /\ k.finished => ~ k.tcp /\ ~ k.ws /\ ~ k.registered /\ ~ k.upgrading

\* Every response of a queue keeps the connection open.
Keeps(q) == \A i \in 1 .. Len(q) : q[i] = TRUE

\* An HttpSession that is not finished: a response is being written as long as
\* one is queued; it reads only below both limits and while every response
\* queued keeps the connection; it holds a WebSocket lease only for an upgrade
\* that waits, and reads nothing then; and after its last request some response
\* closes it.
Serving(k) ==
    k.stage = "http" /\ ~ k.finished =>
       /\ k.ws => k.upgrading
       /\ k.upgrading => k.read = "none"
       /\ k.queue # << >> <=> k.write # "none"
       /\ k.read # "none" => /\ Len(k.queue) < MaxPipelined
                             /\ k.parsed < MaxRequests
                             /\ Keeps(k.queue)
       /\ ~ k.upgrading /\ k.parsed = MaxRequests => ~ Keeps(k.queue)

\* What is true of every connection at any time.
Sound(k) == Typed(k) /\ Placed(k) /\ Serving(k)

\* What is true of it until the server stops: an unfinished HttpSession has an
\* operation outstanding, and no destroyed one is registered.
Alive(k) == /\ k.stage = "http" /\ ~ k.finished => k.read # "none" \/ k.write # "none"
            /\ k.stage = "orphan" => ~ k.registered

\* "j" holds no lease that "k" does not hold.
NoNewLease(k, j) == /\ j.tcp => k.tcp /\ j.socket = k.socket
                    /\ j.ws => k.ws /\ j.principal = k.principal

\* The fields of a connection, by name.
LEMMA Fields ==
    ASSUME NEW k \in Connection
    PROVE  /\ k.stage \in {"free", "http", "websocket", "orphan"}
           /\ k.socket \in Sockets
           /\ k.read \in {"none", "pending", "ok", "error"}
           /\ k.queue \in Seq(BOOLEAN)
           /\ k.write \in {"none", "pending", "ok", "error"}
           /\ k.parsed \in Nat /\ k.parsed <= MaxRequests
           /\ k.upgrading \in BOOLEAN
           /\ k.route \in UpgradeTargets \cup {"none"}
           /\ k.tcp \in BOOLEAN /\ k.ws \in BOOLEAN
           /\ k.principal \in Sockets \cup {r.forwarded : r \in Requests} \cup {"none"}
           /\ k.registered \in BOOLEAN
           /\ k.accept \in {"none", "pending", "ok", "error"}
           /\ k.counted \in BOOLEAN /\ k.finished \in BOOLEAN
BY GameServerAssumption DEF Connection, Results

\* The fields of one that is not in use.
LEMMA FreeFacts ==
    /\ FreeConnection \in Connection
    /\ FreeConnection.stage = "free" /\ FreeConnection.read = "none"
    /\ FreeConnection.queue = << >> /\ FreeConnection.write = "none"
    /\ FreeConnection.parsed = 0 /\ FreeConnection.upgrading = FALSE
    /\ FreeConnection.tcp = FALSE /\ FreeConnection.ws = FALSE
    /\ FreeConnection.registered = FALSE /\ FreeConnection.accept = "none"
    /\ FreeConnection.counted = FALSE /\ FreeConnection.finished = FALSE
<1>1. (CHOOSE s \in Sockets : TRUE) \in Sockets
  BY GameServerAssumption
<1>2. 0 \in 0 .. MaxRequests
  BY GameServerAssumption
<1>3. << >> \in Seq(BOOLEAN)
  OBVIOUS
<1> QED BY <1>1, <1>2, <1>3 DEF FreeConnection, Connection

\* It is sound, and alive.
LEMMA FreeSound == Sound(FreeConnection) /\ Alive(FreeConnection)
<1>1. Len(FreeConnection.queue) = 0
  BY FreeFacts
<1>2. Typed(FreeConnection)
  BY <1>1, FreeFacts, GameServerAssumption DEF Typed
<1> QED BY <1>2, FreeFacts DEF Sound, Placed, Serving, Alive

\* So is what a destroyed connection leaves behind, except that it may be
\* registered.
LEMMA Orphan ==
    ASSUME NEW r \in BOOLEAN, NEW n \in BOOLEAN
    PROVE  LET o == [FreeConnection EXCEPT !.stage = "orphan", !.registered = r,
                                           !.counted = n]
           IN  /\ Sound(o) /\ ~ o.tcp /\ ~ o.ws /\ o.registered = r /\ o.stage = "orphan"
               /\ o.finished = FALSE
<1> DEFINE o == [FreeConnection EXCEPT !.stage = "orphan", !.registered = r, !.counted = n]
<1>1. o \in Connection
  BY FreeFacts DEF Connection
<1>2. /\ o.stage = "orphan" /\ o.registered = r /\ o.queue = << >>
      /\ o.read = "none" /\ o.write = "none" /\ o.accept = "none"
      /\ o.tcp = FALSE /\ o.ws = FALSE /\ o.finished = FALSE
  BY FreeFacts DEF Connection
<1> HIDE DEF o
<1>3. Typed(o)
  <2>1. Len(o.queue) = 0
    BY <1>2
  <2> QED BY <1>1, <2>1, GameServerAssumption DEF Typed
<1>4. Sound(o)
  BY <1>2, <1>3 DEF Sound, Placed, Serving
<1> QED BY <1>2, <1>4 DEF o

\* The destruction of a connection without a handler keeps it sound, takes
\* nothing, and never befalls one that was alive and registered.
LEMMA SettledSound ==
    ASSUME NEW k, Sound(k)
    PROVE  /\ Sound(Settled(k)) /\ NoNewLease(k, Settled(k))
           /\ Alive(k) => Alive(Settled(k))
<1>0. k.registered \in BOOLEAN /\ k.counted \in BOOLEAN /\ k \in Connection
  BY Fields DEF Sound, Typed
<1>1. CASE Settled(k) = k
  BY <1>1 DEF NoNewLease
<1>2. CASE Settled(k) = FreeConnection
  BY <1>2, FreeFacts, FreeSound DEF NoNewLease
<1>3. CASE /\ k.stage \in {"http", "websocket"} /\ ~ HasHandler(k)
           /\ k.registered \/ k.counted
           /\ Settled(k) = [FreeConnection EXCEPT !.stage = "orphan",
                               !.registered = k.registered, !.counted = k.counted]
  <2> DEFINE o == [FreeConnection EXCEPT !.stage = "orphan",
                               !.registered = k.registered, !.counted = k.counted]
  <2>1. /\ Sound(o) /\ ~ o.tcp /\ ~ o.ws /\ o.registered = k.registered
        /\ o.stage = "orphan" /\ o.finished = FALSE
    BY <1>0, Orphan
  <2>2. Settled(k) = o
    BY <1>3
  <2> HIDE DEF o
  <2>3. ASSUME Alive(k)
        PROVE  Alive(o)
    <3>1. ~ k.registered
      BY <1>3, <2>3, Fields DEF Alive, HasHandler, Sound, Placed
    <3> QED BY <2>1, <3>1 DEF Alive
  <2> QED BY <2>1, <2>2, <2>3 DEF NoNewLease
<1>4. \/ Settled(k) = k
      \/ Settled(k) = FreeConnection
      \/ /\ k.stage \in {"http", "websocket"} /\ ~ HasHandler(k)
         /\ k.registered \/ k.counted
         /\ Settled(k) = [FreeConnection EXCEPT !.stage = "orphan",
                             !.registered = k.registered, !.counted = k.counted]
  <2>1. CASE k.stage \in {"free", "orphan"} \/ HasHandler(k)
    BY <2>1 DEF Settled
  <2>2. CASE ~ (k.stage \in {"free", "orphan"} \/ HasHandler(k)) /\ ~ k.registered /\ ~ k.counted
    BY <2>2 DEF Settled
  <2>3. CASE ~ (k.stage \in {"free", "orphan"} \/ HasHandler(k)) /\ (k.registered \/ k.counted)
    <3>1. k.stage \in {"http", "websocket"}
      BY <1>0, <2>3, Fields
    <3> QED BY <2>3, <3>1 DEF Settled
  <2> QED BY <2>1, <2>2, <2>3
<1> QED BY <1>1, <1>2, <1>3, <1>4

\* close_socket touches no operation that is not pending, and nothing else.
LEMMA ClosedFields ==
    ASSUME NEW k \in Connection
    PROVE  LET j == close_socket(k) IN
           /\ j \in Connection
           /\ j.stage = k.stage /\ j.socket = k.socket /\ j.queue = k.queue
           /\ j.parsed = k.parsed /\ j.upgrading = k.upgrading /\ j.tcp = k.tcp
           /\ j.ws = k.ws /\ j.principal = k.principal /\ j.registered = k.registered
           /\ j.counted = k.counted /\ j.finished = k.finished
           /\ j.read = "none" <=> k.read = "none"
           /\ j.write = "none" <=> k.write = "none"
           /\ j.accept = "none" <=> k.accept = "none"
<1> DEFINE j == close_socket(k)
           F(op) == IF op = "pending" THEN "error" ELSE op
<1>1. j = [k EXCEPT !.read = F(@), !.write = F(@), !.accept = F(@)]
  BY DEF close_socket
<1>2. /\ F(k.read) \in {"none", "pending"} \cup Results
      /\ F(k.write) \in {"none", "pending"} \cup Results
      /\ F(k.accept) \in {"none", "pending"} \cup Results
      /\ F(k.read) = "none" <=> k.read = "none"
      /\ F(k.write) = "none" <=> k.write = "none"
      /\ F(k.accept) = "none" <=> k.accept = "none"
  BY Fields DEF Results
<1> HIDE DEF F
<1>3. j \in Connection
  BY <1>1, <1>2 DEF Connection
<1>4. /\ j.stage = k.stage /\ j.socket = k.socket /\ j.queue = k.queue
      /\ j.parsed = k.parsed /\ j.upgrading = k.upgrading /\ j.tcp = k.tcp
      /\ j.ws = k.ws /\ j.principal = k.principal /\ j.registered = k.registered
      /\ j.counted = k.counted /\ j.finished = k.finished
      /\ j.read = F(k.read) /\ j.write = F(k.write) /\ j.accept = F(k.accept)
  BY <1>1 DEF Connection
<1> HIDE DEF j
<1>5. /\ j.read = "none" <=> k.read = "none"
      /\ j.write = "none" <=> k.write = "none"
      /\ j.accept = "none" <=> k.accept = "none"
  BY <1>2, <1>4
<1> QED BY <1>3, <1>4, <1>5 DEF j

\* finish gives everything back and leaves a sound connection.
LEMMA FinishFields ==
    ASSUME NEW k, Typed(k), Placed(k)
    PROVE  LET j == finish(k) IN
           /\ Sound(j) /\ j.finished = TRUE /\ j.stage = k.stage
           /\ j.tcp = FALSE /\ j.ws = FALSE /\ j.registered = FALSE
           /\ j.read = "none" <=> k.read = "none"
           /\ j.write = "none" <=> k.write = "none"
           /\ j.accept = "none" <=> k.accept = "none"
<1> DEFINE j == finish(k)
           s == close_socket(k)
<1>0. k \in Connection
  BY DEF Typed
<1>1. CASE k.finished
  <2>1. j = k
    BY <1>1 DEF finish
  <2> HIDE DEF j
  <2>2. Sound(k) /\ k.finished = TRUE /\ k.tcp = FALSE /\ k.ws = FALSE /\ k.registered = FALSE
    BY <1>0, <1>1, Fields DEF Sound, Serving, Placed
  <2> QED BY <2>1, <2>2 DEF j
<1>2. CASE ~ k.finished
  <2>1. j = [s EXCEPT !.finished = TRUE, !.upgrading = FALSE, !.tcp = FALSE,
                      !.ws = FALSE, !.registered = FALSE, !.counted = FALSE]
    BY <1>2 DEF finish
  <2>2. /\ s \in Connection
        /\ s.stage = k.stage /\ s.queue = k.queue
        /\ s.read = "none" <=> k.read = "none"
        /\ s.write = "none" <=> k.write = "none"
        /\ s.accept = "none" <=> k.accept = "none"
    BY <1>0, ClosedFields
  <2> HIDE DEF s, j
  <2>3. j \in Connection
    BY <2>1, <2>2 DEF Connection
  <2>4. /\ j.stage = s.stage /\ j.queue = s.queue /\ j.finished = TRUE
        /\ j.upgrading = FALSE /\ j.tcp = FALSE /\ j.ws = FALSE
        /\ j.registered = FALSE /\ j.counted = FALSE
        /\ j.read = s.read /\ j.write = s.write /\ j.accept = s.accept
    BY <2>1, <2>2 DEF Connection
  <2>5. Typed(j) /\ Placed(j) /\ Serving(j)
    BY <2>2, <2>3, <2>4 DEF Typed, Placed, Serving
  <2> QED BY <2>2, <2>4, <2>5 DEF Sound, j
<1> QED BY <1>1, <1>2

\* What neither reading nor writing touches.
Rest(k, j) ==
    /\ j.stage = k.stage /\ j.socket = k.socket /\ j.parsed = k.parsed
    /\ j.upgrading = k.upgrading /\ j.tcp = k.tcp /\ j.ws = k.ws
    /\ j.principal = k.principal /\ j.registered = k.registered
    /\ j.accept = k.accept /\ j.counted = k.counted /\ j.finished = k.finished

\* The guard of read_next_request.
MayRead(k) == /\ ~ k.finished /\ k.read = "none" /\ ~ k.upgrading
              /\ ~ server.stopping /\ Len(k.queue) < MaxPipelined

\* read_next_request starts a read under that guard and does nothing else.
LEMMA ReadFields ==
    ASSUME NEW k \in Connection
    PROVE  LET j == read_next_request(k) IN
           /\ j \in Connection /\ Rest(k, j)
           /\ j.queue = k.queue /\ j.write = k.write
           /\ MayRead(k) => j.read = "pending"
           /\ ~ MayRead(k) => j.read = k.read
<1> DEFINE j == read_next_request(k)
<1>1. MaxPipelined \in Nat /\ Len(k.queue) \in Nat
  BY Fields, GameServerAssumption
<1>2. CASE MayRead(k)
  <2>1. j = [k EXCEPT !.read = "pending"]
    BY <1>1, <1>2 DEF read_next_request, MayRead
  <2> HIDE DEF j
  <2>2. j \in Connection /\ Rest(k, j) /\ j.queue = k.queue /\ j.write = k.write /\ j.read = "pending"
    BY <2>1 DEF Connection, Rest
  <2> QED BY <1>2, <2>2 DEF j
<1>3. CASE ~ MayRead(k)
  <2>1. j = k
    BY <1>1, <1>3 DEF read_next_request, MayRead
  <2> HIDE DEF j
  <2> QED BY <1>3, <2>1 DEF Rest, j
<1> QED BY <1>2, <1>3

\* The guard of write_next_response.
MayWrite(k) == ~ k.finished /\ k.write = "none" /\ k.queue # << >>

\* write_next_response starts a write under that guard and does nothing else.
LEMMA WriteFields ==
    ASSUME NEW k \in Connection
    PROVE  LET j == write_next_response(k) IN
           /\ j \in Connection /\ Rest(k, j)
           /\ j.queue = k.queue /\ j.read = k.read
           /\ MayWrite(k) => j.write = "pending"
           /\ ~ MayWrite(k) => j.write = k.write
<1> DEFINE j == write_next_response(k)
<1>2. CASE MayWrite(k)
  <2>1. j = [k EXCEPT !.write = "pending"]
    BY <1>2 DEF write_next_response, MayWrite
  <2> HIDE DEF j
  <2>2. j \in Connection /\ Rest(k, j) /\ j.queue = k.queue /\ j.read = k.read /\ j.write = "pending"
    BY <2>1 DEF Connection, Rest
  <2> QED BY <1>2, <2>2 DEF j
<1>3. CASE ~ MayWrite(k)
  <2>1. j = k
    BY <1>3 DEF write_next_response, MayWrite
  <2> HIDE DEF j
  <2> QED BY <1>3, <2>1 DEF Rest, j
<1> QED BY <1>2, <1>3

\* enqueue_response leaves a write outstanding and the response at the end of
\* the queue.
LEMMA EnqueueFields ==
    ASSUME NEW k \in Connection, ~ k.finished, NEW keep \in BOOLEAN
    PROVE  LET j == enqueue_response(k, keep) IN
           /\ j \in Connection /\ Rest(k, j)
           /\ j.queue = Append(k.queue, keep) /\ j.read = k.read
           /\ j.write # "none"
           /\ Len(j.queue) = Len(k.queue) + 1
           /\ j.queue # << >>
           /\ keep /\ Keeps(k.queue) => Keeps(j.queue)
           /\ ~ keep => ~ Keeps(j.queue)
<1> DEFINE q == Append(k.queue, keep)
           i == [k EXCEPT !.queue = q]
           j == enqueue_response(k, keep)
<1>1. k.queue \in Seq(BOOLEAN) /\ Len(k.queue) \in Nat
  BY Fields
<1>2. /\ q \in Seq(BOOLEAN) /\ Len(q) = Len(k.queue) + 1
      /\ \A n \in 1 .. Len(k.queue) : q[n] = k.queue[n]
      /\ q[Len(k.queue) + 1] = keep
  BY <1>1
<1>3. j = write_next_response(i)
  BY DEF enqueue_response
<1> HIDE DEF q
<1>4. i \in Connection /\ Rest(k, i) /\ i.queue = q /\ i.read = k.read /\ i.write = k.write
  BY <1>2 DEF Connection, Rest
<1> HIDE DEF i, j
<1>5. q # << >>
  <2>1. Len(q) # 0
    BY <1>1, <1>2
  <2> QED BY <2>1
<1>6. /\ j \in Connection /\ Rest(k, j) /\ j.queue = q /\ j.read = k.read /\ j.write # "none"
  <2> DEFINE w == write_next_response(i)
  <2>0. /\ w \in Connection /\ Rest(i, w) /\ w.queue = i.queue /\ w.read = i.read
        /\ MayWrite(i) => w.write = "pending"
        /\ ~ MayWrite(i) => w.write = i.write
    BY <1>4, WriteFields
  <2>1. /\ j \in Connection /\ Rest(i, j) /\ j.queue = i.queue /\ j.read = i.read
        /\ MayWrite(i) => j.write = "pending"
        /\ ~ MayWrite(i) => j.write = i.write
    BY <1>3, <2>0
  <2>2. Rest(k, j)
    BY <1>4, <2>1 DEF Rest
  <2>3. j.write # "none"
    BY <1>4, <1>5, <2>1 DEF MayWrite, Rest
  <2> QED BY <1>4, <2>1, <2>2, <2>3
<1>7. ASSUME keep, Keeps(k.queue)
      PROVE  Keeps(q)
  <2>1. ASSUME NEW n \in 1 .. Len(q)
        PROVE  q[n] = TRUE
    <3>1. n \in 1 .. Len(k.queue) \/ n = Len(k.queue) + 1
      BY <1>1, <1>2
    <3>2. CASE n \in 1 .. Len(k.queue)
      BY <1>2, <1>7, <3>2 DEF Keeps
    <3>3. CASE n = Len(k.queue) + 1
      <4>1. keep = TRUE
        BY <1>7
      <4> QED BY <1>2, <3>3, <4>1
    <3> QED BY <3>1, <3>2, <3>3
  <2> QED BY <2>1 DEF Keeps
<1>8. ~ keep => ~ Keeps(q)
  <2>1. Len(k.queue) + 1 \in 1 .. Len(q)
    BY <1>1, <1>2
  <2> QED BY <1>2, <2>1 DEF Keeps
<1>9. q = Append(k.queue, keep)
  BY DEF q
<1>10. /\ j.queue = Append(k.queue, keep) /\ Len(j.queue) = Len(k.queue) + 1 /\ j.queue # << >>
       /\ keep /\ Keeps(k.queue) => Keeps(j.queue)
       /\ ~ keep => ~ Keeps(j.queue)
  BY <1>2, <1>5, <1>6, <1>7, <1>8, <1>9
<1> QED BY <1>6, <1>10 DEF j

\* begin_websocket_upgrade registers the new session and moves the leases.
LEMMA UpgradeFields ==
    ASSUME NEW k \in Connection
    PROVE  LET j == begin_websocket_upgrade(k) IN
           /\ j \in Connection /\ j.stage = "websocket" /\ j.upgrading = FALSE
           /\ j.registered = TRUE /\ j.accept = "pending"
           /\ j.read = k.read /\ j.write = k.write /\ j.queue = k.queue
           /\ j.finished = k.finished /\ j.counted = k.counted
           /\ j.socket = k.socket /\ j.tcp = k.tcp /\ j.ws = k.ws
           /\ j.principal = k.principal
<1> DEFINE j == begin_websocket_upgrade(k)
<1>1. 0 \in 0 .. MaxRequests
  BY GameServerAssumption
<1>2. j = [k EXCEPT !.stage = "websocket", !.upgrading = FALSE, !.parsed = 0,
                    !.registered = TRUE, !.accept = "pending"]
  BY DEF begin_websocket_upgrade
<1> HIDE DEF j
<1>3. /\ j \in Connection /\ j.stage = "websocket" /\ j.upgrading = FALSE
      /\ j.registered = TRUE /\ j.accept = "pending"
      /\ j.read = k.read /\ j.write = k.write /\ j.queue = k.queue
      /\ j.finished = k.finished /\ j.counted = k.counted
      /\ j.socket = k.socket /\ j.tcp = k.tcp /\ j.ws = k.ws
      /\ j.principal = k.principal
  BY <1>1, <1>2 DEF Connection
<1> QED BY <1>3 DEF j

\* An upgrade that nothing is read or written before.
LEMMA UpgradeSound ==
    ASSUME NEW k \in Connection, Len(k.queue) <= MaxPipelined, ~ k.finished,
           k.read = "none", k.write = "none"
    PROVE  /\ Sound(begin_websocket_upgrade(k)) /\ Alive(begin_websocket_upgrade(k))
           /\ NoNewLease(k, begin_websocket_upgrade(k))
<1> DEFINE j == begin_websocket_upgrade(k)
<1>1. /\ j \in Connection /\ j.stage = "websocket" /\ j.upgrading = FALSE
      /\ j.registered = TRUE /\ j.accept = "pending"
      /\ j.read = k.read /\ j.write = k.write /\ j.queue = k.queue
      /\ j.finished = k.finished /\ j.counted = k.counted
      /\ j.socket = k.socket /\ j.tcp = k.tcp /\ j.ws = k.ws
      /\ j.principal = k.principal
  BY UpgradeFields
<1> HIDE DEF j
<1>2. Sound(j) /\ Alive(j) /\ NoNewLease(k, j)
  BY <1>1 DEF Sound, Alive, NoNewLease, Typed, Placed, Serving
<1> QED BY <1>2 DEF j

\* A decision that route() can make, as far as the connection sees it.
Decision(r) ==
    \/ r.disposition \in {"close", "response"} /\ r.keep_alive \in BOOLEAN
    \/ /\ r.disposition = "upgrade"
       /\ r.principal \in Sockets \cup {q.forwarded : q \in Requests}
       /\ r.code \in UpgradeTargets

\* A connection with one operation of it taken off.
LEMMA TakenFields ==
    ASSUME NEW b \in Connection
    PROVE  /\ LET k == [b EXCEPT !.read = "none"]
              IN  /\ k \in Connection /\ Rest(b, k) /\ k.read = "none"
                  /\ k.write = b.write /\ k.queue = b.queue
           /\ LET k == [b EXCEPT !.write = "none"]
              IN  /\ k \in Connection /\ Rest(b, k) /\ k.write = "none"
                  /\ k.read = b.read /\ k.queue = b.queue
BY DEF Connection, Rest

\* route_request: whatever the router decides, the connection stays sound, goes
\* on, and holds no lease beyond the one the decision granted.
LEMMA RoutedSound ==
    ASSUME NEW b, Sound(b), b.stage = "http", ~ b.finished, b.read = "ok",
           NEW r, Decision(r)
    PROVE  LET k == [b EXCEPT !.read = "none"]
               held == [k EXCEPT !.ws = (r.disposition = "upgrade"), !.principal = r.principal]
               j == Routed(k, r)
           IN  /\ Sound(j) /\ NoNewLease(held, j)
               /\ ~ server.stopping => Alive(j)
<1> DEFINE k == [b EXCEPT !.read = "none"]
           held == [k EXCEPT !.ws = (r.disposition = "upgrade"), !.principal = r.principal]
           counted == [k EXCEPT !.parsed = @ + 1]
           keep == r.keep_alive /\ counted.parsed < MaxRequests
           answered == enqueue_response(counted, keep)
           granted == [counted EXCEPT !.ws = TRUE, !.route = r.code, !.principal = r.principal]
           waiting == [granted EXCEPT !.upgrading = TRUE]
           j == Routed(k, r)
<1>1. /\ b \in Connection /\ Len(b.queue) < MaxPipelined /\ b.parsed < MaxRequests
      /\ Keeps(b.queue) /\ ~ b.upgrading /\ ~ b.ws
      /\ b.queue # << >> <=> b.write # "none"
      /\ Len(b.queue) <= MaxPipelined /\ b.parsed \in Nat /\ Len(b.queue) \in Nat
      /\ MaxPipelined \in Nat /\ MaxRequests \in Nat
      /\ b.accept = "none" /\ ~ b.counted
  BY Fields, GameServerAssumption DEF Sound, Typed, Serving, Placed
<1>2. /\ k \in Connection /\ Rest(b, k) /\ k.read = "none"
      /\ k.write = b.write /\ k.queue = b.queue
  BY <1>1, TakenFields
<1>3. /\ held.tcp = k.tcp /\ held.socket = k.socket
      /\ held.ws = (r.disposition = "upgrade") /\ held.principal = r.principal
  BY <1>2 DEF Connection
<1> HIDE DEF held
<1>4. /\ counted \in Connection /\ counted.parsed = b.parsed + 1
      /\ counted.stage = "http" /\ counted.queue = b.queue /\ counted.write = b.write
      /\ counted.read = "none" /\ ~ counted.finished /\ ~ counted.upgrading /\ ~ counted.ws
      /\ counted.tcp = k.tcp /\ counted.socket = k.socket
      /\ counted.accept = "none" /\ ~ counted.counted
  <2>1. b.parsed + 1 \in 0 .. MaxRequests /\ k.parsed = b.parsed
    BY <1>1, <1>2 DEF Rest
  <2> HIDE DEF k
  <2>2. /\ counted \in Connection /\ Rest([k EXCEPT !.parsed = b.parsed + 1], counted)
        /\ counted.parsed = b.parsed + 1 /\ counted.queue = k.queue
        /\ counted.write = k.write /\ counted.read = k.read /\ counted.stage = k.stage
        /\ counted.finished = k.finished /\ counted.upgrading = k.upgrading
        /\ counted.ws = k.ws /\ counted.tcp = k.tcp /\ counted.socket = k.socket
        /\ counted.accept = k.accept /\ counted.counted = k.counted
    BY <1>2, <2>1 DEF Connection, Rest
  <2> HIDE DEF counted
  <2> QED BY <1>1, <1>2, <2>2 DEF Rest
<1>5. j = CASE r.disposition = "close" -> finish(counted)
            [] r.disposition = "upgrade" /\ counted.queue = << >> /\ counted.write = "none" ->
                  begin_websocket_upgrade(granted)
            [] r.disposition = "upgrade" /\ ~ (counted.queue = << >> /\ counted.write = "none") ->
                  waiting
            [] r.disposition = "response" ->
                  IF keep THEN read_next_request(answered) ELSE answered
  BY DEF Routed
<1> HIDE DEF j, k, counted
<1>6. CASE r.disposition = "close"
  <2>1. j = finish(counted)
    BY <1>5, <1>6
  <2>2. Typed(counted) /\ Placed(counted)
    BY <1>1, <1>4 DEF Typed, Placed
  <2> DEFINE f == finish(counted)
  <2>3. /\ Sound(f) /\ f.finished = TRUE /\ f.stage = counted.stage
        /\ f.tcp = FALSE /\ f.ws = FALSE
    BY <2>2, FinishFields
  <2> HIDE DEF f
  <2>4. Sound(j) /\ Alive(j) /\ NoNewLease(held, j)
    <3>1. j = f
      BY <2>1 DEF f
    <3> QED BY <1>4, <2>3, <3>1 DEF Alive, NoNewLease
  <2> QED BY <2>4 DEF j, held, k
<1>7. ASSUME r.disposition = "upgrade"
      PROVE  /\ granted \in Connection /\ granted.queue = b.queue /\ granted.write = b.write
             /\ granted.read = "none" /\ ~ granted.finished /\ granted.stage = "http"
             /\ granted.ws = TRUE /\ granted.principal = r.principal
             /\ granted.tcp = k.tcp /\ granted.socket = k.socket
             /\ granted.parsed = b.parsed + 1 /\ granted.accept = "none" /\ ~ granted.counted
  <2>1. /\ granted \in Connection
        /\ granted.queue = counted.queue /\ granted.write = counted.write
        /\ granted.read = counted.read /\ granted.finished = counted.finished
        /\ granted.stage = counted.stage /\ granted.ws = TRUE
        /\ granted.principal = r.principal /\ granted.tcp = counted.tcp
        /\ granted.socket = counted.socket /\ granted.parsed = counted.parsed
        /\ granted.accept = counted.accept /\ granted.counted = counted.counted
    BY <1>4, <1>7 DEF Connection, Decision
  <2> HIDE DEF granted
  <2> QED BY <1>4, <2>1
<1>8. CASE r.disposition = "upgrade" /\ counted.queue = << >> /\ counted.write = "none"
  <2>1. j = begin_websocket_upgrade(granted)
    BY <1>5, <1>8
  <2>2. Sound(j) /\ Alive(j) /\ NoNewLease(granted, j)
    <3> HIDE DEF granted
    <3>1. Len(granted.queue) <= MaxPipelined /\ granted.write = "none"
      BY <1>1, <1>4, <1>7, <1>8
    <3> QED BY <1>7, <1>8, <2>1, <3>1, UpgradeSound
  <2> HIDE DEF granted
  <2>3. NoNewLease(held, j)
    BY <1>3, <1>7, <1>8, <2>2 DEF NoNewLease
  <2> QED BY <2>2, <2>3 DEF j, held, k
<1>9. CASE r.disposition = "upgrade" /\ ~ (counted.queue = << >> /\ counted.write = "none")
  <2>1. j = waiting
    BY <1>5, <1>9
  <2> HIDE DEF granted
  <2>2. /\ waiting \in Connection /\ waiting.queue = granted.queue
        /\ waiting.write = granted.write /\ waiting.read = granted.read
        /\ waiting.finished = granted.finished /\ waiting.stage = granted.stage
        /\ waiting.ws = granted.ws /\ waiting.principal = granted.principal
        /\ waiting.tcp = granted.tcp /\ waiting.socket = granted.socket
        /\ waiting.upgrading = TRUE /\ waiting.accept = granted.accept
        /\ waiting.counted = granted.counted
    BY <1>7, <1>9 DEF Connection
  <2> HIDE DEF waiting
  <2>3. waiting.queue # << >> /\ waiting.write # "none"
    BY <1>1, <1>4, <1>7, <1>9, <2>2
  <2>4. Sound(j) /\ Alive(j)
    BY <1>1, <1>7, <1>9, <2>1, <2>2, <2>3 DEF Sound, Typed, Placed, Serving, Alive
  <2>5. NoNewLease(held, j)
    BY <1>3, <1>7, <1>9, <2>1, <2>2 DEF NoNewLease
  <2> QED BY <2>4, <2>5 DEF j, held, k
<1>10. CASE r.disposition = "response"
  <2>1. j = IF keep THEN read_next_request(answered) ELSE answered
    BY <1>5, <1>10
  <2>2. r.keep_alive \in BOOLEAN /\ keep \in BOOLEAN
    BY <1>10 DEF Decision
  <2>3. keep => b.parsed + 1 < MaxRequests
    BY <1>4
  <2> HIDE DEF keep
  <2>4. /\ answered \in Connection /\ Rest(counted, answered)
        /\ answered.read = "none" /\ answered.write # "none"
        /\ Len(answered.queue) = Len(b.queue) + 1 /\ answered.queue # << >>
        /\ keep /\ Keeps(b.queue) => Keeps(answered.queue)
        /\ ~ keep => ~ Keeps(answered.queue)
    BY <1>4, <2>2, EnqueueFields
  <2> HIDE DEF answered
  <2>5. /\ answered.stage = "http" /\ answered.parsed = b.parsed + 1
        /\ ~ answered.finished /\ ~ answered.upgrading /\ ~ answered.ws
        /\ answered.tcp = k.tcp /\ answered.socket = k.socket
        /\ answered.accept = "none" /\ ~ answered.counted
    BY <1>4, <2>4 DEF Rest
  <2>6. CASE keep
    <3> DEFINE a == read_next_request(answered)
    <3>1. /\ a \in Connection /\ Rest(answered, a)
          /\ a.queue = answered.queue /\ a.write = answered.write
          /\ MayRead(answered) => a.read = "pending"
          /\ ~ MayRead(answered) => a.read = answered.read
      BY <2>4, ReadFields
    <3> HIDE DEF a
    <3>2. /\ a.stage = "http" /\ a.parsed = b.parsed + 1
          /\ ~ a.finished /\ ~ a.upgrading /\ ~ a.ws
          /\ a.tcp = k.tcp /\ a.socket = k.socket
          /\ a.accept = "none" /\ ~ a.counted /\ a.write # "none" /\ a.queue # << >>
          /\ Keeps(a.queue) /\ Len(a.queue) = Len(b.queue) + 1
      BY <1>1, <2>4, <2>5, <2>6, <3>1 DEF Rest
    <3>3. a.read # "none" => Len(a.queue) < MaxPipelined
      BY <2>4, <3>1 DEF MayRead
    <3>4. Typed(a) /\ Placed(a)
      BY <1>1, <3>1, <3>2 DEF Typed, Placed
    <3>5. Serving(a)
      BY <1>1, <2>3, <2>6, <3>2, <3>3 DEF Serving
    <3>6. j = a
      BY <2>1, <2>6 DEF a
    <3>7. Sound(j) /\ Alive(j) /\ NoNewLease(held, j)
      BY <1>3, <3>2, <3>4, <3>5, <3>6 DEF Sound, Alive, NoNewLease
    <3> QED BY <3>7 DEF j, held, k
  <2>7. CASE ~ keep
    <3>1. j = answered
      BY <2>1, <2>7
    <3>2. Typed(answered) /\ Placed(answered)
      BY <1>1, <2>4, <2>5 DEF Typed, Placed
    <3>3. Serving(answered)
      BY <2>4, <2>5, <2>7 DEF Serving
    <3>4. Sound(j) /\ Alive(j) /\ NoNewLease(held, j)
      BY <1>3, <2>4, <2>5, <3>1, <3>2, <3>3 DEF Sound, Alive, NoNewLease
    <3> QED BY <3>4 DEF j, held, k
  <2> QED BY <2>6, <2>7
<1>11. r.disposition \in {"close", "response", "upgrade"}
  BY DEF Decision
<1> QED BY <1>6, <1>8, <1>9, <1>10, <1>11

\* The rest of a queue of responses.
LEMMA TailKeeps ==
    ASSUME NEW q \in Seq(BOOLEAN), q # << >>
    PROVE  /\ Tail(q) \in Seq(BOOLEAN) /\ Len(Tail(q)) = Len(q) - 1
           /\ Len(q) \in Nat /\ Len(q) > 0 /\ Head(q) \in BOOLEAN
           /\ Tail(q) = << >> <=> Len(q) = 1
           /\ Head(q) => (Keeps(q) <=> Keeps(Tail(q)))
           /\ Keeps(q) => Keeps(Tail(q))
<1>1. /\ Tail(q) \in Seq(BOOLEAN) /\ Len(Tail(q)) = Len(q) - 1 /\ Len(q) \in Nat /\ Len(q) > 0
      /\ Head(q) = q[1] /\ Head(q) \in BOOLEAN
      /\ \A n \in 1 .. Len(Tail(q)) : Tail(q)[n] = q[n + 1]
  <2>1. Len(q) \in Nat /\ Len(q) > 0
    OBVIOUS
  <2>2. Tail(q) \in Seq(BOOLEAN) /\ Len(Tail(q)) = Len(q) - 1
    OBVIOUS
  <2>3. \A n \in 1 .. Len(Tail(q)) : Tail(q)[n] = q[n + 1]
    BY <2>1, <2>2
  <2>4. Head(q) = q[1]
    OBVIOUS
  <2>5. q[1] \in BOOLEAN
    BY <2>1
  <2> QED BY <2>1, <2>2, <2>3, <2>4, <2>5
<1>2. Tail(q) = << >> <=> Len(q) = 1
  <2> DEFINE r == Tail(q)
             a == Len(r)
             d == Len(q)
  <2>1. r \in Seq(BOOLEAN) /\ a = d - 1 /\ d \in Nat
    BY <1>1
  <2> HIDE DEF r, d
  <2>2. r = << >> <=> a = 0
    BY <2>1
  <2> HIDE DEF a
  <2>3. r = << >> <=> d = 1
    BY <2>1, <2>2
  <2> QED BY <2>3 DEF r, d
<1> DEFINE t == Tail(q)
           h == Head(q)
           n == Len(q)
           m == Len(t)
<1>3. ASSUME Keeps(q) PROVE Keeps(t)
  <2>1. ASSUME NEW i \in 1 .. Len(t)
        PROVE  t[i] = TRUE
    <3>1. t[i] = q[i + 1] /\ i + 1 \in 1 .. Len(q)
      BY <1>1
    <3> QED BY <1>3, <3>1 DEF Keeps
  <2> QED BY <2>1 DEF Keeps
<1>4. ASSUME Head(q), Keeps(t) PROVE Keeps(q)
  <2>1. ASSUME NEW i \in 1 .. Len(q)
        PROVE  q[i] = TRUE
    <3>1. CASE i = 1
      BY <1>1, <1>4, <3>1
    <3>2. CASE i # 1
      <4>1. i - 1 \in 1 .. Len(t) /\ (i - 1) + 1 = i
        BY <1>1, <3>2
      <4>2. t[i - 1] = q[(i - 1) + 1]
        BY <1>1, <4>1
      <4> QED BY <1>4, <4>1, <4>2 DEF Keeps
    <3> QED BY <3>1, <3>2
  <2> QED BY <2>1 DEF Keeps
<1> QED BY <1>1, <1>2, <1>3, <1>4

\* response_written: likewise.
LEMMA WrittenSound ==
    ASSUME NEW b, Sound(b), b.stage = "http", ~ b.finished, b.write = "ok"
    PROVE  LET k == [b EXCEPT !.write = "none"]
               j == Written(k)
           IN  /\ Sound(j) /\ NoNewLease(b, j)
               /\ ~ server.stopping => Alive(j)
<1> DEFINE k == [b EXCEPT !.write = "none"]
           popped == [k EXCEPT !.queue = Tail(@)]
           j == Written(k)
<1>1. /\ b \in Connection /\ Len(b.queue) <= MaxPipelined
      /\ b.ws => b.upgrading
      /\ b.upgrading => b.read = "none"
      /\ b.queue # << >>
      /\ b.read # "none" => /\ Len(b.queue) < MaxPipelined
                            /\ b.parsed < MaxRequests
                            /\ Keeps(b.queue)
      /\ ~ b.upgrading /\ b.parsed = MaxRequests => ~ Keeps(b.queue)
      /\ b.parsed \in Nat /\ b.parsed <= MaxRequests /\ b.queue \in Seq(BOOLEAN)
      /\ MaxPipelined \in Nat /\ MaxPipelined > 0 /\ MaxRequests \in Nat
      /\ b.accept = "none" /\ ~ b.counted
      /\ b.upgrading \in BOOLEAN
  BY Fields, GameServerAssumption DEF Sound, Typed, Serving, Placed
<1>2. /\ k \in Connection /\ Rest(b, k) /\ k.write = "none"
      /\ k.read = b.read /\ k.queue = b.queue
  BY <1>1, TakenFields
<1> HIDE DEF k
<1>3. /\ Tail(b.queue) \in Seq(BOOLEAN) /\ Len(Tail(b.queue)) = Len(b.queue) - 1
      /\ Len(b.queue) \in Nat /\ Len(b.queue) > 0 /\ Head(b.queue) \in BOOLEAN
      /\ Tail(b.queue) = << >> <=> Len(b.queue) = 1
      /\ Head(b.queue) => (Keeps(b.queue) <=> Keeps(Tail(b.queue)))
      /\ Keeps(b.queue) => Keeps(Tail(b.queue))
  BY <1>1, TailKeeps
<1>4. /\ popped \in Connection /\ Rest(b, popped) /\ popped.write = "none"
      /\ popped.read = b.read /\ popped.queue = Tail(b.queue)
  BY <1>2, <1>3 DEF Connection, Rest
<1>10. Len(popped.queue) <= MaxPipelined /\ Len(popped.queue) < Len(b.queue)
  <2> DEFINE n == Len(b.queue)
             m == Len(popped.queue)
  <2>1. m = n - 1 /\ n \in Nat /\ n > 0 /\ n <= MaxPipelined /\ MaxPipelined \in Nat
    BY <1>1, <1>3, <1>4
  <2> HIDE DEF n, m
  <2>2. m <= MaxPipelined /\ m < n
    BY <2>1
  <2> QED BY <2>2 DEF n, m
<1>5. j = CASE ~ Head(b.queue) -> finish(popped)
            [] Head(b.queue) /\ popped.queue # << >> -> write_next_response(popped)
            [] Head(b.queue) /\ popped.queue = << >> /\ k.upgrading -> begin_websocket_upgrade(popped)
            [] OTHER -> read_next_request(popped)
  BY <1>2 DEF Written
<1> HIDE DEF j, popped
<1>6. CASE ~ Head(b.queue)
  <2>1. Typed(popped) /\ Placed(popped)
    BY <1>1, <1>4, <1>10 DEF Typed, Placed, Rest
  <2> DEFINE f == finish(popped)
  <2>2. Sound(f) /\ f.finished = TRUE /\ f.stage = popped.stage /\ f.tcp = FALSE /\ f.ws = FALSE
    BY <2>1, FinishFields
  <2>3. j = f
    BY <1>5, <1>6
  <2> HIDE DEF f
  <2>4. Sound(j) /\ Alive(j) /\ NoNewLease(b, j)
    BY <1>4, <2>2, <2>3 DEF Alive, NoNewLease, Rest
  <2> QED BY <2>4 DEF j, k
<1>7. CASE Head(b.queue) /\ popped.queue # << >>
  <2> DEFINE f == write_next_response(popped)
  <2>1. /\ f \in Connection /\ Rest(popped, f)
        /\ f.queue = popped.queue /\ f.read = popped.read
        /\ MayWrite(popped) => f.write = "pending"
    BY <1>4, WriteFields
  <2>2. j = f
    BY <1>5, <1>7
  <2> HIDE DEF f
  <2>3. /\ f.write = "pending" /\ f.stage = "http" /\ ~ f.finished
        /\ f.ws = b.ws /\ f.upgrading = b.upgrading /\ f.parsed = b.parsed
        /\ f.tcp = b.tcp /\ f.socket = b.socket /\ f.principal = b.principal
        /\ f.read = b.read /\ f.queue = Tail(b.queue) /\ f.queue # << >>
        /\ f.accept = b.accept /\ f.counted = b.counted
    BY <1>4, <1>7, <2>1 DEF Rest, MayWrite
  <2>4. Typed(f) /\ Placed(f)
    BY <1>1, <1>10, <2>1, <2>3 DEF Typed, Placed
  <2>7. f.read # "none" => /\ Len(f.queue) < MaxPipelined
                           /\ f.parsed < MaxRequests
                           /\ Keeps(f.queue)
    <3> DEFINE n == Len(b.queue)
               m == Len(f.queue)
    <3>1. ASSUME f.read # "none"
          PROVE  n < MaxPipelined /\ f.parsed < MaxRequests /\ Keeps(b.queue)
      BY <1>1, <2>3, <3>1
    <3>2. m < n /\ m \in Nat /\ n \in Nat /\ MaxPipelined \in Nat
      <4>1. f.queue \in Seq(BOOLEAN) /\ f.queue = popped.queue
        BY <2>1, Fields
      <4>2. Len(f.queue) \in Nat /\ Len(f.queue) < Len(b.queue)
        BY <1>10, <4>1
      <4> QED BY <1>1, <1>3, <4>2
    <3>3. Keeps(b.queue) => Keeps(f.queue)
      BY <1>3, <2>3
    <3> HIDE DEF m, n
    <3>4. n < MaxPipelined => m < MaxPipelined
      BY <3>2
    <3> QED BY <3>1, <3>3, <3>4 DEF m
  <2>8. ~ f.upgrading /\ f.parsed = MaxRequests => ~ Keeps(f.queue)
    <3>1. Keeps(f.queue) => Keeps(b.queue)
      BY <1>3, <1>7, <2>3
    <3> QED BY <1>1, <2>3, <3>1
  <2>5. Serving(f)
    BY <1>1, <2>3, <2>7, <2>8 DEF Serving
  <2>6. Sound(j) /\ Alive(j) /\ NoNewLease(b, j)
    BY <2>2, <2>3, <2>4, <2>5 DEF Sound, Alive, NoNewLease
  <2> QED BY <2>6 DEF j, k
<1>8. CASE Head(b.queue) /\ popped.queue = << >> /\ k.upgrading
  <2>1. j = begin_websocket_upgrade(popped)
    BY <1>5, <1>8
  <2>2. /\ Len(popped.queue) <= MaxPipelined /\ ~ popped.finished /\ popped.read = "none"
    BY <1>1, <1>2, <1>4, <1>8, <1>10 DEF Rest
  <2>3. Sound(j) /\ Alive(j) /\ NoNewLease(popped, j)
    BY <1>4, <2>1, <2>2, UpgradeSound
  <2>4. NoNewLease(b, j)
    BY <1>4, <2>3 DEF NoNewLease, Rest
  <2> QED BY <2>3, <2>4 DEF j, k
<1>9. CASE Head(b.queue) /\ popped.queue = << >> /\ ~ k.upgrading
  <2> DEFINE f == read_next_request(popped)
  <2>1. /\ f \in Connection /\ Rest(popped, f)
        /\ f.queue = popped.queue /\ f.write = popped.write
        /\ MayRead(popped) => f.read = "pending"
        /\ ~ MayRead(popped) => f.read = popped.read
    BY <1>4, ReadFields
  <2>2. j = f
    BY <1>5, <1>9
  <2> HIDE DEF f
  <2>3. /\ f.stage = "http" /\ ~ f.finished
        /\ f.ws = b.ws /\ f.upgrading = b.upgrading /\ f.parsed = b.parsed
        /\ f.tcp = b.tcp /\ f.socket = b.socket /\ f.principal = b.principal
        /\ f.queue = << >> /\ f.write = "none" /\ ~ b.upgrading
        /\ f.accept = b.accept /\ f.counted = b.counted
    BY <1>2, <1>4, <1>9, <2>1 DEF Rest
  <2>4. Len(f.queue) = 0 /\ Keeps(f.queue) /\ Keeps(b.queue)
    <3>1. Len(f.queue) = 0
      BY <2>3
    <3>2. Keeps(f.queue)
      BY <3>1 DEF Keeps
    <3> QED BY <1>3, <1>4, <1>9, <2>3, <3>1, <3>2
  <2>5. Typed(f) /\ Placed(f)
    BY <1>1, <2>1, <2>3, <2>4 DEF Typed, Placed
  <2>6. b.parsed < MaxRequests
    BY <1>1, <2>3, <2>4
  <2>7. Serving(f)
    BY <1>1, <2>3, <2>4, <2>6 DEF Serving
  <2>8. ~ server.stopping => f.read # "none"
    <3>1. Len(popped.queue) < MaxPipelined
      BY <1>1, <2>1, <2>4
    <3> QED BY <1>4, <2>1, <2>3, <3>1 DEF MayRead, Rest
  <2>9. Sound(j) /\ NoNewLease(b, j)
    BY <2>2, <2>3, <2>5, <2>7 DEF Sound, NoNewLease
  <2>10. ~ server.stopping => Alive(j)
    BY <2>2, <2>3, <2>8 DEF Alive
  <2> QED BY <2>9, <2>10 DEF j, k
<1> QED BY <1>3, <1>6, <1>7, <1>8, <1>9

\* What is counted is a natural number.
LEMMA CountedInNat ==
    ASSUME NEW H, IsFiniteSet(H), NEW total, NEW per, NEW owner, Counted(total, per, H, owner)
    PROVE  total \in Nat /\ \A p \in DOMAIN per : per[p] \in Nat
BY OwnedAreFinite DEF Counted

\* The ledger after every connection gave back what it holds in k and not in j.
GivenBack(l, k, j, now) ==
    LET Tcp == {c \in Connections : k[c].tcp /\ ~ j[c].tcp}
        Ws == {c \in Connections : k[c].ws /\ ~ j[c].ws}
        TcpOf(p) == {c \in Tcp : k[c].socket = p}
        WsOf(p) == {c \in Ws : k[c].principal = p}
    IN  [peers |-> [p \in Tracked(l) |->
                      [tcp |-> l.peers[p].tcp - Cardinality(TcpOf(p)),
                       ws |-> l.peers[p].ws - Cardinality(WsOf(p)),
                       last |-> IF TcpOf(p) = {} /\ WsOf(p) = {} THEN l.peers[p].last
                                ELSE now]],
         tcp |-> l.tcp - Cardinality(Tcp),
         ws |-> l.ws - Cardinality(Ws)]

\* Giving back what many connections held, at once, leaves the accounts right.
LEMMA AllReleased ==
    ASSUME NEW l, NEW k, NEW j, NEW now \in Nat, Accounts(l, k),
           \A c \in Connections : NoNewLease(k[c], j[c])
    PROVE  Accounts(GivenBack(l, k, j, now), j)
<1> DEFINE Tcp == {c \in Connections : k[c].tcp /\ ~ j[c].tcp}
           Ws == {c \in Connections : k[c].ws /\ ~ j[c].ws}
           TcpOf(p) == {c \in Tcp : k[c].socket = p}
           WsOf(p) == {c \in Ws : k[c].principal = p}
           Peer(p) == [tcp |-> l.peers[p].tcp - Cardinality(TcpOf(p)),
                       ws |-> l.peers[p].ws - Cardinality(WsOf(p)),
                       last |-> IF TcpOf(p) = {} /\ WsOf(p) = {} THEN l.peers[p].last
                                ELSE now]
           P == [p \in Tracked(l) |-> Peer(p)]
           m == [peers |-> P, tcp |-> l.tcp - Cardinality(Tcp), ws |-> l.ws - Cardinality(Ws)]
           HT == TcpHolders(k)
           HW == WsHolders(k)
<1>1. /\ IsFiniteSet(HT) /\ Tcp \in SUBSET HT /\ HT \ Tcp = TcpHolders(j)
      /\ \A d \in HT \ Tcp : SocketOf(j)[d] = SocketOf(k)[d]
      /\ \A p : OwnedBy(Tcp, SocketOf(k), p) = TcpOf(p)
  BY HoldersAreFinite DEF TcpHolders, NoNewLease, SocketOf, OwnedBy
<1>2. /\ IsFiniteSet(HW) /\ Ws \in SUBSET HW /\ HW \ Ws = WsHolders(j)
      /\ \A d \in HW \ Ws : PrincipalOf(j)[d] = PrincipalOf(k)[d]
      /\ \A p : OwnedBy(Ws, PrincipalOf(k), p) = WsOf(p)
  BY HoldersAreFinite DEF WsHolders, NoNewLease, PrincipalOf, OwnedBy
<1>3. /\ Counted(l.tcp, Tcps(l), HT, SocketOf(k)) /\ Counted(l.ws, Wss(l), HW, PrincipalOf(k))
      /\ Shaped(l)
  BY DEF Accounts, TcpCounted, WsCounted
<1> HIDE DEF Tcp, Ws, TcpOf, WsOf, HT, HW
<1>4. /\ DOMAIN P = Tracked(l)
      /\ \A p \in Tracked(l) : /\ P[p].tcp = l.peers[p].tcp - Cardinality(TcpOf(p))
                               /\ P[p].ws = l.peers[p].ws - Cardinality(WsOf(p))
                               /\ P[p].last = IF TcpOf(p) = {} /\ WsOf(p) = {} THEN l.peers[p].last
                                              ELSE now
                               /\ P[p] = [tcp |-> P[p].tcp, ws |-> P[p].ws, last |-> P[p].last]
  OBVIOUS
<1>5. P = [p \in Tracked(l) |-> P[p]]
  OBVIOUS
<1> HIDE DEF P
<1>6. /\ m = [peers |-> m.peers, tcp |-> m.tcp, ws |-> m.ws] /\ m.peers = P
      /\ Tracked(m) = Tracked(l)
      /\ m.tcp = l.tcp - Cardinality(Tcp) /\ m.ws = l.ws - Cardinality(Ws)
  BY <1>4 DEF Tracked
<1> HIDE DEF m
<1>7. /\ DOMAIN Tcps(m) = DOMAIN Tcps(l) /\ DOMAIN Tcps(l) = Tracked(l)
      /\ \A p \in DOMAIN Tcps(l) :
            /\ Tcps(m)[p] = Tcps(l)[p] - Cardinality(OwnedBy(Tcp, SocketOf(k), p))
            /\ Tcps(m)[p] = m.peers[p].tcp
  BY <1>1, <1>4, <1>6 DEF Tcps
<1>8. /\ DOMAIN Wss(m) = DOMAIN Wss(l) /\ DOMAIN Wss(l) = Tracked(l)
      /\ \A p \in DOMAIN Wss(l) :
            /\ Wss(m)[p] = Wss(l)[p] - Cardinality(OwnedBy(Ws, PrincipalOf(k), p))
            /\ Wss(m)[p] = m.peers[p].ws
  BY <1>2, <1>4, <1>6 DEF Wss
<1>9. /\ Counted(m.tcp, Tcps(m), TcpHolders(j), SocketOf(j))
      /\ m.tcp \in Nat /\ \A p \in DOMAIN Tcps(m) : Tcps(m)[p] \in Nat
  <2> DEFINE less == Tcps(m)
             new == SocketOf(j)
             per == Tcps(l)
             owner == SocketOf(k)
             total == l.tcp
             rest == total - Cardinality(Tcp)
             left == HT \ Tcp
  <2>1. IsFiniteSet(HT) /\ Tcp \in SUBSET HT /\ left \in SUBSET HT
    BY <1>1
  <2>2. /\ Counted(total, per, HT, owner)
        /\ \A e \in HT \ Tcp : new[e] = owner[e]
    BY <1>1, <1>3
  <2>3. DOMAIN less = DOMAIN per
    BY <1>7
  <2>4. \A p \in DOMAIN per : less[p] = per[p] - Cardinality(OwnedBy(Tcp, owner, p))
    BY <1>7
  <2>5. left = TcpHolders(j) /\ rest = m.tcp
    BY <1>1, <1>6
  <2> HIDE DEF less, new, per, owner, total
  <2>6. Counted(rest, less, left, new)
    BY <2>1, <2>2, <2>3, <2>4, CountedDown
  <2> HIDE DEF rest, left
  <2>7. IsFiniteSet(left)
    BY <2>1, FS_Subset
  <2>8. rest \in Nat /\ \A p \in DOMAIN less : less[p] \in Nat
    BY <2>6, <2>7, CountedInNat
  <2> QED BY <2>5, <2>6, <2>8 DEF less, new
<1>10. /\ Counted(m.ws, Wss(m), WsHolders(j), PrincipalOf(j))
      /\ m.ws \in Nat /\ \A p \in DOMAIN Wss(m) : Wss(m)[p] \in Nat
  <2> DEFINE less == Wss(m)
             new == PrincipalOf(j)
             per == Wss(l)
             owner == PrincipalOf(k)
             total == l.ws
             rest == total - Cardinality(Ws)
             left == HW \ Ws
  <2>1. IsFiniteSet(HW) /\ Ws \in SUBSET HW /\ left \in SUBSET HW
    BY <1>2
  <2>2. /\ Counted(total, per, HW, owner)
        /\ \A e \in HW \ Ws : new[e] = owner[e]
    BY <1>2, <1>3
  <2>3. DOMAIN less = DOMAIN per
    BY <1>8
  <2>4. \A p \in DOMAIN per : less[p] = per[p] - Cardinality(OwnedBy(Ws, owner, p))
    BY <1>8
  <2>5. left = WsHolders(j) /\ rest = m.ws
    BY <1>2, <1>6
  <2> HIDE DEF less, new, per, owner, total
  <2>6. Counted(rest, less, left, new)
    BY <2>1, <2>2, <2>3, <2>4, CountedDown
  <2> HIDE DEF rest, left
  <2>7. IsFiniteSet(left)
    BY <2>1, FS_Subset
  <2>8. rest \in Nat /\ \A p \in DOMAIN less : less[p] \in Nat
    BY <2>6, <2>7, CountedInNat
  <2> QED BY <2>5, <2>6, <2>8 DEF less, new
<1>11. Shaped(m)
  <2>1. ASSUME NEW p \in Tracked(l)
        PROVE  P[p] \in PeerState
    <3>1. P[p].tcp \in Nat /\ P[p].ws \in Nat
      BY <1>6, <1>7, <1>8, <1>9, <1>10
    <3>2. l.peers[p].last \in Nat
      BY <1>3, PeerFields
    <3>3. P[p].last \in Nat
      BY <1>4, <3>2
    <3>4. P[p] = [tcp |-> P[p].tcp, ws |-> P[p].ws, last |-> P[p].last]
      BY <1>4
    <3> QED BY <3>1, <3>3, <3>4 DEF PeerState
  <2>2. P \in [Tracked(l) -> PeerState]
    BY <1>5, <2>1
  <2> QED BY <1>4, <1>6, <1>9, <1>10, <2>2 DEF Shaped
<1>12. Accounts(m, j)
  BY <1>9, <1>10, <1>11 DEF Accounts, TcpCounted, WsCounted
<1>13. GivenBack(l, k, j, now) = m
  BY DEF GivenBack, m, P, Tcp, Ws, TcpOf, WsOf
<1> QED BY <1>12, <1>13

---------------------------------------------------------------------------
(* The invariant.                                                          *)

\* GameServer and ServerExecutionContext.
ServerType ==
    [state : {"ready", "starting", "running", "stopping", "stopped", "failed"},
     run : {"none", "begin", "listen", "announce", "loop", "returned"},
     posted : SUBSET {"stop", "fail"}, stopping : BOOLEAN,
     io_stopped : BOOLEAN, failure : BOOLEAN, timer : BOOLEAN]

\* The threads, the server, the listener and the clock have their types.
ProcessTyped ==
    /\ app \in {"start", "wait", "control", "stop", "post", "join", "done"}
    /\ server \in ServerType
    /\ listener \in [started : BOOLEAN, accept : {"none", "pending"} \cup Results]
    /\ clock \in 0 .. MaxTime

\* Between the start of run() and its return the server is starting, running
\* or told to stop.
RunSound ==
    server.run \in {"listen", "announce", "loop"} =>
        server.state \in {"starting", "running", "stopping"}

\* Every connection is sound, and the ledger counts what they hold.
Connected ==
    /\ conns \in [Connections -> Connection]
    /\ \A c \in Connections : Sound(conns[c])
    /\ Accounts(ledger, conns)

\* Until the server stops every connection is alive.
AllAlive == ~ server.stopping => \A c \in Connections : Alive(conns[c])

\* The inductive invariant.
IInv == ProcessTyped /\ RunSound /\ Connected /\ AllAlive

\* The clock is a natural number.
LEMMA ClockIsNat == ASSUME ProcessTyped PROVE clock \in Nat
BY GameServerAssumption DEF ProcessTyped

\* The invariant is strong enough.
LEMMA InvImplies == IInv => ConnectionsAreAccounted
<1> SUFFICES ASSUME IInv PROVE ConnectionsAreAccounted
  OBVIOUS
<1>1. TypeOK
  BY DEF IInv, ProcessTyped, ServerType, Connected, Sound, Typed, TypeOK
<1>2. SlotsAreConserved
  BY AccountsConserve DEF IInv, Connected
<1>3. RegisteredIsAlive
  <2>1. ASSUME ~ server.stopping, NEW c \in Connections, conns[c].registered
        PROVE  HasHandler(conns[c])
    <3>1. Sound(conns[c]) /\ Alive(conns[c])
      BY <2>1 DEF IInv, Connected, AllAlive
    <3>2. conns[c].stage \in {"free", "http", "websocket", "orphan"}
      BY <3>1, Fields DEF Sound, Typed
    <3> QED BY <2>1, <3>1, <3>2 DEF Sound, Placed, Alive, HasHandler
  <2> QED BY <2>1 DEF RegisteredIsAlive
<1>4. UpgradeAfterResponses
  BY DEF IInv, Connected, Sound, Placed, UpgradeAfterResponses
<1> QED BY <1>1, <1>2, <1>3, <1>4 DEF ConnectionsAreAccounted

\* A handler that leaves its connection sound, alive unless the server stops,
\* and without a new lease keeps the invariant.
LEMMA BecameKeeps ==
    ASSUME IInv, NEW c \in Connections, NEW l, NEW before, NEW after,
           Accounts(l, [conns EXCEPT ![c] = before]),
           Sound(after), NoNewLease(before, after),
           ~ server.stopping => Alive(after),
           Became(c, l, before, after)
    PROVE  IInv'
<1> DEFINE k == Settled(after)
<1>1. Sound(k) /\ NoNewLease(after, k) /\ (~ server.stopping => Alive(k))
  BY SettledSound
<1>2. NoNewLease(before, k)
  BY <1>1 DEF NoNewLease
<1>3. /\ conns' = [conns EXCEPT ![c] = k]
      /\ ledger' = Released(l, before, k, clock)
      /\ server' = [server EXCEPT !.io_stopped = @ \/ DrainedBy(c, k)]
      /\ UNCHANGED <<app, listener, clock>>
  BY DEF Became
<1> HIDE DEF k
<1>4. DrainedBy(c, k) \in BOOLEAN
  BY DEF DrainedBy
<1>5. server'.stopping = server.stopping /\ server'.run = server.run /\ server'.state = server.state
  BY <1>3 DEF IInv, ProcessTyped, ServerType
<1>6. ProcessTyped'
  BY <1>3, <1>4 DEF IInv, ProcessTyped, ServerType
<1>7. RunSound'
  BY <1>5 DEF IInv, RunSound
<1>8. k \in Connection /\ DOMAIN conns = Connections
  BY <1>1 DEF Sound, Typed, IInv, Connected
<1>9. Connected'
  <2>1. conns' \in [Connections -> Connection]
    BY <1>3, <1>8 DEF IInv, Connected
  <2>2. \A d \in Connections : Sound(conns'[d])
    BY <1>1, <1>3, <1>8 DEF IInv, Connected
  <2>3. Accounts(Released(l, before, k, clock), [conns EXCEPT ![c] = k])
    BY <1>2, <1>8, ClockIsNat, ReleasedAccounts DEF IInv, NoNewLease
  <2>4. Accounts(ledger', conns')
    BY <1>3, <2>3
  <2> QED BY <2>1, <2>2, <2>4 DEF Connected
<1>10. AllAlive'
  BY <1>1, <1>3, <1>5, <1>8 DEF IInv, AllAlive
<1> QED BY <1>6, <1>7, <1>9, <1>10 DEF IInv

---------------------------------------------------------------------------
(* The handlers.                                                           *)

\* A connection that holds the same leases as before is accounted for alike.
LEMMA SameLeases ==
    ASSUME NEW l, NEW m, NEW c \in Connections, NEW k,
           DOMAIN conns = Connections, Accounts(l, conns), SameSlots(l, m),
           k.tcp = conns[c].tcp, k.socket = conns[c].socket,
           k.ws = conns[c].ws, k.principal = conns[c].principal
    PROVE  Accounts(m, [conns EXCEPT ![c] = k])
<1> DEFINE j == [conns EXCEPT ![c] = k]
<1>1. j[c] = k /\ \A d \in Connections \ {c} : j[d] = conns[d]
  OBVIOUS
<1> HIDE DEF j
<1>2. \A d \in Connections : /\ j[d].tcp = conns[d].tcp /\ j[d].socket = conns[d].socket
                             /\ j[d].ws = conns[d].ws /\ j[d].principal = conns[d].principal
  BY <1>1
<1>3. SameTcp(conns, j)
  BY <1>2 DEF SameTcp, TcpHolders
<1>4. SameWs(conns, j)
  BY <1>2 DEF SameWs, WsHolders
<1>5. Accounts(m, j)
  BY <1>3, <1>4, AccountsKept
<1> QED BY <1>5 DEF j

\* What the invariant says of one connection.
LEMMA ConnectionFacts ==
    ASSUME IInv, NEW c \in Connections
    PROVE  /\ DOMAIN conns = Connections /\ conns[c] \in Connection
           /\ Sound(conns[c]) /\ Accounts(ledger, conns) /\ SameSlots(ledger, ledger)
           /\ ~ server.stopping => Alive(conns[c])
           /\ clock \in Nat
BY ClockIsNat, SamePeers DEF IInv, Connected, AllAlive, Accounts

\* A handler that finishes its connection keeps the invariant.
LEMMA FinishKeeps ==
    ASSUME IInv, NEW c \in Connections, NEW k, Typed(k), Placed(k), k.stage # "orphan",
           k.tcp = conns[c].tcp, k.socket = conns[c].socket,
           k.ws = conns[c].ws, k.principal = conns[c].principal,
           Became(c, ledger, k, finish(k))
    PROVE  IInv'
<1> DEFINE f == finish(k)
<1>1. /\ Sound(f) /\ f.finished = TRUE /\ f.stage = k.stage
      /\ f.tcp = FALSE /\ f.ws = FALSE
  BY FinishFields
<1>2. Became(c, ledger, k, f)
  OBVIOUS
<1> HIDE DEF f
<1>3. Alive(f) /\ NoNewLease(k, f)
  BY <1>1 DEF Alive, NoNewLease
<1>4. Accounts(ledger, [conns EXCEPT ![c] = k])
  BY ConnectionFacts, SameLeases
<1> QED BY <1>1, <1>2, <1>3, <1>4, BecameKeeps

\* The end of a WebSocket session keeps it.
LEMMA WebSocketEndsKeeps ==
    ASSUME IInv, NEW c \in Connections, WebSocketEnds(c)
    PROVE  IInv'
<1>1. Typed(conns[c]) /\ Placed(conns[c])
  BY ConnectionFacts DEF Sound
<1> QED BY <1>1, FinishKeeps DEF WebSocketEnds

\* header_read keeps it, whatever was read and whatever the router decides.
LEMMA HeaderReadKeeps ==
    ASSUME IInv, NEW c \in Connections, HeaderRead(c)
    PROVE  IInv'
<1> DEFINE b == conns[c]
           k == [b EXCEPT !.read = "none"]
<1>1. /\ b \in Connection /\ Sound(b) /\ DOMAIN conns = Connections
      /\ Accounts(ledger, conns) /\ SameSlots(ledger, ledger) /\ clock \in Nat
  BY ConnectionFacts
<1> HIDE DEF b
<1>2. k \in Connection /\ Rest(b, k) /\ k.read = "none" /\ k.write = b.write /\ k.queue = b.queue
  BY <1>1, TakenFields
<1>3. Typed(k) /\ Placed(k)
  BY <1>1, <1>2 DEF Sound, Typed, Placed, Rest
<1>0. /\ k.stage = "http" /\ b.read \in Results
      /\ \/ Became(c, ledger, k, finish(k))
         \/ /\ b.read = "ok" /\ ~ k.finished
            /\ \E r \in RouterDecisions(k.socket) :
                  Became(c, r.ledger, [k EXCEPT !.ws = (r.disposition = "upgrade"),
                                                !.principal = r.principal], Routed(k, r))
  BY DEF HeaderRead, b
<1>4. k.stage = "http" /\ b.read \in Results
  BY <1>0
<1>5. /\ k.tcp = conns[c].tcp /\ k.socket = conns[c].socket
      /\ k.ws = conns[c].ws /\ k.principal = conns[c].principal
      /\ k.finished = b.finished /\ b.stage = "http"
  BY <1>2, <1>4 DEF Rest, b
<1> DEFINE held(r) == [k EXCEPT !.ws = (r.disposition = "upgrade"), !.principal = r.principal]
<1>7. CASE Became(c, ledger, k, finish(k))
  <2> HIDE DEF k
  <2> QED BY <1>3, <1>4, <1>5, <1>7, FinishKeeps
<1>8. ASSUME b.read = "ok", ~ k.finished, NEW r \in RouterDecisions(k.socket),
             Became(c, r.ledger, held(r), Routed(k, r))
      PROVE  IInv'
  <2> DEFINE h == held(r)
             j == Routed(k, r)
             mid == [conns EXCEPT ![c] = h]
  <2>0. PICK request \in Requests, serving \in BOOLEAN, paid \in Payments :
           r = route(ledger, [ready |-> serving, session_count |-> SessionCount], request,
                     k.socket, paid, clock)
    BY <1>8 DEF RouterDecisions
  <2>1. RouteOutcome(ledger, r, request, k.socket)
    <3>1. Shaped(ledger) /\ request.keep_alive \in BOOLEAN
      BY <1>1, GameServerAssumption DEF Accounts
    <3> HIDE DEF k
    <3> QED BY <1>1, <2>0, <3>1, RouteGrantsUpgrades
  <2>2. Became(c, r.ledger, h, j)
    BY <1>8
  <2>3. Decision(r)
    <3>1. k.socket \in Sockets
      BY <1>2, Fields
    <3> HIDE DEF k
    <3> QED BY <2>1, <3>1 DEF RouteOutcome, Decision
  <2>4. Sound(j) /\ NoNewLease(h, j) /\ (~ server.stopping => Alive(j))
    BY <1>1, <1>5, <1>8, <2>3, RoutedSound
  <2>5. /\ h.tcp = b.tcp /\ h.socket = b.socket
        /\ h.ws = (r.disposition = "upgrade") /\ h.principal = r.principal
    <3>1. h.tcp = k.tcp /\ h.socket = k.socket
          /\ h.ws = (r.disposition = "upgrade") /\ h.principal = r.principal
      <4> HIDE DEF k
      <4> QED BY <1>2 DEF Connection
    <3> HIDE DEF k, h
    <3> QED BY <1>5, <3>1 DEF b
  <2>6. ~ b.ws
    <3> HIDE DEF k
    <3> QED BY <1>1, <1>5, <1>8 DEF Sound, Serving
  <2> HIDE DEF h, k, j, held
  <2>7. mid[c] = h /\ \A d \in Connections \ {c} : mid[d] = conns[d]
    BY <1>1
  <2> HIDE DEF mid
  <2>8. SameTcp(conns, mid)
    BY <2>5, <2>7 DEF SameTcp, TcpHolders, b
  <2>9. Accounts(r.ledger, mid)
    <3>1. CASE r.disposition # "upgrade"
      <4>1. SameSlots(ledger, r.ledger)
        BY <2>1, <3>1 DEF RouteOutcome
      <4>2. SameWs(conns, mid)
        BY <2>5, <2>6, <2>7, <3>1 DEF SameWs, WsHolders, b
      <4> QED BY <1>1, <2>8, <4>1, <4>2, AccountsKept
    <3>2. CASE r.disposition = "upgrade"
      <4>1. PICK m : SameSlots(ledger, m) /\ OneMoreWs(m, r.ledger, r.principal)
        BY <2>1, <3>2 DEF RouteOutcome
      <4>2. SameTcp(conns, conns) /\ SameWs(conns, conns)
        BY DEF SameTcp, SameWs
      <4>3. Accounts(m, conns)
        BY <1>1, <4>1, <4>2, AccountsKept
      <4>4. ~ conns[c].ws /\ mid[c].ws /\ mid[c].principal = r.principal
        BY <2>5, <2>6, <2>7, <3>2 DEF b
      <4>5. \A d \in Connections \ {c} : /\ mid[d].ws <=> conns[d].ws
                                         /\ mid[d].principal = conns[d].principal
        BY <2>7
      <4> QED BY <2>8, <4>1, <4>3, <4>4, <4>5, WsTaken
    <3> QED BY <3>1, <3>2
  <2> QED BY <2>2, <2>4, <2>9, BecameKeeps DEF mid
<1> QED BY <1>0, <1>7, <1>8

\* response_written keeps it.
LEMMA ResponseWrittenKeeps ==
    ASSUME IInv, NEW c \in Connections, ResponseWritten(c)
    PROVE  IInv'
<1> DEFINE b == conns[c]
           k == [b EXCEPT !.write = "none"]
<1>1. /\ b \in Connection /\ Sound(b) /\ DOMAIN conns = Connections
      /\ Accounts(ledger, conns) /\ SameSlots(ledger, ledger) /\ clock \in Nat
      /\ ~ server.stopping => Alive(b)
  BY ConnectionFacts
<1> HIDE DEF b
<1>2. k \in Connection /\ Rest(b, k) /\ k.write = "none" /\ k.read = b.read /\ k.queue = b.queue
  BY <1>1, TakenFields
<1>3. Typed(k) /\ Placed(k)
  BY <1>1, <1>2 DEF Sound, Typed, Placed, Rest
<1>4. /\ k.tcp = conns[c].tcp /\ k.socket = conns[c].socket
      /\ k.ws = conns[c].ws /\ k.principal = conns[c].principal
      /\ k.finished = b.finished /\ b.stage = k.stage
  BY <1>2 DEF Rest, b
<1>5. /\ k.stage = "http"
      /\ \/ b.write \in Results /\ Became(c, ledger, k, finish(k))
         \/ b.write = "ok" /\ Became(c, ledger, k, IF k.finished THEN k ELSE Written(k))
  BY DEF ResponseWritten, b
<1>6. CASE Became(c, ledger, k, finish(k))
  <2> HIDE DEF k
  <2> QED BY <1>3, <1>4, <1>5, <1>6, FinishKeeps
<1>7. Accounts(ledger, [conns EXCEPT ![c] = k])
  <2> HIDE DEF k
  <2> QED BY <1>1, <1>4, SameLeases
<1>8. CASE k.finished /\ Became(c, ledger, k, k)
  <2> HIDE DEF k
  <2>1. Sound(k) /\ Alive(k) /\ NoNewLease(k, k)
    BY <1>3, <1>5, <1>8 DEF Sound, Serving, Alive, NoNewLease
  <2> QED BY <1>7, <1>8, <2>1, BecameKeeps
<1>9. CASE b.write = "ok" /\ ~ k.finished /\ Became(c, ledger, k, Written(k))
  <2>1. /\ Sound(Written(k)) /\ NoNewLease(b, Written(k))
        /\ ~ server.stopping => Alive(Written(k))
    BY <1>1, <1>4, <1>5, <1>9, WrittenSound
  <2> HIDE DEF k
  <2>2. NoNewLease(k, Written(k))
    BY <1>4, <2>1 DEF NoNewLease, b
  <2> QED BY <1>7, <1>9, <2>1, <2>2, BecameKeeps
<1> QED BY <1>5, <1>6, <1>8, <1>9

\* The end of a handshake keeps it, also after the session has finished.
LEMMA AcceptedKeeps ==
    ASSUME IInv, NEW c \in Connections, Accepted(c)
    PROVE  IInv'
<1> DEFINE b == conns[c]
           k == [b EXCEPT !.accept = "none"]
           n == [k EXCEPT !.counted = (k.route = "session_v3")]
<1>1. /\ b \in Connection /\ Sound(b) /\ DOMAIN conns = Connections
      /\ Accounts(ledger, conns) /\ SameSlots(ledger, ledger) /\ clock \in Nat
  BY ConnectionFacts
<1> HIDE DEF b
<1>2. /\ k \in Connection /\ k.accept = "none" /\ k.read = b.read /\ k.write = b.write
      /\ k.queue = b.queue /\ k.stage = b.stage /\ k.upgrading = b.upgrading
      /\ k.tcp = b.tcp /\ k.socket = b.socket /\ k.ws = b.ws /\ k.principal = b.principal
      /\ k.registered = b.registered /\ k.counted = b.counted /\ k.finished = b.finished
  BY <1>1 DEF Connection
<1>3. /\ Became(c, ledger, k, finish(k)) \/ Became(c, ledger, k, n)
      /\ b.accept \in Results
  BY DEF Accepted, b, Results
<1> HIDE DEF k
<1>4. b.stage = "websocket"
  BY <1>1, <1>3, Fields DEF Sound, Placed, Results
<1>5. /\ n \in Connection /\ n.accept = k.accept /\ n.read = k.read /\ n.write = k.write
      /\ n.queue = k.queue /\ n.stage = k.stage /\ n.upgrading = k.upgrading
      /\ n.tcp = k.tcp /\ n.socket = k.socket /\ n.ws = k.ws /\ n.principal = k.principal
      /\ n.registered = k.registered /\ n.finished = k.finished
  BY <1>2 DEF Connection
<1> HIDE DEF n
<1>6. Typed(k) /\ Placed(k)
  BY <1>1, <1>2, <1>4 DEF Sound, Typed, Placed
<1>7. CASE Became(c, ledger, k, finish(k))
  BY <1>2, <1>4, <1>6, <1>7, FinishKeeps DEF b
<1>8. CASE Became(c, ledger, k, n)
  <2>1. Accounts(ledger, [conns EXCEPT ![c] = k])
    BY <1>1, <1>2, SameLeases DEF b
  <2>2. Sound(n) /\ Alive(n) /\ NoNewLease(k, n)
    BY <1>2, <1>4, <1>5, <1>6 DEF Sound, Typed, Placed, Serving, Alive, NoNewLease
  <2> QED BY <1>8, <2>1, <2>2, BecameKeeps
<1> QED BY <1>3, <1>7, <1>8

\* An immediate stop of one session.
LEMMA StopNowSound ==
    ASSUME NEW k, Sound(k)
    PROVE  /\ Sound(StopNow(k)) /\ NoNewLease(k, StopNow(k))
           /\ Alive(k) => Alive(StopNow(k))
<1>1. CASE ~ k.registered \/ k.stage = "orphan"
  BY <1>1 DEF StopNow, NoNewLease
<1>2. CASE ~ (~ k.registered \/ k.stage = "orphan")
  <2> DEFINE f == finish(k)
             j == StopNow(k)
  <2>1. j = Settled(f)
    BY <1>2 DEF StopNow
  <2>2. Sound(f) /\ f.finished = TRUE /\ f.stage = k.stage /\ f.tcp = FALSE /\ f.ws = FALSE
    BY FinishFields DEF Sound
  <2> HIDE DEF f, j
  <2>3. Alive(f) /\ NoNewLease(k, f)
    BY <1>2, <2>2 DEF Alive, NoNewLease
  <2>4. Sound(j) /\ NoNewLease(f, j) /\ Alive(j)
    BY <2>1, <2>2, <2>3, SettledSound
  <2>5. NoNewLease(k, j)
    BY <2>3, <2>4 DEF NoNewLease
  <2> QED BY <2>4, <2>5 DEF j
<1> QED BY <1>1, <1>2

\* A graceful stop of one session gives nothing back.
LEMMA StopGracefullySound ==
    ASSUME NEW k, Sound(k)
    PROVE  Sound(StopGracefully(k)) /\ NoNewLease(k, StopGracefully(k))
<1> DEFINE j == StopGracefully(k)
<1>0. k \in Connection
  BY DEF Sound, Typed
<1>1. CASE ~ k.registered \/ k.stage = "orphan"
  BY <1>1 DEF StopGracefully, NoNewLease
<1>2. CASE k.registered /\ k.stage = "http"
  <2>1. j = close_socket(k)
    BY <1>2 DEF StopGracefully
  <2> DEFINE s == close_socket(k)
  <2>2. /\ s \in Connection
        /\ s.stage = k.stage /\ s.socket = k.socket /\ s.queue = k.queue
        /\ s.parsed = k.parsed /\ s.upgrading = k.upgrading /\ s.tcp = k.tcp
        /\ s.ws = k.ws /\ s.principal = k.principal /\ s.registered = k.registered
        /\ s.counted = k.counted /\ s.finished = k.finished
        /\ s.read = "none" <=> k.read = "none"
        /\ s.write = "none" <=> k.write = "none"
        /\ s.accept = "none" <=> k.accept = "none"
    BY <1>0, ClosedFields
  <2> HIDE DEF s, j
  <2>3. Typed(s) /\ Placed(s)
    BY <1>2, <2>2 DEF Sound, Typed, Placed
  <2>4. Serving(s)
    BY <1>2, <2>2 DEF Sound, Serving
  <2>5. Sound(j) /\ NoNewLease(k, j)
    <3>1. j = s
      BY <2>1 DEF s
    <3> QED BY <2>2, <2>3, <2>4, <3>1 DEF Sound, NoNewLease
  <2> QED BY <2>5 DEF j
<1>3. CASE k.registered /\ k.stage \notin {"http", "orphan"}
  <2>1. j = [k EXCEPT !.counted = FALSE]
    BY <1>3 DEF StopGracefully
  <2> HIDE DEF j
  <2>2. /\ j \in Connection
        /\ j.stage = k.stage /\ j.queue = k.queue /\ j.upgrading = k.upgrading
        /\ j.tcp = k.tcp /\ j.ws = k.ws /\ j.registered = k.registered
        /\ j.finished = k.finished /\ j.read = k.read /\ j.write = k.write
        /\ j.accept = k.accept /\ j.socket = k.socket /\ j.principal = k.principal
    BY <1>0, <2>1 DEF Connection
  <2>3. Sound(j) /\ NoNewLease(k, j)
    BY <1>3, <2>2 DEF Sound, Typed, Placed, Serving, NoNewLease
  <2> QED BY <2>3 DEF j
<1>4. k.registered \in BOOLEAN
  BY <1>0, Fields
<1> QED BY <1>1, <1>2, <1>3, <1>4

\* All sessions are changed at once.
LEMMA SessionsKeep ==
    ASSUME IInv, NEW j, j = [c \in Connections |-> j[c]],
           \A c \in Connections : Sound(j[c]) /\ NoNewLease(conns[c], j[c]),
           conns' = j, ledger' = GivenBack(ledger, conns, j, clock)
    PROVE  Connected'
<1>1. clock \in Nat /\ Accounts(ledger, conns)
  BY ClockIsNat DEF IInv, Connected
<1>2. Accounts(ledger', j)
  BY <1>1, AllReleased
<1>3. conns' \in [Connections -> Connection]
  BY DEF Sound, Typed
<1> QED BY <1>2, <1>3 DEF Connected

\* All sessions stopped immediately; and unless the server was stopping already
\* none is left without a handler.
LEMMA StopNowKeeps ==
    ASSUME IInv, StopSessions(StopNow)
    PROVE  Connected' /\ (~ server.stopping => \A c \in Connections : Alive(conns'[c]))
<1> DEFINE j == [c \in Connections |-> StopNow(conns[c])]
<1>1. conns' = j /\ ledger' = GivenBack(ledger, conns, j, clock)
  BY DEF StopSessions, GivenBack
<1>2. /\ \A c \in Connections : Sound(j[c]) /\ NoNewLease(conns[c], j[c])
      /\ \A c \in Connections : ~ server.stopping => Alive(j[c])
  BY ConnectionFacts, StopNowSound
<1>3. j = [c \in Connections |-> j[c]]
  OBVIOUS
<1> HIDE DEF j
<1> QED BY <1>1, <1>2, <1>3, SessionsKeep

\* All sessions stopped gracefully.
LEMMA StopGracefullyKeeps ==
    ASSUME IInv, StopSessions(StopGracefully)
    PROVE  Connected'
<1> DEFINE j == [c \in Connections |-> StopGracefully(conns[c])]
<1>1. conns' = j /\ ledger' = GivenBack(ledger, conns, j, clock)
  BY DEF StopSessions, GivenBack
<1>2. \A c \in Connections : Sound(j[c]) /\ NoNewLease(conns[c], j[c])
  BY ConnectionFacts, StopGracefullySound
<1>3. j = [c \in Connections |-> j[c]]
  OBVIOUS
<1> HIDE DEF j
<1> QED BY <1>1, <1>2, <1>3, SessionsKeep

\* The end of an operation keeps the invariant.
LEMMA OperationEndsKeeps ==
    ASSUME IInv, NEW c \in Connections, OperationEnds(c)
    PROVE  IInv'
<1> DEFINE b == conns[c]
<1>1. /\ b \in Connection /\ Sound(b) /\ DOMAIN conns = Connections
      /\ Accounts(ledger, conns) /\ SameSlots(ledger, ledger)
      /\ ~ server.stopping => Alive(b)
  BY ConnectionFacts
<1>2. PICK k : /\ conns' = [conns EXCEPT ![c] = k]
               /\ \/ b.read = "pending" /\ k = [b EXCEPT !.read = "ok"]
                  \/ b.write = "pending" /\ k = [b EXCEPT !.write = "ok"]
                  \/ b.accept = "pending" /\ k = [b EXCEPT !.accept = "ok"]
  BY <1>1 DEF OperationEnds
<1>3. UNCHANGED <<app, server, listener, ledger, clock>>
  BY DEF OperationEnds
<1> HIDE DEF b
<1>4. /\ k \in Connection /\ k.stage = b.stage /\ k.socket = b.socket /\ k.queue = b.queue
      /\ k.parsed = b.parsed /\ k.upgrading = b.upgrading /\ k.tcp = b.tcp
      /\ k.ws = b.ws /\ k.principal = b.principal /\ k.registered = b.registered
      /\ k.counted = b.counted /\ k.finished = b.finished
      /\ k.read = "none" <=> b.read = "none"
      /\ k.write = "none" <=> b.write = "none"
      /\ k.accept = "none" <=> b.accept = "none"
  <2>1. CASE b.read = "pending" /\ k = [b EXCEPT !.read = "ok"]
    BY <1>1, <2>1 DEF Connection, Results
  <2>2. CASE b.write = "pending" /\ k = [b EXCEPT !.write = "ok"]
    BY <1>1, <2>2 DEF Connection, Results
  <2>3. CASE b.accept = "pending" /\ k = [b EXCEPT !.accept = "ok"]
    BY <1>1, <2>3 DEF Connection, Results
  <2> QED BY <1>2, <2>1, <2>2, <2>3
<1>5. Typed(k) /\ Placed(k)
  BY <1>1, <1>4 DEF Sound, Typed, Placed
<1>6. Serving(k)
  BY <1>1, <1>4 DEF Sound, Serving
<1>7. Alive(b) => Alive(k)
  BY <1>4 DEF Alive
<1>8. Accounts(ledger, [conns EXCEPT ![c] = k])
  BY <1>1, <1>4, SameLeases DEF b
<1>9. Connected'
  <2>1. conns' \in [Connections -> Connection]
    BY <1>2, <1>4 DEF IInv, Connected
  <2>2. \A d \in Connections : Sound(conns'[d])
    BY <1>1, <1>2, <1>5, <1>6 DEF IInv, Connected, Sound
  <2> QED BY <1>2, <1>3, <1>8, <2>1, <2>2 DEF Connected
<1>10. AllAlive'
  BY <1>1, <1>2, <1>3, <1>7 DEF IInv, AllAlive
<1>11. ProcessTyped' /\ RunSound'
  BY <1>3 DEF IInv, ProcessTyped, RunSound
<1> QED BY <1>9, <1>10, <1>11 DEF IInv

---------------------------------------------------------------------------
(* The listener, the threads and the whole.                                *)

\* The HttpSession of an accepted connection, once it asked for its first
\* request.
LEMMA FreshSound ==
    ASSUME NEW s \in Sockets
    PROVE  LET fresh == Settled(read_next_request(
                           [FreeConnection EXCEPT !.stage = "http", !.socket = s,
                                                  !.tcp = TRUE, !.registered = TRUE]))
           IN  /\ Sound(fresh) /\ ~ fresh.ws
               /\ fresh.tcp => fresh.socket = s
               /\ ~ server.stopping => Alive(fresh)
<1> DEFINE k == [FreeConnection EXCEPT !.stage = "http", !.socket = s,
                                       !.tcp = TRUE, !.registered = TRUE]
           j == read_next_request(k)
           fresh == Settled(j)
<1>1. /\ k \in Connection
      /\ k.stage = "http" /\ k.socket = s /\ k.read = "none" /\ k.queue = << >>
      /\ k.write = "none" /\ k.parsed = 0 /\ k.upgrading = FALSE /\ k.tcp = TRUE
      /\ k.ws = FALSE /\ k.accept = "none" /\ k.counted = FALSE /\ k.finished = FALSE
  BY FreeFacts DEF Connection
<1> HIDE DEF k
<1>2. /\ j \in Connection /\ Rest(k, j) /\ j.queue = k.queue /\ j.write = k.write
      /\ MayRead(k) => j.read = "pending"
      /\ ~ MayRead(k) => j.read = k.read
  BY <1>1, ReadFields
<1> HIDE DEF j
<1>3. /\ j.stage = "http" /\ j.socket = s /\ j.queue = << >>
      /\ j.write = "none" /\ j.parsed = 0 /\ j.upgrading = FALSE /\ j.tcp = TRUE
      /\ j.ws = FALSE /\ j.accept = "none" /\ j.counted = FALSE /\ j.finished = FALSE
      /\ Len(j.queue) = 0 /\ Len(k.queue) = 0
  BY <1>1, <1>2 DEF Rest
<1>4. MaxPipelined \in Nat /\ MaxPipelined > 0 /\ MaxRequests \in Nat /\ MaxRequests > 0
  BY GameServerAssumption
<1>5. Keeps(j.queue)
  BY <1>3 DEF Keeps
<1>6. Typed(j) /\ Placed(j) /\ Serving(j)
  BY <1>2, <1>3, <1>4, <1>5 DEF Typed, Placed, Serving
<1>7. ~ server.stopping => Alive(j)
  BY <1>1, <1>2, <1>3, <1>4 DEF Alive, MayRead
<1>8. /\ Sound(fresh) /\ NoNewLease(j, fresh)
      /\ ~ server.stopping => Alive(fresh)
  BY <1>6, <1>7, SettledSound DEF Sound
<1> HIDE DEF fresh
<1>9. /\ Sound(fresh) /\ ~ fresh.ws
      /\ fresh.tcp => fresh.socket = s
      /\ ~ server.stopping => Alive(fresh)
  BY <1>3, <1>8 DEF NoNewLease
<1> QED BY <1>9 DEF fresh, j, k

\* The acceptance of a connection keeps it: a slot is counted exactly for a
\* connection that holds it, also when the server is stopping and the new
\* session is destroyed at once.
LEMMA AcceptKeeps ==
    ASSUME IInv, Accept
    PROVE  IInv'
<1>1. /\ ProcessTyped' /\ RunSound' /\ server' = server /\ clock' = clock
  <2>1. listener' = [listener EXCEPT !.accept = AcceptNext]
        /\ UNCHANGED <<app, server, clock>>
    BY DEF Accept
  <2>2. AcceptNext \in {"none", "pending"}
    BY DEF AcceptNext
  <2>3. listener' \in [started : BOOLEAN, accept : {"none", "pending"} \cup Results]
    BY <2>1, <2>2 DEF IInv, ProcessTyped, ServerType
  <2> QED BY <2>1, <2>3 DEF IInv, ProcessTyped, ServerType, RunSound
<1>2. clock \in Nat /\ Accounts(ledger, conns) /\ DOMAIN conns = Connections /\ Shaped(ledger)
  BY ClockIsNat DEF IInv, Connected, Accounts
<1>3. CASE UNCHANGED <<conns, ledger>>
  BY <1>1, <1>3 DEF IInv, Connected, AllAlive
<1>4. ASSUME NEW s \in Sockets,
             LET reserved == reserve_tcp_connection(ledger, s, clock)
                 Free == {c \in Connections : conns[c].stage = "free"}
                 fresh == Settled(read_next_request(
                             [FreeConnection EXCEPT !.stage = "http", !.socket = s,
                                                    !.tcp = TRUE, !.registered = TRUE])) IN
             \/ /\ ~ reserved.allowed
                /\ ledger' = reserved.ledger
                /\ UNCHANGED conns
             \/ /\ reserved.allowed /\ Free # {}
                /\ conns' = [conns EXCEPT ![CHOOSE c \in Free : TRUE] = fresh]
                /\ ledger' = Released(reserved.ledger, [fresh EXCEPT !.tcp = TRUE, !.socket = s],
                                      fresh, clock)
      PROVE  IInv'
  <2> DEFINE reserved == reserve_tcp_connection(ledger, s, clock)
             Unused == {c \in Connections : conns[c].stage = "free"}
             x == CHOOSE c \in Unused : TRUE
             fresh == Settled(read_next_request(
                         [FreeConnection EXCEPT !.stage = "http", !.socket = s,
                                                !.tcp = TRUE, !.registered = TRUE]))
             before == [fresh EXCEPT !.tcp = TRUE, !.socket = s]
             mid == [conns EXCEPT ![x] = before]
  <2>1. \/ ~ reserved.allowed /\ ledger' = reserved.ledger /\ conns' = conns
        \/ /\ reserved.allowed /\ Unused # {}
           /\ conns' = [conns EXCEPT ![x] = fresh]
           /\ ledger' = Released(reserved.ledger, before, fresh, clock)
    BY <1>4
  <2>2. \/ ~ reserved.allowed /\ SameSlots(ledger, reserved.ledger)
        \/ /\ reserved.allowed
           /\ \E m : SameSlots(ledger, m) /\ OneMoreTcp(m, reserved.ledger, s)
    BY <1>2, TcpReserved
  <2>3. /\ Sound(fresh) /\ ~ fresh.ws
        /\ fresh.tcp => fresh.socket = s
        /\ ~ server.stopping => Alive(fresh)
    BY FreshSound
  <2>4. SameTcp(conns, conns) /\ SameWs(conns, conns)
    BY DEF SameTcp, SameWs
  <2> HIDE DEF reserved, fresh
  <2>5. CASE ~ reserved.allowed
    <3>1. Accounts(ledger', conns')
      BY <1>2, <2>1, <2>2, <2>4, <2>5, AccountsKept
    <3>2. Connected'
      BY <2>1, <2>5, <3>1 DEF IInv, Connected
    <3>3. AllAlive'
      BY <1>1, <2>1, <2>5 DEF IInv, AllAlive
    <3> QED BY <1>1, <3>2, <3>3 DEF IInv
  <2>6. CASE reserved.allowed
    <3>1. x \in Connections /\ conns[x].stage = "free"
      BY <2>1, <2>6
    <3>2. ~ conns[x].tcp /\ ~ conns[x].ws
      BY <3>1 DEF IInv, Connected, Sound, Placed
    <3>3. fresh \in Connection
      BY <2>3 DEF Sound, Typed
    <3>4. before.tcp = TRUE /\ before.socket = s /\ before.ws = fresh.ws
          /\ before.principal = fresh.principal
      BY <3>3 DEF Connection
    <3> HIDE DEF x, before
    <3>5. mid[x] = before /\ \A d \in Connections \ {x} : mid[d] = conns[d]
      BY <1>2, <3>1
    <3> HIDE DEF mid
    <3>6. PICK m : SameSlots(ledger, m) /\ OneMoreTcp(m, reserved.ledger, s)
      BY <2>2, <2>6
    <3>7. Accounts(m, conns)
      BY <1>2, <2>4, <3>6, AccountsKept
    <3>8. SameWs(conns, mid)
      BY <2>3, <3>1, <3>2, <3>4, <3>5 DEF SameWs, WsHolders
    <3>9. /\ mid[x].tcp /\ mid[x].socket = s
          /\ \A d \in Connections \ {x} : /\ mid[d].tcp <=> conns[d].tcp
                                          /\ mid[d].socket = conns[d].socket
      BY <3>4, <3>5
    <3>10. Accounts(reserved.ledger, mid)
      BY <3>1, <3>2, <3>6, <3>7, <3>8, <3>9, TcpTaken
    <3>11. Accounts(Released(reserved.ledger, before, fresh, clock), [conns EXCEPT ![x] = fresh])
      <4>1. Accounts(reserved.ledger, [conns EXCEPT ![x] = before])
        BY <3>10 DEF mid
      <4>2. /\ fresh.tcp => before.tcp /\ fresh.socket = before.socket
            /\ fresh.ws => before.ws /\ fresh.principal = before.principal
        BY <2>3, <3>4
      <4> QED BY <1>2, <3>1, <4>1, <4>2, ReleasedAccounts
    <3>12. conns' = [conns EXCEPT ![x] = fresh]
           /\ ledger' = Released(reserved.ledger, before, fresh, clock)
      BY <2>1, <2>6
    <3>13. Connected'
      <4>1. conns' \in [Connections -> Connection]
        BY <3>1, <3>3, <3>12 DEF IInv, Connected
      <4>2. \A d \in Connections : Sound(conns'[d])
        BY <2>3, <3>1, <3>12 DEF IInv, Connected
      <4>3. Accounts(ledger', conns')
        BY <3>11, <3>12
      <4> QED BY <4>1, <4>2, <4>3 DEF Connected
    <3>14. AllAlive'
      BY <1>1, <1>2, <2>3, <3>1, <3>12 DEF IInv, AllAlive
    <3> QED BY <1>1, <3>13, <3>14 DEF IInv
  <2> QED BY <2>5, <2>6
<1>5. \/ UNCHANGED <<conns, ledger>>
      \/ \E s \in Sockets :
             LET reserved == reserve_tcp_connection(ledger, s, clock)
                 Free == {c \in Connections : conns[c].stage = "free"}
                 fresh == Settled(read_next_request(
                             [FreeConnection EXCEPT !.stage = "http", !.socket = s,
                                                    !.tcp = TRUE, !.registered = TRUE])) IN
             \/ /\ ~ reserved.allowed
                /\ ledger' = reserved.ledger
                /\ UNCHANGED conns
             \/ /\ reserved.allowed /\ Free # {}
                /\ conns' = [conns EXCEPT ![CHOOSE c \in Free : TRUE] = fresh]
                /\ ledger' = Released(reserved.ledger, [fresh EXCEPT !.tcp = TRUE, !.socket = s],
                                      fresh, clock)
  BY DEF Accept
<1> QED BY <1>3, <1>4, <1>5

\* Steps that change no connection.
LEMMA ProcessKeeps ==
    ASSUME IInv, UNCHANGED <<conns, ledger>>, server'.stopping = server.stopping,
           ProcessTyped', RunSound'
    PROVE  IInv'
BY DEF IInv, Connected, AllAlive

\* The listener keeps its type when it is stopped.
LEMMA StopListenerTyped ==
    ASSUME ProcessTyped, StopListener
    PROVE  listener' \in [started : BOOLEAN, accept : {"none", "pending"} \cup Results]
<1> DEFINE a == IF listener.accept = "pending" THEN "error" ELSE listener.accept
<1>1. a \in {"none", "pending"} \cup Results
  BY DEF ProcessTyped, Results
<1>2. listener' = [listener EXCEPT !.started = FALSE, !.accept = a]
  BY DEF StopListener
<1> HIDE DEF a
<1> QED BY <1>1, <1>2 DEF ProcessTyped

\* begin_stop_on_executor keeps the invariant.
LEMMA StopKeeps ==
    ASSUME IInv, begin_stop_on_executor
    PROVE  IInv'
<1>1. /\ clock' = clock /\ app' = app
      /\ server'.run = server.run /\ server'.state = server.state
      /\ ProcessTyped'
  <2>1. clock' = clock /\ app' = app
    BY DEF begin_stop_on_executor
  <2>2. listener' \in [started : BOOLEAN, accept : {"none", "pending"} \cup Results]
    BY StopListenerTyped DEF begin_stop_on_executor, IInv, ProcessTyped, ServerType
  <2>3. \E d \in BOOLEAN : \/ server' = [server EXCEPT !.posted = @ \ {"stop"}]
                          \/ server' = [server EXCEPT !.posted = @ \ {"stop"}, !.stopping = TRUE,
                                                      !.io_stopped = d, !.timer = ~ d]
    <3>1. (\A c \in Connections : ~ conns'[c].registered) \in BOOLEAN
      OBVIOUS
    <3> QED BY <3>1 DEF begin_stop_on_executor
  <2>4. /\ server' \in ServerType
        /\ server'.run = server.run /\ server'.state = server.state
    <3>1. CASE server' = [server EXCEPT !.posted = @ \ {"stop"}]
      BY <3>1 DEF IInv, ProcessTyped, ServerType
    <3>2. ASSUME NEW d \in BOOLEAN, NEW e \in BOOLEAN,
                 server' = [server EXCEPT !.posted = @ \ {"stop"}, !.stopping = TRUE,
                                          !.io_stopped = d, !.timer = e]
          PROVE  /\ server' \in ServerType
                 /\ server'.run = server.run /\ server'.state = server.state
      BY <3>2 DEF IInv, ProcessTyped, ServerType
    <3> QED BY <2>3, <3>1, <3>2
  <2> QED BY <2>1, <2>2, <2>4 DEF IInv, ProcessTyped, ServerType
<1>2. RunSound'
  BY <1>1 DEF IInv, RunSound
<1>3. CASE server.stopping
  <2>1. UNCHANGED <<conns, ledger>> /\ server'.stopping = server.stopping
    BY <1>3 DEF IInv, ProcessTyped, ServerType, begin_stop_on_executor
  <2> QED BY <1>1, <1>2, <2>1, ProcessKeeps
<1>4. CASE ~ server.stopping
  <2>1. StopSessions(StopGracefully) /\ server'.stopping
    BY <1>4 DEF IInv, ProcessTyped, ServerType, begin_stop_on_executor
  <2>2. Connected'
    BY <2>1, StopGracefullyKeeps
  <2>3. AllAlive'
    BY <2>1 DEF AllAlive
  <2> QED BY <1>1, <1>2, <2>2, <2>3 DEF IInv
<1> QED BY <1>3, <1>4

\* The shutdown deadline keeps it.
LEMMA DeadlineKeeps ==
    ASSUME IInv, ShutdownDeadline
    PROVE  IInv'
<1>1. /\ server'.run = server.run /\ server'.state = server.state
      /\ server'.stopping = server.stopping
      /\ ProcessTyped'
  BY DEF IInv, ProcessTyped, ServerType, ShutdownDeadline
<1>2. RunSound'
  BY <1>1 DEF IInv, RunSound
<1>3. Connected' /\ (~ server.stopping => \A c \in Connections : Alive(conns'[c]))
  BY StopNowKeeps DEF ShutdownDeadline
<1>4. AllAlive'
  BY <1>1, <1>3 DEF AllAlive
<1> QED BY <1>1, <1>2, <1>3, <1>4 DEF IInv

\* fail_on_executor keeps it.
LEMMA FailKeeps ==
    ASSUME IInv, fail_on_executor
    PROVE  IInv'
<1>1. /\ server'.run = server.run /\ server'.state = server.state
      /\ server'.stopping
      /\ ProcessTyped'
  <2>1. listener' \in [started : BOOLEAN, accept : {"none", "pending"} \cup Results]
    BY StopListenerTyped DEF fail_on_executor, IInv
  <2> QED BY <2>1 DEF IInv, ProcessTyped, ServerType, fail_on_executor
<1>2. RunSound'
  BY <1>1 DEF IInv, RunSound
<1>3. Connected'
  BY StopNowKeeps DEF fail_on_executor
<1>4. AllAlive'
  BY <1>1 DEF AllAlive
<1> QED BY <1>1, <1>2, <1>3, <1>4 DEF IInv

\* The threads' own steps and the listener's.
LEMMA ThreadsKeep ==
    ASSUME IInv,
           \/ Application \/ RunBegins \/ Listen \/ Announce \/ RunReturns
           \/ AcceptEnds \/ AcceptFails \/ TimePasses \/ Ended
    PROVE  IInv'
<1>1. UNCHANGED <<conns, ledger>>
  BY DEF Application, AppStarts, AppResolves, AppWakes, AppStops, AppPosts, AppJoins,
         RunBegins, Listen, Announce, RunReturns, AcceptEnds, AcceptFails, TimePasses,
         Ended, vars
<1>2. ProcessTyped' /\ RunSound' /\ server'.stopping = server.stopping
  <2>1. CASE AppStarts
    BY <2>1 DEF IInv, ProcessTyped, ServerType, RunSound, AppStarts
  <2>7. CASE AppResolves \/ AppWakes \/ AppJoins
    BY <2>7 DEF IInv, ProcessTyped, ServerType, RunSound, AppResolves, AppWakes, AppJoins
  <2>8. CASE AppStops
    <3>1. app' \in {"post", "join"} /\ UNCHANGED <<listener, clock>>
      BY <2>8 DEF AppStops
    <3>2. \/ server' = server
          \/ /\ server.state = "ready"
             /\ server' = [server EXCEPT !.state = "stopped", !.io_stopped = TRUE]
          \/ server' = [server EXCEPT !.state = "stopping"]
      BY <2>8 DEF AppStops
    <3>3. CASE server' = server
      BY <3>1, <3>3 DEF IInv, ProcessTyped, ServerType, RunSound
    <3>4. CASE /\ server.state = "ready"
               /\ server' = [server EXCEPT !.state = "stopped", !.io_stopped = TRUE]
      BY <3>1, <3>4 DEF IInv, ProcessTyped, ServerType, RunSound
    <3>5. CASE server' = [server EXCEPT !.state = "stopping"]
      BY <3>1, <3>5 DEF IInv, ProcessTyped, ServerType, RunSound
    <3> QED BY <3>2, <3>3, <3>4, <3>5
  <2>9. CASE AppPosts
    BY <2>9 DEF IInv, ProcessTyped, ServerType, RunSound, AppPosts
  <2>2. CASE RunBegins
    BY <2>2 DEF IInv, ProcessTyped, ServerType, RunSound, RunBegins
  <2>10. CASE Announce
    <3> DEFINE a == IF server.state = "starting" THEN "running" ELSE server.state
    <3>1. server' = [server EXCEPT !.run = "loop", !.state = a]
      BY <2>10 DEF Announce
    <3>2. /\ a \in {"ready", "starting", "running", "stopping", "stopped", "failed"}
          /\ server.run = "announce" => a \in {"starting", "running", "stopping"}
      BY DEF IInv, ProcessTyped, ServerType, RunSound
    <3> HIDE DEF a
    <3>3. server.run = "announce" /\ UNCHANGED <<app, listener, clock>>
      BY <2>10 DEF Announce
    <3> QED BY <3>1, <3>2, <3>3 DEF IInv, ProcessTyped, ServerType, RunSound
  <2>11. CASE RunReturns
    BY <2>11 DEF IInv, ProcessTyped, ServerType, RunSound, RunReturns
  <2>5. CASE Listen
    <3>1. /\ server.run = "listen" /\ UNCHANGED <<app, clock>>
          /\ \/ /\ listener' = [started |-> TRUE, accept |-> "pending"]
                /\ server' = [server EXCEPT !.run = "announce"]
             \/ /\ server' = [server EXCEPT !.state = "failed", !.run = "returned",
                                            !.failure = TRUE, !.io_stopped = TRUE]
                /\ listener' = listener
      BY <2>5 DEF Listen
    <3>2. CASE /\ listener' = [started |-> TRUE, accept |-> "pending"]
               /\ server' = [server EXCEPT !.run = "announce"]
      BY <3>1, <3>2 DEF IInv, ProcessTyped, ServerType, RunSound
    <3>3. CASE /\ server' = [server EXCEPT !.state = "failed", !.run = "returned",
                                            !.failure = TRUE, !.io_stopped = TRUE]
               /\ listener' = listener
      BY <3>1, <3>3 DEF IInv, ProcessTyped, ServerType, RunSound
    <3> QED BY <3>1, <3>2, <3>3
  <2>3. CASE AcceptEnds
    BY <2>3 DEF IInv, ProcessTyped, ServerType, RunSound, AcceptEnds, Results
  <2>6. CASE AcceptFails
    <3>1. /\ app' = app /\ clock' = clock
          /\ server' = server \/ server' = [server EXCEPT !.posted = @ \cup {"fail"}]
          /\ \E a \in {"none", "pending"} : listener' = [listener EXCEPT !.accept = a]
      BY <2>6 DEF AcceptFails, AcceptNext
    <3> QED BY <3>1 DEF IInv, ProcessTyped, ServerType, RunSound
  <2>4. CASE TimePasses \/ Ended
    BY <2>4, GameServerAssumption DEF IInv, ProcessTyped, ServerType, RunSound, TimePasses, Ended, vars
  <2> QED BY <2>1, <2>2, <2>3, <2>4, <2>5, <2>6, <2>7, <2>8, <2>9, <2>10, <2>11 DEF Application
<1> QED BY <1>1, <1>2, ProcessKeeps

\* The invariant holds initially.
LEMMA InitHolds == Init => IInv
<1> SUFFICES ASSUME Init PROVE IInv
  OBVIOUS
<1>1. ProcessTyped /\ RunSound
  BY GameServerAssumption DEF Init, ProcessTyped, ServerType, RunSound, Results
<1>2. /\ conns \in [Connections -> Connection]
      /\ \A c \in Connections : conns[c] = FreeConnection
  BY FreeFacts DEF Init
<1>3. \A c \in Connections : Sound(conns[c]) /\ Alive(conns[c])
  BY <1>2, FreeSound
<1>4. Accounts(ledger, conns)
  <2>1. TcpHolders(conns) = {} /\ WsHolders(conns) = {}
    BY <1>2, FreeFacts DEF TcpHolders, WsHolders
  <2>2. /\ ledger.peers = << >> /\ ledger.tcp = 0 /\ ledger.ws = 0
        /\ ledger = [peers |-> ledger.peers, tcp |-> ledger.tcp, ws |-> ledger.ws]
    BY DEF Init, EmptyLedger
  <2>3. Tracked(ledger) = {} /\ Shaped(ledger)
    BY <2>2 DEF Tracked, Shaped
  <2>4. DOMAIN Tcps(ledger) = {} /\ DOMAIN Wss(ledger) = {}
    BY <2>3 DEF Tcps, Wss
  <2> QED BY <2>1, <2>2, <2>3, <2>4, FS_EmptySet DEF Accounts, TcpCounted, WsCounted, Counted
<1> QED BY <1>1, <1>2, <1>3, <1>4 DEF IInv, Connected, AllAlive

\* Every step keeps it.
LEMMA StepKeeps ==
    ASSUME IInv, [Next]_vars
    PROVE  IInv'
<1>1. CASE Application \/ RunBegins \/ Listen \/ Announce \/ RunReturns
           \/ AcceptEnds \/ AcceptFails \/ TimePasses \/ Ended
  BY <1>1, ThreadsKeep
<1>2. CASE begin_stop_on_executor
  BY <1>2, StopKeeps
<1>3. CASE ShutdownDeadline
  BY <1>3, DeadlineKeeps
<1>4. CASE fail_on_executor
  BY <1>4, FailKeeps
<1>5. CASE Accept
  BY <1>5, AcceptKeeps
<1>6. ASSUME NEW c \in Connections,
             HeaderRead(c) \/ ResponseWritten(c) \/ Accepted(c)
             \/ WebSocketEnds(c) \/ OperationEnds(c)
      PROVE  IInv'
  BY <1>6, HeaderReadKeeps, ResponseWrittenKeeps, AcceptedKeeps, WebSocketEndsKeeps,
     OperationEndsKeeps
<1>7. CASE UNCHANGED vars
  BY <1>7 DEF vars, IInv, ProcessTyped, ServerType, RunSound, Connected, AllAlive
<1> QED BY <1>1, <1>2, <1>3, <1>4, <1>5, <1>6, <1>7 DEF Next

\* The invariant holds throughout.
THEOREM ServerInvariant == Spec => []IInv
BY InitHolds, StepKeeps, PTL DEF Spec

\* For any number of connections, peers and limits: every slot the ledger
\* counts is held by a connection and charged to a tracked principal, nobody
\* is registered without a handler before the server stops, and an upgrade
\* overtakes no response.
THEOREM EverySlotIsAccounted == Spec => []ConnectionsAreAccounted
BY ServerInvariant, InvImplies, PTL

\* A single step neither runs a server that was told to stop nor ends it twice.
LEMMA StopStays ==
    ASSUME IInv, [Next]_vars
    PROVE  /\ server.state = "stopping" => server'.state \in {"stopping", "stopped", "failed"}
           /\ server.state \in {"stopped", "failed"} => server'.state = server.state
<1>1. CASE UNCHANGED server
  BY <1>1
<1>2. CASE \E c \in Connections : HeaderRead(c) \/ ResponseWritten(c) \/ Accepted(c)
                                  \/ WebSocketEnds(c)
  <2>1. ASSUME NEW c \in Connections, NEW l, NEW k, NEW j, Became(c, l, k, j)
        PROVE  server'.state = server.state
    BY <2>1 DEF IInv, ProcessTyped, ServerType, Became
  <2>2. server'.state = server.state
    BY <1>2, <2>1 DEF HeaderRead, ResponseWritten, Accepted, WebSocketEnds
  <2> QED BY <2>2
<1>3. CASE begin_stop_on_executor \/ ShutdownDeadline \/ fail_on_executor
  BY <1>3 DEF IInv, ProcessTyped, ServerType, begin_stop_on_executor, ShutdownDeadline, fail_on_executor
<1>4. CASE AcceptFails
  BY <1>4 DEF IInv, ProcessTyped, ServerType, AcceptFails
<1>5. CASE RunBegins \/ Listen \/ Announce \/ RunReturns
  BY <1>5 DEF IInv, ProcessTyped, ServerType, RunSound, RunBegins, Listen, Announce, RunReturns
<1>6. CASE AppStarts \/ AppStops \/ AppPosts
  BY <1>6 DEF IInv, ProcessTyped, ServerType, AppStarts, AppStops, AppPosts
<1>7. \/ UNCHANGED server
      \/ \E c \in Connections : HeaderRead(c) \/ ResponseWritten(c) \/ Accepted(c)
                                \/ WebSocketEnds(c)
      \/ begin_stop_on_executor \/ ShutdownDeadline \/ fail_on_executor
      \/ AcceptFails
      \/ RunBegins \/ Listen \/ Announce \/ RunReturns
      \/ AppStarts \/ AppStops \/ AppPosts
  BY DEF Next, Application, AppResolves, AppWakes, AppJoins, AcceptEnds, Accept,
         OperationEnds, TimePasses, Ended, vars
<1> QED BY <1>1, <1>2, <1>3, <1>4, <1>5, <1>6, <1>7

\* Whichever of run() and stop() comes first, a server that was told to stop
\* does not run again and ends once.
THEOREM StopsAreKept == Spec => StopIsNotLost
<1>1. IInv /\ [Next]_vars =>
        [/\ server.state = "stopping" => server'.state \in {"stopping", "stopped", "failed"}
         /\ server.state \in {"stopped", "failed"} => server'.state = server.state]_vars
  BY StopStays
<1> QED BY <1>1, ServerInvariant, PTL DEF Spec, StopIsNotLost

====
