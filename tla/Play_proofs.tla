---------------------------- MODULE Play_proofs ----------------------------
(***************************************************************************)
(* Proofs about what happens on the field: Combat, Modes and Bots, which   *)
(* the run `play` checks together.                                         *)
(*                                                                         *)
(* Combat: a stun and a death end what they are to end, the guards of a    *)
(* body are spaced, and charges that hit each other stun both, for any     *)
(* number of fighters, any lengths of the windows and any number of        *)
(* contacts in a tick.  One lemma for each system says what it may change  *)
(* of a fighter (AgedFacts, SteerFacts, AbilityFacts, StatusFacts,         *)
(* RespawnFacts), by its parts.  The contacts of a tick are a fold over    *)
(* the events: ChargeContactSettles unfolds it into the states after each  *)
(* event, and ContactFacts follows an attempt through them up to its first *)
(* hit.                                                                    *)
(*                                                                         *)
(* Modes: standings rank by time, points fit the match's clock, the hill   *)
(* stays in the arena, and a lost body comes back in time, for any number  *)
(* of players, any course, any markers and any lengths of the windows.     *)
(* SumGrows and RecorderRanks unfold the sum of the points and the         *)
(* recursion of the standings.  MInv adds to the properties that a running *)
(* match is undecided, by which its clock never reaches its bound, that no *)
(* points are left over before a match, and how long a body is awaited;    *)
(* Ticked says what the systems of any mode may make of a player.          *)
(*                                                                         *)
(* Bots: no tactical bot's body is driven by a thrust the bot has given    *)
(* up, for any profile, any surroundings and any alternation of decisions  *)
(* and ticks.  Answers says what every decision does about its thrust;     *)
(* BInv adds what the engine can have changed of a published body          *)
(* (Published), that a late thrust is drained before a lost body returns   *)
(* (Late), that nothing is on its way to a stunned body (Subdued), and     *)
(* that a bot without a target holds nothing but a stop (Holding), which   *)
(* needs selection to choose one of its candidates (FirstExists).          *)
(*                                                                         *)
(* The induction is over numbers and finite sets of them; the library's    *)
(* takes an operator as a parameter, so NatSets and SubsetInduction state  *)
(* it for sets, as in Room_proofs.                                         *)
(***************************************************************************)
EXTENDS Modes, Combat, Bots, FiniteSetTheorems, SequenceTheorems, WellFoundedInduction, TLAPS

\* Induction over the natural numbers, stated for a set of them.
LEMMA NatSets ==
    ASSUME NEW S, 0 \in S, \A n \in Nat : n \in S => n + 1 \in S
    PROVE  Nat \subseteq S
<1> DEFINE R == OpToRel(<, Nat)
           T == Nat \ S
<1>1. IsWellFoundedOn(R, Nat)
  BY NatLessThanWellFounded
<1>2. \A x, y \in Nat : x < y => <<x, y>> \in R
  BY SMT DEF OpToRel
<1> HIDE DEF R
<1>3. SUFFICES ASSUME T # {} PROVE FALSE
  OBVIOUS
<1>4. \E x \in T : \A y \in T : ~ (<<y, x>> \in R)
  <2>1. T \subseteq Nat
    OBVIOUS
  <2> HIDE DEF T
  <2> QED BY <1>1, <1>3, <2>1, WFMin
<1>5. PICK x \in T : \A y \in T : ~ (<<y, x>> \in R)
  BY <1>4
<1>6. x \in Nat \ {0}
  OBVIOUS
<1>7. x - 1 \in Nat /\ x - 1 < x /\ x = (x - 1) + 1
  BY <1>6
<1>8. x - 1 \in T
  BY <1>6, <1>7
<1>9. <<x - 1, x>> \in R
  BY <1>2, <1>6, <1>7
<1> QED BY <1>5, <1>8, <1>9

\* Induction up to a bound.
LEMMA UpTo ==
    ASSUME NEW n \in Nat, NEW S, 0 \in S, \A k \in 1 .. n : k - 1 \in S => k \in S
    PROVE  \A k \in 0 .. n : k \in S
<1> DEFINE T == {k \in Nat : k <= n => k \in S}
<1>1. 0 \in T
  OBVIOUS
<1>2. ASSUME NEW k \in Nat, k \in T PROVE k + 1 \in T
  <2> SUFFICES ASSUME k + 1 <= n PROVE k + 1 \in S
    OBVIOUS
  <2>1. k \in S /\ k + 1 \in 1 .. n /\ (k + 1) - 1 = k
    BY <1>2
  <2> QED BY <2>1
<1> HIDE DEF T
<1>3. Nat \subseteq T
  BY <1>1, <1>2, NatSets
<1> QED BY <1>3 DEF T

\* Induction over the subsets of a finite set, stated for a set of them: what
\* holds of a subset whenever it holds of those that are smaller.
LEMMA SubsetInduction ==
    ASSUME NEW C, IsFiniteSet(C), NEW Good,
           \A S \in SUBSET C : (\A x \in S : S \ {x} \in Good) => S \in Good
    PROVE  \A S \in SUBSET C : S \in Good
<1> DEFINE Ns == {n \in Nat : \A S \in SUBSET C : Cardinality(S) = n => S \in Good}
<1>1. \A S \in SUBSET C : IsFiniteSet(S) /\ Cardinality(S) \in Nat
  BY FS_Subset, FS_CardinalityType
<1>2. 0 \in Ns
  <2> SUFFICES ASSUME NEW S \in SUBSET C, Cardinality(S) = 0 PROVE S \in Good
    OBVIOUS
  <2>1. S = {}
    BY <1>1, FS_EmptySet
  <2> QED BY <2>1
<1>3. ASSUME NEW n \in Nat, n \in Ns PROVE n + 1 \in Ns
  <2> SUFFICES ASSUME NEW S \in SUBSET C, Cardinality(S) = n + 1 PROVE S \in Good
    OBVIOUS
  <2>1. ASSUME NEW x \in S PROVE S \ {x} \in Good
    <3>1. Cardinality(S \ {x}) = Cardinality(S) - 1
      BY <1>1, FS_RemoveElement
    <3>2. Cardinality(S \ {x}) = n
      BY <3>1
    <3> QED BY <1>3, <3>2
  <2> QED BY <2>1
<1> HIDE DEF Ns
<1>4. Nat \subseteq Ns
  BY <1>2, <1>3, NatSets
<1> USE DEF Ns
<1>5. ASSUME NEW S \in SUBSET C PROVE S \in Good
  BY <1>1, <1>4
<1> QED BY <1>5

---------------------------------------------------------------------------
(* Combat: the contacts of a tick.                                         *)

\* A finite set of natural numbers has a greatest element.
LEMMA Greatest ==
    ASSUME NEW S, IsFiniteSet(S), S # {}, S \subseteq Nat
    PROVE  Max(S) \in S /\ \A x \in S : Max(S) >= x
<1> DEFINE Good == {T \in SUBSET S : T # {} => \E m \in T : \A x \in T : m >= x}
<1>1. ASSUME NEW T \in SUBSET S, \A x \in T : T \ {x} \in Good PROVE T \in Good
  <2> SUFFICES ASSUME NEW y \in T PROVE \E m \in T : \A x \in T : m >= x
    OBVIOUS
  <2>1. T \subseteq Nat /\ y \in Nat
    OBVIOUS
  <2>2. CASE T \ {y} = {}
    BY <2>1, <2>2
  <2>3. CASE T \ {y} # {}
    <3>1. PICK m \in T \ {y} : \A x \in T \ {y} : m >= x
      BY <1>1, <2>3
    <3>2. m \in Nat
      BY <2>1
    <3>3. CASE m >= y
      BY <3>1, <3>3
    <3>4. CASE y >= m
      BY <2>1, <3>1, <3>2, <3>4
    <3> QED BY <2>1, <3>2, <3>3, <3>4
  <2> QED BY <2>2, <2>3
<1> HIDE DEF Good
<1>2. \A T \in SUBSET S : T \in Good
  BY <1>1, SubsetInduction
<1>3. \E m \in S : \A x \in S : m >= x
  BY <1>2 DEF Good
<1> QED BY <1>3 DEF Max

\* What the fold of charge_contact computes: at[k] is what it has after the
\* first k events.
Settled(at, ps) ==
    /\ at[0] = [fighters |-> ps, requests |-> {e \in ToSet(events) : e.kind = "stun"}]
    /\ \A k \in 1 .. Len(events) : at[k] = Settle(at[k - 1], events[k])
    /\ charge_contact(ps) = at[Len(events)]

\* The fold can be unfolded so.
LEMMA ChargeContactSettles ==
    ASSUME NEW ps, Len(events) \in Nat, DOMAIN events = 1 .. Len(events)
    PROVE  \E at : Settled(at, ps)
<1> DEFINE D == DOMAIN events
           base == [fighters |-> ps, requests |-> {e \in ToSet(events) : e.kind = "stun"}]
           it == CHOOSE g : g = [s \in SUBSET (DOMAIN events) |->
                                    IF s = {} THEN base ELSE Settle(g[s \ {Max(s)}], events[Max(s)])]
           Then(f, s) == IF s = {} THEN base ELSE Settle(f[s \ {Max(s)}], events[Max(s)])
           IsFamily(f) == f = [s \in SUBSET D |-> f[s]]
           Upto(f, n) == \A s \in SUBSET D : Cardinality(s) <= n => f[s] = Then(f, s)
           Ns == {n \in Nat : \E f : IsFamily(f) /\ Upto(f, n)}
<1>1. charge_contact(ps) = it[DOMAIN events]
  BY Zenon DEF charge_contact, FoldLeft, MapThenFoldSet
<1>2. IsFiniteSet(D) /\ Cardinality(D) \in Nat
  BY FS_Interval, FS_CardinalityType
<1>3. ASSUME NEW s \in SUBSET D
      PROVE  /\ IsFiniteSet(s) /\ Cardinality(s) \in Nat /\ (Cardinality(s) = 0 <=> s = {})
             /\ Cardinality(s) <= Cardinality(D)
  <2> HIDE DEF D
  <2> QED BY <1>2, FS_Subset, FS_CardinalityType, FS_EmptySet
<1>4. ASSUME NEW s \in SUBSET D, s # {}
      PROVE  s \ {Max(s)} \in SUBSET D /\ Cardinality(s \ {Max(s)}) = Cardinality(s) - 1
  <2>1. s \subseteq Nat
    OBVIOUS
  <2>2. Max(s) \in s
    BY <1>3, <1>4, <2>1, Greatest
  <2> HIDE DEF D
  <2> QED BY <1>3, <2>2, FS_RemoveElement
<1>5. 0 \in Ns
  <2> DEFINE f == [s \in SUBSET D |-> base]
  <2>1. IsFamily(f)
    OBVIOUS
  <2>2. Upto(f, 0)
    BY <1>3
  <2> HIDE DEF f, Upto, IsFamily
  <2> QED BY <2>1, <2>2
<1>6. ASSUME NEW n \in Nat, n \in Ns PROVE n + 1 \in Ns
  <2>1. PICK f : IsFamily(f) /\ Upto(f, n)
    BY <1>6
  <2> DEFINE h == [s \in SUBSET D |-> Then(f, s)]
  <2>2. ASSUME NEW s \in SUBSET D, Cardinality(s) <= n + 1 PROVE h[s] = Then(h, s)
    <3>1. CASE s = {}
      BY <3>1
    <3>2. CASE s # {}
      <4> DEFINE u == s \ {Max(s)}
      <4>1. u \in SUBSET D /\ Cardinality(u) <= n
        BY <1>3, <1>4, <2>2, <3>2
      <4>2. f[u] = Then(f, u)
        BY <2>1, <4>1
      <4>3. h[u] = f[u]
        BY <4>1, <4>2
      <4>4. h[s] = Then(f, s)
        OBVIOUS
      <4> HIDE DEF h, D, base
      <4> QED BY <3>2, <4>3, <4>4
    <3> QED BY <3>1, <3>2
  <2>3. IsFamily(h) /\ Upto(h, n + 1)
    BY <2>2
  <2> HIDE DEF h, Upto, IsFamily
  <2> QED BY <2>3
<1>7. \E f : f = [s \in SUBSET D |-> Then(f, s)]
  <2> DEFINE N == Cardinality(D)
  <2>1. N \in Nat /\ \A s \in SUBSET D : Cardinality(s) <= N
    BY <1>2, <1>3
  <2> HIDE DEF Ns, N
  <2>2. N \in Ns
    BY <1>5, <1>6, <2>1, NatSets
  <2> USE DEF Ns
  <2>3. PICK f : IsFamily(f) /\ Upto(f, N)
    BY <2>2
  <2>4. \A s \in SUBSET D : f[s] = Then(f, s)
    BY <2>1, <2>3
  <2>5. f = [s \in SUBSET D |-> f[s]]
    BY <2>3
  <2> HIDE DEF Then, Upto, IsFamily, D
  <2>6. f = [s \in SUBSET D |-> Then(f, s)]
    BY <2>4, <2>5
  <2> QED BY <2>6
<1>8. it = [s \in SUBSET D |-> Then(it, s)]
  <2>1. PICK f : f = [s \in SUBSET D |-> Then(f, s)]
    BY <1>7
  <2>2. f = [s \in SUBSET (DOMAIN events) |-> IF s = {} THEN base ELSE Settle(f[s \ {Max(s)}], events[Max(s)])]
    BY <2>1
  <2> QED BY Zenon, <2>2
<1> HIDE DEF it, base
<1> DEFINE at == [k \in 0 .. Len(events) |-> it[1 .. k]]
<1>9. at[0] = base
  <2>1. 1 .. 0 = {} /\ {} \in SUBSET D /\ 0 \in 0 .. Len(events)
    OBVIOUS
  <2>2. it[{}] = base
    BY <1>8, <2>1
  <2> QED BY <2>1, <2>2
<1>10. ASSUME NEW k \in 1 .. Len(events) PROVE at[k] = Settle(at[k - 1], events[k])
  <2> DEFINE s == 1 .. k
  <2>1. s \in SUBSET D /\ s # {} /\ k \in 0 .. Len(events) /\ k - 1 \in 0 .. Len(events)
    <3> DEFINE n == Len(events)
    <3>1. n \in Nat /\ k \in 1 .. n /\ D = 1 .. n
      OBVIOUS
    <3> HIDE DEF n, D
    <3>2. s \subseteq D /\ k \in s /\ k \in 0 .. n /\ k - 1 \in 0 .. n
      BY <3>1
    <3> QED BY <3>2 DEF n
  <2>2. Max(s) = k
    <3>1. IsFiniteSet(s) /\ s \subseteq Nat
      BY <1>3, <2>1
    <3>2. Max(s) \in s /\ \A x \in s : Max(s) >= x
      BY <2>1, <3>1, Greatest
    <3> QED BY <3>2
  <2>3. s \ {k} = 1 .. k - 1
    OBVIOUS
  <2>4. it[s] = Settle(it[s \ {Max(s)}], events[Max(s)])
    BY <1>8, <2>1
  <2>5. it[s] = Settle(it[1 .. k - 1], events[k])
    BY <2>2, <2>3, <2>4
  <2> QED BY <2>1, <2>5
<1>11. at[Len(events)] = it[D]
  OBVIOUS
<1> HIDE DEF at
<1>12. Settled(at, ps)
  BY <1>1, <1>9, <1>10, <1>11 DEF Settled, base
<1> QED BY <1>12

---------------------------------------------------------------------------
(* Combat: the inductive invariant.                                        *)

Fighter == [body : BOOLEAN, timer : 0 .. RespawnDelay, guard : 0 .. ShieldTicks,
            perfect : 0 .. ShieldTicks, cooling : 0 .. ShieldCooldown,
            active : Nat, recharge : Nat, stun : Nat, held : HeldInputs, outdated : BOOLEAN]

\* What belongs to a body goes with it, and a stun leaves no guard, attempt or
\* held input.
Coherent(r) ==
    /\ r.perfect <= r.guard
    /\ ~ r.body => r.guard = 0 /\ r.cooling = 0 /\ r.active = 0 /\ r.recharge = 0 /\ r.stun = 0
    /\ r.stun > 0 => r.guard = 0 /\ r.active = 0 /\ r.held = "none"

\* The consequences that the kernel can have: whoever hits has an active
\* attempt, and whoever is hit a body.
Consequences ==
    {Elimination(p) : p \in Fighters} \cup {StunRequest(p, ParryStun) : p \in Fighters}
    \cup {e \in {ChargeCandidate(p, t, b) : p \in Fighters, t \in Fighters, b \in BOOLEAN} :
             fighters[e.entity].active > 0 /\ fighters[e.target].body}

CInv ==
    /\ match \in {"before", "running", "ended"} /\ turn \in 0 .. Kernel /\ hazard \in 0 .. HazardLife
    /\ fighters \in [Fighters -> Fighter] /\ guarded \in [Fighters -> 0 .. Spaced]
    /\ \A p \in Fighters : Coherent(fighters[p]) /\ fighters[p].cooling + guarded[p] >= ShieldCooldown
    /\ events \in Seq(Consequences) /\ (turn # Kernel => events = <<>>)

\* The constants, one by one.
LEMMA Bounds ==
    /\ ShieldTicks \in Nat \ {0} /\ PerfectTicks \in Nat \ {0} /\ ParryStun \in Nat \ {0}
    /\ ChargeCooldown \in Nat \ {0} /\ ChargeActive \in Nat \ {0} /\ HitStun \in Nat \ {0}
    /\ HazardLife \in Nat \ {0} /\ PerfectTicks <= ShieldTicks
    /\ ShieldCooldown \in Nat /\ RespawnDelay \in Nat /\ Spaced = ShieldCooldown + ShieldTicks
    /\ Kernel \in Nat \ {0} /\ Kernel = Cardinality(Fighters) + 1 /\ Cardinality(Fighters) \in Nat
<1>1. Cardinality(Fighters) \in Nat
  BY CombatAssumption, FS_CardinalityType
<1> DEFINE n == Cardinality(Fighters)
<1>2. n + 1 \in Nat \ {0}
  <2>1. n \in Nat
    BY <1>1
  <2> HIDE DEF n
  <2> QED BY <2>1
<1> QED BY <1>1, <1>2, CombatAssumption DEF Kernel, Spaced

\* The invariant says what the run checks.
LEMMA InvIsFinal == CInv => StunAndDeathAreFinal
<1> SUFFICES ASSUME CInv PROVE StunAndDeathAreFinal
  OBVIOUS
<1>1. ASSUME NEW p \in Fighters PROVE fighters[p] \in Fighter /\ Coherent(fighters[p])
  BY DEF CInv
<1>2. CombatTypeOK
  <2>1. ASSUME NEW r \in Fighter, Coherent(r)
        PROVE  /\ r.guard \in 0 .. ShieldTicks /\ r.perfect \in 0 .. r.guard
               /\ r.held \in HeldInputs /\ r.timer \in 0 .. RespawnDelay
    BY <2>1, Bounds DEF Fighter, Coherent
  <2> QED BY <1>1, <2>1 DEF CInv, CombatTypeOK
<1>3. StunStopsEverything
  <2>1. ASSUME NEW r \in Fighter PROVE r.stun \in Nat
    BY DEF Fighter
  <2> QED BY <1>1, <2>1 DEF StunStopsEverything, Coherent
<1>4. BodilessIsBare
  BY <1>1 DEF BodilessIsBare, Coherent
<1> QED BY <1>2, <1>3, <1>4 DEF StunAndDeathAreFinal

\* A player without a body.
LEMMA BareIsCoherent == Bare \in Fighter /\ Coherent(Bare)
BY Bounds DEF Bare, Fighter, Coherent, HeldInputs

\* It holds at first.
LEMMA CombatInitInv == CombatInit => CInv
<1> SUFFICES ASSUME CombatInit PROVE CInv
  OBVIOUS
<1>1. Spaced \in 0 .. Spaced /\ Bare.cooling + Spaced >= ShieldCooldown /\ 0 \in 0 .. Kernel /\ 0 \in 0 .. HazardLife
  BY Bounds DEF Bare
<1>2. \A p \in Fighters : fighters[p] = Bare /\ guarded[p] = Spaced
  BY DEF CombatInit
<1>3. fighters \in [Fighters -> Fighter] /\ guarded \in [Fighters -> 0 .. Spaced]
  BY <1>1, BareIsCoherent DEF CombatInit
<1>4. events \in Seq(Consequences)
  BY DEF CombatInit
<1> QED BY <1>1, <1>2, <1>3, <1>4, BareIsCoherent DEF CombatInit, CInv

---------------------------------------------------------------------------
(* Phase 0 and the systems before the kernel.                              *)

\* The names of the components.
Parts == {"body", "timer", "guard", "perfect", "cooling", "active", "recharge", "stun", "held", "outdated"}

\* When a record of them is a fighter.
LEMMA FighterByParts ==
    ASSUME NEW s, s = [x \in Parts |-> s[x]],
           s.body \in BOOLEAN, s.timer \in 0 .. RespawnDelay, s.guard \in 0 .. ShieldTicks,
           s.perfect \in 0 .. ShieldTicks, s.cooling \in 0 .. ShieldCooldown, s.active \in Nat,
           s.recharge \in Nat, s.stun \in Nat, s.held \in HeldInputs, s.outdated \in BOOLEAN
    PROVE  s \in Fighter
BY DEF Fighter, Parts

\* And the parts of a fighter.
LEMMA PartsOfFighter ==
    ASSUME NEW r \in Fighter
    PROVE  /\ r = [x \in Parts |-> r[x]] /\ DOMAIN r = Parts
           /\ r.body \in BOOLEAN /\ r.timer \in 0 .. RespawnDelay /\ r.guard \in 0 .. ShieldTicks
           /\ r.perfect \in 0 .. ShieldTicks /\ r.cooling \in 0 .. ShieldCooldown /\ r.active \in Nat
           /\ r.recharge \in Nat /\ r.stun \in Nat /\ r.held \in HeldInputs /\ r.outdated \in BOOLEAN
BY DEF Fighter, Parts

\* A tick later every window is a tick shorter.
LEMMA AgedFacts ==
    ASSUME NEW r \in Fighter, Coherent(r), NEW seated \in BOOLEAN,
           NEW s, s = [Aged(r) EXCEPT !.body = @ \/ seated]
    PROVE  s \in Fighter /\ Coherent(s) /\ s.guard <= r.guard /\ s.cooling + 1 >= r.cooling
<1> DEFINE a == Aged(r)
<1>1. /\ a = [x \in Parts |-> a[x]] /\ a.body = r.body
      /\ a.guard = OneLess(r.guard) /\ a.perfect = OneLess(r.perfect) /\ a.cooling = OneLess(r.cooling)
      /\ a.active = OneLess(r.active) /\ a.recharge = OneLess(r.recharge) /\ a.stun = OneLess(r.stun)
      /\ a.timer = r.timer /\ a.held = r.held /\ a.outdated = r.outdated
  <2>1. DOMAIN r = Parts
    BY PartsOfFighter
  <2> QED BY <2>1 DEF Aged, Parts
<1>2. s = [a EXCEPT !.body = @ \/ seated]
  OBVIOUS
<1> HIDE DEF a
<1>3. /\ s = [x \in Parts |-> s[x]] /\ s.body = (a.body \/ seated)
      /\ s.guard = a.guard /\ s.perfect = a.perfect /\ s.cooling = a.cooling
      /\ s.active = a.active /\ s.recharge = a.recharge /\ s.stun = a.stun
      /\ s.timer = a.timer /\ s.held = a.held /\ s.outdated = a.outdated
  BY <1>1, <1>2 DEF Parts
<1>4. \A n \in Nat : OneLess(n) \in Nat /\ OneLess(n) <= n /\ OneLess(n) + 1 >= n /\ (n = 0 => OneLess(n) = 0)
  BY DEF OneLess
<1>5. /\ s.guard \in 0 .. ShieldTicks /\ s.perfect \in 0 .. ShieldTicks /\ s.cooling \in 0 .. ShieldCooldown
      /\ s.active \in Nat /\ s.recharge \in Nat /\ s.stun \in Nat /\ s.body \in BOOLEAN
      /\ s.timer \in 0 .. RespawnDelay /\ s.held \in HeldInputs /\ s.outdated \in BOOLEAN
  BY <1>1, <1>3, <1>4, PartsOfFighter, Bounds
<1>6. s \in Fighter
  BY <1>3, <1>5, FighterByParts
<1>7. s.guard <= r.guard /\ s.cooling + 1 >= r.cooling /\ (s.stun > 0 => r.stun > 0)
  BY <1>1, <1>3, <1>4, PartsOfFighter, Bounds
<1>8. s.perfect <= s.guard
  BY <1>1, <1>3, PartsOfFighter, Bounds DEF Coherent, OneLess
<1>9. ~ s.body => s.guard = 0 /\ s.cooling = 0 /\ s.active = 0 /\ s.recharge = 0 /\ s.stun = 0
  BY <1>1, <1>3, PartsOfFighter DEF Coherent, OneLess
<1>10. s.stun > 0 => s.guard = 0 /\ s.active = 0 /\ s.held = "none"
  BY <1>1, <1>3, <1>7, PartsOfFighter DEF Coherent, OneLess
<1> QED BY <1>6, <1>7, <1>8, <1>9, <1>10 DEF Coherent

\* The next tick begins.
LEMMA OpenTickKeeps ==
    ASSUME CInv, OpenTick
    PROVE  CInv' /\ \A p \in Fighters : ~ Activates(fighters[p], fighters'[p])
<1>1. PICK seated \in SUBSET {p \in Fighters : ~ fighters[p].body /\ fighters[p].timer = 0} :
        fighters' = [p \in Fighters |-> [Aged(fighters[p]) EXCEPT !.body = @ \/ p \in seated]]
  BY DEF OpenTick
<1>2. /\ turn = 0 /\ turn' = 1 /\ UNCHANGED <<match, hazard, events>>
      /\ guarded' = [p \in Fighters |-> IF guarded[p] = Spaced THEN Spaced ELSE guarded[p] + 1]
  BY DEF OpenTick
<1>3. ASSUME NEW p \in Fighters
      PROVE  /\ fighters'[p] \in Fighter /\ Coherent(fighters'[p])
             /\ fighters'[p].guard <= fighters[p].guard
             /\ fighters'[p].cooling + 1 >= fighters[p].cooling
  <2>1. fighters[p] \in Fighter /\ Coherent(fighters[p]) /\ (p \in seated) \in BOOLEAN
    BY DEF CInv
  <2>2. fighters'[p] = [Aged(fighters[p]) EXCEPT !.body = @ \/ p \in seated]
    BY <1>1
  <2> DEFINE b == p \in seated
             r == fighters[p]
  <2>3. r \in Fighter /\ Coherent(r) /\ b \in BOOLEAN /\ fighters'[p] = [Aged(r) EXCEPT !.body = @ \/ b]
    BY <2>1, <2>2
  <2> HIDE DEF b, r
  <2>4. /\ fighters'[p] \in Fighter /\ Coherent(fighters'[p])
        /\ fighters'[p].guard <= r.guard /\ fighters'[p].cooling + 1 >= r.cooling
    BY <2>3, AgedFacts
  <2> QED BY <2>4 DEF r
<1>4. ASSUME NEW p \in Fighters
      PROVE  /\ fighters[p].guard \in Nat /\ fighters'[p].guard \in Nat
             /\ fighters[p].cooling \in Nat /\ fighters'[p].cooling \in 0 .. ShieldCooldown
             /\ guarded[p] \in 0 .. Spaced /\ fighters[p].cooling + guarded[p] >= ShieldCooldown
  <2>1. \A r \in Fighter : r.guard \in Nat /\ r.cooling \in 0 .. ShieldCooldown
    BY Bounds DEF Fighter
  <2>2. fighters[p] \in Fighter
    BY DEF CInv
  <2> QED BY <1>3, <2>1, <2>2, Bounds DEF CInv
<1>5. ASSUME NEW p \in Fighters PROVE guarded'[p] \in 0 .. Spaced /\ fighters'[p].cooling + guarded'[p] >= ShieldCooldown
  <2>1. guarded'[p] = IF guarded[p] = Spaced THEN Spaced ELSE guarded[p] + 1
    BY <1>2
  <2> QED BY <1>3, <1>4, <2>1, Bounds
<1>6. fighters' \in [Fighters -> Fighter] /\ guarded' \in [Fighters -> 0 .. Spaced]
  <2>1. fighters' = [p \in Fighters |-> fighters'[p]] /\ guarded' = [p \in Fighters |-> guarded'[p]]
    BY <1>1, <1>2
  <2> QED BY <1>3, <1>5, <2>1
<1>7. events' = <<>> /\ turn' \in 0 .. Kernel
  BY <1>2, Bounds DEF CInv
<1>8. CInv'
  BY <1>2, <1>3, <1>5, <1>6, <1>7 DEF CInv
<1> QED BY <1>3, <1>4, <1>8 DEF Activates

\* What steering changes: the held input, and the attempt that it ends.
LEMMA SteerFacts ==
    ASSUME NEW r \in Fighter, Coherent(r), NEW thrust \in HeldInputs, NEW current \in BOOLEAN,
           NEW s, s = steer(r, thrust, current)
    PROVE  s \in Fighter /\ Coherent(s) /\ s.guard = r.guard /\ s.cooling = r.cooling /\ s.body = r.body
<1>1. CASE ~ r.body
  BY <1>1 DEF steer
<1>2. CASE r.body
  <2> DEFINE held == IF input_is_locked(r) THEN "none"
                     ELSE IF thrust # "none" /\ current THEN thrust ELSE r.held
             braking == held = "brake" /\ ~ input_is_locked(r)
  <2>1. s = [r EXCEPT !.held = held, !.active = IF braking THEN 0 ELSE r.active]
    BY <1>2 DEF steer
  <2>2. held \in HeldInputs /\ (r.stun > 0 => held = "none")
    BY PartsOfFighter DEF input_is_locked, HeldInputs
  <2> HIDE DEF held, braking
  <2>3. /\ s = [x \in Parts |-> s[x]] /\ s.body = r.body
        /\ s.guard = r.guard /\ s.perfect = r.perfect /\ s.cooling = r.cooling
        /\ s.active = (IF braking THEN 0 ELSE r.active) /\ s.recharge = r.recharge /\ s.stun = r.stun
        /\ s.timer = r.timer /\ s.held = held /\ s.outdated = r.outdated
    <3>1. DOMAIN r = Parts
      BY PartsOfFighter
    <3> QED BY <2>1, <3>1 DEF Parts
  <2>4. s \in Fighter
    BY <2>2, <2>3, PartsOfFighter, FighterByParts
  <2> QED BY <1>2, <2>2, <2>3, <2>4, PartsOfFighter DEF Coherent
<1> QED BY <1>1, <1>2, PartsOfFighter

\* What an ability changes: a shield needs its cooldown over, and starts it.
LEMMA AbilityFacts ==
    ASSUME NEW r \in Fighter, Coherent(r), NEW shield \in BOOLEAN, NEW charge \in BOOLEAN,
           NEW current \in BOOLEAN, NEW s, s = ability(r, shield, charge, current)
    PROVE  /\ s \in Fighter /\ Coherent(s)
           /\ \/ s.guard = r.guard /\ s.cooling = r.cooling
              \/ r.guard = 0 /\ r.cooling = 0 /\ s.guard > 0 /\ s.cooling = ShieldCooldown
<1>1. CASE s = r
  BY <1>1
<1>2. CASE r.body /\ ~ input_is_locked(r) /\ shield_eligible(r, shield, current)
           /\ s = [r EXCEPT !.guard = ShieldTicks, !.perfect = PerfectTicks, !.cooling = ShieldCooldown]
  <2>1. /\ s = [x \in Parts |-> s[x]] /\ s.body = r.body
        /\ s.guard = ShieldTicks /\ s.perfect = PerfectTicks /\ s.cooling = ShieldCooldown
        /\ s.active = r.active /\ s.recharge = r.recharge /\ s.stun = r.stun
        /\ s.timer = r.timer /\ s.held = r.held /\ s.outdated = r.outdated
    <3>1. DOMAIN r = Parts
      BY PartsOfFighter
    <3> QED BY <1>2, <3>1 DEF Parts
  <2>2. s \in Fighter
    BY <2>1, PartsOfFighter, Bounds, FighterByParts
  <2>3. r.stun = 0 /\ r.guard = 0 /\ r.cooling = 0
    BY <1>2, PartsOfFighter DEF input_is_locked, shield_eligible
  <2> QED BY <1>2, <2>1, <2>2, <2>3, PartsOfFighter, Bounds DEF Coherent
<1>3. CASE r.body /\ ~ input_is_locked(r)
           /\ s = [r EXCEPT !.active = ChargeActive, !.recharge = ChargeCooldown]
  <2>1. /\ s = [x \in Parts |-> s[x]] /\ s.body = r.body
        /\ s.guard = r.guard /\ s.perfect = r.perfect /\ s.cooling = r.cooling
        /\ s.active = ChargeActive /\ s.recharge = ChargeCooldown /\ s.stun = r.stun
        /\ s.timer = r.timer /\ s.held = r.held /\ s.outdated = r.outdated
    <3>1. DOMAIN r = Parts
      BY PartsOfFighter
    <3> QED BY <1>3, <3>1 DEF Parts
  <2>2. s \in Fighter
    BY <2>1, PartsOfFighter, Bounds, FighterByParts
  <2>3. r.stun = 0
    BY <1>3, PartsOfFighter DEF input_is_locked
  <2> QED BY <1>3, <2>1, <2>2, <2>3, PartsOfFighter, Bounds DEF Coherent
<1>4. \/ s = r
      \/ r.body /\ ~ input_is_locked(r) /\ shield_eligible(r, shield, current)
         /\ s = [r EXCEPT !.guard = ShieldTicks, !.perfect = PerfectTicks, !.cooling = ShieldCooldown]
      \/ r.body /\ ~ input_is_locked(r) /\ s = [r EXCEPT !.active = ChargeActive, !.recharge = ChargeCooldown]
  BY DEF ability
<1> QED BY <1>1, <1>2, <1>3, <1>4

\* One entity's input is taken.
LEMMA PreKernelKeeps ==
    ASSUME CInv, PreKernel
    PROVE  CInv' /\ \A q \in Fighters : Activates(fighters[q], fighters'[q]) => guarded[q] >= ShieldCooldown
<1> DEFINE Taken(thrust, shield, charge, p, current) ==
              LET s == ability(steer(fighters[p], thrust, current), shield, charge, current)
              IN /\ fighters' = [fighters EXCEPT ![p] = s]
                 /\ guarded' = IF Activates(fighters[p], s) THEN [guarded EXCEPT ![p] = 0] ELSE guarded
           Currents(p) == {TRUE} \cup (IF fighters[p].outdated THEN {FALSE} ELSE {})
<1>0. \E thrust \in HeldInputs, shield, charge \in BOOLEAN, p \in {Order[turn]} :
      \E current \in Currents(p) : Taken(thrust, shield, charge, p, current)
  BY Zenon DEF PreKernel
<1> HIDE DEF Taken
<1>1. PICK thrust \in HeldInputs, shield \in BOOLEAN, charge \in BOOLEAN, p \in {Order[turn]}, current \in BOOLEAN :
        Taken(thrust, shield, charge, p, current)
  <2>1. \A p : Currents(p) \subseteq BOOLEAN
    OBVIOUS
  <2> HIDE DEF Currents
  <2> QED BY <1>0, <2>1
<1>2. turn \in 1 .. Cardinality(Fighters) /\ turn' = turn + 1 /\ UNCHANGED <<match, hazard, events>>
  BY DEF PreKernel
<1> DEFINE n == Cardinality(Fighters)
<1>3. turn' \in 0 .. Kernel /\ turn # Kernel /\ events' = <<>>
  <2>1. n \in Nat /\ turn \in 1 .. n /\ turn' = turn + 1 /\ Kernel = n + 1
    BY <1>2, Bounds
  <2> HIDE DEF n
  <2>2. turn' \in 0 .. Kernel /\ turn # Kernel
    BY <2>1
  <2> QED BY <1>2, <2>2 DEF CInv
<1> DEFINE r == fighters[p]
           t == steer(r, thrust, current)
           s == ability(t, shield, charge, current)
<1>4. /\ fighters' = [fighters EXCEPT ![p] = s]
      /\ guarded' = IF Activates(r, s) THEN [guarded EXCEPT ![p] = 0] ELSE guarded
  BY <1>1 DEF Taken
<1>5. /\ fighters \in [Fighters -> Fighter] /\ guarded \in [Fighters -> 0 .. Spaced]
      /\ \A q \in Fighters : Coherent(fighters[q]) /\ fighters[q].cooling + guarded[q] >= ShieldCooldown
  BY DEF CInv
<1>6. CASE p \notin Fighters
  <2>1. fighters' = fighters /\ guarded' = guarded
    BY <1>4, <1>5, <1>6
  <2>2. \A q \in Fighters : ~ Activates(fighters[q], fighters'[q])
    BY <1>5, <2>1, PartsOfFighter DEF Activates
  <2>3. CInv'
    BY <1>2, <1>3, <2>1 DEF CInv
  <2> QED BY <2>2, <2>3
<1>7. CASE p \in Fighters
  <2>1. r \in Fighter /\ Coherent(r)
    BY <1>5, <1>7
  <2>2. t \in Fighter /\ Coherent(t) /\ t.guard = r.guard /\ t.cooling = r.cooling
    <3> HIDE DEF r
    <3> QED BY <2>1, SteerFacts
  <2>3. /\ s \in Fighter /\ Coherent(s)
        /\ \/ s.guard = r.guard /\ s.cooling = r.cooling
           \/ r.guard = 0 /\ r.cooling = 0 /\ s.guard > 0 /\ s.cooling = ShieldCooldown
    <3>1. s = ability(t, shield, charge, current)
      OBVIOUS
    <3> HIDE DEF s, t, r
    <3>2. /\ s \in Fighter /\ Coherent(s)
          /\ \/ s.guard = t.guard /\ s.cooling = t.cooling
             \/ t.guard = 0 /\ t.cooling = 0 /\ s.guard > 0 /\ s.cooling = ShieldCooldown
      BY <2>2, <3>1, AbilityFacts
    <3> QED BY <2>2, <3>2
  <2>4. r.cooling + guarded[p] >= ShieldCooldown /\ guarded[p] \in 0 .. Spaced
    BY <1>5, <1>7
  <2> HIDE DEF s, t, r
  <2>5. r.guard \in Nat /\ s.guard \in Nat /\ r.cooling \in Nat /\ s.cooling \in Nat
    BY <2>1, <2>3, PartsOfFighter, Bounds
  <2>6. /\ fighters' = [fighters EXCEPT ![p] = s]
        /\ guarded' = IF Activates(r, s) THEN [guarded EXCEPT ![p] = 0] ELSE guarded
    BY <1>4
  <2>7. Activates(r, s) => guarded[p] >= ShieldCooldown /\ s.cooling = ShieldCooldown
    BY <2>3, <2>4, <2>5, Bounds DEF Activates
  <2>8. ~ Activates(r, s) => s.cooling = r.cooling
    BY <2>3 DEF Activates
  <2>9. fighters' \in [Fighters -> Fighter] /\ fighters'[p] = s /\ \A q \in Fighters \ {p} : fighters'[q] = fighters[q]
    BY <1>5, <1>7, <2>3, <2>6
  <2>10. /\ guarded' \in [Fighters -> 0 .. Spaced] /\ \A q \in Fighters \ {p} : guarded'[q] = guarded[q]
         /\ guarded'[p] = IF Activates(r, s) THEN 0 ELSE guarded[p]
    BY <1>5, <1>7, <2>6, Bounds
  <2>11. s.cooling + guarded'[p] >= ShieldCooldown
    BY <2>4, <2>5, <2>7, <2>8, <2>10, Bounds
  <2>12. ASSUME NEW q \in Fighters
         PROVE  Coherent(fighters'[q]) /\ fighters'[q].cooling + guarded'[q] >= ShieldCooldown
    BY <1>5, <2>3, <2>9, <2>10, <2>11
  <2>13. CInv'
    BY <1>2, <1>3, <2>9, <2>10, <2>12 DEF CInv
  <2>14. ASSUME NEW q \in Fighters, Activates(fighters[q], fighters'[q]) PROVE guarded[q] >= ShieldCooldown
    <3>1. CASE q = p
      BY <2>7, <2>9, <2>14, <3>1 DEF r
    <3>2. CASE q # p
      <4>1. fighters'[q] = fighters[q]
        BY <2>9, <3>2
      <4> QED BY <2>14, <4>1, <1>5, PartsOfFighter, Bounds DEF Activates
    <3> QED BY <3>1, <3>2
  <2> QED BY <2>13, <2>14
<1> QED BY <1>6, <1>7

---------------------------------------------------------------------------
(* The kernel.                                                             *)

\* Nothing changes in the kernel but the consequences.
LEMMA EventsKeep ==
    ASSUME CInv, turn = Kernel, events' \in Seq(Consequences),
           UNCHANGED <<match, turn, fighters, hazard, guarded>>
    PROVE  CInv' /\ \A p \in Fighters : ~ Activates(fighters[p], fighters'[p])
<1>1. Consequences' = Consequences
  BY DEF Consequences
<1>2. CInv'
  BY <1>1 DEF CInv
<1>3. \A p \in Fighters : fighters[p].guard \in Nat
  BY PartsOfFighter, Bounds DEF CInv
<1> QED BY <1>2, <1>3 DEF Activates

\* A contact has consequences of the kinds there are.
LEMMA ResponseTyped ==
    ASSUME CInv, NEW first \in OnField, NEW second \in OnField,
           NEW first_in \in BOOLEAN, NEW second_in \in BOOLEAN
    PROVE  guarded_pair_response(first, second, first_in, second_in) \in Seq(Consequences)
<1>1. \A p \in OnField : p \in Fighters /\ fighters[p].body
  BY DEF OnField
<1> DEFINE stunned(p, other, moving) ==
              IF moving /\ guard_state_of(other) = "perfect" THEN <<StunRequest(p, ParryStun)>> ELSE <<>>
           hits(p, other, moving) ==
              IF match = "running" /\ moving /\ charge_activation_of(p)
              THEN <<ChargeCandidate(p, other, guard_state_of(other) # "none")>> ELSE <<>>
<1>2. ASSUME NEW p \in OnField, NEW q \in OnField, NEW moving \in BOOLEAN
      PROVE  stunned(p, q, moving) \in Seq(Consequences)
  <2>1. StunRequest(p, ParryStun) \in Consequences
    BY <1>1 DEF Consequences
  <2> HIDE DEF Consequences
  <2> QED BY <2>1
<1>3. ASSUME NEW p \in OnField, NEW q \in OnField, NEW moving \in BOOLEAN
      PROVE  hits(p, q, moving) \in Seq(Consequences)
  <2> DEFINE blocked == guard_state_of(q) # "none"
             e == ChargeCandidate(p, q, blocked)
  <2>0. blocked \in BOOLEAN
    OBVIOUS
  <2>1. charge_activation_of(p) => e \in Consequences
    <3> HIDE DEF blocked
    <3>1. e.entity = p /\ e.target = q
      BY DEF ChargeCandidate
    <3>2. e \in {ChargeCandidate(u, v, b) : u \in Fighters, v \in Fighters, b \in BOOLEAN}
      BY <1>1, <2>0
    <3> HIDE DEF e
    <3> QED BY <1>1, <3>1, <3>2 DEF Consequences, charge_activation_of
  <2> HIDE DEF e
  <2> QED BY <2>1 DEF e
<1> HIDE DEF stunned, hits
<1>4. guarded_pair_response(first, second, first_in, second_in)
        = stunned(first, second, first_in) \o stunned(second, first, second_in)
          \o hits(first, second, first_in) \o hits(second, first, second_in)
  BY Zenon DEF guarded_pair_response, stunned, hits
<1> QED BY <1>2, <1>3, <1>4

\* The steps of the kernel.
LEMMA KernelKeeps ==
    ASSUME CInv, Collide \/ HazardHits \/ SupportLost
    PROVE  CInv' /\ \A p \in Fighters : ~ Activates(fighters[p], fighters'[p])
<1>1. CASE Collide
  <2>1. PICK first \in OnField, second \in OnField, first_in \in BOOLEAN, second_in \in BOOLEAN :
          events' = events \o guarded_pair_response(first, second, first_in, second_in)
    BY <1>1 DEF Collide
  <2>2. guarded_pair_response(first, second, first_in, second_in) \in Seq(Consequences) /\ events \in Seq(Consequences)
    BY ResponseTyped DEF CInv
  <2>3. events' \in Seq(Consequences)
    BY <2>1, <2>2
  <2> QED BY <1>1, <2>3, EventsKeep DEF Collide
<1>2. CASE \E p \in OnField : Leaves(p)
  <2>1. PICK p \in OnField : Leaves(p)
    BY <1>2
  <2>2. Elimination(p) \in Consequences /\ events \in Seq(Consequences)
    BY DEF OnField, Consequences, CInv
  <2>3. events' \in Seq(Consequences)
    BY <2>1, <2>2 DEF Leaves
  <2> QED BY <2>1, <2>3, EventsKeep DEF Leaves
<1> QED BY <1>1, <1>2 DEF HazardHits, SupportLost

---------------------------------------------------------------------------
(* After the kernel: the contacts are settled, and then the stuns.         *)

\* What a settled contact leaves of a fighter.
Reduced(s, r) ==
    /\ s \in Fighter
    /\ s.body = r.body /\ s.timer = r.timer /\ s.guard = r.guard /\ s.perfect = r.perfect
    /\ s.cooling = r.cooling /\ s.stun = r.stun /\ s.held = r.held /\ s.outdated = r.outdated
    /\ s.active \in {0, r.active} /\ s.recharge \in {0, r.recharge}

Requests == {StunRequest(p, n) : p \in Fighters, n \in {ParryStun, HitStun}}

\* What the fold of charge_contact has after some of the events.
Field(v) ==
    /\ v = [fighters |-> v.fighters, requests |-> v.requests]
    /\ v.fighters \in [Fighters -> Fighter] /\ v.requests \subseteq Requests
    /\ \A p \in Fighters : Reduced(v.fighters[p], fighters[p])

\* The consequences, one kind at a time.
LEMMA Kinds ==
    ASSUME NEW e \in Consequences
    PROVE  \/ e.kind = "elimination"
           \/ e.kind = "stun" /\ e \in Requests
           \/ /\ e.kind = "charge" /\ e.entity \in Fighters /\ e.target \in Fighters /\ e.blocked \in BOOLEAN
              /\ fighters[e.entity].active > 0 /\ fighters[e.target].body
<1>1. CASE e \in {Elimination(p) : p \in Fighters}
  BY <1>1 DEF Elimination
<1>2. CASE e \in {StunRequest(p, ParryStun) : p \in Fighters}
  <2>1. PICK p \in Fighters : e = StunRequest(p, ParryStun)
    BY <1>2
  <2>2. StunRequest(p, ParryStun) \in Requests
    BY DEF Requests
  <2>3. StunRequest(p, ParryStun).kind = "stun"
    BY DEF StunRequest
  <2> QED BY <2>1, <2>2, <2>3
<1>3. CASE e \in {f \in {ChargeCandidate(p, t, b) : p \in Fighters, t \in Fighters, b \in BOOLEAN} :
                     fighters[f.entity].active > 0 /\ fighters[f.target].body}
  <2>1. PICK p \in Fighters, t \in Fighters, b \in BOOLEAN : e = ChargeCandidate(p, t, b)
    BY <1>3
  <2>2. e.kind = "charge" /\ e.entity = p /\ e.target = t /\ e.blocked = b
    BY <2>1 DEF ChargeCandidate
  <2>3. fighters[e.entity].active > 0 /\ fighters[e.target].body
    BY <1>3
  <2> QED BY <2>2, <2>3
<1> QED BY <1>1, <1>2, <1>3 DEF Consequences

\* One event is settled: only the fighter whose attempt it is loses something,
\* and a hit asks for a stun.
SettledBy(v, e, w) ==
    /\ Field(w) /\ v.requests \subseteq w.requests
    /\ \A p \in Fighters : e.kind # "charge" \/ e.entity # p => w.fighters[p] = v.fighters[p]
    /\ \A p, t \in Fighters : e = ChargeCandidate(p, t, FALSE) /\ v.fighters[p].active # 0
                                 => StunRequest(t, HitStun) \in w.requests

\* And that is what settling does.
LEMMA SettleFacts ==
    ASSUME CInv, NEW v, Field(v), NEW e \in Consequences, NEW w, w = Settle(v, e)
    PROVE  SettledBy(v, e, w)
<1> USE DEF SettledBy
<1> DEFINE a == e.entity
           fs == v.fighters
<1>1. CASE e.kind # "charge" \/ fs[a].active = 0
  <2>1. w = v
    BY <1>1 DEF Settle
  <2>2. \A p, t \in Fighters : e = ChargeCandidate(p, t, FALSE) => e.kind = "charge" /\ a = p
    BY DEF ChargeCandidate
  <2> QED BY <1>1, <2>1, <2>2
<1>2. CASE e.kind = "charge" /\ fs[a].active # 0
  <2>1. a \in Fighters /\ e.target \in Fighters /\ e.blocked \in BOOLEAN
    BY <1>2, Kinds
  <2>2. /\ fs \in [Fighters -> Fighter] /\ fs[a] \in Fighter /\ Reduced(fs[a], fighters[a])
        /\ v.requests \subseteq Requests /\ v = [fighters |-> fs, requests |-> v.requests]
        /\ \A p \in Fighters : Reduced(fs[p], fighters[p])
    BY <2>1 DEF Field
  <2>3. ASSUME NEW s, \/ s = [fs[a] EXCEPT !.active = 0]
                      \/ s = [fs[a] EXCEPT !.active = 0, !.recharge = 0]
        PROVE  Reduced(s, fighters[a])
    <3> DEFINE r == fs[a]
    <3>1. r \in Fighter /\ Reduced(r, fighters[a])
      BY <2>2
    <3>2. s = [r EXCEPT !.active = 0] \/ s = [r EXCEPT !.active = 0, !.recharge = 0]
      BY <2>3
    <3> HIDE DEF r
    <3>3. DOMAIN r = Parts
      BY <3>1, PartsOfFighter
    <3>4. /\ s = [x \in Parts |-> s[x]] /\ s.body = r.body
          /\ s.guard = r.guard /\ s.perfect = r.perfect /\ s.cooling = r.cooling
          /\ s.active = 0 /\ s.recharge \in {0, r.recharge} /\ s.stun = r.stun
          /\ s.timer = r.timer /\ s.held = r.held /\ s.outdated = r.outdated
      <4>1. CASE s = [r EXCEPT !.active = 0]
        BY <3>3, <4>1 DEF Parts
      <4>2. CASE s = [r EXCEPT !.active = 0, !.recharge = 0]
        BY <3>3, <4>2 DEF Parts
      <4> QED BY <3>2, <4>1, <4>2
    <3>5. s \in Fighter
      BY <3>1, <3>4, PartsOfFighter, FighterByParts
    <3> QED BY <3>1, <3>4, <3>5 DEF Reduced
  <2>4. CASE e.blocked
    <3> DEFINE s == [fs[a] EXCEPT !.active = 0]
    <3>1. w = [v EXCEPT !.fighters[a].active = 0]
      BY <1>2, <2>4 DEF Settle
    <3>2. w = [fighters |-> [fs EXCEPT ![a] = s], requests |-> v.requests]
      BY <2>1, <2>2, <3>1
    <3>3. Reduced(s, fighters[a])
      BY <2>3
    <3>4. \A p, t \in Fighters : e # ChargeCandidate(p, t, FALSE)
      BY <2>4 DEF ChargeCandidate
    <3> HIDE DEF s
    <3>5. w.fighters = [fs EXCEPT ![a] = s] /\ w.requests = v.requests
      BY <3>2
    <3>6. Field(w)
      BY <2>1, <2>2, <3>2, <3>3, <3>5 DEF Field, Reduced
    <3>7. \A p \in Fighters : a # p => w.fighters[p] = fs[p]
      BY <2>1, <2>2, <3>5
    <3> QED BY <1>2, <3>4, <3>5, <3>6, <3>7
  <2>5. CASE ~ e.blocked
    <3> DEFINE s == [fs[a] EXCEPT !.active = 0, !.recharge = 0]
               q == StunRequest(e.target, HitStun)
    <3>1. w = [fighters |-> [fs EXCEPT ![a].active = 0, ![a].recharge = 0], requests |-> v.requests \cup {q}]
      BY <1>2, <2>5 DEF Settle
    <3>2. [fs EXCEPT ![a].active = 0, ![a].recharge = 0] = [fs EXCEPT ![a] = s]
      BY <2>1, <2>2
    <3>3. Reduced(s, fighters[a])
      BY <2>3
    <3>4. q \in Requests
      BY <2>1 DEF Requests
    <3>5. \A p, t \in Fighters : e = ChargeCandidate(p, t, FALSE) => t = e.target
      BY DEF ChargeCandidate
    <3>6. \A p, t \in Fighters : e = ChargeCandidate(p, t, FALSE) => StunRequest(t, HitStun) = q
      BY <3>5
    <3> HIDE DEF s, q
    <3>7. w.fighters = [fs EXCEPT ![a] = s] /\ w.requests = v.requests \cup {q}
          /\ w = [fighters |-> w.fighters, requests |-> w.requests]
      BY <3>1, <3>2
    <3>8. Field(w)
      BY <2>1, <2>2, <3>3, <3>4, <3>7 DEF Field, Reduced
    <3>9. \A p \in Fighters : a # p => w.fighters[p] = fs[p]
      BY <2>1, <2>2, <3>7
    <3> QED BY <1>2, <3>6, <3>7, <3>8, <3>9
  <2> QED BY <2>1, <2>4, <2>5
<1> QED BY <1>1, <1>2

\* All events are settled: the first hit of an attempt that was active asks for
\* the stun of its target, since nothing before it has ended the attempt.
LEMMA ContactFacts ==
    ASSUME CInv, NEW w, w = charge_contact(fighters)
    PROVE  /\ Field(w)
           /\ \A p, t \in Fighters : FirstHit(p, t) => StunRequest(t, HitStun) \in w.requests
<1>1. events \in Seq(Consequences)
  BY DEF CInv
<1>2. Len(events) \in Nat /\ DOMAIN events = 1 .. Len(events) /\ \A i \in 1 .. Len(events) : events[i] \in Consequences
  <2> HIDE DEF Consequences
  <2> QED BY <1>1
<1>3. PICK at : Settled(at, fighters)
  BY <1>2, ChargeContactSettles
<1> DEFINE n == Len(events)
<1>4. n \in Nat /\ \A i \in 1 .. n : events[i] \in Consequences
  BY <1>2
<1>5. /\ at[0] = [fighters |-> fighters, requests |-> {e \in ToSet(events) : e.kind = "stun"}]
      /\ \A k \in 1 .. n : at[k] = Settle(at[k - 1], events[k])
      /\ w = at[n]
  BY <1>3 DEF Settled
<1>6. Field(at[0])
  <2>1. at[0].fighters = fighters /\ at[0].requests = {e \in ToSet(events) : e.kind = "stun"}
    BY <1>5
  <2>2. at[0].requests \subseteq Requests
    <3>1. ToSet(events) \subseteq Consequences
      BY <1>2 DEF ToSet
    <3>2. \A e \in Consequences : e.kind = "stun" => e \in Requests
      BY Kinds
    <3> QED BY <2>1, <3>1, <3>2
  <2>3. \A p \in Fighters : Reduced(fighters[p], fighters[p])
    BY DEF CInv, Reduced
  <2> QED BY <1>5, <2>1, <2>2, <2>3 DEF Field, CInv
<1> HIDE DEF n
<1>7. ASSUME NEW k \in 1 .. n, Field(at[k - 1])
      PROVE  /\ Field(at[k]) /\ at[k - 1].requests \subseteq at[k].requests
             /\ \A p \in Fighters : events[k].kind # "charge" \/ events[k].entity # p
                                      => at[k].fighters[p] = at[k - 1].fighters[p]
             /\ \A p, t \in Fighters : events[k] = ChargeCandidate(p, t, FALSE) /\ at[k - 1].fighters[p].active # 0
                                         => StunRequest(t, HitStun) \in at[k].requests
  <2> DEFINE v == at[k - 1]
             u == at[k]
             e == events[k]
  <2>1. u = Settle(v, e) /\ e \in Consequences /\ Field(v)
    BY <1>4, <1>5, <1>7
  <2> HIDE DEF v, u, e
  <2>2. SettledBy(v, e, u)
    BY <2>1, SettleFacts
  <2> QED BY <2>2 DEF v, u, e, SettledBy
<1>8. \A k \in 0 .. n : Field(at[k])
  <2> DEFINE S == {k \in 0 .. n : Field(at[k])}
  <2>1. 0 \in S
    BY <1>4, <1>6
  <2>2. ASSUME NEW k \in 1 .. n, k - 1 \in S PROVE k \in S
    <3>1. Field(at[k - 1]) /\ k \in 0 .. n
      BY <1>4, <2>2
    <3>2. Field(at[k])
      BY <1>7, <2>2, <3>1
    <3> QED BY <3>1, <3>2
  <2> HIDE DEF S
  <2>3. \A k \in 0 .. n : k \in S
    BY <1>4, <2>1, <2>2, UpTo
  <2> QED BY <2>3 DEF S
<1>9. ASSUME NEW p \in Fighters, NEW t \in Fighters, FirstHit(p, t)
      PROVE  StunRequest(t, HitStun) \in w.requests
  <2>1. PICK i \in 1 .. n :
          /\ events[i] = ChargeCandidate(p, t, FALSE)
          /\ \A j \in 1 .. i - 1 : ~ (events[j].kind = "charge" /\ events[j].entity = p)
    BY <1>2, <1>9 DEF FirstHit, n
  <2>2. fighters[p].active # 0
    <3>1. events[i].kind = "charge" /\ events[i].entity = p
      BY <2>1 DEF ChargeCandidate
    <3>2. fighters[p].active > 0
      BY <1>4, <3>1, Kinds
    <3> QED BY <3>2
  <2> DEFINE S == {k \in 0 .. n : IF k < i THEN at[k].fighters[p] = fighters[p]
                                  ELSE StunRequest(t, HitStun) \in at[k].requests}
  <2>3. 0 \in S
    BY <1>4, <1>5
  <2>4. ASSUME NEW k \in 1 .. n, k - 1 \in S PROVE k \in S
    <3>1. k \in 0 .. n /\ k - 1 \in 0 .. n /\ Field(at[k - 1])
      BY <1>4, <1>8
    <3>2. CASE k < i
      <4>1. k \in 1 .. i - 1 /\ k - 1 < i
        BY <3>2
      <4>2. at[k].fighters[p] = at[k - 1].fighters[p]
        BY <1>7, <2>1, <3>1, <4>1
      <4> QED BY <2>4, <3>1, <3>2, <4>1, <4>2
    <3>3. CASE k = i
      <4>1. k - 1 < i
        BY <3>3
      <4>2. at[k - 1].fighters[p] = fighters[p]
        BY <2>4, <4>1
      <4>3. \A x, y \in Fighters : events[k] = ChargeCandidate(x, y, FALSE) /\ at[k - 1].fighters[x].active # 0
                                    => StunRequest(y, HitStun) \in at[k].requests
        BY <1>7, <2>4, <3>1
      <4>5. events[k] = ChargeCandidate(p, t, FALSE) /\ at[k - 1].fighters[p].active # 0
        BY <2>1, <2>2, <3>3, <4>2
      <4>6. StunRequest(t, HitStun) \in at[k].requests
        BY <4>3, <4>5
      <4> QED BY <3>1, <3>3, <4>6
    <3>4. CASE k > i
      <4>1. ~ (k - 1 < i) /\ ~ (k < i)
        BY <3>4
      <4>2. StunRequest(t, HitStun) \in at[k - 1].requests
        BY <2>4, <4>1
      <4> QED BY <1>7, <3>1, <4>1, <4>2
    <3> QED BY <3>2, <3>3, <3>4
  <2> HIDE DEF S
  <2>5. \A k \in 0 .. n : k \in S
    BY <1>4, <2>3, <2>4, UpTo
  <2>6. n \in S /\ ~ (n < i)
    BY <1>4, <2>5
  <2> QED BY <1>5, <2>6 DEF S
<1>10. Field(w)
  BY <1>4, <1>5, <1>8
<1> QED BY <1>9, <1>10

\* The stun after the requests is as long as the longest of them.
LEMMA StunLeftFacts ==
    ASSUME NEW r \in Fighter, NEW p, NEW requests \in SUBSET Requests
    PROVE  /\ StunLeft(r, p, requests) \in Nat
           /\ StunRequest(p, HitStun) \in requests => StunLeft(r, p, requests) >= HitStun
<1> DEFINE S == {r.stun} \cup {e.ticks : e \in {f \in requests : f.entity = p}}
<1>1. S \subseteq {r.stun, ParryStun, HitStun}
  <2>1. \A e \in Requests : e.ticks \in {ParryStun, HitStun}
    BY DEF Requests, StunRequest
  <2> QED BY <2>1
<1>2. {r.stun, ParryStun, HitStun} \subseteq Nat
  BY PartsOfFighter, Bounds
<1>3. IsFiniteSet({r.stun, ParryStun, HitStun})
  <2>1. IsFiniteSet({r.stun})
    BY FS_Singleton
  <2>2. IsFiniteSet({r.stun} \cup {ParryStun})
    BY <2>1, FS_AddElement
  <2>3. IsFiniteSet(({r.stun} \cup {ParryStun}) \cup {HitStun})
    BY <2>2, FS_AddElement
  <2>4. ({r.stun} \cup {ParryStun}) \cup {HitStun} = {r.stun, ParryStun, HitStun}
    OBVIOUS
  <2> QED BY <2>3, <2>4
<1>4. S # {} /\ S \subseteq Nat /\ IsFiniteSet(S)
  <2>1. S # {}
    OBVIOUS
  <2> HIDE DEF S
  <2> QED BY <1>1, <1>2, <1>3, <2>1, FS_Subset
<1>5. StunRequest(p, HitStun) \in requests => HitStun \in S
  <2>1. StunRequest(p, HitStun).entity = p /\ StunRequest(p, HitStun).ticks = HitStun
    BY DEF StunRequest
  <2> QED BY <2>1
<1>6. StunLeft(r, p, requests) = Max(S)
  BY DEF StunLeft
<1> HIDE DEF S
<1>7. Max(S) \in S /\ \A x \in S : Max(S) >= x
  BY <1>4, Greatest
<1> QED BY <1>4, <1>5, <1>6, <1>7

\* The statuses: a stun ends guard, attempt and held input, and no cooldown.
LEMMA StatusFacts ==
    ASSUME CInv, NEW v, Field(v), NEW p \in Fighters, NEW s, s = status(v.fighters, v.requests)[p]
    PROVE  /\ s \in Fighter /\ Coherent(s) /\ s.body = fighters[p].body
           /\ s.cooling = fighters[p].cooling /\ s.guard <= fighters[p].guard
           /\ s.body /\ StunRequest(p, HitStun) \in v.requests => s.stun >= HitStun
<1> DEFINE q == v.fighters[p]
           asked == q.body /\ \E e \in v.requests : e.entity = p
           left == StunLeft(q, p, v.requests)
           r == IF asked THEN [q EXCEPT !.stun = left, !.outdated = TRUE] ELSE q
<1>1. q \in Fighter /\ Reduced(q, fighters[p]) /\ v.requests \in SUBSET Requests
      /\ fighters[p] \in Fighter /\ Coherent(fighters[p])
  BY DEF Field, CInv
<1>2. s = IF r.stun > 0 THEN Stunned(r) ELSE r
  BY DEF status
<1>3. left \in Nat /\ (StunRequest(p, HitStun) \in v.requests => left >= HitStun)
  <2> HIDE DEF q
  <2> QED BY <1>1, StunLeftFacts
<1>4. q.body /\ StunRequest(p, HitStun) \in v.requests => asked
  <2>1. StunRequest(p, HitStun).entity = p
    BY DEF StunRequest
  <2> QED BY <2>1
<1>5. asked => q.body
  OBVIOUS
<1>6. r = IF asked THEN [q EXCEPT !.stun = left, !.outdated = TRUE] ELSE q
  OBVIOUS
<1> HIDE DEF q, asked, left, r
<1>7. /\ r \in Fighter /\ r.body = q.body /\ r.guard = q.guard /\ r.perfect = q.perfect
      /\ r.cooling = q.cooling /\ r.active = q.active /\ r.recharge = q.recharge
      /\ r.stun = (IF asked THEN left ELSE q.stun) /\ r.timer = q.timer /\ r.held = q.held
  <2>1. CASE asked
    <3>1. r = [q EXCEPT !.stun = left, !.outdated = TRUE] /\ DOMAIN q = Parts
      BY <1>1, <1>6, <2>1, PartsOfFighter
    <3>2. /\ r = [x \in Parts |-> r[x]] /\ r.body = q.body /\ r.guard = q.guard /\ r.perfect = q.perfect
          /\ r.cooling = q.cooling /\ r.active = q.active /\ r.recharge = q.recharge
          /\ r.stun = left /\ r.timer = q.timer /\ r.held = q.held /\ r.outdated = TRUE
      BY <3>1 DEF Parts
    <3>3. r \in Fighter
      BY <1>1, <1>3, <3>2, PartsOfFighter, FighterByParts
    <3> QED BY <2>1, <3>2, <3>3
  <2>2. CASE ~ asked
    BY <1>1, <1>6, <2>2
  <2> QED BY <2>1, <2>2
<1>8. r.body = fighters[p].body /\ r.guard = fighters[p].guard /\ r.cooling = fighters[p].cooling
      /\ r.perfect = fighters[p].perfect
  BY <1>1, <1>7 DEF Reduced
<1>9. r.perfect <= r.guard /\ (~ r.body => r.guard = 0 /\ r.cooling = 0 /\ r.active = 0 /\ r.recharge = 0 /\ r.stun = 0)
  BY <1>1, <1>5, <1>7, <1>8 DEF Reduced, Coherent
<1>10. r.body /\ StunRequest(p, HitStun) \in v.requests => r.stun >= HitStun /\ r.stun > 0
  BY <1>3, <1>4, <1>7, Bounds
<1>11. CASE r.stun > 0
  <2>1. s = [r EXCEPT !.held = "none", !.active = 0, !.guard = 0, !.perfect = 0] /\ DOMAIN r = Parts
    BY <1>2, <1>7, <1>11, PartsOfFighter DEF Stunned
  <2>2. /\ s = [x \in Parts |-> s[x]] /\ s.body = r.body /\ s.guard = 0 /\ s.perfect = 0
        /\ s.cooling = r.cooling /\ s.active = 0 /\ s.recharge = r.recharge
        /\ s.stun = r.stun /\ s.timer = r.timer /\ s.held = "none" /\ s.outdated = r.outdated
    BY <2>1 DEF Parts
  <2>3. s \in Fighter
    BY <1>7, <2>2, PartsOfFighter, FighterByParts, Bounds DEF HeldInputs
  <2> QED BY <1>1, <1>8, <1>9, <1>10, <2>2, <2>3, PartsOfFighter, Bounds DEF Coherent
<1>12. CASE ~ (r.stun > 0)
  <2>1. s = r
    BY <1>2, <1>12
  <2> QED BY <1>1, <1>7, <1>8, <1>9, <1>10, <1>12, <2>1, PartsOfFighter, Bounds DEF Coherent
<1> QED BY <1>11, <1>12

\* Whoever is eliminated is bare but for the timer and the input.
LEMMA RespawnFacts ==
    ASSUME NEW s \in Fighter, Coherent(s), NEW dead \in BOOLEAN, NEW u, u = respawn_system(s, dead)
    PROVE  /\ u \in Fighter /\ Coherent(u) /\ u.guard <= s.guard
           /\ u.body => s.body /\ u.cooling = s.cooling /\ u.stun = s.stun
<1>1. CASE dead
  <2>1. u = [Bare EXCEPT !.timer = RespawnDelay, !.outdated = s.outdated, !.held = s.held]
    BY <1>1 DEF respawn_system
  <2>2. /\ u = [x \in Parts |-> u[x]] /\ ~ u.body /\ u.body \in BOOLEAN /\ u.guard = 0 /\ u.perfect = 0 /\ u.cooling = 0
        /\ u.active = 0 /\ u.recharge = 0 /\ u.stun = 0 /\ u.timer = RespawnDelay /\ u.held = s.held
        /\ u.outdated = s.outdated
    BY <2>1 DEF Bare, Parts
  <2>3. /\ u.body \in BOOLEAN /\ u.timer \in 0 .. RespawnDelay /\ u.guard \in 0 .. ShieldTicks
        /\ u.perfect \in 0 .. ShieldTicks /\ u.cooling \in 0 .. ShieldCooldown /\ u.active \in Nat
        /\ u.recharge \in Nat /\ u.stun \in Nat /\ u.held \in HeldInputs /\ u.outdated \in BOOLEAN
    BY <2>2, PartsOfFighter, Bounds
  <2>4. u \in Fighter
    BY <2>2, <2>3, FighterByParts
  <2> QED BY <2>2, <2>4, PartsOfFighter, Bounds DEF Coherent
<1>2. CASE ~ dead
  <2>1. u = [s EXCEPT !.timer = OneLess(@)] /\ DOMAIN s = Parts
    BY <1>2, PartsOfFighter DEF respawn_system
  <2>2. /\ u = [x \in Parts |-> u[x]] /\ u.body = s.body /\ u.guard = s.guard /\ u.perfect = s.perfect
        /\ u.cooling = s.cooling /\ u.active = s.active /\ u.recharge = s.recharge /\ u.stun = s.stun
        /\ u.timer = OneLess(s.timer) /\ u.held = s.held /\ u.outdated = s.outdated
    BY <2>1 DEF Parts
  <2>3. OneLess(s.timer) \in 0 .. RespawnDelay
    BY PartsOfFighter, Bounds DEF OneLess
  <2>4. u \in Fighter
    BY <2>2, <2>3, PartsOfFighter, FighterByParts
  <2> QED BY <2>2, <2>4, PartsOfFighter, Bounds DEF Coherent
<1> QED BY <1>1, <1>2

\* The tick is committed.
LEMMA CommitFacts ==
    ASSUME CInv, Commit, NEW p \in Fighters
    PROVE  /\ fighters'[p] \in Fighter /\ Coherent(fighters'[p]) /\ fighters'[p].guard <= fighters[p].guard
           /\ fighters'[p].body => fighters'[p].cooling = fighters[p].cooling
           /\ \A q \in Fighters : match' # "before" /\ FirstHit(q, p)
                 => fighters'[p].stun >= HitStun \/ ~ fighters'[p].body
<1>1. CASE match' = "before" /\ match # "before"
  <2>1. fighters' = [q \in Fighters |-> Bare]
    BY <1>1 DEF Commit
  <2>2. fighters'[p] = Bare
    BY <2>1
  <2>3. Bare.guard = 0 /\ ~ Bare.body /\ fighters[p].guard >= 0
    BY PartsOfFighter, Bounds DEF CInv, Bare
  <2> QED BY <1>1, <2>2, <2>3, BareIsCoherent
<1>2. CASE ~ (match' = "before" /\ match # "before")
  <2> DEFINE w == charge_contact(fighters)
             after == post_kernel(fighters)
             s == after[p]
             dead == p \in Eliminated
  <2>1. fighters' = [q \in Fighters |-> respawn_system(after[q], q \in Eliminated)]
    BY Zenon, <1>2 DEF Commit
  <2>2. fighters'[p] = respawn_system(s, dead) /\ dead \in BOOLEAN
    BY <2>1
  <2>3. s = status(w.fighters, w.requests)[p]
    BY DEF post_kernel
  <2> HIDE DEF s, dead, after
  <2>4. Field(w) /\ \A q, t \in Fighters : FirstHit(q, t) => StunRequest(t, HitStun) \in w.requests
    BY ContactFacts
  <2> HIDE DEF w
  <2>5. /\ s \in Fighter /\ Coherent(s) /\ s.body = fighters[p].body
        /\ s.cooling = fighters[p].cooling /\ s.guard <= fighters[p].guard
        /\ s.body /\ StunRequest(p, HitStun) \in w.requests => s.stun >= HitStun
    BY <2>3, <2>4, StatusFacts
  <2> DEFINE u == fighters'[p]
  <2>6. u = respawn_system(s, dead) /\ dead \in BOOLEAN
    BY <2>2
  <2> HIDE DEF u
  <2>7. /\ u \in Fighter /\ Coherent(u) /\ u.guard <= s.guard
        /\ u.body => s.body /\ u.cooling = s.cooling /\ u.stun = s.stun
    BY <2>5, <2>6, RespawnFacts
  <2>8. fighters[p].guard \in Nat /\ s.guard \in Nat /\ u.guard \in Nat
    <3>1. \A r \in Fighter : r.guard \in Nat
      BY PartsOfFighter, Bounds
    <3>2. fighters[p] \in Fighter
      BY DEF CInv
    <3> QED BY <2>5, <2>7, <3>1, <3>2
  <2>9. u.guard <= fighters[p].guard
    BY <2>5, <2>7, <2>8
  <2>10. u.body => u.cooling = fighters[p].cooling
    BY <2>5, <2>7
  <2>11. ASSUME NEW q \in Fighters, FirstHit(q, p) PROVE u.stun >= HitStun \/ ~ u.body
    <3>1. StunRequest(p, HitStun) \in w.requests
      BY <2>4, <2>11
    <3> QED BY <2>5, <2>7, <3>1
  <2> QED BY <2>7, <2>9, <2>10, <2>11 DEF u
<1> QED BY <1>1, <1>2

\* And the invariant is kept.
LEMMA CommitKeeps ==
    ASSUME CInv, Commit
    PROVE  CInv' /\ \A p \in Fighters : ~ Activates(fighters[p], fighters'[p])
<1>1. /\ turn' = 0 /\ hazard' \in HazardsAfter /\ match' \in PhasesAfter /\ events' = <<>>
      /\ guarded' = [p \in Fighters |-> IF fighters'[p].body THEN guarded[p] ELSE Spaced]
  BY DEF Commit
<1>2. \E f : fighters' = [p \in Fighters |-> f[p]]
  <2>1. CASE match' = "before" /\ match # "before"
    <3> DEFINE f == [p \in Fighters |-> Bare]
    <3>1. fighters' = f
      BY <2>1 DEF Commit
    <3>2. f = [p \in Fighters |-> f[p]]
      OBVIOUS
    <3> HIDE DEF f
    <3> QED BY <3>1, <3>2
  <2>2. CASE ~ (match' = "before" /\ match # "before")
    <3> DEFINE after == post_kernel(fighters)
               f == [q \in Fighters |-> respawn_system(after[q], q \in Eliminated)]
    <3>1. fighters' = f
      BY Zenon, <2>2 DEF Commit
    <3>2. f = [p \in Fighters |-> f[p]]
      OBVIOUS
    <3> HIDE DEF f
    <3> QED BY <3>1, <3>2
  <2> QED BY <2>1, <2>2
<1>3. fighters' \in [Fighters -> Fighter]
  <2>1. fighters' = [p \in Fighters |-> fighters'[p]]
    BY <1>2
  <2>2. \A p \in Fighters : fighters'[p] \in Fighter
    BY CommitFacts
  <2> QED BY <2>1, <2>2
<1>4. ASSUME NEW p \in Fighters
      PROVE  /\ Coherent(fighters'[p]) /\ fighters'[p].guard <= fighters[p].guard
             /\ fighters'[p].body => fighters'[p].cooling = fighters[p].cooling
             /\ fighters[p].guard \in Nat /\ fighters'[p].guard \in Nat /\ fighters'[p].cooling \in Nat
             /\ fighters[p].cooling + guarded[p] >= ShieldCooldown /\ guarded[p] \in 0 .. Spaced
  <2>1. \A r \in Fighter : r.guard \in Nat /\ r.cooling \in Nat
    BY PartsOfFighter, Bounds
  <2>2. fighters[p] \in Fighter /\ fighters'[p] \in Fighter
    BY <1>3 DEF CInv
  <2>3. fighters[p].guard \in Nat /\ fighters'[p].guard \in Nat /\ fighters'[p].cooling \in Nat
    BY <2>1, <2>2
  <2>4. fighters[p].cooling + guarded[p] >= ShieldCooldown /\ guarded[p] \in 0 .. Spaced
    BY DEF CInv
  <2> QED BY <2>3, <2>4, CommitFacts
<1>5. ASSUME NEW p \in Fighters
      PROVE  guarded'[p] \in 0 .. Spaced /\ fighters'[p].cooling + guarded'[p] >= ShieldCooldown
  <2>1. guarded'[p] = IF fighters'[p].body THEN guarded[p] ELSE Spaced
    BY <1>1
  <2> QED BY <1>4, <2>1, Bounds
<1>6. guarded' \in [Fighters -> 0 .. Spaced]
  <2>1. guarded' = [p \in Fighters |-> guarded'[p]]
    BY <1>1
  <2> QED BY <1>5, <2>1
<1>7. hazard' \in 0 .. HazardLife
  <2>1. hazard \in 0 .. HazardLife
    BY DEF CInv
  <2> QED BY <1>1, <2>1, Bounds DEF HazardsAfter, OneLess
<1>8. match' \in {"before", "running", "ended"}
  BY <1>1 DEF CInv, PhasesAfter
<1>9. turn' \in 0 .. Kernel /\ events' \in Seq(Consequences')
  BY <1>1, Bounds
<1>10. CInv'
  <2>1. \A p \in Fighters : Coherent(fighters'[p]) /\ fighters'[p].cooling + guarded'[p] >= ShieldCooldown
    BY <1>4, <1>5
  <2> QED BY <1>1, <1>3, <1>6, <1>7, <1>8, <1>9, <2>1 DEF CInv
<1>11. \A p \in Fighters : ~ Activates(fighters[p], fighters'[p])
  BY <1>4 DEF Activates
<1> QED BY <1>10, <1>11

---------------------------------------------------------------------------
(* The theorems about Combat.                                              *)

\* Every step keeps the invariant, and a guard starts only when the cooldown of
\* the last one is over.
LEMMA CombatNextInv ==
    ASSUME CInv, [CombatNext]_combatVars
    PROVE  CInv' /\ \A p \in Fighters : Activates(fighters[p], fighters'[p]) => guarded[p] >= ShieldCooldown
<1>1. CASE OpenTick
  BY <1>1, OpenTickKeeps
<1>2. CASE PreKernel
  BY <1>2, PreKernelKeeps
<1>3. CASE Collide \/ HazardHits \/ SupportLost
  BY <1>3, KernelKeeps
<1>4. CASE Commit
  BY <1>4, CommitKeeps
<1>5. CASE UNCHANGED combatVars
  <2>1. UNCHANGED <<match, turn, fighters, hazard, events, guarded>>
    BY <1>5 DEF combatVars
  <2>2. CInv'
    BY <2>1 DEF CInv, Consequences
  <2>3. \A p \in Fighters : fighters[p].guard \in Nat
    BY PartsOfFighter, Bounds DEF CInv
  <2> QED BY <2>1, <2>2, <2>3 DEF Activates
<1> QED BY <1>1, <1>2, <1>3, <1>4, <1>5 DEF CombatNext

\* The inductive invariant holds in every reachable state.
THEOREM CombatInvariant == CombatSpec => []CInv
<1>1. CInv /\ [CombatNext]_combatVars => CInv'
  BY CombatNextInv
<1> QED BY <1>1, CombatInitInv, PTL DEF CombatSpec

\* A stun and a death end what they are to end, for any number of fighters and
\* any lengths of the windows (status_system.cpp, respawn_system.cpp).
THEOREM StunsAndDeathsAreFinal == CombatSpec => []StunAndDeathAreFinal
<1>1. CInv => StunAndDeathAreFinal
  BY InvIsFinal
<1> QED BY <1>1, CombatInvariant, PTL

\* The guards of one body are spaced by the cooldown, stuns or not
\* (ability_system.cpp, status_system.cpp).
THEOREM ShieldsAreSpaced == CombatSpec => GuardsAreSpaced
<1>1. CInv /\ [CombatNext]_combatVars =>
        [\A p \in Fighters : Activates(fighters[p], fighters'[p]) => guarded[p] >= ShieldCooldown]_combatVars
  BY CombatNextInv
<1> QED BY <1>1, CombatInvariant, PTL DEF CombatSpec, GuardsAreSpaced

\* Two charges that hit each other in one tick stun both, however many contacts
\* the tick has and in whatever order (charge_contact_system.cpp).
THEOREM MutualHitsAreSettledTogether == CombatSpec => MutualHitsStunBoth
<1>1. ASSUME CInv, [CombatNext]_combatVars, NEW p \in Fighters, NEW t \in Fighters,
             turn = Kernel, turn' = 0, match' # "before", FirstHit(p, t), FirstHit(t, p)
      PROVE  \A q \in {p, t} : fighters'[q].stun >= HitStun \/ ~ fighters'[q].body
  <2>1. Kernel # 0
    BY Bounds
  <2>2. Commit
    <3>1. OpenTick => turn' = 1
      BY DEF OpenTick
    <3>2. PreKernel => turn' # 0
      <4>1. PreKernel => turn \in 1 .. Cardinality(Fighters) /\ turn' = turn + 1
        BY DEF PreKernel
      <4> DEFINE n == Cardinality(Fighters)
      <4>2. n \in Nat
        BY Bounds
      <4> HIDE DEF n
      <4>3. \A k \in 1 .. n : k + 1 # 0
        BY <4>2
      <4> QED BY <4>1, <4>3 DEF n
    <3>3. Collide \/ HazardHits \/ SupportLost => turn' = turn
      BY DEF Collide, HazardHits, SupportLost, Leaves
    <3>4. UNCHANGED combatVars => turn' = turn
      BY DEF combatVars
    <3>5. turn # 0
      BY <1>1, <2>1
    <3> QED BY <1>1, <3>1, <3>2, <3>3, <3>4, <3>5 DEF CombatNext
  <2>3. fighters'[p].stun >= HitStun \/ ~ fighters'[p].body
    BY <1>1, <2>2, CommitFacts
  <2>4. fighters'[t].stun >= HitStun \/ ~ fighters'[t].body
    BY <1>1, <2>2, CommitFacts
  <2> QED BY <2>3, <2>4
<1>2. CInv /\ [CombatNext]_combatVars =>
        [\A p, t \in Fighters :
          turn = Kernel /\ turn' = 0 /\ match' # "before" /\ FirstHit(p, t) /\ FirstHit(t, p)
              => \A q \in {p, t} : fighters'[q].stun >= HitStun \/ ~ fighters'[q].body]_combatVars
  BY <1>1
<1> QED BY <1>2, CombatInvariant, PTL DEF CombatSpec, MutualHitsStunBoth


---------------------------------------------------------------------------
(* Modes: sums.                                                            *)

\* The element that a fold takes next.
Taken(S) == CHOOSE x \in S : TRUE

\* What SumFunction computes, in the order in which the fold takes the elements.
InOrder(sum, f, D) ==
    /\ SumFunction(f) = sum[D] /\ sum[{}] = 0
    /\ \A S \in SUBSET D : S # {} => sum[S] = f[Taken(S)] + sum[S \ {Taken(S)}]

\* The fold can be unfolded.
LEMMA SumsInOrder ==
    ASSUME NEW D, IsFiniteSet(D), NEW f, DOMAIN f = D
    PROVE  \E sum : InOrder(sum, f, D)
<1> DEFINE it == CHOOSE g : g = [s \in SUBSET (DOMAIN f) |->
                                    IF s = {} THEN 0
                                    ELSE LET x == CHOOSE x \in s : TRUE IN f[x] + g[s \ {x}]]
           Then(g, s) == IF s = {} THEN 0 ELSE f[Taken(s)] + g[s \ {Taken(s)}]
           IsFamily(g) == g = [s \in SUBSET D |-> g[s]]
           Upto(g, n) == \A s \in SUBSET D : Cardinality(s) <= n => g[s] = Then(g, s)
           Ns == {n \in Nat : \E g : IsFamily(g) /\ Upto(g, n)}
<1>1. SumFunction(f) = it[DOMAIN f]
  BY Zenon DEF SumFunction, SumFunctionOnSet, FoldFunctionOnSet, MapThenFoldSet
<1>2. IsFiniteSet(D) /\ Cardinality(D) \in Nat
  BY FS_CardinalityType
<1>3. ASSUME NEW s \in SUBSET D
      PROVE  /\ IsFiniteSet(s) /\ Cardinality(s) \in Nat /\ (Cardinality(s) = 0 <=> s = {})
             /\ Cardinality(s) <= Cardinality(D)
  BY <1>2, FS_Subset, FS_CardinalityType, FS_EmptySet
<1>4. ASSUME NEW s \in SUBSET D, s # {}
      PROVE  s \ {Taken(s)} \in SUBSET D /\ Cardinality(s \ {Taken(s)}) = Cardinality(s) - 1
  <2>1. Taken(s) \in s
    BY <1>4 DEF Taken
  <2> QED BY <1>3, <2>1, FS_RemoveElement
<1>5. 0 \in Ns
  <2> DEFINE g == [s \in SUBSET D |-> 0]
  <2>1. IsFamily(g)
    OBVIOUS
  <2>2. Upto(g, 0)
    BY <1>3
  <2> HIDE DEF g, Upto, IsFamily
  <2> QED BY <2>1, <2>2
<1>6. ASSUME NEW n \in Nat, n \in Ns PROVE n + 1 \in Ns
  <2>1. PICK g : IsFamily(g) /\ Upto(g, n)
    BY <1>6
  <2> DEFINE h == [s \in SUBSET D |-> Then(g, s)]
  <2>2. ASSUME NEW s \in SUBSET D, Cardinality(s) <= n + 1 PROVE h[s] = Then(h, s)
    <3>1. CASE s = {}
      BY <3>1
    <3>2. CASE s # {}
      <4> DEFINE u == s \ {Taken(s)}
      <4>1. u \in SUBSET D /\ Cardinality(u) <= n
        BY <1>3, <1>4, <2>2, <3>2
      <4>2. g[u] = Then(g, u)
        BY <2>1, <4>1
      <4>3. h[u] = g[u]
        BY <4>1, <4>2
      <4>4. h[s] = Then(g, s)
        OBVIOUS
      <4> HIDE DEF h
      <4> QED BY <3>2, <4>3, <4>4
    <3> QED BY <3>1, <3>2
  <2>3. IsFamily(h) /\ Upto(h, n + 1)
    BY <2>2
  <2> HIDE DEF h, Upto, IsFamily
  <2> QED BY <2>3
<1>7. \E g : g = [s \in SUBSET D |-> Then(g, s)]
  <2> DEFINE N == Cardinality(D)
  <2>1. N \in Nat /\ \A s \in SUBSET D : Cardinality(s) <= N
    BY <1>2, <1>3
  <2> HIDE DEF Ns, N
  <2>2. N \in Ns
    BY <1>5, <1>6, <2>1, NatSets
  <2> USE DEF Ns
  <2>3. PICK g : IsFamily(g) /\ Upto(g, N)
    BY <2>2
  <2>4. \A s \in SUBSET D : g[s] = Then(g, s)
    BY <2>1, <2>3
  <2>5. g = [s \in SUBSET D |-> g[s]]
    BY <2>3
  <2> HIDE DEF Then, Upto, IsFamily
  <2>6. g = [s \in SUBSET D |-> Then(g, s)]
    BY <2>4, <2>5
  <2> QED BY <2>6
<1>8. it = [s \in SUBSET D |-> Then(it, s)]
  <2>1. PICK g : g = [s \in SUBSET D |-> Then(g, s)]
    BY <1>7
  <2>2. g = [s \in SUBSET (DOMAIN f) |-> IF s = {} THEN 0
                                         ELSE LET x == CHOOSE x \in s : TRUE IN f[x] + g[s \ {x}]]
    BY <2>1 DEF Taken
  <2> QED BY Zenon, <2>2 DEF Taken
<1> HIDE DEF it
<1>9. InOrder(it, f, D)
  BY <1>1, <1>8 DEF InOrder
<1> QED BY <1>9

\* A sum of naturals.
LEMMA SumIsNatural ==
    ASSUME NEW D, IsFiniteSet(D), NEW f \in [D -> Nat], NEW sum, InOrder(sum, f, D)
    PROVE  \A S \in SUBSET D : sum[S] \in Nat /\ ((\A p \in D : f[p] = 0) => sum[S] = 0)
<1> DEFINE Good == {S \in SUBSET D : sum[S] \in Nat /\ ((\A p \in D : f[p] = 0) => sum[S] = 0)}
<1>1. ASSUME NEW S \in SUBSET D, \A x \in S : S \ {x} \in Good PROVE S \in Good
  <2>1. CASE S = {}
    BY <2>1 DEF InOrder
  <2>2. CASE S # {}
    <3> DEFINE x == Taken(S)
    <3>1. x \in S
      BY <2>2 DEF Taken
    <3>2. sum[S] = f[x] + sum[S \ {x}] /\ S \ {x} \in Good /\ f[x] \in Nat
      BY <1>1, <2>2, <3>1 DEF InOrder
    <3> HIDE DEF x
    <3> QED BY <3>1, <3>2
  <2> QED BY <2>1, <2>2
<1> HIDE DEF Good
<1>2. \A S \in SUBSET D : S \in Good
  BY <1>1, SubsetInduction
<1> QED BY <1>2 DEF Good

\* If at most one of the summands grows, and by one, the sum grows by at most one.
LEMMA SumGrows ==
    ASSUME NEW D, IsFiniteSet(D), NEW f \in [D -> Nat], NEW g \in [D -> Nat], NEW lucky,
           \A p \in D : g[p] <= f[p] + (IF p \in lucky THEN 1 ELSE 0),
           \A p, q \in lucky : p = q
    PROVE  /\ SumFunction(f) \in Nat /\ SumFunction(g) \in Nat
           /\ SumFunction(g) <= SumFunction(f) + (IF lucky = {} THEN 0 ELSE 1)
<1>1. PICK sf : InOrder(sf, f, D)
  BY SumsInOrder
<1>2. PICK sg : InOrder(sg, g, D)
  BY SumsInOrder
<1> DEFINE Good == {S \in SUBSET D : sg[S] <= sf[S] + (IF lucky \cap S = {} THEN 0 ELSE 1)}
<1>3. \A S \in SUBSET D : sf[S] \in Nat /\ sg[S] \in Nat
  BY <1>1, <1>2, SumIsNatural
<1>4. ASSUME NEW S \in SUBSET D, \A x \in S : S \ {x} \in Good PROVE S \in Good
  <2>1. CASE S = {}
    BY <1>1, <1>2, <2>1 DEF InOrder
  <2>2. CASE S # {}
    <3> DEFINE x == Taken(S)
               T == S \ {x}
    <3>1. x \in S
      BY <2>2 DEF Taken
    <3>2. /\ sf[S] = f[x] + sf[T] /\ sg[S] = g[x] + sg[T] /\ f[x] \in Nat /\ g[x] \in Nat
      BY <1>1, <1>2, <2>2, <3>1 DEF InOrder
    <3>3. T \in Good /\ T \in SUBSET D
      BY <1>4, <3>1
    <3>4. sf[T] \in Nat /\ sg[T] \in Nat
      BY <1>3, <3>3
    <3>5. g[x] <= f[x] + (IF x \in lucky THEN 1 ELSE 0)
      BY <3>1
    <3>6. sg[T] <= sf[T] + (IF lucky \cap T = {} THEN 0 ELSE 1)
      BY <3>3
    <3>7. x \in lucky => lucky \cap T = {} /\ lucky \cap S # {}
      BY <3>1
    <3>8. x \notin lucky => lucky \cap T = lucky \cap S
      BY <3>1
    <3> HIDE DEF x, T
    <3>9. sg[S] <= sf[S] + (IF lucky \cap S = {} THEN 0 ELSE 1)
      BY <3>2, <3>4, <3>5, <3>6, <3>7, <3>8
    <3> QED BY <3>9
  <2> QED BY <2>1, <2>2
<1> HIDE DEF Good
<1>5. \A S \in SUBSET D : S \in Good
  BY <1>4, SubsetInduction
<1>6. D \in SUBSET D
  OBVIOUS
<1>7. sg[D] <= sf[D] + (IF lucky \cap D = {} THEN 0 ELSE 1) /\ sf[D] \in Nat /\ sg[D] \in Nat
  BY <1>3, <1>5, <1>6 DEF Good
<1> QED BY <1>1, <1>2, <1>7 DEF InOrder

---------------------------------------------------------------------------
(* Modes: where the hill and the zone are.                                 *)

\* A whole part of a nonnegative amount.
LEMMA PartOf ==
    ASSUME NEW a \in Nat, NEW k \in Nat, NEW n \in Nat \ {0}, k <= n
    PROVE  (a * k) \div n \in 0 .. a
<1> DEFINE x == a * k
           q == x \div n
<1>1. x \in Nat /\ a * n \in Nat /\ x <= a * n
  <2>1. a * k <= a * n
    BY SMT
  <2> QED BY <2>1
<1> HIDE DEF x
<1>2. q \in Int /\ n * q <= x /\ x < n * q + n
  BY <1>1
<1> HIDE DEF q
<1>3. q >= 0
  <2>1. SUFFICES ASSUME q <= -1 PROVE FALSE
    BY <1>2
  <2>2. n * q <= n * (-1)
    BY <1>2, <2>1
  <2>3. n * q \in Int /\ n * (-1) = -n
    BY <1>2
  <2> QED BY <1>1, <1>2, <2>2, <2>3
<1>4. q <= a
  <2>1. SUFFICES ASSUME q >= a + 1 PROVE FALSE
    BY <1>2
  <2>2. n * q >= n * (a + 1)
    BY <1>2, <2>1
  <2>3. n * (a + 1) = a * n + n /\ n * q \in Int
    BY <1>2
  <2> QED BY <1>1, <1>2, <2>2, <2>3
<1>5. q \in 0 .. a
  BY <1>2, <1>3, <1>4
<1> QED BY <1>5 DEF q, x

\* A whole part of the way back.
LEMMA PartOfNegative ==
    ASSUME NEW a \in Nat, NEW k \in Nat, NEW n \in Nat \ {0}, k <= n
    PROVE  ((-a) * k) \div n \in -a .. 0
<1> DEFINE x == (-a) * k
           q == x \div n
<1>1. x \in Int /\ x <= 0 /\ a * n \in Nat /\ x >= -(a * n)
  <2>1. a * k <= a * n /\ a * k \in Nat /\ a * n \in Nat
    BY SMT
  <2>2. x = -(a * k)
    BY SMT
  <2> HIDE DEF x
  <2> QED BY <2>1, <2>2
<1> HIDE DEF x
<1>2. q \in Int /\ n * q <= x /\ x < n * q + n
  BY <1>1
<1> HIDE DEF q
<1>3. q <= 0
  <2>1. SUFFICES ASSUME q >= 1 PROVE FALSE
    BY <1>2
  <2>2. n * q >= n
    BY <1>2, <2>1
  <2> QED BY <1>1, <1>2, <2>2
<1>4. q >= -a
  <2>1. SUFFICES ASSUME q <= -a - 1 PROVE FALSE
    BY <1>2
  <2>2. n * q <= n * (-a - 1)
    BY <1>2, <2>1
  <2>3. n * (-a - 1) = -(a * n) - n /\ n * q \in Int
    BY <1>2
  <2> QED BY <1>1, <1>2, <2>2, <2>3
<1>5. q \in -a .. 0
  BY <1>2, <1>3, <1>4
<1> QED BY <1>5 DEF q, x

\* A tour stays between its markers, and so in the arena.
LEMMA TourInArena ==
    ASSUME NEW ticks \in Nat
    PROVE  hill_center(ticks) \in 0 .. ArenaWidth
<1> DEFINE n == Len(HillMarkers)
           leg == HillDwell + HillTravel
           s == Stop(ticks)
           from == HillMarkers[s + 1]
           to == HillMarkers[((s + 1) % n) + 1]
           into == ticks % leg
           k == into - HillDwell
<1>1. n \in Nat \ {0} /\ \A i \in 1 .. n : HillMarkers[i] \in 0 .. ArenaWidth
  <2> DEFINE C == 0 .. ArenaWidth
  <2>1. HillMarkers \in Seq(C) /\ HillMarkers # <<>>
    BY HillAssumption
  <2> HIDE DEF C
  <2>2. Len(HillMarkers) # 0 /\ Len(HillMarkers) \in Nat
    BY <2>1
  <2>3. \A i \in 1 .. Len(HillMarkers) : HillMarkers[i] \in C
    BY <2>1
  <2> QED BY <2>2, <2>3 DEF C
<1>2. leg \in Nat \ {0} /\ HillDwell \in Nat /\ HillTravel \in Nat /\ ArenaWidth \in Nat
  BY HillAssumption
<1>3. s \in 0 .. n - 1
  <2> DEFINE d == ticks \div leg
  <2> HIDE DEF n, leg
  <2>1. d \in Int
    BY <1>2
  <2>2. s = d % n
    BY DEF Stop, n, leg
  <2> HIDE DEF s, d
  <2> QED BY <1>1, <2>1, <2>2
<1>4. ((s + 1) % n) + 1 \in 1 .. n /\ s + 1 \in 1 .. n
  <2> HIDE DEF n, s
  <2>1. (s + 1) % n \in 0 .. n - 1
    BY <1>1, <1>3
  <2> QED BY <1>1, <1>3, <2>1
<1>5. from \in 0 .. ArenaWidth /\ to \in 0 .. ArenaWidth
  BY <1>1, <1>4
<1>6. into \in 0 .. leg - 1
  <2> HIDE DEF leg
  <2> QED BY <1>2
<1>7. hill_center(ticks) = IF n = 1 \/ into < HillDwell THEN from ELSE from + ((to - from) * k) \div HillTravel
  BY DEF hill_center
<1> HIDE DEF from, to, into, s, n
<1>8. CASE n = 1 \/ into < HillDwell
  BY <1>5, <1>7, <1>8
<1>9. CASE ~ (n = 1 \/ into < HillDwell)
  <2>1. k \in Nat /\ HillTravel \in Nat \ {0} /\ k <= HillTravel
    BY <1>2, <1>6, <1>9
  <2> HIDE DEF k, leg
  <2>2. CASE to >= from
    <3> DEFINE a == to - from
    <3>1. a \in Nat
      BY <1>5, <2>2
    <3> HIDE DEF a
    <3>2. (a * k) \div HillTravel \in 0 .. a
      BY <2>1, <3>1, PartOf
    <3>3. hill_center(ticks) = from + (a * k) \div HillTravel
      BY <1>7, <1>9 DEF a
    <3> DEFINE q == (a * k) \div HillTravel
    <3> HIDE DEF q
    <3>4. q \in 0 .. to - from
      BY <3>2 DEF q, a
    <3> QED BY <1>2, <1>5, <2>2, <3>3, <3>4 DEF q
  <2>3. CASE to < from
    <3> DEFINE a == from - to
    <3>1. a \in Nat /\ to - from = -a
      BY <1>5, <2>3
    <3> HIDE DEF a
    <3>2. ((-a) * k) \div HillTravel \in -a .. 0
      BY <2>1, <3>1, PartOfNegative
    <3>3. hill_center(ticks) = from + ((-a) * k) \div HillTravel
      BY <1>7, <1>9, <3>1
    <3> DEFINE q == ((-a) * k) \div HillTravel
    <3> HIDE DEF q
    <3>4. q \in -a .. 0 /\ a = from - to
      BY <3>2 DEF q, a
    <3> QED BY <1>2, <1>5, <2>3, <3>3, <3>4 DEF q
  <2> QED BY <1>5, <2>2, <2>3
<1> QED BY <1>8, <1>9

\* A hill of either policy.
HillPlace == [center : 0 .. ArenaWidth, velocity : -HillSpeed .. HillSpeed, left : NoSchedule .. RetargetMaximum - 1]

\* Where a tour begins.
LEMMA FirstMarkerInArena == FirstMarker \in 0 .. ArenaWidth
BY HillAssumption DEF FirstMarker

\* A hill at a marker.
LEMMA MarkerHill == ASSUME NEW c \in 0 .. ArenaWidth PROVE HillAt(c) \in HillPlace
BY HillAssumption DEF HillAt, HillPlace, NoSchedule

\* A course never takes the hill out of the arena.
LEMMA CancelInArena ==
    ASSUME NEW hill \in HillPlace
    PROVE  cancel_boundary_axis(hill) \in HillPlace
<1> DEFINE C == 0 .. ArenaWidth
           V == -HillSpeed .. HillSpeed
           L == NoSchedule .. RetargetMaximum - 1
           proposed == hill.center + hill.velocity
<1>1. hill \in [center : C, velocity : V, left : L] /\ HillPlace = [center : C, velocity : V, left : L]
  BY DEF HillPlace
<1>2. hill.center \in Int /\ hill.velocity \in Int /\ ArenaWidth \in Int /\ 0 \in V
  BY <1>1, HillAssumption
<1>3. (proposed >= 0 /\ proposed <= ArenaWidth) => proposed \in C
  BY <1>2
<1>4. proposed < 0 \/ proposed > ArenaWidth \/ (proposed >= 0 /\ proposed <= ArenaWidth)
  BY <1>2
<1> HIDE DEF C, V, L
<1>5. [hill EXCEPT !.velocity = 0] \in [center : C, velocity : V, left : L]
  BY <1>1, <1>2
<1>6. ASSUME proposed \in C
      PROVE  /\ [hill EXCEPT !.center = proposed, !.velocity = 0] \in [center : C, velocity : V, left : L]
             /\ [hill EXCEPT !.center = proposed] \in [center : C, velocity : V, left : L]
  <2> HIDE DEF proposed
  <2> QED BY <1>1, <1>2, <1>6
<1> QED BY <1>1, <1>3, <1>4, <1>5, <1>6 DEF cancel_boundary_axis

\* Neither does hill_movement.
LEMMA HillStaysInArena ==
    ASSUME NEW policy \in Tour, NEW hill \in HillPlace, NEW ticks \in Nat,
           NEW ph \in {"lobby", "countdown", "running", "ended"},
           NEW next \in hill_movement(policy, hill, ph, ticks)
    PROVE  next \in HillPlace
<1>1. CASE policy = "marker_tour"
  <2>1. next = HillAt(hill_center(ticks))
    BY <1>1 DEF hill_movement
  <2> QED BY <2>1, TourInArena, MarkerHill
<1>2. CASE policy = "random_roam" /\ ph \in {"lobby", "countdown"}
  <2>1. next = HillAt(FirstMarker)
    BY <1>2 DEF hill_movement
  <2> QED BY <2>1, FirstMarkerInArena, MarkerHill
<1>3. CASE policy = "random_roam" /\ ph = "ended"
  BY <1>3 DEF hill_movement
<1>4. CASE policy = "random_roam" /\ ph = "running"
  <2>1. next \in RoamsTo(hill)
    BY <1>4 DEF hill_movement
  <2>2. CASE hill.left \in {NoSchedule, 0}
    <3>1. PICK s \in sample_hill_roam :
             next = cancel_boundary_axis([hill EXCEPT !.velocity = s.velocity, !.left = s.left])
      BY <2>1, <2>2 DEF RoamsTo
    <3>2. s.velocity \in -HillSpeed .. HillSpeed /\ s.left \in NoSchedule .. RetargetMaximum - 1
      BY HillAssumption DEF sample_hill_roam, NoSchedule
    <3>3. [hill EXCEPT !.velocity = s.velocity, !.left = s.left] \in HillPlace
      BY <3>2 DEF HillPlace
    <3> QED BY <3>1, <3>3, CancelInArena
  <2>3. CASE hill.left \notin {NoSchedule, 0}
    <3>1. next = cancel_boundary_axis([hill EXCEPT !.left = @ - 1])
      BY <2>1, <2>3 DEF RoamsTo
    <3>2. hill.left - 1 \in NoSchedule .. RetargetMaximum - 1
      BY <2>3, HillAssumption DEF HillPlace, NoSchedule
    <3>3. [hill EXCEPT !.left = @ - 1] \in HillPlace
      BY <3>2 DEF HillPlace
    <3> QED BY <3>1, <3>3, CancelInArena
  <2> QED BY <2>2, <2>3
<1> QED BY <1>1, <1>2, <1>3, <1>4 DEF Tour

\* The zone keeps between its two radii.
LEMMA ZoneBetweenRadii ==
    ASSUME NEW ticks \in Nat, NEW ph
    PROVE  zone_shrink(ph, ticks) \in ZoneMinimum .. ZoneFull
<1>1. ZoneMinimum \in Nat /\ ZoneFull \in Nat /\ ZoneFull >= ZoneMinimum /\ ZoneShrink \in Nat
  BY ZoneAssumption
<1>2. zone_radius(ticks) \in ZoneMinimum .. ZoneFull
  <2>1. CASE ticks >= ZoneShrink
    BY <1>1, <2>1 DEF zone_radius
  <2>2. CASE ~ (ticks >= ZoneShrink)
    <3> DEFINE a == ZoneFull - ZoneMinimum
               q == (a * ticks) \div ZoneShrink
    <3>1. a \in Nat /\ ZoneShrink \in Nat \ {0} /\ ticks <= ZoneShrink
      BY <1>1, <2>2
    <3> HIDE DEF a
    <3>2. q \in 0 .. a
      BY <3>1, PartOf
    <3>3. zone_radius(ticks) = ZoneFull - q
      BY <2>2 DEF zone_radius, a
    <3> HIDE DEF q
    <3> QED BY <1>1, <3>2, <3>3 DEF a
  <2> QED BY <2>1, <2>2
<1> QED BY <1>1, <1>2 DEF zone_shrink

---------------------------------------------------------------------------
(* Modes: the standings of a race.                                         *)

Row == [entity : Players \cup {Departed}, placement : Nat, tick : Nat, offset : 1 .. 2]

\* One finish is strictly earlier than another.
Earlier(s, t) == s.tick < t.tick \/ (s.tick = t.tick /\ s.offset < t.offset)

\* A list is in the order of the finishes, ranks by it, and has nobody twice.
Ranked(list) ==
    /\ list \in Seq(Row)
    /\ \A i, j \in DOMAIN list : i < j => ~ Earlier(list[j], list[i])
    /\ \A i \in DOMAIN list : list[i].placement = 1 + Cardinality({j \in DOMAIN list : Earlier(list[j], list[i])})
    /\ \A i, j \in DOMAIN list : list[i].entity = list[j].entity => i = j \/ list[i].entity = Departed

\* What the theorem says of the standings.
LEMMA RankedByTime == Ranked(standings) => StandingsRankByTime
BY DEF Ranked, StandingsRankByTime, Earlier

\* A list of rows.
LEMMA Rows ==
    ASSUME NEW list \in Seq(Row)
    PROVE  /\ Len(list) \in Nat /\ DOMAIN list = 1 .. Len(list) /\ (list = <<>> <=> Len(list) = 0)
           /\ \A i \in DOMAIN list : /\ list[i] \in Row /\ list[i].tick \in Nat /\ list[i].offset \in 1 .. 2
                                     /\ list[i].placement \in Nat /\ list[i].entity \in Players \cup {Departed}
<1>1. Len(list) \in Nat /\ DOMAIN list = 1 .. Len(list) /\ (list = <<>> <=> Len(list) = 0)
  OBVIOUS
<1>2. \A i \in DOMAIN list : list[i] \in Row
  OBVIOUS
<1>3. \A r \in Row : /\ r.tick \in Nat /\ r.offset \in 1 .. 2
                     /\ r.placement \in Nat /\ r.entity \in Players \cup {Departed}
  BY DEF Row
<1> QED BY <1>1, <1>2, <1>3

\* A finish that is not earlier than those listed is placed.
LEMMA PlacedRanks ==
    ASSUME NEW list, Ranked(list), NEW p \in Players, p \notin Finished(list),
           NEW tick \in Nat, NEW o \in 1 .. 2,
           \A i \in DOMAIN list : list[i].tick < tick \/ (list[i].tick = tick /\ list[i].offset <= o),
           NEW new, new = Placed(list, p, tick, o)
    PROVE  /\ Ranked(new) /\ Len(new) = Len(list) + 1
           /\ \A i \in DOMAIN list : i \in DOMAIN new /\ new[i] = list[i]
           /\ new[Len(new)].entity = p /\ new[Len(new)].tick = tick /\ new[Len(new)].offset = o
<1> DEFINE n == Len(list)
           last == list[n]
           tied == list # <<>> /\ last.tick = tick /\ last.offset = o
           r == Standing(p, IF tied THEN last.placement ELSE n + 1, tick, o)
<1>1. list \in Seq(Row)
  BY DEF Ranked
<1>2. /\ n \in Nat /\ DOMAIN list = 1 .. n /\ (list = <<>> <=> n = 0)
      /\ \A i \in 1 .. n : /\ list[i] \in Row /\ list[i].tick \in Nat /\ list[i].offset \in 1 .. 2
                           /\ list[i].placement \in Nat /\ list[i].entity \in Players \cup {Departed}
  BY <1>1, Rows
<1>3. new = Append(list, r)
  BY DEF Placed
<1>4. r.entity = p /\ r.tick = tick /\ r.offset = o /\ r.placement = IF tied THEN last.placement ELSE n + 1
  BY DEF Standing
<1>5. r.placement \in Nat
  <2>1. CASE tied
    <3>1. n \in 1 .. n
      BY <1>2, <2>1
    <3> QED BY <1>2, <1>4, <2>1, <3>1
  <2>2. CASE ~ tied
    BY <1>2, <1>4, <2>2
  <2> QED BY <2>1, <2>2
<1>6. r \in Row
  <2>1. r = [entity |-> r.entity, placement |-> r.placement, tick |-> r.tick, offset |-> r.offset]
    BY <1>4 DEF Standing
  <2> QED BY <1>4, <1>5, <2>1 DEF Row
<1>7. new \in Seq(Row) /\ Len(new) = n + 1 /\ DOMAIN new = 1 .. n + 1 /\ new[n + 1] = r
      /\ \A i \in 1 .. n : new[i] = list[i]
  <2> HIDE DEF r, n
  <2>1. new \in Seq(Row) /\ Len(new) = Len(list) + 1 /\ new[Len(list) + 1] = r
        /\ \A i \in 1 .. Len(list) : new[i] = list[i]
    BY <1>1, <1>3, <1>6
  <2>2. DOMAIN new = 1 .. Len(new)
    BY <2>1
  <2> QED BY <2>1, <2>2 DEF n
<1> DEFINE Before(t) == {j \in 1 .. n : Earlier(list[j], t)}
<1>8. \A i \in 1 .. n : ~ Earlier(r, list[i])
  BY <1>2, <1>4 DEF Earlier
<1>9. ~ Earlier(r, r)
  BY <1>4 DEF Earlier
<1>10. \A i \in 1 .. n : {j \in DOMAIN new : Earlier(new[j], new[i])} = Before(list[i])
  <2> SUFFICES ASSUME NEW i \in 1 .. n
               PROVE  {j \in DOMAIN new : Earlier(new[j], new[i])} = Before(list[i])
    OBVIOUS
  <2>1. new[i] = list[i]
    BY <1>7
  <2>2. \A j \in 1 .. n + 1 : j \in 1 .. n \/ j = n + 1
    BY <1>2
  <2>3. \A j \in 1 .. n : j \in 1 .. n + 1
    BY <1>2
  <2> HIDE DEF r, n
  <2> QED BY <1>7, <1>8, <2>1, <2>2, <2>3
<1>11. {j \in DOMAIN new : Earlier(new[j], r)} = Before(r)
  <2>1. \A j \in 1 .. n + 1 : j \in 1 .. n \/ j = n + 1
    BY <1>2
  <2>2. \A j \in 1 .. n : j \in 1 .. n + 1
    BY <1>2
  <2> HIDE DEF r, n
  <2> QED BY <1>7, <1>9, <2>1, <2>2
<1>12. r.placement = 1 + Cardinality(Before(r))
  <2>1. CASE tied
    <3>1. n \in 1 .. n
      BY <1>2, <2>1
    <3>2. \A j \in 1 .. n : Earlier(list[j], r) <=> Earlier(list[j], last)
      BY <1>4, <2>1 DEF Earlier
    <3>3. Before(r) = Before(last)
      BY <3>2
    <3>4. last.placement = 1 + Cardinality(Before(last))
      BY <1>2, <3>1 DEF Ranked
    <3> QED BY <1>4, <2>1, <3>3, <3>4
  <2>2. CASE ~ tied
    <3>1. \A j \in 1 .. n : Earlier(list[j], r)
      <4> SUFFICES ASSUME NEW j \in 1 .. n PROVE Earlier(list[j], r)
        OBVIOUS
      <4>1. n \in 1 .. n /\ list # <<>>
        BY <1>2
      <4>2. ~ Earlier(last, list[j])
        <5>1. CASE j = n
          BY <1>2, <5>1 DEF Earlier
        <5>2. CASE j < n
          BY <1>2, <4>1, <5>2 DEF Ranked
        <5>3. j = n \/ j < n
          <6> HIDE DEF n
          <6> QED BY <1>2
        <5> QED BY <5>1, <5>2, <5>3
      <4>3. last.tick < tick \/ (last.tick = tick /\ last.offset < o)
        <5>1. last.tick < tick \/ (last.tick = tick /\ last.offset <= o)
          BY <1>2, <4>1
        <5> QED BY <1>2, <2>2, <4>1, <5>1
      <4>4. last.tick \in Nat /\ last.offset \in 1 .. 2 /\ list[j].tick \in Nat /\ list[j].offset \in 1 .. 2
        BY <1>2, <4>1
      <4>5. ~ (last.tick < list[j].tick \/ (last.tick = list[j].tick /\ last.offset < list[j].offset))
        BY <4>2 DEF Earlier
      <4> DEFINE a == last.tick
                 b == last.offset
                 c == list[j].tick
                 d == list[j].offset
      <4> HIDE DEF a, b, c, d
      <4>6. c < tick \/ (c = tick /\ d < o)
        BY <4>3, <4>4, <4>5 DEF a, b, c, d
      <4> QED BY <1>4, <4>6 DEF Earlier, c, d
    <3>2. Before(r) = 1 .. n
      BY <3>1
    <3>3. Cardinality(1 .. n) = n
      <4> HIDE DEF n
      <4> QED BY <1>2, FS_Interval
    <3>4. r.placement = n + 1
      BY <1>4, <2>2
    <3> HIDE DEF r, Before, n
    <3> QED BY <1>2, <3>2, <3>3, <3>4
  <2> QED BY <2>1, <2>2
<1>13. \A i \in 1 .. n : list[i].entity # p
  <2>1. \A i \in 1 .. n : list[i] \in ToSet(list)
    BY <1>2 DEF ToSet
  <2> QED BY <2>1 DEF Finished
<1> HIDE DEF r, Before
<1>14. \A i \in 1 .. n + 1 : i \in 1 .. n \/ i = n + 1
  BY <1>2
<1>15. ASSUME NEW i \in DOMAIN new, NEW j \in DOMAIN new, i < j
       PROVE  ~ Earlier(new[j], new[i])
  <2>1. i \in 1 .. n
    BY <1>2, <1>7, <1>15
  <2>2. CASE j \in 1 .. n
    BY <1>2, <1>7, <1>15, <2>1, <2>2 DEF Ranked
  <2>3. CASE j = n + 1
    BY <1>7, <1>8, <2>1, <2>3
  <2> QED BY <1>7, <1>14, <2>2, <2>3
<1>16. ASSUME NEW i \in DOMAIN new
       PROVE  new[i].placement = 1 + Cardinality({j \in DOMAIN new : Earlier(new[j], new[i])})
  <2>1. CASE i \in 1 .. n
    <3>1. list[i].placement = 1 + Cardinality(Before(list[i]))
      BY <1>2, <2>1 DEF Ranked, Before
    <3> QED BY <1>7, <1>10, <2>1, <3>1
  <2>2. CASE i = n + 1
    BY <1>7, <1>11, <1>12, <2>2
  <2> QED BY <1>7, <1>14, <2>1, <2>2
<1>17. ASSUME NEW i \in DOMAIN new, NEW j \in DOMAIN new, new[i].entity = new[j].entity
       PROVE  i = j \/ new[i].entity = Departed
  <2>1. CASE i \in 1 .. n /\ j \in 1 .. n
    BY <1>2, <1>7, <1>17, <2>1 DEF Ranked
  <2>2. CASE i = n + 1 \/ j = n + 1
    BY <1>4, <1>7, <1>13, <1>14, <1>17, <2>2
  <2> QED BY <1>7, <1>14, <2>1, <2>2
<1>18. Ranked(new)
  BY <1>7, <1>15, <1>16, <1>17 DEF Ranked
<1>19. \A i \in DOMAIN list : i \in DOMAIN new /\ new[i] = list[i]
  BY <1>2, <1>7
<1> QED BY <1>4, <1>7, <1>18, <1>19 DEF n

\* The finishers of a tick have a last.
LEMMA LastFinisherIsLast ==
    ASSUME NEW S, S # {}, S \subseteq Players, NEW offset \in [Players -> 1 .. 2]
    PROVE  LastFinisher(S, offset) \in S /\ \A q \in S : offset[q] <= offset[LastFinisher(S, offset)]
<1>1. Players \subseteq Nat /\ IsFiniteSet(Players) /\ \A p \in Players : offset[p] \in Int
  BY ModesAssumption
<1> DEFINE Later(p, q) == FinishesBefore(q, p, offset)
           Good == {T \in SUBSET Players : T # {} => \E m \in T : \A q \in T \ {m} : Later(m, q)}
<1>2. ASSUME NEW T \in SUBSET Players, \A x \in T : T \ {x} \in Good PROVE T \in Good
  <2> SUFFICES ASSUME NEW y \in T PROVE \E m \in T : \A q \in T \ {m} : Later(m, q)
    OBVIOUS
  <2>1. CASE T \ {y} = {}
    <3>1. \A q \in T \ {y} : Later(y, q)
      BY <2>1
    <3> QED BY <3>1
  <2>2. CASE T \ {y} # {}
    <3>1. PICK m \in T \ {y} : \A q \in (T \ {y}) \ {m} : Later(m, q)
      BY <1>2, <2>2
    <3>2. /\ m \in Nat /\ y \in Nat /\ m # y /\ offset[m] \in Int /\ offset[y] \in Int
          /\ \A q \in T : q \in Nat /\ offset[q] \in Int
      BY <1>1, <3>1
    <3>3. Later(m, y) \/ Later(y, m)
      BY <3>2 DEF FinishesBefore
    <3>4. CASE Later(m, y)
      BY <3>1, <3>4
    <3>5. CASE Later(y, m)
      <4>1. ASSUME NEW q \in T \ {y} PROVE Later(y, q)
        <5>1. CASE q = m
          BY <3>5, <5>1
        <5>2. CASE q # m
          <6>1. Later(m, q)
            BY <3>1, <5>2
          <6> QED BY <3>2, <3>5, <6>1 DEF FinishesBefore
        <5> QED BY <5>1, <5>2
      <4> QED BY <4>1
    <3> QED BY <3>3, <3>4, <3>5
  <2> QED BY <2>1, <2>2
<1> HIDE DEF Good
<1>3. \A T \in SUBSET Players : T \in Good
  BY <1>1, <1>2, SubsetInduction
<1>4. \E m \in S : \A q \in S \ {m} : FinishesBefore(q, m, offset)
  BY <1>3 DEF Good
<1> DEFINE l == LastFinisher(S, offset)
<1>5. l \in S /\ \A q \in S \ {l} : FinishesBefore(q, l, offset)
  BY <1>4 DEF LastFinisher
<1> HIDE DEF l
<1>6. ASSUME NEW q \in S PROVE offset[q] <= offset[l]
  <2>1. offset[q] \in Int /\ offset[l] \in Int
    BY <1>1, <1>5
  <2>2. q = l \/ FinishesBefore(q, l, offset)
    BY <1>5
  <2> QED BY <2>1, <2>2 DEF FinishesBefore
<1> QED BY <1>5, <1>6 DEF l

\* What standings_recorder computes: the list after each set of finishers.
Recording(list, base, new, offset, tick) ==
    /\ list[{}] = base
    /\ \A S \in SUBSET new : S # {} =>
          list[S] = Placed(list[S \ {LastFinisher(S, offset)}], LastFinisher(S, offset), tick,
                           offset[LastFinisher(S, offset)])

\* The finishers that are not listed.
Fresh(base, finishers) == finishers \ Finished(base)

\* The recursion can be unfolded.
LEMMA RecorderUnfolds ==
    ASSUME NEW base, NEW finishers \in SUBSET Players, NEW offset \in [Players -> 1 .. 2], NEW tick,
           NEW result, result = standings_recorder(base, finishers, offset, tick)
    PROVE  \E list : Recording(list, base, Fresh(base, finishers), offset, tick) /\ result = list[Fresh(base, finishers)]
<1> DEFINE new == Fresh(base, finishers)
           Latest(s) == LastFinisher(s, offset)
           it == CHOOSE g : g = [S \in SUBSET new |->
                                    IF S = {} THEN base
                                    ELSE LET last == LastFinisher(S, offset)
                                         IN Placed(g[S \ {last}], last, tick, offset[last])]
           Then(g, s) == IF s = {} THEN base ELSE Placed(g[s \ {Latest(s)}], Latest(s), tick, offset[Latest(s)])
           IsFamily(g) == g = [s \in SUBSET new |-> g[s]]
           Upto(g, n) == \A s \in SUBSET new : Cardinality(s) <= n => g[s] = Then(g, s)
           Ns == {n \in Nat : \E g : IsFamily(g) /\ Upto(g, n)}
<1>1. result = it[new]
  BY Zenon DEF standings_recorder, Fresh
<1>2. IsFiniteSet(new) /\ Cardinality(new) \in Nat /\ new \subseteq Players
  BY ModesAssumption, FS_Subset, FS_CardinalityType DEF Fresh
<1> HIDE DEF new
<1>3. ASSUME NEW s \in SUBSET new
      PROVE  /\ IsFiniteSet(s) /\ Cardinality(s) \in Nat /\ (Cardinality(s) = 0 <=> s = {})
             /\ Cardinality(s) <= Cardinality(new)
  BY <1>2, FS_Subset, FS_CardinalityType, FS_EmptySet
<1>4. ASSUME NEW s \in SUBSET new, s # {}
      PROVE  s \ {Latest(s)} \in SUBSET new /\ Cardinality(s \ {Latest(s)}) = Cardinality(s) - 1
  <2>1. Latest(s) \in s
    BY <1>2, <1>4, LastFinisherIsLast
  <2> QED BY <1>3, <2>1, FS_RemoveElement
<1>5. 0 \in Ns
  <2> DEFINE g == [s \in SUBSET new |-> base]
  <2>1. IsFamily(g)
    OBVIOUS
  <2>2. Upto(g, 0)
    BY <1>3
  <2> HIDE DEF g, Upto, IsFamily
  <2> QED BY <2>1, <2>2
<1>6. ASSUME NEW n \in Nat, n \in Ns PROVE n + 1 \in Ns
  <2>1. PICK g : IsFamily(g) /\ Upto(g, n)
    BY <1>6
  <2> DEFINE h == [s \in SUBSET new |-> Then(g, s)]
  <2>2. ASSUME NEW s \in SUBSET new, Cardinality(s) <= n + 1 PROVE h[s] = Then(h, s)
    <3>1. CASE s = {}
      BY <3>1
    <3>2. CASE s # {}
      <4> DEFINE u == s \ {Latest(s)}
      <4>1. u \in SUBSET new /\ Cardinality(u) <= n
        BY <1>3, <1>4, <2>2, <3>2
      <4>2. g[u] = Then(g, u)
        BY <2>1, <4>1
      <4>3. h[u] = g[u]
        BY <4>1, <4>2
      <4>4. h[s] = Then(g, s)
        OBVIOUS
      <4> HIDE DEF h, Latest
      <4> QED BY <3>2, <4>3, <4>4
    <3> QED BY <3>1, <3>2
  <2>3. IsFamily(h) /\ Upto(h, n + 1)
    BY <2>2
  <2> HIDE DEF h, Upto, IsFamily
  <2> QED BY <2>3
<1>7. \E g : g = [s \in SUBSET new |-> Then(g, s)]
  <2> DEFINE N == Cardinality(new)
  <2>1. N \in Nat /\ \A s \in SUBSET new : Cardinality(s) <= N
    BY <1>2, <1>3
  <2> HIDE DEF Ns, N
  <2>2. N \in Ns
    BY <1>5, <1>6, <2>1, NatSets
  <2> USE DEF Ns
  <2>3. PICK g : IsFamily(g) /\ Upto(g, N)
    BY <2>2
  <2>4. \A s \in SUBSET new : g[s] = Then(g, s)
    BY <2>1, <2>3
  <2>5. g = [s \in SUBSET new |-> g[s]]
    BY <2>3
  <2> HIDE DEF Then, Upto, IsFamily
  <2>6. g = [s \in SUBSET new |-> Then(g, s)]
    BY <2>4, <2>5
  <2> QED BY <2>6
<1>8. it = [s \in SUBSET new |-> Then(it, s)]
  <2>1. PICK g : g = [s \in SUBSET new |-> Then(g, s)]
    BY <1>7
  <2>2. g = [S \in SUBSET new |-> IF S = {} THEN base
                                  ELSE LET last == LastFinisher(S, offset)
                                       IN Placed(g[S \ {last}], last, tick, offset[last])]
    BY <2>1
  <2> QED BY Zenon, <2>2
<1> HIDE DEF it
<1>9. Recording(it, base, new, offset, tick)
  BY <1>8 DEF Recording
<1> QED BY <1>1, <1>9 DEF new

\* A list of finishes before the tick, extended by the finishes of the tick.
Extends(list, base, S, offset, tick) ==
    /\ Ranked(list)
    /\ \A i \in DOMAIN base : i \in DOMAIN list /\ list[i] = base[i]
    /\ \A i \in DOMAIN list : \/ i \in DOMAIN base
                              \/ list[i].tick = tick /\ \E q \in S : list[i].entity = q /\ list[i].offset = offset[q]

\* standings_recorder ranks the finishes of a tick after all earlier ones.
LEMMA RecorderRanks ==
    ASSUME NEW base, Ranked(base), NEW finishers \in SUBSET Players,
           NEW offset \in [Players -> 1 .. 2], NEW tick \in Nat,
           \A i \in DOMAIN base : base[i].tick < tick,
           NEW new, new = standings_recorder(base, finishers, offset, tick)
    PROVE  Extends(new, base, finishers, offset, tick)
<1> DEFINE F == Fresh(base, finishers)
<1>2. IsFiniteSet(F) /\ F \subseteq Players
  BY ModesAssumption, FS_Subset DEF Fresh
<1>3. \A q \in F : q \notin Finished(base)
  BY DEF Fresh
<1>1. PICK list : Recording(list, base, F, offset, tick) /\ new = list[F]
  BY RecorderUnfolds
<1> HIDE DEF F
<1> DEFINE Good == {S \in SUBSET F : Extends(list[S], base, S, offset, tick)}
<1>4. ASSUME NEW S \in SUBSET F, \A x \in S : S \ {x} \in Good PROVE S \in Good
  <2>1. CASE S = {}
    <3>1. list[S] = base
      BY <1>1, <2>1 DEF Recording
    <3> QED BY <3>1 DEF Extends
  <2>2. CASE S # {}
    <3> DEFINE p == LastFinisher(S, offset)
               T == S \ {p}
               old == list[T]
               o == offset[p]
    <3>1. p \in S /\ \A q \in S : offset[q] <= o
      BY <1>2, <2>2, LastFinisherIsLast
    <3>2. list[S] = Placed(old, p, tick, o)
      BY <1>1, <2>2 DEF Recording
    <3>3. Extends(old, base, T, offset, tick)
      BY <1>4, <3>1
    <3>4. p \in Players /\ o \in 1 .. 2 /\ T \subseteq S /\ p \notin T /\ p \in F
      BY <1>2, <3>1
    <3> HIDE DEF p, T, old, o
    <3>5. Ranked(old) /\ old \in Seq(Row)
      BY <3>3 DEF Extends, Ranked
    <3>6. DOMAIN old = 1 .. Len(old) /\ Len(old) \in Nat
      BY <3>5, Rows
    <3>7. \A i \in DOMAIN old : old[i].tick < tick \/ (old[i].tick = tick /\ old[i].offset <= o)
      BY <3>1, <3>3, <3>4 DEF Extends
    <3>8. p \notin Finished(old)
      <4>1. SUFFICES ASSUME NEW i \in DOMAIN old, old[i].entity = p PROVE FALSE
        BY DEF Finished, ToSet
      <4>2. CASE i \in DOMAIN base
        <5>1. base[i].entity = p
          BY <3>3, <4>1, <4>2 DEF Extends
        <5> QED BY <1>3, <3>4, <4>2, <5>1 DEF Finished, ToSet
      <4>3. CASE i \notin DOMAIN base
        BY <3>3, <3>4, <4>1, <4>3 DEF Extends
      <4> QED BY <4>2, <4>3
    <3> DEFINE l == list[S]
    <3>9. /\ Ranked(l) /\ Len(l) = Len(old) + 1 /\ \A i \in DOMAIN old : i \in DOMAIN l /\ l[i] = old[i]
          /\ l[Len(l)].entity = p /\ l[Len(l)].tick = tick /\ l[Len(l)].offset = o
      BY <3>2, <3>4, <3>5, <3>7, <3>8, PlacedRanks
    <3>10. DOMAIN l = 1 .. Len(l)
      <4>1. l \in Seq(Row)
        BY <3>9 DEF Ranked
      <4> QED BY <4>1, Rows
    <3> HIDE DEF l
    <3>11. \A i \in DOMAIN l : i \in DOMAIN old \/ i = Len(l)
      BY <3>6, <3>9, <3>10
    <3>12. Extends(l, base, S, offset, tick)
      <4>1. \A i \in DOMAIN base : i \in DOMAIN l /\ l[i] = base[i]
        BY <3>3, <3>9 DEF Extends
      <4>2. ASSUME NEW i \in DOMAIN l, i \notin DOMAIN base
            PROVE  l[i].tick = tick /\ \E q \in S : l[i].entity = q /\ l[i].offset = offset[q]
        <5>1. CASE i \in DOMAIN old
          <6>1. l[i] = old[i] /\ old[i].tick = tick /\ \E q \in T : old[i].entity = q /\ old[i].offset = offset[q]
            BY <3>3, <3>9, <4>2, <5>1 DEF Extends
          <6> QED BY <3>4, <6>1
        <5>2. CASE i = Len(l)
          BY <3>1, <3>9, <5>2 DEF o
        <5> QED BY <3>11, <5>1, <5>2
      <4> QED BY <3>9, <4>1, <4>2 DEF Extends
    <3> QED BY <3>12 DEF l
  <2> QED BY <2>1, <2>2
<1> HIDE DEF Good
<1>5. \A S \in SUBSET F : S \in Good
  BY <1>2, <1>4, SubsetInduction
<1>6. Extends(new, base, F, offset, tick)
  BY <1>1, <1>5 DEF Good
<1>7. F \subseteq finishers
  BY DEF F, Fresh
<1> QED BY <1>6, <1>7 DEF Extends

\* A list whose entities were destroyed keeps its ranking.
LEMMA ForgetRanks ==
    ASSUME Ranked(standings), NEW gone, NEW new, new = Forget(gone)
    PROVE  /\ Ranked(new) /\ Len(new) = Len(standings) /\ DOMAIN new = DOMAIN standings
           /\ \A i \in DOMAIN standings : new[i].tick = standings[i].tick
<1>1. /\ standings \in Seq(Row) /\ Len(standings) \in Nat /\ DOMAIN standings = 1 .. Len(standings)
      /\ \A i \in DOMAIN standings : standings[i] \in Row
  BY Rows DEF Ranked
<1>2. \A r \in Row : [r EXCEPT !.entity = Departed] \in Row
  BY DEF Row
<1>3. DOMAIN new = DOMAIN standings /\ \A i \in DOMAIN standings :
         /\ new[i] \in Row /\ new[i].tick = standings[i].tick /\ new[i].offset = standings[i].offset
         /\ new[i].placement = standings[i].placement
         /\ new[i].entity = standings[i].entity \/ new[i].entity = Departed
  <2> DEFINE New(r) == IF r.entity \in gone THEN [r EXCEPT !.entity = Departed] ELSE r
  <2>1. DOMAIN new = DOMAIN standings /\ \A i \in DOMAIN standings : new[i] = New(standings[i])
    BY DEF Forget
  <2>2. \A r \in Row : /\ New(r) \in Row /\ New(r).tick = r.tick /\ New(r).offset = r.offset
                       /\ New(r).placement = r.placement
                       /\ New(r).entity = r.entity \/ New(r).entity = Departed
    BY <1>2 DEF Row
  <2> HIDE DEF New
  <2> QED BY <1>1, <2>1, <2>2
<1>4. new \in Seq(Row) /\ Len(new) = Len(standings)
  <2> DEFINE n == Len(standings)
  <2>1. new = [i \in 1 .. n |-> new[i]]
    BY <1>1 DEF Forget
  <2> HIDE DEF n
  <2>2. n \in Nat /\ \A i \in 1 .. n : new[i] \in Row
    BY <1>1, <1>3 DEF n
  <2>3. new \in Seq(Row) /\ Len(new) = n
    <3>1. new \in [1 .. n -> Row]
      BY <2>1, <2>2
    <3>2. new \in Seq(Row)
      BY <2>2, <3>1, SeqDef
    <3> QED BY <2>2, <3>1, <3>2, LenProperties
  <2> QED BY <2>3 DEF n
<1>5. \A i, j \in DOMAIN standings : Earlier(new[j], new[i]) <=> Earlier(standings[j], standings[i])
  BY <1>3 DEF Earlier
<1>6. \A i \in DOMAIN standings : {j \in DOMAIN new : Earlier(new[j], new[i])}
                                    = {j \in DOMAIN standings : Earlier(standings[j], standings[i])}
  BY <1>3, <1>5
<1>7. \A i, j \in DOMAIN new : i < j => ~ Earlier(new[j], new[i])
  BY <1>3, <1>5 DEF Ranked
<1>8. \A i \in DOMAIN new : new[i].placement = 1 + Cardinality({j \in DOMAIN new : Earlier(new[j], new[i])})
  <2> SUFFICES ASSUME NEW i \in DOMAIN new
               PROVE  new[i].placement = 1 + Cardinality({j \in DOMAIN new : Earlier(new[j], new[i])})
    OBVIOUS
  <2>1. standings[i].placement = 1 + Cardinality({j \in DOMAIN standings : Earlier(standings[j], standings[i])})
    BY <1>3 DEF Ranked
  <2> QED BY <1>3, <1>6, <2>1
<1>9. \A i, j \in DOMAIN new : new[i].entity = new[j].entity => i = j \/ new[i].entity = Departed
  BY <1>3 DEF Ranked
<1> QED BY <1>3, <1>4, <1>7, <1>8, <1>9 DEF Ranked

---------------------------------------------------------------------------
(* Modes: the inductive invariant.                                         *)

Slot == [here : BOOLEAN, body : BOOLEAN, timer : 0 .. Delay, progress : NoProgress .. Gates,
         presence : 0 .. PointInterval, score : 0 .. PointsToWin, exposure : 0 .. EliminationGrace]

\* Nobody's components are gone.
SlotsOK(ps) == ps \in [Players -> Slot] /\ \A p \in Players : ~ ps[p].here => ps[p] = Nobody

\* The match of a lobby or a countdown that has been reset, if there was one.
Clean(ph, prev) == ph \in {"lobby", "countdown"} /\ ~ (ph = "lobby" /\ prev = "ended")

NoScores(ps) == \A p \in Players : ps[p].score = 0 /\ ps[p].presence = 0

\* A running hill match is undecided.
HillUndecided(ps, ticks) ==
    /\ ticks = 0 \/ ticks < TimeLimit
    /\ \A p \in Players : ps[p].score < PointsToWin

\* A running race is undecided, and its clock is past the finishes it lists;
\* before its first tick the list is that of the race before.
RaceUndecided(list, prev, ticks) ==
    IF prev = "countdown" THEN ticks = 0
    ELSE /\ \A i \in DOMAIN list : list[i].tick <= ticks
         /\ list = <<>> => ticks < TimeLimit
         /\ list # <<>> => ticks < list[1].tick + FinishWindow /\ list[1].tick <= TimeLimit + 1

\* The delay is over when a timer is, counted from the loss of the body.
Awaited(ps, since_lost, st) ==
    \A p \in Players :
        /\ ~ ps[p].here => since_lost[p] = LongAgo
        /\ ps[p].here /\ ~ ps[p].body =>
              since_lost[p] + ps[p].timer >= Delay + (IF st = "play" THEN 1 ELSE 0)

Spent(ps) == [p \in Players |-> ps[p].score * PointInterval + ps[p].presence]

MInv ==
    /\ mode \in ModesChecked /\ stage \in {"open", "play"}
    /\ phase \in {"lobby", "countdown", "running", "ended"}
    /\ previous \in {"lobby", "countdown", "running", "ended"}
    /\ since \in 0 .. CountdownTicks + RestartDelay /\ elapsed \in 0 .. ClockBound
    /\ out \in [Players -> 0 .. LongAgo]
    /\ IsHill => place \in HillPlace
    /\ mode = "race" => place = 0
    /\ mode = "royale" => place \in ZoneMinimum .. ZoneFull
    /\ SlotsOK(players) /\ Ranked(standings) /\ Awaited(players, out, stage)
    /\ Clean(phase, previous) => NoScores(players)
    /\ IsHill /\ phase = "running" => HillUndecided(players, elapsed)
    /\ IsHill /\ ~ ContestedHillScores /\ phase \in {"running", "ended"} => SumFunction(Spent(players)) <= elapsed
    /\ mode = "race" /\ phase = "running" => RaceUndecided(standings, previous, elapsed)

\* The names of the components.
SlotParts == {"here", "body", "timer", "progress", "presence", "score", "exposure"}

\* When a record of them is a slot.
LEMMA SlotByParts ==
    ASSUME NEW s, s = [x \in SlotParts |-> s[x]],
           s.here \in BOOLEAN, s.body \in BOOLEAN, s.timer \in 0 .. Delay, s.progress \in NoProgress .. Gates,
           s.presence \in 0 .. PointInterval, s.score \in 0 .. PointsToWin, s.exposure \in 0 .. EliminationGrace
    PROVE  s \in Slot
BY DEF Slot, SlotParts

\* And the parts of a slot.
LEMMA PartsOfSlot ==
    ASSUME NEW r \in Slot
    PROVE  /\ r = [x \in SlotParts |-> r[x]] /\ DOMAIN r = SlotParts
           /\ r.here \in BOOLEAN /\ r.body \in BOOLEAN /\ r.timer \in 0 .. Delay /\ r.progress \in NoProgress .. Gates
           /\ r.presence \in 0 .. PointInterval /\ r.score \in 0 .. PointsToWin /\ r.exposure \in 0 .. EliminationGrace
BY DEF Slot, SlotParts

\* The constants, one by one.
LEMMA ModeBounds ==
    /\ Delay \in Nat /\ PointInterval \in Nat /\ PointsToWin \in Nat \ {0} /\ Gates \in Nat \ {0}
    /\ EliminationGrace \in Nat /\ TimeLimit \in Nat /\ FinishWindow \in Nat /\ ZoneShrink \in Nat
    /\ CountdownTicks \in Nat /\ RestartDelay \in Nat /\ LongAgo = Delay + 2
    /\ ClockBound \in Nat /\ ClockBound >= TimeLimit + FinishWindow + 1 /\ NoProgress = -1
BY ModesAssumption, HillAssumption, ZoneAssumption, RaceAssumption DEF LongAgo, ClockBound, NoProgress

\* An empty slot.
LEMMA NobodyIsBare ==
    /\ Nobody \in Slot /\ ~ Nobody.here /\ ~ Nobody.body /\ Nobody.timer = 0 /\ Nobody.progress = NoProgress
    /\ Nobody.presence = 0 /\ Nobody.score = 0 /\ Nobody.exposure = 0
<1>1. /\ ~ Nobody.here /\ ~ Nobody.body /\ Nobody.timer = 0 /\ Nobody.progress = NoProgress
      /\ Nobody.presence = 0 /\ Nobody.score = 0 /\ Nobody.exposure = 0
      /\ Nobody.here \in BOOLEAN /\ Nobody.body \in BOOLEAN
  BY DEF Nobody
<1>2. Nobody = [x \in SlotParts |-> Nobody[x]]
  BY DEF Nobody, SlotParts
<1> QED BY <1>1, <1>2, SlotByParts, ModeBounds

\* Whoever has the components of nobody is nobody.
LEMMA BareIsNobody ==
    ASSUME NEW s \in Slot, ~ s.here, ~ s.body, s.timer = 0, s.progress = NoProgress,
           s.presence = 0, s.score = 0, s.exposure = 0
    PROVE  s = Nobody
<1>1. s = [x \in SlotParts |-> s[x]] /\ s.here \in BOOLEAN /\ s.body \in BOOLEAN
  BY PartsOfSlot
<1>2. Nobody = [x \in SlotParts |-> Nobody[x]] /\ ~ Nobody.here /\ ~ Nobody.body /\ Nobody.here \in BOOLEAN /\ Nobody.body \in BOOLEAN
  BY NobodyIsBare, PartsOfSlot
<1>3. s.here = Nobody.here /\ s.body = Nobody.body
  BY <1>1, <1>2
<1>4. \A x \in SlotParts : s[x] = Nobody[x]
  BY <1>3, NobodyIsBare DEF SlotParts
<1> QED BY <1>1, <1>2, <1>4

\* A slot whose body comes or stays.
Seat(r, seated) == [r EXCEPT !.body = @ \/ seated]

\* What the seat changes.
LEMMA SeatFacts ==
    ASSUME NEW r \in Slot, NEW seated \in BOOLEAN, NEW s, s = Seat(r, seated)
    PROVE  /\ s \in Slot /\ s.here = r.here /\ (s.body <=> r.body \/ seated) /\ s.timer = r.timer
           /\ s.presence = r.presence /\ s.score = r.score /\ (~ seated => s = r)
<1>1. DOMAIN r = SlotParts /\ r.body \in BOOLEAN
  BY PartsOfSlot
<1>2. /\ s = [x \in SlotParts |-> s[x]] /\ s.body = (r.body \/ seated) /\ s.here = r.here /\ s.timer = r.timer
      /\ s.progress = r.progress /\ s.presence = r.presence /\ s.score = r.score /\ s.exposure = r.exposure
  BY <1>1 DEF SlotParts, Seat
<1>3. s.body \in BOOLEAN
  BY <1>1, <1>2
<1>4. s \in Slot
  BY <1>2, <1>3, PartsOfSlot, SlotByParts
<1>5. ASSUME ~ seated PROVE s = r
  <2>1. s.body = r.body
    BY <1>1, <1>2, <1>5
  <2>2. \A x \in SlotParts : s[x] = r[x]
    BY <1>2, <2>1 DEF SlotParts
  <2> QED BY <1>2, <2>2, PartsOfSlot
<1> QED BY <1>2, <1>4, <1>5

\* What a player is worth: whole points and the partial one.
Worth(r) == r.score * PointInterval + r.presence

\* It is a number of ticks.
LEMMA WorthIsNatural ==
    ASSUME NEW r \in Slot
    PROVE  Worth(r) \in Nat /\ r.score * PointInterval \in Nat
<1>1. r.score \in Nat /\ r.presence \in Nat /\ PointInterval \in Nat
  BY PartsOfSlot, ModeBounds
<1>2. r.score * PointInterval \in Nat
  BY <1>1
<1> QED BY <1>1, <1>2 DEF Worth

\* What hill_scoring changes: a tick on the hill is worth at most one.
LEMMA ScoringFacts ==
    ASSUME NEW r \in Slot, r.score < PointsToWin, NEW is_inside \in BOOLEAN, NEW inside,
           NEW s, s = hill_scoring(r, is_inside, inside)
    PROVE  /\ s \in Slot /\ s.here = r.here /\ s.body = r.body /\ s.timer = r.timer /\ s.progress = r.progress
           /\ s.exposure = r.exposure
           /\ Worth(s) <= Worth(r) + (IF is_inside /\ hill_scores(inside) THEN 1 ELSE 0)
<1> DEFINE whole == r.score * PointInterval
           more == IF is_inside /\ hill_scores(inside) THEN 1 ELSE 0
<1>1. /\ DOMAIN r = SlotParts /\ r.presence \in 0 .. PointInterval /\ r.score \in 0 .. PointsToWin
      /\ PointInterval \in Nat /\ PointsToWin \in Nat
  BY PartsOfSlot, ModeBounds
<1>2. whole \in Nat /\ Worth(r) = whole + r.presence
  BY WorthIsNatural DEF Worth
<1>3. (r.score + 1) * PointInterval = whole + PointInterval
  BY <1>1
<1>4. CASE ~ is_inside
  <2>1. s = [r EXCEPT !.presence = 0]
    BY <1>4 DEF hill_scoring
  <2>2. /\ s = [x \in SlotParts |-> s[x]] /\ s.body = r.body /\ s.here = r.here /\ s.timer = r.timer
        /\ s.progress = r.progress /\ s.presence = 0 /\ s.score = r.score /\ s.exposure = r.exposure
    BY <1>1, <2>1 DEF SlotParts
  <2>3. s \in Slot
    BY <1>1, <2>2, PartsOfSlot, SlotByParts
  <2>4. Worth(s) = whole + 0 /\ more = 0
    BY <1>4, <2>2 DEF Worth
  <2> HIDE DEF whole, more
  <2>5. Worth(s) <= Worth(r) + more
    BY <1>1, <1>2, <2>4
  <2> QED BY <2>2, <2>3, <2>5 DEF more
<1>5. CASE is_inside /\ ~ hill_scores(inside)
  <2>1. s = r /\ more = 0
    BY <1>5 DEF hill_scoring
  <2> HIDE DEF whole, more
  <2>2. Worth(s) <= Worth(r) + more
    BY <1>1, <1>2, <2>1
  <2> QED BY <2>1, <2>2 DEF more
<1>6. CASE is_inside /\ hill_scores(inside) /\ r.presence + 1 >= PointInterval
  <2>1. s = [r EXCEPT !.presence = 0, !.score = @ + 1]
    BY <1>6 DEF hill_scoring
  <2>2. /\ s = [x \in SlotParts |-> s[x]] /\ s.body = r.body /\ s.here = r.here /\ s.timer = r.timer
        /\ s.progress = r.progress /\ s.presence = 0 /\ s.score = r.score + 1 /\ s.exposure = r.exposure
    BY <1>1, <2>1 DEF SlotParts
  <2>3. s.score \in 0 .. PointsToWin
    BY <1>1, <2>2
  <2>4. s \in Slot
    BY <1>1, <2>2, <2>3, PartsOfSlot, SlotByParts
  <2>5. Worth(s) = whole + PointInterval + 0 /\ more = 1
    <3>1. Worth(s) = (r.score + 1) * PointInterval + 0
      BY <2>2 DEF Worth
    <3> QED BY <1>3, <1>6, <3>1
  <2> HIDE DEF whole, more
  <2>6. Worth(s) <= Worth(r) + more
    <3> DEFINE b == r.presence
               v == Worth(s)
               w == Worth(r)
    <3>1. b \in 0 .. PointInterval /\ b + 1 >= PointInterval /\ w = whole + b /\ v = whole + PointInterval + 0
          /\ PointInterval \in Nat /\ whole \in Nat /\ more = 1
      BY <1>1, <1>2, <1>6, <2>5
    <3> HIDE DEF b, v, w
    <3>2. v <= w + more
      BY <3>1
    <3> QED BY <3>2 DEF v, w
  <2> QED BY <2>2, <2>4, <2>6 DEF more
<1>7. CASE is_inside /\ hill_scores(inside) /\ ~ (r.presence + 1 >= PointInterval)
  <2>1. s = [r EXCEPT !.presence = @ + 1]
    BY <1>7 DEF hill_scoring
  <2>2. /\ s = [x \in SlotParts |-> s[x]] /\ s.body = r.body /\ s.here = r.here /\ s.timer = r.timer
        /\ s.progress = r.progress /\ s.presence = r.presence + 1 /\ s.score = r.score /\ s.exposure = r.exposure
    BY <1>1, <2>1 DEF SlotParts
  <2>3. Worth(s) = whole + (r.presence + 1) /\ more = 1
    BY <1>7, <2>2 DEF Worth
  <2> HIDE DEF whole, more
  <2>4. s.presence \in 0 .. PointInterval
    <3> DEFINE b == r.presence
               c == s.presence
    <3>1. b \in 0 .. PointInterval /\ ~ (b + 1 >= PointInterval) /\ c = b + 1 /\ PointInterval \in Nat
      BY <1>1, <1>7, <2>2
    <3> HIDE DEF b, c
    <3>2. c \in 0 .. PointInterval
      BY <3>1
    <3> QED BY <3>2 DEF c
  <2>5. s \in Slot
    BY <1>1, <2>2, <2>4, PartsOfSlot, SlotByParts
  <2>6. Worth(s) <= Worth(r) + more
    BY <1>1, <1>2, <2>3
  <2> QED BY <2>2, <2>5, <2>6 DEF more
<1> QED BY <1>4, <1>5, <1>6, <1>7

\* What respawn changes.
LEMMA RespawnSlot ==
    ASSUME NEW ps, NEW eliminated, NEW p \in Players, NEW r \in Slot, r = ps[p],
           NEW s, s = respawn(ps, eliminated)[p]
    PROVE  /\ s \in Slot /\ s.here = r.here /\ (s.body <=> r.body /\ p \notin eliminated)
           /\ s.score = r.score /\ s.presence \in {0, r.presence} /\ s.progress = r.progress
           /\ r.body /\ ~ s.body => s.timer = Delay
           /\ s.body \/ ~ r.body => s.timer = IF r.timer <= 1 THEN 0 ELSE r.timer - 1
           /\ r = Nobody => s = Nobody
<1> DEFINE dead == p \in eliminated
           t == IF r.timer <= 1 THEN 0 ELSE r.timer - 1
           q == [r EXCEPT !.timer = IF @ <= 1 THEN 0 ELSE @ - 1, !.body = @ /\ ~ dead]
<1>1. s = IF q.body THEN q
          ELSE [q EXCEPT !.timer = IF r.body THEN Delay ELSE @, !.presence = 0, !.exposure = 0]
  BY DEF respawn
<1>2. DOMAIN r = SlotParts /\ r.body \in BOOLEAN /\ r.timer \in 0 .. Delay /\ t \in 0 .. Delay /\ dead \in BOOLEAN
  <2>1. r.timer \in 0 .. Delay
    BY PartsOfSlot
  <2>2. t \in 0 .. Delay
    BY <2>1, ModeBounds
  <2> QED BY <2>1, <2>2, PartsOfSlot
<1>3. /\ q = [x \in SlotParts |-> q[x]] /\ q.body = (r.body /\ ~ dead) /\ q.here = r.here /\ q.timer = t
      /\ q.progress = r.progress /\ q.presence = r.presence /\ q.score = r.score /\ q.exposure = r.exposure
  <2> HIDE DEF dead
  <2>1. q = [r EXCEPT !.timer = t, !.body = r.body /\ ~ dead]
    OBVIOUS
  <2> HIDE DEF q, t
  <2> QED BY <1>2, <2>1 DEF SlotParts
<1>4. q.body \in BOOLEAN
  BY <1>2, <1>3
<1> HIDE DEF q, t
<1>5. CASE q.body
  <2>1. s = q
    BY <1>1, <1>5
  <2>2. s \in Slot
    BY <1>2, <1>3, <1>4, <2>1, PartsOfSlot, SlotByParts
  <2>3. r.body
    BY <1>2, <1>3, <1>5
  <2> QED BY <1>2, <1>3, <1>5, <2>1, <2>2, <2>3, NobodyIsBare DEF t
<1>6. CASE ~ q.body
  <2> DEFINE u == IF r.body THEN Delay ELSE t
  <2>1. s = [q EXCEPT !.timer = u, !.presence = 0, !.exposure = 0]
    BY <1>1, <1>3, <1>6
  <2>2. u \in 0 .. Delay
    BY <1>2, ModeBounds
  <2> HIDE DEF u
  <2>3. /\ s = [x \in SlotParts |-> s[x]] /\ s.body = q.body /\ s.here = r.here /\ s.timer = u
        /\ s.progress = r.progress /\ s.presence = 0 /\ s.score = r.score /\ s.exposure = 0
    BY <1>3, <2>1 DEF SlotParts
  <2>4. s \in Slot
    BY <1>4, <2>2, <2>3, PartsOfSlot, SlotByParts, ModeBounds
  <2>5. ASSUME r = Nobody PROVE s = Nobody
    <3>1. ~ r.here /\ ~ r.body /\ r.timer = 0 /\ r.progress = NoProgress /\ r.score = 0
      BY <2>5, NobodyIsBare
    <3>2. u = 0
      BY <3>1 DEF u, t
    <3> QED BY <1>6, <2>3, <2>4, <3>1, <3>2, BareIsNobody
  <2>6. ~ (r.body /\ ~ dead)
    BY <1>3, <1>6
  <2>7. ~ s.body
    BY <1>6, <2>3
  <2> QED BY <1>2, <2>3, <2>4, <2>5, <2>6, <2>7 DEF u, t
<1> QED BY <1>5, <1>6

\* What checkpoint_progress changes.
LEMMA ProgressFacts ==
    ASSUME NEW r \in Slot, NEW crossed \in 0 .. Gates, crossed > 0 => Cursor(r) + crossed <= Gates,
           NEW s, s = checkpoint_progress(r, crossed)
    PROVE  /\ s \in Slot /\ s.here = r.here /\ s.body = r.body /\ s.timer = r.timer
           /\ s.score = r.score /\ s.presence = r.presence /\ (~ r.body => s = r)
<1>1. CASE r.body
  <2> DEFINE n == Cursor(r) + crossed
  <2>1. s = [r EXCEPT !.progress = n] /\ DOMAIN r = SlotParts
    BY <1>1, PartsOfSlot DEF checkpoint_progress
  <2>2. n \in NoProgress .. Gates
    <3>1. r.progress \in -1 .. Gates
      BY PartsOfSlot, ModeBounds
    <3>2. Cursor(r) \in 0 .. Gates
      BY <3>1, ModeBounds DEF Cursor, NoProgress
    <3> QED BY <3>2, ModeBounds
  <2> HIDE DEF n
  <2>3. /\ s = [x \in SlotParts |-> s[x]] /\ s.body = r.body /\ s.here = r.here /\ s.timer = r.timer
        /\ s.progress = n /\ s.presence = r.presence /\ s.score = r.score /\ s.exposure = r.exposure
    BY <2>1 DEF SlotParts
  <2>4. s \in Slot
    BY <2>2, <2>3, PartsOfSlot, SlotByParts
  <2> QED BY <1>1, <2>3, <2>4
<1>2. CASE ~ r.body
  BY <1>2 DEF checkpoint_progress
<1> QED BY <1>1, <1>2

\* What the exposure count changes.
LEMMA ExposedFacts ==
    ASSUME NEW r \in Slot, NEW is_outside \in BOOLEAN, ~ zone_elimination(r, is_outside),
           NEW s, s = Exposed(r, is_outside)
    PROVE  /\ s \in Slot /\ s.here = r.here /\ s.body = r.body /\ s.timer = r.timer
           /\ s.score = r.score /\ s.presence = r.presence
<1> DEFINE n == IF is_outside THEN r.exposure + 1 ELSE 0
<1>1. s = [r EXCEPT !.exposure = n] /\ DOMAIN r = SlotParts
  BY PartsOfSlot DEF Exposed
<1>2. n \in 0 .. EliminationGrace
  <2>1. r.exposure \in 0 .. EliminationGrace
    BY PartsOfSlot
  <2>2. is_outside => ~ (r.exposure + 1 >= EliminationGrace)
    BY DEF zone_elimination
  <2> QED BY <2>1, <2>2, ModeBounds
<1> HIDE DEF n
<1>3. /\ s = [x \in SlotParts |-> s[x]] /\ s.body = r.body /\ s.here = r.here /\ s.timer = r.timer
      /\ s.progress = r.progress /\ s.presence = r.presence /\ s.score = r.score /\ s.exposure = n
  BY <1>1 DEF SlotParts
<1>4. s \in Slot
  BY <1>2, <1>3, PartsOfSlot, SlotByParts
<1> QED BY <1>3, <1>4

---------------------------------------------------------------------------
(* Modes: what a tick may make of the players.                             *)

\* One player: it does not arrive, a timer is at most one shorter, a body comes
\* back when the timer is zero, and only a running match scores.
PlayerTicked(r, s) ==
    /\ s.here => r.here
    /\ s.here /\ ~ s.body => s.timer >= IF r.body THEN Delay ELSE r.timer - 1
    /\ s.body /\ ~ r.body => r.timer = 0
    /\ phase # "running" => s.score \in {0, r.score} /\ s.presence \in {0, r.presence}

Ticked(qs) ==
    /\ SlotsOK(qs) /\ \A p \in Players : PlayerTicked(players[p], qs[p])
    /\ phase = "lobby" /\ previous = "ended" => \A p \in Players : qs[p] = Nobody

\* match_reset leaves nobody, or everybody.
LEMMA ResetTicks ==
    ASSUME NEW rs, SlotsOK(rs), \A p \in Players : PlayerTicked(players[p], rs[p]),
           NEW qs, qs = match_reset(rs)
    PROVE  Ticked(qs) /\ (phase # "lobby" => qs = rs)
<1>1. CASE phase = "lobby" /\ previous = "ended"
  <2>1. qs = [p \in Players |-> Nobody]
    BY <1>1 DEF match_reset
  <2>2. \A p \in Players : qs[p] = Nobody
    BY <2>1
  <2>3. SlotsOK(qs)
    BY <2>1, NobodyIsBare DEF SlotsOK
  <2>4. \A r : PlayerTicked(r, Nobody)
    BY NobodyIsBare DEF PlayerTicked
  <2> QED BY <1>1, <2>2, <2>3, <2>4 DEF Ticked
<1>2. CASE ~ (phase = "lobby" /\ previous = "ended")
  <2>1. qs = rs
    BY <1>2 DEF match_reset
  <2> QED BY <1>2, <2>1 DEF Ticked
<1> QED BY <1>1, <1>2

\* The slots of a state, one by one.
LEMMA SlotOf ==
    ASSUME NEW ps, SlotsOK(ps), NEW p \in Players
    PROVE  ps[p] \in Slot /\ (~ ps[p].here => ps[p] = Nobody) /\ (ps[p].body => ps[p].here)
BY NobodyIsBare DEF SlotsOK

\* respawn, as part of a tick.
LEMMA RespawnTicks ==
    ASSUME SlotsOK(players), NEW ps, SlotsOK(ps), NEW falls,
           \A p \in falls : players[p].body,
           \A p \in Players :
              /\ ps[p].here = players[p].here /\ ps[p].timer = players[p].timer
              /\ players[p].body => ps[p].body
              /\ ps[p].body /\ ~ players[p].body => players[p].timer = 0
              /\ phase # "running" => ps[p].score = players[p].score /\ ps[p].presence = players[p].presence,
           NEW rs, rs = respawn(ps, falls)
    PROVE  /\ SlotsOK(rs) /\ \A p \in Players : PlayerTicked(players[p], rs[p])
           /\ \A p \in Players : rs[p].score = ps[p].score /\ rs[p].presence \in {0, ps[p].presence}
<1>1. ASSUME NEW p \in Players
      PROVE  /\ rs[p] \in Slot /\ (~ rs[p].here => rs[p] = Nobody) /\ PlayerTicked(players[p], rs[p])
             /\ rs[p].score = ps[p].score /\ rs[p].presence \in {0, ps[p].presence}
  <2> DEFINE r == ps[p]
             s == rs[p]
             b == players[p]
  <2>1. r \in Slot /\ r = ps[p] /\ s = respawn(ps, falls)[p] /\ (~ r.here => r = Nobody)
    BY SlotOf
  <2>2. b \in Slot /\ b.timer \in 0 .. Delay
    BY SlotOf, PartsOfSlot
  <2>3. /\ r.here = b.here /\ r.timer = b.timer /\ (b.body => r.body) /\ (r.body /\ ~ b.body => b.timer = 0)
        /\ phase # "running" => r.score = b.score /\ r.presence = b.presence
    OBVIOUS
  <2>4. p \in falls => b.body
    OBVIOUS
  <2> HIDE DEF r, s, b
  <2>5. /\ s \in Slot /\ s.here = r.here /\ (s.body <=> r.body /\ p \notin falls)
        /\ s.score = r.score /\ s.presence \in {0, r.presence}
        /\ r.body /\ ~ s.body => s.timer = Delay
        /\ s.body \/ ~ r.body => s.timer = IF r.timer <= 1 THEN 0 ELSE r.timer - 1
        /\ r = Nobody => s = Nobody
    BY <2>1, RespawnSlot
  <2>6. s.here /\ ~ s.body => s.timer >= IF b.body THEN Delay ELSE b.timer - 1
    BY <2>2, <2>3, <2>4, <2>5, ModeBounds
  <2>7. PlayerTicked(b, s)
    BY <2>3, <2>5, <2>6 DEF PlayerTicked
  <2> QED BY <2>1, <2>5, <2>7 DEF r, s, b
<1>2. rs = [p \in Players |-> rs[p]]
  BY DEF respawn
<1>3. rs \in [Players -> Slot]
  BY <1>1, <1>2
<1> QED BY <1>1, <1>3 DEF SlotsOK

\* At most one player scores at a time, unless a contested hill does.
LEMMA OneScores ==
    ASSUME NEW inside, inside \subseteq Players, ~ ContestedHillScores, hill_scores(inside)
    PROVE  \A p, q \in inside : p = q
<1>1. IsFiniteSet(inside) /\ Cardinality(inside) \in Nat /\ Cardinality(inside) <= 1
  BY ModesAssumption, FS_Subset, FS_CardinalityType DEF hill_scores
<1>2. SUFFICES ASSUME NEW p \in inside, NEW q \in inside, p # q PROVE FALSE
  OBVIOUS
<1> DEFINE T == inside \ {p}
<1>3. IsFiniteSet(T) /\ Cardinality(T) = Cardinality(inside) - 1 /\ Cardinality(T) \in Nat
  BY <1>1, FS_RemoveElement, FS_CardinalityType
<1>4. Cardinality(T) = 0
  BY <1>1, <1>3
<1>5. T = {}
  BY <1>3, <1>4, FS_EmptySet
<1> QED BY <1>2, <1>5

\* What a state is worth.
LEMMA SpentIsWorth ==
    ASSUME NEW ps, SlotsOK(ps)
    PROVE  Spent(ps) \in [Players -> Nat] /\ \A p \in Players : Spent(ps)[p] = Worth(ps[p])
<1>1. \A p \in Players : Spent(ps)[p] = Worth(ps[p])
  BY DEF Spent, Worth
<1>2. \A p \in Players : Worth(ps[p]) \in Nat
  BY SlotOf, WorthIsNatural
<1>3. Spent(ps) = [p \in Players |-> Spent(ps)[p]]
  BY DEF Spent
<1> QED BY <1>1, <1>2, <1>3

\* The systems of a hill tick.
LEMMA HillTicks ==
    ASSUME SlotsOK(players), phase = "running" => HillUndecided(players, elapsed),
           NEW inside \in SUBSET Alive(players), NEW falls \in SUBSET MayFall,
           NEW scored, scored = [p \in Players |-> IF phase = "running" /\ players[p].body
                                                   THEN hill_scoring(players[p], p \in inside, inside)
                                                   ELSE players[p]],
           NEW rs, rs = respawn(scored, falls)
    PROVE  /\ SlotsOK(rs) /\ \A p \in Players : PlayerTicked(players[p], rs[p])
           /\ ~ ContestedHillScores =>
                 /\ SumFunction(Spent(players)) \in Nat /\ SumFunction(Spent(rs)) \in Nat
                 /\ SumFunction(Spent(rs)) <= SumFunction(Spent(players)) + (IF phase = "running" THEN 1 ELSE 0)
<1> DEFINE lucky == IF phase = "running" /\ hill_scores(inside) THEN inside ELSE {}
<1>1. inside \subseteq Players /\ falls \subseteq Players /\ \A p \in falls : players[p].body
  BY DEF Alive, MayFall
<1>2. ASSUME NEW p \in Players
      PROVE  /\ scored[p] \in Slot /\ (~ scored[p].here => scored[p] = Nobody)
             /\ scored[p].here = players[p].here /\ scored[p].timer = players[p].timer
             /\ scored[p].body = players[p].body
             /\ phase # "running" => scored[p].score = players[p].score /\ scored[p].presence = players[p].presence
             /\ Worth(scored[p]) <= Worth(players[p]) + (IF p \in lucky THEN 1 ELSE 0)
  <2> DEFINE r == players[p]
             s == scored[p]
             b == p \in inside
  <2>1. r \in Slot /\ (~ r.here => r = Nobody) /\ (r.body => r.here) /\ Worth(r) \in Nat
    BY SlotOf, WorthIsNatural
  <2>2. CASE phase = "running" /\ r.body
    <3>1. s = hill_scoring(r, b, inside) /\ b \in BOOLEAN
      BY <2>2
    <3>2. r.score < PointsToWin
      BY <2>2 DEF HillUndecided
    <3>3. (b /\ hill_scores(inside)) => p \in lucky
      BY <2>2
    <3> HIDE DEF r, s, b
    <3>4. /\ s \in Slot /\ s.here = r.here /\ s.body = r.body /\ s.timer = r.timer
          /\ Worth(s) <= Worth(r) + (IF b /\ hill_scores(inside) THEN 1 ELSE 0)
      BY <2>1, <3>1, <3>2, ScoringFacts
    <3>5. Worth(s) \in Nat
      BY <3>4, WorthIsNatural
    <3> HIDE DEF lucky
    <3>6. Worth(s) <= Worth(r) + (IF p \in lucky THEN 1 ELSE 0)
      BY <2>1, <3>3, <3>4, <3>5
    <3>7. s.here
      BY <2>1, <2>2, <3>4 DEF r
    <3> QED BY <2>2, <3>4, <3>6, <3>7 DEF r, s
  <2>3. CASE ~ (phase = "running" /\ r.body)
    <3>1. s = r
      BY <2>3
    <3> HIDE DEF r, s, lucky
    <3>2. Worth(s) <= Worth(r) + (IF p \in lucky THEN 1 ELSE 0)
      BY <2>1, <3>1
    <3> QED BY <2>1, <3>1, <3>2 DEF r, s
  <2> QED BY <2>2, <2>3
<1>3. SlotsOK(scored)
  <2>1. scored = [p \in Players |-> scored[p]]
    OBVIOUS
  <2>2. scored \in [Players -> Slot]
    BY <1>2, <2>1
  <2> QED BY <1>2, <2>2 DEF SlotsOK
<1> HIDE DEF lucky
<1>4. \A p \in Players :
        /\ scored[p].here = players[p].here /\ scored[p].timer = players[p].timer
        /\ players[p].body => scored[p].body
        /\ scored[p].body /\ ~ players[p].body => players[p].timer = 0
        /\ phase # "running" => scored[p].score = players[p].score /\ scored[p].presence = players[p].presence
  BY <1>2
<1>5. /\ SlotsOK(rs) /\ \A p \in Players : PlayerTicked(players[p], rs[p])
      /\ \A p \in Players : rs[p].score = scored[p].score /\ rs[p].presence \in {0, scored[p].presence}
  BY <1>1, <1>3, <1>4, RespawnTicks
<1>6. ASSUME NEW p \in Players PROVE Spent(rs)[p] <= Spent(players)[p] + (IF p \in lucky THEN 1 ELSE 0)
  <2> DEFINE s == rs[p]
             r == scored[p]
             whole == r.score * PointInterval
  <2>1. Worth(r) = whole + r.presence /\ Worth(s) = whole + s.presence
    BY <1>5 DEF Worth
  <2>2. whole \in Nat /\ r.presence \in Nat /\ s.presence \in {0, r.presence}
    BY <1>2, <1>5, WorthIsNatural, PartsOfSlot, ModeBounds
  <2>3. Worth(r) \in Nat /\ Worth(s) \in Nat /\ Worth(players[p]) \in Nat
    BY <1>2, <1>5, SlotOf, WorthIsNatural
  <2>4. Worth(r) <= Worth(players[p]) + (IF p \in lucky THEN 1 ELSE 0)
    BY <1>2
  <2>5. Spent(rs)[p] = Worth(s) /\ Spent(players)[p] = Worth(players[p])
    BY <1>5, SpentIsWorth
  <2> DEFINE a == Worth(r)
             c == Worth(s)
             d == Worth(players[p])
             e == r.presence
             f == s.presence
  <2> HIDE DEF a, c, d, e, f, whole
  <2>6. c <= d + (IF p \in lucky THEN 1 ELSE 0)
    BY <2>1, <2>2, <2>3, <2>4 DEF a, c, d, e, f
  <2> QED BY <2>5, <2>6 DEF c, d
<1>7. ASSUME ~ ContestedHillScores
      PROVE  /\ SumFunction(Spent(players)) \in Nat /\ SumFunction(Spent(rs)) \in Nat
             /\ SumFunction(Spent(rs)) <= SumFunction(Spent(players)) + (IF phase = "running" THEN 1 ELSE 0)
  <2>1. \A p, q \in lucky : p = q
    BY <1>1, <1>7, OneScores DEF lucky
  <2>2. Spent(players) \in [Players -> Nat] /\ Spent(rs) \in [Players -> Nat] /\ IsFiniteSet(Players)
    BY <1>5, SpentIsWorth, ModesAssumption
  <2> DEFINE before == Spent(players)
             after == Spent(rs)
  <2> HIDE DEF before, after
  <2>3. before \in [Players -> Nat] /\ after \in [Players -> Nat]
    BY <2>2 DEF before, after
  <2>4. \A p \in Players : after[p] <= before[p] + (IF p \in lucky THEN 1 ELSE 0)
    BY <1>6 DEF before, after
  <2>5. /\ SumFunction(before) \in Nat /\ SumFunction(after) \in Nat
        /\ SumFunction(after) <= SumFunction(before) + (IF lucky = {} THEN 0 ELSE 1)
    BY <2>1, <2>2, <2>3, <2>4, SumGrows
  <2>6. lucky # {} => phase = "running"
    BY DEF lucky
  <2> QED BY <2>5, <2>6 DEF before, after
<1> QED BY <1>5, <1>7

---------------------------------------------------------------------------
(* Modes: the clock and the end of a tick.                                 *)

Phases == {"lobby", "countdown", "running", "ended"}

\* The clock as the systems of a tick see it.
LEMMA ElapsedFacts ==
    ASSUME elapsed \in 0 .. ClockBound
    PROVE  /\ Elapsed \in 0 .. ClockBound
           /\ phase # "running" => Elapsed = elapsed
           /\ phase = "running" /\ elapsed < ClockBound => Elapsed = elapsed + 1
BY ModeBounds DEF Elapsed

\* The match machine.
LEMMA ClockFacts ==
    ASSUME phase \in Phases, since \in 0 .. CountdownTicks + RestartDelay, elapsed \in 0 .. ClockBound,
           NEW ready \in BOOLEAN, NEW outcome, match_lifecycle(ready, outcome)
    PROVE  /\ phase' \in Phases /\ previous' = phase
           /\ since' \in 0 .. CountdownTicks + RestartDelay /\ elapsed' \in 0 .. ClockBound
           /\ phase' = "running" => \/ phase = "running" /\ outcome = {} /\ elapsed' = Elapsed
                                    \/ phase = "countdown" /\ elapsed' = 0
           /\ phase' = "ended" => phase \in {"running", "ended"} /\ elapsed' = Elapsed
           /\ Clean(phase', previous') => phase \in {"lobby", "countdown"}
<1>1. Elapsed \in 0 .. ClockBound /\ ClockBound \in Nat
  BY ElapsedFacts, ModeBounds
<1>2. /\ previous' = phase
      /\ since' = IF phase' = phase /\ phase \in {"countdown", "ended"} THEN since + 1 ELSE 0
      /\ elapsed' = IF phase' \in {"running", "ended"} /\ phase # "countdown" THEN Elapsed ELSE 0
      /\ phase' = CASE phase = "lobby" /\ ready -> "countdown"
                    [] phase = "countdown" /\ ~ ready -> "lobby"
                    [] phase = "countdown" /\ ready /\ since + 1 >= CountdownTicks -> "running"
                    [] phase = "running" /\ outcome # {} -> "ended"
                    [] phase = "ended" /\ since + 1 >= RestartDelay -> "lobby"
                    [] OTHER -> phase
  BY DEF match_lifecycle
<1>3. elapsed' \in 0 .. ClockBound
  BY <1>1, <1>2
<1>4. CASE phase = "lobby"
  <2>1. phase' = IF ready THEN "countdown" ELSE "lobby"
    BY <1>2, <1>4
  <2> QED BY <1>2, <1>3, <1>4, <2>1, ModeBounds DEF Phases
<1>5. CASE phase = "countdown"
  <2>1. /\ ~ ready => phase' = "lobby"
        /\ ready /\ since + 1 >= CountdownTicks => phase' = "running"
        /\ ready /\ ~ (since + 1 >= CountdownTicks) => phase' = "countdown"
    BY <1>2, <1>5
  <2>2. phase' \in Phases /\ phase' # "ended"
    BY <2>1 DEF Phases
  <2>3. since' \in 0 .. CountdownTicks + RestartDelay
    BY <1>2, <1>5, <2>1, ModeBounds
  <2>4. elapsed' = 0
    BY <1>2, <1>5
  <2> QED BY <1>2, <1>3, <1>5, <2>2, <2>3, <2>4
<1>6. CASE phase = "running"
  <2>1. /\ outcome # {} => phase' = "ended"
        /\ outcome = {} => phase' = "running"
    BY <1>2, <1>6
  <2>2. phase' \in Phases
    BY <2>1 DEF Phases
  <2>3. since' \in 0 .. CountdownTicks + RestartDelay
    BY <1>2, <1>6, ModeBounds
  <2>4. elapsed' = Elapsed
    BY <1>2, <1>6, <2>1
  <2> QED BY <1>2, <1>3, <1>6, <2>1, <2>2, <2>3, <2>4 DEF Clean
<1>7. CASE phase = "ended"
  <2>1. /\ since + 1 >= RestartDelay => phase' = "lobby"
        /\ ~ (since + 1 >= RestartDelay) => phase' = "ended"
    BY <1>2, <1>7
  <2>2. phase' \in Phases /\ phase' # "running"
    BY <2>1 DEF Phases
  <2>3. since' \in 0 .. CountdownTicks + RestartDelay
    BY <1>2, <1>7, <2>1, ModeBounds
  <2>4. phase' = "ended" => elapsed' = Elapsed
    BY <1>2, <1>7
  <2>5. ~ Clean(phase', previous')
    BY <1>2, <1>7, <2>1 DEF Clean
  <2> QED BY <1>2, <1>3, <1>7, <2>2, <2>3, <2>4, <2>5
<1> QED BY <1>4, <1>5, <1>6, <1>7 DEF Phases

\* The delay, one player and one tick: of its slot r before and s after the
\* tick, with a and b the ticks since it lost its body.
Return(r, s, a, b) ==
    /\ b \in 0 .. LongAgo
    /\ ~ s.here => b = LongAgo
    /\ s.here /\ ~ s.body => b + s.timer >= Delay
    /\ ~ r.body /\ s.body => b > Delay

\* A tick keeps it.
LEMMA TickReturns ==
    ASSUME NEW r \in Slot, NEW s \in Slot, PlayerTicked(r, s), NEW a \in 0 .. LongAgo, r.body => r.here,
           s.body => s.here,
           r.here /\ ~ r.body => a + r.timer >= Delay + 1,
           NEW b, b = IF ~ s.here THEN LongAgo ELSE IF r.body /\ ~ s.body THEN 0 ELSE a
    PROVE  Return(r, s, a, b)
<1>1. /\ r.timer \in Nat /\ s.timer \in Nat /\ a \in Nat /\ Delay \in Nat /\ LongAgo = Delay + 2
  BY PartsOfSlot, ModeBounds
<1>2. CASE ~ s.here
  BY <1>1, <1>2, ModeBounds DEF Return
<1>3. CASE s.here /\ ~ s.body
  <2>1. s.timer >= IF r.body THEN Delay ELSE r.timer - 1
    BY <1>3 DEF PlayerTicked
  <2>2. r.here
    BY <1>3 DEF PlayerTicked
  <2>3. b \in 0 .. LongAgo /\ b + s.timer >= Delay
    BY <1>1, <1>3, <2>1, <2>2
  <2> QED BY <1>3, <2>3 DEF Return
<1>4. CASE s.here /\ s.body
  <2>1. b = a
    BY <1>4
  <2>2. ~ r.body => r.timer = 0 /\ r.here
    BY <1>4 DEF PlayerTicked
  <2>3. ~ r.body => b > Delay
    BY <1>1, <2>1, <2>2
  <2> QED BY <1>1, <1>4, <2>1, <2>3 DEF Return
<1> QED BY <1>2, <1>3, <1>4

\* What the end of a tick keeps.
LEMMA TickCommits ==
    ASSUME MInv, stage = "play", NEW qs, Ticked(qs), NEW outcome, CommitTick(qs, outcome)
    PROVE  /\ players' = qs /\ stage' = "open" /\ mode' = mode
           /\ out' \in [Players -> 0 .. LongAgo] /\ SlotsOK(players') /\ Awaited(players', out', stage')
           /\ \A p \in Players : ~ players[p].body /\ players'[p].body => out'[p] > Delay
           /\ phase' \in Phases /\ previous' = phase
           /\ since' \in 0 .. CountdownTicks + RestartDelay /\ elapsed' \in 0 .. ClockBound
           /\ phase' = "running" => \/ phase = "running" /\ outcome = {} /\ elapsed' = Elapsed
                                    \/ phase = "countdown" /\ elapsed' = 0 /\ NoScores(players')
           /\ phase' = "ended" => phase \in {"running", "ended"} /\ elapsed' = Elapsed
           /\ Clean(phase', previous') => NoScores(players')
<1>1. /\ players' = qs /\ stage' = "open" /\ mode' = mode
      /\ out' = [p \in Players |-> IF ~ qs[p].here THEN LongAgo ELSE IF p \in Lost(qs) THEN 0 ELSE out[p]]
  BY DEF CommitTick
<1>2. PICK ready \in BOOLEAN : match_lifecycle(ready, outcome)
  BY DEF CommitTick
<1>3. /\ phase \in Phases /\ since \in 0 .. CountdownTicks + RestartDelay /\ elapsed \in 0 .. ClockBound
      /\ SlotsOK(players) /\ out \in [Players -> 0 .. LongAgo] /\ Awaited(players, out, "play")
      /\ Clean(phase, previous) => NoScores(players)
  BY DEF MInv, Phases
<1>4. /\ phase' \in Phases /\ previous' = phase
      /\ since' \in 0 .. CountdownTicks + RestartDelay /\ elapsed' \in 0 .. ClockBound
      /\ phase' = "running" => \/ phase = "running" /\ outcome = {} /\ elapsed' = Elapsed
                               \/ phase = "countdown" /\ elapsed' = 0
      /\ phase' = "ended" => phase \in {"running", "ended"} /\ elapsed' = Elapsed
      /\ Clean(phase', previous') => phase \in {"lobby", "countdown"}
  BY <1>2, <1>3, ClockFacts
<1>5. SlotsOK(qs) /\ \A p \in Players : PlayerTicked(players[p], qs[p])
  BY DEF Ticked
<1>6. ASSUME NEW p \in Players PROVE Return(players[p], qs[p], out[p], out'[p])
  <2> DEFINE r == players[p]
             s == qs[p]
             a == out[p]
             b == out'[p]
  <2>1. /\ r \in Slot /\ s \in Slot /\ (r.body => r.here) /\ (s.body => s.here) /\ a \in 0 .. LongAgo
        /\ PlayerTicked(r, s)
    BY <1>3, <1>5, SlotOf
  <2>2. r.here /\ ~ r.body => a + r.timer >= Delay + 1
    BY <1>3 DEF Awaited
  <2>3. b = IF ~ s.here THEN LongAgo ELSE IF r.body /\ ~ s.body THEN 0 ELSE a
    BY <1>1 DEF Lost
  <2> HIDE DEF r, s, a, b
  <2>4. Return(r, s, a, b)
    BY <2>1, <2>2, <2>3, TickReturns
  <2> QED BY <2>4 DEF r, s, a, b
<1>7. out' \in [Players -> 0 .. LongAgo]
  <2>1. out' = [p \in Players |-> out'[p]]
    BY <1>1
  <2>2. \A p \in Players : out'[p] \in 0 .. LongAgo
    BY <1>6 DEF Return
  <2> QED BY <2>1, <2>2
<1>8. Awaited(players', out', stage')
  <2>1. ASSUME NEW p \in Players
        PROVE  /\ ~ qs[p].here => out'[p] = LongAgo
               /\ qs[p].here /\ ~ qs[p].body => out'[p] + qs[p].timer >= Delay + 0
    BY <1>6, ModeBounds DEF Return
  <2>2. stage' # "play"
    BY <1>1
  <2> QED BY <1>1, <2>1, <2>2 DEF Awaited
<1>9. \A p \in Players : ~ players[p].body /\ players'[p].body => out'[p] > Delay
  BY <1>1, <1>6 DEF Return
<1>10. ASSUME phase \in {"lobby", "countdown"} PROVE NoScores(qs)
  <2>1. CASE phase = "lobby" /\ previous = "ended"
    BY <2>1, NobodyIsBare DEF Ticked, NoScores
  <2>2. CASE ~ (phase = "lobby" /\ previous = "ended")
    <3>1. NoScores(players)
      BY <1>3, <1>10, <2>2 DEF Clean
    <3>2. phase # "running"
      BY <1>10
    <3> QED BY <1>5, <3>1, <3>2 DEF NoScores, PlayerTicked
  <2> QED BY <2>1, <2>2
<1> QED BY <1>1, <1>4, <1>5, <1>7, <1>8, <1>9, <1>10

---------------------------------------------------------------------------
(* Modes: their ticks.                                                     *)

\* What ReturnsAreAligned asks of a step.
Aligned == \A p \in Players : ~ players[p].body /\ players'[p].body => out'[p] > Delay

\* A match without an outcome is undecided.
LEMMA NoOutcomeYet ==
    ASSUME NEW qs, SlotsOK(qs), NEW ticks \in Nat,
           hill_outcome(Participants(qs), [p \in Players |-> qs[p].score], ticks, TimeLimit) = {}
    PROVE  HillUndecided(qs, ticks)
<1> DEFINE P == Participants(qs)
           score == [p \in Players |-> qs[p].score]
<1>1. IsFiniteSet(P) /\ Cardinality(P) \in Nat /\ P \subseteq Players
  BY ModesAssumption, FS_Subset, FS_CardinalityType DEF Participants
<1>2. /\ ~ (Cardinality(P) <= 1)
      /\ ~ (ticks >= TimeLimit) /\ ~ \E p \in P : score[p] >= PointsToWin
  <2>1. hill_outcome(P, score, ticks, TimeLimit) = {}
    OBVIOUS
  <2> DEFINE n == Cardinality(P)
             over == ticks >= TimeLimit \/ \E p \in P : score[p] >= PointsToWin
  <2>2. hill_outcome(P, score, ticks, TimeLimit) =
          CASE n <= 1 -> {P} [] n > 1 /\ over -> {Leaders(P, score)} [] OTHER -> {}
    BY DEF hill_outcome
  <2>3. n \in Nat
    BY <1>1
  <2> HIDE DEF P, score, n, over
  <2>4. ~ (n <= 1) /\ ~ over
    BY <2>1, <2>2, <2>3
  <2> QED BY <2>4 DEF n, over
<1>3. \A p \in Players : qs[p].score < PointsToWin
  <2> SUFFICES ASSUME NEW p \in Players PROVE qs[p].score < PointsToWin
    OBVIOUS
  <2>1. qs[p].score \in Nat
    BY SlotOf, PartsOfSlot, ModeBounds
  <2>2. CASE p \in P
    BY <1>2, <2>1, <2>2, ModeBounds
  <2>3. CASE p \notin P
    BY <2>3, SlotOf, NobodyIsBare, ModeBounds DEF Participants
  <2> QED BY <2>2, <2>3
<1> QED BY <1>2, <1>3, ModeBounds DEF HillUndecided

\* Without scores nothing is spent.
LEMMA NothingSpent ==
    ASSUME NEW ps, SlotsOK(ps), NoScores(ps)
    PROVE  SumFunction(Spent(ps)) = 0
<1> DEFINE f == Spent(ps)
<1>1. f \in [Players -> Nat] /\ \A p \in Players : f[p] = 0
  <2>1. \A p \in Players : Worth(ps[p]) = 0
    BY ModeBounds DEF NoScores, Worth
  <2> QED BY <2>1, SpentIsWorth
<1> HIDE DEF f
<1>2. IsFiniteSet(Players) /\ DOMAIN f = Players
  BY <1>1, ModesAssumption
<1>3. PICK sum : InOrder(sum, f, Players)
  BY <1>2, SumsInOrder
<1>4. sum[Players] = 0
  BY <1>1, <1>2, <1>3, SumIsNatural
<1> QED BY <1>3, <1>4 DEF InOrder, f

\* A tick of the hill.
LEMMA HillTickKeeps ==
    ASSUME MInv, HillTick
    PROVE  MInv' /\ Aligned
<1>1. PICK inside \in SUBSET Alive(players), falls \in SUBSET MayFall,
           hill \in hill_movement(mode, place, phase, Elapsed) :
        LET scored == [p \in Players |-> IF phase = "running" /\ players[p].body
                                         THEN hill_scoring(players[p], p \in inside, inside)
                                         ELSE players[p]]
            ps == match_reset(respawn(scored, falls))
        IN /\ CommitTick(ps, hill_outcome(Participants(ps), [p \in Players |-> ps[p].score],
                                          Elapsed, TimeLimit))
           /\ place' = hill
  BY DEF HillTick
<1> DEFINE scored == [p \in Players |-> IF phase = "running" /\ players[p].body
                                        THEN hill_scoring(players[p], p \in inside, inside)
                                        ELSE players[p]]
           rs == respawn(scored, falls)
           qs == match_reset(rs)
           outcome == hill_outcome(Participants(qs), [p \in Players |-> qs[p].score], Elapsed, TimeLimit)
<1>2. CommitTick(qs, outcome) /\ place' = hill
  BY <1>1
<1>3. stage = "play" /\ mode \in Tour /\ UNCHANGED standings
  BY DEF HillTick, IsHill
<1>4. /\ mode \in ModesChecked /\ phase \in Phases /\ elapsed \in 0 .. ClockBound
      /\ place \in HillPlace /\ SlotsOK(players) /\ Ranked(standings)
      /\ phase = "running" => HillUndecided(players, elapsed)
      /\ ~ ContestedHillScores /\ phase \in {"running", "ended"} => SumFunction(Spent(players)) <= elapsed
  BY <1>3 DEF MInv, IsHill, Phases
<1>5. Elapsed \in Nat /\ (phase = "running" => Elapsed = elapsed + 1) /\ (phase # "running" => Elapsed = elapsed)
  <2>1. phase = "running" => elapsed < ClockBound
    BY <1>4, ModeBounds DEF HillUndecided
  <2> QED BY <1>4, <2>1, ElapsedFacts, ModeBounds
<1>6. /\ SlotsOK(rs) /\ \A p \in Players : PlayerTicked(players[p], rs[p])
      /\ ~ ContestedHillScores =>
            /\ SumFunction(Spent(players)) \in Nat /\ SumFunction(Spent(rs)) \in Nat
            /\ SumFunction(Spent(rs)) <= SumFunction(Spent(players)) + (IF phase = "running" THEN 1 ELSE 0)
  BY <1>4, HillTicks
<1> HIDE DEF rs
<1>7. Ticked(qs) /\ (phase # "lobby" => qs = rs)
  BY <1>6, ResetTicks
<1>8. SlotsOK(qs)
  BY <1>7 DEF Ticked
<1>9. outcome = {} => HillUndecided(qs, Elapsed)
  <2> HIDE DEF qs
  <2> QED BY <1>5, <1>8, NoOutcomeYet
<1> HIDE DEF qs, outcome
<1>10. /\ players' = qs /\ stage' = "open" /\ mode' = mode
       /\ out' \in [Players -> 0 .. LongAgo] /\ SlotsOK(players') /\ Awaited(players', out', stage')
       /\ Aligned
       /\ phase' \in Phases /\ previous' = phase
       /\ since' \in 0 .. CountdownTicks + RestartDelay /\ elapsed' \in 0 .. ClockBound
       /\ phase' = "running" => \/ phase = "running" /\ outcome = {} /\ elapsed' = Elapsed
                                \/ phase = "countdown" /\ elapsed' = 0 /\ NoScores(players')
       /\ phase' = "ended" => phase \in {"running", "ended"} /\ elapsed' = Elapsed
       /\ Clean(phase', previous') => NoScores(players')
  BY <1>2, <1>3, <1>7, TickCommits DEF Aligned
<1>11. hill \in HillPlace
  BY <1>3, <1>4, <1>5, HillStaysInArena DEF Phases
<1>12. phase' = "running" => HillUndecided(players', elapsed')
  <2>1. CASE phase = "running" /\ outcome = {} /\ elapsed' = Elapsed
    BY <1>9, <1>10, <2>1
  <2>2. CASE phase = "countdown" /\ elapsed' = 0 /\ NoScores(players')
    BY <2>2, ModeBounds DEF HillUndecided, NoScores
  <2> QED BY <1>10, <2>1, <2>2
<1>13. ASSUME ~ ContestedHillScores, phase' \in {"running", "ended"}
       PROVE  SumFunction(Spent(players')) <= elapsed'
  <2>1. CASE phase \in {"running", "ended"} /\ elapsed' = Elapsed
    <3> DEFINE a == SumFunction(Spent(players))
               b == SumFunction(Spent(rs))
    <3>1. players' = rs
      BY <1>7, <1>10, <2>1
    <3>2. a \in Nat /\ b \in Nat /\ b <= a + (IF phase = "running" THEN 1 ELSE 0) /\ a <= elapsed
      BY <1>4, <1>6, <1>13, <2>1
    <3> HIDE DEF a, b
    <3>3. b <= elapsed'
      BY <1>4, <1>5, <2>1, <3>2
    <3> QED BY <3>1, <3>3 DEF b
  <2>2. CASE phase = "countdown" /\ elapsed' = 0 /\ NoScores(players')
    <3>1. SumFunction(Spent(players')) = 0
      BY <1>10, <2>2, NothingSpent
    <3> QED BY <2>2, <3>1
  <2> QED BY <1>10, <1>13, <2>1, <2>2
<1>14. standings' = standings /\ Ranked(standings')
  BY <1>3, <1>4
<1>15. mode' \in Tour /\ mode' # "race" /\ mode' # "royale" /\ place' \in HillPlace
  BY <1>2, <1>3, <1>10, <1>11 DEF Tour
<1> QED BY <1>4, <1>10, <1>12, <1>13, <1>14, <1>15 DEF MInv, IsHill, Phases

\* A racer's return to its gate.
LEMMA GateFacts ==
    ASSUME NEW r \in Slot, r.here, NEW s, s = [r EXCEPT !.body = TRUE]
    PROVE  /\ s \in Slot /\ s.here = r.here /\ s.body /\ s.timer = r.timer
           /\ s.presence = r.presence /\ s.score = r.score
<1>1. DOMAIN r = SlotParts
  BY PartsOfSlot
<1>2. /\ s = [x \in SlotParts |-> s[x]] /\ s.body /\ s.body \in BOOLEAN /\ s.here = r.here /\ s.timer = r.timer
      /\ s.progress = r.progress /\ s.presence = r.presence /\ s.score = r.score /\ s.exposure = r.exposure
  BY <1>1 DEF SlotParts
<1>3. s \in Slot
  BY <1>2, PartsOfSlot, SlotByParts
<1> QED BY <1>2, <1>3

\* The systems of a race tick.
LEMMA RaceTicks ==
    ASSUME SlotsOK(players), NEW crossed \in Crossings, NEW falls \in SUBSET MayFall, NEW free,
           NEW raced, raced = [p \in Players |-> IF phase = "running" THEN checkpoint_progress(players[p], crossed[p])
                                                 ELSE players[p]],
           NEW qs, qs = Race(raced, falls, free)
    PROVE  Ticked(qs)
<1> DEFINE gs == [p \in Players |-> IF raced[p].here /\ returns_to_gate(raced[p]) /\ p \in free
                                    THEN [raced[p] EXCEPT !.body = TRUE] ELSE raced[p]]
           rs == respawn(gs, falls)
<1>1. qs = match_reset(rs)
  BY DEF Race
<1>2. ASSUME NEW p \in Players
      PROVE  /\ raced[p] \in Slot /\ (~ raced[p].here => raced[p] = Nobody)
             /\ raced[p].here = players[p].here /\ raced[p].body = players[p].body /\ raced[p].timer = players[p].timer
             /\ raced[p].score = players[p].score /\ raced[p].presence = players[p].presence
  <2> DEFINE r == players[p]
             s == raced[p]
             c == crossed[p]
  <2>1. r \in Slot /\ (~ r.here => r = Nobody) /\ (r.body => r.here)
    BY SlotOf
  <2>2. c \in 0 .. Gates /\ (c > 0 => Cursor(r) + c <= Gates)
    BY DEF Crossings
  <2>3. s = IF phase = "running" THEN checkpoint_progress(r, c) ELSE r
    OBVIOUS
  <2> HIDE DEF r, s, c
  <2>4. CASE phase = "running"
    <3>1. /\ s \in Slot /\ s.here = r.here /\ s.body = r.body /\ s.timer = r.timer
          /\ s.score = r.score /\ s.presence = r.presence /\ (~ r.body => s = r)
      BY <2>1, <2>2, <2>3, <2>4, ProgressFacts
    <3> QED BY <2>1, <3>1 DEF r, s
  <2>5. CASE phase # "running"
    BY <2>1, <2>3, <2>5 DEF r, s
  <2> QED BY <2>4, <2>5
<1>3. ASSUME NEW p \in Players
      PROVE  /\ gs[p] \in Slot /\ (~ gs[p].here => gs[p] = Nobody)
             /\ gs[p].here = players[p].here /\ gs[p].timer = players[p].timer
             /\ players[p].body => gs[p].body
             /\ gs[p].body /\ ~ players[p].body => players[p].timer = 0
             /\ phase # "running" => gs[p].score = players[p].score /\ gs[p].presence = players[p].presence
  <2> DEFINE r == raced[p]
             s == gs[p]
  <2>1. CASE r.here /\ returns_to_gate(r) /\ p \in free
    <3>1. s = [r EXCEPT !.body = TRUE] /\ r.here /\ r \in Slot
      BY <1>2, <2>1
    <3>2. r.timer = 0
      BY <2>1 DEF returns_to_gate
    <3> HIDE DEF r, s
    <3>3. /\ s \in Slot /\ s.here = r.here /\ s.body /\ s.timer = r.timer
          /\ s.presence = r.presence /\ s.score = r.score
      BY <3>1, GateFacts
    <3> QED BY <1>2, <3>1, <3>2, <3>3 DEF r, s
  <2>2. CASE ~ (r.here /\ returns_to_gate(r) /\ p \in free)
    <3>1. s = r
      BY <2>2
    <3> HIDE DEF s
    <3>2. s = r
      BY <3>1
    <3> QED BY <1>2, <3>2 DEF s
  <2> QED BY <2>1, <2>2
<1> HIDE DEF gs
<1>4. SlotsOK(gs)
  <2>1. gs = [p \in Players |-> gs[p]]
    BY DEF gs
  <2>2. gs \in [Players -> Slot]
    BY <1>3, <2>1
  <2> QED BY <1>3, <2>2 DEF SlotsOK
<1>5. \A p \in falls : players[p].body
  BY DEF MayFall, Alive
<1>6. SlotsOK(rs) /\ \A p \in Players : PlayerTicked(players[p], rs[p])
  BY <1>3, <1>4, <1>5, RespawnTicks
<1> HIDE DEF rs
<1> QED BY <1>1, <1>6, ResetTicks

\* The standings after a tick, and the race's clock.
LEMMA RaceClock ==
    ASSUME Ranked(standings), elapsed \in 0 .. ClockBound,
           phase = "running" => RaceUndecided(standings, previous, elapsed),
           NEW finishers \in SUBSET Players, NEW offset \in [Players -> 1 .. 2],
           NEW list, list = Recorded(finishers, offset)
    PROVE  /\ Ranked(list)
           /\ phase = "running" =>
                /\ \A i \in DOMAIN list : list[i].tick <= Elapsed
                /\ list # <<>> => list[1].tick <= TimeLimit + 1
<1>1. CASE phase # "running"
  BY <1>1 DEF Recorded
<1>2. CASE phase = "running"
  <2> DEFINE base == IF previous = "countdown" THEN <<>> ELSE standings
             tick == Elapsed
  <2>1. list = standings_recorder(base, finishers, offset, tick)
    BY <1>2 DEF Recorded
  <2>2. Ranked(base)
    <3>1. Ranked(<<>>)
      BY DEF Ranked
    <3> QED BY <3>1
  <2>3. /\ base \in Seq(Row) /\ Len(base) \in Nat /\ DOMAIN base = 1 .. Len(base) /\ (base = <<>> <=> Len(base) = 0)
        /\ \A i \in DOMAIN base : base[i].tick \in Nat
    BY <2>2, Rows DEF Ranked
  <2>4. /\ \A i \in DOMAIN base : base[i].tick <= elapsed
        /\ base = <<>> => elapsed <= TimeLimit
        /\ base # <<>> => elapsed < base[1].tick + FinishWindow /\ base[1].tick <= TimeLimit + 1
    <3>1. CASE previous = "countdown"
      <4>1. elapsed = 0 /\ base = <<>>
        BY <1>2, <3>1 DEF RaceUndecided
      <4> QED BY <4>1, ModeBounds
    <3>2. CASE previous # "countdown"
      <4>1. base = standings
        BY <3>2
      <4> HIDE DEF base
      <4> QED BY <1>2, <3>2, <4>1, ModeBounds DEF RaceUndecided
    <3> QED BY <3>1, <3>2
  <2> HIDE DEF base
  <2>5. tick = elapsed + 1 /\ tick \in Nat
    <3>1. elapsed < ClockBound
      <4>1. CASE base = <<>>
        BY <2>4, <4>1, ModeBounds
      <4>2. CASE base # <<>>
        <5>1. base[1].tick \in Nat
          <6>1. 1 \in DOMAIN base
            BY <2>3, <4>2
          <6> QED BY <2>3, <6>1
        <5> QED BY <2>4, <4>2, <5>1, ModeBounds
      <4> QED BY <4>1, <4>2
    <3> QED BY <1>2, <3>1, ElapsedFacts, ModeBounds
  <2> HIDE DEF tick
  <2>6. \A i \in DOMAIN base : base[i].tick < tick
    BY <2>3, <2>4, <2>5, ModeBounds
  <2>7. Extends(list, base, finishers, offset, tick)
    BY <2>1, <2>2, <2>5, <2>6, RecorderRanks
  <2>8. /\ Ranked(list) /\ \A i \in DOMAIN base : i \in DOMAIN list /\ list[i] = base[i]
        /\ \A i \in DOMAIN list : i \in DOMAIN base \/ list[i].tick = tick
    BY <2>7 DEF Extends
  <2>9. \A i \in DOMAIN list : list[i].tick <= tick
    <3>1. \A i \in DOMAIN base : base[i].tick <= tick
      BY <2>3, <2>5, <2>6
    <3> QED BY <2>5, <2>8, <3>1
  <2>10. ASSUME list # <<>> PROVE list[1].tick <= TimeLimit + 1
    <3>1. 1 \in DOMAIN list
      <4>1. list \in Seq(Row)
        BY <2>8 DEF Ranked
      <4>2. Len(list) \in Nat /\ DOMAIN list = 1 .. Len(list) /\ Len(list) # 0
        BY <2>10, <4>1, Rows
      <4> QED BY <4>2
    <3>2. CASE base # <<>>
      <4>1. 1 \in DOMAIN base
        BY <2>3, <3>2
      <4> QED BY <2>4, <2>8, <3>2, <4>1
    <3>3. CASE base = <<>>
      <4>1. 1 \notin DOMAIN base
        BY <2>3, <3>3
      <4>2. list[1].tick = tick
        BY <2>8, <3>1, <4>1
      <4> QED BY <2>4, <2>5, <3>3, <4>2, ModeBounds
    <3> QED BY <3>2, <3>3
  <2> QED BY <2>8, <2>9, <2>10 DEF tick
<1> QED BY <1>1, <1>2

\* A race without an outcome goes on.
LEMMA NoWinnerYet ==
    ASSUME NEW participants, NEW list, NEW progress, NEW ticks \in Nat,
           race_outcome(participants, list, progress, ticks, TimeLimit) = {}
    PROVE  /\ list = <<>> => ~ (ticks >= TimeLimit)
           /\ list # <<>> => ~ (ticks - list[1].tick >= FinishWindow)
<1>1. participants # {}
  BY DEF race_outcome
<1>2. ~ (list # <<>> /\ (participants \subseteq Finished(list) \/ ticks - list[1].tick >= FinishWindow))
  BY <1>1 DEF race_outcome
<1>3. ~ (list = <<>> /\ ticks >= TimeLimit)
  BY <1>1 DEF race_outcome
<1> QED BY <1>2, <1>3

\* A tick of the race.
LEMMA RaceTickKeeps ==
    ASSUME MInv, RaceTick
    PROVE  MInv' /\ Aligned
<1>1. PICK crossed \in Crossings :
      \E finishers \in {{p \in Players : crossed[p] > 0 /\ Cursor(players[p]) + crossed[p] = Gates}} :
      \E offset \in Offsets(finishers), falls \in SUBSET (MayFall \ finishers) :
      \E free \in SUBSET {p \in Participants(players) : ~ players[p].body} :
          LET raced == [p \in Players |-> IF phase = "running" THEN checkpoint_progress(players[p], crossed[p])
                                          ELSE players[p]]
              ps == Race(raced, falls, free)
              list == Recorded(finishers, offset)
          IN /\ CommitTick(ps, race_outcome(Participants(ps), list,
                                            [p \in Players |-> Cursor(ps[p])], Elapsed, TimeLimit))
             /\ standings' = list
  BY DEF RaceTick
<1>2. PICK finishers \in SUBSET Players :
      \E offset \in Offsets(finishers), falls \in SUBSET (MayFall \ finishers) :
      \E free \in SUBSET {p \in Participants(players) : ~ players[p].body} :
          LET raced == [p \in Players |-> IF phase = "running" THEN checkpoint_progress(players[p], crossed[p])
                                          ELSE players[p]]
              ps == Race(raced, falls, free)
              list == Recorded(finishers, offset)
          IN /\ CommitTick(ps, race_outcome(Participants(ps), list,
                                            [p \in Players |-> Cursor(ps[p])], Elapsed, TimeLimit))
             /\ standings' = list
  BY <1>1
<1>3. PICK offset \in Offsets(finishers), falls \in SUBSET (MayFall \ finishers) :
      \E free \in SUBSET {p \in Participants(players) : ~ players[p].body} :
          LET raced == [p \in Players |-> IF phase = "running" THEN checkpoint_progress(players[p], crossed[p])
                                          ELSE players[p]]
              ps == Race(raced, falls, free)
              list == Recorded(finishers, offset)
          IN /\ CommitTick(ps, race_outcome(Participants(ps), list,
                                            [p \in Players |-> Cursor(ps[p])], Elapsed, TimeLimit))
             /\ standings' = list
  BY <1>2
<1> DEFINE raced == [p \in Players |-> IF phase = "running" THEN checkpoint_progress(players[p], crossed[p])
                                       ELSE players[p]]
           list == Recorded(finishers, offset)
<1>4. PICK free : LET ps == Race(raced, falls, free)
                  IN /\ CommitTick(ps, race_outcome(Participants(ps), list,
                                                    [p \in Players |-> Cursor(ps[p])], Elapsed, TimeLimit))
                     /\ standings' = list
  BY <1>3
<1> DEFINE qs == Race(raced, falls, free)
           outcome == race_outcome(Participants(qs), list, [p \in Players |-> Cursor(qs[p])], Elapsed, TimeLimit)
<1>5. CommitTick(qs, outcome) /\ standings' = list
  BY <1>4
<1>6. stage = "play" /\ mode = "race" /\ UNCHANGED place
  BY DEF RaceTick
<1>7. /\ mode \in ModesChecked /\ elapsed \in 0 .. ClockBound /\ place = 0
      /\ SlotsOK(players) /\ Ranked(standings)
      /\ phase = "running" => RaceUndecided(standings, previous, elapsed)
  BY <1>6 DEF MInv
<1>8. falls \in SUBSET MayFall /\ offset \in [Players -> 1 .. 2]
  BY DEF Offsets
<1>9. Ticked(qs)
  BY <1>7, <1>8, RaceTicks
<1>10. /\ Ranked(list)
       /\ phase = "running" => /\ \A i \in DOMAIN list : list[i].tick <= Elapsed
                               /\ list # <<>> => list[1].tick <= TimeLimit + 1
  BY <1>7, <1>8, RaceClock
<1>11. Elapsed \in Nat
  BY <1>7, ElapsedFacts, ModeBounds
<1>12. outcome = {} => /\ list = <<>> => ~ (Elapsed >= TimeLimit)
                       /\ list # <<>> => ~ (Elapsed - list[1].tick >= FinishWindow)
  <2> HIDE DEF qs, list
  <2> QED BY <1>11, NoWinnerYet
<1> HIDE DEF qs, list, outcome
<1>13. /\ players' = qs /\ stage' = "open" /\ mode' = mode
       /\ out' \in [Players -> 0 .. LongAgo] /\ SlotsOK(players') /\ Awaited(players', out', stage')
       /\ Aligned
       /\ phase' \in Phases /\ previous' = phase
       /\ since' \in 0 .. CountdownTicks + RestartDelay /\ elapsed' \in 0 .. ClockBound
       /\ phase' = "running" => \/ phase = "running" /\ outcome = {} /\ elapsed' = Elapsed
                                \/ phase = "countdown" /\ elapsed' = 0 /\ NoScores(players')
       /\ phase' = "ended" => phase \in {"running", "ended"} /\ elapsed' = Elapsed
       /\ Clean(phase', previous') => NoScores(players')
  BY <1>5, <1>6, <1>9, TickCommits DEF Aligned
<1>14. phase' = "running" => RaceUndecided(standings', previous', elapsed')
  <2>1. CASE phase = "running" /\ outcome = {} /\ elapsed' = Elapsed
    <3>1. list = <<>> => elapsed' < TimeLimit
      BY <1>11, <1>12, <2>1, ModeBounds
    <3>2. list # <<>> => elapsed' < list[1].tick + FinishWindow
      <4>1. ASSUME list # <<>> PROVE list[1].tick \in Nat
        <5>1. list \in Seq(Row)
          BY <1>10 DEF Ranked
        <5>2. 1 \in DOMAIN list
          <6>1. Len(list) \in Nat /\ DOMAIN list = 1 .. Len(list) /\ Len(list) # 0
            BY <4>1, <5>1, Rows
          <6> QED BY <6>1
        <5> QED BY <5>1, <5>2, Rows
      <4> QED BY <1>11, <1>12, <2>1, <4>1, ModeBounds
    <3> QED BY <1>5, <1>10, <1>13, <2>1, <3>1, <3>2 DEF RaceUndecided
  <2>2. CASE phase = "countdown" /\ elapsed' = 0
    BY <1>13, <2>2 DEF RaceUndecided
  <2> QED BY <1>13, <2>1, <2>2
<1>15. mode' = "race" /\ ~ (mode' \in Tour) /\ mode' # "royale" /\ place' = 0 /\ Ranked(standings')
  BY <1>5, <1>6, <1>7, <1>10, <1>13 DEF Tour
<1> QED BY <1>7, <1>13, <1>14, <1>15 DEF MInv, IsHill, Phases

\* A tick of the zone.
LEMMA ZoneTickKeeps ==
    ASSUME MInv, ZoneTick
    PROVE  MInv' /\ Aligned
<1>1. PICK outside \in SUBSET MayFall, falls \in SUBSET MayFall :
        LET counted == [p \in Players |-> IF phase = "running" /\ players[p].body
                                          THEN Exposed(players[p], p \in outside) ELSE players[p]]
            eliminated == falls \cup {p \in MayFall : zone_elimination(players[p], p \in outside)}
            ps == match_reset([p \in Players |-> IF p \in eliminated THEN Nobody ELSE counted[p]])
        IN CommitTick(ps, royale_outcome(Alive(ps)))
  BY DEF ZoneTick
<1> DEFINE counted == [p \in Players |-> IF phase = "running" /\ players[p].body
                                         THEN Exposed(players[p], p \in outside) ELSE players[p]]
           eliminated == falls \cup {p \in MayFall : zone_elimination(players[p], p \in outside)}
           rs == [p \in Players |-> IF p \in eliminated THEN Nobody ELSE counted[p]]
           qs == match_reset(rs)
           outcome == royale_outcome(Alive(qs))
<1>2. CommitTick(qs, outcome)
  BY <1>1
<1>3. stage = "play" /\ mode = "royale" /\ UNCHANGED standings /\ place' = zone_shrink(phase, Elapsed)
  BY DEF ZoneTick
<1>4. mode \in ModesChecked /\ elapsed \in 0 .. ClockBound /\ SlotsOK(players) /\ Ranked(standings)
  BY DEF MInv
<1>5. ASSUME NEW p \in Players
      PROVE  rs[p] \in Slot /\ (~ rs[p].here => rs[p] = Nobody) /\ PlayerTicked(players[p], rs[p])
  <2> DEFINE r == players[p]
             s == rs[p]
             b == p \in outside
  <2>1. r \in Slot /\ (~ r.here => r = Nobody) /\ (r.body => r.here) /\ r.timer \in Nat
    BY <1>4, SlotOf, PartsOfSlot, ModeBounds
  <2>2. CASE p \in eliminated
    <3>1. s = Nobody
      BY <2>2
    <3> HIDE DEF r, s
    <3>2. s \in Slot /\ PlayerTicked(r, s)
      BY <3>1, NobodyIsBare DEF PlayerTicked
    <3> QED BY <3>1, <3>2 DEF r, s
  <2>3. CASE p \notin eliminated
    <3>1. /\ s \in Slot /\ s.here = r.here /\ s.body = r.body /\ s.timer = r.timer
          /\ s.score = r.score /\ s.presence = r.presence /\ (~ r.here => s = Nobody)
      <4>1. CASE phase = "running" /\ r.body
        <5>1. s = Exposed(r, b) /\ b \in BOOLEAN
          BY <2>3, <4>1
        <5>2. ~ zone_elimination(r, b)
          BY <2>3, <4>1 DEF MayFall, Alive
        <5>3. r.here
          BY <2>1, <4>1
        <5> HIDE DEF r, s, b
        <5> QED BY <2>1, <5>1, <5>2, <5>3, ExposedFacts
      <4>2. CASE ~ (phase = "running" /\ r.body)
        <5>1. s = r
          BY <2>3, <4>2
        <5> HIDE DEF r, s
        <5> QED BY <2>1, <5>1
      <4> QED BY <4>1, <4>2
    <3> HIDE DEF r, s
    <3>2. PlayerTicked(r, s)
      BY <2>1, <3>1 DEF PlayerTicked
    <3> QED BY <3>1, <3>2 DEF r, s
  <2> QED BY <2>2, <2>3
<1> HIDE DEF eliminated, counted
<1>6. SlotsOK(rs)
  <2>1. rs = [p \in Players |-> rs[p]]
    OBVIOUS
  <2>2. rs \in [Players -> Slot]
    BY <1>5, <2>1
  <2> QED BY <1>5, <2>2 DEF SlotsOK
<1> HIDE DEF rs
<1>7. Ticked(qs)
  BY <1>5, <1>6, ResetTicks
<1> HIDE DEF qs, outcome
<1>8. /\ players' = qs /\ stage' = "open" /\ mode' = mode
      /\ out' \in [Players -> 0 .. LongAgo] /\ SlotsOK(players') /\ Awaited(players', out', stage')
      /\ Aligned
      /\ phase' \in Phases /\ previous' = phase
      /\ since' \in 0 .. CountdownTicks + RestartDelay /\ elapsed' \in 0 .. ClockBound
      /\ Clean(phase', previous') => NoScores(players')
  BY <1>2, <1>3, <1>7, TickCommits DEF Aligned
<1>9. place' \in ZoneMinimum .. ZoneFull
  <2>1. Elapsed \in Nat
    BY <1>4, ElapsedFacts, ModeBounds
  <2> QED BY <1>3, <2>1, ZoneBetweenRadii
<1>10. mode' = "royale" /\ ~ (mode' \in Tour) /\ mode' # "race" /\ standings' = standings /\ Ranked(standings')
  BY <1>3, <1>4, <1>8 DEF Tour
<1> QED BY <1>4, <1>8, <1>9, <1>10 DEF MInv, IsHill, Phases

---------------------------------------------------------------------------
(* Modes: phase 0.                                                         *)

\* A slot whose entity just came.
Arrived == [Nobody EXCEPT !.here = TRUE]

\* One slot from the end of a tick to the seating of the next: r before, u after
\* somebody came or left, and s after the seating, with a and b as in Return.
LEMMA SlotOpens ==
    ASSUME NEW r \in Slot, ~ r.here => r = Nobody, NEW a \in 0 .. LongAgo, ~ r.here => a = LongAgo,
           r.here /\ ~ r.body => a + r.timer >= Delay,
           NEW u, u = r \/ u = Nobody \/ (~ r.here /\ u = Arrived),
           NEW seated \in BOOLEAN, seated => u.here /\ ~ u.body /\ u.timer = 0,
           NEW s, s = Seat(u, seated),
           NEW b, b = IF u.here THEN (IF a = LongAgo THEN LongAgo ELSE a + 1) ELSE LongAgo
    PROVE  /\ s \in Slot /\ (~ s.here => s = Nobody) /\ b \in 0 .. LongAgo
           /\ ~ s.here => b = LongAgo
           /\ s.here /\ ~ s.body => b + s.timer >= Delay + 1
           /\ ~ r.body /\ s.body => b > Delay
           /\ (s.score = r.score /\ s.presence = r.presence) \/ (s.score = 0 /\ s.presence = 0)
           /\ Worth(s) <= Worth(r)
<1> DEFINE fresh == Arrived
<1>1. /\ fresh \in Slot /\ fresh.here /\ ~ fresh.body /\ fresh.timer = 0 /\ fresh.score = 0 /\ fresh.presence = 0
  <2>1. /\ fresh = [x \in SlotParts |-> fresh[x]] /\ fresh.here /\ fresh.here \in BOOLEAN
        /\ fresh.body = Nobody.body /\ fresh.timer = Nobody.timer /\ fresh.progress = Nobody.progress
        /\ fresh.presence = Nobody.presence /\ fresh.score = Nobody.score /\ fresh.exposure = Nobody.exposure
    BY DEF Nobody, SlotParts, Arrived
  <2> HIDE DEF fresh
  <2>2. fresh \in Slot
    BY <2>1, NobodyIsBare, PartsOfSlot, SlotByParts
  <2> QED BY <2>1, <2>2, NobodyIsBare
<1>2. u = r \/ u = Nobody \/ (~ r.here /\ u = fresh)
  OBVIOUS
<1> HIDE DEF fresh
<1>3. u \in Slot /\ (u.here => u = r \/ (~ r.here /\ u = fresh)) /\ (~ u.here => u = Nobody)
  BY <1>1, <1>2, NobodyIsBare
<1>4. /\ s \in Slot /\ s.here = u.here /\ (s.body <=> u.body \/ seated) /\ s.timer = u.timer
      /\ s.presence = u.presence /\ s.score = u.score /\ (~ seated => s = u)
  BY <1>3, SeatFacts
<1>5. ~ s.here => s = Nobody
  BY <1>3, <1>4
<1>6. a \in Nat /\ b \in Nat /\ r.timer \in Nat /\ Delay \in Nat /\ LongAgo = Delay + 2 /\ b <= LongAgo
  BY PartsOfSlot, ModeBounds
<1>7. CASE ~ u.here
  <2>1. s = Nobody /\ b = LongAgo /\ ~ s.body /\ s.score = 0 /\ s.presence = 0
    BY <1>4, <1>5, <1>7, NobodyIsBare
  <2>2. Worth(s) <= Worth(r)
    <3>1. Worth(s) = 0 /\ Worth(r) \in Nat
      BY <2>1, WorthIsNatural, ModeBounds DEF Worth
    <3> QED BY <3>1
  <2> QED BY <1>4, <1>6, <1>7, <2>1, <2>2
<1>8. CASE u.here /\ u = r
  <2>1. s.timer = r.timer /\ s.score = r.score /\ s.presence = r.presence
    BY <1>4, <1>8
  <2>2. ~ r.body => b + r.timer >= Delay + 1
    BY <1>6, <1>8
  <2>3. seated => b > Delay
    BY <1>6, <1>8, <2>2
  <2>4. Worth(s) <= Worth(r)
    <3>1. Worth(s) = Worth(r) /\ Worth(r) \in Nat
      BY <2>1, WorthIsNatural DEF Worth
    <3> QED BY <3>1
  <2> QED BY <1>4, <1>5, <1>6, <1>8, <2>1, <2>2, <2>3, <2>4
<1>9. CASE u.here /\ ~ r.here /\ u = fresh
  <2>1. b = LongAgo /\ s.score = 0 /\ s.presence = 0 /\ s.timer = 0
    BY <1>1, <1>4, <1>9
  <2>2. Worth(s) <= Worth(r)
    <3>1. Worth(s) = 0 /\ Worth(r) \in Nat
      BY <2>1, WorthIsNatural, ModeBounds DEF Worth
    <3> QED BY <3>1
  <2> QED BY <1>4, <1>5, <1>6, <1>9, <2>1, <2>2
<1> QED BY <1>3, <1>7, <1>8, <1>9

\* Joins, leaves and seating.
LEMMA OpenKeeps ==
    ASSUME MInv, Open
    PROVE  MInv' /\ Aligned
<1>1. PICK ps \in {players} \cup {Joined(p) : p \in Players \ Participants(players)}
                            \cup {Left(p) : p \in Participants(players)} :
      \E seated \in SUBSET {p \in Players : admits(p, ps)} :
          /\ players' = [p \in Players |-> [ps[p] EXCEPT !.body = @ \/ p \in seated]]
          /\ standings' = Forget(Participants(players) \ Participants(ps))
          /\ out' = [p \in Players |-> IF ps[p].here THEN Older(p) ELSE LongAgo]
  BY DEF Open
<1>2. PICK seated \in SUBSET {p \in Players : admits(p, ps)} :
          /\ players' = [p \in Players |-> [ps[p] EXCEPT !.body = @ \/ p \in seated]]
          /\ standings' = Forget(Participants(players) \ Participants(ps))
          /\ out' = [p \in Players |-> IF ps[p].here THEN Older(p) ELSE LongAgo]
  BY <1>1
<1>3. /\ stage = "open" /\ stage' = "play"
      /\ UNCHANGED <<mode, phase, previous, since, elapsed, place>>
  BY DEF Open
<1>4. /\ SlotsOK(players) /\ Ranked(standings) /\ Awaited(players, out, "open")
      /\ out \in [Players -> 0 .. LongAgo]
  BY <1>3 DEF MInv
<1>5. ASSUME NEW p \in Players
      PROVE  \/ ps[p] = players[p] \/ ps[p] = Nobody
             \/ (~ players[p].here /\ ps[p] = Arrived)
  <2> DEFINE fresh == Arrived
  <2> HIDE DEF fresh
  <2>1. players \in [Players -> Slot]
    BY <1>4 DEF SlotsOK
  <2>2. CASE ps = players
    BY <2>2
  <2>3. CASE ps \in {Joined(q) : q \in Players \ Participants(players)}
    <3>1. PICK q \in Players \ Participants(players) : ps = Joined(q)
      BY <2>3
    <3>2. ps = [players EXCEPT ![q] = fresh]
      BY <3>1 DEF Joined, fresh, Arrived
    <3>3. ~ players[q].here
      BY <3>1 DEF Participants
    <3>4. p # q => ps[p] = players[p]
      BY <2>1, <3>2
    <3>5. p = q => ps[p] = fresh
      BY <2>1, <3>2
    <3> QED BY <3>3, <3>4, <3>5 DEF fresh
  <2>4. CASE ps \in {Left(q) : q \in Participants(players)}
    <3>1. PICK q \in Participants(players) : ps = [players EXCEPT ![q] = Nobody]
      BY <2>4 DEF Left
    <3> QED BY <2>1, <3>1
  <2> QED BY <2>2, <2>3, <2>4
<1>6. ASSUME NEW p \in Players
      PROVE  /\ players'[p] \in Slot /\ (~ players'[p].here => players'[p] = Nobody) /\ out'[p] \in 0 .. LongAgo
             /\ ~ players'[p].here => out'[p] = LongAgo
             /\ players'[p].here /\ ~ players'[p].body => out'[p] + players'[p].timer >= Delay + 1
             /\ ~ players[p].body /\ players'[p].body => out'[p] > Delay
             /\ \/ (players'[p].score = players[p].score /\ players'[p].presence = players[p].presence)
                \/ (players'[p].score = 0 /\ players'[p].presence = 0)
             /\ Worth(players'[p]) <= Worth(players[p])
  <2> DEFINE r == players[p]
             u == ps[p]
             s == players'[p]
             a == out[p]
             b == out'[p]
             seats == p \in seated
  <2>1. r \in Slot /\ (~ r.here => r = Nobody) /\ a \in 0 .. LongAgo
    BY <1>4, SlotOf
  <2>2. ~ r.here => a = LongAgo
    BY <1>4 DEF Awaited
  <2>3. r.here /\ ~ r.body => a + r.timer >= Delay
    <3>1. r.here /\ ~ r.body => a + r.timer >= Delay + 0
      BY <1>4 DEF Awaited
    <3> QED BY <3>1, ModeBounds
  <2>4. seats \in BOOLEAN /\ (seats => u.here /\ ~ u.body /\ u.timer = 0)
    BY DEF admits
  <2>5. s = Seat(u, seats)
    BY <1>2 DEF Seat
  <2>6. b = IF u.here THEN (IF a = LongAgo THEN LongAgo ELSE a + 1) ELSE LongAgo
    BY <1>2 DEF Older
  <2>7. u = r \/ u = Nobody \/ (~ r.here /\ u = Arrived)
    BY <1>5
  <2> HIDE DEF r, u, s, a, b, seats
  <2>8. /\ s \in Slot /\ (~ s.here => s = Nobody) /\ b \in 0 .. LongAgo
        /\ ~ s.here => b = LongAgo
        /\ s.here /\ ~ s.body => b + s.timer >= Delay + 1
        /\ ~ r.body /\ s.body => b > Delay
        /\ (s.score = r.score /\ s.presence = r.presence) \/ (s.score = 0 /\ s.presence = 0)
        /\ Worth(s) <= Worth(r)
    BY <2>1, <2>2, <2>3, <2>4, <2>5, <2>6, <2>7, SlotOpens
  <2> QED BY <2>8 DEF r, s, a, b
<1>7. SlotsOK(players') /\ out' \in [Players -> 0 .. LongAgo]
  <2>1. players' = [p \in Players |-> players'[p]] /\ out' = [p \in Players |-> out'[p]]
    BY <1>2
  <2>2. players' \in [Players -> Slot] /\ out' \in [Players -> 0 .. LongAgo]
    BY <1>6, <2>1
  <2> QED BY <1>6, <2>2 DEF SlotsOK
<1>8. Awaited(players', out', stage')
  BY <1>3, <1>6 DEF Awaited
<1>9. Aligned
  BY <1>6 DEF Aligned
<1>10. /\ Ranked(standings') /\ Len(standings') = Len(standings) /\ DOMAIN standings' = DOMAIN standings
       /\ \A i \in DOMAIN standings : standings'[i].tick = standings[i].tick
  <2> DEFINE gone == Participants(players) \ Participants(ps)
  <2> HIDE DEF gone
  <2>1. standings' = Forget(gone)
    BY <1>2 DEF gone
  <2> QED BY <1>4, <2>1, ForgetRanks
<1>11. Clean(phase', previous') => NoScores(players')
  <2>1. Clean(phase, previous) => NoScores(players)
    BY DEF MInv
  <2> QED BY <1>3, <1>6, <2>1 DEF NoScores
<1>12. IsHill /\ phase' = "running" => HillUndecided(players', elapsed')
  <2>1. IsHill /\ phase = "running" => HillUndecided(players, elapsed)
    BY DEF MInv
  <2> QED BY <1>3, <1>6, <2>1, ModeBounds DEF HillUndecided
<1>13. IsHill /\ ~ ContestedHillScores /\ phase' \in {"running", "ended"} => SumFunction(Spent(players')) <= elapsed'
  <2> SUFFICES ASSUME IsHill, ~ ContestedHillScores, phase' \in {"running", "ended"}
               PROVE  SumFunction(Spent(players')) <= elapsed'
    OBVIOUS
  <2>1. SumFunction(Spent(players)) <= elapsed
    BY <1>3 DEF MInv
  <2> DEFINE before == Spent(players)
             after == Spent(players')
             none == {}
  <2>2. before \in [Players -> Nat] /\ after \in [Players -> Nat] /\ IsFiniteSet(Players)
    BY <1>4, <1>7, SpentIsWorth, ModesAssumption
  <2>3. \A p \in Players : after[p] <= before[p]
    BY <1>4, <1>6, <1>7, SpentIsWorth
  <2> HIDE DEF before, after, none
  <2>4. \A p \in Players : after[p] <= before[p] + (IF p \in none THEN 1 ELSE 0)
    <3>1. \A p \in Players : before[p] \in Nat /\ after[p] \in Nat /\ p \notin none
      BY <2>2 DEF none
    <3> QED BY <2>3, <3>1
  <2>5. \A p, q \in none : p = q
    BY DEF none
  <2>6. /\ SumFunction(before) \in Nat /\ SumFunction(after) \in Nat
        /\ SumFunction(after) <= SumFunction(before) + (IF none = {} THEN 0 ELSE 1)
    BY <2>2, <2>4, <2>5, SumGrows
  <2>7. elapsed \in Nat /\ elapsed' = elapsed
    BY <1>3, ModeBounds DEF MInv
  <2>8. SumFunction(after) <= elapsed'
    <3> DEFINE x == SumFunction(before)
               y == SumFunction(after)
    <3>1. x \in Nat /\ y \in Nat /\ y <= x + 0 /\ x <= elapsed
      BY <2>1, <2>6 DEF none, before
    <3> HIDE DEF x, y
    <3>2. y <= elapsed'
      BY <2>7, <3>1
    <3> QED BY <3>2 DEF y
  <2> QED BY <2>8 DEF after
<1>14. mode = "race" /\ phase' = "running" => RaceUndecided(standings', previous', elapsed')
  <2>1. mode = "race" /\ phase = "running" => RaceUndecided(standings, previous, elapsed)
    BY DEF MInv
  <2>2. /\ Len(standings) \in Nat /\ DOMAIN standings = 1 .. Len(standings)
        /\ standings = <<>> <=> Len(standings) = 0
        /\ standings' = <<>> <=> Len(standings') = 0
    BY <1>4, <1>10, Rows DEF Ranked
  <2>3. standings # <<>> => 1 \in DOMAIN standings
    BY <2>2
  <2> QED BY <1>3, <1>10, <2>1, <2>2, <2>3 DEF RaceUndecided
<1>15. /\ (IsHill' <=> IsHill) /\ mode' = mode /\ place' = place
  BY <1>3 DEF IsHill
<1>16. /\ mode' \in ModesChecked /\ stage' \in {"open", "play"} /\ phase' \in Phases /\ previous' \in Phases
       /\ since' \in 0 .. CountdownTicks + RestartDelay /\ elapsed' \in 0 .. ClockBound
       /\ IsHill' => place' \in HillPlace
       /\ mode' = "race" => place' = 0
       /\ mode' = "royale" => place' \in ZoneMinimum .. ZoneFull
  BY <1>3, <1>15 DEF MInv, Phases
<1> QED BY <1>7, <1>8, <1>9, <1>10, <1>11, <1>12, <1>13, <1>14, <1>15, <1>16 DEF MInv, Phases

---------------------------------------------------------------------------
(* The theorems about Modes.                                               *)

\* It holds at first.
LEMMA ModesInitInv == Init => MInv
<1> SUFFICES ASSUME Init PROVE MInv
  OBVIOUS
<1>1. \A p \in Players : players[p] = Nobody /\ out[p] = LongAgo
  BY DEF Init
<1>2. SlotsOK(players) /\ out \in [Players -> 0 .. LongAgo]
  BY <1>1, NobodyIsBare, ModeBounds DEF Init, SlotsOK
<1>3. Ranked(standings)
  BY DEF Init, Ranked
<1>4. Awaited(players, out, stage) /\ NoScores(players)
  BY <1>1, NobodyIsBare DEF Awaited, NoScores
<1>5. mode \in ModesChecked /\ ModesChecked \subseteq {"marker_tour", "random_roam", "race", "royale"}
  BY ModesAssumption DEF Init
<1>6. /\ IsHill => place \in HillPlace
      /\ mode = "race" => place = 0
      /\ mode = "royale" => place \in ZoneMinimum .. ZoneFull
  <2>1. place = FirstPlace(mode)
    BY DEF Init
  <2>2. HillAt(FirstMarker) \in HillPlace /\ ZoneFull \in ZoneMinimum .. ZoneFull
    BY FirstMarkerInArena, MarkerHill, ZoneAssumption
  <2> QED BY <1>5, <2>1, <2>2 DEF FirstPlace, IsHill, Tour
<1>7. 0 \in 0 .. CountdownTicks + RestartDelay /\ 0 \in 0 .. ClockBound
  BY ModeBounds
<1> QED BY <1>2, <1>3, <1>4, <1>5, <1>6, <1>7 DEF Init, MInv

\* Every step keeps the invariant, and brings a body back only in time.
LEMMA ModesNextInv ==
    ASSUME MInv, [Next]_vars
    PROVE  MInv' /\ (Next => Aligned)
<1>1. CASE Open
  BY <1>1, OpenKeeps
<1>2. CASE HillTick
  BY <1>2, HillTickKeeps
<1>3. CASE RaceTick
  BY <1>3, RaceTickKeeps
<1>4. CASE ZoneTick
  BY <1>4, ZoneTickKeeps
<1>5. CASE UNCHANGED vars
  <2>1. UNCHANGED <<mode, stage, phase, previous, since, elapsed, place, players, standings, out>>
    BY <1>5 DEF vars
  <2>2. (IsHill' <=> IsHill)
    BY <2>1 DEF IsHill
  <2>3. MInv'
    BY <2>1, <2>2 DEF MInv
  <2>4. Aligned
    BY <2>1 DEF Aligned
  <2> QED BY <2>3, <2>4
<1> QED BY <1>1, <1>2, <1>3, <1>4, <1>5 DEF Next

\* The invariant says what the run checks.
LEMMA InvIsFair == MInv => ScoresAreFair
<1> SUFFICES ASSUME MInv PROVE ScoresAreFair
  OBVIOUS
<1>1. ASSUME NEW p \in Players
      PROVE  /\ players[p].here \in BOOLEAN /\ players[p].body \in BOOLEAN
             /\ players[p].timer \in 0 .. Delay /\ players[p].progress \in NoProgress .. Gates
             /\ players[p].presence \in 0 .. PointInterval /\ players[p].score \in 0 .. PointsToWin
             /\ players[p].exposure \in 0 .. EliminationGrace
  <2>1. players[p] \in Slot
    BY SlotOf DEF MInv
  <2> QED BY <2>1, PartsOfSlot
<1>2. PlaceOK
  <2>1. mode \in {"marker_tour", "random_roam", "race", "royale"}
    BY ModesAssumption DEF MInv
  <2>2. CASE IsHill
    BY <2>2 DEF MInv, PlaceOK, HillPlace
  <2>3. CASE mode = "race"
    BY <2>3 DEF MInv, PlaceOK, IsHill, Tour
  <2>4. CASE mode = "royale"
    BY <2>4 DEF MInv, PlaceOK, IsHill, Tour
  <2> QED BY <2>1, <2>2, <2>3, <2>4 DEF IsHill, Tour
<1>3. TypeOK
  BY <1>1, <1>2 DEF MInv, TypeOK
<1>4. StandingsRankByTime
  BY RankedByTime DEF MInv
<1>5. PointsFitTheClock
  BY DEF MInv, PointsFitTheClock, Spent
<1> QED BY <1>3, <1>4, <1>5 DEF ScoresAreFair

\* The inductive invariant holds in every reachable state.
THEOREM ModesInvariant == Spec => []MInv
<1>1. MInv /\ [Next]_vars => MInv'
  BY ModesNextInv
<1> QED BY <1>1, ModesInitInv, PTL DEF Spec

\* Standings and points say what happened in this match, for any number of
\* players, any course and any lengths of the match and its windows
\* (standings_recorder_system.cpp, hill_scoring_system.cpp).
THEOREM ScoresStayFair == Spec => []ScoresAreFair
<1> QED BY ModesInvariant, InvIsFair, PTL

\* A body that was lost comes back no sooner than the delay and one tick after,
\* whichever way (respawn_system.cpp, grid_spawn_policy.hpp,
\* checkpoint_respawn_system.cpp).
THEOREM ReturnsStayAligned == Spec => ReturnsAreAligned
<1>1. MInv /\ [Next]_vars =>
        [\A p \in Players : (~ players[p].body /\ players'[p].body) => out'[p] > Delay]_vars
  BY ModesNextInv DEF Aligned
<1> QED BY <1>1, ModesInvariant, PTL DEF Spec, ReturnsAreAligned

---------------------------------------------------------------------------
(* Bots: the candidates of a tactical bot, and the choice among them.      *)

\* Among finitely many things in a strict order one comes before all others.
LEMMA FirstExists ==
    ASSUME NEW C, IsFiniteSet(C), NEW R,
           \A x, y \in C : x # y => <<x, y>> \in R \/ <<y, x>> \in R,
           \A x, y, z \in C : <<x, y>> \in R /\ <<y, z>> \in R => <<x, z>> \in R,
           C # {}
    PROVE  \E x \in C : \A y \in C \ {x} : <<x, y>> \in R
<1> DEFINE First(S) == \E x \in S : \A y \in S \ {x} : <<x, y>> \in R
           Good == {S \in SUBSET C : S # {} => First(S)}
<1>1. \A S \in SUBSET C : (\A x \in S : S \ {x} \in Good) => S \in Good
  <2> TAKE S \in SUBSET C
  <2> HAVE \A x \in S : S \ {x} \in Good
  <2> SUFFICES ASSUME S # {} PROVE First(S)
    OBVIOUS
  <2>1. PICK x \in S : TRUE
    OBVIOUS
  <2>2. CASE S \ {x} = {}
    BY <2>1, <2>2
  <2>3. CASE S \ {x} # {}
    <3>1. PICK m \in S \ {x} : \A y \in (S \ {x}) \ {m} : <<m, y>> \in R
      BY <2>1, <2>3
    <3>2. CASE <<m, x>> \in R
      BY <3>1, <3>2
    <3>3. CASE <<x, m>> \in R
      <4>1. ASSUME NEW y \in S \ {x} PROVE <<x, y>> \in R
        <5>1. x \in C /\ y \in C /\ m \in C
          BY <2>1, <3>1
        <5>2. y = m \/ <<m, y>> \in R
          BY <3>1, <4>1
        <5> QED BY <3>3, <5>1, <5>2
      <4> QED BY <2>1, <4>1
    <3> QED BY <3>1, <3>2, <3>3, <2>1
  <2> QED BY <2>2, <2>3
<1> HIDE DEF Good
<1>2. \A S \in SUBSET C : S \in Good
  BY <1>1, SubsetInduction
<1> QED BY <1>2 DEF Good

\* What a function makes of a finite set is finite.
LEMMA ImageIsFinite ==
    ASSUME NEW S, IsFiniteSet(S), NEW f
    PROVE  IsFiniteSet({f[x] : x \in S})
<1> DEFINE T == {f[x] : x \in S}
           g == [x \in S |-> f[x]]
<1>1. g \in Surjection(S, T)
  BY DEF Surjection
<1> HIDE DEF g, T
<1>2. IsFiniteSet(T)
  BY <1>1, FS_Surjection
<1> QED BY <1>2 DEF T

\* What a candidate is compared by.
Measured(c) ==
    /\ c.key \in {"hill", "zone", "race_gate", "race_recovery", "shove_setup"} \X Int
    /\ c.distance \in Int /\ c.opening \in Int

\* Distances are numbers, and directions are directions whatever they are taken of.
LEMMA DistanceType ==
    ASSUME NEW a \in Int, NEW b \in Int
    PROVE  Distance(a, b) \in Int
BY DEF Distance, Absolute

LEMMA DirectionType ==
    ASSUME NEW n
    PROVE  Direction(n) \in Directions
BY DEF Direction, Directions

\* How open an opponent is, is a number whatever it is doing.
LEMMA OpeningType ==
    ASSUME NEW a
    PROVE  shove_opening(shove_exposure(a)) \in Int
<1> DEFINE open == {w \in {"shield", "charge", "zone", "hill"} : w \in a.open}
           exposure == shove_exposure(a)
<1>1. IsFiniteSet(open)
  <2>1. IsFiniteSet({"shield", "charge", "zone", "hill"})
    <3>1. IsFiniteSet({"shield"})
      BY FS_Singleton
    <3>2. IsFiniteSet({"shield"} \cup {"charge"})
      BY <3>1, FS_AddElement
    <3>3. IsFiniteSet(({"shield"} \cup {"charge"}) \cup {"zone"})
      BY <3>2, FS_AddElement
    <3>4. IsFiniteSet((({"shield"} \cup {"charge"}) \cup {"zone"}) \cup {"hill"})
      BY <3>3, FS_AddElement
    <3>5. {"shield", "charge", "zone", "hill"} = (({"shield"} \cup {"charge"}) \cup {"zone"}) \cup {"hill"}
      OBVIOUS
    <3> QED BY <3>4, <3>5
  <2> QED BY <2>1, FS_Subset
<1>2. Cardinality(open) \in Nat
  BY <1>1, FS_CardinalityType
<1> HIDE DEF open
<1>3. exposure \in Int
  BY <1>2 DEF shove_exposure, open
<1>4. Profile.exposure_preference \in 0 .. 4
  BY ObjectivesAssumption DEF profile_accepted, Quarters
<1> HIDE DEF exposure
<1>5. shove_opening(exposure) \in Int
  BY <1>3, <1>4 DEF shove_opening
<1> QED BY <1>5 DEF exposure

Fields == {"key", "target", "distance", "opening"}

\* The shoves of an observation, one for each opponent at most.
LEMMA ShoveFacts ==
    ASSUME NEW o \in Scenes
    PROVE  /\ IsFiniteSet(shove_setup(o))
           /\ \A c \in shove_setup(o) :
                 /\ c.key \in {"shove_setup"} \X Int /\ Fields \subseteq DOMAIN c
                 /\ c.distance = Distance(o.self, c.target) /\ c.opening \in Int
           /\ \A c, d \in shove_setup(o) : c.key = d.key => c = d
<1> DEFINE near == {b \in nearest_opponents(o) :
                      /\ shove_opening(shove_exposure(b)) >= Profile.minimum_opening
                      /\ shove_hazards(o, b.at) # {}}
           aim(a) == a.at + nearest_shove_hazard(shove_hazards(o, a.at))[4] * Standoff
           shove(a) == [Candidate("shove_setup", a.id, aim(a), 1, Distance(o.self, aim(a)))
                          EXCEPT !.opening = shove_opening(shove_exposure(a))]
<1>1. IsFiniteSet(near) /\ near \subseteq o.opponents
  <2>1. near \subseteq o.opponents
    BY DEF nearest_opponents
  <2>2. IsFiniteSet(o.opponents)
    BY ScenesAssumption
  <2> QED BY <2>1, <2>2, FS_Subset
<1>2. \A a \in near : a.id \in Int /\ \A b \in near : a.id = b.id => a = b
  BY <1>1, ScenesAssumption
<1> HIDE DEF near
<1>3. shove_setup(o) \subseteq {shove(a) : a \in near}
  BY DEF shove_setup, near
<1>4. \A a : /\ shove(a).key = <<"shove_setup", a.id>> /\ shove(a).target = aim(a)
             /\ shove(a).distance = Distance(o.self, aim(a))
             /\ shove(a).opening = shove_opening(shove_exposure(a)) /\ Fields \subseteq DOMAIN shove(a)
  <2> HIDE DEF aim
  <2> QED BY DEF Candidate, Fields
<1> HIDE DEF shove
<1>5. IsFiniteSet({shove(a) : a \in near})
  <2> DEFINE f == [a \in near |-> shove(a)]
  <2>1. {shove(a) : a \in near} = {f[a] : a \in near}
    OBVIOUS
  <2> HIDE DEF f
  <2>2. IsFiniteSet({f[a] : a \in near})
    BY <1>1, ImageIsFinite
  <2> QED BY <2>1, <2>2
<1>6. IsFiniteSet(shove_setup(o))
  BY <1>3, <1>5, FS_Subset
<1>7. ASSUME NEW c \in shove_setup(o)
      PROVE  /\ c.key \in {"shove_setup"} \X Int /\ Fields \subseteq DOMAIN c
             /\ c.distance = Distance(o.self, c.target) /\ c.opening \in Int
  <2>1. PICK a \in near : c = shove(a)
    BY <1>3, <1>7
  <2> HIDE DEF aim
  <2>2. c.distance = Distance(o.self, c.target)
    BY <2>1, <1>4
  <2>3. c.key = <<"shove_setup", a.id>> /\ a.id \in Int
    BY <2>1, <1>2, <1>4
  <2> QED BY <2>1, <2>2, <2>3, <1>4, OpeningType
<1>8. ASSUME NEW c \in shove_setup(o), NEW d \in shove_setup(o), c.key = d.key PROVE c = d
  <2>1. PICK a \in near : c = shove(a)
    BY <1>3, <1>8
  <2>2. PICK b \in near : d = shove(b)
    BY <1>3, <1>8
  <2>3. a.id = b.id
    <3>1. <<"shove_setup", a.id>> = <<"shove_setup", b.id>>
      BY <2>1, <2>2, <1>4, <1>8
    <3> QED BY <3>1
  <2> QED BY <2>1, <2>2, <2>3, <1>2
<1> QED BY <1>6, <1>7, <1>8

\* What there is to choose from: finitely many candidates, told apart by their
\* keys, and every one measured.
LEMMA CandidateFacts ==
    ASSUME NEW o \in Scenes
    PROVE  LET found == collect_tactical_objective_candidates(o) IN
           /\ found.disposition \in {"ready", "waiting", "finished"}
           /\ IsFiniteSet(found.candidates)
           /\ \A c \in found.candidates : Measured(c)
           /\ \A c, d \in found.candidates : c.key = d.key => c = d
<1> DEFINE raw == CASE o.schema = "hill"   -> circles(o, "hill")
                    [] o.schema = "royale" -> circles(o, "zone")
                    [] o.schema = "race"   -> race(o)
           shoves == shove_setup(o)
           merged == IF raw.disposition = "ready" THEN raw.candidates \cup shoves ELSE {}
           ground(c) == terrain_supports_point(c.target) /\ support_exits(o.self, c.target - o.self) = {}
           screened(c) == [c EXCEPT !.blocked = horizon_exits_support(o, c)]
           left == {c \in merged : ground(c)}
           found == collect_tactical_objective_candidates(o)
           Objective(c) ==
              /\ c.key \in {"hill", "zone", "race_gate", "race_recovery"} \X Int
              /\ (c.distance = Distance(o.self, c.target) \/ c.distance \in Int)
              /\ c.opening = 32 /\ Fields \subseteq DOMAIN c
<1>1. /\ o.schema \in {"hill", "race", "royale"} /\ o.self \in Int /\ o.progress \in Int /\ o.astray \in Int
  BY ScenesAssumption
<1>2. found = [disposition |-> raw.disposition, candidates |-> {screened(c) : c \in left}]
  BY DEF collect_tactical_objective_candidates
<1>3. /\ raw.disposition \in {"ready", "waiting", "finished"}
      /\ (raw.candidates = {} \/ \E c : raw.candidates = {c} /\ Objective(c))
  <2>1. ASSUME NEW k \in {"hill", "zone"}
        PROVE  /\ circles(o, k).disposition = "ready"
               /\ \E c : circles(o, k).candidates = {c} /\ Objective(c)
    <3> DEFINE target == IF k = "hill" THEN tactical_predicted_center(o) ELSE o.place
               drift == IF k = "hill" THEN o.drift ELSE 0
               c == [Candidate(k, 0, target, o.radius, Distance(o.self, target)) EXCEPT !.drift = drift]
    <3>1. circles(o, k) = [disposition |-> "ready", candidates |-> {c}]
      BY DEF circles, Ready
    <3> HIDE DEF target, drift
    <3>2. /\ c.key = <<k, 0>> /\ c.target = target /\ c.distance = Distance(o.self, target)
          /\ c.opening = 32 /\ Fields \subseteq DOMAIN c
      BY DEF Candidate, Fields
    <3> HIDE DEF c
    <3>3. Objective(c)
      BY <3>2 DEF Fields
    <3> QED BY <3>1, <3>3
  <2>2. /\ race(o).disposition \in {"ready", "waiting", "finished"}
        /\ (race(o).candidates = {} \/ \E c : race(o).candidates = {c} /\ Objective(c))
    <3> DEFINE back == Candidate("race_recovery", o.progress, o.self, 0, o.astray)
               gate == Candidate("race_gate", o.progress, o.place, o.radius, Distance(o.self, o.place))
    <3>1. Objective(back) /\ Objective(gate)
      <4> HIDE DEF Objective
      <4>1. back = [key |-> <<"race_recovery", o.progress>>, target |-> o.self, radius |-> 0,
                    distance |-> o.astray, blocked |-> FALSE, opening |-> 32, drift |-> 0]
        BY DEF Candidate
      <4>2. gate = [key |-> <<"race_gate", o.progress>>, target |-> o.place, radius |-> o.radius,
                    distance |-> Distance(o.self, o.place), blocked |-> FALSE, opening |-> 32, drift |-> 0]
        BY DEF Candidate
      <4> HIDE DEF back, gate
      <4>3. Objective(back)
        BY <1>1, <4>1 DEF Fields, Objective
      <4>4. Objective(gate)
        BY <1>1, <4>2 DEF Fields, Objective
      <4> QED BY <4>3, <4>4
    <3>2. race(o) \in {NotReady("waiting"), NotReady("finished"), Ready({back}), Ready({gate})}
      BY DEF race
    <3> HIDE DEF back, gate, Objective
    <3> QED BY <3>1, <3>2 DEF NotReady, Ready
  <2>3. raw \in {circles(o, "hill"), circles(o, "zone"), race(o)}
    BY <1>1
  <2> HIDE DEF raw, Objective
  <2> QED BY <2>1, <2>2, <2>3
<1> HIDE DEF raw, Objective
<1>4. IsFiniteSet(left)
  <2>1. IsFiniteSet(raw.candidates)
    <3>1. CASE raw.candidates = {}
      BY <3>1, FS_EmptySet
    <3>2. CASE \E c : raw.candidates = {c}
      BY <3>2, FS_Singleton
    <3> QED BY <1>3, <3>1, <3>2
  <2>2. IsFiniteSet(raw.candidates \cup shoves)
    BY <2>1, ShoveFacts, FS_Union
  <2>3. IsFiniteSet(merged)
    BY <2>2, FS_EmptySet
  <2>4. left \subseteq merged
    OBVIOUS
  <2> HIDE DEF left, merged
  <2> QED BY <2>3, <2>4, FS_Subset
<1>5. \A c \in left :
        /\ (c \in raw.candidates /\ Objective(c)) \/ c \in shoves
        /\ c.target \in Int
  <2>1. \A c \in left : c.target \in Int
    BY ObjectivesAssumption DEF terrain_supports_point
  <2>2. left \subseteq raw.candidates \cup shoves
    OBVIOUS
  <2> HIDE DEF left, shoves
  <2> QED BY <1>3, <2>1, <2>2
<1> HIDE DEF left
<1>6. \A c \in left : Measured(c) /\ Fields \subseteq DOMAIN c
  <2> TAKE c \in left
  <2>1. Distance(o.self, c.target) \in Int
    BY <1>1, <1>5, DistanceType
  <2>2. CASE c \in raw.candidates /\ Objective(c)
    BY <2>1, <2>2 DEF Objective, Measured
  <2>3. CASE c \in shoves
    BY <2>1, <2>3, ShoveFacts DEF Measured
  <2> QED BY <1>5, <2>2, <2>3
<1>7. \A c, d \in left : c.key = d.key => c = d
  <2> TAKE c, d \in left
  <2> HAVE c.key = d.key
  <2>1. CASE c \in shoves /\ d \in shoves
    BY <2>1, ShoveFacts
  <2>2. CASE c \in raw.candidates /\ Objective(c) /\ d \in raw.candidates /\ Objective(d)
    BY <1>3, <2>2
  <2>3. CASE c \in shoves /\ Objective(d)
    <3>1. c.key \in {"shove_setup"} \X Int
      BY <2>3, ShoveFacts
    <3> QED BY <2>3, <3>1 DEF Objective
  <2>4. CASE d \in shoves /\ Objective(c)
    <3>1. d.key \in {"shove_setup"} \X Int
      BY <2>4, ShoveFacts
    <3> QED BY <2>4, <3>1 DEF Objective
  <2> QED BY <1>5, <2>1, <2>2, <2>3, <2>4
<1>8. \A c \in left : screened(c).key = c.key /\ screened(c).distance = c.distance /\ screened(c).opening = c.opening
  BY <1>6 DEF Fields
<1> HIDE DEF screened
<1>9. IsFiniteSet({screened(c) : c \in left})
  <2> DEFINE f == [c \in left |-> screened(c)]
  <2>1. {screened(c) : c \in left} = {f[c] : c \in left}
    OBVIOUS
  <2> HIDE DEF f
  <2>2. IsFiniteSet({f[c] : c \in left})
    BY <1>4, ImageIsFinite
  <2> QED BY <2>1, <2>2
<1>10. \A c \in {screened(d) : d \in left} : Measured(c)
  BY <1>6, <1>8 DEF Measured
<1>11. \A c, d \in {screened(e) : e \in left} : c.key = d.key => c = d
  BY <1>7, <1>8
<1> HIDE DEF found
<1>12. found.disposition = raw.disposition /\ found.candidates = {screened(c) : c \in left}
  BY <1>2
<1>13. /\ found.disposition \in {"ready", "waiting", "finished"} /\ IsFiniteSet(found.candidates)
       /\ \A c \in found.candidates : Measured(c)
       /\ \A c, d \in found.candidates : c.key = d.key => c = d
  BY <1>3, <1>9, <1>10, <1>11, <1>12
<1> QED BY <1>13 DEF found

\* One of them comes before all others, by score, distance and key.
LEMMA SelectionIsACandidate ==
    ASSUME NEW Found, IsFiniteSet(Found), Found # {}, \A c \in Found : Measured(c),
           \A c, d \in Found : c.key = d.key => c = d,
           NEW held
    PROVE  tactical_select_candidate(Found, held) \in Found
<1> DEFINE V(c) == tactical_candidate_score(c, held)
           Better(c, d) == V(c) > V(d) \/ (V(c) = V(d) /\ tactical_candidate_precedes(c, d))
           Precedence == {p \in Found \X Found : Better(p[1], p[2])}
           K(c) == kind_ordinal(c.key[1])
<1>2. \A c \in Found : /\ K(c) \in 1 .. 5 /\ c.key[1] = ObjectiveKinds[K(c)]
  BY DEF Measured, kind_ordinal, ObjectiveKinds
<1>3. \A c \in Found : V(c) \in Int
  <2> TAKE c \in Found
  <2>1. weight_of(c.key[1]) \in Int
    BY <1>2, ObjectivesAssumption DEF weight_of, profile_accepted, Quarters
  <2>2. Min({c.distance, Width}) \in Int
    <3>1. c.distance \in Int /\ Width \in Int
      BY ObjectivesAssumption DEF Measured
    <3> DEFINE m == IF c.distance <= Width THEN c.distance ELSE Width
    <3>2. m \in {c.distance, Width} /\ \A y \in {c.distance, Width} : m <= y
      BY <3>1
    <3> QED BY <3>1, <3>2 DEF Min
  <2>3. Width \in Int /\ Profile.risk \in Int /\ c.opening \in Int
    BY ObjectivesAssumption DEF Measured, profile_accepted, Quarters
  <2> DEFINE w == weight_of(c.key[1])
             n == Min({c.distance, Width})
             r == Profile.risk
             p == c.opening
             part == w * (Width - n) * p
             penalty == IF c.blocked THEN (4 - r) * (One \div 4) ELSE 0
             bonus == IF held = c.key THEN One \div 8 ELSE 0
  <2>4. V(c) = part - penalty + bonus
    BY DEF tactical_candidate_score
  <2> HIDE DEF w, n, r, p
  <2>5. part \in Int
    BY <2>1, <2>2, <2>3 DEF w, n, p
  <2>6. One \div 4 \in Int /\ One \div 8 \in Int
    BY <2>3 DEF One
  <2>7. penalty \in Int /\ bonus \in Int
    BY <2>3, <2>6 DEF r
  <2> HIDE DEF part, penalty, bonus
  <2> QED BY <2>4, <2>5, <2>7
<1>4. \A c \in Found : c.distance \in Int /\ c.key[2] \in Int /\ c.key = <<c.key[1], c.key[2]>>
  BY DEF Measured
<1> HIDE DEF V, K
<1>5. \A c, d \in Found : Better(c, d) <=>
        \/ V(c) > V(d)
        \/ /\ V(c) = V(d)
           /\ \/ c.distance < d.distance
              \/ /\ c.distance = d.distance
                 /\ (K(c) < K(d) \/ (c.key[1] = d.key[1] /\ c.key[2] < d.key[2]))
  <2> TAKE c, d \in Found
  <2>1. tactical_candidate_precedes(c, d) <=>
          \/ c.distance < d.distance
          \/ /\ c.distance = d.distance
             /\ (K(c) < K(d) \/ (c.key[1] = d.key[1] /\ c.key[2] < d.key[2]))
    BY DEF tactical_candidate_precedes, K
  <2> QED BY <2>1
<1>6. \A c, d \in Found : c.key[1] = d.key[1] <=> K(c) = K(d)
  BY <1>2 DEF K
<1>7. \A c, d \in Found : c # d => ~ (K(c) = K(d) /\ c.key[2] = d.key[2])
  BY <1>4, <1>6
<1> HIDE DEF Better
<1>8. \A c, d \in Found : c # d => Better(c, d) \/ Better(d, c)
  <2> TAKE c, d \in Found
  <2> HAVE c # d
  <2>1. /\ K(c) \in Int /\ K(d) \in Int /\ V(c) \in Int /\ V(d) \in Int
        /\ c.distance \in Int /\ d.distance \in Int /\ c.key[2] \in Int /\ d.key[2] \in Int
    BY <1>2, <1>3, <1>4
  <2>2. (c.key[1] = d.key[1] <=> K(c) = K(d)) /\ ~ (K(c) = K(d) /\ c.key[2] = d.key[2])
    BY <1>6, <1>7
  <2> QED BY <1>5, <2>1, <2>2
<1>9. \A c, d, e \in Found : Better(c, d) /\ Better(d, e) => Better(c, e)
  BY <1>2, <1>3, <1>4, <1>5, <1>6
<1>10. \A c, d \in Found : <<c, d>> \in Precedence <=> Better(c, d)
  OBVIOUS
<1> HIDE DEF Precedence
<1>11. \E c \in Found : \A d \in Found \ {c} : <<c, d>> \in Precedence
  <2>1. \A x, y \in Found : x # y => <<x, y>> \in Precedence \/ <<y, x>> \in Precedence
    BY <1>8, <1>10
  <2>2. \A x, y, z \in Found : <<x, y>> \in Precedence /\ <<y, z>> \in Precedence => <<x, z>> \in Precedence
    BY <1>9, <1>10
  <2>5. \E x \in Found : \A y \in Found \ {x} : <<x, y>> \in Precedence
    BY <2>1, <2>2, FirstExists
  <2> QED BY <2>5
<1>12. PICK c \in Found : \A d \in Found \ {c} : Better(c, d)
  BY <1>10, <1>11
<1>13. tactical_select_candidate(Found, held) = CHOOSE x \in Found : \A d \in Found \ {x} : Better(x, d)
  BY DEF tactical_select_candidate, Better, V
<1>14. tactical_select_candidate(Found, held) \in Found
  BY <1>12, <1>13
<1> QED BY <1>14

---------------------------------------------------------------------------
(* Bots: the inductive invariant.                                          *)

Keys == {"none", "hill", "zone", "race_gate", "race_recovery", "shove_setup"} \X Int

BotState ==
    [stale : BOOLEAN, seeded : Runs \cup {None}, body : Generations \cup {None}, stunned : BOOLEAN,
     reaction : Nat \cup {None}, lease : [key : Keys, left : Nat], held : Directions \cup {Idle},
     passes : Nat, wait : Nat]

WorldState ==
    [form : {"none", "unbodied", "body"}, gen : Generations, stun : Nat, timer : Nat,
     force : Directions, running : BOOLEAN, run : Runs]

Thrust == [direction : Directions, gen : Generations]

\* While a body is published the engine can have changed nothing of it but its
\* thrust; a body seated since has none, and nothing on its way to it.
Published ==
    /\ seen.form = "body" \/ ~ ticking => seen = View(world)
    /\ seen.form # "body" /\ ticking => pending = {} /\ (world.form = "body" => world.force = 0)

\* A thrust that comes too late for a lost body is drained before it returns.
Late == pending # {} /\ world.form = "unbodied" => world.timer > 0

\* Nothing drives a stunned body, and nothing on its way will.
Subdued ==
    /\ world.form # "body" => world.stun = 0
    /\ world.stun > 0 => world.force = 0 /\ \A t \in pending : t.gen # world.gen

\* A bot without a target holds no thrust but a stop.
Holding(b) ==
    /\ b.lease = NoLease => b.held \in {0, Idle}
    /\ b.lease # NoLease => b.lease.key # NoLease.key

Driven == world.form = "body" /\ world.stun = 0 => Steered \in {0, bot.held}

BTypes ==
    /\ bot \in BotState /\ world \in WorldState /\ ticking \in BOOLEAN
    /\ seen.form \in {"none", "unbodied", "body"}
    /\ pending \subseteq Thrust /\ \A t, u \in pending : t = u

BInv ==
    kind = "tactical" => BTypes /\ Published /\ Late /\ Subdued /\ Holding(bot) /\ Driven

\* Fresh numbers are none of those in use.
LEMMA FreshGenerationFacts ==
    ASSUME \A t, u \in pending : t = u
    PROVE  /\ FreshGeneration \in Generations
           /\ FreshGeneration # world.gen
           /\ \A t \in pending : t.gen # FreshGeneration
<1> DEFINE used == {world.gen, seen.gen, bot.body} \cup {t.gen : t \in pending}
           free == Generations \ used
<1>1. PICK g : {t.gen : t \in pending} \subseteq {g}
  <2>1. CASE pending = {}
    BY <2>1
  <2>2. CASE pending # {}
    <3>1. PICK t \in pending : TRUE
      BY <2>2
    <3>2. {u.gen : u \in pending} \subseteq {t.gen}
      BY <3>1
    <3> QED BY <3>2
  <2> QED BY <2>1, <2>2
<1>2. used \subseteq {world.gen, seen.gen, bot.body, g}
  BY <1>1
<1> HIDE DEF used
<1>3. \E n \in 0 .. 4 : n \in free
  <2>1. \E n \in 0 .. 4 : n # world.gen /\ n # seen.gen /\ n # bot.body /\ n # g
    OBVIOUS
  <2> QED BY <1>2, <2>1 DEF Generations
<1>4. \E n \in free : \A m \in free : n <= m
  BY <1>3 DEF Generations
<1>5. FreshGeneration \in free
  <2>1. FreshGeneration = Min(free)
    BY DEF FreshGeneration, used
  <2> HIDE DEF free
  <2> QED BY <1>4, <2>1 DEF Min
<1>6. FreshGeneration \in Generations /\ FreshGeneration \notin used
  BY <1>5
<1> HIDE DEF FreshGeneration
<1> QED BY <1>6 DEF used

\* The next match has a number.
LEMMA FreshRunFacts == FreshRun \in Runs
<1> DEFINE free == Runs \ {world.run, bot.seeded}
<1>1. \E n \in free : \A m \in free : n <= m
  BY DEF Runs
<1>2. FreshRun = Min(free)
  BY DEF FreshRun
<1> HIDE DEF free
<1>3. FreshRun \in free
  BY <1>1, <1>2 DEF Min
<1> QED BY <1>3 DEF free

\* Initially there is no body to drive.
LEMMA BotsInitInv == BotsInit => BInv
<1> SUFFICES ASSUME BotsInit PROVE BTypes /\ Published /\ Late /\ Subdued /\ Holding(bot) /\ Driven
  BY DEF BInv
<1> USE DEF BotsInit
<1>1. bot \in BotState
  BY DEF NewBot, BotState, NoLease, Keys, None, Idle, Runs, Generations, Directions
<1>2. world \in WorldState
  BY DEF NewWorld, WorldState, Generations, Runs, Directions
<1>3. BTypes
  BY <1>1, <1>2 DEF BTypes, View, NewWorld
<1>4. Published /\ Late /\ Subdued /\ Driven
  BY DEF Published, Late, Subdued, Driven, NewWorld, View
<1>5. Holding(bot)
  BY DEF Holding, NewBot, NoLease, Idle
<1> QED BY <1>3, <1>4, <1>5

---------------------------------------------------------------------------
(* Bots: the engine's steps.                                               *)

\* Seating a body and draining the mailbox preserve the invariant.
LEMMA StartTickInv ==
    ASSUME BInv, StartTick
    PROVE  BInv'
<1> SUFFICES ASSUME kind = "tactical"
             PROVE  (BTypes /\ Published /\ Late /\ Subdued /\ Holding(bot) /\ Driven)'
  BY DEF BInv, StartTick
<1>1. BTypes /\ Published /\ Late /\ Subdued /\ Holding(bot) /\ Driven
  BY DEF BInv
<1>2. ~ ticking /\ ticking' /\ ticking' \in BOOLEAN /\ pending' = {} /\ bot' = bot /\ seen' = seen /\ seen = View(world)
  BY <1>1 DEF StartTick, Published
<1>3. PICK seated \in BOOLEAN :
        /\ seated => (world.form = "none" /\ asking) \/ (world.form = "unbodied" /\ world.timer = 0)
        /\ LET w == IF seated
                    THEN [world EXCEPT !.form = "body", !.force = 0,
                                       !.gen = IF world.form = "none" THEN FreshGeneration ELSE @]
                    ELSE world
           IN  world' = IF w.form = "body" /\ w.stun = 0 /\ \E t \in pending : t.gen = w.gen
                        THEN [w EXCEPT !.force = (CHOOSE t \in pending : TRUE).direction] ELSE w
  BY DEF StartTick
<1> DEFINE gen == IF world.form = "none" THEN FreshGeneration ELSE world.gen
           w == IF seated THEN [world EXCEPT !.form = "body", !.force = 0, !.gen = gen] ELSE world
           thrust == (CHOOSE t \in pending : TRUE).direction
           reached == w.form = "body" /\ w.stun = 0 /\ \E t \in pending : t.gen = w.gen
<1>4. world' = IF reached THEN [w EXCEPT !.force = thrust] ELSE w
  BY <1>3
<1>5. /\ gen \in Generations
      /\ world.form = "none" => \A t \in pending : t.gen # gen
  BY <1>1, FreshGenerationFacts DEF BTypes, WorldState
<1> HIDE DEF gen
<1>6. /\ w \in WorldState /\ (~ seated => w = world)
      /\ seated => /\ w.form = "body" /\ w.force = 0 /\ w.gen = gen /\ w.stun = world.stun
                   /\ w.running = world.running /\ w.run = world.run
  BY <1>1, <1>5 DEF BTypes, WorldState, Directions
<1> HIDE DEF w
<1>7. ASSUME seated PROVE \A t \in pending : t.gen # w.gen
  <2>1. CASE world.form = "none"
    BY <1>5, <1>6, <1>7, <2>1
  <2>2. CASE world.form = "unbodied" /\ world.timer = 0
    BY <1>1, <2>2 DEF Late
  <2> QED BY <1>3, <1>7, <2>1, <2>2
<1>8. pending # {} => thrust \in Directions
  BY <1>1 DEF BTypes, Thrust
<1> HIDE DEF thrust
<1>9. /\ world' \in WorldState
      /\ world'.form = w.form /\ world'.gen = w.gen /\ world'.stun = w.stun /\ world'.timer = w.timer
      /\ world'.running = w.running /\ world'.run = w.run
      /\ world'.force = IF reached THEN thrust ELSE w.force
  <2>1. CASE reached
    BY <1>4, <1>6, <1>8, <2>1 DEF WorldState
  <2>2. CASE ~ reached
    BY <1>4, <1>6, <2>2
  <2> QED BY <2>1, <2>2
<1>10. BTypes'
  BY <1>1, <1>2, <1>9 DEF BTypes
<1>11. Published'
  <2>1. CASE seated
    <3>1. seen.form # "body" /\ ~ reached
      BY <1>2, <1>3, <1>7, <2>1 DEF View
    <3>2. world'.force = 0
      BY <1>6, <1>9, <2>1, <3>1
    <3> QED BY <1>2, <3>1, <3>2 DEF Published
  <2>2. CASE ~ seated
    <3>1. seen' = View(world)'
      BY <1>2, <1>6, <1>9, <2>2 DEF View
    <3>2. seen.form = world.form
      BY <1>2 DEF View
    <3>3. seen.form # "body" => world'.form # "body"
      BY <1>6, <1>9, <2>2, <3>2
    <3> QED BY <1>2, <3>1, <3>3 DEF Published
  <2> QED BY <2>1, <2>2
<1>12. Late' /\ Holding(bot)'
  BY <1>1, <1>2 DEF Late, Holding
<1>13. Subdued'
  <2>1. CASE seated
    <3>1. world.stun = 0
      BY <1>1, <1>3, <2>1 DEF Subdued
    <3> QED BY <1>6, <1>9, <2>1, <3>1 DEF Subdued
  <2>2. CASE ~ seated
    BY <1>1, <1>2, <1>6, <1>9, <2>2 DEF Subdued, BTypes, WorldState
  <2> QED BY <2>1, <2>2
<1>14. Driven'
  <2>1. Steered' = world'.force
    BY <1>2 DEF Steered
  <2>2. CASE seated
    BY <1>6, <1>7, <1>9, <2>1, <2>2 DEF Driven
  <2>3. CASE ~ seated
    <3>1. ASSUME world'.form = "body", world'.stun = 0 PROVE world'.force = Steered
      BY <1>6, <1>9, <2>3, <3>1 DEF Steered, thrust
    <3> QED BY <1>1, <1>2, <1>6, <1>9, <2>1, <2>3, <3>1 DEF Driven
  <2> QED BY <2>2, <2>3
<1> QED BY <1>10, <1>11, <1>12, <1>13, <1>14

\* A window only closes.
LEMMA PassedType ==
    ASSUME NEW n \in Nat
    PROVE  Passed(n) \in Nat /\ Passed(n) <= n
BY DEF Passed

\* What a tick makes of the body: it goes on as it was, is stunned, is lost, or
\* is gone.
LEMMA OutcomeFacts ==
    ASSUME BTypes, NEW w \in Outcomes
    PROVE  /\ w \in WorldState
           /\ \/ /\ w.form = world.form /\ w.gen = world.gen /\ w.force = world.force
                 /\ w.stun = Passed(world.stun)
              \/ /\ world.form = "body" /\ w.form = "body" /\ w.stun > 0 /\ w.force = 0
                 /\ w.gen = FreshGeneration
              \/ world.form = "body" /\ w.form = "unbodied" /\ w.timer > 0 /\ w.stun = 0
              \/ w.form = "none" /\ w.stun = 0
<1> DEFINE on == [world EXCEPT !.stun = Passed(@), !.timer = Passed(@)]
           stunned == [on EXCEPT !.stun = StunTicks, !.force = 0, !.gen = FreshGeneration]
           lost == [on EXCEPT !.form = "unbodied", !.timer = BotRespawnDelay, !.stun = 0]
           gone == [on EXCEPT !.form = "none", !.stun = 0, !.force = 0]
           over == [on EXCEPT !.running = FALSE]
           reset == [on EXCEPT !.running = FALSE, !.form = "none", !.stun = 0, !.timer = 0, !.force = 0]
           begun == [on EXCEPT !.running = TRUE, !.run = FreshRun]
<1>1. /\ w \in {on, stunned, lost, gone, over, reset, begun}
      /\ w \in {stunned, lost, gone} => w \in {on, over, reset, begun} \/ world.form = "body"
  <2>1. on.form = world.form
    BY DEF BTypes, WorldState
  <2> HIDE DEF on
  <2> QED BY <2>1 DEF Outcomes, on
<1>2. /\ on \in WorldState /\ on.form = world.form /\ on.gen = world.gen /\ on.force = world.force
      /\ on.stun = Passed(world.stun)
  <2>1. world \in WorldState /\ world.stun \in Nat /\ world.timer \in Nat
    BY DEF BTypes, WorldState
  <2>2. Passed(world.stun) \in Nat /\ Passed(world.timer) \in Nat
    BY <2>1, PassedType
  <2> QED BY <2>1, <2>2 DEF WorldState
<1> HIDE DEF on
<1>3. /\ FreshGeneration \in Generations /\ FreshRun \in Runs
      /\ StunTicks \in Nat /\ StunTicks > 0 /\ BotRespawnDelay \in Nat /\ BotRespawnDelay > 0
  BY FreshGenerationFacts, FreshRunFacts, BotsAssumption DEF BTypes
<1>4. /\ stunned \in WorldState /\ stunned.form = world.form /\ stunned.stun > 0 /\ stunned.force = 0
      /\ stunned.gen = FreshGeneration
  BY <1>2, <1>3 DEF WorldState, Directions
<1>5. lost \in WorldState /\ lost.form = "unbodied" /\ lost.timer > 0 /\ lost.stun = 0
  BY <1>2, <1>3 DEF WorldState
<1>6. gone \in WorldState /\ gone.form = "none" /\ gone.stun = 0
  BY <1>2 DEF WorldState, Directions
<1>7. reset \in WorldState /\ reset.form = "none" /\ reset.stun = 0
  BY <1>2 DEF WorldState, Directions
<1>8. /\ over \in WorldState /\ over.form = world.form /\ over.gen = world.gen /\ over.force = world.force
      /\ over.stun = Passed(world.stun)
  BY <1>2 DEF WorldState
<1>9. /\ begun \in WorldState /\ begun.form = world.form /\ begun.gen = world.gen /\ begun.force = world.force
      /\ begun.stun = Passed(world.stun)
  BY <1>2, <1>3 DEF WorldState
<1> HIDE DEF stunned, lost, gone, over, reset, begun
<1> QED BY <1>1, <1>2, <1>4, <1>5, <1>6, <1>7, <1>8, <1>9

\* Whatever a tick makes of the body, publishing it preserves the invariant.
LEMMA PublishTickInv ==
    ASSUME BInv, PublishTick
    PROVE  BInv'
<1> SUFFICES ASSUME kind = "tactical"
             PROVE  (BTypes /\ Published /\ Late /\ Subdued /\ Holding(bot) /\ Driven)'
  BY DEF BInv, PublishTick
<1>1. BTypes /\ Published /\ Late /\ Subdued /\ Holding(bot) /\ Driven
  BY DEF BInv
<1>2. /\ ticking /\ ~ ticking' /\ ticking' \in BOOLEAN /\ pending' = pending
      /\ world' \in Outcomes /\ seen' = View(world')
      /\ bot' = [bot EXCEPT !.stale = FALSE, !.reaction = Remaining(@), !.lease.left = Passed(@), !.wait = Passed(@)]
  BY DEF PublishTick
<1>3. /\ world' \in WorldState
      /\ \/ /\ world'.form = world.form /\ world'.gen = world.gen /\ world'.force = world.force
            /\ world'.stun = Passed(world.stun)
         \/ /\ world.form = "body" /\ world'.form = "body" /\ world'.stun > 0 /\ world'.force = 0
            /\ world'.gen = FreshGeneration
         \/ world.form = "body" /\ world'.form = "unbodied" /\ world'.timer > 0 /\ world'.stun = 0
         \/ world'.form = "none" /\ world'.stun = 0
  BY <1>1, <1>2, OutcomeFacts
<1>4. seen.form = "body" => world.form = "body"
  BY <1>1 DEF Published, View
<1>5. world.stun \in Nat /\ world'.stun \in Nat /\ Passed(world.stun) <= world.stun
  BY <1>1, <1>3, PassedType DEF BTypes, WorldState
<1>6. /\ bot' \in BotState /\ bot'.held = bot.held
      /\ bot'.lease.key = bot.lease.key /\ (bot.lease = NoLease => bot'.lease = NoLease)
  <2>1. bot \in BotState
    BY <1>1 DEF BTypes
  <2>2. Remaining(bot.reaction) \in Nat \cup {None} /\ Passed(bot.wait) \in Nat /\ Passed(bot.lease.left) \in Nat
    BY <2>1, PassedType DEF BotState, Remaining
  <2>3. bot'.held = bot.held /\ bot'.lease = [bot.lease EXCEPT !.left = Passed(@)]
    BY <1>2, <2>1 DEF BotState
  <2>4. bot' \in BotState
    BY <1>2, <2>1, <2>2 DEF BotState
  <2>5. bot.lease \in [key : Keys, left : Nat]
    BY <2>1 DEF BotState
  <2>6. bot'.lease.key = bot.lease.key /\ bot'.lease = [key |-> bot.lease.key, left |-> Passed(bot.lease.left)]
    BY <2>3, <2>5
  <2>7. bot.lease = NoLease => bot'.lease = NoLease
    BY <2>6 DEF NoLease, Passed
  <2> QED BY <2>3, <2>4, <2>6, <2>7
<1>7. BTypes'
  BY <1>1, <1>2, <1>3, <1>6 DEF BTypes, View, WorldState
<1>8. Published'
  BY <1>2 DEF Published, View
<1>9. Late'
  <2>1. CASE seen.form = "body"
    BY <1>2, <1>3, <1>4, <2>1 DEF Late
  <2>2. CASE seen.form # "body"
    BY <1>1, <1>2, <2>2 DEF Published, Late
  <2> QED BY <2>1, <2>2
<1>10. \A t \in pending : t.gen # FreshGeneration
  BY <1>1, FreshGenerationFacts DEF BTypes
<1>11. Subdued'
  <2>1. CASE /\ world'.form = world.form /\ world'.gen = world.gen /\ world'.force = world.force
             /\ world'.stun = Passed(world.stun)
    <3>1. world'.stun > 0 => world.stun > 0
      BY <1>5, <2>1
    <3>2. world.stun = 0 => world'.stun = 0
      BY <1>5, <2>1
    <3> QED BY <1>1, <1>2, <2>1, <3>1, <3>2 DEF Subdued
  <2>2. CASE /\ world.form = "body" /\ world'.form = "body" /\ world'.stun > 0 /\ world'.force = 0
             /\ world'.gen = FreshGeneration
    BY <1>2, <1>10, <2>2 DEF Subdued
  <2>3. CASE world'.form # "body" /\ world'.stun = 0
    BY <2>3 DEF Subdued
  <2> QED BY <1>3, <2>1, <2>2, <2>3
<1>12. Holding(bot)'
  <2>1. CASE bot.lease = NoLease
    BY <1>1, <1>6, <2>1 DEF Holding
  <2>2. CASE bot.lease # NoLease
    <3>1. bot'.lease.key # NoLease.key
      BY <1>1, <1>6, <2>2 DEF Holding
    <3>2. bot'.lease # NoLease
      BY <3>1
    <3> QED BY <3>1, <3>2 DEF Holding
  <2> QED BY <2>1, <2>2
<1>13. Driven'
  <2> SUFFICES ASSUME world'.form = "body", world'.stun = 0 PROVE Steered' \in {0, bot.held}
    BY <1>6 DEF Driven
  <2>1. world.form = "body" /\ world'.gen = world.gen /\ world'.force = world.force /\ world'.stun = Passed(world.stun)
    BY <1>3
  <2>2. Steered' = Steered
    BY <1>2, <2>1 DEF Steered
  <2>3. CASE world.stun = 0
    BY <1>1, <2>1, <2>2, <2>3 DEF Driven
  <2>4. CASE world.stun > 0
    BY <1>1, <2>2, <2>4 DEF Subdued, Steered
  <2> QED BY <1>5, <2>3, <2>4
<1> QED BY <1>7, <1>8, <1>9, <1>11, <1>12, <1>13

---------------------------------------------------------------------------
(* Bots: a decision.                                                       *)

\* What every decision on a published body does about its thrust: it requests
\* a stop or what the bot holds now, or it requests nothing and either holds on
\* or had nothing to end.
Answers(d) ==
    /\ d.bot \in BotState /\ Holding(d.bot)
    /\ \/ d.thrust = {} /\ (commandable => d.bot.held = bot.held \/ bot.held \in {0, Idle})
       \/ commandable /\ \E x \in Directions : d.thrust = {x} /\ x \in {0, d.bot.held}

\* A profile's windows are numbers of ticks.
LEMMA ProfileFacts == Profile.reaction \in Nat /\ Profile.persistence \in Nat
<1> DEFINE r == Profile.reaction
           p == Profile.persistence
<1>1. r \in 0 .. 4000 /\ p \in 0 .. 4000
  BY ObjectivesAssumption DEF profile_accepted
<1> HIDE DEF r, p
<1>2. r \in Nat /\ p \in Nat
  BY <1>1
<1> QED BY <1>2 DEF r, p

\* Seeing a body changes nothing of what the bot holds.
LEMMA ObservedFacts ==
    ASSUME bot \in BotState, Holding(bot)
    PROVE  /\ observed(bot) \in BotState /\ Holding(observed(bot))
           /\ observed(bot).held = bot.held
<1>1. observed(bot) \in BotState /\ observed(bot).held = bot.held /\ observed(bot).lease = bot.lease
  BY DEF observed, BotState
<1> QED BY <1>1 DEF Holding

\* Nothing is held and nothing leased after work is cleared.
LEMMA ClearedFacts ==
    ASSUME NEW b \in BotState
    PROVE  /\ clear_work(b) \in BotState /\ Holding(clear_work(b))
           /\ clear_work(b).held = Idle /\ clear_work(b).lease = NoLease
<1>1. None \in Nat \cup {None} /\ NoLease \in [key : Keys, left : Nat] /\ Idle \in Directions \cup {Idle}
  BY DEF NoLease, Keys
<1>2. /\ clear_work(b) \in BotState
      /\ clear_work(b).held = Idle /\ clear_work(b).lease = NoLease
  BY <1>1 DEF clear_work, BotState
<1> QED BY <1>2 DEF Holding

\* Without a fit body the bot holds nothing, and stops one that can be driven.
LEMMA UnfitAnswers ==
    ASSUME bot \in BotState, Holding(bot), seen.form = "body" => seen.gen \in Generations,
           seen.form \in {"none", "unbodied", "body"}, ~ fit,
           seen.form = "body" => seen.running \in BOOLEAN /\ seen.stunned \in BOOLEAN
    PROVE  Answers(unfit_decision(observed(bot)))
<1> DEFINE b == observed(bot)
           work == clear_work(b)
           cleared == [work EXCEPT !.body = None, !.stunned = FALSE]
           d == unfit_decision(b)
<1>1. b \in BotState
  BY ObservedFacts
<1> HIDE DEF b
<1>2. work \in BotState /\ work.held = Idle /\ work.lease = NoLease
  BY <1>1, ClearedFacts
<1>3. d = CASE seen.form = "none" -> request_body(cleared)
            [] seen.form = "unbodied" -> Decision(cleared, {}, "none")
            [] seen.form = "body" /\ ~ seen.running -> Decision(cleared, request_thrust(0), "none")
            [] OTHER -> Decision([cleared EXCEPT !.body = seen.gen, !.stunned = TRUE], {}, "none")
  BY DEF unfit_decision
<1> HIDE DEF work, d
<1>4. cleared \in BotState /\ cleared.held = Idle /\ cleared.lease = NoLease
  BY <1>2 DEF BotState
<1> HIDE DEF cleared
<1>5. ASSUME NEW c \in BotState, c.held = Idle, c.lease = NoLease PROVE Holding(c)
  BY <1>5 DEF Holding
<1>6. ASSUME seen.form = "none" PROVE Answers(d)
  <2>1. d = request_body(cleared)
    BY <1>3, <1>6
  <2>2. d.thrust = {} /\ ~ commandable
    BY <1>6, <2>1 DEF request_body, commandable
  <2>3. d.bot = cleared \/ d.bot = [cleared EXCEPT !.wait = RetryTicks]
    BY <2>1 DEF request_body
  <2>4. d.bot \in BotState /\ d.bot.held = Idle /\ d.bot.lease = NoLease
    BY <1>4, <2>3, BotsAssumption DEF BotState
  <2>5. Holding(d.bot)
    BY <1>5, <2>4
  <2> QED BY <2>2, <2>4, <2>5 DEF Answers
<1>7. ASSUME seen.form = "unbodied" PROVE Answers(d)
  <2>1. d.bot = cleared /\ d.thrust = {} /\ ~ commandable
    BY <1>3, <1>7 DEF Decision, commandable
  <2>2. Holding(d.bot) /\ d.bot \in BotState
    BY <1>4, <1>5, <2>1
  <2> QED BY <2>1, <2>2 DEF Answers
<1>8. ASSUME seen.form = "body" /\ ~ seen.running PROVE Answers(d)
  <2>1. d.bot = cleared /\ d.thrust = request_thrust(0)
    BY <1>3, <1>8 DEF Decision
  <2>2. (d.thrust = {} /\ ~ commandable) \/ (commandable /\ d.thrust = {0})
    BY <2>1 DEF request_thrust
  <2>3. 0 \in Directions
    BY DEF Directions
  <2>4. Holding(d.bot) /\ d.bot \in BotState
    BY <1>4, <1>5, <2>1
  <2> QED BY <2>2, <2>3, <2>4 DEF Answers
<1>9. ASSUME seen.form = "body" /\ seen.running PROVE Answers(d)
  <2>1. d = Decision([cleared EXCEPT !.body = seen.gen, !.stunned = TRUE], {}, "none")
    BY <1>3, <1>9
  <2>2. d.bot = [cleared EXCEPT !.body = seen.gen, !.stunned = TRUE] /\ d.thrust = {} /\ ~ commandable
    BY <1>9, <2>1 DEF Decision, commandable, fit
  <2>3. d.bot \in BotState /\ d.bot.held = Idle /\ d.bot.lease = NoLease
    BY <1>4, <1>9, <2>2 DEF BotState
  <2>4. Holding(d.bot)
    BY <1>5, <2>3
  <2> QED BY <2>2, <2>3, <2>4 DEF Answers
<1> QED BY <1>6, <1>7, <1>8, <1>9 DEF d, b

\* Another match, another body or a stun ends what was held; nothing else does.
LEMMA IdentifiedFacts ==
    ASSUME NEW b \in BotState, Holding(b), seen.gen \in Generations, seen.run \in Runs
    PROVE  /\ identified(b) \in BotState /\ Holding(identified(b))
           /\ identified(b).held = IF ChangedBody(b) THEN Idle ELSE b.held
<1> DEFINE c == IF ChangedBody(b) THEN clear_work(b) ELSE b
           r == IF c.reaction = None THEN Profile.reaction ELSE c.reaction
<1>1. /\ c \in BotState /\ Holding(c)
      /\ c.held = IF ChangedBody(b) THEN Idle ELSE b.held
  BY ClearedFacts
<1>2. identified(b) = [c EXCEPT !.seeded = seen.run, !.body = seen.gen, !.stunned = FALSE, !.reaction = r]
  <2>1. identified(b) = [c EXCEPT !.seeded = seen.run, !.body = seen.gen, !.stunned = FALSE,
                                  !.reaction = IF @ = None THEN Profile.reaction ELSE @]
    BY DEF identified
  <2> HIDE DEF c
  <2> QED BY <1>1, <2>1 DEF BotState
<1> HIDE DEF c
<1>3. r \in Nat \cup {None}
  BY <1>1, ProfileFacts DEF BotState
<1> HIDE DEF r
<1>4. /\ identified(b) \in BotState
      /\ identified(b).held = c.held /\ identified(b).lease = c.lease
  BY <1>1, <1>2, <1>3 DEF BotState
<1> QED BY <1>1, <1>4 DEF Holding

\* The lease selection leaves is one on a candidate.
LEMMA LeaseFacts ==
    ASSUME NEW o \in Scenes, NEW b \in BotState, Holding(b),
           collect_tactical_objective_candidates(o).candidates # {}
    PROVE  LET lease == LeaseAfter(b, collect_tactical_objective_candidates(o).candidates)
           IN  lease \in [key : Keys, left : Nat] /\ lease # NoLease /\ lease.key # NoLease.key
<1> DEFINE Found == collect_tactical_objective_candidates(o).candidates
           best == tactical_select_candidate(Found, b.lease.key)
           lease == LeaseAfter(b, Found)
<1>1. /\ IsFiniteSet(Found) /\ Found # {} /\ \A c \in Found : Measured(c)
      /\ \A c, d \in Found : c.key = d.key => c = d
  BY CandidateFacts
<1> HIDE DEF Found
<1>2. best \in Found
  BY <1>1, SelectionIsACandidate
<1> HIDE DEF best
<1>3. best.key \in {"hill", "zone", "race_gate", "race_recovery", "shove_setup"} \X Int
  BY <1>1, <1>2 DEF Measured
<1>4. best.key \in Keys /\ best.key # <<"none", 0>>
  <2>1. best.key[1] # "none"
    BY <1>3
  <2> QED BY <1>3, <2>1 DEF Keys
<1>5. Profile.persistence \in Nat
  BY ProfileFacts
<1>6. lease = IF b.lease # NoLease /\ b.lease.left > 0 THEN b.lease
              ELSE [key |-> best.key, left |-> Profile.persistence]
  BY DEF LeaseAfter, best
<1> HIDE DEF lease
<1>7. NoLease.key = <<"none", 0>>
  BY DEF NoLease
<1>8. ASSUME b.lease # NoLease /\ b.lease.left > 0
      PROVE  lease \in [key : Keys, left : Nat] /\ lease # NoLease /\ lease.key # NoLease.key
  <2>1. lease = b.lease /\ lease # NoLease
    BY <1>6, <1>8
  <2>2. b.lease \in [key : Keys, left : Nat]
    BY DEF BotState
  <2> QED BY <2>1, <2>2 DEF Holding
<1>9. ASSUME ~ (b.lease # NoLease /\ b.lease.left > 0)
      PROVE  lease \in [key : Keys, left : Nat] /\ lease # NoLease /\ lease.key # NoLease.key
  <2>1. lease = [key |-> best.key, left |-> Profile.persistence]
    BY <1>6, <1>9
  <2>2. lease \in [key : Keys, left : Nat] /\ lease.key = best.key
    BY <1>4, <1>5, <2>1
  <2>3. lease.key # NoLease.key
    BY <1>4, <1>7, <2>2
  <2>4. lease # NoLease
    BY <2>3
  <2> QED BY <2>2, <2>3, <2>4
<1>10. lease \in [key : Keys, left : Nat] /\ lease # NoLease /\ lease.key # NoLease.key
  BY <1>8, <1>9
<1> QED BY <1>10 DEF lease, Found

\* Steering is by a direction.
LEMMA SteeringFacts ==
    ASSUME NEW o, NEW c
    PROVE  steering(o, c) \subseteq Directions
<1>1. 0 \in Directions
  BY DEF Directions
<1>2. tactical_arrival_brake(o, c) \in Directions
  BY <1>1, DirectionType DEF tactical_arrival_brake
<1>3. Direction(c.target - o.self) \in Directions
  BY DirectionType
<1> QED BY <1>1, <1>2, <1>3 DEF steering

\* With a fit body, every branch of the decision accounts for the thrust held before.
LEMMA TacticalAnswers ==
    ASSUME bot \in BotState, Holding(bot), fit, seen.gen \in Generations, seen.run \in Runs,
           NEW o \in Scenes, NEW d \in tactical(observed(bot), o)
    PROVE  Answers(d)
<1> DEFINE b == observed(bot)
           found == collect_tactical_objective_candidates(o)
           c == identified(b)
           lost == c.lease # NoLease /\ \A e \in found.candidates : e.key # c.lease.key
           kept == IF lost THEN [c EXCEPT !.lease = NoLease, !.held = Idle, !.reaction = Profile.reaction] ELSE c
           cancelled == lost \/ (ChangedBody(b) /\ b.held # Idle)
           again == IF c.lease # NoLease THEN Profile.reaction ELSE c.reaction
           waiting == [c EXCEPT !.lease = NoLease, !.held = Idle, !.reaction = again]
           finished == [c EXCEPT !.lease = NoLease, !.held = 0]
           idle == [kept EXCEPT !.held = Idle]
           Acts(e) == e \in act(kept, found.candidates, o)
<1>1. b \in BotState /\ Holding(b) /\ b.held = bot.held
  BY ObservedFacts
<1> HIDE DEF b
<1>2. /\ c \in BotState /\ Holding(c)
      /\ c.held = IF ChangedBody(b) THEN Idle ELSE b.held
  BY <1>1, IdentifiedFacts
<1>3. found.disposition \in {"ready", "waiting", "finished"}
  BY CandidateFacts
<1>4. \/ d = Decision(waiting, request_thrust(0), "none")
      \/ d = Decision(finished, request_thrust(0), "none")
      \/ found.candidates = {} /\ d = no_candidate(kept, cancelled)
      \/ d = Decision(kept, stop(cancelled), "none")
      \/ found.candidates # {} /\ Acts(d)
  <2>1. tactical(b, o) =
          CASE found.disposition = "waiting" ->
                 {Decision([c EXCEPT !.lease = NoLease, !.held = Idle,
                                     !.reaction = IF c.lease # NoLease THEN Profile.reaction ELSE @],
                           request_thrust(0), "none")}
            [] found.disposition = "finished" -> {Decision(finished, request_thrust(0), "none")}
            [] found.disposition = "ready" /\ found.candidates = {} -> {no_candidate(kept, cancelled)}
            [] found.disposition = "ready" /\ found.candidates # {} /\ kept.reaction > 0 ->
                 {Decision(kept, stop(cancelled), "none")}
            [] OTHER -> act(kept, found.candidates, o)
    BY DEF tactical
  <2> HIDE DEF found, kept, cancelled, finished
  <2>2. waiting = [c EXCEPT !.lease = NoLease, !.held = Idle,
                            !.reaction = IF c.lease # NoLease THEN Profile.reaction ELSE @]
    BY <1>2 DEF BotState
  <2> HIDE DEF c, waiting
  <2>3. d \in tactical(b, o)
    BY DEF b
  <2> QED BY <1>3, <2>1, <2>2, <2>3
<1> HIDE DEF c, found, Acts
<1>5. commandable
  BY DEF fit, commandable
<1>6. request_thrust(0) = {0} /\ 0 \in Directions
  BY <1>5 DEF request_thrust, Directions
<1>7. NoLease \in [key : Keys, left : Nat] /\ Profile.reaction \in Nat
  BY ProfileFacts DEF NoLease, Keys
<1>8. again \in Nat \cup {None}
  BY <1>2, <1>7 DEF BotState
<1> HIDE DEF again
<1>9. ASSUME NEW e, d.bot = e, e \in BotState, e.lease = NoLease, e.held \in {0, Idle}, d.thrust = {0}
      PROVE  Answers(d)
  <2>1. Holding(e)
    BY <1>9 DEF Holding
  <2> QED BY <1>5, <1>6, <1>9, <2>1 DEF Answers
<1>10. ASSUME d = Decision(waiting, request_thrust(0), "none") PROVE Answers(d)
  <2>1. waiting \in BotState /\ waiting.lease = NoLease /\ waiting.held = Idle
    BY <1>2, <1>7, <1>8 DEF BotState
  <2> HIDE DEF waiting
  <2>2. d.bot = waiting /\ d.thrust = {0}
    BY <1>6, <1>10 DEF Decision
  <2> QED BY <1>9, <2>1, <2>2
<1>11. ASSUME d = Decision(finished, request_thrust(0), "none") PROVE Answers(d)
  <2>1. finished \in BotState /\ finished.lease = NoLease /\ finished.held = 0
    BY <1>2, <1>6, <1>7 DEF BotState
  <2> HIDE DEF finished
  <2>2. d.bot = finished /\ d.thrust = {0}
    BY <1>6, <1>11 DEF Decision
  <2> QED BY <1>9, <2>1, <2>2
<1>12. /\ kept \in BotState /\ Holding(kept)
       /\ kept.held = IF lost THEN Idle ELSE c.held
       /\ kept.lease = IF lost THEN NoLease ELSE c.lease
  <2>1. CASE lost
    <3>1. kept = [c EXCEPT !.lease = NoLease, !.held = Idle, !.reaction = Profile.reaction]
      BY <2>1
    <3> HIDE DEF lost, kept
    <3>2. kept \in BotState /\ kept.held = Idle /\ kept.lease = NoLease
      BY <1>2, <1>7, <3>1 DEF BotState
    <3> QED BY <2>1, <3>2 DEF Holding
  <2>2. CASE ~ lost
    BY <1>2, <2>2
  <2> QED BY <2>1, <2>2
<1>13. stop(cancelled) = IF cancelled THEN {0} ELSE {}
  BY <1>6 DEF stop
<1>14. ~ cancelled => ~ lost /\ (ChangedBody(b) => b.held = Idle)
  OBVIOUS
<1>15. lost => cancelled
  OBVIOUS
<1>16. found.candidates = {} /\ ~ lost => c.lease = NoLease
  OBVIOUS
<1> HIDE DEF lost, kept, cancelled
<1>17. ASSUME found.candidates = {}, d = no_candidate(kept, cancelled) PROVE Answers(d)
  <2>1. d.bot = idle /\ d.thrust = IF cancelled THEN {0} ELSE {}
    BY <1>13, <1>17 DEF no_candidate, Decision
  <2>2. idle \in BotState /\ idle.held = Idle /\ idle.lease = kept.lease
    BY <1>12 DEF BotState
  <2>3. kept.lease = NoLease
    BY <1>12, <1>16, <1>17
  <2> HIDE DEF idle
  <2>4. CASE cancelled
    BY <1>9, <2>1, <2>2, <2>3, <2>4
  <2>5. CASE ~ cancelled
    <3>1. c.held \in {0, Idle}
      BY <1>2, <1>14, <1>16, <1>17, <2>5 DEF Holding
    <3>2. bot.held \in {0, Idle}
      BY <1>1, <1>2, <1>14, <2>5, <3>1
    <3>3. Holding(idle)
      BY <2>2, <2>3 DEF Holding
    <3> QED BY <2>1, <2>2, <2>5, <3>2, <3>3 DEF Answers
  <2> QED BY <2>4, <2>5
<1>18. ASSUME d = Decision(kept, stop(cancelled), "none") PROVE Answers(d)
  <2>1. d.bot = kept /\ d.thrust = IF cancelled THEN {0} ELSE {}
    BY <1>13, <1>18 DEF Decision
  <2>2. CASE cancelled /\ lost
    BY <1>9, <1>12, <2>1, <2>2
  <2>3. CASE cancelled /\ ~ lost
    <3>1. kept.held = Idle
      BY <1>2, <1>12, <2>3 DEF cancelled
    <3>2. d.thrust = {0} /\ 0 \in {0, d.bot.held}
      BY <2>1, <2>3
    <3> QED BY <1>5, <1>6, <1>12, <2>1, <3>2 DEF Answers
  <2>4. CASE ~ cancelled
    <3>1. kept.held = bot.held
      BY <1>1, <1>2, <1>12, <1>14, <2>4
    <3> QED BY <1>12, <2>1, <2>4, <3>1 DEF Answers
  <2> QED BY <2>2, <2>3, <2>4
<1>19. ASSUME found.candidates # {}, Acts(d) PROVE Answers(d)
  <2> DEFINE lease == LeaseAfter(kept, found.candidates)
             selected == CHOOSE e \in found.candidates : e.key = lease.key
             acting == [kept EXCEPT !.reaction = Profile.reaction, !.lease = lease]
  <2>1. PICK x \in steering(o, selected) :
          d = Decision([acting EXCEPT !.held = x], request_thrust(x), request_ability(o, selected))
    BY <1>19 DEF Acts, act
  <2>2. x \in Directions
    BY <2>1, SteeringFacts
  <2>3. lease \in [key : Keys, left : Nat] /\ lease # NoLease /\ lease.key # NoLease.key
    BY <1>12, <1>19, LeaseFacts DEF found
  <2> HIDE DEF lease, selected
  <2>4. d.bot = [acting EXCEPT !.held = x] /\ d.thrust = {x}
    BY <1>5, <2>1 DEF Decision, request_thrust
  <2>5. acting \in BotState /\ acting.lease = lease
    BY <1>7, <1>12, <2>3 DEF BotState
  <2> HIDE DEF acting
  <2>6. d.bot \in BotState /\ d.bot.held = x /\ d.bot.lease = lease
    BY <2>2, <2>4, <2>5 DEF BotState
  <2>7. Holding(d.bot)
    BY <2>3, <2>6 DEF Holding
  <2> QED BY <1>5, <2>2, <2>4, <2>6, <2>7 DEF Answers
<1> QED BY <1>4, <1>10, <1>11, <1>17, <1>18, <1>19

\* A decision, on however old a snapshot, preserves the invariant.
LEMMA DecideInv ==
    ASSUME BInv, decide_once
    PROVE  BInv'
<1> SUFFICES ASSUME kind = "tactical"
             PROVE  (BTypes /\ Published /\ Late /\ Subdued /\ Holding(bot) /\ Driven)'
  BY DEF BInv, decide_once
<1>1. BTypes /\ Published /\ Late /\ Subdued /\ Holding(bot) /\ Driven
  BY DEF BInv
<1>2. PICK o \in Scenes : \E d \in decisions(o) :
        /\ bot' = [d.bot EXCEPT !.stale = TRUE]
        /\ pending' = IF d.thrust = {} THEN pending
                      ELSE {[direction |-> t, gen |-> seen.gen] : t \in d.thrust}
  BY DEF decide_once
<1>3. PICK d \in decisions(o) :
        /\ bot' = [d.bot EXCEPT !.stale = TRUE]
        /\ pending' = IF d.thrust = {} THEN pending
                      ELSE {[direction |-> t, gen |-> seen.gen] : t \in d.thrust}
  BY <1>2
<1>4. world' = world /\ seen' = seen /\ ticking' = ticking
  BY DEF decide_once
<1>5. bot \in BotState /\ world \in WorldState
  BY <1>1 DEF BTypes
<1>6. d \in IF fit THEN tactical(observed(bot), o) ELSE {unfit_decision(observed(bot))}
  BY <1>3 DEF decisions
<1>7. seen.form \in {"none", "unbodied", "body"}
  BY <1>1 DEF BTypes
<1>8. seen.form = "body" => /\ world.form = "body" /\ seen.gen = world.gen /\ seen.gen \in Generations
                            /\ seen.run \in Runs /\ seen.running \in BOOLEAN /\ seen.stunned \in BOOLEAN
                            /\ (seen.stunned <=> world.stun > 0)
  <2> SUFFICES ASSUME seen.form = "body"
               PROVE  /\ world.form = "body" /\ seen.gen = world.gen /\ seen.gen \in Generations
                      /\ seen.run \in Runs /\ seen.running \in BOOLEAN /\ seen.stunned \in BOOLEAN
                      /\ (seen.stunned <=> world.stun > 0)
    OBVIOUS
  <2> DEFINE stunned == world.stun > 0
  <2>1. seen = [form |-> world.form, gen |-> world.gen, stunned |-> stunned, running |-> world.running,
                run |-> world.run]
    BY <1>1 DEF Published, View
  <2>2. stunned \in BOOLEAN /\ world.gen \in Generations /\ world.run \in Runs /\ world.running \in BOOLEAN
    BY <1>5 DEF WorldState
  <2>3. stunned <=> world.stun > 0
    OBVIOUS
  <2> HIDE DEF stunned
  <2>4. seen.stunned = stunned
    BY <2>1
  <2>5. /\ world.form = "body" /\ seen.gen = world.gen /\ seen.run = world.run
        /\ seen.running = world.running
    BY <2>1
  <2> QED BY <2>2, <2>3, <2>4, <2>5, Zenon
<1>9. Answers(d)
  <2>1. CASE fit
    <3>1. seen.form = "body"
      BY <2>1 DEF fit
    <3> QED BY <1>1, <1>5, <1>6, <1>8, <2>1, <3>1, TacticalAnswers
  <2>2. CASE ~ fit
    BY <1>1, <1>5, <1>6, <1>7, <1>8, <2>2, UnfitAnswers
  <2> QED BY <2>1, <2>2
<1>10. /\ bot' \in BotState /\ Holding(bot)' /\ bot'.held = d.bot.held
  <2>1. d.bot \in BotState /\ Holding(d.bot)
    BY <1>9 DEF Answers
  <2>2. bot' \in BotState /\ bot'.held = d.bot.held /\ bot'.lease = d.bot.lease
    BY <1>3, <2>1 DEF BotState
  <2> QED BY <2>1, <2>2 DEF Holding
<1>11. commandable => seen.form = "body" /\ ~ seen.stunned /\ world.form = "body" /\ world.stun = 0
  BY <1>5, <1>8 DEF commandable, WorldState
<1>12. ASSUME d.thrust = {} PROVE (BTypes /\ Published /\ Late /\ Subdued /\ Driven)'
  <2>1. pending' = pending
    BY <1>3, <1>12
  <2>2. BTypes'
    BY <1>1, <1>4, <1>10, <2>1 DEF BTypes
  <2>3. Published' /\ Late' /\ Subdued'
    BY <1>1, <1>4, <2>1 DEF Published, Late, Subdued, View
  <2>4. Driven'
    <3> SUFFICES ASSUME world.form = "body", world.stun = 0 PROVE Steered' \in {0, bot'.held}
      BY <1>4 DEF Driven
    <3>1. Steered' = Steered
      BY <1>4, <2>1 DEF Steered
    <3>2. Steered \in {0, bot.held}
      BY <1>1 DEF Driven
    <3>3. CASE commandable
      <4>1. d.bot.held = bot.held \/ bot.held \in {0, Idle}
        BY <1>9, <1>12, <3>3 DEF Answers
      <4>2. Steered \in Directions
        BY <1>1 DEF Steered, BTypes, WorldState, Thrust
      <4>3. Idle \notin Directions
        BY DEF Idle, Directions
      <4> QED BY <1>10, <3>1, <3>2, <4>1, <4>2, <4>3
    <3>4. CASE ~ commandable
      <4>1. seen.form # "body"
        BY <1>8, <3>4 DEF commandable
      <4>2. ticking
        BY <1>1, <4>1 DEF Published, View
      <4>3. pending = {} /\ world.force = 0
        BY <1>1, <4>1, <4>2 DEF Published
      <4>4. Steered = 0
        BY <4>3 DEF Steered
      <4> QED BY <3>1, <4>4
    <3> QED BY <3>3, <3>4
  <2> QED BY <2>2, <2>3, <2>4
<1>13. ASSUME NEW x \in Directions, commandable, d.thrust = {x}, x \in {0, d.bot.held}
       PROVE  (BTypes /\ Published /\ Late /\ Subdued /\ Driven)'
  <2>1. pending' = {[direction |-> x, gen |-> world.gen]}
    BY <1>3, <1>8, <1>11, <1>13
  <2>2. world.gen \in Generations
    BY <1>5 DEF WorldState
  <2>3. BTypes'
    BY <1>1, <1>4, <1>10, <2>1, <2>2 DEF BTypes, Thrust
  <2>4. Published' /\ Late' /\ Subdued'
    BY <1>1, <1>4, <1>11, <1>13 DEF Published, Late, Subdued, View
  <2>5. Steered' = x
    <3> DEFINE t == [direction |-> x, gen |-> world.gen]
    <3>1. t.gen = world.gen /\ t.direction = x
      OBVIOUS
    <3>2. pending' = {t}
      BY <2>1
    <3> HIDE DEF t
    <3>3. (CHOOSE u \in pending' : TRUE) = t
      BY <3>2
    <3>4. Steered' = IF \E u \in pending' : u.gen = world'.gen THEN (CHOOSE u \in pending' : TRUE).direction
                     ELSE world'.force
      BY DEF Steered
    <3> QED BY <1>4, <3>1, <3>2, <3>3, <3>4
  <2>6. Driven'
    BY <1>10, <1>13, <2>5 DEF Driven
  <2> QED BY <2>3, <2>4, <2>6
<1>14. (BTypes /\ Published /\ Late /\ Subdued /\ Driven)'
  BY <1>9, <1>12, <1>13 DEF Answers
<1> QED BY <1>10, <1>14

\* So does a step of the others.
LEMMA BotsStutterInv ==
    ASSUME BInv, UNCHANGED botVars
    PROVE  BInv'
<1>1. /\ kind' = kind /\ bot' = bot /\ world' = world /\ seen' = seen /\ pending' = pending
      /\ ticking' = ticking
  BY DEF botVars
<1> QED BY <1>1 DEF BInv, BTypes, Published, Late, Subdued, Holding, Driven, Steered, View

\* The inductive invariant holds in every reachable state.
THEOREM BotsInvariant == BotsSpec => []BInv
<1>1. BInv /\ [BotsNext]_botVars => BInv'
  BY StartTickInv, PublishTickInv, DecideInv, BotsStutterInv DEF BotsNext
<1> QED BY <1>1, BotsInitInv, PTL DEF BotsSpec

\* No tactical bot's body is driven by a thrust the bot has given up, whatever
\* surrounds it and however its decisions and the ticks alternate
\* (tactical_controller.cpp).
THEOREM NoThrustRunsAway == BotsSpec => []NoRunawayThrust
<1>1. BInv => NoRunawayThrust
  BY DEF BInv, Driven, NoRunawayThrust
<1> QED BY <1>1, BotsInvariant, PTL
============================================================================
