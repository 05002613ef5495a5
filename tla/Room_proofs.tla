---------------------------- MODULE Room_proofs ----------------------------
(***************************************************************************)
(* Proofs about Room: who is registered, who has a command under way and   *)
(* who sits stay in accord, for any number of people, bots, seats and      *)
(* declarations, and what the reconciler takes for a refused join is one.  *)
(*                                                                         *)
(* The commands of a tick are folded over the world in their total order.  *)
(* IntakeSteps unfolds that fold: LastOf(S) is well defined because Before *)
(* is total (LastOfBatch), and a family of results over the subsets of the *)
(* batch exists by induction over their cardinality.  The library's        *)
(* induction takes an operator as a parameter; NatSets and SubsetInduction *)
(* state it for sets instead, from the well-foundedness of the naturals.   *)
(* IntakeSeats is what the invariant needs of it: whoever sits after a     *)
(* batch sat before or joined, and no leaver sits, since leaves are last.  *)
(*                                                                         *)
(* Inv has, for each controller, where its leave and its join are (Tidy)   *)
(* and how old the join of a bot can be (Waits); one lemma for each action *)
(* shows that it keeps Inv.                                                *)
(***************************************************************************)
EXTENDS Room, FiniteSetTheorems, WellFoundedInduction, TLAPS

\* Induction over the natural numbers, stated for a set of them.
LEMMA NatSets ==
    ASSUME NEW S, 0 \in S, \A n \in Nat : n \in S => n + 1 \in S
    PROVE  Nat \subseteq S
<1> DEFINE R == OpToRel(<, Nat)
           T == Nat \ S
<1>1. IsWellFoundedOn(R, Nat)
  BY NatLessThanWellFounded
<1>2. \A x, y \in Nat : x < y => <<x, y>> \in R
  BY SMT DEF OpToRel
<1> HIDE DEF R
<1>3. SUFFICES ASSUME T # {} PROVE FALSE
  OBVIOUS
<1>4. \E x \in T : \A y \in T : ~ (<<y, x>> \in R)
  <2>1. T \subseteq Nat
    OBVIOUS
  <2> HIDE DEF T
  <2> QED BY <1>1, <1>3, <2>1, WFMin
<1>5. PICK x \in T : \A y \in T : ~ (<<y, x>> \in R)
  BY <1>4
<1>6. x \in Nat \ {0}
  OBVIOUS
<1>7. x - 1 \in Nat /\ x - 1 < x /\ x = (x - 1) + 1
  BY <1>6
<1>8. x - 1 \in T
  BY <1>6, <1>7
<1>9. <<x - 1, x>> \in R
  BY <1>2, <1>6, <1>7
<1> QED BY <1>5, <1>8, <1>9

\* Induction over the subsets of a finite set, stated for a set of them: what
\* holds of a subset whenever it holds of those that are smaller.
LEMMA SubsetInduction ==
    ASSUME NEW C, IsFiniteSet(C), NEW Good,
           \A S \in SUBSET C : (\A x \in S : S \ {x} \in Good) => S \in Good
    PROVE  \A S \in SUBSET C : S \in Good
<1> DEFINE Ns == {n \in Nat : \A S \in SUBSET C : Cardinality(S) = n => S \in Good}
<1>1. \A S \in SUBSET C : IsFiniteSet(S) /\ Cardinality(S) \in Nat
  BY FS_Subset, FS_CardinalityType
<1>2. 0 \in Ns
  <2> SUFFICES ASSUME NEW S \in SUBSET C, Cardinality(S) = 0 PROVE S \in Good
    OBVIOUS
  <2>1. S = {}
    BY <1>1, FS_EmptySet
  <2> QED BY <2>1
<1>3. ASSUME NEW n \in Nat, n \in Ns PROVE n + 1 \in Ns
  <2> SUFFICES ASSUME NEW S \in SUBSET C, Cardinality(S) = n + 1 PROVE S \in Good
    OBVIOUS
  <2>1. ASSUME NEW x \in S PROVE S \ {x} \in Good
    <3>1. Cardinality(S \ {x}) = Cardinality(S) - 1
      BY <1>1, FS_RemoveElement
    <3>2. Cardinality(S \ {x}) = n
      BY <3>1
    <3> QED BY <1>3, <3>2
  <2> QED BY <2>1
<1> HIDE DEF Ns
<1>4. Nat \subseteq Ns
  BY <1>2, <1>3, NatSets
<1> USE DEF Ns
<1>5. ASSUME NEW S \in SUBSET C PROVE S \in Good
  BY <1>1, <1>4
<1> QED BY <1>5

\* The commands there are.
Commands == [kind : DOMAIN Rank, controller : Controllers, seat : Seats \cup {0},
             declaration : Declarations \cup {NoDeclaration}]
WellFormed(m) ==
    /\ m \in Commands
    /\ m.kind \in {"clear_seat", "seat_npc"} => m.seat \in Seats
    /\ m.kind = "seat_npc" => m.declaration \in Declarations

\* The ranks of the kinds of command (input_batch.cpp): a leave has the greatest.
LEMMA Ranks ==
    /\ DOMAIN Rank = {"clear_seat", "seat_npc", "start_match", "join", "leave"}
    /\ \A k \in DOMAIN Rank : Rank[k] \in 5 .. 9
    /\ \A k \in DOMAIN Rank : Rank[k] >= Rank["leave"] => k = "leave"
BY DEF Rank

\* Before is a total order of them.
LEMMA BeforeIsOrder ==
    ASSUME NEW l \in Commands, NEW m \in Commands, NEW n \in Commands
    PROVE  /\ Before(m, n) \/ Before(n, m)
           /\ Before(l, m) /\ Before(m, n) => Before(l, n)
<1>1. ASSUME NEW k \in Commands PROVE k.controller \in Nat /\ Rank[k.kind] \in Nat
  <2>1. k.controller \in Controllers /\ k.kind \in DOMAIN Rank
    BY DEF Commands
  <2>2. k.controller \in Nat
    BY <2>1, RoomAssumption
  <2>3. Rank[k.kind] \in Nat
    BY <2>1 DEF Rank
  <2> QED BY <2>2, <2>3
<1> QED BY <1>1 DEF Before

\* So a batch has a last command.
LEMMA LastOfBatch ==
    ASSUME NEW C, C \subseteq Commands, IsFiniteSet(C), NEW S \in SUBSET C, S # {}
    PROVE  LastOf(S) \in S /\ \A n \in S : Before(n, LastOf(S))
<1> DEFINE Good == {T \in SUBSET C : T # {} => \E m \in T : \A n \in T : Before(n, m)}
<1>1. ASSUME NEW T \in SUBSET C, \A x \in T : T \ {x} \in Good PROVE T \in Good
  <2> SUFFICES ASSUME NEW x \in T PROVE \E m \in T : \A n \in T : Before(n, m)
    OBVIOUS
  <2>1. x \in Commands /\ Before(x, x)
    BY BeforeIsOrder
  <2>2. CASE T \ {x} = {}
    BY <2>1, <2>2
  <2>3. CASE T \ {x} # {}
    <3>1. PICK m \in T \ {x} : \A n \in T \ {x} : Before(n, m)
      BY <1>1, <2>3
    <3>2. m \in Commands
      OBVIOUS
    <3>3. CASE Before(x, m)
      BY <3>1, <3>3
    <3>4. CASE Before(m, x)
      <4>1. ASSUME NEW n \in T PROVE Before(n, x)
        BY <2>1, <3>1, <3>2, <3>4, BeforeIsOrder
      <4> QED BY <4>1
    <3> QED BY <2>1, <3>2, <3>3, <3>4, BeforeIsOrder
  <2> QED BY <2>2, <2>3
<1> HIDE DEF Good
<1>2. S \in Good
  BY <1>1, SubsetInduction
<1>3. \E m \in S : \A n \in S : Before(n, m)
  BY <1>2 DEF Good
<1> QED BY <1>3 DEF LastOf

\* What the fold of the intake computes: command after command, in order.
Unfolds(after, w, C) ==
    /\ Intake(w, C) = after[C]
    /\ after[{}] = w
    /\ \A S \in SUBSET C : S # {} => after[S] = Apply(after[S \ {LastOf(S)}], LastOf(S))

\* The fold of the intake can be unfolded: there is a family that it computes.
LEMMA IntakeSteps ==
    ASSUME NEW w, NEW C, C \subseteq Commands, IsFiniteSet(C)
    PROVE  \E after : Unfolds(after, w, C)
<1> DEFINE Next1(f, S) == IF S = {} THEN w ELSE Apply(f[S \ {LastOf(S)}], LastOf(S))
           after == CHOOSE g : g = [S \in SUBSET C |-> IF S = {} THEN w ELSE Apply(g[S \ {LastOf(S)}], LastOf(S))]
           IsFamily(f) == f = [S \in SUBSET C |-> f[S]]
           Upto(f, n) == \A S \in SUBSET C : Cardinality(S) <= n => f[S] = Next1(f, S)
           Ns == {n \in Nat : \E f : IsFamily(f) /\ Upto(f, n)}
<1>1. \A S \in SUBSET C : IsFiniteSet(S) /\ Cardinality(S) \in Nat /\ (Cardinality(S) = 0 <=> S = {})
  BY FS_Subset, FS_CardinalityType, FS_EmptySet
<1>2. \A S \in SUBSET C : S # {} => /\ S \ {LastOf(S)} \in SUBSET C
                                   /\ Cardinality(S \ {LastOf(S)}) = Cardinality(S) - 1
  BY <1>1, LastOfBatch, FS_RemoveElement
<1>3. 0 \in Ns
  <2> DEFINE f == [S \in SUBSET C |-> w]
  <2>1. Upto(f, 0)
    BY <1>1
  <2>2. IsFamily(f)
    OBVIOUS
  <2> HIDE DEF f, Upto, IsFamily
  <2> QED BY <2>1, <2>2
<1>4. ASSUME NEW n \in Nat, n \in Ns PROVE n + 1 \in Ns
  <2>1. PICK f : IsFamily(f) /\ Upto(f, n)
    BY <1>4
  <2> DEFINE h == [S \in SUBSET C |-> Next1(f, S)]
  <2>2. ASSUME NEW S \in SUBSET C, Cardinality(S) <= n + 1 PROVE h[S] = Next1(h, S)
    <3>1. CASE S = {}
      BY <3>1
    <3>2. CASE S # {}
      <4> DEFINE T == S \ {LastOf(S)}
      <4>1. T \in SUBSET C /\ Cardinality(T) <= n
        BY <1>1, <1>2, <2>2, <3>2
      <4>2. f[T] = Next1(f, T)
        BY <2>1, <4>1
      <4>3. h[T] = f[T]
        BY <4>1, <4>2
      <4>4. h[S] = Next1(f, S)
        OBVIOUS
      <4> HIDE DEF h
      <4> QED BY <3>2, <4>3, <4>4
    <3> QED BY <3>1, <3>2
  <2>3. IsFamily(h) /\ Upto(h, n + 1)
    BY <2>2
  <2> HIDE DEF h, Upto, IsFamily
  <2> QED BY <2>3
<1>5. \E f : f = [S \in SUBSET C |-> Next1(f, S)]
  <2> DEFINE N == Cardinality(C)
  <2>1. N \in Nat /\ \A S \in SUBSET C : Cardinality(S) <= N
    BY FS_CardinalityType, FS_Subset
  <2> HIDE DEF Ns, N
  <2>2. N \in Ns
    BY <1>3, <1>4, <2>1, NatSets
  <2> USE DEF Ns
  <2>3. PICK f : IsFamily(f) /\ Upto(f, N)
    BY <2>2
  <2>4. \A S \in SUBSET C : f[S] = Next1(f, S)
    BY <2>1, <2>3
  <2>5. f = [S \in SUBSET C |-> f[S]]
    BY <2>3 DEF IsFamily
  <2> HIDE DEF Next1, Upto
  <2>6. f = [S \in SUBSET C |-> Next1(f, S)]
    BY <2>4, <2>5
  <2> QED BY <2>6
<1>6. after = [S \in SUBSET C |-> Next1(after, S)]
  <2>1. PICK f : f = [S \in SUBSET C |-> Next1(f, S)]
    BY <1>5
  <2>2. f = [S \in SUBSET C |-> IF S = {} THEN w ELSE Apply(f[S \ {LastOf(S)}], LastOf(S))]
    BY <2>1
  <2> QED BY Zenon, <2>2
<1>7. Intake(w, C) = after[C]
  BY Zenon DEF Intake
<1> HIDE DEF after
<1>8. after[{}] = w /\ \A S \in SUBSET C : S # {} => after[S] = Apply(after[S \ {LastOf(S)}], LastOf(S))
  BY <1>6
<1> QED BY <1>7, <1>8 DEF Unfolds

---------------------------------------------------------------------------
(* Who sits after the commands of a batch.                                 *)

SitsIn(w, c) == \E i \in Seats : w.seats[i].controller = c

\* A command leaves a world a world.
LEMMA ApplyTyped ==
    ASSUME NEW w \in Worlds, NEW m, WellFormed(m)
    PROVE  Apply(w, m) \in Worlds
<1>1. /\ w = [seats |-> w.seats, phase |-> w.phase, start |-> w.start]
      /\ w.seats \in [Seats -> SeatValues] /\ w.phase \in {"lobby", "countdown", "running"} /\ w.start \in BOOLEAN
  BY DEF Worlds
<1>2. \A d \in Declarations \cup {NoDeclaration}, c \in Controllers \cup {Nobody} : Seat(d, c) \in SeatValues
  BY DEF SeatValues
<1>3. \A s \in SeatValues : s.declaration \in Declarations \cup {NoDeclaration} /\ s.controller \in Controllers \cup {Nobody}
  BY DEF SeatValues, Seat
<1>4. m.controller \in Controllers /\ m.declaration \in Declarations \cup {NoDeclaration}
  BY DEF WellFormed, Commands
<1>5. ASSUME NEW ss \in [Seats -> SeatValues] PROVE [w EXCEPT !.seats = ss] \in Worlds
  BY <1>1 DEF Worlds
<1>6. ASSUME NEW i \in Seats, NEW s \in SeatValues PROVE [w EXCEPT !.seats[i] = s] \in Worlds
  BY <1>1 DEF Worlds
<1>7. CASE m.kind = "clear_seat"
  <2>1. EmptySeat \in SeatValues
    BY <1>2 DEF EmptySeat
  <2> QED BY <1>6, <1>7, <2>1 DEF Apply, WellFormed
<1>8. CASE m.kind = "seat_npc"
  <2>1. Seat(m.declaration, Nobody) \in SeatValues
    BY <1>2, <1>4
  <2> QED BY <1>6, <1>8, <2>1 DEF Apply, WellFormed
<1>9. CASE m.kind = "start_match"
  <2>1. Apply(w, m) = [w EXCEPT !.start = @ \/ w.phase = "lobby"]
    BY <1>9 DEF Apply
  <2> QED BY <1>1, <2>1 DEF Worlds
<1>10. CASE m.kind = "join"
  <2> DEFINE ss == [i \in Seats |-> IF i \in JoinSeats(w, m) THEN Seat(m.declaration, m.controller) ELSE w.seats[i]]
  <2>1. Apply(w, m) = [w EXCEPT !.seats = ss]
    BY <1>10 DEF Apply
  <2>2. ss \in [Seats -> SeatValues]
    BY <1>1, <1>2, <1>4
  <2> HIDE DEF ss
  <2> QED BY <1>5, <2>1, <2>2
<1>11. CASE m.kind = "leave"
  <2> DEFINE ss == [i \in Seats |-> IF w.seats[i].controller = m.controller
                                    THEN [w.seats[i] EXCEPT !.controller = Nobody] ELSE w.seats[i]]
  <2>1. Apply(w, m) = [w EXCEPT !.seats = ss]
    BY <1>11 DEF Apply
  <2>2. \A s \in SeatValues : [s EXCEPT !.controller = Nobody] = Seat(s.declaration, Nobody)
    BY DEF SeatValues, Seat
  <2>3. \A s \in SeatValues : [s EXCEPT !.controller = Nobody] \in SeatValues
    BY <1>2, <1>3, <2>2
  <2>4. ss \in [Seats -> SeatValues]
    BY <1>1, <2>3
  <2> HIDE DEF ss
  <2> QED BY <1>5, <2>1, <2>4
<1> QED BY <1>7, <1>8, <1>9, <1>10, <1>11, Ranks DEF WellFormed, Commands

\* Only a join seats a controller that did not sit, and a leave unseats its own.
LEMMA ApplySeats ==
    ASSUME NEW w \in Worlds, NEW m, WellFormed(m), NEW c \in Controllers, SitsIn(Apply(w, m), c)
    PROVE  /\ SitsIn(w, c) \/ (m.kind = "join" /\ m.controller = c)
           /\ ~ (m.kind = "leave" /\ m.controller = c)
<1>1. /\ w = [seats |-> w.seats, phase |-> w.phase, start |-> w.start]
      /\ w.seats \in [Seats -> SeatValues]
  BY DEF Worlds
<1>2. \A d, k : Seat(d, k).controller = k
  BY DEF Seat
<1>3. c # Nobody
  BY RoomAssumption DEF Nobody
<1>4. PICK i \in Seats : Apply(w, m).seats[i].controller = c
  BY DEF SitsIn
<1>5. CASE m.kind = "clear_seat"
  <2>1. Apply(w, m) = w \/ Apply(w, m) = [w EXCEPT !.seats[m.seat] = EmptySeat]
    BY <1>5 DEF Apply
  <2>2. EmptySeat.controller # c
    BY <1>2, <1>3 DEF EmptySeat
  <2>3. w.seats[i].controller = c
    BY <1>1, <1>4, <2>1, <2>2
  <2> QED BY <1>5, <2>3 DEF SitsIn
<1>6. CASE m.kind = "seat_npc"
  <2>1. Apply(w, m) = w \/ Apply(w, m) = [w EXCEPT !.seats[m.seat] = Seat(m.declaration, Nobody)]
    BY <1>6 DEF Apply
  <2>2. Seat(m.declaration, Nobody).controller # c
    BY <1>2, <1>3
  <2>3. w.seats[i].controller = c
    BY <1>1, <1>4, <2>1, <2>2
  <2> QED BY <1>6, <2>3 DEF SitsIn
<1>7. CASE m.kind = "start_match"
  <2>1. Apply(w, m) = [w EXCEPT !.start = @ \/ w.phase = "lobby"]
    BY <1>7 DEF Apply
  <2>2. w.seats[i].controller = c
    BY <1>1, <1>4, <2>1
  <2> QED BY <1>7, <2>2 DEF SitsIn
<1>8. CASE m.kind = "join"
  <2> DEFINE ss == [j \in Seats |-> IF j \in JoinSeats(w, m) THEN Seat(m.declaration, m.controller) ELSE w.seats[j]]
  <2>1. Apply(w, m) = [w EXCEPT !.seats = ss]
    BY <1>8 DEF Apply
  <2>2. ss[i].controller = c
    BY <1>1, <1>4, <2>1
  <2>3. m.controller = c \/ w.seats[i].controller = c
    BY <1>2, <2>2
  <2> QED BY <1>8, <2>3 DEF SitsIn
<1>9. CASE m.kind = "leave"
  <2> DEFINE ss == [j \in Seats |-> IF w.seats[j].controller = m.controller
                                    THEN [w.seats[j] EXCEPT !.controller = Nobody] ELSE w.seats[j]]
  <2>1. Apply(w, m) = [w EXCEPT !.seats = ss]
    BY <1>9 DEF Apply
  <2>2. ss[i].controller = c
    BY <1>1, <1>4, <2>1
  <2>3. \A s \in SeatValues : [s EXCEPT !.controller = Nobody].controller = Nobody
    BY DEF SeatValues, Seat
  <2>4. w.seats[i].controller # m.controller /\ w.seats[i].controller = c
    BY <1>1, <1>3, <2>2, <2>3
  <2> QED BY <1>9, <2>4 DEF SitsIn
<1> QED BY <1>5, <1>6, <1>7, <1>8, <1>9, Ranks DEF WellFormed, Commands

\* After the batch whoever sits sat before or joined, and a leaver is gone:
\* leaves come last.
LEMMA IntakeSeats ==
    ASSUME NEW w \in Worlds, NEW C, IsFiniteSet(C), \A m \in C : WellFormed(m)
    PROVE  /\ Intake(w, C) \in Worlds
           /\ \A c \in Controllers : SitsIn(Intake(w, C), c) =>
                 /\ SitsIn(w, c) \/ \E m \in C : m.kind = "join" /\ m.controller = c
                 /\ ~ \E m \in C : m.kind = "leave" /\ m.controller = c
<1>1. C \subseteq Commands
  BY DEF WellFormed
<1>0. PICK after : Unfolds(after, w, C)
  BY <1>1, IntakeSteps
<1>2. /\ Intake(w, C) = after[C]
      /\ after[{}] = w
      /\ \A S \in SUBSET C : S # {} => after[S] = Apply(after[S \ {LastOf(S)}], LastOf(S))
  BY <1>0 DEF Unfolds
<1> DEFINE Right(v, S) ==
              /\ v \in Worlds
              /\ \A c \in Controllers : SitsIn(v, c) =>
                    /\ SitsIn(w, c) \/ \E m \in S : m.kind = "join" /\ m.controller = c
                    /\ ~ \E m \in S : m.kind = "leave" /\ m.controller = c
           Good == {S \in SUBSET C : Right(after[S], S)}
<1>3. ASSUME NEW S \in SUBSET C, \A x \in S : S \ {x} \in Good PROVE S \in Good
  <2>1. CASE S = {}
    BY <1>2, <2>1
  <2>2. CASE S # {}
    <3> DEFINE l == LastOf(S)
               v == after[S \ {l}]
    <3>1. l \in S /\ \A n \in S : Before(n, l)
      BY <1>1, <2>2, LastOfBatch
    <3>2. WellFormed(l) /\ after[S] = Apply(v, l) /\ Right(v, S \ {l})
      BY <1>2, <1>3, <2>2, <3>1
    <3>3. \A n \in S : n.kind = "leave" => l.kind = "leave"
      <4> SUFFICES ASSUME NEW n \in S, n.kind = "leave" PROVE l.kind = "leave"
        OBVIOUS
      <4>1. Rank[n.kind] <= Rank[l.kind] /\ l.kind \in DOMAIN Rank
        <5>1. l \in Commands /\ n \in Commands
          BY <1>1, <3>1
        <5>2. n.kind \in DOMAIN Rank /\ l.kind \in DOMAIN Rank
          BY <5>1 DEF Commands
        <5>3. Rank[n.kind] \in Nat /\ Rank[l.kind] \in Nat
          BY <5>2 DEF Rank
        <5>4. Before(n, l)
          BY <3>1
        <5> HIDE DEF l
        <5> QED BY <5>2, <5>3, <5>4 DEF Before
      <4> HIDE DEF l
      <4> QED BY <4>1 DEF Rank
    <3>4. ASSUME NEW c \in Controllers, SitsIn(Apply(v, l), c)
          PROVE  /\ SitsIn(w, c) \/ \E m \in S : m.kind = "join" /\ m.controller = c
                 /\ ~ \E m \in S : m.kind = "leave" /\ m.controller = c
      <4>1. /\ SitsIn(v, c) \/ (l.kind = "join" /\ l.controller = c)
            /\ ~ (l.kind = "leave" /\ l.controller = c)
        BY <3>2, <3>4, ApplySeats
      <4>2. SitsIn(v, c) => /\ SitsIn(w, c) \/ \E m \in S \ {l} : m.kind = "join" /\ m.controller = c
                            /\ ~ \E m \in S \ {l} : m.kind = "leave" /\ m.controller = c
        BY <3>2
      <4> HIDE DEF v, l
      <4> QED BY <3>1, <3>3, <4>1, <4>2
    <3>5. Apply(v, l) \in Worlds
      BY <3>2, ApplyTyped
    <3> HIDE DEF v, l
    <3> QED BY <3>2, <3>4, <3>5
  <2> QED BY <2>1, <2>2
<1> HIDE DEF Good
<1>4. C \in Good
  <2>1. \A S \in SUBSET C : S \in Good
    BY <1>3, SubsetInduction
  <2> QED BY <2>1
<1> QED BY <1>2, <1>4 DEF Good

---------------------------------------------------------------------------
(* The inductive invariant.                                                *)

HasLeave(S, c) == \E m \in S : m.kind = "leave" /\ m.controller = c
HasJoin(S, c) == \E m \in S : m.kind = "join" /\ m.controller = c

Bots == [seat : Seats, declaration : Declarations, age : Seated .. AgeCap]
Passes == [on : BOOLEAN, retire : SUBSET Controllers, create : SUBSET (Seats \X Declarations),
           lag : 0 .. MaxLag]

\* The types, and that the commands under way are finitely many.
RoomTyped ==
    /\ directory \subseteq Controllers /\ exchange \subseteq Controllers
    /\ stepping \in BOOLEAN /\ (~ stepping => batch = {})
    /\ IsFiniteSet(pending) /\ IsFiniteSet(batch)
    /\ \A m \in pending \cup batch : WellFormed(m)
    /\ world \in Worlds
    /\ people \in [People -> Controllers \cup {Nobody}]
    /\ host \subseteq Controllers
    /\ bots \in [Controllers -> Bots \cup {NoBot}]
    /\ failed \subseteq Seats \X Declarations
    /\ pass \in Passes

\* A controller is one person's or a bot's, and only bots are to be retired.
OneOwner ==
    /\ \A p, q \in People : people[p] = people[q] /\ people[p] # Nobody => p = q
    /\ \A p \in People : people[p] \notin Hosted
    /\ pass.retire \subseteq Hosted

\* Only who is gone has a leave under way; and whose join is under way, or who
\* sits, has an open session or a leave that is not applied before the join.
Tidy(c) ==
    /\ HasLeave(pending \cup batch, c) => c \notin exchange
    /\ HasJoin(pending, c) => c \in exchange \/ HasLeave(pending, c)
    /\ HasJoin(batch, c) \/ SitsIn(world, c) => c \in exchange \/ HasLeave(pending \cup batch, c)

\* A bot whose join is under way does not sit, and its join is not older than
\* the ticks since: one join per bot, drained by the tick after it at the latest.
Waits(c) ==
    /\ HasJoin(pending, c) => /\ bots[c].age # Seated /\ ~ SitsIn(world, c) /\ ~ HasJoin(batch, c)
                              /\ bots[c].age <= MaxLag + 1 /\ (stepping => bots[c].age <= MaxLag)
    /\ HasJoin(batch, c) => bots[c].age # Seated /\ ~ SitsIn(world, c) /\ bots[c].age <= MaxLag + 1

Inv ==
    /\ RoomTyped /\ RegistriesAgree /\ OneOwner
    /\ \A c \in Controllers : Tidy(c)
    /\ \A c \in Hosted : Waits(c)

\* The invariant says what the run checks.
LEMMA InvIsConsistent == Inv => RoomIsConsistent
<1> SUFFICES ASSUME Inv PROVE RoomIsConsistent
  OBVIOUS
<1>1. ASSUME NEW c \in Hosted PROVE bots[c].seat \in Seats /\ bots[c].age \in Seated .. AgeCap
  BY DEF Inv, RoomTyped, Hosted, Bots
<1>2. TypeOK
  BY <1>1 DEF Inv, RoomTyped, TypeOK
<1>3. ASSUME NEW c \in Controllers PROVE Unseated(c) \/ c \in exchange \/ InFlight(c, "leave")
  <2>1. Tidy(c)
    BY DEF Inv
  <2> QED BY <2>1 DEF Tidy, Unseated, SitsIn, InFlight, HasLeave
<1> QED BY <1>2, <1>3 DEF Inv, RoomIsConsistent, NoGhosts

\* Nor has a bot taken for refused a join under way, if the budget is long enough.
LEMMA InvMeansRefusal ==
    ASSUME MaxLag + 2 <= JoinBudget, Inv
    PROVE  RefusalsAreReal
<1> SUFFICES ASSUME NEW c \in Retired, same_declaration(bots[c].seat, bots[c].declaration), ~ abandoned,
                    InFlight(c, "join")
             PROVE  FALSE
  BY DEF RefusalsAreReal
<1>1. c \in Hosted /\ ~ Sits(c) /\ ~ join_in_flight(bots[c])
  BY DEF Retired
<1>2. bots[c].age \in Seated .. AgeCap /\ Waits(c)
  BY <1>1 DEF Inv, RoomTyped, Hosted, Bots
<1>3. HasJoin(pending, c) \/ HasJoin(batch, c)
  BY DEF InFlight, HasJoin
<1>4. MaxLag \in Nat /\ JoinBudget \in Nat /\ Seated = -1 /\ AgeCap \in Nat
  BY RoomAssumption DEF Seated, AgeCap
<1> QED BY <1>1, <1>2, <1>3, <1>4 DEF Waits, join_in_flight

\* It holds at first.
LEMMA InitInv == Init => Inv
<1> SUFFICES ASSUME Init PROVE Inv
  OBVIOUS
<1>1. MaxLag \in Nat /\ Nobody = 0 /\ 0 \notin Controllers
  BY RoomAssumption DEF Nobody
<1>2. Hosted = {} /\ Connected = {}
  BY DEF Init, Hosted, Connected
<1>3. world \in Worlds
  <2>1. EmptySeat \in SeatValues
    BY DEF EmptySeat, SeatValues, Seat
  <2> QED BY <2>1 DEF Init, Worlds
<1>4. RoomTyped
  <2>1. IsFiniteSet({})
    BY FS_EmptySet
  <2>2. NoPass \in Passes
    BY <1>1 DEF NoPass, Passes
  <2>3. people \in [People -> Controllers \cup {Nobody}] /\ bots \in [Controllers -> Bots \cup {NoBot}]
    BY DEF Init
  <2> QED BY <1>3, <2>1, <2>2, <2>3 DEF Init, RoomTyped
<1>5. RegistriesAgree
  BY <1>2 DEF Init, RegistriesAgree
<1>6. OneOwner
  BY <1>1, <1>2 DEF Init, OneOwner, NoPass
<1>7. ASSUME NEW c \in Controllers PROVE Tidy(c)
  BY <1>1 DEF Init, Tidy, HasLeave, HasJoin, SitsIn, EmptySeat, Seat
<1> QED BY <1>2, <1>4, <1>5, <1>6, <1>7 DEF Inv

---------------------------------------------------------------------------
(* The operations of the sink.                                             *)

\* A command is put into its slot.
LEMMA PutFacts ==
    ASSUME NEW S, NEW m
    PROVE  /\ m \in Put(S, m) /\ Put(S, m) \subseteq S \cup {m}
           /\ \A n \in S : n \in Put(S, m) \/ (n.kind = m.kind /\ n.controller = m.controller)
           /\ IsFiniteSet(S) => IsFiniteSet(Put(S, m))
<1>1. IsFiniteSet(S) => IsFiniteSet(S \cup {m})
  BY FS_AddElement
<1>2. Put(S, m) \subseteq S \cup {m}
  BY DEF Put
<1>3. IsFiniteSet(S) => IsFiniteSet(Put(S, m))
  BY <1>1, <1>2, FS_Subset
<1> QED BY <1>2, <1>3 DEF Put

\* What a controller has under way after that.
LEMMA PutSlots ==
    ASSUME NEW S, NEW m, NEW c
    PROVE  /\ HasLeave(Put(S, m), c) <=> HasLeave(S, c) \/ (m.kind = "leave" /\ m.controller = c)
           /\ HasJoin(Put(S, m), c) <=> HasJoin(S, c) \/ (m.kind = "join" /\ m.controller = c)
BY PutFacts DEF HasLeave, HasJoin

\* A leave is under way if it is pending or being applied.
LEMMA UnionSlots ==
    ASSUME NEW S, NEW T, NEW c
    PROVE  HasLeave(S \cup T, c) <=> HasLeave(S, c) \/ HasLeave(T, c)
BY DEF HasLeave

\* The fields of a command.
LEMMA CommandFields ==
    ASSUME NEW k, NEW c, NEW i, NEW d
    PROVE  /\ Command(k, c, i, d).kind = k /\ Command(k, c, i, d).controller = c
           /\ Command(k, c, i, d).seat = i /\ Command(k, c, i, d).declaration = d
           /\ k \in DOMAIN Rank /\ c \in Controllers /\ i \in Seats \cup {0}
              /\ d \in Declarations \cup {NoDeclaration} => Command(k, c, i, d) \in Commands
BY DEF Command, Commands

\* A leave or a join as the model submits them.
LEMMA LeaveIsWellFormed ==
    ASSUME NEW c \in Controllers
    PROVE  WellFormed(Command("leave", c, 0, NoDeclaration))
BY CommandFields, Ranks DEF WellFormed

\* And a join.
LEMMA JoinIsWellFormed ==
    ASSUME NEW c \in Controllers, NEW i \in Seats \cup {0}, NEW d \in Declarations \cup {NoDeclaration}
    PROVE  WellFormed(Command("join", c, i, d))
BY CommandFields, Ranks DEF WellFormed

\* Nothing refers to an id that is not in use.
LEMMA UnusedFacts ==
    ASSUME Inv, NEW c \in Controllers, Opens(c)
    PROVE  /\ c \notin directory /\ c \notin exchange /\ c \notin host /\ c \notin Hosted
           /\ ~ SitsIn(world, c)
           /\ \A k \in {pending, batch} : ~ HasLeave(k, c) /\ ~ HasJoin(k, c)
           /\ \A p \in People : people[p] # c
BY DEF Opens, Unused, Hosted, SitsIn, HasLeave, HasJoin

\* Whom a controller id can belong to.
LEMMA Owners ==
    ASSUME RoomTyped, NEW c
    PROVE  /\ (\E p \in Connected : people[p] = c) <=> c # Nobody /\ \E p \in People : people[p] = c
           /\ c \in Hosted => c \in Controllers /\ c # Nobody /\ bots[c] \in Bots
           /\ Nobody \notin Controllers /\ MaxLag \in Nat
BY RoomAssumption DEF RoomTyped, Connected, Hosted, Nobody

\* Tidy, of the sink's part and the rest.
LEMMA TidyParts ==
    ASSUME NEW c
    PROVE  Tidy(c) <=> /\ HasLeave(pending, c) \/ HasLeave(batch, c) => c \notin exchange
                       /\ HasJoin(pending, c) => c \in exchange \/ HasLeave(pending, c)
                       /\ HasJoin(batch, c) \/ SitsIn(world, c) =>
                             c \in exchange \/ HasLeave(pending, c) \/ HasLeave(batch, c)
BY UnionSlots DEF Tidy

\* The same of the next state.
LEMMA TidyPartsNext ==
    ASSUME NEW c
    PROVE  Tidy(c)' <=> /\ HasLeave(pending', c) \/ HasLeave(batch', c) => c \notin exchange'
                        /\ HasJoin(pending', c) => c \in exchange' \/ HasLeave(pending', c)
                        /\ HasJoin(batch', c) \/ SitsIn(world', c) =>
                              c \in exchange' \/ HasLeave(pending', c) \/ HasLeave(batch', c)
BY UnionSlots DEF Tidy, HasJoin, HasLeave, SitsIn

\* Opening a session for a person.
LEMMA AcceptKeeps ==
    ASSUME Inv, NEW p \in People, Accept(p)
    PROVE  Inv'
<1>1. PICK c \in Controllers :
        /\ people[p] = Nobody /\ Opens(c)
        /\ people' = [people EXCEPT ![p] = c]
        /\ directory' = directory \cup {c} /\ exchange' = exchange \cup {c}
        /\ UNCHANGED <<pending, worker, control>>
  BY DEF Accept
<1>2. UNCHANGED <<pending, stepping, batch, world, host, bots, failed, pass>> /\ Hosted' = Hosted
  BY <1>1 DEF worker, control, Hosted
<1>3. /\ c \notin directory /\ c \notin exchange /\ c \notin host /\ c \notin Hosted /\ c # Nobody
      /\ ~ SitsIn(world, c)
      /\ \A k \in {pending, batch} : ~ HasLeave(k, c) /\ ~ HasJoin(k, c)
      /\ \A q \in People : people[q] # c
  BY <1>1, UnusedFacts, Owners DEF Inv
<1>4. RoomTyped'
  BY <1>1, <1>2 DEF Inv, RoomTyped
<1>5. {people[q] : q \in Connected}' = {people[q] : q \in Connected} \cup {c}
  BY <1>1, <1>3 DEF Inv, RoomTyped, Connected
<1>6. RegistriesAgree'
  BY <1>1, <1>2, <1>5 DEF Inv, RegistriesAgree
<1>7. OneOwner'
  BY <1>1, <1>2, <1>3 DEF Inv, RoomTyped, OneOwner
<1>8. ASSUME NEW d \in Controllers PROVE Tidy(d)'
  BY <1>1, <1>2, <1>3, TidyParts, TidyPartsNext DEF Inv
<1>9. ASSUME NEW d \in Hosted' PROVE Waits(d)'
  BY <1>2, <1>9 DEF Inv, Waits, HasJoin, SitsIn
<1> QED BY <1>4, <1>6, <1>7, <1>8, <1>9 DEF Inv

\* A session is closed: what that does to the sink.
LEMMA CloseSession ==
    ASSUME Inv, NEW c \in directory, close_session(c), UNCHANGED <<batch, world>>
    PROVE  /\ c \in Controllers /\ directory' = directory \ {c} /\ exchange' = directory'
           /\ IsFiniteSet(pending') /\ \A m \in pending' : WellFormed(m)
           /\ \A d : HasJoin(pending', d) <=> HasJoin(pending, d)
           /\ \A d : HasLeave(pending', d) <=> HasLeave(pending, d) \/ d = c
           /\ \A d \in Controllers : Tidy(d)'
<1>1. c \in Controllers /\ c \in exchange /\ exchange = directory
  BY DEF Inv, RoomTyped, RegistriesAgree
<1> DEFINE m == Command("leave", c, 0, NoDeclaration)
<1>2. pending' = Put(pending, m) /\ directory' = directory \ {c} /\ exchange' = exchange \ {c}
  BY <1>1 DEF close_session, Leaving
<1>3. m.kind = "leave" /\ m.controller = c /\ WellFormed(m)
  BY <1>1, CommandFields, LeaveIsWellFormed
<1> HIDE DEF m
<1>4. IsFiniteSet(pending) /\ \A n \in pending : WellFormed(n)
  BY DEF Inv, RoomTyped
<1>5. IsFiniteSet(pending') /\ \A n \in pending' : WellFormed(n)
  BY <1>2, <1>3, <1>4, PutFacts
<1>6. ASSUME NEW d PROVE /\ HasJoin(pending', d) <=> HasJoin(pending, d)
                         /\ HasLeave(pending', d) <=> HasLeave(pending, d) \/ d = c
  BY <1>2, <1>3, PutSlots
<1>7. ASSUME NEW d \in Controllers PROVE Tidy(d)'
  BY <1>1, <1>2, <1>6, TidyParts, TidyPartsNext DEF Inv
<1> QED BY <1>1, <1>2, <1>5, <1>6, <1>7

\* A person leaves.
LEMMA LeaveKeeps ==
    ASSUME Inv, NEW p \in People, LeaveMatch(p)
    PROVE  Inv'
<1> DEFINE c == people[p]
<1>1. /\ c # Nobody /\ close_session(c) /\ people' = [people EXCEPT ![p] = Nobody]
      /\ UNCHANGED <<stepping, batch, world, host, bots, failed, pass>>
  BY DEF LeaveMatch, worker, control
<1>2. c \in directory /\ c \notin Hosted /\ Hosted' = Hosted
  BY <1>1 DEF Inv, RegistriesAgree, OneOwner, Connected, Hosted
<1>3. /\ c \in Controllers /\ directory' = directory \ {c} /\ exchange' = directory'
      /\ IsFiniteSet(pending') /\ \A m \in pending' : WellFormed(m)
      /\ \A d : HasJoin(pending', d) <=> HasJoin(pending, d)
      /\ \A d \in Controllers : Tidy(d)'
  BY <1>1, <1>2, CloseSession
<1>4. RoomTyped'
  BY <1>1, <1>3 DEF Inv, RoomTyped
<1>5. {people[q] : q \in Connected}' = {people[q] : q \in Connected} \ {c}
  BY <1>1 DEF Inv, RoomTyped, Connected, OneOwner
<1> HIDE DEF c
<1>6. RegistriesAgree'
  BY <1>1, <1>2, <1>3, <1>5 DEF Inv, RegistriesAgree
<1>7. OneOwner'
  <2>1. Nobody \notin Hosted
    BY Owners DEF Inv
  <2> QED BY <1>1, <1>2, <2>1 DEF Inv, RoomTyped, OneOwner
<1>8. ASSUME NEW d \in Hosted' PROVE Waits(d)'
  <2>1. Waits(d)
    BY <1>2 DEF Inv
  <2>2. HasJoin(batch', d) <=> HasJoin(batch, d)
    BY <1>1
  <2>3. SitsIn(world', d) <=> SitsIn(world, d)
    BY <1>1
  <2> QED BY <1>1, <1>3, <2>1, <2>2, <2>3 DEF Waits, HasJoin, SitsIn
<1> QED BY <1>3, <1>4, <1>6, <1>7, <1>8 DEF Inv

\* A person asks for a seat.
LEMMA JoinKeeps ==
    ASSUME Inv, NEW p \in People, Join(p)
    PROVE  Inv'
<1> DEFINE c == people[p]
           m == Command("join", c, 0, NoDeclaration)
<1>1. /\ c # Nobody /\ ~ SitsIn(world, c) /\ submit(c, m)
      /\ UNCHANGED <<directory, exchange, stepping, batch, world, people, host, bots, failed, pass>>
  BY DEF Join, worker, control, Unseated, SitsIn
<1>2. /\ c \in directory /\ c \notin Hosted /\ Hosted' = Hosted /\ c \in Controllers /\ exchange = directory
  BY <1>1 DEF Inv, RegistriesAgree, OneOwner, Connected, Hosted, RoomTyped
<1>3. pending' = Put(pending, m)
  BY <1>1, <1>2 DEF submit
<1>4. m.kind = "join" /\ m.controller = c /\ WellFormed(m)
  <2> HIDE DEF c
  <2>1. m.kind = "join" /\ m.controller = c
    BY CommandFields
  <2>2. WellFormed(m)
    BY <1>2, JoinIsWellFormed
  <2> QED BY <2>1, <2>2
<1> HIDE DEF m, c
<1>5. IsFiniteSet(pending') /\ \A n \in pending' : WellFormed(n)
  BY <1>3, <1>4, PutFacts DEF Inv, RoomTyped
<1>6. ASSUME NEW d PROVE /\ HasJoin(pending', d) <=> HasJoin(pending, d) \/ d = c
                         /\ HasLeave(pending', d) <=> HasLeave(pending, d)
  BY <1>3, <1>4, PutSlots
<1>7. RoomTyped'
  BY <1>1, <1>5 DEF Inv, RoomTyped
<1>8. RegistriesAgree' /\ OneOwner'
  BY <1>1, <1>2 DEF Inv, RegistriesAgree, OneOwner, Connected
<1>9. ASSUME NEW d \in Controllers PROVE Tidy(d)'
  BY <1>1, <1>2, <1>6, TidyParts, TidyPartsNext DEF Inv
<1>10. ASSUME NEW d \in Hosted' PROVE Waits(d)'
  <2>1. Waits(d) /\ d # c
    BY <1>2 DEF Inv
  <2>2. HasJoin(pending', d) <=> HasJoin(pending, d)
    BY <1>6, <2>1
  <2> QED BY <1>1, <2>1, <2>2 DEF Waits, HasJoin, SitsIn
<1> QED BY <1>7, <1>8, <1>9, <1>10 DEF Inv

---------------------------------------------------------------------------
(* The reconciliation.                                                     *)

\* A step that leaves the sink, the worker and the people alone, and lets no
\* bot be taken for seated that does not sit.
LEMMA ControlKeeps ==
    ASSUME Inv, UNCHANGED <<directory, exchange, pending, stepping, batch, world, people, host>>,
           bots' \in [Controllers -> Bots \cup {NoBot}],
           \A c \in Controllers : bots'[c] = NoBot <=> bots[c] = NoBot,
           \A c \in Hosted : bots'[c].age = bots[c].age \/ SitsIn(world, c),
           failed' \subseteq Seats \X Declarations, pass' \in Passes, pass'.retire \subseteq Hosted
    PROVE  Inv'
<1>1. Hosted' = Hosted
  BY DEF Hosted
<1>2. RoomTyped'
  BY DEF Inv, RoomTyped
<1>3. RegistriesAgree' /\ OneOwner'
  <2>1. {people[q] : q \in Connected}' = {people[q] : q \in Connected}
    BY DEF Connected
  <2>2. RegistriesAgree'
    BY <1>1, <2>1 DEF Inv, RegistriesAgree
  <2>3. OneOwner'
    BY <1>1 DEF Inv, OneOwner
  <2> QED BY <2>2, <2>3
<1>4. ASSUME NEW c \in Controllers PROVE Tidy(c)'
  BY TidyParts, TidyPartsNext DEF Inv
<1>5. ASSUME NEW c \in Hosted' PROVE Waits(c)'
  <2>1. Waits(c) /\ (bots'[c].age = bots[c].age \/ SitsIn(world, c))
    BY <1>1 DEF Inv
  <2>2. /\ HasJoin(pending', c) <=> HasJoin(pending, c)
        /\ HasJoin(batch', c) <=> HasJoin(batch, c)
        /\ SitsIn(world', c) <=> SitsIn(world, c)
    OBVIOUS
  <2> QED BY <2>1, <2>2 DEF Waits, HasJoin, SitsIn
<1> QED BY <1>2, <1>3, <1>4, <1>5 DEF Inv

\* The fields of a reconciliation under way, and its updates.
LEMMA PassFields ==
    ASSUME pass \in Passes
    PROVE  /\ pass.on \in BOOLEAN /\ pass.retire \subseteq Controllers
           /\ pass.create \subseteq Seats \X Declarations /\ pass.lag \in 0 .. MaxLag
           /\ \A r \in SUBSET Controllers : [pass EXCEPT !.retire = r] \in Passes
           /\ \A r \in SUBSET (Seats \X Declarations) : [pass EXCEPT !.create = r] \in Passes
           /\ \A n \in 0 .. MaxLag : [pass EXCEPT !.lag = n] \in Passes
BY DEF Passes

\* Observing a snapshot.
LEMMA ObserveKeeps == ASSUME Inv, Observe PROVE Inv'
<1> DEFINE kept == Hosted \ Retired
           want == Wanted(kept, StillFailed)
<1>1. /\ UNCHANGED <<directory, exchange, pending, stepping, batch, world, people, host>>
      /\ bots' = [c \in Controllers |->
                    IF c \in kept /\ Sits(c) THEN [bots[c] EXCEPT !.age = Seated] ELSE bots[c]]
      /\ failed' = StillFailed
      /\ pass' = [on |-> TRUE, retire |-> Retired, create |-> want, lag |-> 0]
  BY DEF Observe, sink, worker
<1>2. MaxLag \in Nat /\ AgeCap \in Nat /\ Seated \in Seated .. AgeCap
  BY RoomAssumption DEF AgeCap, Seated
<1>3. ASSUME NEW c \in Controllers
      PROVE  /\ bots'[c] \in Bots \cup {NoBot} /\ (bots'[c] = NoBot <=> bots[c] = NoBot)
             /\ c \in Hosted => bots'[c].age = bots[c].age \/ SitsIn(world, c)
  <2>1. bots[c] \in Bots \cup {NoBot} /\ (c \in Hosted <=> bots[c] # NoBot)
    BY DEF Inv, RoomTyped, Hosted
  <2>2. CASE c \in kept /\ Sits(c)
    <3>1. bots[c] \in Bots /\ bots'[c] = [bots[c] EXCEPT !.age = Seated]
      BY <1>1, <2>1, <2>2
    <3>2. bots'[c] \in Bots /\ bots[c].seat \in Seats
      BY <1>2, <3>1 DEF Bots
    <3>3. NoBot \notin Bots
      BY DEF NoBot, Bot, Bots, Seats
    <3>4. SitsIn(world, c)
      BY <2>2, <3>2 DEF Sits, SitsIn
    <3> QED BY <3>1, <3>2, <3>3, <3>4
  <2>3. CASE ~ (c \in kept /\ Sits(c))
    BY <1>1, <2>1, <2>3
  <2> QED BY <2>2, <2>3
<1>4. bots' \in [Controllers -> Bots \cup {NoBot}]
  <2>1. bots' = [c \in Controllers |-> bots'[c]]
    BY <1>1
  <2> QED BY <1>3, <2>1
<1>5. Retired \subseteq Hosted /\ Hosted \subseteq Controllers
  BY DEF Retired, Hosted
<1>6. StillFailed \subseteq Seats \X Declarations
  BY DEF StillFailed, Inv, RoomTyped
<1>7. want \subseteq Seats \X Declarations
  <2>1. ASSUME NEW i \in Seats, Unfilled(world.seats[i])
        PROVE  <<i, world.seats[i].declaration>> \in Seats \X Declarations
    <3>1. world.seats[i] \in SeatValues
      BY DEF Inv, RoomTyped, Worlds
    <3>2. world.seats[i].declaration \in Declarations \cup {NoDeclaration}
      BY <3>1 DEF SeatValues, Seat
    <3> QED BY <2>1, <3>2 DEF Unfilled
  <2> QED BY <2>1 DEF Wanted
<1> HIDE DEF kept, want
<1>8. pass' \in Passes /\ pass'.retire \subseteq Hosted
  BY <1>1, <1>2, <1>5, <1>7 DEF Passes
<1>9. failed' \subseteq Seats \X Declarations
  BY <1>1, <1>6
<1>10. \A c \in Controllers : bots'[c] = NoBot <=> bots[c] = NoBot
  BY <1>3
<1>11. \A c \in Hosted : bots'[c].age = bots[c].age \/ SitsIn(world, c)
  BY <1>3, <1>5
<1>12. UNCHANGED <<directory, exchange, pending, stepping, batch, world, people, host>>
  BY <1>1
<1> QED BY <1>4, <1>8, <1>9, <1>10, <1>11, <1>12, ControlKeeps

\* A creation fails before a session is open, and a pass that has nothing
\* more to do ends.
LEMMA CreationFailsKeeps ==
    ASSUME Inv, NEW want \in pass.create, CreationFails(want)
    PROVE  Inv'
<1>1. pass \in Passes /\ pass.retire \subseteq Hosted
  BY DEF Inv, RoomTyped, OneOwner
<1>2. pass' = [pass EXCEPT !.create = pass.create \ {want}]
  BY DEF CreationFails, Created
<1>3. pass' \in Passes /\ pass'.retire = pass.retire
  BY <1>1, <1>2, PassFields DEF Passes
<1>4. failed' \subseteq Seats \X Declarations
  BY <1>1, PassFields DEF CreationFails, Inv, RoomTyped
<1>5. UNCHANGED <<directory, exchange, pending, stepping, batch, world, people, host, bots>>
  BY DEF CreationFails, sink, worker
<1>6. bots' \in [Controllers -> Bots \cup {NoBot}]
  BY <1>5 DEF Inv, RoomTyped
<1> QED BY <1>1, <1>3, <1>4, <1>5, <1>6, ControlKeeps

\* A reconciliation with nothing left to do ends.
LEMMA EndPassKeeps == ASSUME Inv, EndPass PROVE Inv'
<1>1. pass' = NoPass /\ MaxLag \in Nat
  BY RoomAssumption DEF EndPass
<1>2. pass' \in Passes /\ pass'.retire \subseteq Hosted
  BY <1>1 DEF NoPass, Passes
<1>3. UNCHANGED <<directory, exchange, pending, stepping, batch, world, people, host, bots, failed>>
  BY DEF EndPass, sink, worker
<1>4. bots' \in [Controllers -> Bots \cup {NoBot}] /\ failed' \subseteq Seats \X Declarations
  BY <1>3 DEF Inv, RoomTyped
<1> QED BY <1>2, <1>3, <1>4, ControlKeeps

\* A bot is retired.
LEMMA RetireKeeps ==
    ASSUME Inv, NEW c \in Controllers, retire_bot(c)
    PROVE  Inv'
<1>1. /\ c \in pass.retire /\ close_session(c) /\ host' = host \ {c}
      /\ bots' = [bots EXCEPT ![c] = NoBot]
      /\ pass' = [pass EXCEPT !.retire = pass.retire \ {c}]
      /\ UNCHANGED <<stepping, batch, world, people, failed>>
  BY DEF retire_bot, worker
<1>2. c \in Hosted /\ c \in directory
  BY <1>1 DEF Inv, OneOwner, RegistriesAgree
<1>3. /\ directory' = directory \ {c} /\ exchange' = directory'
      /\ IsFiniteSet(pending') /\ \A m \in pending' : WellFormed(m)
      /\ \A d : HasJoin(pending', d) <=> HasJoin(pending, d)
      /\ \A d \in Controllers : Tidy(d)'
  BY <1>1, <1>2, CloseSession
<1>4. pass \in Passes /\ pass.retire \subseteq Hosted
  BY DEF Inv, RoomTyped, OneOwner
<1>5. pass' \in Passes /\ pass'.retire = pass.retire \ {c}
  BY <1>1, <1>4, PassFields DEF Passes
<1>6. Hosted' = Hosted \ {c}
  BY <1>1 DEF Hosted, Inv, RoomTyped
<1>7. RoomTyped'
  BY <1>1, <1>3, <1>5 DEF Inv, RoomTyped
<1>8. {people[q] : q \in Connected}' = {people[q] : q \in Connected} /\ c \notin {people[q] : q \in Connected}
  BY <1>1, <1>2 DEF Inv, OneOwner, Connected
<1>9. RegistriesAgree'
  BY <1>1, <1>3, <1>6, <1>8 DEF Inv, RegistriesAgree
<1>10. OneOwner'
  BY <1>1, <1>4, <1>5, <1>6 DEF Inv, OneOwner
<1>11. ASSUME NEW d \in Hosted' PROVE Waits(d)'
  <2>1. Waits(d) /\ bots'[d] = bots[d]
    BY <1>1, <1>6 DEF Inv, RoomTyped, Hosted
  <2> QED BY <1>1, <1>3, <2>1 DEF Waits, HasJoin, SitsIn
<1> QED BY <1>3, <1>7, <1>9, <1>10, <1>11 DEF Inv

\* The host refuses a bot: its session is closed again.
LEMMA RefusalKeeps ==
    ASSUME Inv, NEW want \in pass.create, NEW c \in Controllers, HostRefuses(want, c)
    PROVE  Inv'
<1> DEFINE m == Command("leave", c, 0, NoDeclaration)
<1>1. /\ Opens(c) /\ pending' = Put(pending, m) /\ failed' = failed \cup {want}
      /\ pass' = [pass EXCEPT !.create = pass.create \ {want}]
      /\ UNCHANGED <<directory, exchange, stepping, batch, world, people, host, bots>>
  BY DEF HostRefuses, Created, Leaving, worker
<1>2. m.kind = "leave" /\ m.controller = c /\ WellFormed(m)
  BY CommandFields, LeaveIsWellFormed
<1> HIDE DEF m
<1>3. pass \in Passes /\ pass.retire \subseteq Hosted /\ Hosted' = Hosted
  BY <1>1 DEF Inv, RoomTyped, OneOwner, Hosted
<1>4. pass' \in Passes /\ pass'.retire = pass.retire /\ want \in Seats \X Declarations
  BY <1>1, <1>3, PassFields DEF Passes
<1>5. IsFiniteSet(pending') /\ \A n \in pending' : WellFormed(n)
  BY <1>1, <1>2, PutFacts DEF Inv, RoomTyped
<1>6. RoomTyped'
  BY <1>1, <1>4, <1>5 DEF Inv, RoomTyped
<1>7. RegistriesAgree' /\ OneOwner'
  <2>1. {people[q] : q \in Connected}' = {people[q] : q \in Connected}
    BY <1>1 DEF Connected
  <2>2. RegistriesAgree'
    BY <1>1, <1>3, <2>1 DEF Inv, RegistriesAgree
  <2>3. OneOwner'
    BY <1>1, <1>3, <1>4 DEF Inv, OneOwner
  <2> QED BY <2>2, <2>3
<1>8. ASSUME NEW d PROVE /\ HasJoin(pending', d) <=> HasJoin(pending, d)
                         /\ HasLeave(pending', d) <=> HasLeave(pending, d) \/ d = c
  BY <1>1, <1>2, PutSlots
<1>9. c \notin exchange /\ ~ HasJoin(pending, c) /\ ~ HasJoin(batch, c) /\ ~ SitsIn(world, c)
  BY <1>1, UnusedFacts
<1>10. ASSUME NEW d \in Controllers PROVE Tidy(d)'
  BY <1>1, <1>8, <1>9, TidyParts, TidyPartsNext DEF Inv
<1>11. ASSUME NEW d \in Hosted' PROVE Waits(d)'
  <2>1. Waits(d)
    BY <1>3 DEF Inv
  <2> QED BY <1>1, <1>8, <2>1 DEF Waits, HasJoin, SitsIn
<1> QED BY <1>6, <1>7, <1>10, <1>11 DEF Inv

\* A bot is created, and its join submitted or dropped by a full mailbox.
LEMMA CreateKeeps ==
    ASSUME Inv, NEW want \in pass.create, NEW c \in Controllers, NEW full \in BOOLEAN,
           create_bot(want, c, full)
    PROVE  Inv'
<1> DEFINE m == Command("join", c, want[1], want[2])
           b == Bot(want[1], want[2], pass.lag)
<1>1. /\ Opens(c) /\ directory' = directory \cup {c} /\ exchange' = exchange \cup {c}
      /\ host' = host \cup {c}
      /\ pending' = pending \/ pending' = Put(pending, m)
      /\ bots' = [bots EXCEPT ![c] = b]
      /\ pass' = [pass EXCEPT !.create = pass.create \ {want}]
      /\ UNCHANGED <<stepping, batch, world, people, failed>>
  BY DEF create_bot, Created, worker
<1>2. pass \in Passes /\ pass.retire \subseteq Hosted /\ MaxLag \in Nat /\ JoinBudget \in Nat
  BY RoomAssumption DEF Inv, RoomTyped, OneOwner
<1>3. pass' \in Passes /\ pass'.retire = pass.retire /\ want \in Seats \X Declarations /\ pass.lag \in 0 .. MaxLag
  BY <1>1, <1>2, PassFields DEF Passes
<1>4. want[1] \in Seats /\ want[2] \in Declarations
  BY <1>3
<1>5. b \in Bots /\ b.age = pass.lag /\ b # NoBot
  <2>1. pass.lag \in Seated .. AgeCap
    BY <1>2, <1>3 DEF Seated, AgeCap
  <2> QED BY <1>4, <2>1 DEF Bot, Bots, NoBot, Seats
<1>6. m.kind = "join" /\ m.controller = c /\ WellFormed(m)
  <2>1. m.kind = "join" /\ m.controller = c
    BY CommandFields
  <2>2. WellFormed(m)
    BY <1>4, JoinIsWellFormed
  <2> QED BY <2>1, <2>2
<1> HIDE DEF m, b
<1>7. /\ c \notin directory /\ c \notin exchange /\ c \notin host /\ c \notin Hosted /\ c # Nobody
      /\ ~ SitsIn(world, c)
      /\ \A k \in {pending, batch} : ~ HasLeave(k, c) /\ ~ HasJoin(k, c)
      /\ \A q \in People : people[q] # c
  BY <1>1, UnusedFacts, Owners DEF Inv
<1>8. Hosted' = Hosted \cup {c}
  BY <1>1, <1>5 DEF Hosted, Inv, RoomTyped
<1>9. IsFiniteSet(pending') /\ \A n \in pending' : WellFormed(n)
  BY <1>1, <1>6, PutFacts DEF Inv, RoomTyped
<1>10. bots' \in [Controllers -> Bots \cup {NoBot}]
  BY <1>1, <1>5 DEF Inv, RoomTyped
<1>11. RoomTyped'
  BY <1>1, <1>3, <1>9, <1>10 DEF Inv, RoomTyped
<1>12. RegistriesAgree'
  <2>1. {people[q] : q \in Connected}' = {people[q] : q \in Connected}
    BY <1>1 DEF Connected
  <2> QED BY <1>1, <1>8, <2>1 DEF Inv, RegistriesAgree
<1>13. OneOwner'
  BY <1>1, <1>3, <1>7, <1>8 DEF Inv, OneOwner
<1>14. ASSUME NEW d PROVE /\ HasJoin(pending', d) => HasJoin(pending, d) \/ d = c
                          /\ HasJoin(pending, d) => HasJoin(pending', d)
                          /\ HasLeave(pending', d) <=> HasLeave(pending, d)
  BY <1>1, <1>6, PutSlots
<1>15. ASSUME NEW d \in Controllers PROVE Tidy(d)'
  BY <1>1, <1>7, <1>14, TidyParts, TidyPartsNext DEF Inv
<1>16. ASSUME NEW d \in Hosted' PROVE Waits(d)'
  <2>1. CASE d = c
    <3>1. bots'[d] = b /\ ~ HasJoin(batch', d) /\ ~ SitsIn(world', d)
      BY <1>1, <1>7, <2>1 DEF Inv, RoomTyped
    <3>2. b.age # Seated /\ b.age <= MaxLag
      BY <1>2, <1>3, <1>5 DEF Seated
    <3>3. b.age \in Nat
      BY <1>2, <1>3, <1>5
    <3> QED BY <1>2, <3>1, <3>2, <3>3 DEF Waits, HasJoin, SitsIn
  <2>2. CASE d # c
    <3>1. Waits(d) /\ bots'[d] = bots[d]
      BY <1>1, <1>8, <2>2 DEF Inv, RoomTyped, Hosted
    <3>2. HasJoin(pending', d) <=> HasJoin(pending, d)
      BY <1>14, <2>2
    <3> QED BY <1>1, <3>1, <3>2 DEF Waits, HasJoin, SitsIn
  <2> QED BY <2>1, <2>2
<1> QED BY <1>11, <1>12, <1>13, <1>15, <1>16 DEF Inv

---------------------------------------------------------------------------
(* The tick.                                                               *)

\* The drain.
LEMMA OpenTickKeeps == ASSUME Inv, OpenTick PROVE Inv'
<1>1. PICK asked \in {{}} \cup {{m} : m \in UNION {LobbyCommands(people[p]) : p \in Connected}} :
         batch' = pending \cup asked
  BY DEF OpenTick
<1>2. /\ ~ stepping /\ stepping' = TRUE /\ pending' = {} /\ batch = {}
      /\ UNCHANGED <<directory, exchange, world, people, host, bots, failed, pass>>
  BY DEF OpenTick, control, Inv, RoomTyped
<1>3. ASSUME NEW m \in asked PROVE WellFormed(m) /\ m.kind \notin {"join", "leave"}
  <2>1. PICK p \in Connected : m \in LobbyCommands(people[p])
    BY <1>1
  <2> DEFINE c == people[p]
  <2>2. c \in Controllers
    BY DEF Connected, Inv, RoomTyped
  <2>3. m \in LobbyCommands(c)
    BY <2>1
  <2> HIDE DEF c
  <2>4. CASE \E i \in Seats, d \in Declarations : m = Command("seat_npc", c, i, d)
    BY <2>2, <2>4, CommandFields, Ranks DEF WellFormed
  <2>5. CASE \E i \in Seats : m = Command("clear_seat", c, i, NoDeclaration)
    BY <2>2, <2>5, CommandFields, Ranks DEF WellFormed
  <2>6. CASE m = Command("start_match", c, 0, NoDeclaration)
    BY <2>2, <2>6, CommandFields, Ranks DEF WellFormed
  <2> QED BY <2>3, <2>4, <2>5, <2>6 DEF LobbyCommands
<1>4. IsFiniteSet(asked)
  BY <1>1, FS_EmptySet, FS_Singleton
<1>5. IsFiniteSet(batch') /\ IsFiniteSet(pending')
  BY <1>1, <1>2, <1>4, FS_EmptySet, FS_Union DEF Inv, RoomTyped
<1>6. \A m \in pending' \cup batch' : WellFormed(m)
  BY <1>1, <1>2, <1>3 DEF Inv, RoomTyped
<1>7. RoomTyped'
  BY <1>2, <1>5, <1>6 DEF Inv, RoomTyped
<1>8. Hosted' = Hosted /\ {people[q] : q \in Connected}' = {people[q] : q \in Connected}
  BY <1>2 DEF Hosted, Connected
<1>9. RegistriesAgree'
  BY <1>2, <1>8 DEF Inv, RegistriesAgree
<1>10. OneOwner'
  BY <1>2, <1>8 DEF Inv, OneOwner
<1>11. ASSUME NEW d PROVE /\ HasJoin(batch', d) <=> HasJoin(pending, d)
                          /\ HasLeave(batch', d) <=> HasLeave(pending, d)
                          /\ ~ HasJoin(pending', d) /\ ~ HasLeave(pending', d)
                          /\ ~ HasJoin(batch, d) /\ ~ HasLeave(batch, d)
  BY <1>1, <1>2, <1>3 DEF HasJoin, HasLeave
<1>12. ASSUME NEW d \in Controllers PROVE Tidy(d)'
  BY <1>2, <1>11, TidyParts, TidyPartsNext DEF Inv
<1>13. ASSUME NEW d \in Hosted' PROVE Waits(d)'
  <2>1. Waits(d)
    BY <1>8 DEF Inv
  <2> QED BY <1>2, <1>11, <2>1 DEF Waits, HasJoin, SitsIn
<1> QED BY <1>7, <1>9, <1>10, <1>12, <1>13 DEF Inv

\* The lifecycle changes the phase and the start, and nobody's seat.
LEMMA LifecycleSeats ==
    ASSUME NEW w \in Worlds, NEW v \in Lifecycle(w)
    PROVE  v \in Worlds /\ v.seats = w.seats
<1>1. /\ w = [seats |-> w.seats, phase |-> w.phase, start |-> w.start]
      /\ w.seats \in [Seats -> SeatValues] /\ w.phase \in {"lobby", "countdown", "running"} /\ w.start \in BOOLEAN
  BY DEF Worlds
<1>2. \/ v = w
      \/ \E ph \in {"lobby", "countdown", "running"} :
            v = [w EXCEPT !.phase = ph] \/ v = [w EXCEPT !.phase = ph, !.start = FALSE]
  BY <1>1 DEF Lifecycle
<1> QED BY <1>1, <1>2 DEF Worlds

\* Commands, lifecycle and publication.
LEMMA CommitTickKeeps == ASSUME Inv, CommitTick PROVE Inv'
<1>1. /\ stepping /\ stepping' = FALSE /\ batch' = {}
      /\ pass.on => pass.lag < MaxLag
      /\ world' \in Lifecycle(Intake(world, batch))
      /\ bots' = [c \in Controllers |-> IF bots[c] = NoBot THEN NoBot ELSE [bots[c] EXCEPT !.age = Older(bots[c].age)]]
      /\ pass' = IF pass.on THEN [pass EXCEPT !.lag = pass.lag + 1] ELSE pass
      /\ UNCHANGED <<directory, exchange, pending, people, host, failed>>
  BY DEF CommitTick, sink
<1>2. world \in Worlds /\ IsFiniteSet(batch) /\ \A m \in batch : WellFormed(m)
  BY DEF Inv, RoomTyped
<1> DEFINE after == Intake(world, batch)
<1>3. /\ after \in Worlds
      /\ \A c \in Controllers : SitsIn(after, c) => /\ SitsIn(world, c) \/ HasJoin(batch, c)
                                                    /\ ~ HasLeave(batch, c)
  BY <1>2, IntakeSeats DEF HasJoin, HasLeave
<1>4. world' \in Lifecycle(after)
  BY <1>1
<1> HIDE DEF after
<1>5. world' \in Worlds /\ \A c \in Controllers : SitsIn(world', c) <=> SitsIn(after, c)
  BY <1>3, <1>4, LifecycleSeats DEF SitsIn
<1>6. MaxLag \in Nat /\ JoinBudget \in Nat \ {0} /\ AgeCap = JoinBudget + MaxLag /\ Seated = -1
  BY RoomAssumption DEF AgeCap, Seated
<1>7. ASSUME NEW n \in Seated .. AgeCap
      PROVE  /\ Older(n) \in Seated .. AgeCap /\ Older(n) <= n + 1 /\ (n # Seated => Older(n) # Seated)
  BY <1>6 DEF Older
<1>8. ASSUME NEW c \in Controllers
      PROVE  /\ bots'[c] \in Bots \cup {NoBot} /\ (bots'[c] = NoBot <=> bots[c] = NoBot)
             /\ c \in Hosted => bots[c].age \in Seated .. AgeCap /\ bots'[c].age = Older(bots[c].age)
  <2>1. bots[c] \in Bots \cup {NoBot} /\ (c \in Hosted <=> bots[c] # NoBot)
    BY DEF Inv, RoomTyped, Hosted
  <2>2. CASE bots[c] = NoBot
    BY <1>1, <2>1, <2>2
  <2>3. CASE bots[c] # NoBot
    <3>1. bots[c] \in Bots /\ bots'[c] = [bots[c] EXCEPT !.age = Older(bots[c].age)]
      BY <1>1, <2>1, <2>3
    <3>2. bots[c].age \in Seated .. AgeCap /\ bots[c].seat \in Seats
      BY <3>1 DEF Bots
    <3>3. bots'[c] \in Bots /\ bots'[c].age = Older(bots[c].age)
      BY <1>7, <3>1, <3>2 DEF Bots
    <3>4. NoBot \notin Bots
      BY DEF NoBot, Bot, Bots, Seats
    <3> QED BY <2>3, <3>2, <3>3, <3>4
  <2> QED BY <2>2, <2>3
<1>9. bots' \in [Controllers -> Bots \cup {NoBot}] /\ Hosted' = Hosted
  <2>1. bots' = [c \in Controllers |-> bots'[c]]
    BY <1>1
  <2> QED BY <1>8, <2>1 DEF Hosted
<1>10. pass' \in Passes /\ pass'.retire = pass.retire
  <2>1. pass \in Passes
    BY DEF Inv, RoomTyped
  <2>2. CASE pass.on
    <3>1. pass.lag + 1 \in 0 .. MaxLag
      BY <1>1, <1>6, <2>1, <2>2, PassFields
    <3> QED BY <1>1, <2>1, <2>2, <3>1, PassFields DEF Passes
  <2> QED BY <1>1, <2>1, <2>2
<1>11. IsFiniteSet(batch')
  BY <1>1, FS_EmptySet
<1>12. RoomTyped'
  BY <1>1, <1>5, <1>9, <1>10, <1>11 DEF Inv, RoomTyped
<1>13. RegistriesAgree'
  <2>1. {people[q] : q \in Connected}' = {people[q] : q \in Connected}
    BY <1>1 DEF Connected
  <2> QED BY <1>1, <1>9, <2>1 DEF Inv, RegistriesAgree
<1>14. OneOwner'
  BY <1>1, <1>9, <1>10 DEF Inv, OneOwner
<1>15. \A c : ~ HasJoin(batch', c) /\ ~ HasLeave(batch', c)
  BY <1>1 DEF HasJoin, HasLeave
<1>16. \A c : (HasJoin(pending', c) <=> HasJoin(pending, c)) /\ (HasLeave(pending', c) <=> HasLeave(pending, c))
  BY <1>1 DEF HasJoin, HasLeave
<1>17. ASSUME NEW c \in Controllers PROVE Tidy(c)'
  BY <1>1, <1>3, <1>5, <1>15, <1>16, TidyParts, TidyPartsNext DEF Inv
<1>18. ASSUME NEW c \in Hosted' PROVE Waits(c)'
  <2>1. Waits(c) /\ c \in Controllers /\ c \in Hosted
    BY <1>9 DEF Inv, Hosted
  <2>2. HasJoin(pending, c) => ~ SitsIn(world', c)
    BY <1>3, <1>5, <2>1 DEF Waits
  <2>3. HasJoin(pending, c) => bots[c].age # Seated /\ bots[c].age <= MaxLag
    BY <1>1, <2>1 DEF Waits
  <2> DEFINE n == bots[c].age
  <2>4. n \in Seated .. AgeCap /\ bots'[c].age = Older(n)
    BY <1>8, <2>1
  <2>5. HasJoin(pending, c) => n # Seated /\ n <= MaxLag
    BY <2>3
  <2> HIDE DEF n
  <2>6. HasJoin(pending, c) => bots'[c].age # Seated /\ bots'[c].age <= MaxLag + 1
    BY <1>6, <1>7, <2>4, <2>5
  <2>7. /\ HasJoin(pending', c) => HasJoin(pending, c)
        /\ ~ HasJoin(batch', c) /\ ~ stepping'
    BY <1>1, <1>15, <1>16
  <2> QED BY <2>2, <2>6, <2>7 DEF Waits, HasJoin, SitsIn
<1> QED BY <1>12, <1>13, <1>14, <1>17, <1>18 DEF Inv

---------------------------------------------------------------------------
(* The theorems.                                                           *)

\* Every step preserves the invariant.
LEMMA NextInv == ASSUME Inv, [Next]_vars PROVE Inv'
<1>1. CASE ServerThread
  BY <1>1, AcceptKeeps, LeaveKeeps, JoinKeeps DEF ServerThread
<1>2. CASE PassStep
  BY <1>2, ObserveKeeps, RetireKeeps, CreateKeeps, EndPassKeeps DEF PassStep
<1>3. CASE CreationGoesWrong
  BY <1>3, CreationFailsKeeps, RefusalKeeps DEF CreationGoesWrong
<1>4. CASE JoinIsDropped
  BY <1>4, CreateKeeps DEF JoinIsDropped
<1>5. CASE OpenTick
  BY <1>5, OpenTickKeeps
<1>6. CASE CommitTick
  BY <1>6, CommitTickKeeps
<1>7. CASE UNCHANGED vars
  <2>1. UNCHANGED <<directory, exchange, pending, stepping, batch, world, people, host, bots, failed, pass>>
    BY <1>7 DEF vars
  <2>2. /\ bots' \in [Controllers -> Bots \cup {NoBot}] /\ failed' \subseteq Seats \X Declarations
        /\ pass' \in Passes /\ pass'.retire \subseteq Hosted
    BY <2>1 DEF Inv, RoomTyped, OneOwner
  <2> QED BY <2>1, <2>2, ControlKeeps
<1> QED BY <1>1, <1>2, <1>3, <1>4, <1>5, <1>6, <1>7 DEF Next, ControlThread

\* The inductive invariant holds in every reachable state: types, registries,
\* who owns a controller id, and what the commands under way say of it.
THEOREM RoomInvariant == Spec => []Inv
<1>1. Inv /\ [Next]_vars => Inv'
  BY NextInv
<1> QED BY <1>1, InitInv, PTL DEF Spec

\* Directory, mailbox, host and reconciler agree on who is in the room, and no
\* seat is held by somebody gone whose leave is not under way, for any number of
\* people, bots and seats and whichever step fails (CommandSink::open_session,
\* close_session, SeatBotReconciler::create_bot).
THEOREM RegistriesStayConsistent == Spec => []RoomIsConsistent
<1>1. Inv => RoomIsConsistent
  BY InvIsConsistent
<1> QED BY <1>1, RoomInvariant, PTL

\* What the reconciler takes for a refused join is one, provided that its budget
\* exceeds by two ticks what one reconciliation may take (one tick that was
\* open when the bot was created, and the one that drains its join).
THEOREM RefusalsAreNotGuessed == MaxLag + 2 <= JoinBudget => (Spec => []RefusalsAreReal)
<1> SUFFICES ASSUME MaxLag + 2 <= JoinBudget PROVE Spec => []RefusalsAreReal
  OBVIOUS
<1>1. Inv => RefusalsAreReal
  BY InvMeansRefusal
<1> QED BY <1>1, RoomInvariant, PTL
=============================================================================
