--------------------------- MODULE Boundary_proofs ---------------------------
(***************************************************************************)
(* Proofs about the server's boundaries: what goes in through the command  *)
(* mailbox, for any controllers, kinds, capacity and bounds; what a start  *)
(* of the server accepts, for every configuration, map and seat; what a    *)
(* file of the operator says, for any schema and any lines; and what the   *)
(* server writes to its clients, for any worlds, maps and limits.          *)
(*                                                                         *)
(* CommandMailbox.  Every operation but drain, complete and claim goes     *)
(* through submit_locked.  The first lemmas say once what submit_locked    *)
(* does to the pending commands, the counters and the exchanges it is      *)
(* given; the preservation lemmas then treat one operation each.           *)
(*                                                                         *)
(* Startup.  A create function is the sequence of the errors its checks    *)
(* find, so what an accepted start knows is what every check of it found   *)
(* empty: the lemmas on sequences of errors come first, then one lemma per *)
(* section of the configuration, then the steps of the start.              *)
(*                                                                         *)
(* InputFiles.  ReadsAs relates the document read so far to the lines read *)
(* so far.  A line either keeps it or fails with an error that no line     *)
(* after it can mend (Outcome); at the end what was read is what a         *)
(* reference reading of all the lines makes of them.                       *)
(*                                                                         *)
(* ServerFrames.  A frame conforms because what it shows was sound when it *)
(* was taken: the snapshots held and published (SnapshotsSound), the       *)
(* tuning exchange (ExchangeSound) and the counts (CountsSound).  The walk *)
(* of encode_entities is unfolded along the entities it has passed.        *)
(***************************************************************************)
EXTENDS CommandMailbox, InputFiles, Startup, ServerFrames,
        SequenceTheorems, FiniteSetTheorems, WellFoundedInduction, TLAPS

SubmitLocked(command, open) == Accept(command, open) \/ Refuse(command, open)

Has(command) == \E i \in DOMAIN pending : pending[i] = command

\* Tuning commands carry a request id, pending and drained alike.
TuningHasId ==
  /\ \A i \in DOMAIN pending : pending[i].kind = "tuning" => pending[i].request # 0
  /\ \A i \in DOMAIN batch : batch[i].kind = "tuning" => batch[i].request # 0

\* An exchange's request and everything claimed from it lie below its high water mark.
ClaimInv ==
  \A c \in Controllers :
    /\ c \notin DOMAIN exchanges /\ c \notin retired => claims[c] = <<>>
    /\ c \in DOMAIN exchanges =>
         /\ exchanges[c].request <= exchanges[c].high_water
         /\ \A i \in DOMAIN claims[c] :
              /\ claims[c][i] <= exchanges[c].high_water
              /\ exchanges[c].request # 0 => claims[c][i] < exchanges[c].request

\* No exchange is closed for longer than one interval from now.
EligibleInv ==
  \A c \in DOMAIN exchanges : exchanges[c].next_eligible <= now + IntervalMs * Millisecond

Inv ==
  /\ TypeOK
  /\ OneSlotPerIdentity
  /\ Conservation
  /\ TuningHasId
  /\ TuningRequestIsNeverLost
  /\ ResultAnswersRequest
  /\ ClaimInv
  /\ AnsweredOnce
  /\ EligibleInv

-----------------------------------------------------------------------------
(* Sequences *)

\* What is left after an eviction: one command fewer, each a command that was there, at a place
\* that keeps distinct commands distinct; all but the evicted one are still there.
LEMMA RemoveAtFacts ==
  ASSUME NEW S, NEW s \in Seq(S), NEW k \in 1 .. Len(s)
  PROVE  /\ RemoveAt(s, k) \in Seq(S)
         /\ Len(RemoveAt(s, k)) = Len(s) - 1
         /\ \A j \in 1 .. Len(s) - 1 :
              RemoveAt(s, k)[j] = s[IF j < k THEN j ELSE j + 1]
  <1> DEFINE a == SubSeq(s, 1, k - 1)
             b == SubSeq(s, k + 1, Len(s))
  <1>1. a \in Seq(S) /\ Len(a) = k - 1 /\ \A j \in 1 .. k - 1 : a[j] = s[j]
    OBVIOUS
  <1>2. b \in Seq(S) /\ Len(b) = Len(s) - k /\ \A j \in 1 .. Len(s) - k : b[j] = s[k + j]
    OBVIOUS
  <1> HIDE DEF a, b
  <1>3. a \o b \in Seq(S) /\ Len(a \o b) = Len(s) - 1
    <2>1. a \o b \in Seq(S) /\ Len(a \o b) = Len(a) + Len(b)
      BY <1>1, <1>2, ConcatProperties
    <2>2. Len(s) \in Nat /\ k \in Nat
      OBVIOUS
    <2> QED
      BY <1>1, <1>2, <2>1, <2>2
  <1>4. ASSUME NEW j \in 1 .. Len(s) - 1 PROVE (a \o b)[j] = s[IF j < k THEN j ELSE j + 1]
    <2>1. CASE j < k
      BY <1>1, <1>2, <2>1
    <2>2. CASE ~ (j < k)
      <3>1. j - (k - 1) \in 1 .. Len(s) - k
        BY <2>2
      <3>2. (a \o b)[j] = b[j - (k - 1)]
        BY <1>1, <1>2, <2>2
      <3> QED
        BY <1>2, <2>2, <3>1, <3>2
    <2> QED
      BY <2>1, <2>2
  <1>5. RemoveAt(s, k) = a \o b
    BY DEF RemoveAt, a, b
  <1> QED
    BY <1>3, <1>4, <1>5

\* Appending to what an eviction left.
LEMMA AppendFacts ==
  ASSUME NEW S, NEW s \in Seq(S), NEW e \in S, NEW n \in Nat, Len(s) = n - 1
  PROVE  /\ Append(s, e) \in Seq(S)
         /\ Len(Append(s, e)) = n
         /\ DOMAIN Append(s, e) = 1 .. n
         /\ Append(s, e)[n] = e
         /\ \A j \in 1 .. n - 1 : Append(s, e)[j] = s[j]
  <1>1. /\ Append(s, e) \in Seq(S) /\ Len(Append(s, e)) = Len(s) + 1
        /\ Append(s, e)[Len(s) + 1] = e
        /\ \A j \in 1 .. Len(s) : Append(s, e)[j] = s[j]
    OBVIOUS
  <1>2. Len(s) + 1 = n
    OBVIOUS
  <1> QED
    BY <1>1, <1>2

-----------------------------------------------------------------------------
(* submit_locked *)

\* Where the commands are after submit_locked: every pending command is the submitted one or was
\* pending, and a command that was pending still is unless it was superseded or evicted.
LEMMA SubmitKeepsCommands ==
  ASSUME TypeOK, NEW command \in Commands, NEW open, SubmitLocked(command, open)
  PROVE  /\ pending' \in Seq(Commands)
         /\ \A j \in DOMAIN pending' :
              pending'[j] = command \/ \E i \in DOMAIN pending : pending'[j] = pending[i]
         /\ \A i \in DOMAIN pending :
              \/ \E j \in DOMAIN pending' : pending'[j] = pending[i]
              \/ /\ pending[i].kind = command.kind /\ pending[i].key = command.key
                 /\ \E j \in DOMAIN pending' : pending'[j] = command
              \/ /\ pending[i].kind \notin LifecycleKinds
                 /\ exchanges' = RecordTuningEviction(open, pending[i])
                 /\ EvictAndStore(command, open)
  <1>0. pending \in Seq(Commands) /\ Len(pending) \in Nat
    BY DEF TypeOK
  <1>1. CASE pending' = pending
    BY <1>0, <1>1
  <1>2. CASE Supersede(command, open)
    <2>1. PICK slot \in DOMAIN pending : /\ IsOldest(slot, SlotsOf(command))
                                         /\ pending' = [pending EXCEPT ![slot] = command]
      BY <1>2 DEF Supersede
    <2>2. pending[slot].kind = command.kind /\ pending[slot].key = command.key
      BY <2>1 DEF IsOldest, SlotsOf
    <2> QED
      BY <1>0, <2>1, <2>2
  <1>3. CASE Store(command, open)
    <2>1. pending' = Append(pending, command)
      BY <1>3 DEF Store
    <2>2. /\ Len(pending') = Len(pending) + 1 /\ pending' \in Seq(Commands)
          /\ \A i \in 1 .. Len(pending) : pending'[i] = pending[i]
          /\ pending'[Len(pending) + 1] = command
      BY <1>0, <2>1
    <2> QED
      BY <1>0, <2>2
  <1>4. CASE EvictAndStore(command, open)
    <2>1. PICK slot \in DOMAIN pending :
            /\ IsOldest(slot, EvictableSlots)
            /\ exchanges' = RecordTuningEviction(open, pending[slot])
            /\ pending' = Append(RemoveAt(pending, slot), command)
      BY <1>4 DEF EvictAndStore
    <2>2. pending[slot].kind \notin LifecycleKinds
      BY <2>1 DEF IsOldest, EvictableSlots
    <2> DEFINE rest == RemoveAt(pending, slot)
    <2>3. /\ rest \in Seq(Commands) /\ Len(rest) = Len(pending) - 1
          /\ \A j \in 1 .. Len(pending) - 1 :
               rest[j] = pending[IF j < slot THEN j ELSE j + 1]
      <3>1. slot \in 1 .. Len(pending)
        BY <1>0
      <3> QED
        BY <1>0, <3>1, RemoveAtFacts
    <2> HIDE DEF rest
    <2>4. pending' = Append(rest, command)
      BY <2>1 DEF rest
    <2>5. /\ pending' \in Seq(Commands) /\ Len(pending') = Len(pending)
          /\ pending'[Len(pending)] = command
          /\ \A j \in 1 .. Len(pending) - 1 :
               pending'[j] = pending[IF j < slot THEN j ELSE j + 1]
      <3>1. Len(rest) = Len(pending) - 1
        BY <2>3
      <3>2. rest \in Seq(Commands) /\ Len(pending) \in Nat
        BY <1>0, <2>3
      <3> QED
        BY <1>0, <2>3, <2>4, <3>1, <3>2, AppendFacts
    <2>6. ASSUME NEW j \in DOMAIN pending'
          PROVE  pending'[j] = command \/ \E i \in DOMAIN pending : pending'[j] = pending[i]
      <3>1. j \in 1 .. Len(pending)
        BY <1>0, <2>5
      <3>2. CASE j = Len(pending)
        BY <2>5, <3>2
      <3>3. CASE j # Len(pending)
        <4>1. j \in 1 .. Len(pending) - 1 /\ (IF j < slot THEN j ELSE j + 1) \in DOMAIN pending
          BY <1>0, <3>1, <3>3
        <4> QED
          BY <2>5, <4>1
      <3> QED
        BY <3>2, <3>3
    <2>7. ASSUME NEW i \in DOMAIN pending, i # slot
          PROVE  \E j \in DOMAIN pending' : pending'[j] = pending[i]
      <3>0. DOMAIN pending' = 1 .. Len(pending)
        BY <1>0, <2>5
      <3>1. CASE i < slot
        <4>1. i \in 1 .. Len(pending) - 1 /\ i \in DOMAIN pending'
          BY <1>0, <3>0, <3>1
        <4> QED
          BY <2>5, <3>1, <4>1
      <3>2. CASE i > slot
        <4>1. i - 1 \in 1 .. Len(pending) - 1 /\ ~ (i - 1 < slot) /\ i - 1 \in DOMAIN pending'
          BY <1>0, <3>0, <3>2
        <4>2. pending'[i - 1] = pending[i]
          BY <1>0, <2>5, <4>1
        <4> QED
          BY <4>1, <4>2
      <3> QED
        BY <1>0, <2>7, <3>1, <3>2
    <2> QED
      BY <1>4, <2>1, <2>2, <2>5, <2>6, <2>7
  <1>5. CASE Refuse(command, open)
    BY <1>1, <1>5 DEF Refuse, RejectUnaccepted, DropWhenFull
  <1> QED
    BY <1>2, <1>3, <1>4, <1>5 DEF SubmitLocked, Accept

\* submit_locked leaves the exchanges as it was given them, but for a recorded eviction.
LEMMA SubmitExchanges ==
  ASSUME NEW command, NEW open, open \in [DOMAIN open -> Exchanges], SubmitLocked(command, open)
  PROVE  /\ exchanges' \in [DOMAIN open -> Exchanges]
         /\ \/ exchanges' = open
            \/ \E i \in DOMAIN pending : exchanges' = RecordTuningEviction(open, pending[i])
  <1>1. CASE exchanges' = open
    BY <1>1
  <1>2. CASE EvictAndStore(command, open)
    <2>1. PICK slot \in DOMAIN pending : exchanges' = RecordTuningEviction(open, pending[slot])
      BY <1>2 DEF EvictAndStore
    <2>2. Refusal("mailbox_evicted", 0) \in Results
      BY DEF Refusal, Results
    <2>3. exchanges' \in [DOMAIN open -> Exchanges]
      BY <2>1, <2>2 DEF RecordTuningEviction, Exchanges
    <2> QED
      BY <2>1, <2>3
  <1> QED
    BY <1>1, <1>2
    DEF SubmitLocked, Accept, Refuse, Supersede, Store, RejectUnaccepted, DropWhenFull

\* submit_locked keeps at most one command per kind and identity, and no more than fit.
LEMMA SubmitOneSlot ==
  ASSUME TypeOK, OneSlotPerIdentity, NEW command \in Commands, NEW open,
         SubmitLocked(command, open)
  PROVE  OneSlotPerIdentity'
  <1> DEFINE Clash(c, d) == c.kind = d.kind /\ c.key = d.key
  <1>0. /\ pending \in Seq(Commands) /\ Len(pending) \in Nat
        /\ Len(pending) <= Capacity
        /\ \A i, j \in 1 .. Len(pending) : i # j => ~Clash(pending[i], pending[j])
    <2>1. pending \in Seq(Commands)
      BY DEF TypeOK
    <2>2. DOMAIN pending = 1 .. Len(pending) /\ Len(pending) \in Nat
      BY <2>1
    <2> QED
      BY <2>1, <2>2 DEF OneSlotPerIdentity
  <1> SUFFICES /\ pending' \in Seq(Commands) /\ Len(pending') <= Capacity
               /\ \A i, j \in 1 .. Len(pending') : i # j => ~Clash(pending'[i], pending'[j])
    BY DEF OneSlotPerIdentity
  <1>1. CASE Supersede(command, open)
    <2>1. PICK slot \in DOMAIN pending : /\ IsOldest(slot, SlotsOf(command))
                                         /\ pending' = [pending EXCEPT ![slot] = command]
      BY <1>1 DEF Supersede
    <2>2. Clash(pending[slot], command)
      BY <2>1 DEF IsOldest, SlotsOf
    <2>3. /\ pending' \in Seq(Commands) /\ Len(pending') = Len(pending)
          /\ \A i \in 1 .. Len(pending) : pending'[i] = IF i = slot THEN command ELSE pending[i]
      BY <1>0, <2>1
    <2> QED
      BY <1>0, <2>2, <2>3
  <1>2. CASE Store(command, open)
    <2>1. pending' = Append(pending, command) /\ Len(pending) < Capacity
      BY <1>2 DEF Store
    <2>2. \A i \in 1 .. Len(pending) : ~Clash(pending[i], command)
      BY <1>0, <1>2 DEF Store, SlotsOf
    <2>3. /\ Len(pending') = Len(pending) + 1 /\ pending' \in Seq(Commands)
          /\ \A i \in 1 .. Len(pending) : pending'[i] = pending[i]
          /\ pending'[Len(pending) + 1] = command
      BY <1>0, <2>1
    <2>4. Len(pending') <= Capacity
      BY <1>0, <2>1, <2>3, CapacityAssumption
    <2> HIDE DEF Clash
    <2>5. ASSUME NEW i \in 1 .. Len(pending'), NEW j \in 1 .. Len(pending'), i < j
          PROVE  ~Clash(pending'[i], pending'[j])
      <3>1. i \in 1 .. Len(pending)
        BY <1>0, <2>3, <2>5
      <3>2. CASE j = Len(pending) + 1
        BY <2>2, <2>3, <3>1, <3>2
      <3>3. CASE j # Len(pending) + 1
        <4>1. j \in 1 .. Len(pending) /\ i # j
          BY <1>0, <2>3, <2>5, <3>3
        <4> QED
          BY <1>0, <2>3, <3>1, <4>1
      <3> QED
        BY <3>2, <3>3
    <2>6. \A c, d : Clash(c, d) => Clash(d, c)
      BY DEF Clash
    <2> QED
      BY <1>0, <2>3, <2>4, <2>5, <2>6
  <1>3. CASE EvictAndStore(command, open)
    <2>1. PICK slot \in DOMAIN pending : pending' = Append(RemoveAt(pending, slot), command)
      BY <1>3 DEF EvictAndStore
    <2>2. \A i \in 1 .. Len(pending) : ~Clash(pending[i], command)
      BY <1>0, <1>3 DEF EvictAndStore, SlotsOf
    <2> DEFINE rest == RemoveAt(pending, slot)
               From(j) == IF j < slot THEN j ELSE j + 1
    <2>3. /\ rest \in Seq(Commands) /\ Len(rest) = Len(pending) - 1
          /\ \A j \in 1 .. Len(pending) - 1 : rest[j] = pending[From(j)]
      <3>1. slot \in 1 .. Len(pending)
        BY <1>0
      <3> QED
        BY <1>0, <3>1, RemoveAtFacts, Zenon
    <2> HIDE DEF rest, Clash
    <2>4. /\ pending' \in Seq(Commands) /\ Len(pending') = Len(pending)
          /\ pending'[Len(pending)] = command
          /\ \A j \in 1 .. Len(pending) - 1 : pending'[j] = pending[From(j)]
      BY <1>0, <2>1, <2>3, AppendFacts DEF rest
    <2>5. ASSUME NEW i \in 1 .. Len(pending'), NEW j \in 1 .. Len(pending'), i < j
          PROVE  ~Clash(pending'[i], pending'[j])
      <3>1. i \in 1 .. Len(pending) - 1 /\ From(i) \in 1 .. Len(pending)
        BY <1>0, <2>4, <2>5
      <3>2. CASE j = Len(pending)
        BY <2>2, <2>4, <3>1, <3>2
      <3>3. CASE j # Len(pending)
        <4>1. j \in 1 .. Len(pending) - 1
          <5>1. j \in 1 .. Len(pending)
            BY <2>4
          <5> QED
            BY <1>0, <3>3, <5>1
        <4>2. slot \in Int /\ i \in Int /\ j \in Int
          BY <1>0, <3>1, <4>1
        <4>3. From(j) \in 1 .. Len(pending) /\ From(i) # From(j)
          BY <1>0, <2>5, <4>1, <4>2
        <4> QED
          BY <1>0, <2>4, <3>1, <4>1, <4>3
      <3> QED
        BY <3>2, <3>3
    <2>6. \A c, d : Clash(c, d) => Clash(d, c)
      BY DEF Clash
    <2> QED
      BY <1>0, <2>4, <2>5, <2>6
  <1>4. CASE Refuse(command, open)
    BY <1>0, <1>4 DEF Refuse, RejectUnaccepted, DropWhenFull
  <1> QED
    BY <1>1, <1>2, <1>3, <1>4 DEF SubmitLocked, Accept

\* The counters of the conservation law after the increments ds (submitted), da (accepted), ...
Moved(ds, da, dsup, dd, du, dt, dr) ==
  /\ stats'["submitted"] = stats["submitted"] + ds
  /\ stats'["accepted"] = stats["accepted"] + da
  /\ stats'["superseded"] = stats["superseded"] + dsup
  /\ stats'["dropped"] = stats["dropped"] + dd
  /\ stats'["rejected_unaccepted_kind"] = stats["rejected_unaccepted_kind"] + du
  /\ stats'["rejected_tuning"] = stats["rejected_tuning"] + dt
  /\ stats'["rate_limited"] = stats["rate_limited"] + dr
  /\ stats'["drained"] = stats["drained"]

\* Conservation with n pending commands.
Ledger(n) ==
  /\ stats["accepted"] = n + stats["drained"] + stats["superseded"] + evicted
  /\ stats["submitted"] = stats["accepted"] + (stats["dropped"] - evicted)
                          + stats["rejected_unaccepted_kind"] + stats["rejected_tuning"]
                          + stats["rate_limited"]

\* Conservation is the ledger of the pending commands.
LEMMA ConservationIsLedger == Conservation <=> Ledger(Len(pending))
  BY DEF Conservation, Ledger

\* submit_locked accounts for the submitted command.
LEMMA SubmitConserves ==
  ASSUME TypeOK, Conservation, NEW command \in Commands, NEW open, SubmitLocked(command, open)
  PROVE  Conservation' /\ stats' \in [Counters -> Nat] /\ evicted' \in Nat
  <1>0. /\ pending \in Seq(Commands) /\ Len(pending) \in Nat
        /\ stats \in [Counters -> Nat]
    BY DEF TypeOK
  <1>01. stats \in [Counters -> Nat]
    BY <1>0
  <1>02. Len(pending) \in Nat
    BY <1>0
  <1>00. evicted \in Nat
    BY DEF TypeOK
  <1>000. stats' \in [Counters -> Nat] /\ evicted' \in Nat
    <2>1. \A fields : Count(fields) \in [Counters -> Nat]
      BY <1>0 DEF Count
    <2> QED
      BY <1>00, <2>1
      DEF SubmitLocked, Accept, Refuse, Supersede, Store, EvictAndStore, RejectUnaccepted, DropWhenFull
  <1> SUFFICES Conservation'
    BY <1>000
  <1>1. CASE Supersede(command, open)
    <2>1. stats' = Count({"submitted", "accepted", "superseded"})
      BY <1>0, <1>1 DEF Supersede
    <2>2. Len(pending') = Len(pending)
      BY <1>0, <1>1 DEF Supersede
    <2>3. evicted' = evicted
      BY <1>0, <1>1 DEF Supersede
    <2>9. Moved(1, 1, 1, 0, 0, 0, 0)
      BY <1>0, <2>1 DEF Moved, Count, Counters
    <2>10. ASSUME NEW n \in Nat, Ledger(n) PROVE Ledger(n)'
      BY <1>01, <1>00, <1>000, <2>3, <2>9, <2>10 DEF Ledger, Moved, Counters
    <2> QED
      BY <1>02, <2>2, <2>10, ConservationIsLedger DEF Conservation, Ledger
  <1>2. CASE Store(command, open)
    <2>1. stats' = Count({"submitted", "accepted"})
      BY <1>0, <1>2 DEF Store
    <2>2. Len(pending') = Len(pending) + 1
      BY <1>0, <1>2 DEF Store
    <2>3. evicted' = evicted
      BY <1>0, <1>2 DEF Store
    <2>9. Moved(1, 1, 0, 0, 0, 0, 0)
      BY <1>0, <2>1 DEF Moved, Count, Counters
    <2>10. ASSUME NEW n \in Nat, Ledger(n) PROVE Ledger(n + 1)'
      BY <1>01, <1>00, <1>000, <2>3, <2>9, <2>10 DEF Ledger, Moved, Counters
    <2> QED
      BY <1>02, <2>2, <2>10, ConservationIsLedger DEF Conservation, Ledger
  <1>3. CASE EvictAndStore(command, open)
    <2>1. PICK slot \in DOMAIN pending : pending' = Append(RemoveAt(pending, slot), command)
      BY <1>3 DEF EvictAndStore
    <2>2. RemoveAt(pending, slot) \in Seq(Commands) /\ Len(RemoveAt(pending, slot)) = Len(pending) - 1
      BY <1>0, RemoveAtFacts
    <2>3. Len(pending') = Len(pending)
      BY <1>0, <2>1, <2>2, AppendFacts
    <2>4. stats' = Count({"submitted", "accepted", "dropped"})
      BY <1>3 DEF EvictAndStore
    <2>5. evicted' = evicted + 1
      BY <1>3 DEF EvictAndStore
    <2>9. Moved(1, 1, 0, 1, 0, 0, 0)
      BY <1>0, <2>4 DEF Moved, Count, Counters
    <2>10. ASSUME NEW n \in Nat, Ledger(n) PROVE Ledger(n)'
      BY <1>01, <1>00, <1>000, <2>5, <2>9, <2>10 DEF Ledger, Moved, Counters
    <2> QED
      BY <1>02, <2>3, <2>5, <2>10, ConservationIsLedger DEF Conservation, Ledger
  <1>4. CASE RejectUnaccepted(command, open)
    <2>1. stats' = Count({"submitted", "rejected_unaccepted_kind"})
      BY <1>4 DEF RejectUnaccepted
    <2>2. pending' = pending
      BY <1>4 DEF RejectUnaccepted
    <2>3. evicted' = evicted
      BY <1>4 DEF RejectUnaccepted
    <2>9. Moved(1, 0, 0, 0, 1, 0, 0)
      BY <1>0, <2>1 DEF Moved, Count, Counters
    <2>10. ASSUME NEW n \in Nat, Ledger(n) PROVE Ledger(n)'
      BY <1>01, <1>00, <1>000, <2>3, <2>9, <2>10 DEF Ledger, Moved, Counters
    <2> QED
      BY <1>02, <2>2, <2>10, ConservationIsLedger DEF Conservation, Ledger
  <1>5. CASE DropWhenFull(command, open)
    <2>1. PICK more \in {{}, {"dropped_lifecycle"}} :
            stats' = Count({"submitted", "dropped"} \cup more)
      BY <1>5 DEF DropWhenFull
    <2>2. pending' = pending
      BY <1>5 DEF DropWhenFull
    <2>3. evicted' = evicted
      BY <1>5 DEF DropWhenFull
    <2>9. Moved(1, 0, 0, 1, 0, 0, 0)
      <3>1. CASE more = {}
        BY <1>0, <2>1, <3>1 DEF Moved, Count, Counters
      <3>2. CASE more = {"dropped_lifecycle"}
        BY <1>0, <2>1, <3>2 DEF Moved, Count, Counters
      <3> QED
        BY <3>1, <3>2
    <2>10. ASSUME NEW n \in Nat, Ledger(n) PROVE Ledger(n)'
      BY <1>01, <1>00, <1>000, <2>3, <2>9, <2>10 DEF Ledger, Moved, Counters
    <2> QED
      BY <1>02, <2>2, <2>10, ConservationIsLedger DEF Conservation, Ledger
  <1> QED
    BY <1>1, <1>2, <1>3, <1>4, <1>5 DEF SubmitLocked, Accept, Refuse

-----------------------------------------------------------------------------
(* submit_locked and the tuning exchanges *)

\* A recorded eviction touches the result of the one exchange whose unresolved request was evicted.
LEMMA EvictionFacts ==
  ASSUME NEW open, open \in [DOMAIN open -> Exchanges], NEW d \in Commands
  PROVE  /\ RecordTuningEviction(open, d) \in [DOMAIN open -> Exchanges]
         /\ \A c \in DOMAIN open :
              LET r == RecordTuningEviction(open, d)[c] IN
              /\ r.high_water = open[c].high_water
              /\ r.next_eligible = open[c].next_eligible
              /\ r.request = open[c].request
              /\ \/ r.result = open[c].result
                 \/ /\ r.result = Refusal("mailbox_evicted", 0)
                    /\ d.kind = "tuning" /\ d.request = r.request
              /\ d = Command("tuning", c, open[c].request) => r.result # NoResult
  <1>1. Refusal("mailbox_evicted", 0) \in Results /\ Refusal("mailbox_evicted", 0) # NoResult
    BY DEF Refusal, Results, NoResult
  <1>2. CASE /\ d.kind = "tuning" /\ d.key \in DOMAIN open
             /\ open[d.key].request = d.request /\ open[d.key].result = NoResult
    <2>1. RecordTuningEviction(open, d) =
            [open EXCEPT ![d.key].result = Refusal("mailbox_evicted", 0)]
      BY <1>2 DEF RecordTuningEviction
    <2> QED
      BY <1>1, <1>2, <2>1 DEF Exchanges, Command
  <1>3. CASE ~ (/\ d.kind = "tuning" /\ d.key \in DOMAIN open
                /\ open[d.key].request = d.request /\ open[d.key].result = NoResult)
    <2>1. RecordTuningEviction(open, d) = open
      BY <1>3 DEF RecordTuningEviction
    <2> QED
      BY <1>3, <2>1 DEF Command
  <1> QED
    BY <1>2, <1>3

\* submit_locked changes nothing of an exchange but, by an eviction, its result.
LEMMA SubmitFields ==
  ASSUME TypeOK, NEW command \in Commands, NEW open, open \in [DOMAIN open -> Exchanges],
         SubmitLocked(command, open)
  PROVE  /\ DOMAIN exchanges' = DOMAIN open
         /\ exchanges' \in [DOMAIN open -> Exchanges]
         /\ \A c \in DOMAIN open :
              /\ exchanges'[c].high_water = open[c].high_water
              /\ exchanges'[c].next_eligible = open[c].next_eligible
              /\ exchanges'[c].request = open[c].request
              /\ \/ exchanges'[c].result = open[c].result
                 \/ /\ exchanges'[c].result = Refusal("mailbox_evicted", 0)
                    /\ \E i \in DOMAIN pending :
                         pending[i].kind = "tuning" /\ pending[i].request = exchanges'[c].request
  <1>1. exchanges' = open \/ \E i \in DOMAIN pending : exchanges' = RecordTuningEviction(open, pending[i])
    BY SubmitExchanges
  <1>2. CASE exchanges' = open
    BY <1>2
  <1>3. ASSUME NEW i \in DOMAIN pending, exchanges' = RecordTuningEviction(open, pending[i])
        PROVE  /\ exchanges' \in [DOMAIN open -> Exchanges]
               /\ \A c \in DOMAIN open :
                    /\ exchanges'[c].high_water = open[c].high_water
                    /\ exchanges'[c].next_eligible = open[c].next_eligible
                    /\ exchanges'[c].request = open[c].request
                    /\ \/ exchanges'[c].result = open[c].result
                       \/ /\ exchanges'[c].result = Refusal("mailbox_evicted", 0)
                          /\ pending[i].kind = "tuning"
                          /\ pending[i].request = exchanges'[c].request
    <2>1. pending[i] \in Commands
      BY DEF TypeOK
    <2> QED
      BY <1>3, <2>1, EvictionFacts
  <1> QED
    BY <1>1, <1>2, <1>3

\* An accepted command is pending afterwards.
LEMMA AcceptStores ==
  ASSUME TypeOK, NEW command \in Commands, NEW open, Accept(command, open)
  PROVE  \E j \in DOMAIN pending' : pending'[j] = command
  <1>0. pending \in Seq(Commands) /\ Len(pending) \in Nat
    BY DEF TypeOK
  <1>1. CASE Supersede(command, open)
    <2>1. PICK slot \in DOMAIN pending : pending' = [pending EXCEPT ![slot] = command]
      BY <1>1 DEF Supersede
    <2> QED
      BY <1>0, <2>1
  <1>2. CASE Store(command, open)
    <2>1. pending' = Append(pending, command)
      BY <1>2 DEF Store
    <2>2. Len(pending) + 1 \in DOMAIN pending' /\ pending'[Len(pending) + 1] = command
      BY <1>0, <2>1
    <2> QED
      BY <2>2
  <1>3. CASE EvictAndStore(command, open)
    <2>1. PICK slot \in DOMAIN pending : pending' = Append(RemoveAt(pending, slot), command)
      BY <1>3 DEF EvictAndStore
    <2>2. slot \in 1 .. Len(pending)
      BY <1>0
    <2>3. RemoveAt(pending, slot) \in Seq(Commands)
      BY <1>0, <2>2, RemoveAtFacts
    <2> DEFINE rest == RemoveAt(pending, slot)
    <2> HIDE DEF rest
    <2>4. rest \in Seq(Commands) /\ pending' = Append(rest, command)
      BY <2>1, <2>3 DEF rest
    <2>5. Len(rest) + 1 \in DOMAIN pending' /\ pending'[Len(rest) + 1] = command
      BY <2>4
    <2> QED
      BY <2>5
  <1> QED
    BY <1>1, <1>2, <1>3 DEF Accept

\* An unresolved request stays where it can be answered, if the operation that submits left it
\* there: submitted and accepted just now, in the batch, or pending and not superseded.
LEMMA SubmitNeverLost ==
  ASSUME TypeOK, NEW command \in Commands, NEW open, open \in [DOMAIN open -> Exchanges],
         SubmitLocked(command, open), UNCHANGED <<batch, stepping>>,
         \A c \in DOMAIN open :
           open[c].request # 0 /\ open[c].result = NoResult =>
             \/ command = Command("tuning", c, open[c].request) /\ Accept(command, open)
             \/ stepping /\ \E i \in DOMAIN batch : batch[i] = Command("tuning", c, open[c].request)
             \/ /\ \E i \in DOMAIN pending : pending[i] = Command("tuning", c, open[c].request)
                /\ ~ (command.kind = "tuning" /\ command.key = c)
  PROVE  TuningRequestIsNeverLost'
  <1> SUFFICES ASSUME NEW c \in DOMAIN exchanges',
                      exchanges'[c].request # 0, exchanges'[c].result = NoResult
               PROVE  \/ \E i \in DOMAIN pending' :
                           pending'[i] = Command("tuning", c, exchanges'[c].request)
                      \/ stepping' /\ \E i \in DOMAIN batch' :
                           batch'[i] = Command("tuning", c, exchanges'[c].request)
    BY DEF TuningRequestIsNeverLost, Command
  <1>1. /\ c \in DOMAIN open /\ exchanges'[c].request = open[c].request
        /\ open[c].result = NoResult
    <2>1. Refusal("mailbox_evicted", 0) # NoResult
      BY DEF Refusal, NoResult
    <2> QED
      BY <2>1, SubmitFields
  <1>2. CASE Accept(command, open) /\ command = Command("tuning", c, open[c].request)
    BY <1>1, <1>2, AcceptStores
  <1>3. CASE stepping /\ \E i \in DOMAIN batch : batch[i] = Command("tuning", c, open[c].request)
    BY <1>1, <1>3
  <1>4. ASSUME NEW i \in DOMAIN pending, pending[i] = Command("tuning", c, open[c].request),
               ~ (command.kind = "tuning" /\ command.key = c)
        PROVE  \E j \in DOMAIN pending' : pending'[j] = Command("tuning", c, exchanges'[c].request)
    <2>1. pending[i].kind = "tuning" /\ pending[i].key = c /\ pending[i] \in Commands
      BY <1>4 DEF Command, TypeOK
    <2>2. \/ \E j \in DOMAIN pending' : pending'[j] = pending[i]
          \/ exchanges' = RecordTuningEviction(open, pending[i])
      BY <1>4, <2>1, SubmitKeepsCommands
    <2>3. CASE exchanges' = RecordTuningEviction(open, pending[i])
      BY <1>1, <1>4, <2>1, <2>3, EvictionFacts
    <2> QED
      BY <1>1, <1>4, <2>2, <2>3
  <1> QED
    BY <1>1, <1>2, <1>3, <1>4

\* A recorded eviction answers a request that was made.
LEMMA SubmitAnswers ==
  ASSUME TypeOK, TuningHasId, NEW command \in Commands, NEW open,
         open \in [DOMAIN open -> Exchanges], SubmitLocked(command, open), tick' = tick,
         \A c \in DOMAIN open :
           open[c].result # NoResult => open[c].request # 0 /\ open[c].result.tick <= tick
  PROVE  ResultAnswersRequest'
  <1> SUFFICES ASSUME NEW c \in DOMAIN exchanges', exchanges'[c].result # NoResult
               PROVE  exchanges'[c].request # 0 /\ exchanges'[c].result.tick <= tick'
    BY DEF ResultAnswersRequest
  <1>1. c \in DOMAIN open /\ exchanges'[c].request = open[c].request
    BY SubmitFields
  <1>2. CASE exchanges'[c].result = open[c].result
    BY <1>1, <1>2
  <1>3. CASE /\ exchanges'[c].result = Refusal("mailbox_evicted", 0)
             /\ \E i \in DOMAIN pending :
                  pending[i].kind = "tuning" /\ pending[i].request = exchanges'[c].request
    <2>1. exchanges'[c].request # 0
      BY <1>3 DEF TuningHasId
    <2>2. exchanges'[c].result.tick = 0 /\ tick \in Nat
      BY <1>3 DEF Refusal, TypeOK
    <2> QED
      BY <2>1, <2>2
  <1> QED
    BY <1>1, <1>2, <1>3, SubmitFields

-----------------------------------------------------------------------------
(* One lemma per operation *)

\* The interval is a number of clock units.
LEMMA IntervalIsNat == IntervalMs * Millisecond \in Nat
  BY BoundsAssumption

\* Init establishes the inductive invariant.
LEMMA InitInv == Init => Inv
  <1> SUFFICES ASSUME Init PROVE Inv
    OBVIOUS
  <1>1. TypeOK
    <2>1. exchanges \in [DOMAIN exchanges -> Exchanges] /\ DOMAIN exchanges = {}
      BY DEF Init
    <2>2. stats \in [Counters -> Nat]
      BY DEF Init
    <2>3. claims \in [Controllers -> Seq(Nat)] /\ pending \in Seq(Commands) /\ batch \in Seq(Commands)
      BY DEF Init
    <2> QED
      BY <2>1, <2>2, <2>3 DEF Init, TypeOK
  <1>2. OneSlotPerIdentity
    BY CapacityAssumption DEF Init, OneSlotPerIdentity
  <1>3. Conservation
    BY DEF Init, Conservation, Counters
  <1>4. TuningHasId /\ TuningRequestIsNeverLost /\ ResultAnswersRequest /\ EligibleInv
    BY DEF Init, TuningHasId, TuningRequestIsNeverLost, ResultAnswersRequest, EligibleInv
  <1>5. ClaimInv /\ AnsweredOnce
    BY DEF Init, ClaimInv, AnsweredOnce
  <1> QED
    BY <1>1, <1>2, <1>3, <1>4, <1>5 DEF Inv

\* submit preserves the invariant.
LEMMA SubmitInv ==
  ASSUME Inv, NEW kind \in Kinds, NEW key \in Keys, Submit(kind, key)
  PROVE  Inv'
  <1> DEFINE command == Command(kind, key, 0)
  <1>1. /\ command \in Commands /\ command.kind # "tuning"
        /\ SubmitLocked(command, exchanges)
        /\ UNCHANGED <<worker, now, retired, lost, claims>>
    BY KindsAssumption DEF Command, Commands, Submit, SubmitLocked
  <1>2. exchanges \in [DOMAIN exchanges -> Exchanges] /\ TypeOK
    BY DEF Inv, TypeOK
  <1> HIDE DEF command
  <1>3. TypeOK'
    <2>1. pending' \in Seq(Commands)
      BY <1>1, <1>2, SubmitKeepsCommands
    <2>2. stats' \in [Counters -> Nat] /\ evicted' \in Nat
      BY <1>1, <1>2, SubmitConserves DEF Inv
    <2>3. DOMAIN exchanges' = DOMAIN exchanges /\ exchanges' \in [DOMAIN exchanges' -> Exchanges]
      BY <1>1, <1>2, SubmitFields
    <2> QED
      BY <1>1, <1>2, <2>1, <2>2, <2>3 DEF TypeOK, worker
  <1>4. OneSlotPerIdentity'
    BY <1>1, SubmitOneSlot DEF Inv
  <1>5. Conservation'
    BY <1>1, SubmitConserves DEF Inv
  <1>6. TuningHasId'
    BY <1>1, <1>2, SubmitKeepsCommands DEF Inv, TuningHasId, worker
  <1>7. TuningRequestIsNeverLost'
    BY <1>1, <1>2, SubmitNeverLost DEF Inv, TuningRequestIsNeverLost, worker
  <1>8. ResultAnswersRequest'
    BY <1>1, <1>2, SubmitAnswers DEF Inv, ResultAnswersRequest, worker
  <1>9. ClaimInv' /\ EligibleInv' /\ AnsweredOnce'
    BY <1>1, <1>2, SubmitFields DEF Inv, ClaimInv, EligibleInv, AnsweredOnce
  <1> QED
    BY <1>3, <1>4, <1>5, <1>6, <1>7, <1>8, <1>9 DEF Inv

\* register_controller preserves the invariant.
LEMMA RegisterInv ==
  ASSUME Inv, NEW c \in Controllers, RegisterController(c)
  PROVE  Inv'
  <1>1. /\ c \notin DOMAIN exchanges /\ c \notin retired
        /\ exchanges' = [d \in DOMAIN exchanges \cup {c} |->
                           IF d = c THEN NewExchange ELSE exchanges[d]]
        /\ UNCHANGED <<worker, pending, stats, now, retired, lost, evicted, claims>>
    BY DEF RegisterController
  <1>2. NewExchange \in Exchanges
    BY DEF NewExchange, Exchanges, Results, NoResult
  <1>3. TypeOK'
    BY <1>1, <1>2 DEF Inv, TypeOK, worker
  <1>4. OneSlotPerIdentity' /\ Conservation' /\ TuningHasId' /\ AnsweredOnce'
    BY <1>1 DEF Inv, OneSlotPerIdentity, Conservation, TuningHasId, AnsweredOnce, worker
  <1>5. TuningRequestIsNeverLost' /\ ResultAnswersRequest'
    BY <1>1 DEF Inv, TuningRequestIsNeverLost, ResultAnswersRequest, NewExchange, worker
  <1>6. ClaimInv'
    BY <1>1 DEF Inv, ClaimInv, NewExchange
  <1>7. EligibleInv'
    <2>1. 0 <= now + IntervalMs * Millisecond
      BY IntervalIsNat DEF Inv, TypeOK
    <2> QED
      BY <1>1, <2>1 DEF Inv, EligibleInv, NewExchange
  <1> QED
    BY <1>3, <1>4, <1>5, <1>6, <1>7 DEF Inv

\* retire_controller preserves the invariant.
LEMMA RetireInv ==
  ASSUME Inv, NEW c \in Controllers, RetireController(c)
  PROVE  Inv'
  <1> DEFINE open == [d \in DOMAIN exchanges \ {c} |-> exchanges[d]]
             command == Command("leave", c, 0)
  <1>1. /\ command \in Commands /\ command.kind # "tuning"
        /\ SubmitLocked(command, open)
        /\ retired' = retired \cup {c} /\ lost' \subseteq lost \cup {c}
        /\ UNCHANGED <<worker, now, claims>>
    BY KindsAssumption, KeysAssumption DEF Command, Commands, RetireController, SubmitLocked
  <1>2. /\ exchanges \in [DOMAIN exchanges -> Exchanges] /\ TypeOK
        /\ DOMAIN open = DOMAIN exchanges \ {c} /\ \A d \in DOMAIN open : open[d] = exchanges[d]
        /\ open \in [DOMAIN open -> Exchanges]
    BY DEF Inv, TypeOK
  <1> HIDE DEF command, open
  <1>3. TypeOK'
    <2>1. pending' \in Seq(Commands)
      BY <1>1, <1>2, SubmitKeepsCommands
    <2>2. stats' \in [Counters -> Nat] /\ evicted' \in Nat
      BY <1>1, <1>2, SubmitConserves DEF Inv
    <2>3. DOMAIN exchanges' = DOMAIN open /\ exchanges' \in [DOMAIN exchanges' -> Exchanges]
      BY <1>1, <1>2, SubmitFields
    <2>4. lost' \subseteq retired' /\ retired' \subseteq Controllers
          /\ DOMAIN exchanges' \subseteq Controllers \ retired'
      BY <1>1, <1>2, <2>3 DEF TypeOK
    <2> QED
      BY <1>1, <1>2, <2>1, <2>2, <2>3, <2>4 DEF TypeOK, worker
  <1>4. OneSlotPerIdentity'
    BY <1>1, SubmitOneSlot DEF Inv
  <1>5. Conservation'
    BY <1>1, SubmitConserves DEF Inv
  <1>6. TuningHasId'
    BY <1>1, <1>2, SubmitKeepsCommands DEF Inv, TuningHasId, worker
  <1>7. TuningRequestIsNeverLost'
    BY <1>1, <1>2, SubmitNeverLost DEF Inv, TuningRequestIsNeverLost, worker
  <1>8. ResultAnswersRequest'
    BY <1>1, <1>2, SubmitAnswers DEF Inv, ResultAnswersRequest, worker
  <1>9. ClaimInv' /\ EligibleInv' /\ AnsweredOnce'
    BY <1>1, <1>2, SubmitFields DEF Inv, ClaimInv, EligibleInv, AnsweredOnce
  <1> QED
    BY <1>3, <1>4, <1>5, <1>6, <1>7, <1>8, <1>9 DEF Inv

\* A refused tuning request leaves the exchange alone, or only spends its id.
LEMMA RejectTuningInv ==
  ASSUME Inv, NEW c \in Controllers, NEW request \in Nat, NEW ok \in BOOLEAN,
         RejectTuning(c, request, ok) \/ RejectTuningInFlight(c, request)
  PROVE  Inv'
  <1>0. TypeOK /\ exchanges \in [DOMAIN exchanges -> Exchanges] /\ stats \in [Counters -> Nat]
    BY DEF Inv, TypeOK
  <1>1. UNCHANGED <<worker, pending, now, retired, lost, evicted, claims>>
    BY DEF RejectTuning, RejectTuningInFlight
  <1>2. \/ stats' = Count({"submitted", "rejected_tuning"})
        \/ stats' = Count({"submitted", "rejected_unaccepted_kind"})
    BY DEF RejectTuning, RejectTuningInFlight
  <1>3. \/ exchanges' = exchanges
        \/ /\ c \in DOMAIN exchanges /\ request > exchanges[c].high_water
           /\ exchanges' = [exchanges EXCEPT ![c].high_water = request]
    BY DEF RejectTuning, RejectTuningInFlight, FreshRequest
  <1>4. /\ DOMAIN exchanges' = DOMAIN exchanges /\ exchanges' \in [DOMAIN exchanges -> Exchanges]
        /\ \A d \in DOMAIN exchanges :
             /\ exchanges'[d].high_water >= exchanges[d].high_water
             /\ exchanges'[d].next_eligible = exchanges[d].next_eligible
             /\ exchanges'[d].request = exchanges[d].request
             /\ exchanges'[d].result = exchanges[d].result
    BY <1>0, <1>3 DEF Exchanges
  <1>5. stats' \in [Counters -> Nat]
    BY <1>0, <1>2 DEF Count
  <1>6. TypeOK'
    BY <1>0, <1>1, <1>4, <1>5 DEF TypeOK, worker
  <1>7. Conservation'
    <2>1. evicted \in Nat /\ evicted' = evicted
      BY <1>0, <1>1 DEF TypeOK
    <2>2. Moved(1, 0, 0, 0, 0, 1, 0) \/ Moved(1, 0, 0, 0, 1, 0, 0)
      BY <1>0, <1>2 DEF Moved, Count, Counters
    <2>3. stats \in [Counters -> Nat]
      BY <1>0
    <2>4. ASSUME NEW n \in Nat, Ledger(n) PROVE Ledger(n)'
      BY <1>5, <2>1, <2>2, <2>3, <2>4 DEF Ledger, Moved, Counters
    <2>5. Len(pending) \in Nat /\ pending' = pending
      BY <1>0, <1>1 DEF TypeOK
    <2> QED
      BY <2>4, <2>5, ConservationIsLedger DEF Inv, Conservation, Ledger
  <1>8. OneSlotPerIdentity' /\ TuningHasId' /\ AnsweredOnce'
    BY <1>1 DEF Inv, OneSlotPerIdentity, TuningHasId, AnsweredOnce, worker
  <1>9. TuningRequestIsNeverLost' /\ ResultAnswersRequest'
    BY <1>1, <1>4 DEF Inv, TuningRequestIsNeverLost, ResultAnswersRequest, worker
  <1>10. ClaimInv'
    <2>1. \A d \in DOMAIN exchanges :
            exchanges[d].high_water \in Nat /\ exchanges'[d].high_water \in Nat
            /\ exchanges[d].request \in Nat
      BY <1>0, <1>4 DEF Exchanges
    <2>2. \A d \in Controllers : \A i \in DOMAIN claims[d] : claims[d][i] \in Nat
      BY <1>0 DEF TypeOK
    <2> QED
      BY <1>1, <1>4, <2>1, <2>2 DEF Inv, ClaimInv
  <1>11. EligibleInv'
    BY <1>1, <1>4 DEF Inv, EligibleInv
  <1> QED
    BY <1>6, <1>7, <1>8, <1>9, <1>10, <1>11 DEF Inv

\* The retry advice is a number of milliseconds within the interval, and waiting it is enough.
LEMMA RetryAfterFacts ==
  ASSUME NEW eligible \in Nat, NEW at \in Nat, at < eligible
  PROVE  /\ RetryAfter(eligible, at) \in Nat
         /\ RetryAfter(eligible, at) <= IntervalMs
         /\ \/ RetryAfter(eligible, at) = IntervalMs
            \/ at + RetryAfter(eligible, at) * Millisecond >= eligible
  <1> DEFINE remaining == (eligible - at + Millisecond - 1) \div Millisecond
  <1>1. Millisecond \in Nat /\ Millisecond > 0 /\ IntervalMs \in Nat /\ IntervalMs > 0
    BY BoundsAssumption
  <1>2. remaining \in Int /\ remaining * Millisecond >= eligible - at
    BY <1>1
  <1> HIDE DEF remaining
  <1>3. RetryAfter(eligible, at) =
          IF remaining < 1 THEN 1 ELSE IF remaining > IntervalMs THEN IntervalMs ELSE remaining
    BY DEF RetryAfter, remaining
  <1>4. CASE remaining < 1
    <2>1. remaining * Millisecond <= 0
      BY <1>1, <1>2, <1>4
    <2>2. eligible - at \in Int /\ eligible - at > 0 /\ remaining * Millisecond \in Int
      BY <1>1, <1>2
    <2> QED
      BY <1>2, <2>1, <2>2
  <1>5. CASE remaining > IntervalMs
    <2>1. RetryAfter(eligible, at) = IntervalMs
      BY <1>1, <1>2, <1>3, <1>5
    <2> QED
      BY <1>1, <2>1
  <1>6. CASE remaining >= 1 /\ remaining <= IntervalMs
    BY <1>1, <1>2, <1>3, <1>6
  <1> QED
    BY <1>1, <1>2, <1>4, <1>5, <1>6

\* A rate-limited request preserves the invariant.
LEMMA RateLimitInv ==
  ASSUME Inv, NEW c \in Controllers, NEW request \in Nat, NEW at \in Nat,
         RateLimitTuning(c, request, at)
  PROVE  Inv'
  <1>0. /\ TypeOK /\ exchanges \in [DOMAIN exchanges -> Exchanges] /\ stats \in [Counters -> Nat]
        /\ c \in DOMAIN exchanges /\ exchanges[c] \in Exchanges
    BY DEF Inv, TypeOK, RateLimitTuning, FreshRequest
  <1> DEFINE retry == RetryAfter(exchanges[c].next_eligible, at)
  <1>1. /\ request > exchanges[c].high_water /\ request \in 1 .. MaxRequestId
        /\ exchanges[c].request = 0 /\ at < exchanges[c].next_eligible
        /\ exchanges' = [exchanges EXCEPT ![c].high_water = request, ![c].request = request,
                                          ![c].result = Refusal("rate_limited", retry)]
        /\ stats' = Count({"submitted", "rate_limited"})
        /\ UNCHANGED <<worker, pending, now, retired, lost, evicted, claims>>
    BY DEF RateLimitTuning, FreshRequest
  <1>2. retry \in Nat
    BY <1>0, <1>1, RetryAfterFacts DEF Exchanges
  <1> HIDE DEF retry
  <1>3. /\ Refusal("rate_limited", retry) \in Results
        /\ Refusal("rate_limited", retry) # NoResult
        /\ Refusal("rate_limited", retry).tick = 0
    BY <1>2 DEF Refusal, Results, NoResult
  <1>4. /\ DOMAIN exchanges' = DOMAIN exchanges /\ exchanges' \in [DOMAIN exchanges -> Exchanges]
        /\ \A d \in DOMAIN exchanges : d # c => exchanges'[d] = exchanges[d]
        /\ exchanges'[c].high_water = request /\ exchanges'[c].request = request
        /\ exchanges'[c].next_eligible = exchanges[c].next_eligible
        /\ exchanges'[c].result = Refusal("rate_limited", retry)
    BY <1>0, <1>1, <1>3 DEF Exchanges
  <1>5. stats' \in [Counters -> Nat]
    BY <1>0, <1>1 DEF Count
  <1>6. TypeOK'
    BY <1>0, <1>1, <1>4, <1>5 DEF TypeOK, worker
  <1>7. Conservation'
    <2>1. evicted \in Nat /\ evicted' = evicted
      BY <1>0, <1>1 DEF TypeOK
    <2>2. Moved(1, 0, 0, 0, 0, 0, 1)
      BY <1>0, <1>1 DEF Moved, Count, Counters
    <2>3. stats \in [Counters -> Nat]
      BY <1>0
    <2>4. ASSUME NEW n \in Nat, Ledger(n) PROVE Ledger(n)'
      BY <1>5, <2>1, <2>2, <2>3, <2>4 DEF Ledger, Moved, Counters
    <2>5. Len(pending) \in Nat /\ pending' = pending
      BY <1>0, <1>1 DEF TypeOK
    <2> QED
      BY <2>4, <2>5, ConservationIsLedger DEF Inv, Conservation, Ledger
  <1>8. OneSlotPerIdentity' /\ TuningHasId' /\ AnsweredOnce'
    BY <1>1 DEF Inv, OneSlotPerIdentity, TuningHasId, AnsweredOnce, worker
  <1>9. TuningRequestIsNeverLost'
    BY <1>1, <1>3, <1>4 DEF Inv, TuningRequestIsNeverLost, worker
  <1>10. ResultAnswersRequest'
    BY <1>0, <1>1, <1>3, <1>4 DEF Inv, ResultAnswersRequest, worker, TypeOK
  <1>11. ClaimInv'
    <2>1. \A i \in DOMAIN claims[c] : claims[c][i] \in Nat /\ claims[c][i] <= exchanges[c].high_water
      BY <1>0 DEF TypeOK, Inv, ClaimInv
    <2>2. exchanges[c].high_water \in Nat
      BY <1>0 DEF Exchanges
    <2>3. \A i \in DOMAIN claims[c] : claims[c][i] < request
      BY <1>1, <2>1, <2>2
    <2> QED
      BY <1>1, <1>4, <2>1, <2>3 DEF Inv, ClaimInv
  <1>12. EligibleInv'
    BY <1>0, <1>1, <1>4 DEF Inv, EligibleInv
  <1> QED
    BY <1>6, <1>7, <1>8, <1>9, <1>10, <1>11, <1>12 DEF Inv

\* An admitted tuning request preserves the invariant.
LEMMA AdmitInv ==
  ASSUME Inv, NEW c \in Controllers, NEW request \in Nat, NEW at \in Nat, at <= now,
         AdmitTuning(c, request, at)
  PROVE  Inv'
  <1> DEFINE command == Command("tuning", c, request)
             opened == [exchanges EXCEPT ![c].high_water = request, ![c].request = request,
                                         ![c].next_eligible = at + IntervalMs * Millisecond]
             full == [opened EXCEPT ![c].result = Refusal("mailbox_full", 0)]
  <1>0. /\ TypeOK /\ exchanges \in [DOMAIN exchanges -> Exchanges]
        /\ c \in DOMAIN exchanges /\ exchanges[c] \in Exchanges
        /\ request \in 1 .. MaxRequestId /\ request > exchanges[c].high_water
        /\ exchanges[c].request = 0
        /\ UNCHANGED <<worker, now, retired, lost, claims>>
    BY DEF Inv, TypeOK, AdmitTuning, FreshRequest
  <1>1. PICK open : /\ SubmitLocked(command, open)
                    /\ (open = opened /\ Accept(command, open)) \/ open = full
    <2>1. Accept(command, opened) \/ DropWhenFull(command, full)
      BY DEF AdmitTuning
    <2> HIDE DEF command, opened, full
    <2> QED
      BY <2>1 DEF SubmitLocked, Refuse
  <1>2. command \in Commands /\ command.kind = "tuning" /\ command.key = c /\ command.request = request
    BY KeysAssumption DEF Command, Commands
  <1>3. at + IntervalMs * Millisecond \in Nat
    BY IntervalIsNat
  <1>4. Refusal("mailbox_full", 0) \in Results /\ Refusal("mailbox_full", 0) # NoResult
        /\ Refusal("mailbox_full", 0).tick = 0
    BY DEF Refusal, Results, NoResult
  <1>5. /\ DOMAIN open = DOMAIN exchanges /\ open \in [DOMAIN open -> Exchanges]
        /\ \A d \in DOMAIN exchanges : d # c => open[d] = exchanges[d]
        /\ open[c].high_water = request /\ open[c].request = request
        /\ open[c].next_eligible = at + IntervalMs * Millisecond
        /\ \/ Accept(command, open) /\ open[c].result = exchanges[c].result
           \/ open[c].result = Refusal("mailbox_full", 0)
    <2>1. /\ DOMAIN opened = DOMAIN exchanges /\ opened \in [DOMAIN opened -> Exchanges]
          /\ \A d \in DOMAIN exchanges : d # c => opened[d] = exchanges[d]
          /\ opened[c].high_water = request /\ opened[c].request = request
          /\ opened[c].next_eligible = at + IntervalMs * Millisecond
          /\ opened[c].result = exchanges[c].result
      BY <1>0, <1>3 DEF Exchanges
    <2> HIDE DEF opened
    <2>2. /\ DOMAIN full = DOMAIN opened /\ full \in [DOMAIN opened -> Exchanges]
          /\ \A d \in DOMAIN opened : d # c => full[d] = opened[d]
          /\ full[c].high_water = opened[c].high_water /\ full[c].request = opened[c].request
          /\ full[c].next_eligible = opened[c].next_eligible
          /\ full[c].result = Refusal("mailbox_full", 0)
      BY <1>0, <1>4, <2>1 DEF Exchanges
    <2> HIDE DEF full
    <2> QED
      BY <1>1, <2>1, <2>2
  <1>6. exchanges[c].result = NoResult
    BY <1>0 DEF Inv, ResultAnswersRequest
  <1> HIDE DEF command, opened, full
  <1>7. TypeOK'
    <2>1. pending' \in Seq(Commands)
      BY <1>0, <1>1, <1>2, SubmitKeepsCommands
    <2>2. stats' \in [Counters -> Nat] /\ evicted' \in Nat
      BY <1>0, <1>1, <1>2, SubmitConserves DEF Inv
    <2>3. DOMAIN exchanges' = DOMAIN exchanges /\ exchanges' \in [DOMAIN exchanges' -> Exchanges]
      BY <1>0, <1>1, <1>2, <1>5, SubmitFields
    <2> QED
      BY <1>0, <2>1, <2>2, <2>3 DEF TypeOK, worker
  <1>8. OneSlotPerIdentity' /\ Conservation'
    BY <1>1, <1>2, SubmitOneSlot, SubmitConserves DEF Inv
  <1>9. TuningHasId'
    BY <1>0, <1>1, <1>2, SubmitKeepsCommands DEF Inv, TuningHasId, worker
  <1>10. TuningRequestIsNeverLost'
    <2>1. ASSUME NEW d \in DOMAIN open, open[d].request # 0, open[d].result = NoResult
          PROVE  \/ command = Command("tuning", d, open[d].request) /\ Accept(command, open)
                 \/ stepping /\ \E i \in DOMAIN batch : batch[i] = Command("tuning", d, open[d].request)
                 \/ /\ \E i \in DOMAIN pending : pending[i] = Command("tuning", d, open[d].request)
                    /\ ~ (command.kind = "tuning" /\ command.key = d)
      <3>1. CASE d = c
        BY <1>1, <1>4, <1>5, <2>1, <3>1 DEF command
      <3>2. CASE d # c
        BY <1>2, <1>5, <2>1, <3>2 DEF Inv, TuningRequestIsNeverLost
      <3> QED
        BY <3>1, <3>2
    <2> QED
      BY <1>0, <1>1, <1>2, <1>5, <2>1, SubmitNeverLost DEF worker
  <1>11. ResultAnswersRequest'
    <2>1. ASSUME NEW d \in DOMAIN open, open[d].result # NoResult
          PROVE  open[d].request # 0 /\ open[d].result.tick <= tick
      <3>1. CASE d = c
        BY <1>0, <1>4, <1>5, <1>6, <2>1, <3>1 DEF TypeOK
      <3>2. CASE d # c
        BY <1>5, <2>1, <3>2 DEF Inv, ResultAnswersRequest
      <3> QED
        BY <3>1, <3>2
    <2> QED
      BY <1>0, <1>1, <1>2, <1>5, <2>1, SubmitAnswers DEF Inv, worker
  <1>12. /\ DOMAIN exchanges' = DOMAIN exchanges
         /\ \A d \in DOMAIN exchanges :
              /\ exchanges'[d].high_water = open[d].high_water
              /\ exchanges'[d].request = open[d].request
              /\ exchanges'[d].next_eligible = open[d].next_eligible
    BY <1>0, <1>1, <1>2, <1>5, SubmitFields
  <1>13. ClaimInv'
    <2>1. \A i \in DOMAIN claims[c] : claims[c][i] \in Nat /\ claims[c][i] <= exchanges[c].high_water
      BY <1>0 DEF TypeOK, Inv, ClaimInv
    <2>2. exchanges[c].high_water \in Nat
      BY <1>0 DEF Exchanges
    <2>3. \A i \in DOMAIN claims[c] : claims[c][i] < request
      BY <1>0, <2>1, <2>2
    <2> QED
      BY <1>0, <1>5, <1>12, <2>1, <2>3 DEF Inv, ClaimInv
  <1>14. EligibleInv'
    <2>1. at + IntervalMs * Millisecond <= now + IntervalMs * Millisecond
      BY <1>0, IntervalIsNat DEF TypeOK
    <2> QED
      BY <1>0, <1>5, <1>12, <2>1 DEF Inv, EligibleInv
  <1>15. AnsweredOnce'
    BY <1>0 DEF Inv, AnsweredOnce
  <1> QED
    BY <1>7, <1>8, <1>9, <1>10, <1>11, <1>13, <1>14, <1>15 DEF Inv

\* drain preserves the invariant.
LEMMA DrainInv ==
  ASSUME Inv, Drain
  PROVE  Inv'
  <1>0. /\ TypeOK /\ pending \in Seq(Commands) /\ stats \in [Counters -> Nat] /\ evicted \in Nat
    BY DEF Inv, TypeOK
  <1>1. /\ ~stepping /\ stepping' = TRUE /\ batch' = pending /\ pending' = <<>>
        /\ UNCHANGED <<exchanges, now, tick, retired, lost, evicted, claims>>
    BY DEF Drain
  <1>2. stats' = [stats EXCEPT !["drains"] = @ + 1, !["drained"] = @ + Len(pending)]
    BY DEF Drain
  <1>3. ASSUME NEW n \in Nat, Ledger(n),
               stats' = [stats EXCEPT !["drains"] = @ + 1, !["drained"] = @ + n]
        PROVE  stats' \in [Counters -> Nat] /\ Ledger(0)'
    <2>1. stats' = [stats EXCEPT !["drains"] = @ + 1, !["drained"] = @ + n] /\ Ledger(n)
      BY <1>3
    <2>2. stats \in [Counters -> Nat] /\ evicted \in Nat /\ evicted' = evicted
      BY <1>0, <1>1
    <2>3. stats' \in [Counters -> Nat]
      BY <2>1, <2>2 DEF Counters
    <2> QED
      BY <2>1, <2>2, <2>3 DEF Ledger, Counters
  <1>4. Len(pending) \in Nat /\ Len(pending') = 0
    BY <1>0, <1>1
  <1>5. stats' \in [Counters -> Nat] /\ Conservation'
    BY <1>2, <1>3, <1>4, ConservationIsLedger DEF Inv, Conservation, Ledger
  <1>6. TypeOK'
    <2>1. pending' \in Seq(Commands) /\ batch' \in Seq(Commands)
      BY <1>0, <1>1
    <2> QED
      BY <1>0, <1>1, <1>5, <2>1 DEF TypeOK
  <1>7. OneSlotPerIdentity'
    BY <1>1, CapacityAssumption DEF OneSlotPerIdentity
  <1>8. TuningHasId' /\ TuningRequestIsNeverLost'
    BY <1>1 DEF Inv, TuningHasId, TuningRequestIsNeverLost
  <1>9. ResultAnswersRequest' /\ ClaimInv' /\ EligibleInv' /\ AnsweredOnce'
    BY <1>1 DEF Inv, ResultAnswersRequest, ClaimInv, EligibleInv, AnsweredOnce
  <1> QED
    BY <1>5, <1>6, <1>7, <1>8, <1>9 DEF Inv

\* complete_tuning_decisions preserves the invariant.
LEMMA CompleteInv ==
  ASSUME Inv, CompleteTuningDecisions
  PROVE  Inv'
  <1>0. TypeOK /\ exchanges \in [DOMAIN exchanges -> Exchanges] /\ tick \in Nat
    BY DEF Inv, TypeOK
  <1>1. /\ stepping /\ tick' = tick + 1 /\ stepping' = FALSE /\ batch' = <<>>
        /\ UNCHANGED <<pending, stats, now, retired, lost, evicted, claims>>
        /\ exchanges' = [c \in DOMAIN exchanges |->
                           IF Decides(c) THEN [exchanges[c] EXCEPT !.result = Decision(tick + 1)]
                                         ELSE exchanges[c]]
    BY DEF CompleteTuningDecisions
  <1>2. Decision(tick + 1) \in Results /\ Decision(tick + 1) # NoResult
        /\ Decision(tick + 1).tick = tick + 1
    BY <1>0 DEF Decision, Results, NoResult
  <1>3. /\ DOMAIN exchanges' = DOMAIN exchanges /\ exchanges' \in [DOMAIN exchanges -> Exchanges]
        /\ \A c \in DOMAIN exchanges :
             /\ exchanges'[c].high_water = exchanges[c].high_water
             /\ exchanges'[c].next_eligible = exchanges[c].next_eligible
             /\ exchanges'[c].request = exchanges[c].request
             /\ IF Decides(c) THEN exchanges'[c].result = Decision(tick + 1)
                              ELSE exchanges'[c].result = exchanges[c].result
    BY <1>0, <1>1, <1>2 DEF Exchanges
  <1>4. TypeOK'
    <2>1. batch' \in Seq(Commands) /\ tick' \in Nat
      BY <1>0, <1>1
    <2> QED
      BY <1>0, <1>1, <1>3, <2>1 DEF TypeOK
  <1>5. OneSlotPerIdentity' /\ Conservation' /\ TuningHasId' /\ AnsweredOnce'
    BY <1>1 DEF Inv, OneSlotPerIdentity, Conservation, TuningHasId, AnsweredOnce
  <1>6. TuningRequestIsNeverLost'
    BY <1>1, <1>2, <1>3 DEF Inv, TuningRequestIsNeverLost, Decides
  <1>7. ResultAnswersRequest'
    <2> SUFFICES ASSUME NEW c \in DOMAIN exchanges, exchanges'[c].result # NoResult
                 PROVE  exchanges'[c].request # 0 /\ exchanges'[c].result.tick <= tick + 1
      BY <1>1, <1>3 DEF ResultAnswersRequest
    <2>1. CASE Decides(c)
      <3>1. exchanges[c].request # 0
        BY <2>1 DEF Inv, TuningHasId, Decides, Command
      <3> QED
        BY <1>0, <1>2, <1>3, <2>1, <3>1
    <2>2. CASE ~Decides(c)
      <3>1. exchanges[c].result.tick <= tick /\ exchanges[c].request # 0
        BY <1>3, <2>2 DEF Inv, ResultAnswersRequest
      <3>2. exchanges[c].result.tick \in Nat
        BY <1>0 DEF Exchanges, Results
      <3> QED
        BY <1>0, <1>3, <2>2, <3>1, <3>2
    <2> QED
      BY <2>1, <2>2
  <1>8. ClaimInv' /\ EligibleInv'
    BY <1>1, <1>3 DEF Inv, ClaimInv, EligibleInv
  <1> QED
    BY <1>4, <1>5, <1>6, <1>7, <1>8 DEF Inv

\* claim_tuning_result preserves the invariant.
LEMMA ClaimTuningInv ==
  ASSUME Inv, NEW c \in Controllers, NEW covering \in Nat, ClaimTuningResult(c, covering)
  PROVE  Inv'
  <1>0. /\ TypeOK /\ exchanges \in [DOMAIN exchanges -> Exchanges]
        /\ c \in DOMAIN exchanges /\ exchanges[c] \in Exchanges
        /\ claims \in [Controllers -> Seq(Nat)] /\ claims[c] \in Seq(Nat)
    BY DEF Inv, TypeOK, ClaimTuningResult
  <1>1. /\ exchanges[c].result # NoResult
        /\ exchanges' = [exchanges EXCEPT ![c].result = NoResult, ![c].request = 0]
        /\ claims' = [claims EXCEPT ![c] = Append(claims[c], exchanges[c].request)]
        /\ UNCHANGED <<worker, pending, stats, now, retired, lost, evicted>>
    BY <1>0 DEF ClaimTuningResult
  <1>2. NoResult \in Results
    BY DEF NoResult, Results
  <1>3. /\ DOMAIN exchanges' = DOMAIN exchanges /\ exchanges' \in [DOMAIN exchanges -> Exchanges]
        /\ \A d \in DOMAIN exchanges : d # c => exchanges'[d] = exchanges[d]
        /\ exchanges'[c].high_water = exchanges[c].high_water
        /\ exchanges'[c].next_eligible = exchanges[c].next_eligible
        /\ exchanges'[c].request = 0 /\ exchanges'[c].result = NoResult
    BY <1>0, <1>1, <1>2 DEF Exchanges
  <1>4. exchanges[c].request \in Nat /\ exchanges[c].request # 0 /\ exchanges[c].high_water \in Nat
        /\ exchanges[c].request <= exchanges[c].high_water
    BY <1>0, <1>1 DEF Inv, ResultAnswersRequest, Exchanges, ClaimInv
  <1>5. \A i \in DOMAIN claims[c] :
          claims[c][i] < exchanges[c].request /\ claims[c][i] <= exchanges[c].high_water
    BY <1>0, <1>4 DEF Inv, ClaimInv
  <1> DEFINE old == claims[c]
             request == exchanges[c].request
  <1>6. /\ Append(old, request) \in Seq(Nat)
        /\ Len(Append(old, request)) = Len(old) + 1
        /\ \A i \in 1 .. Len(old) : Append(old, request)[i] = old[i]
        /\ Append(old, request)[Len(old) + 1] = request
    BY <1>0, <1>4
  <1>7. claims' \in [Controllers -> Seq(Nat)] /\ claims'[c] = Append(old, request)
        /\ \A d \in Controllers : d # c => claims'[d] = claims[d]
    BY <1>0, <1>1, <1>6
  <1>8. TypeOK'
    BY <1>0, <1>1, <1>3, <1>7 DEF TypeOK, worker
  <1>9. OneSlotPerIdentity' /\ Conservation' /\ TuningHasId'
    BY <1>1 DEF Inv, OneSlotPerIdentity, Conservation, TuningHasId, worker
  <1>10. TuningRequestIsNeverLost' /\ ResultAnswersRequest' /\ EligibleInv'
    BY <1>1, <1>3 DEF Inv, TuningRequestIsNeverLost, ResultAnswersRequest, EligibleInv, worker
  <1>11. ASSUME NEW i \in DOMAIN claims'[c]
         PROVE  \/ i \in 1 .. Len(old) /\ claims'[c][i] = old[i]
                \/ i = Len(old) + 1 /\ claims'[c][i] = request
    <2>1. i \in 1 .. Len(old) + 1 /\ Len(old) \in Nat
      BY <1>0, <1>6, <1>7
    <2>2. CASE i = Len(old) + 1
      BY <1>6, <1>7, <2>2
    <2>3. CASE i # Len(old) + 1
      <3>1. i \in 1 .. Len(old)
        BY <2>1, <2>3
      <3>2. claims'[c][i] = old[i]
        BY <1>6, <1>7, <3>1
      <3> QED
        BY <3>1, <3>2
    <2> QED
      BY <2>2, <2>3
  <1>12. \A i \in 1 .. Len(old) : old[i] < request /\ old[i] <= exchanges[c].high_water
    BY <1>0, <1>5
  <1>13. ClaimInv'
    <2>1. \A i \in DOMAIN claims'[c] : claims'[c][i] <= exchanges'[c].high_water
      BY <1>3, <1>4, <1>11, <1>12
    <2> HIDE DEF old, request
    <2> QED
      BY <1>0, <1>1, <1>3, <1>4, <1>7, <2>1 DEF Inv, ClaimInv
  <1>14. AnsweredOnce'
    <2>1. ASSUME NEW i \in DOMAIN claims'[c], NEW j \in DOMAIN claims'[c], i < j
          PROVE  claims'[c][i] < claims'[c][j]
      <3>0. Len(old) \in Nat /\ i \in 1 .. Len(old) + 1
        BY <1>0, <1>6, <1>7
      <3>1. j \in 1 .. Len(old) + 1
        BY <1>0, <1>6, <1>7
      <3>2. i \in 1 .. Len(old) /\ claims'[c][i] = old[i]
        BY <1>11, <2>1, <3>0, <3>1
      <3>3. CASE j = Len(old) + 1
        BY <1>11, <1>12, <3>2, <3>3
      <3>4. CASE j \in 1 .. Len(old)
        <4>1. claims'[c][j] = old[j] /\ old[i] < old[j]
          BY <1>0, <1>11, <2>1, <3>2, <3>4 DEF Inv, AnsweredOnce
        <4> QED
          BY <3>2, <4>1
      <3> QED
        BY <1>11, <3>3, <3>4
    <2> HIDE DEF old, request
    <2> QED
      BY <1>7, <2>1 DEF Inv, AnsweredOnce
  <1> QED
    BY <1>8, <1>9, <1>10, <1>13, <1>14 DEF Inv

\* The passing of time preserves the invariant.
LEMMA ClockInv ==
  ASSUME Inv, ClockAdvances
  PROVE  Inv'
  <1>1. now \in Nat /\ now' = now + 1
        /\ UNCHANGED <<worker, pending, exchanges, stats, retired, lost, evicted, claims>>
    BY DEF Inv, TypeOK, ClockAdvances
  <1>2. EligibleInv'
    <2>1. \A c \in DOMAIN exchanges : exchanges[c].next_eligible \in Nat
      BY DEF Inv, TypeOK, Exchanges
    <2> QED
      BY <1>1, <2>1, IntervalIsNat DEF Inv, EligibleInv
  <1> QED
    BY <1>1, <1>2 DEF Inv, TypeOK, OneSlotPerIdentity, Conservation, TuningHasId,
      TuningRequestIsNeverLost, ResultAnswersRequest, ClaimInv, AnsweredOnce, worker

\* Every step preserves the invariant.
LEMMA NextInv == Inv /\ [Next]_vars => Inv'
  <1> SUFFICES ASSUME Inv, [Next]_vars PROVE Inv'
    OBVIOUS
  <1>0. tick \in Nat /\ now \in Nat
    BY DEF Inv, TypeOK
  <1>1. CASE UNCHANGED vars
    BY <1>1 DEF vars, Inv, TypeOK, OneSlotPerIdentity, Conservation, TuningHasId,
      TuningRequestIsNeverLost, ResultAnswersRequest, ClaimInv, AnsweredOnce, EligibleInv
  <1>2. ASSUME NEW kind \in Kinds, NEW key \in Keys, Submit(kind, key) PROVE Inv'
    BY <1>2, SubmitInv
  <1>3. ASSUME NEW c \in Controllers, RegisterController(c) \/ RetireController(c) PROVE Inv'
    BY <1>3, RegisterInv, RetireInv
  <1>4. ASSUME NEW c \in Controllers, NEW request \in 0 .. MaxRequestId + 1, TuningRequest(c, request)
        PROVE  Inv'
    <2>0. request \in Nat
      BY BoundsAssumption
    <2>1. ASSUME NEW ok \in BOOLEAN,
                 RejectTuning(c, request, ok) \/ RejectTuningInFlight(c, request)
          PROVE  Inv'
      BY <2>0, <2>1, RejectTuningInv
    <2>2. ASSUME NEW at \in 0 .. now, RateLimitTuning(c, request, at) PROVE Inv'
      BY <1>0, <2>0, <2>2, RateLimitInv
    <2>3. ASSUME NEW at \in 0 .. now, AdmitTuning(c, request, at) PROVE Inv'
      <3>1. at \in Nat /\ at <= now
        BY <1>0
      <3> QED
        BY <2>0, <2>3, <3>1, AdmitInv
    <2> QED
      BY <1>4, <2>1, <2>2, <2>3 DEF TuningRequest
  <1>5. ASSUME NEW c \in Controllers, NEW covering \in 0 .. tick, ClaimTuningResult(c, covering)
        PROVE  Inv'
    BY <1>0, <1>5, ClaimTuningInv
  <1>6. CASE Drain
    BY <1>6, DrainInv
  <1>7. CASE CompleteTuningDecisions
    BY <1>7, CompleteInv
  <1>8. CASE ClockAdvances
    BY <1>8, ClockInv
  <1> QED
    BY <1>1, <1>2, <1>3, <1>4, <1>5, <1>6, <1>7, <1>8 DEF Next

\* The invariant holds in every reachable state.
THEOREM InvariantHolds == Spec => []Inv
  BY InitInv, NextInv, PTL DEF Spec

-----------------------------------------------------------------------------
(* The properties *)

\* Type correctness of the mailbox, for any controllers, kinds and bounds.
THEOREM TypeCorrect == Spec => []TypeOK
  <1>1. Inv => TypeOK
    BY DEF Inv
  <1> QED
    BY <1>1, InvariantHolds, PTL

\* Capacity bounds distinct commanded identities, whatever is submitted in whatever order.
THEOREM CapacityBoundsIdentities == Spec => []OneSlotPerIdentity
  <1>1. Inv => OneSlotPerIdentity
    BY DEF Inv
  <1> QED
    BY <1>1, InvariantHolds, PTL

\* The statistics account for every submission.
THEOREM EveryCommandIsAccountedFor == Spec => []Conservation
  <1>1. Inv => Conservation
    BY DEF Inv
  <1> QED
    BY <1>1, InvariantHolds, PTL

\* An unresolved tuning request is always where its answer can still come from.
THEOREM NoTuningRequestIsLost == Spec => []TuningRequestIsNeverLost
  <1>1. Inv => TuningRequestIsNeverLost
    BY DEF Inv
  <1> QED
    BY <1>1, InvariantHolds, PTL

\* A result that waits to be claimed answers a request that was made.
THEOREM ResultsAnswerRequests == Spec => []ResultAnswersRequest
  <1>1. Inv => ResultAnswersRequest
    BY DEF Inv
  <1> QED
    BY <1>1, InvariantHolds, PTL

\* No request id of a controller is answered twice or out of order.
THEOREM AnswersAreOrdered == Spec => []AnsweredOnce
  <1>1. Inv => AnsweredOnce
    BY DEF Inv
  <1> QED
    BY <1>1, InvariantHolds, PTL

\* No operation but the worker's drain removes a pending lifecycle command.
THEOREM LifecycleCommandsSurvive == Spec => LifecycleIsNeverEvicted
  <1> DEFINE Kept == \A i \in DOMAIN pending :
                       pending[i].kind \in LifecycleKinds =>
                         \/ batch' = pending /\ stepping'
                         \/ \E j \in DOMAIN pending' : pending'[j].kind = pending[i].kind
                                                       /\ pending'[j].key = pending[i].key
  <1>1. ASSUME Inv, NEW command \in Commands, NEW open, SubmitLocked(command, open) PROVE Kept
    BY <1>1, SubmitKeepsCommands DEF Inv
  <1>2. Inv /\ [Next]_vars => Kept
    <2> SUFFICES ASSUME Inv, [Next]_vars PROVE Kept
      OBVIOUS
    <2>1. CASE pending' = pending
      BY <2>1
    <2>2. CASE Drain
      BY <2>2 DEF Drain
    <2>3. ASSUME NEW kind \in Kinds, NEW key \in Keys, Submit(kind, key) PROVE Kept
      <3>1. Command(kind, key, 0) \in Commands /\ SubmitLocked(Command(kind, key, 0), exchanges)
        BY <2>3 DEF Submit, SubmitLocked, Command, Commands
      <3> QED
        BY <1>1, <3>1
    <2>4. ASSUME NEW c \in Controllers, RetireController(c) PROVE Kept
      <3>1. Command("leave", c, 0) \in Commands
        BY KindsAssumption, KeysAssumption DEF Command, Commands
      <3>2. \E open : SubmitLocked(Command("leave", c, 0), open)
        BY <2>4 DEF RetireController, SubmitLocked
      <3> QED
        BY <1>1, <3>1, <3>2
    <2>5. ASSUME NEW c \in Controllers, NEW request \in 0 .. MaxRequestId + 1,
                 NEW at \in 0 .. now, AdmitTuning(c, request, at)
          PROVE  Kept
      <3>1. Command("tuning", c, request) \in Commands
        BY KeysAssumption, BoundsAssumption DEF Command, Commands
      <3>2. \E open : SubmitLocked(Command("tuning", c, request), open)
        BY <2>5 DEF AdmitTuning, SubmitLocked, Refuse
      <3> QED
        BY <1>1, <3>1, <3>2
    <2> HIDE DEF Kept
    <2> QED
      BY <2>1, <2>2, <2>3, <2>4, <2>5, Zenon
      DEF Next, TuningRequest, RegisterController, RejectTuning, RejectTuningInFlight,
        RateLimitTuning, ClaimTuningResult, CompleteTuningDecisions, ClockAdvances, vars
  <1> QED
    BY <1>2, InvariantHolds, PTL DEF Spec, LifecycleIsNeverEvicted

\* A client that waits as long as it was told is eligible, although submit reads the clock before
\* it takes the mutex and the advice is clamped to the interval.
THEOREM RetryAdviceIsEnough == Spec => RetryAdviceSuffices
  <1> DEFINE Limited(c) == /\ exchanges'[c].result # exchanges[c].result
                           /\ exchanges'[c].result.status = "rate_limited"
             Enough == \A c \in DOMAIN exchanges \cap DOMAIN exchanges' :
                         Limited(c) =>
                           /\ now + exchanges'[c].result.retry * Millisecond
                                >= exchanges[c].next_eligible
                           /\ exchanges'[c].result.retry <= IntervalMs
  <1>1. ASSUME Inv, NEW command \in Commands, NEW open, open \in [DOMAIN open -> Exchanges],
               SubmitLocked(command, open),
               \A c \in DOMAIN open \cap DOMAIN exchanges :
                 open[c].result = exchanges[c].result \/ open[c].result.status = "mailbox_full"
        PROVE  Enough
    <2>1. Refusal("mailbox_evicted", 0).status = "mailbox_evicted"
      BY DEF Refusal
    <2>2. ASSUME NEW c \in DOMAIN exchanges \cap DOMAIN exchanges' PROVE ~Limited(c)
      BY <1>1, <2>1, SubmitFields DEF Inv
    <2> HIDE DEF Limited
    <2> QED
      BY <2>2
  <1>2. Inv /\ [Next]_vars => Enough
    <2> SUFFICES ASSUME Inv, [Next]_vars PROVE Enough
      OBVIOUS
    <2>0. exchanges \in [DOMAIN exchanges -> Exchanges] /\ now \in Nat
      BY DEF Inv, TypeOK
    <2>1. CASE exchanges' = exchanges
      BY <2>1
    <2>2. ASSUME NEW kind \in Kinds, NEW key \in Keys, Submit(kind, key) PROVE Enough
      <3>1. Command(kind, key, 0) \in Commands /\ SubmitLocked(Command(kind, key, 0), exchanges)
        BY <2>2 DEF Submit, SubmitLocked, Command, Commands
      <3> QED
        BY <1>1, <2>0, <3>1
    <2>3. ASSUME NEW c \in Controllers, RetireController(c) PROVE Enough
      <3> DEFINE open == [d \in DOMAIN exchanges \ {c} |-> exchanges[d]]
      <3>1. Command("leave", c, 0) \in Commands
        BY KindsAssumption, KeysAssumption DEF Command, Commands
      <3>2. SubmitLocked(Command("leave", c, 0), open)
        BY <2>3 DEF RetireController, SubmitLocked
      <3>3. /\ open \in [DOMAIN open -> Exchanges]
            /\ \A d \in DOMAIN open \cap DOMAIN exchanges : open[d].result = exchanges[d].result
        BY <2>0
      <3> HIDE DEF open
      <3> QED
        BY <1>1, <3>1, <3>2, <3>3
    <2>4. ASSUME NEW c \in Controllers, RegisterController(c) PROVE Enough
      BY <2>4 DEF RegisterController
    <2>5. ASSUME NEW c \in Controllers, NEW request \in 0 .. MaxRequestId + 1,
                 RejectTuningInFlight(c, request)
          PROVE  Enough
      BY <2>0, <2>5 DEF RejectTuningInFlight, FreshRequest, Exchanges
    <2>6. ASSUME NEW c \in Controllers, NEW request \in 0 .. MaxRequestId + 1, NEW at \in 0 .. now,
                 RateLimitTuning(c, request, at)
          PROVE  Enough
      <3> DEFINE eligible == exchanges[c].next_eligible
                 retry == RetryAfter(eligible, at)
      <3>1. /\ c \in DOMAIN exchanges /\ exchanges[c] \in Exchanges /\ at < eligible
            /\ eligible \in Nat /\ at \in Nat /\ at <= now
            /\ eligible <= now + IntervalMs * Millisecond
        BY <2>0, <2>6 DEF RateLimitTuning, FreshRequest, Exchanges, Inv, EligibleInv
      <3>2. /\ \A d \in DOMAIN exchanges : d # c => exchanges'[d].result = exchanges[d].result
            /\ exchanges'[c].result.retry = retry
        BY <2>0, <2>6, <3>1 DEF RateLimitTuning, Exchanges, Refusal
      <3>3. /\ retry \in Nat /\ retry <= IntervalMs
            /\ retry = IntervalMs \/ at + retry * Millisecond >= eligible
        BY <3>1, RetryAfterFacts
      <3> HIDE DEF retry, eligible
      <3>4. now + retry * Millisecond >= eligible
        <4>1. CASE retry = IntervalMs
          BY <3>1, <4>1
        <4>2. CASE at + retry * Millisecond >= eligible
          <5>1. retry * Millisecond \in Nat
            BY <3>3, BoundsAssumption
          <5> QED
            BY <2>0, <3>1, <4>2, <5>1
        <4> QED
          BY <3>3, <4>1, <4>2
      <3> QED
        BY <3>2, <3>3, <3>4 DEF eligible
    <2>7. ASSUME NEW c \in Controllers, NEW request \in 0 .. MaxRequestId + 1, NEW at \in 0 .. now,
                 AdmitTuning(c, request, at)
          PROVE  Enough
      <3> DEFINE command == Command("tuning", c, request)
                 opened == [exchanges EXCEPT ![c].high_water = request, ![c].request = request,
                                             ![c].next_eligible = at + IntervalMs * Millisecond]
                 full == [opened EXCEPT ![c].result = Refusal("mailbox_full", 0)]
      <3>1. command \in Commands
        BY KeysAssumption, BoundsAssumption DEF Command, Commands
      <3>2. at + IntervalMs * Millisecond \in Nat /\ request \in Nat /\ c \in DOMAIN exchanges
        BY <2>0, <2>7, IntervalIsNat, BoundsAssumption DEF AdmitTuning, FreshRequest
      <3>3. /\ opened \in [DOMAIN opened -> Exchanges] /\ DOMAIN opened = DOMAIN exchanges
            /\ \A d \in DOMAIN exchanges : opened[d].result = exchanges[d].result
        BY <2>0, <3>2 DEF Exchanges
      <3>4. Refusal("mailbox_full", 0) \in Results /\ Refusal("mailbox_full", 0).status = "mailbox_full"
        BY DEF Refusal, Results
      <3>5. Accept(command, opened) \/ DropWhenFull(command, full)
        BY <2>7 DEF AdmitTuning
      <3> HIDE DEF opened
      <3>6. /\ full \in [DOMAIN full -> Exchanges] /\ DOMAIN full = DOMAIN exchanges
            /\ \A d \in DOMAIN exchanges :
                 full[d].result = exchanges[d].result \/ full[d].result.status = "mailbox_full"
        BY <3>2, <3>3, <3>4 DEF Exchanges
      <3> HIDE DEF full, command
      <3>7. CASE Accept(command, opened)
        BY <1>1, <3>1, <3>3, <3>7 DEF SubmitLocked
      <3>8. CASE DropWhenFull(command, full)
        BY <1>1, <3>1, <3>6, <3>8 DEF SubmitLocked, Refuse
      <3> QED
        BY <3>5, <3>7, <3>8
    <2>8. CASE CompleteTuningDecisions
      <3>1. Decision(tick + 1).status = "decision"
        BY DEF Decision
      <3> QED
        BY <2>0, <2>8, <3>1 DEF CompleteTuningDecisions, Exchanges
    <2>9. ASSUME NEW c \in Controllers, NEW covering \in 0 .. tick, ClaimTuningResult(c, covering)
          PROVE  Enough
      BY <2>0, <2>9 DEF ClaimTuningResult, Exchanges, NoResult
    <2> HIDE DEF Enough
    <2> QED
      BY <2>1, <2>2, <2>3, <2>4, <2>5, <2>6, <2>7, <2>8, <2>9
      DEF Next, TuningRequest, RejectTuning, Drain, ClockAdvances, vars
  <1>3. Enough => \A c \in DOMAIN exchanges \cap DOMAIN exchanges' :
          exchanges'[c].result # exchanges[c].result /\ exchanges'[c].result.status = "rate_limited"
            => /\ now + exchanges'[c].result.retry * Millisecond >= exchanges[c].next_eligible
               /\ exchanges'[c].result.retry <= IntervalMs
    OBVIOUS
  <1> HIDE DEF Enough
  <1> QED
    BY <1>2, <1>3, InvariantHolds, PTL DEF Spec, RetryAdviceSuffices

---------------------------------------------------------------------------
(* Startup: induction over the natural numbers, and finite sets.           *)

\* Induction over the natural numbers, stated for a set of them.
LEMMA NatSets ==
    ASSUME NEW S, 0 \in S, \A n \in Nat : n \in S => n + 1 \in S
    PROVE  Nat \subseteq S
<1> DEFINE R == OpToRel(<, Nat)
           T == Nat \ S
<1>1. IsWellFoundedOn(R, Nat)
  BY NatLessThanWellFounded, Zenon
<1>2. \A x, y \in Nat : x < y => <<x, y>> \in R
  BY SMT DEF OpToRel
<1> HIDE DEF R
<1>3. SUFFICES ASSUME T # {} PROVE FALSE
  OBVIOUS
<1>4. \E x \in T : \A y \in T : ~ (<<y, x>> \in R)
  <2>1. T \subseteq Nat
    OBVIOUS
  <2> HIDE DEF T
  <2> QED BY <1>1, <1>3, <2>1, WFMin
<1>5. PICK x \in T : \A y \in T : ~ (<<y, x>> \in R)
  BY <1>4
<1>6. x \in Nat \ {0}
  OBVIOUS
<1>7. x - 1 \in Nat /\ x - 1 < x /\ x = (x - 1) + 1
  BY <1>6
<1>8. x - 1 \in T
  BY <1>6, <1>7
<1>9. <<x - 1, x>> \in R
  BY <1>2, <1>6, <1>7
<1> QED BY <1>5, <1>8, <1>9

\* Induction up to a bound.
LEMMA UpTo ==
    ASSUME NEW n \in Nat, NEW S, 0 \in S, \A k \in 1 .. n : k - 1 \in S => k \in S
    PROVE  \A k \in 0 .. n : k \in S
<1> DEFINE T == {k \in Nat : k <= n => k \in S}
<1>1. 0 \in T
  OBVIOUS
<1>2. ASSUME NEW k \in Nat, k \in T PROVE k + 1 \in T
  <2> SUFFICES ASSUME k + 1 <= n PROVE k + 1 \in S
    OBVIOUS
  <2>1. k \in S /\ k + 1 \in 1 .. n /\ (k + 1) - 1 = k
    BY <1>2
  <2> QED BY <2>1
<1> HIDE DEF T
<1>3. Nat \subseteq T
  BY <1>1, <1>2, NatSets
<1> QED BY <1>3 DEF T

\* Induction over the subsets of a finite set, stated for a set of them: what
\* holds of a subset whenever it holds of those that are smaller.
LEMMA SubsetInduction ==
    ASSUME NEW C, IsFiniteSet(C), NEW Good,
           \A S \in SUBSET C : (\A x \in S : S \ {x} \in Good) => S \in Good
    PROVE  \A S \in SUBSET C : S \in Good
<1> DEFINE Ns == {n \in Nat : \A S \in SUBSET C : Cardinality(S) = n => S \in Good}
<1>1. \A S \in SUBSET C : IsFiniteSet(S) /\ Cardinality(S) \in Nat
  BY FS_Subset, FS_CardinalityType
<1>2. 0 \in Ns
  <2> SUFFICES ASSUME NEW S \in SUBSET C, Cardinality(S) = 0 PROVE S \in Good
    OBVIOUS
  <2>1. S = {}
    BY <1>1, FS_EmptySet
  <2> QED BY <2>1
<1>3. ASSUME NEW n \in Nat, n \in Ns PROVE n + 1 \in Ns
  <2> SUFFICES ASSUME NEW S \in SUBSET C, Cardinality(S) = n + 1 PROVE S \in Good
    OBVIOUS
  <2>1. ASSUME NEW x \in S PROVE S \ {x} \in Good
    <3>1. Cardinality(S \ {x}) = Cardinality(S) - 1
      BY <1>1, FS_RemoveElement
    <3>2. Cardinality(S \ {x}) = n
      BY <3>1
    <3> QED BY <1>3, <3>2
  <2> QED BY <2>1
<1> HIDE DEF Ns
<1>4. Nat \subseteq Ns
  BY <1>2, <1>3, NatSets
<1> USE DEF Ns
<1>5. ASSUME NEW S \in SUBSET C PROVE S \in Good
  BY <1>1, <1>4
<1> QED BY <1>5

---------------------------------------------------------------------------
(* Startup: the errors of a sequence of checks.                            *)

\* Codes that say nothing of a bot.
IsCode(c) ==
    c \notin {"", "npc_seat_profile_unknown", "controller_kind_unknown", "controller_creation_context_invalid"}
IsErrors(s) == \E S : s \in Seq(S) /\ \A c \in S : IsCode(c)

\* A sequence over a set is one over a larger set.
LEMMA SeqGrows ==
    ASSUME NEW S, NEW T, S \subseteq T, NEW s \in Seq(S)
    PROVE  s \in Seq(T)
<1>1. Len(s) \in Nat /\ s = [i \in 1 .. Len(s) |-> s[i]] /\ \A i \in 1 .. Len(s) : s[i] \in T
  OBVIOUS
<1> QED BY <1>1, IsASeq

\* What makes a sequence of errors.
LEMMA ErrorsIf == \A S, s : s \in Seq(S) /\ (\A c \in S : IsCode(c)) => IsErrors(s)
  BY Zenon DEF IsErrors

\* Errors one after the other are none exactly when neither part has one.
LEMMA ErrorsConcat ==
    \A s, t : IsErrors(s) /\ IsErrors(t) => IsErrors(s \o t) /\ (s \o t = <<>> <=> s = <<>> /\ t = <<>>)
<1> SUFFICES ASSUME NEW s, NEW t, IsErrors(s), IsErrors(t)
             PROVE  IsErrors(s \o t) /\ (s \o t = <<>> <=> s = <<>> /\ t = <<>>)
  OBVIOUS
<1>1. PICK S : s \in Seq(S) /\ \A c \in S : IsCode(c)
  BY DEF IsErrors
<1>2. PICK T : t \in Seq(T) /\ \A c \in T : IsCode(c)
  BY DEF IsErrors
<1> DEFINE U == S \cup T
<1>3. s \in Seq(U) /\ t \in Seq(U)
  <2>1. S \subseteq U /\ T \subseteq U
    OBVIOUS
  <2> HIDE DEF U
  <2> QED BY <1>1, <1>2, <2>1, SeqGrows
<1>4. \A c \in U : IsCode(c)
  BY <1>1, <1>2
<1> HIDE DEF U
<1>5. s \o t \in Seq(U) /\ Len(s \o t) = Len(s) + Len(t) /\ Len(s) \in Nat /\ Len(t) \in Nat
  BY <1>3
<1>6. \A u \in Seq(U) : u = <<>> <=> Len(u) = 0
  BY EmptySeq
<1>7. IsErrors(s \o t)
  BY <1>4, <1>5, ErrorsIf, Zenon
<1> QED BY <1>3, <1>5, <1>6, <1>7

\* No error at all, and one.
LEMMA FewErrors ==
    /\ IsErrors(<<>>)
    /\ \A c : IsCode(c) => IsErrors(<<c>>) /\ <<c>> # <<>>
    /\ \A h, c : IsCode(c) => IsErrors(Require(h, c))
<1>1. IsErrors(<<>>)
  <2> DEFINE S == {}
  <2>1. <<>> \in Seq(S) /\ \A c \in S : IsCode(c)
    OBVIOUS
  <2> HIDE DEF S
  <2> QED BY <2>1, ErrorsIf
<1>2. ASSUME NEW c, IsCode(c) PROVE IsErrors(<<c>>) /\ <<c>> # <<>>
  <2> DEFINE S == {c}
  <2>1. <<c>> \in Seq(S) /\ \A d \in S : IsCode(d)
    BY <1>2
  <2> HIDE DEF S
  <2>2. IsErrors(<<c>>)
    BY <2>1, ErrorsIf
  <2> QED BY <2>2
<1> QED BY <1>1, <1>2 DEF Require

\* The recursion of FlattenSeq.
Flattens(f, ss, n) ==
    /\ FlattenSeq(ss) = f[n]
    /\ \A i \in 1 .. n : f[i] = IF i = 1 THEN ss[i] ELSE f[i - 1] \o ss[i]

\* FlattenSeq can be unfolded.
LEMMA FlattenUnfolds ==
    ASSUME NEW ss, NEW n \in Nat \ {0}, Len(ss) = n
    PROVE  \E f : Flattens(f, ss, n)
<1> DEFINE it == CHOOSE f : f = [i \in 1 .. Len(ss) |-> IF i = 1 THEN ss[i] ELSE f[i - 1] \o ss[i]]
           Then(f, i) == IF i = 1 THEN ss[i] ELSE f[i - 1] \o ss[i]
           IsFamily(f) == f = [i \in 1 .. n |-> f[i]]
           Upto(f, k) == \A i \in 1 .. n : i <= k => f[i] = Then(f, i)
           Ks == {k \in Nat : \E f : IsFamily(f) /\ Upto(f, k)}
<1>1. FlattenSeq(ss) = it[Len(ss)]
  <2>1. Len(ss) # 0
    OBVIOUS
  <2> QED BY Zenon, <2>1 DEF FlattenSeq
<1>2. 0 \in Ks
  <2> DEFINE f == [i \in 1 .. n |-> 0]
  <2>1. IsFamily(f) /\ Upto(f, 0)
    OBVIOUS
  <2> HIDE DEF f, IsFamily, Upto
  <2> QED BY <2>1
<1>3. ASSUME NEW k \in Nat, k \in Ks PROVE k + 1 \in Ks
  <2>1. PICK f : IsFamily(f) /\ Upto(f, k)
    BY <1>3
  <2> DEFINE g == [i \in 1 .. n |-> Then(f, i)]
  <2>2. ASSUME NEW i \in 1 .. n, i <= k + 1 PROVE g[i] = Then(g, i)
    <3>1. CASE i = 1
      BY <3>1
    <3>2. CASE i # 1
      <4>1. i - 1 \in 1 .. n /\ i - 1 <= k
        BY <2>2, <3>2
      <4>2. f[i - 1] = Then(f, i - 1)
        BY <2>1, <4>1
      <4>3. g[i - 1] = f[i - 1]
        BY <4>1, <4>2
      <4>4. g[i] = Then(f, i)
        OBVIOUS
      <4> HIDE DEF g
      <4> QED BY <3>2, <4>3, <4>4
    <3> QED BY <3>1, <3>2
  <2>3. IsFamily(g)
    OBVIOUS
  <2>4. Upto(g, k + 1)
    <3> HIDE DEF g, Then
    <3> QED BY <2>2
  <2> HIDE DEF g, IsFamily, Upto
  <2> QED BY <2>3, <2>4
<1>4. \E f : f = [i \in 1 .. n |-> Then(f, i)]
  <2> HIDE DEF Ks
  <2>1. n \in Ks
    BY <1>2, <1>3, NatSets
  <2> USE DEF Ks
  <2>2. PICK f : IsFamily(f) /\ Upto(f, n)
    BY <2>1
  <2>3. \A i \in 1 .. n : f[i] = Then(f, i)
    <3> HIDE DEF Then
    <3> QED BY <2>2
  <2>4. f = [i \in 1 .. n |-> f[i]]
    BY <2>2
  <2> HIDE DEF Then, IsFamily, Upto
  <2>5. f = [i \in 1 .. n |-> Then(f, i)]
    BY <2>3, <2>4
  <2> QED BY <2>5
<1>5. it = [i \in 1 .. n |-> Then(it, i)]
  <2>1. PICK f : f = [i \in 1 .. n |-> Then(f, i)]
    BY <1>4
  <2>2. f = [i \in 1 .. Len(ss) |-> IF i = 1 THEN ss[i] ELSE f[i - 1] \o ss[i]]
    BY <2>1
  <2>3. it = [i \in 1 .. Len(ss) |-> IF i = 1 THEN ss[i] ELSE it[i - 1] \o ss[i]]
    BY Zenon, <2>2
  <2> HIDE DEF it
  <2> QED BY <2>3
<1> HIDE DEF it
<1>6. Flattens(it, ss, n)
  BY <1>1, <1>5 DEF Flattens
<1> QED BY <1>6

\* A check of each element of a sequence fails where one of them fails.
LEMMA ErrorsFlatten ==
    ASSUME NEW n \in Nat, NEW ss, ss = [k \in 1 .. n |-> ss[k]], \A k \in 1 .. n : IsErrors(ss[k])
    PROVE  IsErrors(FlattenSeq(ss)) /\ (FlattenSeq(ss) = <<>> <=> \A k \in 1 .. n : ss[k] = <<>>)
<1> DEFINE S == {ss[k] : k \in 1 .. n}
<1>1. ss \in Seq(S) /\ Len(ss) = n
  <2>1. \A k \in 1 .. n : ss[k] \in S
    OBVIOUS
  <2> HIDE DEF S
  <2>2. ss \in Seq(S)
    BY <2>1, IsASeq
  <2>3. DOMAIN ss = 1 .. n
    OBVIOUS
  <2> QED BY <2>2, <2>3, LenProperties
<1> HIDE DEF S
<1>2. CASE n = 0
  <2>1. ss = <<>>
    BY <1>1, <1>2, EmptySeq
  <2>2. FlattenSeq(ss) = <<>>
    BY <1>1, <1>2, <2>1, Zenon DEF FlattenSeq
  <2> QED BY <1>2, <2>2, FewErrors
<1>3. CASE n # 0
  <2>1. PICK f : Flattens(f, ss, n)
    BY <1>1, <1>3, FlattenUnfolds
  <2> DEFINE Right(i) == IsErrors(f[i]) /\ (f[i] = <<>> <=> \A k \in 1 .. i : ss[k] = <<>>)
             Good == {i \in Nat : i \in 1 .. n => Right(i)}
  <2>2. ASSUME NEW i \in 1 .. n, i - 1 \in Good PROVE i \in Good
    <3>1. CASE i = 1
      <4>1. f[1] = ss[1]
        BY <2>1, <3>1 DEF Flattens
      <4>2. \A k : k \in 1 .. 1 <=> k = 1
        OBVIOUS
      <4> QED BY <3>1, <4>1, <4>2
    <3>2. CASE i # 1
      <4>0. i - 1 \in 1 .. n /\ i - 1 \in Nat
        BY <3>2
      <4>1. Right(i - 1)
        BY <2>2, <4>0
      <4>2. f[i] = f[i - 1] \o ss[i]
        BY <2>1, <3>2 DEF Flattens
      <4>3. IsErrors(f[i]) /\ (f[i] = <<>> <=> f[i - 1] = <<>> /\ ss[i] = <<>>)
        BY <4>1, <4>2, ErrorsConcat
      <4>4. \A k : k \in 1 .. i <=> k \in 1 .. i - 1 \/ k = i
        BY <4>0
      <4>5. f[i] = <<>> <=> \A k \in 1 .. i : ss[k] = <<>>
        BY <4>1, <4>3, <4>4
      <4>6. Right(i)
        BY <4>3, <4>5
      <4> HIDE DEF Right
      <4> QED BY <4>6
    <3> QED BY <3>1, <3>2
  <2>3. 0 \in Good
    OBVIOUS
  <2> HIDE DEF Good
  <2>4. n \in Good
    BY <2>2, <2>3, UpTo
  <2> USE DEF Good
  <2>5. Right(n)
    BY <1>3, <2>4
  <2> QED BY <2>1, <2>5 DEF Flattens
<1> QED BY <1>2, <1>3

---------------------------------------------------------------------------
(* Startup: the sections of a configuration.                               *)

\* A duration in ticks.
LEMMA DurationErrors ==
    ASSUME NEW q
    PROVE  IsErrors(duration_ticks(q))
<1>1. /\ IsCode("duration_not_finite") /\ IsCode("duration_negative") /\ IsCode("duration_tick_overflow")
  BY Zenon DEF IsCode
<1> QED BY <1>1, ErrorsConcat, FewErrors, SMT DEF duration_ticks

\* [world], [simulation] and [spatial_grid].
LEMMA WorldErrors ==
    ASSUME NEW w
    PROVE  IsErrors(simulation_config(w))
<1>1. /\ IsCode("config_world_too_small_for_player") /\ IsCode("config_tick_rate_unsupported")
      /\ IsCode("config_spatial_grid_dimension_out_of_range") /\ IsCode("config_spatial_grid_cell_limit_exceeded")
      /\ IsCode("config_world_scalar_not_finite") /\ IsCode("config_world_scalar_out_of_range")
      /\ IsCode("config_drag_not_finite") /\ IsCode("config_drag_out_of_range")
  BY Zenon DEF IsCode
<1> QED BY <1>1, ErrorsConcat, FewErrors, SMT DEF simulation_config, require_world_scalar, require_drag_per_second

\* What is published of a configuration.
LEMMA PublicErrors ==
    ASSUME NEW w, NEW n
    PROVE  IsErrors(public_configuration(w, n))
<1>1. /\ IsCode("public_configuration_invalid")
  BY Zenon DEF IsCode
<1> QED BY <1>1, ErrorsConcat, FewErrors, SMT DEF public_configuration, require_public_world_scalar

\* [movement].
LEMMA TuningErrors ==
    ASSUME NEW a, NEW t, NEW f, NEW l, NEW n
    PROVE  IsErrors(movement_tuning(a, t, f, l, n))
<1>1. /\ IsCode("movement_tuning_not_finite") /\ IsCode("movement_tuning_out_of_range")
  BY Zenon DEF IsCode
<1> QED BY <1>1, ErrorsConcat, FewErrors, SMT DEF movement_tuning, require_tuning_scalar

\* [lobbies].
LEMMA LobbiesErrors ==
    ASSUME NEW n
    PROVE  IsErrors(lobbies_configuration(n)) /\ (lobbies_configuration(n) = <<>> => n \in 1 .. MaximumLobbies)
<1>1. /\ IsCode("lobbies_count_out_of_range")
  BY Zenon DEF IsCode
<1> QED BY <1>1, ErrorsConcat, FewErrors, SMT DEF lobbies_configuration, Require

\* Durations, one by one.
LEMMA EachDuration ==
    ASSUME NEW s, NEW n \in Nat, DOMAIN s = 1 .. n, \A k \in 1 .. n : IsErrors(duration_ticks(s[k]))
    PROVE  /\ IsErrors(ForAll(s, duration_ticks))
           /\ ForAll(s, duration_ticks) = <<>> => \A k \in 1 .. n : duration_ticks(s[k]) = <<>>
<1> DEFINE ss == [k \in DOMAIN s |-> duration_ticks(s[k])]
<1>1. ss = [k \in 1 .. n |-> ss[k]] /\ \A k \in 1 .. n : ss[k] = duration_ticks(s[k])
  OBVIOUS
<1>2. ForAll(s, duration_ticks) = FlattenSeq(ss)
  BY DEF ForAll
<1> HIDE DEF ss
<1>3. \A k \in 1 .. n : IsErrors(ss[k])
  BY <1>1
<1>4. IsErrors(FlattenSeq(ss)) /\ (FlattenSeq(ss) = <<>> <=> \A k \in 1 .. n : ss[k] = <<>>)
  BY <1>1, <1>3, ErrorsFlatten
<1> QED BY <1>1, <1>2, <1>4

\* Durations of a tick at least, one by one.
LEMMA EachPositive ==
    ASSUME NEW s, NEW n \in Nat, DOMAIN s = 1 .. n, \A k \in 1 .. n : IsErrors(require_positive_ticks(s[k]))
    PROVE  /\ IsErrors(ForAll(s, require_positive_ticks))
           /\ ForAll(s, require_positive_ticks) = <<>> => \A k \in 1 .. n : require_positive_ticks(s[k]) = <<>>
<1> DEFINE ss == [k \in DOMAIN s |-> require_positive_ticks(s[k])]
<1>1. ss = [k \in 1 .. n |-> ss[k]] /\ \A k \in 1 .. n : ss[k] = require_positive_ticks(s[k])
  OBVIOUS
<1>2. ForAll(s, require_positive_ticks) = FlattenSeq(ss)
  BY DEF ForAll
<1> HIDE DEF ss
<1>3. \A k \in 1 .. n : IsErrors(ss[k])
  BY <1>1
<1>4. IsErrors(FlattenSeq(ss)) /\ (FlattenSeq(ss) = <<>> <=> \A k \in 1 .. n : ss[k] = <<>>)
  BY <1>1, <1>3, ErrorsFlatten
<1> QED BY <1>1, <1>2, <1>4

\* Hazards, one by one.
LEMMA EachHazard ==
    ASSUME NEW s, NEW n \in Nat, DOMAIN s = 1 .. n, \A k \in 1 .. n : IsErrors(hazard_archetype(s[k]))
    PROVE  /\ IsErrors(ForAll(s, hazard_archetype))
           /\ ForAll(s, hazard_archetype) = <<>> => \A k \in 1 .. n : hazard_archetype(s[k]) = <<>>
<1> DEFINE ss == [k \in DOMAIN s |-> hazard_archetype(s[k])]
<1>1. ss = [k \in 1 .. n |-> ss[k]] /\ \A k \in 1 .. n : ss[k] = hazard_archetype(s[k])
  OBVIOUS
<1>2. ForAll(s, hazard_archetype) = FlattenSeq(ss)
  BY DEF ForAll
<1> HIDE DEF ss
<1>3. \A k \in 1 .. n : IsErrors(ss[k])
  BY <1>1
<1>4. IsErrors(FlattenSeq(ss)) /\ (FlattenSeq(ss) = <<>> <=> \A k \in 1 .. n : ss[k] = <<>>)
  BY <1>1, <1>3, ErrorsFlatten
<1> QED BY <1>1, <1>2, <1>4

\* Profiles, one by one.
LEMMA EachProfile ==
    ASSUME NEW s, NEW n \in Nat, DOMAIN s = 1 .. n, \A k \in 1 .. n : IsErrors(tactical_profile(s[k]))
    PROVE  /\ IsErrors(ForAll(s, tactical_profile))
           /\ ForAll(s, tactical_profile) = <<>> => \A k \in 1 .. n : tactical_profile(s[k]) = <<>>
<1> DEFINE ss == [k \in DOMAIN s |-> tactical_profile(s[k])]
<1>1. ss = [k \in 1 .. n |-> ss[k]] /\ \A k \in 1 .. n : ss[k] = tactical_profile(s[k])
  OBVIOUS
<1>2. ForAll(s, tactical_profile) = FlattenSeq(ss)
  BY DEF ForAll
<1> HIDE DEF ss
<1>3. \A k \in 1 .. n : IsErrors(ss[k])
  BY <1>1
<1>4. IsErrors(FlattenSeq(ss)) /\ (FlattenSeq(ss) = <<>> <=> \A k \in 1 .. n : ss[k] = <<>>)
  BY <1>1, <1>3, ErrorsFlatten
<1> QED BY <1>1, <1>2, <1>4

\* The positive durations.
LEMMA PositiveErrors ==
    ASSUME NEW q \in Int
    PROVE  IsErrors(require_positive_ticks(q)) /\ (require_positive_ticks(q) = <<>> => ticks(q) >= 1)
<1>1. IsCode("ability_duration_not_positive")
  BY Zenon DEF IsCode
<1>2. ticks(q) \in Nat
  BY DEF ticks
<1> QED BY <1>1, <1>2, FewErrors, SMT DEF require_positive_ticks, Require

\* [abilities]: they last a tick, and the perfect window lies in the shield.
LEMMA AbilityErrors ==
    ASSUME NEW a, \A q \in {a.shield, a.perfect, a.parry_stun, a.charge_cooldown, a.charge_active, a.charge_stun} : q \in Int
    PROVE  /\ IsErrors(ability_configuration(a))
           /\ ability_configuration(a) = <<>> =>
                /\ \A q \in {a.shield, a.perfect, a.parry_stun, a.charge_cooldown, a.charge_active, a.charge_stun} :
                      ticks(q) >= 1
                /\ ticks(a.perfect) <= ticks(a.shield)
<1> DEFINE all == <<a.shield, a.perfect, a.shield_cooldown, a.parry_stun, a.charge_cooldown, a.charge_active, a.charge_stun>>
           some == <<a.shield, a.perfect, a.parry_stun, a.charge_cooldown, a.charge_active, a.charge_stun>>
<1>1. /\ IsCode("ability_scalar_out_of_range") /\ IsCode("ability_perfect_window_exceeds_shield")
      /\ IsCode("ability_charge_burst_exceeds_safety_envelope") /\ IsCode("ability_scalar_not_finite")
  BY Zenon DEF IsCode
<1>2. DOMAIN all = 1 .. 7 /\ DOMAIN some = 1 .. 6
  OBVIOUS
<1>3. /\ some[1] = a.shield /\ some[2] = a.perfect /\ some[3] = a.parry_stun
      /\ some[4] = a.charge_cooldown /\ some[5] = a.charge_active /\ some[6] = a.charge_stun
  OBVIOUS
<1>4. ability_configuration(a) =
        ForAll(all, duration_ticks) \o ForAll(some, require_positive_ticks)
        \o require_positive_finite_scalar(a.fraction) \o require_positive_finite_scalar(a.envelope)
        \o Require(a.envelope <= MaximumComponent, "ability_scalar_out_of_range")
        \o Require(ticks(a.perfect) <= ticks(a.shield), "ability_perfect_window_exceeds_shield")
        \o Require(a.fraction * (MaximumTopSpeed \div 100) <= a.envelope, "ability_charge_burst_exceeds_safety_envelope")
  BY Zenon DEF ability_configuration
<1> HIDE DEF all, some
<1>5. IsErrors(ForAll(all, duration_ticks))
  <2>1. \A k \in 1 .. 7 : IsErrors(duration_ticks(all[k]))
    BY DurationErrors
  <2> QED BY <1>2, <2>1, EachDuration
<1>6. \A k \in 1 .. 6 : some[k] \in Int
  BY <1>3
<1>7. IsErrors(ForAll(some, require_positive_ticks))
      /\ (ForAll(some, require_positive_ticks) = <<>> => \A k \in 1 .. 6 : require_positive_ticks(some[k]) = <<>>)
  <2>1. \A k \in 1 .. 6 : IsErrors(require_positive_ticks(some[k]))
    BY <1>6, PositiveErrors
  <2> QED BY <1>2, <2>1, EachPositive
<1>8. IsErrors(require_positive_finite_scalar(a.fraction)) /\ IsErrors(require_positive_finite_scalar(a.envelope))
  BY <1>1, ErrorsConcat, FewErrors, SMT DEF require_positive_finite_scalar
<1>9. /\ IsErrors(ability_configuration(a))
      /\ ability_configuration(a) = <<>> =>
            /\ ForAll(some, require_positive_ticks) = <<>>
            /\ Require(ticks(a.perfect) <= ticks(a.shield), "ability_perfect_window_exceeds_shield") = <<>>
  BY <1>1, <1>4, <1>5, <1>7, <1>8, ErrorsConcat, FewErrors, SMT
<1> SUFFICES ASSUME ability_configuration(a) = <<>>
             PROVE  /\ \A q \in {a.shield, a.perfect, a.parry_stun, a.charge_cooldown, a.charge_active, a.charge_stun} :
                          ticks(q) >= 1
                    /\ ticks(a.perfect) <= ticks(a.shield)
  BY <1>9
<1>10. \A k \in 1 .. 6 : ticks(some[k]) >= 1
  BY <1>6, <1>7, <1>9, PositiveErrors
<1>11. ticks(a.perfect) <= ticks(a.shield)
  BY <1>9, FewErrors, <1>1, SMT DEF Require
<1> QED BY <1>3, <1>10, <1>11

\* [royale].
LEMMA RoyaleErrors ==
    ASSUME NEW r
    PROVE  IsErrors(royale_configuration(r))
<1> DEFINE all == <<r.shrink, r.grace, r.countdown, r.restart>>
<1>1. /\ IsCode("royale_scalar_not_finite") /\ IsCode("royale_scalar_out_of_range")
  BY Zenon DEF IsCode
<1>2. IsErrors(ForAll(all, duration_ticks))
  <2>1. DOMAIN all = 1 .. 4
    OBVIOUS
  <2> HIDE DEF all
  <2>2. \A k \in 1 .. 4 : IsErrors(duration_ticks(all[k]))
    BY DurationErrors
  <2> QED BY <2>1, <2>2, EachDuration
<1> QED BY <1>1, <1>2, ErrorsConcat, FewErrors, SMT DEF royale_configuration

\* [race].
LEMMA RaceErrors ==
    ASSUME NEW r
    PROVE  IsErrors(race_configuration(r))
<1> DEFINE all == <<r.limit, r.countdown, r.restart>>
<1>1. /\ IsCode("race_road_name_invalid") /\ IsCode("race_scalar_out_of_range") /\ IsCode("race_scalar_not_finite")
  BY Zenon DEF IsCode
<1>2. IsErrors(ForAll(all, duration_ticks))
  <2>1. DOMAIN all = 1 .. 3
    OBVIOUS
  <2> HIDE DEF all
  <2>2. \A k \in 1 .. 3 : IsErrors(duration_ticks(all[k]))
    BY DurationErrors
  <2> QED BY <2>1, <2>2, EachDuration
<1>3. \A v : IsErrors(race_positive(v))
  BY <1>1, ErrorsConcat, FewErrors, SMT DEF race_positive
<1>4. \A v : IsErrors(duration_ticks(v))
  BY DurationErrors
<1> DEFINE z == ForAll(all, duration_ticks)
<1>5. race_configuration(r) =
        Require(r.road_named, "race_road_name_invalid")
        \o race_positive(r.radius) \o Require(r.radius <= MaximumComponent, "race_scalar_out_of_range")
        \o duration_ticks(r.respawn) \o duration_ticks(r.window)
        \o race_positive(r.limit) \o z
  BY Zenon DEF race_configuration
<1>6. IsErrors(z)
  BY <1>2
<1> HIDE DEF z
<1> QED BY <1>1, <1>3, <1>4, <1>5, <1>6, ErrorsConcat, FewErrors, SMT

\* A later time is no fewer ticks.
LEMMA TicksGrow ==
    \A q, p \in Int : ticks(q) \in Nat /\ (q <= p => ticks(q) <= ticks(p))
  BY DEF ticks

\* [king_of_the_hill]: the hill has a tour, and retargets within an interval.
LEMMA HillErrors ==
    ASSUME NEW h, \A q \in {h.dwell, h.travel, h.soon, h.late} : q \in Int
    PROVE  /\ IsErrors(king_of_the_hill_configuration(h))
           /\ king_of_the_hill_configuration(h) = <<>> =>
                /\ ticks(h.dwell) + ticks(h.travel) >= 1
                /\ 1 <= ticks(h.soon) /\ ticks(h.soon) <= ticks(h.late)
<1> DEFINE all == <<h.limit, h.respawn, h.countdown, h.restart>>
<1>1. /\ IsCode("hill_motion_policy_invalid") /\ IsCode("hill_scalar_out_of_range")
      /\ IsCode("hill_tour_without_duration") /\ IsCode("hill_points_to_win_zero") /\ IsCode("hill_scalar_not_finite")
  BY Zenon DEF IsCode
<1>2. IsErrors(ForAll(all, duration_ticks))
  <2>1. DOMAIN all = 1 .. 4
    OBVIOUS
  <2> HIDE DEF all
  <2>2. \A k \in 1 .. 4 : IsErrors(duration_ticks(all[k]))
    BY DurationErrors
  <2> QED BY <2>1, <2>2, EachDuration
<1>3. \A v : IsErrors(hill_positive(v))
  BY <1>1, ErrorsConcat, FewErrors, SMT DEF hill_positive
<1>4. \A v : IsErrors(duration_ticks(v))
  BY DurationErrors
<1>5. \A v : IsErrors(require_hill_speed(v))
  BY <1>1, ErrorsConcat, FewErrors, SMT DEF require_hill_speed
<1>6. \A v : /\ IsErrors(hill_retarget_ticks(v))
             /\ hill_retarget_ticks(v) = <<>> => Require(ticks(v) # 0, "hill_scalar_out_of_range") = <<>>
  BY <1>1, <1>3, <1>4, ErrorsConcat, FewErrors, SMT DEF hill_retarget_ticks
<1>7. /\ IsErrors(hill_scoring(h))
      /\ hill_scoring(h) = <<>> => Require(ticks(h.dwell) + ticks(h.travel) # 0, "hill_tour_without_duration") = <<>>
  <2> DEFINE z == ForAll(all, duration_ticks)
  <2>1. hill_scoring(h) =
          duration_ticks(h.dwell) \o duration_ticks(h.travel)
          \o Require(ticks(h.dwell) + ticks(h.travel) # 0, "hill_tour_without_duration")
          \o duration_ticks(h.interval)
          \o Require(h.points # 0, "hill_points_to_win_zero")
          \o Require(h.points <= MaximumSafeInteger, "hill_scalar_out_of_range")
          \o hill_positive(h.limit)
          \o z
    BY Zenon DEF hill_scoring
  <2>2. IsErrors(z)
    BY <1>2
  <2> HIDE DEF z
  <2> QED BY <1>1, <1>3, <1>4, <2>1, <2>2, ErrorsConcat, FewErrors, SMT
<1> HIDE DEF all
<1>8. /\ IsErrors(king_of_the_hill_configuration(h))
      /\ king_of_the_hill_configuration(h) = <<>> =>
            /\ hill_scoring(h) = <<>> /\ hill_retarget_ticks(h.soon) = <<>>
            /\ Require(h.late >= h.soon, "hill_scalar_out_of_range") = <<>>
  <2>1. IsErrors(Require(h.motion \in {"marker_tour", "random_roam"}, "hill_motion_policy_invalid"))
    BY <1>1, FewErrors, Zenon
  <2> DEFINE z == Require(h.motion \in {"marker_tour", "random_roam"}, "hill_motion_policy_invalid")
             x == z \o hill_positive(h.radius) \o Require(h.radius <= MaximumComponent, "hill_scalar_out_of_range")
                    \o hill_scoring(h)
             y == x \o require_hill_speed(h.slow) \o require_hill_speed(h.fast)
                    \o Require(h.fast >= h.slow, "hill_scalar_out_of_range")
  <2>2. king_of_the_hill_configuration(h) =
          y \o hill_retarget_ticks(h.soon) \o hill_retarget_ticks(h.late)
          \o Require(h.late >= h.soon, "hill_scalar_out_of_range")
    BY Zenon DEF king_of_the_hill_configuration
  <2>3. IsErrors(x) /\ (x = <<>> => hill_scoring(h) = <<>>)
    <3>1. IsErrors(z)
      BY <2>1
    <3> HIDE DEF z
    <3> QED BY <1>1, <1>3, <1>7, <3>1, ErrorsConcat, FewErrors, SMT
  <2>4. IsErrors(y) /\ (y = <<>> => x = <<>>)
    <3> HIDE DEF x
    <3> QED BY <1>1, <1>5, <2>3, ErrorsConcat, FewErrors, SMT
  <2> HIDE DEF x, y
  <2>5. IsErrors(hill_retarget_ticks(h.soon)) /\ IsErrors(hill_retarget_ticks(h.late))
    BY <1>6
  <2>6. IsErrors(king_of_the_hill_configuration(h))
        /\ (king_of_the_hill_configuration(h) = <<>> =>
             y = <<>> /\ hill_retarget_ticks(h.soon) = <<>> /\ Require(h.late >= h.soon, "hill_scalar_out_of_range") = <<>>)
    BY <1>1, <2>2, <2>4, <2>5, ErrorsConcat, FewErrors, SMT
  <2> QED BY <2>3, <2>4, <2>6
<1> SUFFICES ASSUME king_of_the_hill_configuration(h) = <<>>
             PROVE  /\ ticks(h.dwell) + ticks(h.travel) >= 1
                    /\ 1 <= ticks(h.soon) /\ ticks(h.soon) <= ticks(h.late)
  BY <1>8
<1>9. ticks(h.dwell) \in Nat /\ ticks(h.travel) \in Nat /\ ticks(h.soon) \in Nat /\ ticks(h.late) \in Nat
  BY TicksGrow
<1>10. ticks(h.dwell) + ticks(h.travel) # 0
  BY <1>1, <1>7, <1>8, FewErrors, SMT DEF Require
<1>11. ticks(h.soon) # 0 /\ h.late >= h.soon
  BY <1>1, <1>6, <1>8, FewErrors, SMT DEF Require
<1>12. ticks(h.soon) <= ticks(h.late)
  BY <1>11, TicksGrow
<1> QED BY <1>9, <1>10, <1>11, <1>12

\* [hazard.<kind>].
LEMMA HazardErrors ==
    \A h : IsErrors(hazard_archetype(h))
<1> TAKE h
<1>1. /\ IsCode("hazard_kind_name_invalid") /\ IsCode("hazard_scalar_out_of_range")
      /\ IsCode("hazard_scalar_not_finite")
  BY Zenon DEF IsCode
<1>2. \A v : IsErrors(hazard_positive(v)) /\ IsErrors(hazard_finite(v))
  BY <1>1, ErrorsConcat, FewErrors, SMT DEF hazard_positive, hazard_finite
<1>3. \A v : IsErrors(duration_ticks(v))
  BY DurationErrors
<1> QED BY <1>1, <1>2, <1>3, ErrorsConcat, FewErrors, SMT DEF hazard_archetype

\* [bot_profile.<name>].
LEMMA ProfileErrors ==
    ASSUME NEW p, p.weights \in Seq(Int)
    PROVE  IsErrors(tactical_profile(p))
<1> DEFINE shares == << <<p.brake, "arrival_brake">>, <<p.exposure, "exposure_preference">>, <<p.opening, "minimum_opening">> >>
           weighed == [k \in DOMAIN p.weights |-> Require(p.weights[k] \in 0 .. 100, "tactical_profile_objective_weight_invalid")]
           shared == [k \in DOMAIN shares |-> Require(shares[k][1] \in 0 .. 100, shares[k][2])]
<1>1. /\ IsCode("tactical_profile_name_invalid") /\ IsCode("tactical_profile_probability_invalid")
      /\ IsCode("tactical_profile_reaction_delay_invalid") /\ IsCode("tactical_profile_aim_error_invalid")
      /\ IsCode("tactical_profile_persistence_invalid") /\ IsCode("tactical_profile_objective_weight_invalid")
      /\ IsCode("tactical_profile_objective_weights_degenerate") /\ IsCode("tactical_profile_risk_tolerance_invalid")
      /\ IsCode("tactical_profile_prediction_horizon_invalid") /\ IsCode("tactical_profile_charge_screen_invalid")
      /\ IsCode("tactical_profile_shield_anticipation_invalid") /\ IsCode("tactical_profile_road_caution_invalid")
      /\ IsCode("arrival_brake") /\ IsCode("exposure_preference") /\ IsCode("minimum_opening")
  BY Zenon DEF IsCode
<1>2. IsErrors(FlattenSeq(weighed))
  <2> DEFINE n == Len(p.weights)
  <2>1. n \in Nat /\ weighed = [k \in 1 .. n |-> weighed[k]]
    OBVIOUS
  <2>2. \A k \in 1 .. n : IsErrors(weighed[k])
    BY <1>1, FewErrors
  <2> HIDE DEF weighed, n
  <2> QED BY <2>1, <2>2, ErrorsFlatten
<1>3. IsErrors(FlattenSeq(shared))
  <2>1. shared = [k \in 1 .. 3 |-> shared[k]]
    OBVIOUS
  <2>2. shares[1][2] = "arrival_brake" /\ shares[2][2] = "exposure_preference" /\ shares[3][2] = "minimum_opening"
    OBVIOUS
  <2>3. \A k \in 1 .. 3 : shared[k] = Require(shares[k][1] \in 0 .. 100, shares[k][2])
    OBVIOUS
  <2>4. \A k \in 1 .. 3 : IsCode(shares[k][2])
    <3> HIDE DEF shares
    <3> QED BY <1>1, <2>2
  <2> HIDE DEF shares, shared
  <2>5. \A k \in 1 .. 3 : IsErrors(shared[k])
    <3> TAKE k \in 1 .. 3
    <3>1. IsErrors(Require(shares[k][1] \in 0 .. 100, shares[k][2]))
      BY <2>4, FewErrors, Zenon
    <3> QED BY <2>3, <3>1
  <2> QED BY <2>1, <2>5, ErrorsFlatten
<1> DEFINE x == Require(p.named, "tactical_profile_name_invalid")
                \o Require(p.seek \in 0 .. 100, "tactical_profile_probability_invalid")
                \o Require(p.reaction <= 4000, "tactical_profile_reaction_delay_invalid")
                \o Require(p.aim \in 0 .. 25, "tactical_profile_aim_error_invalid")
                \o Require(p.persistence <= 4000, "tactical_profile_persistence_invalid")
           y == x \o FlattenSeq(weighed)
                \o Require(\E w \in Range(p.weights) : w > 0, "tactical_profile_objective_weights_degenerate")
           z == y \o Require(p.risk \in 0 .. 100, "tactical_profile_risk_tolerance_invalid")
                \o Require(p.horizon <= 400, "tactical_profile_prediction_horizon_invalid")
                \o Require(p.screen \in 0 .. 100, "tactical_profile_charge_screen_invalid")
                \o Require(p.anticipation <= 40, "tactical_profile_shield_anticipation_invalid")
                \o Require(p.caution \in 1 .. 100, "tactical_profile_road_caution_invalid")
<1>4. tactical_profile(p) = z \o FlattenSeq(shared)
  BY Zenon DEF tactical_profile, ForAll
<1> HIDE DEF weighed, shared
<1>5. IsErrors(x)
  BY <1>1, ErrorsConcat, FewErrors, SMT
<1>6. IsErrors(y)
  <2> HIDE DEF x
  <2>1. IsErrors(Require(\E w \in Range(p.weights) : w > 0, "tactical_profile_objective_weights_degenerate"))
    BY <1>1, FewErrors, Zenon
  <2> DEFINE r == Require(\E w \in Range(p.weights) : w > 0, "tactical_profile_objective_weights_degenerate")
  <2>2. y = x \o FlattenSeq(weighed) \o r
    OBVIOUS
  <2> HIDE DEF r, y
  <2>3. IsErrors(r)
    BY <2>1 DEF r
  <2> QED BY <1>2, <1>5, <2>2, <2>3, ErrorsConcat
<1>7. IsErrors(z)
  <2> HIDE DEF x, y
  <2> QED BY <1>1, <1>6, ErrorsConcat, FewErrors, SMT
<1> HIDE DEF x, y, z
<1> QED BY <1>3, <1>4, <1>7, ErrorsConcat

\* Every profile of the catalogue.
LEMMA CatalogueErrors ==
    ASSUME NEW S, NEW profiles \in Seq(S), \A p \in S : p.weights \in Seq(Int)
    PROVE  IsErrors(tactical_profile_catalogue(profiles))
<1>1. /\ IsCode("tactical_profile_catalogue_full") /\ IsCode("tactical_profile_name_duplicate")
  BY Zenon DEF IsCode
<1>2. IsErrors(ForAll(profiles, tactical_profile))
  <2>1. DOMAIN profiles = 1 .. Len(profiles) /\ Len(profiles) \in Nat
    OBVIOUS
  <2>2. \A k \in 1 .. Len(profiles) : IsErrors(tactical_profile(profiles[k]))
    <3> TAKE k \in 1 .. Len(profiles)
    <3>1. profiles[k] \in S
      OBVIOUS
    <3> QED BY <3>1, ProfileErrors
  <2> QED BY <2>1, <2>2, EachProfile
<1> QED BY <1>1, <1>2, ErrorsConcat, FewErrors, SMT DEF tactical_profile_catalogue

\* An allowlist, of entries that each need a canonical form.
LEMMA AllowlistErrors ==
    ASSUME NEW n \in Nat, NEW formed, formed = [k \in 1 .. n |-> formed[k]], NEW code, IsCode(code),
           \A k \in 1 .. n : formed[k] \in {<<>>, <<code>>}, NEW few, NEW distinct
    PROVE  IsErrors(Require(few, code) \o FlattenSeq(formed) \o Require(distinct, code))
<1>1. \A k \in 1 .. n : IsErrors(formed[k])
  BY FewErrors
<1>2. IsErrors(FlattenSeq(formed))
  BY <1>1, ErrorsFlatten
<1>3. IsErrors(Require(few, code)) /\ IsErrors(Require(distinct, code))
  BY FewErrors, Zenon
<1> DEFINE x == Require(few, code)
           y == Require(distinct, code)
<1>4. IsErrors(x) /\ IsErrors(y)
  BY <1>3
<1> HIDE DEF x, y
<1>5. IsErrors(x \o FlattenSeq(formed) \o y)
  BY <1>2, <1>4, ErrorsConcat
<1> QED BY <1>5 DEF x, y

\* [server] and [presentation].
LEMMA ServerErrors ==
    ASSUME NEW s, NEW w, NEW E, s.hosts \in Seq(E), s.origins \in Seq(E), s.proxies \in Seq(E)
    PROVE  IsErrors(server_config(s, w))
<1> DEFINE hosts == [k \in DOMAIN s.hosts |-> Require(normalize_authority(s.hosts[k], s.port) # {}, "host_allowlist_invalid")]
           origins == [k \in DOMAIN s.origins |->
                         Require(normalize_serialized_origin(s.origins[k]) # {}, "origin_allowlist_invalid")]
           proxies == [k \in DOMAIN s.proxies |->
                         Require(normalize_proxy_address(s.proxies[k]) # {}, "trusted_proxy_allowlist_invalid")]
           x == Require(Len(s.hosts) <= MaximumAllowlist /\ (TRUE => s.hosts # <<>>), "host_allowlist_invalid")
                \o FlattenSeq(hosts)
                \o Require(Cardinality(UNION {normalize_authority(e, s.port) : e \in Range(s.hosts)}) = Len(s.hosts),
                           "host_allowlist_invalid")
           y == Require(Len(s.origins) <= MaximumAllowlist /\ (FALSE => s.origins # <<>>), "origin_allowlist_invalid")
                \o FlattenSeq(origins)
                \o Require(Cardinality(UNION {normalize_serialized_origin(e) : e \in Range(s.origins)}) = Len(s.origins),
                           "origin_allowlist_invalid")
           z == Require(Len(s.proxies) <= MaximumAllowlist /\ (FALSE => s.proxies # <<>>), "trusted_proxy_allowlist_invalid")
                \o FlattenSeq(proxies)
                \o Require(Cardinality(UNION {normalize_proxy_address(e) : e \in Range(s.proxies)}) = Len(s.proxies),
                           "trusted_proxy_allowlist_invalid")
           a == Require(parse_canonical_address(s.bind) /\ is_supported_bind_address(s.bind), "bind_address_invalid")
           d == Require(s.bind = "loopback" \/ (s.origins # <<>> /\ s.proxies # <<>>), "non_loopback_policy_invalid")
<1>1. /\ IsCode("bind_address_invalid") /\ IsCode("port_out_of_range") /\ IsCode("presentation_rate_out_of_range")
      /\ IsCode("host_allowlist_invalid") /\ IsCode("origin_allowlist_invalid")
      /\ IsCode("trusted_proxy_allowlist_invalid") /\ IsCode("non_loopback_policy_invalid")
  BY Zenon DEF IsCode
<1>2. server_config(s, w) =
        a \o Require(s.port \in 1 .. MaximumPort, "port_out_of_range")
        \o Require(s.snapshots \in 1 .. 60, "presentation_rate_out_of_range")
        \o public_configuration(w, s.snapshots) \o x \o y \o z \o d
  BY Zenon DEF server_config, normalize_allowlist, ForAll
<1>3. IsErrors(a) /\ IsErrors(d)
  BY <1>1, FewErrors, Zenon
<1>4. IsErrors(x)
  <2> DEFINE n == Len(s.hosts)
  <2>1. n \in Nat /\ hosts = [k \in 1 .. n |-> hosts[k]]
    OBVIOUS
  <2>2. \A k \in 1 .. n : hosts[k] \in {<<>>, <<"host_allowlist_invalid">>}
    BY DEF Require
  <2> HIDE DEF hosts, n
  <2> QED BY <1>1, <2>1, <2>2, AllowlistErrors, Zenon
<1>5. IsErrors(y)
  <2> DEFINE n == Len(s.origins)
  <2>1. n \in Nat /\ origins = [k \in 1 .. n |-> origins[k]]
    OBVIOUS
  <2>2. \A k \in 1 .. n : origins[k] \in {<<>>, <<"origin_allowlist_invalid">>}
    BY DEF Require
  <2> HIDE DEF origins, n
  <2> QED BY <1>1, <2>1, <2>2, AllowlistErrors, Zenon
<1>6. IsErrors(z)
  <2> DEFINE n == Len(s.proxies)
  <2>1. n \in Nat /\ proxies = [k \in 1 .. n |-> proxies[k]]
    OBVIOUS
  <2>2. \A k \in 1 .. n : proxies[k] \in {<<>>, <<"trusted_proxy_allowlist_invalid">>}
    BY DEF Require
  <2> HIDE DEF proxies, n
  <2> QED BY <1>1, <2>1, <2>2, AllowlistErrors, Zenon
<1> HIDE DEF a, d, x, y, z
<1>7. IsErrors(public_configuration(w, s.snapshots))
  BY PublicErrors
<1>8. IsErrors(Require(s.port \in 1 .. MaximumPort, "port_out_of_range"))
      /\ IsErrors(Require(s.snapshots \in 1 .. 60, "presentation_rate_out_of_range"))
  BY <1>1, FewErrors, Zenon
<1> DEFINE b == Require(s.port \in 1 .. MaximumPort, "port_out_of_range")
           c == Require(s.snapshots \in 1 .. 60, "presentation_rate_out_of_range")
<1>9. server_config(s, w) = a \o b \o c \o public_configuration(w, s.snapshots) \o x \o y \o z \o d
  BY <1>2
<1>10. IsErrors(b) /\ IsErrors(c)
  BY <1>8
<1> HIDE DEF b, c
<1> QED BY <1>3, <1>4, <1>5, <1>6, <1>7, <1>9, <1>10, ErrorsConcat

\* The entries of a roster.
LEMMA RosterErrors ==
    ASSUME NEW E, NEW roster \in Seq(E)
    PROVE  /\ \A k : IsErrors(require_roster_entry(roster, k))
           /\ \A k : require_roster_entry(roster, k) = <<>> => roster[k].count > 0
           /\ IsErrors(parse_bot_roster(roster))
<1>1. IsCode("match_bot_roster_invalid") /\ IsCode("bot_profile_name_invalid")
  BY Zenon DEF IsCode
<1>2. ASSUME NEW k
      PROVE  /\ IsErrors(require_roster_entry(roster, k))
             /\ require_roster_entry(roster, k) = <<>> => roster[k].count > 0
  <2> DEFINE a == Require(k <= MaximumRosterEntries, "match_bot_roster_invalid")
             b == Require(roster[k].kind # "", "match_bot_roster_invalid")
             c == Require(roster[k].count > 0, "match_bot_roster_invalid")
             d == Require(\A j \in 1 .. k - 1 : roster[j].kind # roster[k].kind \/ roster[j].profile # roster[k].profile,
                          "match_bot_roster_invalid")
  <2>1. require_roster_entry(roster, k) = a \o b \o c \o d
    BY Zenon DEF require_roster_entry
  <2>2. IsErrors(a) /\ IsErrors(b) /\ IsErrors(c) /\ IsErrors(d)
    BY <1>1, FewErrors, Zenon
  <2>3. c = <<>> => roster[k].count > 0
    BY <1>1, FewErrors, Zenon DEF Require
  <2> HIDE DEF a, b, c, d
  <2> QED BY <2>1, <2>2, <2>3, ErrorsConcat
<1>3. IsErrors(parse_bot_roster(roster))
  <2> DEFINE ss == [k \in DOMAIN roster |->
                      Require(roster[k].kind # "malformed", "match_bot_roster_invalid")
                      \o Require(roster[k].profile # "Not_Snake", "bot_profile_name_invalid")
                      \o require_roster_entry(roster, k)]
             n == Len(roster)
  <2>1. parse_bot_roster(roster) = FlattenSeq(ss)
    BY Zenon DEF parse_bot_roster
  <2>2. n \in Nat /\ ss = [k \in 1 .. n |-> ss[k]]
    OBVIOUS
  <2>3. ASSUME NEW k \in 1 .. n PROVE IsErrors(ss[k])
    <3> DEFINE a == Require(roster[k].kind # "malformed", "match_bot_roster_invalid")
               b == Require(roster[k].profile # "Not_Snake", "bot_profile_name_invalid")
    <3>1. k \in DOMAIN roster
      OBVIOUS
    <3>2. ss[k] = a \o b \o require_roster_entry(roster, k)
      BY <3>1, Zenon
    <3>3. IsErrors(a) /\ IsErrors(b)
      BY <1>1, FewErrors, Zenon
    <3> HIDE DEF a, b, ss
    <3> QED BY <1>2, <3>2, <3>3, ErrorsConcat
  <2> HIDE DEF ss, n
  <2> QED BY <2>1, <2>2, <2>3, ErrorsFlatten
<1> QED BY <1>2, <1>3

\* What a bot's kind asks of its profile.
LEMMA RegisteredErrors ==
    ASSUME NEW e
    PROVE  /\ IsErrors(registered_entry(e))
           /\ registered_entry(e) = <<>> =>
                /\ e.kind \in DOMAIN ControllerKinds
                /\ ControllerKinds[e.kind] <=> e.profile # ""
<1> DEFINE requires == e.kind \in DOMAIN ControllerKinds /\ ControllerKinds[e.kind]
           a == Require(e.kind \in DOMAIN ControllerKinds, "match_bot_kind_unknown")
           b == Require(requires => e.profile # "", "match_bot_profile_required")
           c == Require(~ requires => e.profile = "", "match_bot_profile_unexpected")
<1>1. /\ IsCode("match_bot_kind_unknown") /\ IsCode("match_bot_profile_required")
      /\ IsCode("match_bot_profile_unexpected")
  BY Zenon DEF IsCode
<1>2. registered_entry(e) = a \o b \o c
  BY Zenon DEF registered_entry
<1>3. IsErrors(a) /\ IsErrors(b) /\ IsErrors(c)
  BY <1>1, FewErrors, Zenon
<1>4. /\ a = <<>> => e.kind \in DOMAIN ControllerKinds
      /\ b = <<>> => (requires => e.profile # "")
      /\ c = <<>> => (~ requires => e.profile = "")
  BY <1>1, FewErrors, Zenon DEF Require
<1> HIDE DEF a, b, c
<1>5. IsErrors(registered_entry(e)) /\ (registered_entry(e) = <<>> => a = <<>> /\ b = <<>> /\ c = <<>>)
  BY <1>2, <1>3, ErrorsConcat
<1> QED BY <1>4, <1>5, Zenon

\* [match]: a known mode, and bots of known kinds with the profiles these need.
LEMMA MatchErrors ==
    ASSUME NEW m, NEW E, m.roster \in Seq(E)
    PROVE  /\ IsErrors(match_configuration(m))
           /\ match_configuration(m) = <<>> =>
                /\ m.mode \in GameModes
                /\ \A k \in DOMAIN m.roster : registered_entry(m.roster[k]) = <<>> /\ m.roster[k].count > 0
<1> DEFINE n == Len(m.roster)
           ss == [k \in DOMAIN m.roster |->
                    require_roster_entry(m.roster, k) \o registered_entry(m.roster[k])
                    \o Require(total_bot_count(SubSeq(m.roster, 1, k)) <= MaximumBotCount, "match_bot_roster_too_large")]
           a == Require(m.mode # "Not_Snake", "match_mode_name_invalid")
           b == Require(m.mode \in GameModes, "match_mode_unknown")
           c == Require(m.map_named, "match_map_name_invalid")
           d == Require(m.seats \in 1 .. MaximumSeatCount, "match_lobby_seat_count_out_of_range")
<1>1. /\ IsCode("match_mode_name_invalid") /\ IsCode("match_mode_unknown") /\ IsCode("match_map_name_invalid")
      /\ IsCode("match_lobby_seat_count_out_of_range") /\ IsCode("match_bot_roster_too_large")
  BY Zenon DEF IsCode
<1>2. match_configuration(m) = parse_bot_roster(m.roster) \o a \o b \o c \o d \o FlattenSeq(ss)
  BY Zenon DEF match_configuration
<1>3. IsErrors(a) /\ IsErrors(b) /\ IsErrors(c) /\ IsErrors(d)
  BY <1>1, FewErrors, Zenon
<1>4. b = <<>> => m.mode \in GameModes
  BY <1>1, FewErrors, Zenon DEF Require
<1>5. n \in Nat /\ ss = [k \in 1 .. n |-> ss[k]] /\ DOMAIN m.roster = 1 .. n
  OBVIOUS
<1>6. ASSUME NEW k \in 1 .. n
      PROVE  /\ IsErrors(ss[k])
             /\ ss[k] = <<>> => registered_entry(m.roster[k]) = <<>> /\ m.roster[k].count > 0
  <2> DEFINE r == Require(total_bot_count(SubSeq(m.roster, 1, k)) <= MaximumBotCount, "match_bot_roster_too_large")
  <2>1. ss[k] = require_roster_entry(m.roster, k) \o registered_entry(m.roster[k]) \o r
    BY <1>5, Zenon
  <2>2. IsErrors(r)
    BY <1>1, FewErrors, Zenon
  <2> HIDE DEF r, ss
  <2>3. /\ IsErrors(require_roster_entry(m.roster, k)) /\ IsErrors(registered_entry(m.roster[k]))
        /\ require_roster_entry(m.roster, k) = <<>> => m.roster[k].count > 0
    BY RosterErrors, RegisteredErrors, Zenon
  <2> QED BY <2>1, <2>2, <2>3, ErrorsConcat
<1>7. IsErrors(parse_bot_roster(m.roster))
  BY RosterErrors
<1> HIDE DEF a, b, c, d, ss, n
<1>8. IsErrors(FlattenSeq(ss)) /\ (FlattenSeq(ss) = <<>> => \A k \in 1 .. n : ss[k] = <<>>)
  BY <1>5, <1>6, ErrorsFlatten
<1>9. IsErrors(match_configuration(m)) /\ (match_configuration(m) = <<>> => b = <<>> /\ FlattenSeq(ss) = <<>>)
  BY <1>2, <1>3, <1>7, <1>8, ErrorsConcat
<1> QED BY <1>4, <1>5, <1>6, <1>8, <1>9

---------------------------------------------------------------------------
(* Startup: the configuration as a whole.                                  *)

\* What an accepted configuration is: the abilities and the hill last, the mode
\* and the bots' kinds are known, and a bot has a declared profile exactly when
\* its kind needs one, which only a mode with a lobby gives.
Declared(name) == \E p \in Range(input.profiles) : p.name = name
AbilitiesLast ==
    /\ \A q \in {input.abilities.shield, input.abilities.perfect, input.abilities.parry_stun,
                 input.abilities.charge_cooldown, input.abilities.charge_active, input.abilities.charge_stun} : ticks(q) >= 1
    /\ ticks(input.abilities.perfect) <= ticks(input.abilities.shield)
HillLasts ==
    /\ ticks(input.hill.dwell) + ticks(input.hill.travel) >= 1
    /\ 1 <= ticks(input.hill.soon) /\ ticks(input.hill.soon) <= ticks(input.hill.late)
BotIsKnown(e) ==
    /\ e.kind \in DOMAIN ControllerKinds
    /\ ControllerKinds[e.kind] <=> e.profile # ""
    /\ e.profile # "" => Declared(e.profile) /\ accepts_start_match(input.match.mode)
Configured ==
    /\ AbilitiesLast /\ HillLasts
    /\ input.match.mode \in GameModes
    /\ \A k \in DOMAIN input.match.roster : BotIsKnown(input.match.roster[k])
    /\ input.lobby.count >= 1

\* What ApplicationConfig checks across the sections.
LEMMA ApplicationErrors ==
    ASSUME NEW E, input.match.roster \in Seq(E)
    PROVE  /\ IsErrors(application_config)
           /\ application_config = <<>> =>
                \A k \in DOMAIN input.match.roster :
                   input.match.roster[k].profile # "" =>
                      Declared(input.match.roster[k].profile) /\ accepts_start_match(input.match.mode)
<1> DEFINE roster == input.match.roster
           n == Len(roster)
           ss == [k \in DOMAIN roster |->
                    Require(roster[k].profile = "" \/ \E p \in Range(input.profiles) : p.name = roster[k].profile,
                            "match_bot_profile_unknown")]
           a == Require((\E e \in Range(roster) : e.profile # "") => accepts_start_match(input.match.mode),
                        "match_bot_profile_mode_unsupported")
<1>1. IsCode("match_bot_profile_unknown") /\ IsCode("match_bot_profile_mode_unsupported")
  BY Zenon DEF IsCode
<1>2. application_config = FlattenSeq(ss) \o a
  BY Zenon DEF application_config, ForAll
<1>3. IsErrors(a)
  BY <1>1, FewErrors, Zenon
<1>4. a = <<>> => ((\E e \in Range(roster) : e.profile # "") => accepts_start_match(input.match.mode))
  BY <1>1, FewErrors, Zenon DEF Require
<1>5. n \in Nat /\ ss = [k \in 1 .. n |-> ss[k]] /\ DOMAIN roster = 1 .. n
  <2>1. n \in Nat /\ DOMAIN roster = 1 .. n
    OBVIOUS
  <2>2. ss = [k \in DOMAIN roster |-> ss[k]]
    BY Zenon
  <2> HIDE DEF ss
  <2> QED BY <2>1, <2>2
<1>6. ASSUME NEW k \in 1 .. n
      PROVE  /\ IsErrors(ss[k])
             /\ ss[k] = <<>> => roster[k].profile = "" \/ Declared(roster[k].profile)
  <2>1. ss[k] = Require(roster[k].profile = "" \/ \E p \in Range(input.profiles) : p.name = roster[k].profile,
                        "match_bot_profile_unknown")
    BY <1>5, Zenon
  <2>2. IsErrors(Require(roster[k].profile = "" \/ \E p \in Range(input.profiles) : p.name = roster[k].profile,
                         "match_bot_profile_unknown"))
    BY <1>1, FewErrors, Zenon
  <2>3. Require(roster[k].profile = "" \/ \E p \in Range(input.profiles) : p.name = roster[k].profile,
                "match_bot_profile_unknown") = <<>>
        => roster[k].profile = "" \/ Declared(roster[k].profile)
    BY <1>1, FewErrors, Zenon DEF Require, Declared
  <2> HIDE DEF ss, roster
  <2> QED BY <2>1, <2>2, <2>3, Zenon
<1>7. \A k \in 1 .. n : roster[k].profile # "" => \E e \in Range(roster) : e.profile # ""
  BY <1>5, Zenon DEF Range
<1> HIDE DEF a, ss, n
<1>8. IsErrors(FlattenSeq(ss)) /\ (FlattenSeq(ss) = <<>> => \A k \in 1 .. n : ss[k] = <<>>)
  BY <1>5, <1>6, ErrorsFlatten, Zenon
<1>9. IsErrors(application_config) /\ (application_config = <<>> => a = <<>> /\ FlattenSeq(ss) = <<>>)
  BY <1>2, <1>3, <1>8, ErrorsConcat
<1> QED BY <1>4, <1>5, <1>6, <1>7, <1>8, <1>9, Zenon

\* The configuration an operator gives is accepted only if it is all that.
LEMMA ConfigurationErrors ==
    ASSUME input \in Inputs
    PROVE  IsErrors(load_configuration) /\ (load_configuration = <<>> => Configured)
<1> DEFINE hazards == ForAll(input.hazards, hazard_archetype)
           one == Require(input.scenario.given => input.lobby.count = 1, "lobbies_scenario_requires_one_lobby")
           x == simulation_config(input.world) \o server_config(input.server, input.world)
                \o match_configuration(input.match)
                \o movement_tuning(input.movement.acceleration, input.movement.top, 0, 0, 0)
           y == x \o ability_configuration(input.abilities)
                \o royale_configuration(input.royale) \o king_of_the_hill_configuration(input.hill)
                \o race_configuration(input.race) \o hazards
           z == movement_tuning(input.movement.acceleration, input.movement.top, input.abilities.fraction,
                                spawn_rate(input.hazards, TRUE), spawn_rate(input.hazards, FALSE))
           d == duration_ticks(input.lobby.sandbox_respawn)
           u == y \o d \o z \o lobbies_configuration(input.lobby.count)
<1>1. load_configuration =
        u \o tactical_profile_catalogue(input.profiles) \o one \o application_config
  BY Zenon DEF load_configuration
<1>2. /\ \E E : input.match.roster \in Seq(E)
      /\ \E E : input.server.hosts \in Seq(E) /\ input.server.origins \in Seq(E) /\ input.server.proxies \in Seq(E)
      /\ \E E : input.profiles \in Seq(E) /\ \A p \in E : p.weights \in Seq(Int)
      /\ \E E : input.hazards \in Seq(E)
      /\ \A q \in {input.abilities.shield, input.abilities.perfect, input.abilities.parry_stun,
                   input.abilities.charge_cooldown, input.abilities.charge_active, input.abilities.charge_stun} : q \in Int
      /\ \A q \in {input.hill.dwell, input.hill.travel, input.hill.soon, input.hill.late} : q \in Int
      /\ input.lobby.count \in Int
  <2>1. \E E : input.match.roster \in Seq(E)
    BY DEF Inputs
  <2>2. \E E : input.server.hosts \in Seq(E) /\ input.server.origins \in Seq(E) /\ input.server.proxies \in Seq(E)
    BY DEF Inputs, Allowlist
  <2>3. \E E : input.profiles \in Seq(E) /\ \A p \in E : p.weights \in Seq(Int)
    <3> DEFINE P == [name : STRING, named : BOOLEAN, seek : Int, reaction : Int, aim : Int, persistence : Int,
                     weights : Seq(Int), risk : Int, horizon : Int, screen : Int, anticipation : Int, caution : Int,
                     brake : Int, exposure : Int, opening : Int]
    <3>1. input.profiles \in Seq(P)
      BY DEF Inputs
    <3>2. \A p \in P : p.weights \in Seq(Int)
      OBVIOUS
    <3> HIDE DEF P
    <3> QED BY <3>1, <3>2
  <2>4. \E E : input.hazards \in Seq(E)
    BY DEF Inputs
  <2>5. /\ \A q \in {input.abilities.shield, input.abilities.perfect, input.abilities.parry_stun,
                     input.abilities.charge_cooldown, input.abilities.charge_active, input.abilities.charge_stun} : q \in Int
        /\ \A q \in {input.hill.dwell, input.hill.travel, input.hill.soon, input.hill.late} : q \in Int
        /\ input.lobby.count \in Int
    <3>1. input.abilities.shield \in Int /\ input.abilities.perfect \in Int /\ input.abilities.parry_stun \in Int
      BY DEF Inputs
    <3>2. /\ input.abilities.charge_cooldown \in Int /\ input.abilities.charge_active \in Int
          /\ input.abilities.charge_stun \in Int
      BY DEF Inputs
    <3>3. input.hill.dwell \in Int /\ input.hill.travel \in Int /\ input.hill.soon \in Int /\ input.hill.late \in Int
      BY DEF Inputs
    <3>4. input.lobby.count \in Int
      BY DEF Inputs
    <3> QED BY <3>1, <3>2, <3>3, <3>4
  <2> QED BY <2>1, <2>2, <2>3, <2>4, <2>5
<1>3. IsErrors(x) /\ (x = <<>> => match_configuration(input.match) = <<>>)
  <2>1. IsErrors(simulation_config(input.world))
    BY WorldErrors
  <2>2. IsErrors(server_config(input.server, input.world))
    BY <1>2, ServerErrors
  <2>3. IsErrors(match_configuration(input.match))
    BY <1>2, MatchErrors
  <2>4. IsErrors(movement_tuning(input.movement.acceleration, input.movement.top, 0, 0, 0))
    BY TuningErrors
  <2> QED BY <2>1, <2>2, <2>3, <2>4, ErrorsConcat
<1>4. IsErrors(hazards)
  <2>1. PICK E : input.hazards \in Seq(E)
    BY <1>2
  <2>2. DOMAIN input.hazards = 1 .. Len(input.hazards) /\ Len(input.hazards) \in Nat
    BY <2>1
  <2> QED BY <2>2, HazardErrors, EachHazard
<1>5. /\ IsErrors(y)
      /\ y = <<>> => x = <<>> /\ ability_configuration(input.abilities) = <<>>
                     /\ king_of_the_hill_configuration(input.hill) = <<>>
  <2>1. IsErrors(ability_configuration(input.abilities)) /\ IsErrors(king_of_the_hill_configuration(input.hill))
    BY <1>2, AbilityErrors, HillErrors
  <2>2. IsErrors(royale_configuration(input.royale)) /\ IsErrors(race_configuration(input.race))
    BY RoyaleErrors, RaceErrors
  <2> HIDE DEF x, hazards
  <2> QED BY <1>3, <1>4, <2>1, <2>2, ErrorsConcat
<1>6. /\ IsErrors(d) /\ IsErrors(z)
      /\ IsErrors(lobbies_configuration(input.lobby.count))
      /\ lobbies_configuration(input.lobby.count) = <<>> => input.lobby.count \in 1 .. MaximumLobbies
  BY DurationErrors, TuningErrors, LobbiesErrors
<1>7. IsErrors(tactical_profile_catalogue(input.profiles))
  BY <1>2, CatalogueErrors
<1>8. IsErrors(one)
  <2>1. IsCode("lobbies_scenario_requires_one_lobby")
    BY Zenon DEF IsCode
  <2> QED BY <2>1, FewErrors, Zenon
<1>9. /\ IsErrors(application_config)
      /\ application_config = <<>> =>
           \A k \in DOMAIN input.match.roster :
              input.match.roster[k].profile # "" =>
                 Declared(input.match.roster[k].profile) /\ accepts_start_match(input.match.mode)
  BY <1>2, ApplicationErrors, Zenon
<1> HIDE DEF x, y, z, d, one
<1>10. IsErrors(u) /\ (u = <<>> => y = <<>> /\ lobbies_configuration(input.lobby.count) = <<>>)
  BY <1>5, <1>6, ErrorsConcat
<1> HIDE DEF u
<1>11. /\ IsErrors(load_configuration)
       /\ load_configuration = <<>> =>
             y = <<>> /\ lobbies_configuration(input.lobby.count) = <<>> /\ application_config = <<>>
  <2>1. IsErrors(application_config)
    BY <1>9, Zenon
  <2> QED BY <1>1, <1>7, <1>8, <1>10, <2>1, ErrorsConcat
<1> SUFFICES ASSUME load_configuration = <<>> PROVE Configured
  BY <1>11
<1>12. AbilitiesLast
  BY <1>2, <1>5, <1>11, AbilityErrors DEF AbilitiesLast
<1>13. HillLasts
  BY <1>2, <1>5, <1>11, HillErrors DEF HillLasts
<1>14. input.match.mode \in GameModes /\ \A k \in DOMAIN input.match.roster : registered_entry(input.match.roster[k]) = <<>>
  BY <1>2, <1>3, <1>5, <1>11, MatchErrors
<1>15. ASSUME NEW k \in DOMAIN input.match.roster PROVE BotIsKnown(input.match.roster[k])
  BY <1>9, <1>11, <1>14, RegisteredErrors, Zenon DEF BotIsKnown
<1>16. input.lobby.count >= 1
  BY <1>2, <1>6, <1>11
<1> QED BY <1>12, <1>13, <1>14, <1>15, <1>16 DEF Configured

---------------------------------------------------------------------------
(* Startup: the map and the world.                                         *)

\* The map.
LEMMA MapErrors == IsErrors(map_definition)
<1>1. /\ IsCode("map_name_invalid") /\ IsCode("map_static_body_limit_exceeded")
      /\ IsCode("map_marker_limit_exceeded") /\ IsCode("map_static_body_not_static")
      /\ IsCode("map_static_body_out_of_bounds") /\ IsCode("terrain_geometry_out_of_bounds")
      /\ IsCode("map_marker_kind_invalid") /\ IsCode("map_marker_out_of_bounds")
      /\ IsCode("map_metadata_limit_exceeded") /\ IsCode("map_metadata_key_invalid")
      /\ IsCode("map_metadata_value_invalid") /\ IsCode("map_metadata_duplicate_key")
  BY Zenon DEF IsCode
<1> DEFINE x1 == Require(map.metadata # "full", "map_metadata_limit_exceeded")
           x2 == Require(map.metadata # "key", "map_metadata_key_invalid")
           x3 == Require(map.metadata # "value", "map_metadata_value_invalid")
           x4 == Require(map.metadata # "duplicate", "map_metadata_duplicate_key")
           y1 == Require(map.named, "map_name_invalid")
           y2 == Require(map.statics <= EntityCount, "map_static_body_limit_exceeded")
           y3 == Require(map.spawns + map.hills + map.checkpoints <= EntityCount, "map_marker_limit_exceeded")
           y4 == Require(map.static_fault # "dynamic", "map_static_body_not_static")
           y5 == Require(map.static_fault # "outside", "map_static_body_out_of_bounds")
           y6 == Require(map.static_fault # "unsupported", "terrain_geometry_out_of_bounds")
           y7 == Require(map.marker_fault # "kind", "map_marker_kind_invalid")
           y8 == Require(map.marker_fault # "outside", "map_marker_out_of_bounds")
<1>2. map_definition = map_metadata \o y1 \o y2 \o y3 \o y4 \o y5 \o y6 \o y7 \o y8
  BY Zenon DEF map_definition
<1>3. map_metadata = x1 \o x2 \o x3 \o x4
  BY Zenon DEF map_metadata
<1>4. IsErrors(x1) /\ IsErrors(x2) /\ IsErrors(x3) /\ IsErrors(x4)
  BY <1>1, FewErrors, Zenon
<1>5. /\ IsErrors(y1) /\ IsErrors(y2) /\ IsErrors(y3) /\ IsErrors(y4)
      /\ IsErrors(y5) /\ IsErrors(y6) /\ IsErrors(y7) /\ IsErrors(y8)
  BY <1>1, FewErrors, Zenon
<1> HIDE DEF x1, x2, x3, x4, y1, y2, y3, y4, y5, y6, y7, y8
<1>6. IsErrors(map_metadata)
  BY <1>3, <1>4, ErrorsConcat
<1> DEFINE y == map_metadata \o y1 \o y2 \o y3 \o y4
<1>7. IsErrors(y)
  BY <1>5, <1>6, ErrorsConcat
<1>8. map_definition = y \o y5 \o y6 \o y7 \o y8
  BY <1>2
<1> HIDE DEF y
<1> QED BY <1>5, <1>7, <1>8, ErrorsConcat

\* A row of a scenario.
LEMMA RowErrors ==
    ASSUME NEW row, NEW seeds, NEW used
    PROVE  IsErrors(parse_player_row(row, seeds, used))
<1>1. /\ IsCode("scenario_row_empty") /\ IsCode("scenario_row_too_long")
      /\ IsCode("scenario_player_limit_exceeded") /\ IsCode("scenario_column_count_invalid")
      /\ IsCode("scenario_entity_id_out_of_range") /\ IsCode("scenario_value_out_of_range")
      /\ IsCode("scenario_value_invalid") /\ IsCode("scenario_value_not_finite")
      /\ IsCode("scenario_position_out_of_bounds") /\ IsCode("scenario_entity_id_duplicate")
  BY Zenon DEF IsCode
<1> DEFINE x1 == Require(row.form # "blank", "scenario_row_empty")
           x2 == Require(row.form # "long", "scenario_row_too_long")
           x3 == Require(seeds < EntityCount, "scenario_player_limit_exceeded")
           x4 == Require(row.form # "ragged", "scenario_column_count_invalid")
           x5 == Require(row.id # 0, "scenario_entity_id_out_of_range")
           y1 == Require(row.value # "too_large", "scenario_value_out_of_range")
           y2 == Require(row.value # "text", "scenario_value_invalid")
           y3 == Require(row.value # "infinite", "scenario_value_not_finite")
           y4 == Require(row.inside, "scenario_position_out_of_bounds")
           y5 == Require(row.id \notin used, "scenario_entity_id_duplicate")
<1>2. parse_player_row(row, seeds, used) = x1 \o x2 \o x3 \o x4 \o x5 \o y1 \o y2 \o y3 \o y4 \o y5
  BY Zenon DEF parse_player_row
<1>3. IsErrors(x1) /\ IsErrors(x2) /\ IsErrors(x3) /\ IsErrors(x4) /\ IsErrors(x5)
  BY <1>1, FewErrors, Zenon
<1>4. IsErrors(y1) /\ IsErrors(y2) /\ IsErrors(y3) /\ IsErrors(y4) /\ IsErrors(y5)
  BY <1>1, FewErrors, Zenon
<1> HIDE DEF x1, x2, x3, x4, x5, y1, y2, y3, y4, y5
<1> DEFINE x == x1 \o x2 \o x3 \o x4 \o x5
<1>5. IsErrors(x)
  BY <1>3, ErrorsConcat
<1>6. parse_player_row(row, seeds, used) = x \o y1 \o y2 \o y3 \o y4 \o y5
  BY <1>2
<1> HIDE DEF x
<1> QED BY <1>4, <1>5, <1>6, ErrorsConcat

\* The initial world.
LEMMA WorldLoadErrors ==
    ASSUME input \in Inputs
    PROVE  IsErrors(load_scenario \o game_world)
<1> DEFINE last == input.scenario.last
           ss == [k \in DOMAIN last |-> parse_player_row(last[k], input.scenario.rows, SeedIds)]
           n == Len(last)
           a == Require(input.scenario.header, "scenario_header_invalid")
           b == Require(input.scenario.rows <= EntityCount, "scenario_player_limit_exceeded")
           c == Require(map.spawns = 0 \/ map.spawns_seatable, "map_spawn_point_not_seatable")
           d == Require(map.statics + Cardinality(Seeds) <= EntityCount, "game_world_entity_limit_exceeded")
           e == Require(\A id \in Seeds : id > map.statics, "game_world_duplicate_entity_id")
<1>1. /\ IsCode("scenario_header_invalid") /\ IsCode("scenario_player_limit_exceeded")
      /\ IsCode("map_spawn_point_not_seatable") /\ IsCode("game_world_entity_limit_exceeded")
      /\ IsCode("game_world_duplicate_entity_id")
  BY Zenon DEF IsCode
<1>2. load_scenario = IF ~ input.scenario.given THEN <<>> ELSE a \o b \o FlattenSeq(ss)
  BY Zenon DEF load_scenario, ForAll
<1>3. game_world = c \o d \o e
  BY Zenon DEF game_world, require_spawn_points_are_seatable
<1>4. IsErrors(a) /\ IsErrors(b) /\ IsErrors(c) /\ IsErrors(d) /\ IsErrors(e)
  BY <1>1, FewErrors, Zenon
<1>5. IsErrors(FlattenSeq(ss))
  <2>1. last \in Seq([form : STRING, id : Nat, value : STRING, inside : BOOLEAN])
    BY DEF Inputs
  <2>2. n \in Nat /\ DOMAIN last = 1 .. n
    <3> HIDE DEF last
    <3> QED BY <2>1
  <2>3. ss = [k \in 1 .. n |-> ss[k]]
    BY <2>2
  <2>4. \A k \in 1 .. n : IsErrors(ss[k])
    BY <2>2, RowErrors
  <2> HIDE DEF ss, n
  <2> QED BY <2>2, <2>3, <2>4, ErrorsFlatten
<1> HIDE DEF a, b, c, d, e, ss
<1>6. IsErrors(load_scenario)
  BY <1>2, <1>4, <1>5, FewErrors, ErrorsConcat
<1>7. IsErrors(game_world)
  BY <1>3, <1>4, ErrorsConcat
<1> QED BY <1>6, <1>7, ErrorsConcat

---------------------------------------------------------------------------
(* Startup: the composition.                                               *)

\* A known bot can be built with a seat, and without one if it has no profile.
LEMMA KnownBotsAreBuilt ==
    ASSUME NEW bot, BotIsKnown(bot), NEW seated \in BOOLEAN, seated \/ bot.profile = ""
    PROVE  controller_registry_create(bot, seated) = <<>>
<1> DEFINE declared == bot.profile # "" /\ \E p \in Range(input.profiles) : p.name = bot.profile
           a == Require(seated /\ bot.profile # "" => declared, "npc_seat_profile_unknown")
           b == Require(bot.kind \in DOMAIN ControllerKinds, "controller_kind_unknown")
           c == Require(bot.kind \in DOMAIN ControllerKinds /\ ControllerKinds[bot.kind] = (declared /\ seated),
                        "controller_creation_context_invalid")
<1>1. controller_registry_create(bot, seated) = a \o b \o c
  BY Zenon DEF controller_registry_create
<1>2. bot.kind \in DOMAIN ControllerKinds /\ (ControllerKinds[bot.kind] <=> bot.profile # "")
  BY Zenon DEF BotIsKnown
<1>3. declared <=> bot.profile # ""
  BY Zenon DEF BotIsKnown, Declared
<1>4. ControllerKinds[bot.kind] \in BOOLEAN
  BY <1>2, StartupRulesAssumption, Zenon
<1>5. a = <<>>
  BY <1>3, Zenon DEF Require
<1>6. b = <<>>
  BY <1>2, Zenon DEF Require
<1>7. c = <<>>
  <2>1. CASE bot.profile = ""
    <3>1. ~ declared
      BY <1>3, <2>1, Zenon
    <3>2. ControllerKinds[bot.kind] = FALSE
      BY <1>2, <1>4, <2>1, Zenon
    <3>3. (declared /\ seated) = FALSE
      BY <3>1, Zenon
    <3> QED BY <1>2, <3>2, <3>3, Zenon DEF Require
  <2>2. CASE bot.profile # ""
    <3>1. declared /\ seated
      BY <1>3, <2>2, Zenon
    <3>2. ControllerKinds[bot.kind] = TRUE
      BY <1>2, <1>4, <2>2, Zenon
    <3>3. (declared /\ seated) = TRUE
      BY <3>1, Zenon
    <3> QED BY <1>2, <3>2, <3>3, Zenon DEF Require
  <2> QED BY <2>1, <2>2, Zenon
<1> HIDE DEF a, b, c
<1>8. <<>> \o <<>> = <<>>
  BY FewErrors, ErrorsConcat, Zenon
<1> QED BY <1>1, <1>5, <1>6, <1>7, <1>8, Zenon

\* Without a lobby the configured bots can be built.
LEMMA ConfiguredBotsAreBuilt ==
    ASSUME input \in Inputs, Configured
    PROVE  seat_configured_bots = <<>>
<1> DEFINE roster == input.match.roster
           ss == [k \in DOMAIN roster |-> controller_registry_create(roster[k], FALSE)]
           n == Len(roster)
<1>1. seat_configured_bots = IF accepts_start_match(input.match.mode) THEN <<>> ELSE FlattenSeq(ss)
  BY Zenon DEF seat_configured_bots, ForAll
<1> SUFFICES ASSUME ~ accepts_start_match(input.match.mode) PROVE FlattenSeq(ss) = <<>>
  BY <1>1
<1>2. roster \in Seq([kind : STRING, profile : STRING, count : Nat])
  BY DEF Inputs
<1>3. n \in Nat /\ DOMAIN roster = 1 .. n
  <2> HIDE DEF roster
  <2> QED BY <1>2
<1>4. ss = [k \in 1 .. n |-> ss[k]]
  BY <1>3
<1>5. ASSUME NEW k \in 1 .. n PROVE ss[k] = <<>>
  <2>1. BotIsKnown(roster[k]) /\ roster[k].profile = ""
    BY <1>3, Zenon DEF Configured, BotIsKnown
  <2> HIDE DEF roster
  <2>2. controller_registry_create(roster[k], FALSE) = <<>>
    BY <2>1, KnownBotsAreBuilt, Zenon
  <2> QED BY <1>3, <2>2
<1> HIDE DEF ss, n
<1> QED BY <1>3, <1>4, <1>5, FewErrors, ErrorsFlatten

\* What the composition has checked of a match.
Composed ==
    /\ accepts_start_match(input.match.mode) =>
         input.match.seats <= map.spawns /\ total_bot_count(input.match.roster) <= input.match.seats
    /\ map.spawns \in 1 .. MaximumSeatCount
    /\ map.width = input.world.width /\ map.height = input.world.height
    /\ input.match.mode = "royale" => zone_full_radius_exceeds(input.royale.minimum)
    /\ input.match.mode = "king_of_the_hill" => map.hills # 0
    /\ input.match.mode = "race" => map.checkpoints # 0 /\ map.checkpoints_supported
    /\ worst_case_entity_count <= IF active_hazards = <<>> THEN SnapshotEntityLimit
                                  ELSE IF MotionBodies < SnapshotEntityLimit THEN MotionBodies ELSE SnapshotEntityLimit

\* The course of a race has a gate.
LEMMA CourseErrors ==
    /\ IsErrors(race_course)
    /\ race_course = <<>> => map.checkpoints # 0
<1>1. /\ IsCode("race_map_road_missing") /\ IsCode("race_scalar_out_of_range")
      /\ IsCode("race_map_without_checkpoint") /\ IsCode("race_map_checkpoint_outside_corridor")
      /\ IsCode("race_map_spawn_point_outside_corridor") /\ IsCode("race_map_without_spawn_point")
  BY Zenon DEF IsCode
<1> DEFINE a == Require(map.road_half_width # 0, "race_map_road_missing")
           b == Require(input.race.radius <= map.road_half_width, "race_scalar_out_of_range")
           c == Require(map.checkpoints # 0, "race_map_without_checkpoint")
           d == Require(map.checkpoints_on_road, "race_map_checkpoint_outside_corridor")
           e == Require(map.spawns = 0 \/ map.spawns_on_road, "race_map_spawn_point_outside_corridor")
           f == Require(map.spawns # 0, "race_map_without_spawn_point")
<1>2. race_course = a \o b \o c \o d \o e \o f
  BY Zenon DEF race_course
<1>3. IsErrors(a) /\ IsErrors(b) /\ IsErrors(c) /\ IsErrors(d) /\ IsErrors(e) /\ IsErrors(f)
  BY <1>1, FewErrors, Zenon
<1>4. c = <<>> => map.checkpoints # 0
  BY <1>1, FewErrors, Zenon DEF Require
<1> HIDE DEF a, b, c, d, e, f
<1> QED BY <1>2, <1>3, <1>4, ErrorsConcat

\* The mode's rules for its map.
LEMMA ModeErrors ==
    ASSUME input.match.mode \in GameModes
    PROVE  /\ IsErrors(validate_map)
           /\ validate_map = <<>> =>
                /\ input.match.mode = "royale" => zone_full_radius_exceeds(input.royale.minimum)
                /\ input.match.mode = "king_of_the_hill" => map.hills # 0
<1> DEFINE a == Require(zone_full_radius_exceeds(input.royale.minimum), "royale_map_arena_within_zone_minimum")
           b == Require(map.hills # 0, "hill_map_without_hill")
           c == Require(map.spawns # 0, "hill_map_without_spawn_point")
           d == Require(map.spawns # 0, "sandbox_map_without_spawn_point")
<1>1. /\ IsCode("royale_map_arena_within_zone_minimum") /\ IsCode("hill_map_without_hill")
      /\ IsCode("hill_map_without_spawn_point") /\ IsCode("sandbox_map_without_spawn_point")
  BY Zenon DEF IsCode
<1>2. IsErrors(a) /\ IsErrors(b) /\ IsErrors(c) /\ IsErrors(d)
  BY <1>1, FewErrors, Zenon
<1>3. a = <<>> => zone_full_radius_exceeds(input.royale.minimum)
  BY <1>1, FewErrors, Zenon DEF Require
<1>4. b = <<>> => map.hills # 0
  BY <1>1, FewErrors, Zenon DEF Require
<1>5. /\ input.match.mode = "royale" => validate_map = a
      /\ input.match.mode = "king_of_the_hill" => validate_map = b \o c
      /\ input.match.mode = "race" => validate_map = race_course
      /\ input.match.mode = "sandbox" => validate_map = d
  BY Zenon DEF validate_map
<1> HIDE DEF a, b, c, d
<1>6. IsErrors(b \o c) /\ (b \o c = <<>> => b = <<>>)
  BY <1>2, ErrorsConcat
<1>7. IsErrors(race_course)
  BY CourseErrors
<1> QED BY <1>2, <1>3, <1>4, <1>5, <1>6, <1>7 DEF GameModes

\* What is composed is all that.
LEMMA ComposeErrors ==
    ASSUME input \in Inputs, Configured
    PROVE  IsErrors(compose) /\ (compose = <<>> => Composed)
<1> DEFINE a == Require(map.width = input.world.width /\ map.height = input.world.height, "match_map_bounds_mismatch")
           b == Require(map.checkpoints_supported, "match_race_checkpoint_unsupported")
           c == Require(worst_case_entity_count <=
                          (IF active_hazards = <<>> THEN SnapshotEntityLimit
                           ELSE IF MotionBodies < SnapshotEntityLimit THEN MotionBodies ELSE SnapshotEntityLimit),
                        "match_entity_budget_exceeded")
           d == Require(accepts_start_match(input.match.mode) => map.spawns >= input.match.seats,
                        "match_lobby_exceeds_spawn_markers")
           e == Require(accepts_start_match(input.match.mode) => total_bot_count(input.match.roster) <= input.match.seats,
                        "match_bots_exceed_seats")
           f == Require(map.statics + Cardinality(Seeds) <= MotionBodies, "continuous_motion_budget_exceeded")
           g == Require(map.spawns = 0 \/ map.spawns_seatable, "map_spawn_point_not_seatable")
           h == Require(map.spawns \in 1 .. MaximumSeatCount, "session_invariant_failed")
           r == require_race_checkpoint_returns_supported
           v == validate_map
<1>1. /\ IsCode("match_map_bounds_mismatch") /\ IsCode("match_race_checkpoint_unsupported")
      /\ IsCode("match_entity_budget_exceeded") /\ IsCode("match_lobby_exceeds_spawn_markers")
      /\ IsCode("match_bots_exceed_seats") /\ IsCode("continuous_motion_budget_exceeded")
      /\ IsCode("map_spawn_point_not_seatable") /\ IsCode("session_invariant_failed")
  BY Zenon DEF IsCode
<1>2. compose = a \o r \o c \o d \o e \o (f \o v \o g) \o h \o seat_configured_bots
  BY Zenon DEF compose, require_map_matches_published_world, require_match_fits_snapshot_bound, require_lobby_fits_map,
               require_bots_fit_seats, game_simulation, match_session_context, require_spawn_points_are_seatable
<1>3. IsErrors(a) /\ IsErrors(b) /\ IsErrors(c) /\ IsErrors(d)
  BY <1>1, FewErrors, Zenon
<1>4. IsErrors(e) /\ IsErrors(f) /\ IsErrors(g) /\ IsErrors(h)
  BY <1>1, FewErrors, Zenon
<1>5. /\ a = <<>> => map.width = input.world.width /\ map.height = input.world.height
      /\ b = <<>> => map.checkpoints_supported
      /\ c = <<>> => worst_case_entity_count <=
                        IF active_hazards = <<>> THEN SnapshotEntityLimit
                        ELSE IF MotionBodies < SnapshotEntityLimit THEN MotionBodies ELSE SnapshotEntityLimit
      /\ d = <<>> => (accepts_start_match(input.match.mode) => map.spawns >= input.match.seats)
      /\ e = <<>> => (accepts_start_match(input.match.mode) => total_bot_count(input.match.roster) <= input.match.seats)
      /\ h = <<>> => map.spawns \in 1 .. MaximumSeatCount
  BY <1>1, FewErrors, Zenon DEF Require
<1>6. IsErrors(r) /\ (r = <<>> /\ input.match.mode = "race" => race_course = <<>> /\ b = <<>>)
  <2>1. r = IF input.match.mode # "race" THEN <<>> ELSE race_course \o b
    BY Zenon DEF require_race_checkpoint_returns_supported
  <2> HIDE DEF b, r
  <2> QED BY <1>3, <2>1, CourseErrors, FewErrors, ErrorsConcat
<1>7. /\ IsErrors(v)
      /\ v = <<>> =>
            /\ input.match.mode = "royale" => zone_full_radius_exceeds(input.royale.minimum)
            /\ input.match.mode = "king_of_the_hill" => map.hills # 0
  BY ModeErrors DEF Configured
<1>8. IsErrors(seat_configured_bots)
  BY ConfiguredBotsAreBuilt, FewErrors
<1> DEFINE x == a \o r \o c \o d \o e
           y == f \o v \o g
<1> HIDE DEF a, b, c, d, e, f, g, h, r, v
<1>9. IsErrors(x) /\ (x = <<>> => a = <<>> /\ r = <<>> /\ c = <<>> /\ d = <<>> /\ e = <<>>)
  <2>1. IsErrors(r)
    BY <1>6
  <2> QED BY <1>3, <1>4, <2>1, ErrorsConcat
<1>10. IsErrors(y) /\ (y = <<>> => v = <<>>)
  <2>1. IsErrors(v)
    BY <1>7
  <2> QED BY <1>4, <2>1, ErrorsConcat
<1>11. compose = x \o y \o h \o seat_configured_bots
  BY <1>2
<1> HIDE DEF x, y
<1>12. IsErrors(compose) /\ (compose = <<>> => x = <<>> /\ y = <<>> /\ h = <<>>)
  <2>1. IsErrors(x) /\ IsErrors(y) /\ IsErrors(h)
    BY <1>4, <1>9, <1>10
  <2> QED BY <1>8, <1>11, <2>1, ErrorsConcat
<1> SUFFICES ASSUME compose = <<>> PROVE Composed
  BY <1>12
<1>13. map.spawns \in Int /\ input.match.seats \in Int
  <2>1. input.match \in [mode : STRING, map_named : BOOLEAN, seats : Int,
                         roster : Seq([kind : STRING, profile : STRING, count : Nat])]
    BY DEF Inputs
  <2>2. input.match.seats \in Int
    BY <2>1
  <2>3. input.map.spawns \in Int
    BY DEF Inputs
  <2> QED BY <2>2, <2>3 DEF map
<1>14. input.match.mode = "race" => map.checkpoints # 0 /\ map.checkpoints_supported
  BY <1>5, <1>6, <1>9, <1>12, CourseErrors
<1>15. accepts_start_match(input.match.mode) =>
         input.match.seats <= map.spawns /\ total_bot_count(input.match.roster) <= input.match.seats
  BY <1>5, <1>9, <1>12, <1>13
<1> QED BY <1>5, <1>7, <1>9, <1>10, <1>12, <1>14, <1>15 DEF Composed

---------------------------------------------------------------------------
(* Startup: sums.                                                          *)

\* The element that a fold takes next.
Taken(S) == CHOOSE x \in S : TRUE

\* What SumFunction computes, in the order in which the fold takes the elements.
InOrder(sum, f, D) ==
    /\ SumFunction(f) = sum[D] /\ sum[{}] = 0
    /\ \A S \in SUBSET D : S # {} => sum[S] = f[Taken(S)] + sum[S \ {Taken(S)}]

\* The fold can be unfolded.
LEMMA SumsInOrder ==
    ASSUME NEW D, IsFiniteSet(D), NEW f, DOMAIN f = D
    PROVE  \E sum : InOrder(sum, f, D)
<1> DEFINE it == CHOOSE g : g = [s \in SUBSET (DOMAIN f) |->
                                    IF s = {} THEN 0
                                    ELSE LET x == CHOOSE x \in s : TRUE IN f[x] + g[s \ {x}]]
           Then(g, s) == IF s = {} THEN 0 ELSE f[Taken(s)] + g[s \ {Taken(s)}]
           IsFamily(g) == g = [s \in SUBSET D |-> g[s]]
           Upto(g, n) == \A s \in SUBSET D : Cardinality(s) <= n => g[s] = Then(g, s)
           Ns == {n \in Nat : \E g : IsFamily(g) /\ Upto(g, n)}
<1>1. SumFunction(f) = it[DOMAIN f]
  BY Zenon DEF SumFunction, SumFunctionOnSet, FoldFunctionOnSet, MapThenFoldSet
<1>2. IsFiniteSet(D) /\ Cardinality(D) \in Nat
  BY FS_CardinalityType
<1>3. ASSUME NEW s \in SUBSET D
      PROVE  /\ IsFiniteSet(s) /\ Cardinality(s) \in Nat /\ (Cardinality(s) = 0 <=> s = {})
             /\ Cardinality(s) <= Cardinality(D)
  BY <1>2, FS_Subset, FS_CardinalityType, FS_EmptySet
<1>4. ASSUME NEW s \in SUBSET D, s # {}
      PROVE  s \ {Taken(s)} \in SUBSET D /\ Cardinality(s \ {Taken(s)}) = Cardinality(s) - 1
  <2>1. Taken(s) \in s
    BY <1>4 DEF Taken
  <2> QED BY <1>3, <2>1, FS_RemoveElement
<1>5. 0 \in Ns
  <2> DEFINE g == [s \in SUBSET D |-> 0]
  <2>1. IsFamily(g)
    OBVIOUS
  <2>2. Upto(g, 0)
    BY <1>3
  <2> HIDE DEF g, Upto, IsFamily
  <2> QED BY <2>1, <2>2
<1>6. ASSUME NEW n \in Nat, n \in Ns PROVE n + 1 \in Ns
  <2>1. PICK g : IsFamily(g) /\ Upto(g, n)
    BY <1>6
  <2> DEFINE h == [s \in SUBSET D |-> Then(g, s)]
  <2>2. ASSUME NEW s \in SUBSET D, Cardinality(s) <= n + 1 PROVE h[s] = Then(h, s)
    <3>1. CASE s = {}
      BY <3>1
    <3>2. CASE s # {}
      <4> DEFINE u == s \ {Taken(s)}
      <4>1. u \in SUBSET D /\ Cardinality(u) <= n
        BY <1>3, <1>4, <2>2, <3>2
      <4>2. g[u] = Then(g, u)
        BY <2>1, <4>1
      <4>3. h[u] = g[u]
        BY <4>1, <4>2
      <4>4. h[s] = Then(g, s)
        OBVIOUS
      <4> HIDE DEF h
      <4> QED BY <3>2, <4>3, <4>4
    <3> QED BY <3>1, <3>2
  <2>3. IsFamily(h) /\ Upto(h, n + 1)
    BY <2>2
  <2> HIDE DEF h, Upto, IsFamily
  <2> QED BY <2>3
<1>7. \E g : g = [s \in SUBSET D |-> Then(g, s)]
  <2> DEFINE N == Cardinality(D)
  <2>1. N \in Nat /\ \A s \in SUBSET D : Cardinality(s) <= N
    BY <1>2, <1>3
  <2> HIDE DEF Ns, N
  <2>2. N \in Ns
    BY <1>5, <1>6, <2>1, NatSets
  <2> USE DEF Ns
  <2>3. PICK g : IsFamily(g) /\ Upto(g, N)
    BY <2>2
  <2>4. \A s \in SUBSET D : g[s] = Then(g, s)
    BY <2>1, <2>3
  <2>5. g = [s \in SUBSET D |-> g[s]]
    BY <2>3
  <2> HIDE DEF Then, Upto, IsFamily
  <2>6. g = [s \in SUBSET D |-> Then(g, s)]
    BY <2>4, <2>5
  <2> QED BY <2>6
<1>8. it = [s \in SUBSET D |-> Then(it, s)]
  <2>1. PICK g : g = [s \in SUBSET D |-> Then(g, s)]
    BY <1>7
  <2>2. g = [s \in SUBSET (DOMAIN f) |-> IF s = {} THEN 0
                                         ELSE LET x == CHOOSE x \in s : TRUE IN f[x] + g[s \ {x}]]
    BY <2>1 DEF Taken
  <2> QED BY Zenon, <2>2 DEF Taken
<1> HIDE DEF it
<1>9. InOrder(it, f, D)
  BY <1>1, <1>8 DEF InOrder
<1> QED BY <1>9

\* A sum of naturals.
LEMMA SumIsNatural ==
    ASSUME NEW D, IsFiniteSet(D), NEW f \in [D -> Nat], NEW sum, InOrder(sum, f, D)
    PROVE  \A S \in SUBSET D : sum[S] \in Nat
<1> DEFINE Good == {S \in SUBSET D : sum[S] \in Nat}
<1>1. ASSUME NEW S \in SUBSET D, \A x \in S : S \ {x} \in Good PROVE S \in Good
  <2>1. CASE S = {}
    BY <2>1 DEF InOrder
  <2>2. CASE S # {}
    <3> DEFINE x == Taken(S)
    <3>1. x \in S
      BY <2>2 DEF Taken
    <3>2. sum[S] = f[x] + sum[S \ {x}] /\ S \ {x} \in Good /\ f[x] \in Nat
      BY <1>1, <2>2, <3>1 DEF InOrder
    <3> HIDE DEF x
    <3> QED BY <3>1, <3>2
  <2> QED BY <2>1, <2>2
<1> HIDE DEF Good
<1>2. \A S \in SUBSET D : S \in Good
  BY <1>1, SubsetInduction
<1> QED BY <1>2 DEF Good

\* A sum does not depend on the order of its summands.
LEMMA SumInAnyOrder ==
    ASSUME NEW D, IsFiniteSet(D), NEW f \in [D -> Nat], NEW sum, InOrder(sum, f, D)
    PROVE  \A S \in SUBSET D : \A x \in S : sum[S] = f[x] + sum[S \ {x}]
<1> DEFINE Good == {S \in SUBSET D : \A x \in S : sum[S] = f[x] + sum[S \ {x}]}
<1>1. \A S \in SUBSET D : sum[S] \in Nat
  BY SumIsNatural
<1>2. ASSUME NEW S \in SUBSET D, \A x \in S : S \ {x} \in Good PROVE S \in Good
  <2>1. SUFFICES ASSUME NEW x \in S PROVE sum[S] = f[x] + sum[S \ {x}]
    OBVIOUS
  <2> DEFINE t == Taken(S)
             T == (S \ {t}) \ {x}
  <2>2. t \in S
    BY DEF Taken
  <2>3. sum[S] = f[t] + sum[S \ {t}]
    BY <2>1 DEF InOrder
  <2> HIDE DEF t
  <2>4. CASE x = t
    BY <2>3, <2>4
  <2>5. CASE x # t
    <3>1. x \in S \ {t} /\ t \in S \ {x} /\ (S \ {x}) \ {t} = T
      BY <2>1, <2>2, <2>5
    <3>2. sum[S \ {t}] = f[x] + sum[T]
      BY <1>2, <2>2, <3>1
    <3>3. sum[S \ {x}] = f[t] + sum[T]
      BY <1>2, <2>1, <3>1
    <3>4. f[x] \in Nat /\ f[t] \in Nat /\ sum[T] \in Nat
      <4>1. T \in SUBSET D
        OBVIOUS
      <4> QED BY <1>1, <2>2, <4>1
    <3> HIDE DEF T
    <3> QED BY <2>3, <3>2, <3>3, <3>4
  <2> QED BY <2>4, <2>5
<1> HIDE DEF Good
<1>3. \A S \in SUBSET D : S \in Good
  BY <1>2, SubsetInduction
<1> QED BY <1>3, Zenon DEF Good

\* The bots of the roster.
Bots == {[kind |-> input.match.roster[k].kind, profile |-> input.match.roster[k].profile] : k \in DOMAIN input.match.roster}

\* The configured bots are as many as the roster counts.
LEMMA BotsAreCounted ==
    ASSUME input \in Inputs
    PROVE  /\ total_bot_count(input.match.roster) \in Nat
           /\ ConfiguredBots \in Seq(Bots) /\ Len(ConfiguredBots) = total_bot_count(input.match.roster)
<1> DEFINE roster == input.match.roster
           n == Len(roster)
           D == 1 .. n
           counts == [k \in DOMAIN roster |-> roster[k].count]
           bots(k) == [i \in 1 .. roster[k].count |-> [kind |-> roster[k].kind, profile |-> roster[k].profile]]
           ss == [k \in DOMAIN roster |-> bots(k)]
<1>1. roster \in Seq([kind : STRING, profile : STRING, count : Nat])
  BY DEF Inputs
<1>2. n \in Nat /\ DOMAIN roster = D /\ IsFiniteSet(D) /\ counts \in [D -> Nat]
  <2>1. n \in Nat /\ DOMAIN roster = D /\ \A k \in D : roster[k].count \in Nat
    <3> HIDE DEF roster
    <3>1. n \in Nat /\ DOMAIN roster = D
      BY <1>1
    <3>2. ASSUME NEW k \in D PROVE roster[k].count \in Nat
      <4> DEFINE E == [kind : STRING, profile : STRING, count : Nat]
      <4>1. \A e \in E : e.count \in Nat
        OBVIOUS
      <4>2. roster \in Seq(E)
        BY <1>1
      <4> HIDE DEF E
      <4>3. roster[k] \in E
        BY <3>1, <4>2
      <4> QED BY <4>1, <4>3
    <3> QED BY <3>1, <3>2
  <2>2. IsFiniteSet(D)
    BY <2>1, FS_Interval
  <2>3. counts \in [D -> Nat]
    BY <2>1
  <2> QED BY <2>1, <2>2, <2>3
<1>3. total_bot_count(roster) = SumFunction(counts)
  BY Zenon DEF total_bot_count, SumFunction, SumFunctionOnSet, FoldFunction
<1>4. ConfiguredBots = FlattenSeq(ss)
  BY Zenon DEF ConfiguredBots, ForAll
<1>5. \A k \in D : bots(k) \in Seq(Bots) /\ Len(bots(k)) = counts[k] /\ ss[k] = bots(k)
  <2> TAKE k \in D
  <2>1. k \in DOMAIN roster /\ roster[k].count \in Nat /\ counts[k] = roster[k].count /\ ss[k] = bots(k)
    BY <1>2
  <2>2. [kind |-> roster[k].kind, profile |-> roster[k].profile] \in Bots
    BY <2>1 DEF Bots
  <2>3. bots(k) \in Seq(Bots) /\ Len(bots(k)) = roster[k].count
    <3> DEFINE b == [kind |-> roster[k].kind, profile |-> roster[k].profile]
               m == roster[k].count
    <3>1. m \in Nat /\ b \in Bots
      BY <2>1, <2>2
    <3>2. bots(k) = [i \in 1 .. m |-> b]
      OBVIOUS
    <3> HIDE DEF b, m
    <3>3. [i \in 1 .. m |-> b] \in Seq(Bots) /\ Len([i \in 1 .. m |-> b]) = m
      BY <3>1
    <3> USE DEF m
    <3> QED BY <3>2, <3>3
  <2> QED BY <2>1, <2>3
<1>6. DOMAIN counts = D
  BY <1>2
<1> HIDE DEF counts, bots, ss
<1>7. PICK sum : InOrder(sum, counts, D)
  BY <1>2, <1>6, SumsInOrder
<1>8. SumFunction(counts) = sum[D] /\ sum[{}] = 0
  BY <1>7 DEF InOrder
<1>9. \A S \in SUBSET D : sum[S] \in Nat /\ \A x \in S : sum[S] = counts[x] + sum[S \ {x}]
  <2> HIDE DEF n, D
  <2>1. \A S \in SUBSET D : sum[S] \in Nat
    BY <1>2, <1>7, SumIsNatural
  <2>2. ASSUME NEW S \in SUBSET D, NEW x \in S PROVE sum[S] = counts[x] + sum[S \ {x}]
    BY <1>2, <1>7, SumInAnyOrder, SMT
  <2> QED BY <2>1, <2>2
<1>10. ss = [k \in D |-> ss[k]] /\ ss \in Seq(Seq(Bots)) /\ Len(ss) = n
  <2> DEFINE S == Seq(Bots)
  <2>1. ss = [k \in D |-> ss[k]]
    BY <1>2 DEF ss
  <2>2. \A k \in D : ss[k] \in S
    BY <1>5
  <2> HIDE DEF roster, n, S
  <2>3. ss \in Seq(S)
    BY <1>2, <2>1, <2>2, IsASeq
  <2>4. DOMAIN ss = 1 .. n
    BY <2>1
  <2>5. Len(ss) = n
    BY <1>2, <2>3, <2>4, LenProperties
  <2> QED BY <2>1, <2>3, <2>5 DEF S
<1>11. FlattenSeq(ss) \in Seq(Bots) /\ Len(FlattenSeq(ss)) = sum[D]
  <2>1. CASE n = 0
    <3>1. D = {}
      BY <2>1
    <3>2. FlattenSeq(ss) = ss /\ ss = <<>>
      <4>1. Len(ss) = 0
        BY <1>10, <2>1
      <4>2. ss = <<>>
        BY <1>10, <4>1, EmptySeq
      <4> QED BY <4>1, <4>2, Zenon DEF FlattenSeq
    <3>3. <<>> \in Seq(Bots) /\ Len(<<>>) = 0
      OBVIOUS
    <3> QED BY <1>8, <3>1, <3>2, <3>3
  <2>2. CASE n # 0
    <3>1. PICK f : Flattens(f, ss, n)
      BY <1>2, <1>10, <2>2, FlattenUnfolds
    <3> DEFINE Right(i) == f[i] \in Seq(Bots) /\ Len(f[i]) = sum[1 .. i]
               Good == {i \in Nat : i \in D => Right(i)}
    <3>2. ASSUME NEW i \in D, i - 1 \in Good PROVE i \in Good
      <4>1. sum[1 .. i] = counts[i] + sum[1 .. i - 1] /\ sum[1 .. i - 1] \in Nat /\ counts[i] \in Nat
        <5>1. i \in Nat /\ 1 .. i \in SUBSET D /\ i \in 1 .. i /\ (1 .. i) \ {i} = 1 .. i - 1 /\ 1 .. i - 1 \in SUBSET D
          BY <1>2
        <5> QED BY <1>2, <1>9, <5>1
      <4>2. ss[i] \in Seq(Bots) /\ Len(ss[i]) = counts[i]
        BY <1>5
      <4>3. CASE i = 1
        <5>1. f[1] = ss[1] /\ 1 .. 0 = {}
          BY <3>1, <4>3 DEF Flattens
        <5> QED BY <1>8, <4>1, <4>2, <4>3, <5>1
      <4>4. CASE i # 1
        <5>0. i - 1 \in D /\ i - 1 \in Nat
          BY <1>2, <4>4
        <5>1. Right(i - 1)
          BY <3>2, <5>0
        <5>2. f[i] = f[i - 1] \o ss[i]
          BY <3>1, <4>4 DEF Flattens
        <5>3. f[i] \in Seq(Bots) /\ Len(f[i]) = Len(f[i - 1]) + Len(ss[i])
          <6>1. \A s, t \in Seq(Bots) : s \o t \in Seq(Bots) /\ Len(s \o t) = Len(s) + Len(t)
            OBVIOUS
          <6> QED BY <4>2, <5>1, <5>2, <6>1
        <5>4. Right(i)
          BY <4>1, <4>2, <5>1, <5>3
        <5> HIDE DEF Right
        <5> QED BY <5>0, <5>4
      <4> QED BY <4>3, <4>4
    <3>3. 0 \in Good
      OBVIOUS
    <3>4. n \in Good
      <4>1. \A k \in 1 .. n : k - 1 \in Good => k \in Good
        <5> HIDE DEF Good, n
        <5> QED BY <3>2
      <4> HIDE DEF Good, n
      <4>2. n \in Nat /\ n \in 0 .. n
        BY <1>2
      <4>3. \A k \in 0 .. n : k \in Good
        BY <3>3, <4>1, <4>2, UpTo, Zenon
      <4> QED BY <4>2, <4>3
    <3>5. Right(n)
      BY <1>2, <2>2, <3>4
    <3> QED BY <3>1, <3>5 DEF Flattens
  <2> QED BY <2>1, <2>2
<1> QED BY <1>2, <1>3, <1>4, <1>8, <1>9, <1>11

---------------------------------------------------------------------------
(* Startup: the steps.                                                     *)

\* The rooms as they are composed.
FreshRooms ==
    [lobby \in 1 .. input.lobby.count |->
       [seats |-> initial_seat_roster_for, bodies |-> map.statics + IF lobby = 1 THEN Cardinality(Seeds) ELSE 0]]

\* What has been checked at every step, and what the rooms are made of.
StartupInv ==
    /\ StartupTypeOK /\ BotsCanBeBuilt /\ CountedMatchesFit
    /\ progress \in {"invoked", "configured", "mapped", "seeded"} => rooms = <<>>
    /\ progress \in {"configured", "mapped", "seeded", "composed", "hosting", "crowded"} => Configured
    /\ Accepted => Composed /\ \A lobby \in DOMAIN rooms : rooms[lobby].seats = initial_seat_roster_for
    /\ progress \in {"composed", "hosting"} => rooms = FreshRooms

\* None of it changes but with the input, which never does.
LEMMA InputKeeps ==
    ASSUME input' = input
    PROVE  /\ Configured' <=> Configured
           /\ Composed' <=> Composed
           /\ initial_seat_roster_for' = initial_seat_roster_for
           /\ FreshRooms' = FreshRooms
           /\ active_hazards' = active_hazards
<1>1. (AbilitiesLast' <=> AbilitiesLast) /\ (HillLasts' <=> HillLasts)
  BY DEF AbilitiesLast, HillLasts
<1>2. \A e : BotIsKnown(e)' <=> BotIsKnown(e)
  BY DEF BotIsKnown, Declared
<1>3. Configured' <=> Configured
  BY <1>1, Zenon DEF Configured, BotIsKnown, Declared
<1>4. map' = map
  BY DEF map
<1>5. active_hazards' = active_hazards
  BY DEF active_hazards
<1>6. Seeds' = Seeds
  BY Zenon DEF Seeds, SeedIds
<1>7. ConfiguredBots' = ConfiguredBots
  BY Zenon DEF ConfiguredBots, ForAll
<1>8. initial_seat_roster_for' = initial_seat_roster_for
  BY <1>7 DEF initial_seat_roster_for
<1>9. FreshRooms' = FreshRooms
  BY <1>4, <1>6, <1>8, Zenon DEF FreshRooms
<1>10. worst_case_entity_count' = worst_case_entity_count
  BY <1>4, <1>5, Zenon DEF worst_case_entity_count, hazard_budget
<1>11. zone_full_radius_exceeds(input.royale.minimum)' <=> zone_full_radius_exceeds(input.royale.minimum)
  BY <1>4, Zenon DEF zone_full_radius_exceeds
<1>12. Composed' <=> Composed
  BY <1>4, <1>5, <1>10, <1>11, Zenon DEF Composed
<1> QED BY <1>3, <1>5, <1>8, <1>9, <1>12

\* The verdict on a sequence of checks.
LEMMA VerdictIs ==
    ASSUME NEW s, IsErrors(s)
    PROVE  /\ Verdict(s) = "" <=> s = <<>>
           /\ s # <<>> => IsCode(Verdict(s))
<1>1. PICK S : s \in Seq(S) /\ \A c \in S : IsCode(c)
  BY DEF IsErrors
<1>2. ASSUME s # <<>> PROVE IsCode(Head(s))
  <2>1. Head(s) \in S
    BY <1>1, <1>2
  <2> QED BY <1>1, <2>1
<1>3. \A c : IsCode(c) => c # ""
  BY Zenon DEF IsCode
<1>4. Verdict(s) = IF s = <<>> THEN "" ELSE Head(s)
  BY Zenon DEF Verdict
<1> QED BY <1>2, <1>3, <1>4, Zenon

\* A step goes on exactly if none of its checks fails.
LEMMA StepGoesOn ==
    ASSUME NEW from, NEW to, NEW checks, NEW next, IsErrors(checks), StepWith(from, to, checks, next)
    PROVE  /\ progress = from /\ input' = input
           /\ checks = <<>> => failure' = "" /\ progress' = to /\ rooms' = next
           /\ checks # <<>> => failure' # "" /\ IsCode(failure') /\ progress' = "failed" /\ rooms' = rooms
<1>1. /\ progress = from /\ input' = input /\ failure' = Verdict(checks)
      /\ progress' = IF failure' = "" THEN to ELSE "failed"
      /\ rooms' = IF failure' = "" THEN next ELSE rooms
  BY Zenon DEF StepWith
<1>2. /\ Verdict(checks) = "" <=> checks = <<>>
      /\ checks # <<>> => IsCode(Verdict(checks))
  BY VerdictIs, Zenon
<1> QED BY <1>1, <1>2, Zenon

\* A scenario seeds finitely many bodies.
LEMMA SeedsAreFinite ==
    ASSUME input \in Inputs
    PROVE  Cardinality(Seeds) \in Nat /\ (~ input.scenario.given => Cardinality(Seeds) = 0)
<1> DEFINE last == input.scenario.last
           ids == {row.id : row \in Range(last)}
           n == Len(last)
           f == [k \in 1 .. n |-> last[k].id]
<1>1. /\ last \in Seq([form : STRING, id : Nat, value : STRING, inside : BOOLEAN])
      /\ input.scenario.first \in Nat /\ input.scenario.rows \in Nat
  BY DEF Inputs
<1>2. n \in Nat /\ DOMAIN last = 1 .. n
  <2> HIDE DEF last
  <2> QED BY <1>1
<1>3. f \in Surjection(1 .. n, ids)
  <2>1. ids = {f[k] : k \in 1 .. n}
    BY <1>2 DEF Range
  <2> HIDE DEF ids
  <2> QED BY <2>1 DEF Surjection
<1>4. IsFiniteSet(ids)
  <2> HIDE DEF f, ids, n
  <2>1. IsFiniteSet(1 .. n)
    BY <1>2, FS_Interval
  <2> QED BY <1>3, <2>1, FS_Surjection
<1>5. IsFiniteSet(SeedIds) /\ (~ input.scenario.given => SeedIds = {})
  <2>1. CASE input.scenario.given
    <3> DEFINE a == input.scenario.first
               b == input.scenario.first + input.scenario.rows - 1
    <3>1. a \in Int /\ b \in Int
      BY <1>1
    <3>2. SeedIds = a .. b
      BY <2>1 DEF SeedIds
    <3> HIDE DEF a, b
    <3> QED BY <2>1, <3>1, <3>2, FS_Interval
  <2>2. CASE ~ input.scenario.given
    BY <2>2, FS_EmptySet DEF SeedIds
  <2> QED BY <2>1, <2>2
<1>6. Seeds = IF input.scenario.given THEN SeedIds \cup ids ELSE {}
  BY Zenon DEF Seeds
<1> HIDE DEF ids
<1>7. IsFiniteSet(Seeds)
  <2>1. IsFiniteSet(SeedIds \cup ids)
    BY <1>4, <1>5, FS_Union
  <2> QED BY <1>6, <2>1, FS_EmptySet
<1> QED BY <1>6, <1>7, FS_CardinalityType, FS_EmptySet

\* An accepted match is playable, by what has been checked.
LEMMA CheckedIsPlayable ==
    ASSUME input \in Inputs, Configured, Composed, \A lobby \in DOMAIN rooms : rooms[lobby].seats = initial_seat_roster_for
    PROVE  AcceptedMatchIsPlayable
<1>1. AbilitiesLast /\ HillLasts
  BY DEF Configured
<1>2. /\ map.spawns \in Nat /\ map.hills \in Nat /\ map.checkpoints \in Nat /\ input.match.seats \in Int
      /\ total_bot_count(input.match.roster) \in Nat
  <2>1. input.map.spawns \in Nat /\ input.map.hills \in Nat /\ input.map.checkpoints \in Nat
    BY DEF Inputs
  <2>2. input.match.seats \in Int
    <3>1. input.match \in [mode : STRING, map_named : BOOLEAN, seats : Int,
                           roster : Seq([kind : STRING, profile : STRING, count : Nat])]
      BY DEF Inputs
    <3> QED BY <3>1
  <2> QED BY <2>1, <2>2, BotsAreCounted DEF map
<1>3. input.match.mode = "royale" =>
        4 * input.royale.minimum * input.royale.minimum
          < input.world.width * input.world.width + input.world.height * input.world.height
  BY Zenon DEF Composed, zone_full_radius_exceeds
<1>4. input.match.mode = "king_of_the_hill" => map.hills >= 1
  BY <1>2 DEF Composed
<1>5. input.match.mode = "race" => map.checkpoints >= 1 /\ map.checkpoints_supported
  BY <1>2 DEF Composed
<1>6. accepts_start_match(input.match.mode) =>
        \A lobby \in DOMAIN rooms : Len(rooms[lobby].seats) <= input.match.seats
                                    /\ input.match.seats <= map.spawns /\ map.spawns <= MaximumSeatCount
  <2> SUFFICES ASSUME accepts_start_match(input.match.mode), NEW lobby \in DOMAIN rooms
               PROVE  /\ Len(rooms[lobby].seats) <= input.match.seats
                      /\ input.match.seats <= map.spawns /\ map.spawns <= MaximumSeatCount
    OBVIOUS
  <2>1. rooms[lobby].seats = ConfiguredBots
    BY DEF initial_seat_roster_for
  <2>2. Len(ConfiguredBots) = total_bot_count(input.match.roster)
    BY BotsAreCounted
  <2>3. /\ input.match.seats <= map.spawns /\ total_bot_count(input.match.roster) <= input.match.seats
        /\ map.spawns \in 1 .. MaximumSeatCount /\ MaximumSeatCount \in Nat
    BY StartupRulesAssumption DEF Composed
  <2> QED BY <1>2, <2>1, <2>2, <2>3
<1> QED BY <1>1, <1>3, <1>4, <1>5, <1>6, Zenon DEF AcceptedMatchIsPlayable, AbilitiesLast, HillLasts

\* What holds before anything was accepted.
Early == {"invoked", "configured", "mapped", "seeded"}

\* A step that does not accept anything yet.
LEMMA EarlyStep ==
    ASSUME StartupInv, NEW from \in Early, NEW to \in Early \ {"invoked"}, NEW checks, IsErrors(checks),
           StepWith(from, to, checks, rooms), checks = <<>> => Configured
    PROVE  StartupInv'
<1>1. /\ progress = from /\ input' = input
      /\ checks = <<>> => failure' = "" /\ progress' = to /\ rooms' = rooms
      /\ checks # <<>> => failure' # "" /\ IsCode(failure') /\ progress' = "failed" /\ rooms' = rooms
  BY StepGoesOn, Zenon
<1>2. rooms' = rooms /\ rooms = <<>>
  BY <1>1, Zenon DEF StartupInv, Early
<1>3. /\ progress' = "failed" <=> failure' # ""
      /\ progress' \in {"configured", "mapped", "seeded", "failed"}
      /\ progress' # "failed" => Configured
      /\ failure' = "" \/ IsCode(failure')
  BY <1>1, Zenon DEF Early
<1>4. StartupTypeOK'
  <2>1. input' \in Inputs
    BY <1>1, Zenon DEF StartupInv, StartupTypeOK
  <2>2. \A lobby \in DOMAIN rooms' : rooms'[lobby].bodies \in Nat
    BY <1>2, Zenon DEF StartupInv, StartupTypeOK
  <2> QED BY <1>3, <2>1, <2>2, Zenon DEF StartupTypeOK
<1>5. BotsCanBeBuilt'
  BY <1>3, Zenon DEF BotsCanBeBuilt, IsCode
<1>6. CountedMatchesFit'
  BY <1>2, Zenon DEF CountedMatchesFit
<1>7. Configured' <=> Configured
  BY <1>1, InputKeeps, Zenon
<1>8. ~ Accepted' /\ progress' \notin {"composed", "hosting"}
  BY <1>3, Zenon DEF Accepted
<1> QED BY <1>2, <1>3, <1>4, <1>5, <1>6, <1>7, <1>8, Zenon DEF StartupInv

\* BlobRoyaleApplication::create.
LEMMA ComposeStep ==
    ASSUME StartupInv, Compose
    PROVE  StartupInv'
<1>1. StepWith("seeded", "composed", compose, FreshRooms)
  BY Zenon DEF Compose, FreshRooms
<1>2. progress = "seeded"
  BY <1>1, Zenon DEF StepWith
<1>3. Configured /\ input \in Inputs /\ rooms = <<>>
  BY <1>2, Zenon DEF StartupInv, StartupTypeOK
<1>4. IsErrors(compose) /\ (compose = <<>> => Composed)
  BY <1>3, ComposeErrors
<1>5. /\ input' = input
      /\ compose = <<>> => failure' = "" /\ progress' = "composed" /\ rooms' = FreshRooms
      /\ compose # <<>> => failure' # "" /\ IsCode(failure') /\ progress' = "failed" /\ rooms' = rooms
  <2> DEFINE next == FreshRooms
  <2>1. StepWith("seeded", "composed", compose, next)
    BY <1>1
  <2> HIDE DEF next
  <2>2. /\ input' = input
        /\ compose = <<>> => failure' = "" /\ progress' = "composed" /\ rooms' = next
        /\ compose # <<>> => failure' # "" /\ IsCode(failure') /\ progress' = "failed" /\ rooms' = rooms
    BY <1>4, <2>1, VerdictIs, Zenon DEF StepWith
  <2> QED BY <2>2, Zenon DEF next
<1>6. /\ Configured' <=> Configured
      /\ Composed' <=> Composed
      /\ initial_seat_roster_for' = initial_seat_roster_for
      /\ FreshRooms' = FreshRooms
  BY <1>5, InputKeeps, Zenon
<1>7. \A lobby \in DOMAIN FreshRooms :
         FreshRooms[lobby].seats = initial_seat_roster_for /\ FreshRooms[lobby].bodies \in Nat
  <2> TAKE lobby \in DOMAIN FreshRooms
  <2>1. FreshRooms[lobby] =
          [seats |-> initial_seat_roster_for, bodies |-> map.statics + IF lobby = 1 THEN Cardinality(Seeds) ELSE 0]
    BY Zenon DEF FreshRooms
  <2>2. map.statics \in Nat /\ Cardinality(Seeds) \in Nat
    <3>1. input.map.statics \in Nat
      BY <1>3 DEF Inputs
    <3> QED BY <1>3, <3>1, SeedsAreFinite DEF map
  <2> QED BY <2>1, <2>2
<1>8. CASE compose = <<>>
  <2>1. failure' = "" /\ progress' = "composed" /\ rooms' = FreshRooms /\ Composed
    BY <1>4, <1>5, <1>8, Zenon
  <2>2. StartupTypeOK'
    BY <1>3, <1>5, <1>7, <2>1, Zenon DEF StartupTypeOK
  <2>3. BotsCanBeBuilt' /\ CountedMatchesFit'
    BY <2>1, Zenon DEF BotsCanBeBuilt, CountedMatchesFit
  <2> QED BY <1>3, <1>6, <1>7, <2>1, <2>2, <2>3, Zenon DEF StartupInv
<1>9. CASE compose # <<>>
  <2>1. failure' # "" /\ IsCode(failure') /\ progress' = "failed" /\ rooms' = <<>>
    BY <1>3, <1>5, <1>9, Zenon
  <2>2. StartupTypeOK'
    <3>1. \A lobby \in DOMAIN rooms' : rooms'[lobby].bodies \in Nat
      BY <1>2, <1>3, <2>1, Zenon DEF StartupInv, StartupTypeOK
    <3> QED BY <1>3, <1>5, <2>1, <3>1, Zenon DEF StartupTypeOK
  <2>3. BotsCanBeBuilt' /\ CountedMatchesFit'
    BY <2>1, Zenon DEF BotsCanBeBuilt, CountedMatchesFit, IsCode
  <2> QED BY <2>1, <2>2, <2>3, Zenon DEF StartupInv, Accepted
<1> QED BY <1>8, <1>9

\* The reconciler: every bot is known, so it can be built.
LEMMA BuildStep ==
    ASSUME StartupInv, BuildBots
    PROVE  StartupInv'
<1>1. PICK lobby \in DOMAIN rooms :
        StepWith("composed", "hosting", ForAll(rooms[lobby].seats, LAMBDA seat : controller_registry_create(seat, TRUE)), rooms)
  BY Zenon DEF BuildBots
<1> DEFINE seats == rooms[lobby].seats
           ss == [k \in DOMAIN seats |-> controller_registry_create(seats[k], TRUE)]
           n == Len(seats)
<1>2. StepWith("composed", "hosting", FlattenSeq(ss), rooms)
  BY <1>1, Zenon DEF ForAll
<1>3. progress = "composed"
  BY <1>2, Zenon DEF StepWith
<1>4. /\ Configured /\ Composed /\ input \in Inputs /\ rooms = FreshRooms /\ seats = initial_seat_roster_for
      /\ \A l \in DOMAIN rooms : rooms[l].seats = initial_seat_roster_for
  BY <1>3, Zenon DEF StartupInv, StartupTypeOK, Accepted
<1>5. seats \in Seq(Bots)
  <2>1. ConfiguredBots \in Seq(Bots)
    BY <1>4, BotsAreCounted
  <2>2. <<>> \in Seq(Bots)
    OBVIOUS
  <2> QED BY <1>4, <2>1, <2>2, Zenon DEF initial_seat_roster_for
<1>6. \A bot \in Bots : BotIsKnown(bot)
  <2> TAKE bot \in Bots
  <2>1. PICK k \in DOMAIN input.match.roster :
          bot = [kind |-> input.match.roster[k].kind, profile |-> input.match.roster[k].profile]
    BY DEF Bots
  <2>2. BotIsKnown(input.match.roster[k])
    BY <1>4, Zenon DEF Configured
  <2>3. bot.kind = input.match.roster[k].kind /\ bot.profile = input.match.roster[k].profile
    BY <2>1
  <2> QED BY <2>2, <2>3, Zenon DEF BotIsKnown
<1>7. n \in Nat /\ DOMAIN seats = 1 .. n /\ \A k \in 1 .. n : seats[k] \in Bots
  <2> HIDE DEF seats
  <2> QED BY <1>5
<1>8. ss = [k \in 1 .. n |-> ss[k]] /\ \A k \in 1 .. n : ss[k] = <<>>
  <2>1. \A k \in 1 .. n : controller_registry_create(seats[k], TRUE) = <<>>
    BY <1>6, <1>7, KnownBotsAreBuilt, Zenon
  <2> HIDE DEF seats, n
  <2> QED BY <1>7, <2>1
<1>9. IsErrors(FlattenSeq(ss)) /\ FlattenSeq(ss) = <<>>
  <2> HIDE DEF ss, n
  <2> QED BY <1>7, <1>8, FewErrors, ErrorsFlatten
<1> HIDE DEF ss
<1>10. input' = input /\ failure' = "" /\ progress' = "hosting" /\ rooms' = rooms
  BY <1>2, <1>9, StepGoesOn, Zenon
<1>11. /\ Configured' <=> Configured
       /\ Composed' <=> Composed
       /\ initial_seat_roster_for' = initial_seat_roster_for
       /\ FreshRooms' = FreshRooms
  BY <1>10, InputKeeps, Zenon
<1>12. StartupTypeOK'
  BY <1>10, Zenon DEF StartupInv, StartupTypeOK
<1>13. BotsCanBeBuilt' /\ CountedMatchesFit'
  BY <1>10, Zenon DEF BotsCanBeBuilt, CountedMatchesFit
<1> HIDE DEF seats
<1> QED BY <1>4, <1>10, <1>11, <1>12, <1>13, Zenon DEF StartupInv

\* The larger of two numbers.
LEMMA LargerFacts ==
  ASSUME NEW a \in Nat, NEW b \in Nat
  PROVE  Larger(a, b) \in Nat /\ Larger(a, b) >= a /\ Larger(a, b) >= b
  BY DEF Larger

\* A crowded room: what was counted fits.
LEMMA CrowdStep ==
    ASSUME StartupInv, Crowd
    PROVE  StartupInv'
<1>1. PICK players \in IF accepts_start_match(input.match.mode) THEN {0, map.spawns}
                       ELSE {0, total_bot_count(input.match.roster), total_bot_count(input.match.roster) + SessionMaximum},
           hazards \in {0, hazard_budget} :
             StepWith("hosting", "crowded",
                      Require(rooms[1].bodies + players + hazards <= MotionBodies, "continuous_motion_budget_exceeded"),
                      [rooms EXCEPT ![1].bodies = @ + players + hazards])
  BY Zenon DEF Crowd
<1> DEFINE checks == Require(rooms[1].bodies + players + hazards <= MotionBodies, "continuous_motion_budget_exceeded")
           next == [rooms EXCEPT ![1].bodies = @ + players + hazards]
<1>2. StepWith("hosting", "crowded", checks, next)
  BY <1>1, Zenon
<1>3. progress = "hosting"
  BY <1>1, Zenon DEF StepWith
<1>4. /\ Configured /\ Composed /\ input \in Inputs /\ rooms = FreshRooms
      /\ \A lobby \in DOMAIN rooms : rooms[lobby].seats = initial_seat_roster_for /\ rooms[lobby].bodies \in Nat
  BY <1>3, Zenon DEF StartupInv, StartupTypeOK, Accepted
<1>5. IsCode("continuous_motion_budget_exceeded")
  BY Zenon DEF IsCode
<1>6. IsErrors(checks)
  BY <1>5, FewErrors, Zenon
<1>7. checks # <<>> => ~ (rooms[1].bodies + players + hazards <= MotionBodies)
  BY Zenon DEF Require
<1>8. /\ input' = input
      /\ checks = <<>> => failure' = "" /\ progress' = "crowded" /\ rooms' = next
      /\ checks # <<>> => failure' # "" /\ IsCode(failure') /\ progress' = "failed" /\ rooms' = rooms
  <2> HIDE DEF checks, next
  <2> QED BY <1>2, <1>6, VerdictIs, Zenon DEF StepWith
<1>9. /\ Configured' <=> Configured
      /\ Composed' <=> Composed
      /\ initial_seat_roster_for' = initial_seat_roster_for
      /\ active_hazards' = active_hazards
  BY <1>8, InputKeeps, Zenon
<1>10. /\ map.statics \in Nat /\ map.spawns \in Nat /\ total_bot_count(input.match.roster) \in Nat
       /\ {MotionBodies, SnapshotEntityLimit, SessionMaximum, SystemHeadroom, HazardStanding, MaximumSeatCount} \subseteq Nat
  <2>1. input.map.statics \in Nat /\ input.map.spawns \in Nat
    BY <1>4 DEF Inputs
  <2> QED BY <1>4, <2>1, BotsAreCounted, StartupAssumption, StartupRulesAssumption DEF map
<1>11. players \in Nat /\ hazards \in Nat
  <2>1. hazard_budget \in Nat
    BY <1>10 DEF hazard_budget
  <2> QED BY <1>10, <2>1
<1>12. 1 \in DOMAIN rooms
  <2>1. input.lobby.count >= 1 /\ DOMAIN rooms = 1 .. input.lobby.count
    BY <1>4, Zenon DEF Configured, FreshRooms
  <2>2. input.lobby.count \in Int
    BY <1>4 DEF Inputs
  <2> QED BY <2>1, <2>2
<1> HIDE DEF checks
<1>13. CASE checks = <<>>
  <2>1. failure' = "" /\ progress' = "crowded" /\ rooms' = next
    BY <1>8, <1>13, Zenon
  <2>2. \A lobby \in DOMAIN next : next[lobby].seats = initial_seat_roster_for /\ next[lobby].bodies \in Nat
    <3> DEFINE room == [rooms[1] EXCEPT !.bodies = rooms[1].bodies + players + hazards]
    <3>1. next = [rooms EXCEPT ![1] = room]
      OBVIOUS
    <3>2. rooms[1] = [seats |-> initial_seat_roster_for, bodies |-> map.statics + IF 1 = 1 THEN Cardinality(Seeds) ELSE 0]
      BY <1>4, <1>12, Zenon DEF FreshRooms
    <3>3. room.seats = initial_seat_roster_for /\ room.bodies = rooms[1].bodies + players + hazards
      BY <3>2
    <3>4. rooms[1].bodies + players + hazards \in Nat
      BY <1>4, <1>11, <1>12
    <3> HIDE DEF next, room
    <3>5. \A lobby \in DOMAIN next : lobby \in DOMAIN rooms /\ next[lobby] = IF lobby = 1 THEN room ELSE rooms[lobby]
      BY <3>1
    <3> QED BY <1>4, <3>3, <3>4, <3>5
  <2> HIDE DEF next
  <2>3. StartupTypeOK'
    BY <1>4, <1>8, <2>1, <2>2, Zenon DEF StartupTypeOK
  <2>4. BotsCanBeBuilt' /\ CountedMatchesFit'
    BY <2>1, Zenon DEF BotsCanBeBuilt, CountedMatchesFit
  <2> QED BY <1>4, <1>9, <2>1, <2>2, <2>3, <2>4, Zenon DEF StartupInv
<1>14. CASE checks # <<>>
  <2>1. failure' # "" /\ IsCode(failure') /\ progress' = "failed" /\ rooms' = rooms
    BY <1>8, <1>14, Zenon
  <2>2. StartupTypeOK'
    BY <1>4, <1>8, <2>1, Zenon DEF StartupTypeOK
  <2>3. BotsCanBeBuilt'
    BY <2>1, Zenon DEF BotsCanBeBuilt, IsCode
  <2>4. ASSUME active_hazards # <<>>
        PROVE  /\ worst_case_entity_count \in Nat
               /\ worst_case_entity_count >= map.statics + MaximumSeatCount + HazardStanding
    <3> DEFINE bots == total_bot_count(input.match.roster)
               most == Larger(bots, MaximumSeatCount)
    <3>1. bots \in Nat /\ {map.statics, SessionMaximum, SystemHeadroom, HazardStanding, MaximumSeatCount} \subseteq Nat
      BY <1>10
    <3>2. most \in Nat /\ most >= MaximumSeatCount
      BY <3>1, LargerFacts
    <3>3. worst_case_entity_count = map.statics + SessionMaximum + most + SystemHeadroom + HazardStanding
      BY <2>4, Zenon DEF worst_case_entity_count, hazard_budget
    <3> HIDE DEF bots, most
    <3> QED BY ONLY <3>1, <3>2, <3>3
  <2>5. active_hazards # <<>> => input.scenario.given
    <3> SUFFICES ASSUME active_hazards # <<>>, ~ input.scenario.given PROVE FALSE
      OBVIOUS
    <3>1. accepts_start_match(input.match.mode)
      BY DEF active_hazards
    <3>2. players <= MaximumSeatCount
      BY <1>4, <1>10, <3>1 DEF Composed
    <3>3. hazards <= HazardStanding
      BY <1>10 DEF hazard_budget
    <3>4. rooms[1].bodies = map.statics
      <4>1. rooms[1] = [seats |-> initial_seat_roster_for, bodies |-> map.statics + IF 1 = 1 THEN Cardinality(Seeds) ELSE 0]
        BY <1>4, <1>12, Zenon DEF FreshRooms
      <4>2. Cardinality(Seeds) = 0
        BY <1>4, SeedsAreFinite
      <4> QED BY <1>10, <4>1, <4>2
    <3>5. worst_case_entity_count <= MotionBodies
      <4>1. worst_case_entity_count <= IF MotionBodies < SnapshotEntityLimit THEN MotionBodies ELSE SnapshotEntityLimit
        BY <1>4, Zenon DEF Composed
      <4> QED BY <1>10, <2>4, <4>1
    <3>6. worst_case_entity_count >= map.statics + MaximumSeatCount + HazardStanding
      BY <2>4
    <3>7. worst_case_entity_count \in Nat
      BY <2>4
    <3>8. ~ (map.statics + players + hazards <= MotionBodies)
      BY <1>7, <1>14, <3>4, Zenon
    <3>9. {map.statics, players, hazards, MotionBodies, MaximumSeatCount, HazardStanding, worst_case_entity_count} \subseteq Nat
      BY <1>10, <1>11, <3>7
    <3> QED BY ONLY <3>2, <3>3, <3>5, <3>6, <3>8, <3>9
  <2>6. CountedMatchesFit'
    BY <1>8, <1>9, <2>5, Zenon DEF CountedMatchesFit
  <2> QED BY <2>1, <2>2, <2>3, <2>6, Zenon DEF StartupInv, Accepted
<1> QED BY <1>13, <1>14

\* Every step keeps it.
LEMMA StartupSteps ==
    ASSUME StartupInv, [StartupNext]_startupVars
    PROVE  StartupInv'
<1>1. input \in Inputs
  BY Zenon DEF StartupInv, StartupTypeOK
<1>2. CASE LoadConfiguration
  <2>1. StepWith("invoked", "configured", load_configuration, rooms)
    BY <1>2, Zenon DEF LoadConfiguration
  <2>2. IsErrors(load_configuration) /\ (load_configuration = <<>> => Configured)
    BY <1>1, ConfigurationErrors
  <2> QED BY <2>1, <2>2, EarlyStep DEF Early
<1>3. CASE LoadMap
  <2>1. StepWith("configured", "mapped", map_definition, rooms)
    BY <1>3, Zenon DEF LoadMap
  <2>2. Configured
    BY <2>1, Zenon DEF StepWith, StartupInv
  <2> QED BY <2>1, <2>2, MapErrors, EarlyStep DEF Early
<1>4. CASE LoadWorld
  <2>1. StepWith("mapped", "seeded", load_scenario \o game_world, rooms)
    BY <1>4, Zenon DEF LoadWorld
  <2>2. Configured
    BY <2>1, Zenon DEF StepWith, StartupInv
  <2>3. IsErrors(load_scenario \o game_world)
    BY <1>1, WorldLoadErrors
  <2> QED BY <2>1, <2>2, <2>3, EarlyStep DEF Early
<1>5. CASE UNCHANGED startupVars
  <2>1. input' = input /\ progress' = progress /\ failure' = failure /\ rooms' = rooms
    BY <1>5 DEF startupVars
  <2>2. /\ Configured' <=> Configured
        /\ Composed' <=> Composed
        /\ initial_seat_roster_for' = initial_seat_roster_for
        /\ FreshRooms' = FreshRooms
        /\ active_hazards' = active_hazards
    BY <2>1, InputKeeps
  <2>3. StartupTypeOK' /\ BotsCanBeBuilt'
    BY <2>1, Zenon DEF StartupInv, StartupTypeOK, BotsCanBeBuilt
  <2>4. CountedMatchesFit'
    BY <2>1, <2>2, Zenon DEF StartupInv, CountedMatchesFit
  <2> QED BY <2>1, <2>2, <2>3, <2>4, Zenon DEF StartupInv, Accepted
<1> QED BY <1>2, <1>3, <1>4, <1>5, ComposeStep, BuildStep, CrowdStep DEF StartupNext

\* What startup accepts can be played, whatever the operator gives: no bot that
\* cannot be built is reported, since match configuration, application
\* configuration and registry agree; the modes find the seats, windows and
\* places they stand on; and a crowd that was counted fits the solver
\* (application_config.cpp, match_startup_validation.cpp).
THEOREM StartupAlwaysSound ==
    ASSUME NEW CONSTANT given \in Inputs
    PROVE  StartupSpec(given) => []StartupIsSound
<1>1. StartupInit(given) => StartupInv
  <2> SUFFICES ASSUME StartupInit(given) PROVE StartupInv
    OBVIOUS
  <2>1. input = given /\ progress = "invoked" /\ failure = "" /\ rooms = <<>>
    BY Zenon DEF StartupInit
  <2>2. \A lobby \in DOMAIN rooms : FALSE
    <3>1. <<>> \in Seq({}) /\ Len(<<>>) = 0
      OBVIOUS
    <3>2. DOMAIN <<>> = 1 .. 0
      BY <3>1
    <3>3. DOMAIN rooms = 1 .. 0
      BY <2>1, <3>2, Zenon
    <3> QED BY <3>3
  <2>3. StartupTypeOK
    BY <2>1, <2>2, Zenon DEF StartupTypeOK
  <2> QED BY <2>1, <2>3, Zenon DEF StartupInv, BotsCanBeBuilt, CountedMatchesFit, Accepted
<1>2. StartupInv /\ [StartupNext]_startupVars => StartupInv'
  BY StartupSteps
<1>3. StartupInv => StartupIsSound
  <2> SUFFICES ASSUME StartupInv PROVE StartupIsSound
    OBVIOUS
  <2>1. StartupTypeOK /\ BotsCanBeBuilt /\ CountedMatchesFit
    BY Zenon DEF StartupInv
  <2>2. AcceptedMatchIsPlayable
    <3>1. CASE Accepted
      <4>1. /\ input \in Inputs /\ Configured /\ Composed
            /\ \A lobby \in DOMAIN rooms : rooms[lobby].seats = initial_seat_roster_for
        BY <3>1, Zenon DEF StartupInv, StartupTypeOK, Accepted
      <4> QED BY <4>1, CheckedIsPlayable
    <3>2. CASE ~ Accepted
      BY <3>2, Zenon DEF AcceptedMatchIsPlayable
    <3> QED BY <3>1, <3>2
  <2> QED BY <2>1, <2>2 DEF StartupIsSound
<1> QED BY <1>1, <1>2, <1>3, PTL DEF StartupSpec

---------------------------------------------------------------------------
(* InputFiles: what is said of the lines read so far, of any lines.        *)

HeadersIn(t) == {k \in DOMAIN t : t[k].form = "header"}
PairsIn(t) == {k \in DOMAIN t : t[k].form = "pair"}
InstancesIn(t) == {k \in HeadersIn(t) : t[k].section[2] # ""}
IsAbove(t, k, h) == h \in HeadersIn(t) \cup {0} /\ h < k /\ \A g \in HeadersIn(t) : g < k => g <= h
AboveIn(t, k) == CHOOSE h \in HeadersIn(t) \cup {0} : h < k /\ \A g \in HeadersIn(t) : g < k => g <= h
SectionIn(t, k) == IF AboveIn(t, k) = 0 THEN NoSection ELSE t[AboveIn(t, k)].section
FieldIn(t, k) == <<SectionIn(t, k), t[k].key>>

PlainIn(s) == {f.section : f \in Range(s.fields)}
FamiliesIn(s) == {f.section : f \in Range(s.families)}
FamilyIn(s, name) == {f \in Range(s.families) : f.section = name[1]}
WantedIn(s, t) ==
    {<<<<f.section, "">>, f>> : f \in Range(s.fields)}
    \cup UNION {{<<t[k].section, f>> : f \in FamilyIn(s, t[k].section)} : k \in InstancesIn(t)}

WellFormedIn(t) == \A k \in DOMAIN t : t[k].form \notin {"bad_header", "bad_pair"}
KnownSectionsIn(s, t) ==
    \A k \in HeadersIn(t) : t[k].section[1] \in IF k \in InstancesIn(t) THEN FamiliesIn(s) ELSE PlainIn(s)
SectionsOnceIn(t) == \A h, k \in HeadersIn(t) : t[h].section = t[k].section => h = k
IsWanted(s, t, field) == \E w \in WantedIn(s, t) : field = <<w[1], w[2].key>>
KnownKeysIn(s, t) == \A k \in PairsIn(t) : AboveIn(t, k) # 0 /\ IsWanted(s, t, FieldIn(t, k))
KeysOnceIn(t) == \A j, k \in PairsIn(t) : FieldIn(t, j) = FieldIn(t, k) => j = k
CompleteIn(s, t) == \A w \in WantedIn(s, t) : \E k \in PairsIn(t) : FieldIn(t, k) = <<w[1], w[2].key>>
ReadableIn(s, t) ==
    \A k \in PairsIn(t), w \in WantedIn(s, t) :
       FieldIn(t, k) = <<w[1], w[2].key>> => /\ t[k].value # "" \/ w[2].key \in s.lists
                                             /\ read_value(w[2].type, t[k].value) = ""
ExtensibleIn(s, t) ==
    /\ WellFormedIn(t)
    /\ KnownSectionsIn(s, t) /\ SectionsOnceIn(t) /\ Cardinality(InstancesIn(t)) <= s.limit
    /\ KnownKeysIn(s, t) /\ KeysOnceIn(t) /\ ReadableIn(s, t)
ValuesIn(d, t) ==
    /\ DOMAIN d.values = {FieldIn(t, k) : k \in PairsIn(t)}
    /\ \A k \in PairsIn(t) : d.values[FieldIn(t, k)] = t[k].value

ParseErrors ==
    {"section_duplicate", "section_unknown", "section_limit_exceeded", "key_duplicate", "key_unknown",
     "syntax_invalid", "value_invalid", "value_out_of_range", "map_name_mismatch"}
Exact(s, r, d, t) ==
    /\ r \in {"accepted", "tables"} => ExtensibleIn(s, t) /\ CompleteIn(s, t) /\ ValuesIn(d, t)
    /\ r \in ParseErrors => ~ ExtensibleIn(s, t)
    /\ r = "key_missing" => ~ CompleteIn(s, t)
    /\ r = "map_value_invalid" => ~ (ExtensibleIn(s, t) /\ CompleteIn(s, t))

\* The property, said of the lines and the document there are, before a step
\* and after it.
LEMMA ExactIs ==
    /\ ParseIsExact <=> Exact(schema, reader, doc, text)
    /\ ParseIsExact' <=> Exact(schema', reader', doc', text')
<1>1. ParseIsExact <=> Exact(schema, reader, doc, text)
  BY Zenon DEF ParseIsExact, Exact, Extensible, ExtensibleIn, Complete, CompleteIn, ValuesIn, ParseErrors, WellFormedIn,
     KnownSections, KnownSectionsIn, SectionsOnce, SectionsOnceIn, KnownKeys, KnownKeysIn, KeysOnce, KeysOnceIn,
     Readable, ReadableIn, IsWanted, Wanted, WantedIn, FieldOf, FieldIn, SectionOf, SectionIn, HeaderAbove, AboveIn,
     InstanceHeaders, InstancesIn, HeadersOf, HeadersIn, PairsOf, PairsIn, PlainSections, PlainIn, Families, FamiliesIn,
     FamilyFields, FamilyIn
<1>2. ParseIsExact' <=> Exact(schema', reader', doc', text')
  BY Zenon DEF ParseIsExact, Exact, Extensible, ExtensibleIn, Complete, CompleteIn, ValuesIn, ParseErrors, WellFormedIn,
     KnownSections, KnownSectionsIn, SectionsOnce, SectionsOnceIn, KnownKeys, KnownKeysIn, KeysOnce, KeysOnceIn,
     Readable, ReadableIn, IsWanted, Wanted, WantedIn, FieldOf, FieldIn, SectionOf, SectionIn, HeaderAbove, AboveIn,
     InstanceHeaders, InstancesIn, HeadersOf, HeadersIn, PairsOf, PairsIn, PlainSections, PlainIn, Families, FamiliesIn,
     FamilyFields, FamilyIn
<1> QED BY <1>1, <1>2

\* The last header before a line.
LEMMA AboveExists ==
    ASSUME NEW L, NEW t \in Seq(L), NEW k \in 1 .. Len(t) + 1
    PROVE  IsAbove(t, k, AboveIn(t, k)) /\ \A h : IsAbove(t, k, h) => AboveIn(t, k) = h
<1>0. Len(t) \in Nat /\ DOMAIN t = 1 .. Len(t) /\ HeadersIn(t) \subseteq 1 .. Len(t)
  BY DEF HeadersIn
<1> DEFINE n == Len(t) + 1
           Good == {j \in Nat : j \in 1 .. n => \E h : IsAbove(t, j, h)}
<1>1. 0 \in Good
  OBVIOUS
<1>2. ASSUME NEW j \in 1 .. n, j - 1 \in Good PROVE j \in Good
  <2>1. CASE j = 1
    <3>1. IsAbove(t, 1, 0)
      BY <1>0 DEF IsAbove
    <3> QED BY <2>1, <3>1
  <2>2. CASE j # 1
    <3>1. PICK h : IsAbove(t, j - 1, h)
      BY <1>2, <2>2
    <3>2. CASE j - 1 \in HeadersIn(t)
      <4>1. IsAbove(t, j, j - 1)
        BY <1>0, <3>2 DEF IsAbove
      <4> QED BY <4>1
    <3>3. CASE j - 1 \notin HeadersIn(t)
      <4>1. \A g \in HeadersIn(t) : g < j => g < j - 1
        BY <1>0, <3>3
      <4>2. h \in Nat
        BY <1>0, <3>1 DEF IsAbove
      <4>3. IsAbove(t, j, h)
        BY <3>1, <4>1, <4>2 DEF IsAbove
      <4> QED BY <4>3
    <3> QED BY <3>2, <3>3
  <2> QED BY <2>1, <2>2
<1> HIDE DEF Good
<1>3. \A j \in 0 .. n : j \in Good
  <2>1. n \in Nat
    BY <1>0
  <2> HIDE DEF n
  <2> QED BY <1>1, <1>2, <2>1, UpTo
<1>4. \E h : IsAbove(t, k, h)
  BY <1>0, <1>3 DEF Good
<1>5. IsAbove(t, k, AboveIn(t, k))
  BY <1>4 DEF IsAbove, AboveIn
<1>6. ASSUME NEW h, IsAbove(t, k, h) PROVE AboveIn(t, k) = h
  <2> DEFINE a == AboveIn(t, k)
  <2>1. a \in Nat /\ h \in Nat /\ a < k /\ h < k
    BY <1>0, <1>5, <1>6 DEF IsAbove
  <2>2. a \in HeadersIn(t) \cup {0} /\ h \in HeadersIn(t) \cup {0}
    BY <1>5, <1>6 DEF IsAbove
  <2>3. (a \in HeadersIn(t) => a <= h) /\ (h \in HeadersIn(t) => h <= a)
    BY <1>5, <1>6, <2>1 DEF IsAbove
  <2> HIDE DEF a
  <2>4. a = h
    BY <2>1, <2>2, <2>3
  <2> QED BY <2>4 DEF a
<1> QED BY <1>5, <1>6

\* What one more line leaves of the lines before it.
OneMore(t, l, u) ==
    /\ Len(u) = Len(t) + 1 /\ u[Len(u)] = l
    /\ \A k \in 1 .. Len(t) : u[k] = t[k]
    /\ HeadersIn(u) = HeadersIn(t) \cup (IF l.form = "header" THEN {Len(u)} ELSE {})
    /\ InstancesIn(u) = InstancesIn(t) \cup (IF l.form = "header" /\ l.section[2] # "" THEN {Len(u)} ELSE {})
    /\ PairsIn(u) = PairsIn(t) \cup (IF l.form = "pair" THEN {Len(u)} ELSE {})
    /\ \A k \in 1 .. Len(u) : AboveIn(u, k) = AboveIn(t, k) /\ SectionIn(u, k) = SectionIn(t, k)
    /\ \A k \in 1 .. Len(t) : FieldIn(u, k) = FieldIn(t, k)
    /\ SectionIn(u, Len(u) + 1) = IF l.form = "header" THEN l.section ELSE SectionIn(t, Len(u))
\* It is so.
LEMMA OneMoreLine ==
    ASSUME NEW L, NEW t \in Seq(L), NEW l \in L, NEW u, u = Append(t, l)
    PROVE  u \in Seq(L) /\ OneMore(t, l, u)
<1>1. u \in Seq(L) /\ Len(u) = Len(t) + 1 /\ u[Len(u)] = l /\ \A k \in 1 .. Len(t) : u[k] = t[k]
  OBVIOUS
<1>2. Len(t) \in Nat /\ DOMAIN t = 1 .. Len(t) /\ DOMAIN u = 1 .. Len(t) + 1
  BY <1>1
<1>3. \A k : k \in DOMAIN u <=> k \in DOMAIN t \/ k = Len(u)
  BY <1>1, <1>2
<1>4. Len(u) \notin DOMAIN t
  BY <1>1, <1>2
<1>5. HeadersIn(u) = HeadersIn(t) \cup (IF l.form = "header" THEN {Len(u)} ELSE {})
  BY <1>1, <1>2, <1>3 DEF HeadersIn
<1>6. PairsIn(u) = PairsIn(t) \cup (IF l.form = "pair" THEN {Len(u)} ELSE {})
  BY <1>1, <1>2, <1>3 DEF PairsIn
<1>7. InstancesIn(u) = InstancesIn(t) \cup (IF l.form = "header" /\ l.section[2] # "" THEN {Len(u)} ELSE {})
  <2>1. HeadersIn(t) \subseteq DOMAIN t
    BY DEF HeadersIn
  <2>2. \A k \in HeadersIn(t) : u[k] = t[k]
    BY <1>1, <1>2, <2>1
  <2>3. ASSUME NEW k PROVE k \in InstancesIn(u) <=> k \in InstancesIn(t) \/ (k = Len(u) /\ l.form = "header" /\ l.section[2] # "")
    <3>1. k \in InstancesIn(u) <=> k \in HeadersIn(u) /\ u[k].section[2] # ""
      BY Zenon DEF InstancesIn
    <3>2. k \in InstancesIn(t) <=> k \in HeadersIn(t) /\ t[k].section[2] # ""
      BY DEF InstancesIn
    <3>3. k \in HeadersIn(u) <=> k \in HeadersIn(t) \/ (k = Len(u) /\ l.form = "header")
      BY <1>5
    <3>4. Len(u) \notin HeadersIn(t)
      BY <1>4, <2>1
    <3> QED BY <1>1, <2>2, <3>1, <3>2, <3>3, <3>4, Zenon
  <2> QED BY <2>3, Zenon
<1>8. ASSUME NEW k \in 1 .. Len(u) PROVE AboveIn(u, k) = AboveIn(t, k) /\ SectionIn(u, k) = SectionIn(t, k)
  <2>1. k \in 1 .. Len(t) + 1 /\ k \in 1 .. Len(u) + 1
    BY <1>1, <1>2
  <2>2. IsAbove(t, k, AboveIn(t, k))
    BY <2>1, AboveExists
  <2>3. \A g \in HeadersIn(u) : g < k => g \in HeadersIn(t)
    BY <1>1, <1>2, <1>5
  <2>4. IsAbove(u, k, AboveIn(t, k))
    BY <1>5, <2>2, <2>3 DEF IsAbove
  <2>5. AboveIn(u, k) = AboveIn(t, k)
    BY <1>1, <2>1, <2>4, AboveExists
  <2>6. AboveIn(t, k) # 0 => AboveIn(t, k) \in 1 .. Len(t)
    BY <1>2, <2>2 DEF IsAbove, HeadersIn
  <2> QED BY <1>1, <2>5, <2>6 DEF SectionIn
<1>9. ASSUME NEW k \in 1 .. Len(t) PROVE FieldIn(u, k) = FieldIn(t, k)
  <2>1. k \in 1 .. Len(u)
    BY <1>1, <1>2
  <2> QED BY <1>1, <1>8, <2>1 DEF FieldIn
<1>10. SectionIn(u, Len(u) + 1) = IF l.form = "header" THEN l.section ELSE SectionIn(t, Len(u))
  <2> DEFINE n == Len(u)
  <2>1. n \in 1 .. Len(u) /\ n + 1 \in 1 .. Len(u) + 1 /\ n \in 1 .. Len(t) + 1 /\ n = Len(t) + 1 /\ n \in Nat
    BY <1>1, <1>2
  <2>2. HeadersIn(t) \subseteq 1 .. Len(t)
    BY <1>2 DEF HeadersIn
  <2>3. CASE l.form = "header"
    <3>1. IsAbove(u, n + 1, n)
      <4>1. n \in HeadersIn(u)
        BY <1>5, <2>3
      <4>2. \A g \in HeadersIn(u) : g <= n
        BY <1>2, <1>5, <2>1, <2>2
      <4> HIDE DEF n
      <4> QED BY <2>1, <4>1, <4>2 DEF IsAbove
    <3>2. AboveIn(u, n + 1) = n
      BY <1>1, <2>1, <3>1, AboveExists
    <3>3. n # 0 /\ u[n] = l
      BY <1>1, <2>1
    <3> HIDE DEF n
    <3> QED BY <2>3, <3>2, <3>3 DEF SectionIn, n
  <2>4. CASE l.form # "header"
    <3>1. HeadersIn(u) = HeadersIn(t)
      BY <1>5, <2>4
    <3>2. IsAbove(t, n, AboveIn(t, n))
      BY <2>1, AboveExists
    <3>3. \A g \in HeadersIn(u) : g < n
      <4>1. \A g \in 1 .. Len(t) : g < n
        BY <1>2, <2>1
      <4> HIDE DEF n
      <4> QED BY <2>2, <3>1, <4>1
    <3>4. AboveIn(t, n) \in Nat
      BY <2>2, <3>2 DEF IsAbove
    <3>5. IsAbove(u, n + 1, AboveIn(t, n))
      <4> DEFINE a == AboveIn(t, n)
      <4>1. a \in HeadersIn(u) \cup {0} /\ a < n /\ \A g \in HeadersIn(u) : g < n => g <= a
        BY <3>1, <3>2 DEF IsAbove
      <4> HIDE DEF a, n
      <4>2. a < n + 1 /\ \A g \in HeadersIn(u) : g <= a
        BY <2>1, <3>3, <3>4, <4>1 DEF a
      <4> QED BY <4>1, <4>2 DEF IsAbove, a
    <3>6. AboveIn(u, n + 1) = AboveIn(t, n)
      BY <1>1, <2>1, <3>5, AboveExists
    <3>7. AboveIn(t, n) # 0 => u[AboveIn(t, n)] = t[AboveIn(t, n)]
      BY <1>1, <2>2, <3>2 DEF IsAbove
    <3> HIDE DEF n
    <3> QED BY <2>4, <3>6, <3>7 DEF SectionIn, n
  <2> QED BY <2>3, <2>4
<1> QED BY <1>1, <1>5, <1>6, <1>7, <1>8, <1>9, <1>10, Zenon DEF OneMore

\* What a document says of the lines it was read from.
IsDocument(d) ==
    d = [cursor |-> d.cursor, seen |-> d.seen, instances |-> d.instances, values |-> d.values, error |-> d.error]
PlainHeaders(t) == {t[k].section : k \in HeadersIn(t) \ InstancesIn(t)}
InstanceNames(t) == {t[k].section : k \in InstancesIn(t)}
ReadsHeaders(s, t, d) ==
    /\ d.cursor = SectionIn(t, Len(t) + 1)
    /\ d.seen = PlainHeaders(t)
    /\ \E S : d.instances \in Seq(S)
    /\ Range(d.instances) = InstanceNames(t)
    /\ Len(d.instances) = Cardinality(InstancesIn(t)) /\ Len(d.instances) <= s.limit
    /\ KnownSectionsIn(s, t) /\ SectionsOnceIn(t)
ReadsPairs(s, t, d) ==
    /\ KnownKeysIn(s, t) /\ KeysOnceIn(t) /\ ValuesIn(d, t)
    /\ \A k \in PairsIn(t) : t[k].value # "" \/ t[k].key \in s.lists
ReadsAs(s, t, d) ==
    /\ IsDocument(d) /\ d.error = "" /\ WellFormedIn(t) /\ ReadsHeaders(s, t, d) /\ ReadsPairs(s, t, d)

\* A schema's tables name their sections and keys.
IsSchema(s) ==
    /\ \E S : s.fields \in Seq(S) /\ s.families \in Seq(S)
    /\ s.limit \in Nat
    /\ \A f \in Range(s.fields) \cup Range(s.families) : f.section # "" /\ f.key # ""

\* The lines read are lines of a kind, their headers few.
LEMMA HeaderIndexes ==
    ASSUME NEW t \in Seq(LinesGiven)
    PROVE  /\ Len(t) \in Nat /\ DOMAIN t = 1 .. Len(t) /\ HeadersIn(t) \subseteq 1 .. Len(t)
           /\ InstancesIn(t) \subseteq HeadersIn(t) /\ PairsIn(t) \subseteq 1 .. Len(t)
           /\ IsFiniteSet(InstancesIn(t)) /\ Cardinality(InstancesIn(t)) \in Nat
           /\ \A k \in 1 .. Len(t) : t[k] \in LinesGiven
<1>1. /\ Len(t) \in Nat /\ DOMAIN t = 1 .. Len(t) /\ HeadersIn(t) \subseteq 1 .. Len(t)
      /\ InstancesIn(t) \subseteq HeadersIn(t) /\ PairsIn(t) \subseteq 1 .. Len(t)
      /\ \A k \in 1 .. Len(t) : t[k] \in LinesGiven
  <2> DEFINE L == LinesGiven
  <2>1. t \in Seq(L)
    OBVIOUS
  <2> HIDE DEF L
  <2>2. Len(t) \in Nat /\ DOMAIN t = 1 .. Len(t) /\ \A k \in 1 .. Len(t) : t[k] \in L
    BY <2>1
  <2>3. HeadersIn(t) \subseteq DOMAIN t /\ PairsIn(t) \subseteq DOMAIN t /\ InstancesIn(t) \subseteq HeadersIn(t)
    BY Zenon DEF HeadersIn, InstancesIn, PairsIn
  <2> QED BY <2>2, <2>3 DEF L
<1>2. IsFiniteSet(1 .. Len(t))
  BY <1>1, FS_Interval
<1>3. IsFiniteSet(InstancesIn(t))
  BY <1>1, <1>2, FS_Subset
<1> QED BY <1>1, <1>3, FS_CardinalityType

\* One line more: what it adds to the headers, the instances and the pairs,
\* and that it leaves the rest.
LongerBy(t, l, u) ==
    /\ Len(t) \in Nat /\ Len(u) = Len(t) + 1 /\ Len(u) # 0 /\ u[Len(u)] = l
    /\ DOMAIN t = 1 .. Len(t) /\ DOMAIN u = DOMAIN t \cup {Len(u)} /\ Len(u) \notin DOMAIN t
    /\ HeadersIn(t) \subseteq DOMAIN t /\ PairsIn(t) \subseteq DOMAIN t /\ InstancesIn(t) \subseteq HeadersIn(t)
    /\ IsFiniteSet(InstancesIn(t)) /\ Cardinality(InstancesIn(t)) \in Nat
    /\ HeadersIn(u) = HeadersIn(t) \cup (IF l.form = "header" THEN {Len(u)} ELSE {})
    /\ InstancesIn(u) = InstancesIn(t) \cup (IF l.form = "header" /\ l.section[2] # "" THEN {Len(u)} ELSE {})
    /\ PairsIn(u) = PairsIn(t) \cup (IF l.form = "pair" THEN {Len(u)} ELSE {})
    /\ \A k \in DOMAIN t : u[k] = t[k] /\ AboveIn(u, k) = AboveIn(t, k) /\ FieldIn(u, k) = FieldIn(t, k)
    /\ AboveIn(u, Len(u)) = AboveIn(t, Len(u))
    /\ FieldIn(u, Len(u)) = <<SectionIn(t, Len(t) + 1), l.key>>
    /\ SectionIn(u, Len(u) + 1) = IF l.form = "header" THEN l.section ELSE SectionIn(t, Len(t) + 1)
\* It is so.
LEMMA IsLonger ==
    ASSUME NEW t \in Seq(LinesGiven), NEW l \in LinesGiven
    PROVE  LongerBy(t, l, Append(t, l)) /\ Append(t, l) \in Seq(LinesGiven)
<1> DEFINE L == LinesGiven
           u == Append(t, l)
<1>1. t \in Seq(L) /\ l \in L /\ u = Append(t, l)
  OBVIOUS
<1>2. /\ Len(t) \in Nat /\ DOMAIN t = 1 .. Len(t) /\ HeadersIn(t) \subseteq 1 .. Len(t)
      /\ InstancesIn(t) \subseteq HeadersIn(t) /\ PairsIn(t) \subseteq 1 .. Len(t)
      /\ IsFiniteSet(InstancesIn(t)) /\ Cardinality(InstancesIn(t)) \in Nat
  BY HeaderIndexes, Zenon
<1> HIDE DEF L, u
<1>3. u \in Seq(L) /\ OneMore(t, l, u)
  BY <1>1, OneMoreLine, Zenon
<1>4. DOMAIN u = 1 .. Len(u)
  BY <1>3
<1> USE DEF OneMore
<1> DEFINE n == Len(t)
<1>5. /\ 1 .. n + 1 = (1 .. n) \cup {n + 1} /\ n + 1 \notin 1 .. n /\ n + 1 # 0 /\ n + 1 \in 1 .. n + 1
      /\ \A k \in 1 .. n : k \in 1 .. n + 1
  <2>1. n \in Nat
    BY <1>2
  <2> HIDE DEF n
  <2> QED BY <2>1
<1>6. FieldIn(u, Len(u)) = <<SectionIn(t, Len(t) + 1), l.key>>
  BY <1>3, <1>5, Zenon DEF FieldIn
<1>7. LongerBy(t, l, u)
  BY <1>2, <1>3, <1>4, <1>5, <1>6, Zenon DEF LongerBy
<1> QED BY <1>3, <1>7, Zenon DEF L, u

\* Fields once wanted stay wanted.
LEMMA WantedStays ==
    ASSUME NEW s, NEW t, NEW l, NEW u, LongerBy(t, l, u)
    PROVE  /\ WantedIn(s, t) \subseteq WantedIn(s, u)
           /\ KnownKeysIn(s, t) => \A k \in PairsIn(t) : AboveIn(u, k) # 0 /\ IsWanted(s, u, FieldIn(u, k))
           /\ l.form # "header" => WantedIn(s, u) = WantedIn(s, t)
<1> DEFINE of(v, k) == {<<v[k].section, f>> : f \in FamilyIn(s, v[k].section)}
<1>1. \A k \in InstancesIn(t) : k \in InstancesIn(u) /\ u[k] = t[k]
  BY Zenon DEF LongerBy
<1>2. \A k \in InstancesIn(t) : of(u, k) = of(t, k)
  BY <1>1
<1>3. \A v : WantedIn(s, v) = {<<<<f.section, "">>, f>> : f \in Range(s.fields)} \cup UNION {of(v, k) : k \in InstancesIn(v)}
  BY DEF WantedIn
<1> HIDE DEF of
<1>4. WantedIn(s, t) \subseteq WantedIn(s, u)
  <2>1. ASSUME NEW k \in InstancesIn(t) PROVE of(t, k) \subseteq UNION {of(u, j) : j \in InstancesIn(u)}
    BY <1>1, <1>2
  <2>2. UNION {of(t, k) : k \in InstancesIn(t)} \subseteq UNION {of(u, j) : j \in InstancesIn(u)}
    BY <2>1
  <2> QED BY <1>3, <2>2, Zenon
<1>5. ASSUME KnownKeysIn(s, t), NEW k \in PairsIn(t) PROVE AboveIn(u, k) # 0 /\ IsWanted(s, u, FieldIn(u, k))
  <2>1. AboveIn(t, k) # 0 /\ IsWanted(s, t, FieldIn(t, k))
    BY <1>5 DEF KnownKeysIn
  <2>2. k \in DOMAIN t
    BY Zenon DEF LongerBy
  <2>3. AboveIn(u, k) = AboveIn(t, k) /\ FieldIn(u, k) = FieldIn(t, k)
    BY <2>2, Zenon DEF LongerBy
  <2> QED BY <1>4, <2>1, <2>3 DEF IsWanted
<1>6. ASSUME l.form # "header" PROVE WantedIn(s, u) = WantedIn(s, t)
  <2>1. InstancesIn(u) = InstancesIn(t)
    BY <1>6 DEF LongerBy
  <2> QED BY <1>2, <1>3, <2>1, Zenon
<1> QED BY <1>4, <1>5, <1>6

\* A line that is no pair leaves what is said of the pairs.
LEMMA SamePairs ==
    ASSUME NEW s, NEW t, NEW l, NEW u, LongerBy(t, l, u), l.form # "pair",
           NEW d, NEW e, e.values = d.values, ReadsPairs(s, t, d)
    PROVE  ReadsPairs(s, u, e)
<1>1. PairsIn(u) = PairsIn(t)
  BY Zenon DEF LongerBy
<1>2. \A k \in PairsIn(t) : FieldIn(u, k) = FieldIn(t, k) /\ u[k] = t[k]
  BY Zenon DEF LongerBy
<1>3. KnownKeysIn(s, u)
  BY <1>1, WantedStays, Zenon DEF ReadsPairs, KnownKeysIn
<1>4. KeysOnceIn(u)
  BY <1>1, <1>2, Zenon DEF ReadsPairs, KeysOnceIn
<1>5. ValuesIn(e, u)
  <2>1. DOMAIN e.values = {FieldIn(t, k) : k \in PairsIn(t)} /\ \A k \in PairsIn(t) : e.values[FieldIn(t, k)] = t[k].value
    BY Zenon DEF ReadsPairs, ValuesIn
  <2>2. {FieldIn(t, k) : k \in PairsIn(t)} = {FieldIn(u, k) : k \in PairsIn(u)}
    BY <1>1, <1>2
  <2> QED BY <1>1, <1>2, <2>1, <2>2 DEF ValuesIn
<1>6. \A k \in PairsIn(u) : u[k].value # "" \/ u[k].key \in s.lists
  BY <1>1, <1>2, Zenon DEF ReadsPairs
<1> QED BY <1>3, <1>4, <1>5, <1>6, Zenon DEF ReadsPairs

\* A line that is no header leaves what is said of the headers.
LEMMA SameHeaders ==
    ASSUME NEW s, NEW t, NEW l, NEW u, LongerBy(t, l, u), l.form # "header",
           NEW d, NEW e, e.cursor = d.cursor, e.seen = d.seen, e.instances = d.instances, ReadsHeaders(s, t, d)
    PROVE  ReadsHeaders(s, u, e)
<1>1. HeadersIn(u) = HeadersIn(t) /\ InstancesIn(u) = InstancesIn(t)
  BY DEF LongerBy
<1>2. \A k \in HeadersIn(t) : u[k] = t[k]
  BY DEF LongerBy
<1>3. SectionIn(u, Len(u) + 1) = SectionIn(t, Len(t) + 1)
  BY DEF LongerBy
<1>4. InstancesIn(t) \subseteq HeadersIn(t)
  BY Zenon DEF InstancesIn
<1>5. PlainHeaders(u) = PlainHeaders(t)
  BY <1>1, <1>2 DEF PlainHeaders
<1>6. InstanceNames(u) = InstanceNames(t)
  BY <1>1, <1>2, <1>4 DEF InstanceNames
<1>7. KnownSectionsIn(s, u) /\ SectionsOnceIn(u)
  BY <1>1, <1>2 DEF ReadsHeaders, KnownSectionsIn, SectionsOnceIn
<1> QED BY <1>1, <1>3, <1>5, <1>6, <1>7 DEF ReadsHeaders

\* What a line makes of a document: one that says the lines so far, or an
\* error after which no line can help.
Outcome(s, u, e) ==
    \/ e.error = "" /\ ReadsAs(s, u, e)
    \/ e.error \in ParseErrors \cup {"map_value_invalid"} /\ ~ ExtensibleIn(s, u)

\* A failed document is an error the property knows.
LEMMA FailedIs ==
    ASSUME NEW s, NEW u, NEW d, IsDocument(d), NEW code \in ParseErrors, ~ ExtensibleIn(s, u)
    PROVE  Outcome(s, u, Failed(d, code))
<1>1. Failed(d, code).error = error_code(code)
  BY DEF Failed, IsDocument
<1>2. error_code(code) \in {code, "map_value_invalid"}
  BY DEF error_code
<1> QED BY <1>1, <1>2, Zenon DEF Outcome

\* A document with one part of it changed.
LEMMA DocumentEdits ==
    ASSUME NEW d, IsDocument(d)
    PROVE  /\ \A x, y : [d EXCEPT !.seen = x, !.cursor = y]
                 = [cursor |-> y, seen |-> x, instances |-> d.instances, values |-> d.values, error |-> d.error]
           /\ \A x, y : [d EXCEPT !.instances = x, !.cursor = y]
                 = [cursor |-> y, seen |-> d.seen, instances |-> x, values |-> d.values, error |-> d.error]
           /\ \A x : [d EXCEPT !.values = x]
                 = [cursor |-> d.cursor, seen |-> d.seen, instances |-> d.instances, values |-> x, error |-> d.error]
<1>1. DOMAIN d = {"cursor", "seen", "instances", "values", "error"}
  BY DEF IsDocument
<1>2. ASSUME NEW x, NEW y PROVE [d EXCEPT !.seen = x, !.cursor = y] = [cursor |-> y, seen |-> x, instances |-> d.instances, values |-> d.values, error |-> d.error]
  <2> DEFINE e == [d EXCEPT !.seen = x, !.cursor = y]
  <2>1. e = [k \in {"cursor", "seen", "instances", "values", "error"} |-> e[k]]
    BY <1>1
  <2>2. e.cursor = y /\ e.seen = x /\ e.instances = d.instances /\ e.values = d.values /\ e.error = d.error
    BY <1>1
  <2> HIDE DEF e
  <2>3. e = [cursor |-> y, seen |-> x, instances |-> d.instances, values |-> d.values, error |-> d.error]
    BY <2>1, <2>2
  <2> QED BY <2>3 DEF e
<1>3. ASSUME NEW x, NEW y PROVE [d EXCEPT !.instances = x, !.cursor = y] = [cursor |-> y, seen |-> d.seen, instances |-> x, values |-> d.values, error |-> d.error]
  <2> DEFINE e == [d EXCEPT !.instances = x, !.cursor = y]
  <2>1. e = [k \in {"cursor", "seen", "instances", "values", "error"} |-> e[k]]
    BY <1>1
  <2>2. e.cursor = y /\ e.instances = x /\ e.seen = d.seen /\ e.values = d.values /\ e.error = d.error
    BY <1>1
  <2> HIDE DEF e
  <2>3. e = [cursor |-> y, seen |-> d.seen, instances |-> x, values |-> d.values, error |-> d.error]
    BY <2>1, <2>2
  <2> QED BY <2>3 DEF e
<1>4. ASSUME NEW x PROVE [d EXCEPT !.values = x] = [cursor |-> d.cursor, seen |-> d.seen, instances |-> d.instances, values |-> x, error |-> d.error]
  <2> DEFINE e == [d EXCEPT !.values = x]
  <2>1. e = [k \in {"cursor", "seen", "instances", "values", "error"} |-> e[k]]
    BY <1>1
  <2>2. e.values = x /\ e.cursor = d.cursor /\ e.seen = d.seen /\ e.instances = d.instances /\ e.error = d.error
    BY <1>1
  <2> HIDE DEF e
  <2>3. e = [cursor |-> d.cursor, seen |-> d.seen, instances |-> d.instances, values |-> x, error |-> d.error]
    BY <2>1, <2>2
  <2> QED BY <2>3 DEF e
<1> QED BY <1>2, <1>3, <1>4, Zenon

\* A header is read into a document that says so, or cannot be repaired.
LEMMA HeaderRead ==
    ASSUME IsSchema(schema), NEW t, NEW l, NEW u, LongerBy(t, l, u), l.form = "header", NEW d, ReadsAs(schema, t, d)
    PROVE  Outcome(schema, u, open_section(d, l.section))
<1> DEFINE name == l.section
           n == Len(u)
<1>1. IsDocument(d) /\ d.error = "" /\ WellFormedIn(t) /\ ReadsHeaders(schema, t, d) /\ ReadsPairs(schema, t, d)
  BY Zenon DEF ReadsAs
<1>0. schema.limit \in Nat
  BY Zenon DEF IsSchema
<1>2. /\ d.seen = PlainHeaders(t) /\ Range(d.instances) = InstanceNames(t)
      /\ Len(d.instances) = Cardinality(InstancesIn(t)) /\ Len(d.instances) <= schema.limit
      /\ KnownSectionsIn(schema, t) /\ SectionsOnceIn(t)
  BY <1>1, Zenon DEF ReadsHeaders
<1>3. /\ HeadersIn(u) = HeadersIn(t) \cup {n} /\ n \notin HeadersIn(t) /\ u[n].section = name
      /\ InstancesIn(u) = InstancesIn(t) \cup (IF name[2] # "" THEN {n} ELSE {})
      /\ InstancesIn(t) \subseteq HeadersIn(t)
      /\ \A k \in HeadersIn(t) : u[k] = t[k]
  BY Zenon DEF LongerBy
<1>4. SectionIn(u, Len(u) + 1) = name
  BY Zenon DEF LongerBy
<1>5. WellFormedIn(u)
  <2>1. l.form \notin {"bad_header", "bad_pair"}
    OBVIOUS
  <2>2. DOMAIN u = DOMAIN t \cup {n} /\ u[n] = l /\ \A k \in DOMAIN t : u[k] = t[k]
    BY Zenon DEF LongerBy
  <2> HIDE DEF n
  <2> QED BY <1>1, <2>1, <2>2, Zenon DEF WellFormedIn
<1>6. ASSUME NEW e, e.values = d.values PROVE ReadsPairs(schema, u, e)
  BY <1>1, <1>6, SamePairs, Zenon
<1> HIDE DEF name, n
<1>7. find_section_index(name) <=> name[2] = "" /\ name[1] \in PlainIn(schema)
  BY Zenon DEF find_section_index, PlainSections, PlainIn
<1>8. find_section_family(name) <=> name[2] # "" /\ name[1] \in FamiliesIn(schema)
  BY Zenon DEF find_section_family, Families, FamiliesIn
<1>9. {"section_duplicate", "section_unknown", "section_limit_exceeded"} \subseteq ParseErrors
  BY DEF ParseErrors
<1>10. ASSUME NEW k \in HeadersIn(t), t[k].section = name PROVE ~ ExtensibleIn(schema, u)
  BY <1>3, <1>10, Zenon DEF ExtensibleIn, SectionsOnceIn
<1>11. CASE find_section_index(name)
  <2>1. CASE name \in d.seen
    <3>1. open_section(d, name) = Failed(d, "section_duplicate")
      BY <1>11, <2>1, Zenon DEF open_section
    <3>2. PICK k \in HeadersIn(t) : t[k].section = name
      BY <1>2, <2>1 DEF PlainHeaders
    <3> QED BY <1>1, <1>9, <1>10, <3>1, <3>2, FailedIs, Zenon DEF name
  <2>2. CASE name \notin d.seen
    <3> DEFINE e == [d EXCEPT !.seen = @ \cup {name}, !.cursor = name]
    <3>1. open_section(d, name) = e
      BY <1>11, <2>2, Zenon DEF open_section
    <3>2. /\ IsDocument(e) /\ e.error = "" /\ e.cursor = name /\ e.seen = d.seen \cup {name}
          /\ e.instances = d.instances /\ e.values = d.values
      <4>1. e = [cursor |-> name, seen |-> d.seen \cup {name}, instances |-> d.instances, values |-> d.values,
                 error |-> d.error]
        BY <1>1, DocumentEdits, Zenon
      <4> HIDE DEF e
      <4> QED BY <1>1, <4>1, Zenon DEF IsDocument
    <3> HIDE DEF e
    <3>3. InstancesIn(u) = InstancesIn(t)
      BY <1>3, <1>7, <1>11, Zenon
    <3>4. PlainHeaders(u) = PlainHeaders(t) \cup {name}
      <4> DEFINE P == HeadersIn(t) \ InstancesIn(t)
                 Q == HeadersIn(u) \ InstancesIn(u)
      <4>1. Q = P \cup {n} /\ \A k \in P : u[k] = t[k]
        BY <1>3, <3>3, Zenon
      <4>2. PlainHeaders(u) = {u[k].section : k \in Q} /\ PlainHeaders(t) = {t[k].section : k \in P}
        BY DEF PlainHeaders
      <4>3. u[n].section = name
        BY <1>3, Zenon
      <4> HIDE DEF P, Q
      <4>4. ASSUME NEW x PROVE x \in PlainHeaders(u) <=> x \in PlainHeaders(t) \cup {name}
        <5>1. x \in PlainHeaders(u) <=> \E k \in Q : x = u[k].section
          BY <4>2
        <5>2. x \in PlainHeaders(t) <=> \E k \in P : x = t[k].section
          BY <4>2
        <5> QED BY <4>1, <4>3, <5>1, <5>2
      <4> QED BY <4>4
    <3>5. InstanceNames(u) = InstanceNames(t)
      <4>1. \A k \in InstancesIn(t) : u[k] = t[k]
        BY <1>3, Zenon
      <4> QED BY <3>3, <4>1 DEF InstanceNames
    <3>6. KnownSectionsIn(schema, u)
      BY <1>2, <1>3, <1>7, <1>11, <3>3, Zenon DEF KnownSectionsIn
    <3>7. SectionsOnceIn(u)
      <4>1. ASSUME NEW k \in HeadersIn(t) PROVE t[k].section # name
        BY <1>2, <1>7, <1>11, <2>2, Zenon DEF PlainHeaders, InstancesIn
      <4> QED BY <1>2, <1>3, <4>1, Zenon DEF SectionsOnceIn
    <3>8. ReadsHeaders(schema, u, e)
      BY <1>1, <1>2, <1>4, <3>2, <3>3, <3>4, <3>5, <3>6, <3>7, Zenon DEF ReadsHeaders
    <3> QED BY <1>5, <1>6, <3>1, <3>2, <3>8, Zenon DEF Outcome, ReadsAs, name
  <2> QED BY <2>1, <2>2
<1>12. CASE ~ find_section_index(name)
  <2>1. CASE ~ find_section_family(name)
    <3>1. open_section(d, name) = Failed(d, "section_unknown")
      BY <1>12, <2>1, Zenon DEF open_section
    <3>2. ~ KnownSectionsIn(schema, u)
      <4>1. n \in HeadersIn(u) /\ (n \in InstancesIn(u) <=> name[2] # "")
        BY <1>3, Zenon
      <4> QED BY <1>3, <1>7, <1>8, <1>12, <2>1, <4>1, Zenon DEF KnownSectionsIn
    <3> QED BY <1>1, <1>9, <3>1, <3>2, FailedIs, Zenon DEF name, ExtensibleIn
  <2>2. CASE find_section_family(name)
    <3>1. CASE name \in Range(d.instances)
      <4>1. open_section(d, name) = Failed(d, "section_duplicate")
        BY <1>12, <2>2, <3>1, Zenon DEF open_section
      <4>2. PICK k \in HeadersIn(t) : t[k].section = name
        BY <1>2, <1>3, <3>1, Zenon DEF InstanceNames
      <4> QED BY <1>1, <1>9, <1>10, <4>1, <4>2, FailedIs, Zenon DEF name
    <3>2. CASE name \notin Range(d.instances)
      <4>1. InstancesIn(u) = InstancesIn(t) \cup {n} /\ n \notin InstancesIn(t)
        BY <1>3, <1>8, <2>2, Zenon
      <4>2. Cardinality(InstancesIn(u)) = Cardinality(InstancesIn(t)) + 1 /\ Cardinality(InstancesIn(t)) \in Nat
        <5>1. IsFiniteSet(InstancesIn(t)) /\ Cardinality(InstancesIn(t)) \in Nat
          BY Zenon DEF LongerBy
        <5> QED BY <4>1, <5>1, FS_AddElement
      <4>3. CASE Len(d.instances) >= schema.limit
        <5>1. open_section(d, name) = Failed(d, "section_limit_exceeded")
          BY <1>12, <2>2, <3>2, <4>3, Zenon DEF open_section
        <5>2. ~ (Cardinality(InstancesIn(u)) <= schema.limit)
          BY <1>0, <1>2, <4>2, <4>3
        <5> QED BY <1>1, <1>9, <5>1, <5>2, FailedIs, Zenon DEF name, ExtensibleIn
      <4>4. CASE ~ (Len(d.instances) >= schema.limit)
        <5> DEFINE e == [d EXCEPT !.instances = Append(@, name), !.cursor = name]
        <5>1. open_section(d, name) = e
          BY <1>12, <2>2, <3>2, <4>4, Zenon DEF open_section
        <5>2. /\ IsDocument(e) /\ e.error = "" /\ e.cursor = name /\ e.seen = d.seen
              /\ e.instances = Append(d.instances, name) /\ e.values = d.values
          <6> DEFINE longer == Append(d.instances, name)
          <6>1. e = [d EXCEPT !.instances = longer, !.cursor = name]
            OBVIOUS
          <6> HIDE DEF e, longer
          <6>2. e = [cursor |-> name, seen |-> d.seen, instances |-> longer, values |-> d.values, error |-> d.error]
            BY <1>1, <6>1, DocumentEdits, Zenon
          <6>3. /\ IsDocument(e) /\ e.error = "" /\ e.cursor = name /\ e.seen = d.seen
                /\ e.instances = longer /\ e.values = d.values
            BY <1>1, <6>2, Zenon DEF IsDocument
          <6> QED BY <6>3, Zenon DEF longer
        <5> HIDE DEF e
        <5>3. PlainHeaders(u) = PlainHeaders(t)
          <6> DEFINE P == HeadersIn(t) \ InstancesIn(t)
                     Q == HeadersIn(u) \ InstancesIn(u)
          <6>1. Q = P /\ \A k \in P : u[k] = t[k]
            BY <1>3, <4>1, Zenon
          <6>2. PlainHeaders(u) = {u[k].section : k \in Q} /\ PlainHeaders(t) = {t[k].section : k \in P}
            BY DEF PlainHeaders
          <6> HIDE DEF P, Q
          <6> QED BY <6>1, <6>2
        <5>4. InstanceNames(u) = InstanceNames(t) \cup {name}
          <6>1. \A k \in InstancesIn(t) : u[k] = t[k]
            BY <1>3, Zenon
          <6>2. u[n].section = name
            BY <1>3, Zenon
          <6>3. ASSUME NEW x PROVE x \in InstanceNames(u) <=> x \in InstanceNames(t) \cup {name}
            <7>1. x \in InstanceNames(u) <=> \E k \in InstancesIn(u) : x = u[k].section
              BY DEF InstanceNames
            <7>2. x \in InstanceNames(t) <=> \E k \in InstancesIn(t) : x = t[k].section
              BY DEF InstanceNames
            <7> QED BY <4>1, <6>1, <6>2, <7>1, <7>2
          <6> QED BY <6>3
        <5>5. /\ \E S : e.instances \in Seq(S)
              /\ Range(e.instances) = Range(d.instances) \cup {name}
              /\ Len(e.instances) = Len(d.instances) + 1
          <6>1. PICK S : d.instances \in Seq(S)
            BY <1>1, Zenon DEF ReadsHeaders
          <6> DEFINE T == S \cup {name}
          <6>2. d.instances \in Seq(T)
            <7>1. S \subseteq T
              OBVIOUS
            <7> HIDE DEF T
            <7> QED BY <6>1, <7>1, SeqGrows
          <6>3. name \in T
            OBVIOUS
          <6> HIDE DEF T
          <6>4. /\ Append(d.instances, name) \in Seq(T) /\ Len(Append(d.instances, name)) = Len(d.instances) + 1
                /\ DOMAIN Append(d.instances, name) = 1 .. Len(d.instances) + 1
                /\ Append(d.instances, name)[Len(d.instances) + 1] = name
                /\ \A k \in 1 .. Len(d.instances) : Append(d.instances, name)[k] = d.instances[k]
                /\ DOMAIN d.instances = 1 .. Len(d.instances) /\ Len(d.instances) \in Nat
            BY <6>2, <6>3
          <6>5. 1 .. Len(d.instances) + 1 = (1 .. Len(d.instances)) \cup {Len(d.instances) + 1}
            BY <6>4
          <6>6. Range(Append(d.instances, name)) = Range(d.instances) \cup {name}
            <7> DEFINE a == Append(d.instances, name)
                       b == d.instances
                       m == Len(b) + 1
            <7>1. DOMAIN a = DOMAIN b \cup {m} /\ a[m] = name /\ \A k \in DOMAIN b : a[k] = b[k]
              BY <6>4, <6>5
            <7> HIDE DEF a, b, m
            <7>2. Range(a) = Range(b) \cup {name}
              BY <7>1 DEF Range
            <7> QED BY <7>2 DEF a, b
          <6>7. \E R : Append(d.instances, name) \in Seq(R)
            BY <6>4
          <6> QED BY <5>2, <6>4, <6>6, <6>7, Zenon
        <5>6. KnownSectionsIn(schema, u)
          BY <1>2, <1>3, <1>8, <2>2, <4>1, Zenon DEF KnownSectionsIn
        <5>7. SectionsOnceIn(u)
          <6>1. ASSUME NEW k \in HeadersIn(t) PROVE t[k].section # name
            BY <1>2, <1>8, <2>2, <3>2, Zenon DEF InstanceNames, InstancesIn
          <6> QED BY <1>2, <1>3, <6>1, Zenon DEF SectionsOnceIn
        <5>8. Len(e.instances) = Cardinality(InstancesIn(u)) /\ Len(e.instances) <= schema.limit
          BY <1>0, <1>2, <4>2, <4>4, <5>5
        <5>9. ReadsHeaders(schema, u, e)
          <6> HIDE DEF n
          <6> QED BY <1>2, <1>4, <5>2, <5>3, <5>4, <5>5, <5>6, <5>7, <5>8, Zenon DEF ReadsHeaders
        <5> QED BY <1>5, <1>6, <5>1, <5>2, <5>9, Zenon DEF Outcome, ReadsAs, name
      <4> QED BY <4>3, <4>4
    <3> QED BY <3>1, <3>2
  <2> QED BY <2>1, <2>2
<1> QED BY <1>11, <1>12 DEF name

\* The section a line stands in, by its cursor.
LEMMA CursorIs ==
    ASSUME NEW s, IsSchema(s), NEW t \in Seq(LinesGiven), NEW d, ReadsHeaders(s, t, d)
    PROVE  /\ d.cursor = NoSection <=> AboveIn(t, Len(t) + 1) = 0
           /\ AboveIn(t, Len(t) + 1) # 0 => /\ AboveIn(t, Len(t) + 1) \in HeadersIn(t)
                                            /\ d.cursor = t[AboveIn(t, Len(t) + 1)].section
                                            /\ d.cursor = <<d.cursor[1], d.cursor[2]>>
<1> DEFINE n == Len(t) + 1
           a == AboveIn(t, n)
<1>1. n \in 1 .. Len(t) + 1
  BY HeaderIndexes
<1>2. a \in HeadersIn(t) \cup {0}
  BY <1>1, AboveExists DEF IsAbove
<1>3. d.cursor = IF a = 0 THEN NoSection ELSE t[a].section
  BY DEF ReadsHeaders, SectionIn
<1> HIDE DEF a, n
<1>4. CASE a = 0
  BY <1>3, <1>4 DEF a, n
<1>5. CASE a # 0
  <2>1. a \in HeadersIn(t) /\ d.cursor = t[a].section
    BY <1>2, <1>3, <1>5
  <2>2. t[a] \in LinesGiven
    BY <2>1, HeaderIndexes
  <2>3. d.cursor = <<d.cursor[1], d.cursor[2]>>
    BY <2>1, <2>2 DEF LinesGiven
  <2>4. d.cursor[1] \in PlainIn(s) \cup FamiliesIn(s)
    BY <2>1 DEF ReadsHeaders, KnownSectionsIn
  <2>5. d.cursor[1] # ""
    BY <2>4, Zenon DEF IsSchema, PlainIn, FamiliesIn
  <2>6. d.cursor # NoSection
    <3>1. NoSection[1] = ""
      BY DEF NoSection
    <3> QED BY <2>5, <3>1, Zenon
  <2> QED BY <1>5, <2>1, <2>3, <2>6 DEF a, n
<1> QED BY <1>4, <1>5

\* A key is known under the cursor exactly when the field is wanted.
LEMMA FieldIsKnown ==
    ASSUME NEW t, NEW d, NEW key, NEW a \in HeadersIn(t), d.cursor = t[a].section, d.cursor = <<d.cursor[1], d.cursor[2]>>
    PROVE  find_config_field(d.cursor, key) <=> IsWanted(schema, t, <<d.cursor, key>>)
<1> DEFINE c == d.cursor
           Plain1 == {<<<<f.section, "">>, f>> : f \in Range(schema.fields)}
           of(k) == {<<t[k].section, f>> : f \in FamilyIn(schema, t[k].section)}
<1>1. WantedIn(schema, t) = Plain1 \cup UNION {of(k) : k \in InstancesIn(t)}
  BY DEF WantedIn
<1>2. ASSUME find_config_field(c, key) PROVE IsWanted(schema, t, <<c, key>>)
  <2>1. PICK f \in Range(Table(c)) : f.section = c[1] /\ f.key = key
    BY <1>2 DEF find_config_field
  <2>2. CASE c[2] = ""
    <3>1. f \in Range(schema.fields)
      BY <2>1, <2>2, Zenon DEF Table
    <3> DEFINE w == <<<<f.section, "">>, f>>
    <3>2. w \in WantedIn(schema, t)
      BY <1>1, <3>1, Zenon
    <3>3. w[1] = c /\ w[2] = f
      BY <2>1, <2>2, Zenon
    <3> HIDE DEF w, c
    <3> QED BY <2>1, <3>2, <3>3 DEF IsWanted
  <2>3. CASE c[2] # ""
    <3>1. f \in Range(schema.families)
      BY <2>1, <2>3, Zenon DEF Table
    <3>2. a \in InstancesIn(t)
      BY <2>3, Zenon DEF InstancesIn
    <3> DEFINE w == <<c, f>>
    <3>3. f \in FamilyIn(schema, t[a].section)
      BY <2>1, <3>1 DEF FamilyIn
    <3>4. w \in of(a)
      BY <3>3
    <3>5. w[1] = c /\ w[2] = f
      OBVIOUS
    <3> HIDE DEF of, w, c
    <3>6. w \in WantedIn(schema, t)
      BY <1>1, <3>2, <3>4, Zenon
    <3> QED BY <2>1, <3>5, <3>6 DEF IsWanted
  <2> QED BY <2>2, <2>3, Zenon
<1>3. ASSUME IsWanted(schema, t, <<c, key>>) PROVE find_config_field(c, key)
  <2>1. PICK w \in WantedIn(schema, t) : <<c, key>> = <<w[1], w[2].key>>
    BY <1>3 DEF IsWanted
  <2>2. c = w[1] /\ key = w[2].key
    BY <2>1
  <2>3. CASE w \in Plain1
    <3>1. PICK f \in Range(schema.fields) : w = <<<<f.section, "">>, f>>
      BY <2>3, Zenon
    <3>2. c = <<f.section, "">> /\ f.key = key
      BY <2>2, <3>1, Zenon
    <3>3. f.section = c[1] /\ c[2] = ""
      <4> HIDE DEF c
      <4> QED BY <3>2, Zenon
    <3> HIDE DEF c
    <3> QED BY <3>1, <3>2, <3>3, Zenon DEF find_config_field, Table
  <2>4. CASE \E k \in InstancesIn(t) : w \in of(k)
    <3>1. PICK k \in InstancesIn(t) : w \in of(k)
      BY <2>4
    <3>2. PICK f \in FamilyIn(schema, t[k].section) : w = <<t[k].section, f>>
      BY <3>1
    <3>3. c = t[k].section /\ f.key = key /\ c[2] # ""
      BY <2>2, <3>1, <3>2, Zenon DEF InstancesIn
    <3>4. f \in Range(schema.families) /\ f.section = c[1]
      BY <3>2, <3>3, Zenon DEF FamilyIn
    <3> HIDE DEF c
    <3> QED BY <3>3, <3>4, Zenon DEF find_config_field, Table
  <2> HIDE DEF Plain1, of
  <2> QED BY <1>1, <2>1, <2>3, <2>4
<1> QED BY <1>2, <1>3

\* No field is wanted without a key.
LEMMA KeysAreNamed ==
    ASSUME NEW s, IsSchema(s), NEW t, NEW c
    PROVE  ~ IsWanted(s, t, <<c, "">>)
<1> SUFFICES ASSUME NEW w \in WantedIn(s, t), <<c, "">> = <<w[1], w[2].key>> PROVE FALSE
  BY Zenon DEF IsWanted
<1>1. w[2] \in Range(s.fields) \cup Range(s.families)
  <2>1. CASE w \in {<<<<f.section, "">>, f>> : f \in Range(s.fields)}
    <3>1. PICK f \in Range(s.fields) : w = <<<<f.section, "">>, f>>
      BY <2>1, Zenon
    <3>2. w[2] = f
      BY <3>1, Zenon
    <3> QED BY <3>1, <3>2, Zenon
  <2>2. CASE \E k \in InstancesIn(t) : w \in {<<t[k].section, f>> : f \in FamilyIn(s, t[k].section)}
    <3>0. PICK k \in InstancesIn(t) : w \in {<<t[k].section, f>> : f \in FamilyIn(s, t[k].section)}
      BY <2>2, Zenon
    <3>1. PICK f \in FamilyIn(s, t[k].section) : w = <<t[k].section, f>>
      BY <3>0, Zenon
    <3>2. w[2] = f
      BY <3>1, Zenon
    <3> QED BY <3>1, <3>2, Zenon DEF FamilyIn
  <2> QED BY <2>1, <2>2, Zenon DEF WantedIn
<1>2. w[2].key # ""
  BY <1>1, Zenon DEF IsSchema
<1> QED BY <1>2, Zenon

\* A document whose values change.
ValuesReplaced(d, x, e) ==
    /\ IsDocument(e) /\ e.cursor = d.cursor /\ e.seen = d.seen /\ e.instances = d.instances
    /\ e.values = x /\ e.error = d.error
\* It is what the edit makes.
LEMMA ValuesEdited ==
    ASSUME NEW d, IsDocument(d), NEW x, NEW e, e = [d EXCEPT !.values = x]
    PROVE  ValuesReplaced(d, x, e)
<1>1. e = [cursor |-> d.cursor, seen |-> d.seen, instances |-> d.instances, values |-> x, error |-> d.error]
  BY DocumentEdits, Zenon
<1>2. /\ IsDocument(e) /\ e.cursor = d.cursor /\ e.seen = d.seen /\ e.instances = d.instances
      /\ e.values = x /\ e.error = d.error
  BY <1>1 DEF IsDocument
<1> QED BY <1>2 DEF ValuesReplaced

\* A pair is read into a document that says so, or cannot be repaired.
ReadPair(d, l) ==
    IF d.cursor = NoSection THEN Failed(d, "syntax_invalid")
    ELSE IF l.key = "" THEN Failed(d, "value_invalid")
    ELSE IF ~ find_config_field(d.cursor, l.key) THEN Failed(d, "key_unknown")
    ELSE store_config_value(d, l.key, l.value)
\* It is so.
LEMMA PairRead ==
    ASSUME IsSchema(schema), NEW t \in Seq(LinesGiven), NEW l, NEW u, LongerBy(t, l, u), l.form = "pair",
           NEW d, ReadsAs(schema, t, d)
    PROVE  Outcome(schema, u, ReadPair(d, l))
<1> DEFINE e == ReadPair(d, l)
           n == Len(u)
           a == AboveIn(u, n)
           field == <<d.cursor, l.key>>
<1>1. IsDocument(d) /\ d.error = "" /\ WellFormedIn(t) /\ ReadsHeaders(schema, t, d) /\ ReadsPairs(schema, t, d)
  BY Zenon DEF ReadsAs
<1>2. /\ PairsIn(u) = PairsIn(t) \cup {n} /\ n \notin PairsIn(t) /\ n \in PairsIn(u) /\ u[n] = l
      /\ \A k \in PairsIn(t) : u[k] = t[k] /\ FieldIn(u, k) = FieldIn(t, k) /\ AboveIn(u, k) = AboveIn(t, k)
  <2>1. PairsIn(u) = PairsIn(t) \cup {n} /\ u[n] = l
    BY DEF LongerBy
  <2>2. PairsIn(t) \subseteq DOMAIN t /\ n \notin DOMAIN t
    BY DEF LongerBy
  <2>3. \A k \in DOMAIN t : u[k] = t[k] /\ AboveIn(u, k) = AboveIn(t, k) /\ FieldIn(u, k) = FieldIn(t, k)
    BY DEF LongerBy
  <2> HIDE DEF n
  <2> QED BY <2>1, <2>2, <2>3
<1>3. Len(u) = Len(t) + 1 /\ AboveIn(u, n) = AboveIn(t, Len(t) + 1)
  BY DEF LongerBy
<1>4. FieldIn(u, n) = field
  BY <1>1, Zenon DEF LongerBy, ReadsHeaders
<1>5. HeadersIn(u) = HeadersIn(t) /\ \A k \in HeadersIn(t) : u[k] = t[k]
  BY DEF LongerBy
<1>6. /\ d.cursor = NoSection <=> a = 0
      /\ a # 0 => a \in HeadersIn(u) /\ d.cursor = u[a].section /\ d.cursor = <<d.cursor[1], d.cursor[2]>>
  BY <1>1, <1>3, <1>5, CursorIs, Zenon
<1>7. {"syntax_invalid", "value_invalid", "key_unknown", "key_duplicate"} \subseteq ParseErrors
  BY DEF ParseErrors
<1> HIDE DEF n, a, field, e
<1>8. ASSUME a # 0 PROVE find_config_field(d.cursor, l.key) <=> IsWanted(schema, u, field)
  BY <1>6, <1>8, FieldIsKnown DEF field
<1>9. CASE d.cursor = NoSection
  <2>1. ~ KnownKeysIn(schema, u)
    BY <1>2, <1>6, <1>9 DEF KnownKeysIn, a
  <2>2. ReadPair(d, l) = Failed(d, "syntax_invalid")
    BY <1>9 DEF ReadPair
  <2> QED BY <1>1, <1>7, <2>1, <2>2, FailedIs, Zenon DEF ExtensibleIn
<1>10. CASE d.cursor # NoSection /\ l.key = ""
  <2>1. ~ IsWanted(schema, u, field)
    BY <1>10, KeysAreNamed, Zenon DEF field
  <2>2. ~ KnownKeysIn(schema, u)
    BY <1>2, <1>4, <2>1 DEF KnownKeysIn
  <2>3. ReadPair(d, l) = Failed(d, "value_invalid")
    BY <1>10, Zenon DEF ReadPair
  <2> QED BY <1>1, <1>7, <2>2, <2>3, FailedIs, Zenon DEF ExtensibleIn
<1>11. CASE d.cursor # NoSection /\ l.key # "" /\ ~ find_config_field(d.cursor, l.key)
  <2>1. ~ IsWanted(schema, u, field)
    BY <1>6, <1>8, <1>11, Zenon
  <2>2. ~ KnownKeysIn(schema, u)
    BY <1>2, <1>4, <2>1 DEF KnownKeysIn
  <2>3. ReadPair(d, l) = Failed(d, "key_unknown")
    BY <1>11, Zenon DEF ReadPair
  <2> QED BY <1>1, <1>7, <2>2, <2>3, FailedIs, Zenon DEF ExtensibleIn
<1>12. CASE d.cursor # NoSection /\ l.key # "" /\ find_config_field(d.cursor, l.key)
  <2>1. e = store_config_value(d, l.key, l.value)
    BY <1>12, Zenon DEF e, ReadPair
  <2>2. DOMAIN d.values = {FieldIn(t, k) : k \in PairsIn(t)} /\ \A k \in PairsIn(t) : d.values[FieldIn(t, k)] = t[k].value
    BY <1>1, Zenon DEF ReadsPairs, ValuesIn
  <2>3. IsWanted(schema, u, field) /\ a # 0
    BY <1>6, <1>8, <1>12, Zenon
  <2>4. CASE field \in DOMAIN d.values
    <3>1. e = Failed(d, "key_duplicate")
      BY <2>1, <2>4, Zenon DEF store_config_value, field
    <3>2. PICK k \in PairsIn(t) : field = FieldIn(t, k)
      BY <2>2, <2>4
    <3>3. ~ KeysOnceIn(u)
      BY <1>2, <1>4, <3>2 DEF KeysOnceIn
    <3> QED BY <1>1, <1>7, <3>1, <3>3, FailedIs, Zenon DEF ExtensibleIn, e
  <2>5. CASE field \notin DOMAIN d.values /\ l.value = "" /\ l.key \notin schema.lists
    <3>1. e = Failed(d, "value_invalid")
      BY <2>1, <2>5, Zenon DEF store_config_value, field
    <3>2. PICK w \in WantedIn(schema, u) : field = <<w[1], w[2].key>>
      BY <2>3 DEF IsWanted
    <3>3. w[2].key = l.key
      BY <3>2 DEF field
    <3>4. ~ ReadableIn(schema, u)
      BY <1>2, <1>4, <2>5, <3>2, <3>3, Zenon DEF ReadableIn
    <3> QED BY <1>1, <1>7, <3>1, <3>4, FailedIs, Zenon DEF ExtensibleIn, e
  <2>6. CASE field \notin DOMAIN d.values /\ ~ (l.value = "" /\ l.key \notin schema.lists)
    <3> DEFINE table == [f \in DOMAIN d.values \cup {field} |-> IF f = field THEN l.value ELSE d.values[f]]
    <3>1. e = [d EXCEPT !.values = table]
      BY <2>1, <2>6, Zenon DEF store_config_value, field
    <3>2. DOMAIN table = DOMAIN d.values \cup {field} /\ table[field] = l.value
      OBVIOUS
    <3>3. \A f \in DOMAIN d.values : table[f] = d.values[f]
      BY <2>6, Zenon
    <3> HIDE DEF table
    <3>4. /\ IsDocument(e) /\ e.cursor = d.cursor /\ e.seen = d.seen /\ e.instances = d.instances
          /\ e.values = table /\ e.error = d.error
      <4>1. ValuesReplaced(d, table, e)
        BY <1>1, <3>1, ValuesEdited, Zenon
      <4> QED BY <4>1 DEF ValuesReplaced
    <3>5. /\ IsDocument(e) /\ e.error = "" /\ e.cursor = d.cursor /\ e.seen = d.seen
          /\ e.instances = d.instances /\ e.values = table
      BY <1>1, <3>4, Zenon
    <3>6. ReadsHeaders(schema, u, e)
      <4>1. l.form # "header"
        OBVIOUS
      <4> QED BY <1>1, <3>5, <4>1, SameHeaders, Zenon
    <3>7. KnownKeysIn(schema, u)
      <4>1. \A k \in PairsIn(t) : AboveIn(u, k) # 0 /\ IsWanted(schema, u, FieldIn(u, k))
        BY <1>1, WantedStays, Zenon DEF ReadsPairs
      <4> QED BY <1>2, <1>4, <2>3, <4>1 DEF KnownKeysIn, a
    <3>8. \A k \in PairsIn(t) : FieldIn(t, k) # field /\ FieldIn(t, k) \in DOMAIN d.values
      BY <2>2, <2>6, Zenon
    <3>9. KeysOnceIn(u)
      <4>1. \A j, k \in PairsIn(t) : FieldIn(t, j) = FieldIn(t, k) => j = k
        BY <1>1, Zenon DEF ReadsPairs, KeysOnceIn
      <4> QED BY <1>2, <1>4, <3>8, <4>1 DEF KeysOnceIn
    <3>10. ValuesIn(e, u)
      <4>1. {FieldIn(u, k) : k \in PairsIn(u)} = {FieldIn(t, k) : k \in PairsIn(t)} \cup {field}
        BY <1>2, <1>4
      <4>2. \A k \in PairsIn(u) : e.values[FieldIn(u, k)] = u[k].value
        <5>1. ASSUME NEW k \in PairsIn(t) PROVE table[FieldIn(u, k)] = u[k].value
          <6>1. FieldIn(u, k) = FieldIn(t, k) /\ u[k] = t[k] /\ FieldIn(t, k) \in DOMAIN d.values
            BY <1>2, <3>8
          <6> QED BY <2>2, <3>3, <6>1, Zenon
        <5>2. table[FieldIn(u, n)] = u[n].value
          BY <1>2, <1>4, <3>2, Zenon
        <5>3. \A k \in PairsIn(u) : k \in PairsIn(t) \/ k = n
          BY <1>2
        <5> QED BY <3>5, <5>1, <5>2, <5>3, Zenon
      <4> QED BY <2>2, <3>2, <3>5, <4>1, <4>2, Zenon DEF ValuesIn
    <3>11. \A k \in PairsIn(u) : u[k].value # "" \/ u[k].key \in schema.lists
      BY <1>1, <1>2, <2>6, Zenon DEF ReadsPairs
    <3>12. WellFormedIn(u)
      <4>1. DOMAIN u = DOMAIN t \cup {n} /\ \A k \in DOMAIN t : u[k] = t[k]
        BY DEF LongerBy, n
      <4> QED BY <1>1, <1>2, <4>1, Zenon DEF WellFormedIn
    <3>13. ReadsPairs(schema, u, e)
      BY <3>7, <3>9, <3>10, <3>11, Zenon DEF ReadsPairs
    <3>14. ReadsAs(schema, u, e)
      BY <3>5, <3>6, <3>12, <3>13, Zenon DEF ReadsAs
    <3> QED BY <3>5, <3>14, Zenon DEF Outcome, e
  <2> QED BY <2>4, <2>5, <2>6, Zenon
<1> QED BY <1>9, <1>10, <1>11, <1>12, Zenon

\* So is any line.
LEMMA LineRead ==
    ASSUME IsSchema(schema), NEW t \in Seq(LinesGiven), NEW l \in LinesGiven, NEW d, ReadsAs(schema, t, d)
    PROVE  Outcome(schema, Append(t, l), parse_line(d, l))
<1> DEFINE u == Append(t, l)
<1>1. LongerBy(t, l, u)
  BY IsLonger
<1> HIDE DEF u
<1>2. IsDocument(d) /\ d.error = "" /\ WellFormedIn(t) /\ ReadsHeaders(schema, t, d) /\ ReadsPairs(schema, t, d)
  BY Zenon DEF ReadsAs
<1>3. l.form \in {"blank", "bad_header", "header", "bad_pair", "pair"}
  BY DEF LinesGiven
<1>4. DOMAIN u = DOMAIN t \cup {Len(u)} /\ u[Len(u)] = l /\ \A k \in DOMAIN t : u[k] = t[k]
  BY <1>1, Zenon DEF LongerBy
<1>5. "syntax_invalid" \in ParseErrors
  BY DEF ParseErrors
<1>6. CASE l.form = "blank"
  <2>1. parse_line(d, l) = d
    BY <1>6 DEF parse_line
  <2>2. l.form # "pair" /\ l.form # "header" /\ l.form \notin {"bad_header", "bad_pair"}
    BY <1>6
  <2>3. ReadsHeaders(schema, u, d) /\ ReadsPairs(schema, u, d)
    BY <1>1, <1>2, <2>2, SameHeaders, SamePairs, Zenon
  <2>4. WellFormedIn(u)
    BY <1>2, <1>4, <2>2, Zenon DEF WellFormedIn
  <2> QED BY <1>2, <2>1, <2>3, <2>4, Zenon DEF Outcome, ReadsAs, u
<1>7. CASE l.form \in {"bad_header", "bad_pair"}
  <2>1. parse_line(d, l) = Failed(d, "syntax_invalid")
    BY <1>7, Zenon DEF parse_line
  <2>2. ~ WellFormedIn(u)
    BY <1>4, <1>7, Zenon DEF WellFormedIn
  <2> QED BY <1>2, <1>5, <2>1, <2>2, FailedIs, Zenon DEF ExtensibleIn, u
<1>8. CASE l.form = "header"
  <2>1. parse_line(d, l) = open_section(d, l.section)
    BY <1>8 DEF parse_line
  <2> QED BY <1>1, <1>8, <2>1, HeaderRead DEF u
<1>9. CASE l.form = "pair"
  <2>1. parse_line(d, l) = ReadPair(d, l)
    BY <1>9, Zenon DEF parse_line, ReadPair
  <2> QED BY <1>1, <1>9, <2>1, PairRead DEF u
<1> QED BY <1>3, <1>6, <1>7, <1>8, <1>9 DEF u

---------------------------------------------------------------------------
(* InputFiles: the end of a file.                                          *)

\* A set of natural numbers has a least one.
LEMMA LeastExists ==
    ASSUME NEW S, S \subseteq Nat, S # {}
    PROVE  Min(S) \in S
<1> DEFINE R == OpToRel(<, Nat)
<1>1. IsWellFoundedOn(R, Nat)
  BY NatLessThanWellFounded, Zenon
<1>2. \A x, y \in Nat : x < y => <<x, y>> \in R
  BY SMT DEF OpToRel
<1> HIDE DEF R
<1>3. PICK x \in S : \A y \in S : ~ (<<y, x>> \in R)
  BY <1>1, WFMin
<1>4. ASSUME NEW y \in S PROVE x <= y
  <2>1. x \in Nat /\ y \in Nat
    BY <1>3
  <2>2. ~ (y < x)
    BY <1>2, <1>3, <2>1, Zenon
  <2> QED BY <2>1, <2>2
<1> QED BY <1>3, <1>4 DEF Min

\* What stands in one sequence or the other.
LEMMA ConcatRange ==
    ASSUME NEW S, NEW a \in Seq(S), NEW b \in Seq(S)
    PROVE  a \o b \in Seq(S) /\ Range(a \o b) = Range(a) \cup Range(b)
<1>1. /\ a \o b \in Seq(S) /\ Len(a \o b) = Len(a) + Len(b)
      /\ \A i \in 1 .. Len(a) + Len(b) : (a \o b)[i] = IF i <= Len(a) THEN a[i] ELSE b[i - Len(a)]
      /\ Len(a) \in Nat /\ Len(b) \in Nat /\ DOMAIN a = 1 .. Len(a) /\ DOMAIN b = 1 .. Len(b)
      /\ DOMAIN (a \o b) = 1 .. Len(a) + Len(b)
  OBVIOUS
<1> DEFINE c == a \o b
           m == Len(a)
           n == Len(b)
<1>2. /\ m \in Nat /\ n \in Nat /\ DOMAIN a = 1 .. m /\ DOMAIN b = 1 .. n /\ DOMAIN c = 1 .. m + n
      /\ \A i \in 1 .. m + n : c[i] = IF i <= m THEN a[i] ELSE b[i - m]
  BY <1>1
<1> HIDE DEF c, m, n
<1>3. ASSUME NEW i \in 1 .. m + n PROVE c[i] \in Range(a) \cup Range(b)
  <2>1. CASE i <= m
    <3>1. i \in DOMAIN a /\ c[i] = a[i]
      BY <1>2, <2>1
    <3> QED BY <3>1 DEF Range
  <2>2. CASE ~ (i <= m)
    <3>1. i - m \in DOMAIN b /\ c[i] = b[i - m]
      BY <1>2, <2>2
    <3> QED BY <3>1 DEF Range
  <2> QED BY <2>1, <2>2
<1>4. ASSUME NEW i \in DOMAIN a PROVE a[i] \in Range(c)
  <2>1. i \in DOMAIN c /\ c[i] = a[i]
    BY <1>2
  <2> QED BY <2>1 DEF Range
<1>5. ASSUME NEW i \in DOMAIN b PROVE b[i] \in Range(c)
  <2>1. i + m \in DOMAIN c /\ c[i + m] = b[i]
    BY <1>2
  <2> QED BY <2>1 DEF Range
<1>6. Range(c) = Range(a) \cup Range(b)
  BY <1>2, <1>3, <1>4, <1>5 DEF Range
<1> QED BY <1>1, <1>6 DEF c

\* What stands in a sequence of sequences.
LEMMA FlattenRange ==
    ASSUME NEW S, NEW n \in Nat, NEW ss, ss = [k \in 1 .. n |-> ss[k]], \A k \in 1 .. n : ss[k] \in Seq(S)
    PROVE  FlattenSeq(ss) \in Seq(S) /\ Range(FlattenSeq(ss)) = UNION {Range(ss[k]) : k \in 1 .. n}
<1>1. ss \in Seq(Seq(S)) /\ Len(ss) = n
  <2>1. ss \in Seq(Seq(S))
    BY IsASeq
  <2>2. DOMAIN ss = 1 .. n
    OBVIOUS
  <2> QED BY <2>1, <2>2, LenProperties
<1>2. CASE n = 0
  <2>1. ss = <<>>
    BY <1>1, <1>2, EmptySeq
  <2>2. FlattenSeq(ss) = <<>>
    BY <1>1, <1>2, <2>1, Zenon DEF FlattenSeq
  <2>3. Range(<<>>) = {} /\ <<>> \in Seq(S)
    BY DEF Range
  <2>4. UNION {Range(ss[k]) : k \in 1 .. n} = {}
    BY <1>2
  <2> QED BY <2>2, <2>3, <2>4
<1>3. CASE n # 0
  <2>1. PICK f : Flattens(f, ss, n)
    BY <1>1, <1>3, FlattenUnfolds
  <2> DEFINE Upto(i) == UNION {Range(ss[k]) : k \in 1 .. i}
             Right(i) == f[i] \in Seq(S) /\ Range(f[i]) = Upto(i)
             Good == {i \in Nat : i \in 1 .. n => Right(i)}
  <2>2. ASSUME NEW i \in 1 .. n, i - 1 \in Good PROVE i \in Good
    <3>1. CASE i = 1
      <4>1. f[1] = ss[1] /\ ss[1] \in Seq(S)
        BY <2>1, <3>1 DEF Flattens
      <4>2. Upto(1) = Range(ss[1])
        <5>1. \A k : k \in 1 .. 1 <=> k = 1
          OBVIOUS
        <5> QED BY <5>1
      <4> HIDE DEF Upto
      <4> QED BY <3>1, <4>1, <4>2
    <3>2. CASE i # 1
      <4>0. i - 1 \in 1 .. n /\ i - 1 \in Nat
        BY <3>2
      <4>1. Right(i - 1)
        BY <2>2, <4>0
      <4>2. f[i] = f[i - 1] \o ss[i] /\ ss[i] \in Seq(S)
        BY <2>1, <3>2 DEF Flattens
      <4>3. Upto(i) = Upto(i - 1) \cup Range(ss[i])
        <5>1. \A k : k \in 1 .. i <=> k \in 1 .. i - 1 \/ k = i
          BY <4>0
        <5> QED BY <5>1
      <4> HIDE DEF Upto
      <4>4. f[i] \in Seq(S) /\ Range(f[i]) = Range(f[i - 1]) \cup Range(ss[i])
        BY <4>1, <4>2, ConcatRange
      <4>5. Right(i)
        BY <4>1, <4>3, <4>4
      <4> HIDE DEF Right
      <4> QED BY <4>5
    <3> QED BY <3>1, <3>2
  <2>3. 0 \in Good
    OBVIOUS
  <2> HIDE DEF Good
  <2>4. n \in Good
    BY <2>2, <2>3, UpTo
  <2> USE DEF Good
  <2>5. Right(n)
    BY <1>3, <2>4
  <2> QED BY <2>1, <2>5 DEF Flattens
<1> QED BY <1>2, <1>3

\* What reading a value may report.
ValueCodes == {"value_invalid", "value_out_of_range", "map_value_invalid", "map_name_mismatch"}
\* It reports nothing else.
LEMMA ReadValueSays == \A type, v : read_value(type, v) \in ValueCodes \cup {""}
<1> SUFFICES ASSUME NEW type, NEW v PROVE read_value(type, v) \in ValueCodes \cup {""}
  BY Zenon
<1>1. /\ parse_unsigned_value(v) \in ValueCodes \cup {""} /\ parse_double_value(v) \in ValueCodes \cup {""}
      /\ parse_boolean_value(v) \in ValueCodes \cup {""} /\ parse_map_double(v) \in ValueCodes \cup {""}
      /\ load_ground(v) \in ValueCodes \cup {""} /\ "map_name_mismatch" \in ValueCodes
  BY DEF parse_unsigned_value, parse_double_value, parse_boolean_value, parse_map_double, load_ground, ValueCodes
<1> QED BY <1>1, Zenon DEF read_value

\* A sequence over a set, and what stands in it.
Lists(q, S, X) == q \in Seq(S) /\ Range(q) = X

\* What stands in a sequence stands at one of its indexes.
LEMMA SeqShape ==
    ASSUME NEW S, NEW q \in Seq(S)
    PROVE  /\ DOMAIN q = 1 .. Len(q) /\ Len(q) \in Nat
           /\ \A k \in 1 .. Len(q) : q[k] \in Range(q)
           /\ \A f : f \in Range(q) <=> \E k \in 1 .. Len(q) : f = q[k]
<1>1. DOMAIN q = 1 .. Len(q) /\ Len(q) \in Nat
  OBVIOUS
<1>2. \A f : f \in Range(q) <=> \E k \in 1 .. Len(q) : f = q[k]
  BY <1>1 DEF Range
<1> QED BY <1>1, <1>2

\* A sequence is what it has at its indexes.
LEMMA SeqMade ==
    ASSUME NEW S, NEW n \in Nat, NEW q, q = [k \in 1 .. n |-> q[k]], \A k \in 1 .. n : q[k] \in S
    PROVE  q \in Seq(S)
BY IsASeq

\* The fields of the plain sections, in order.
LEMMA PlainPart ==
    ASSUME NEW F, NEW fields \in Seq(F), NEW S, \A f \in Range(fields) : <<<<f.section, "">>, f>> \in S,
           NEW plain, plain = [k \in DOMAIN fields |-> <<<<fields[k].section, "">>, fields[k]>>]
    PROVE  Lists(plain, S, {<<<<f.section, "">>, f>> : f \in Range(fields)})
<1> DEFINE n == Len(fields)
<1>1. DOMAIN fields = 1 .. n /\ n \in Nat
  BY SeqShape, Zenon
<1>0. \A f \in Range(fields) : \E k \in 1 .. n : f = fields[k]
  BY SeqShape, Zenon
<1> HIDE DEF n
<1>2. plain = [k \in 1 .. n |-> plain[k]]
  BY <1>1, Zenon
<1>3. \A k \in 1 .. n : plain[k] = <<<<fields[k].section, "">>, fields[k]>> /\ fields[k] \in Range(fields)
  BY <1>1, Zenon DEF Range
<1>4. \A k \in 1 .. n : plain[k] \in S
  BY <1>3, Zenon
<1>5. plain \in Seq(S)
  BY <1>1, <1>2, <1>4, SeqMade, Zenon
<1>6. DOMAIN plain = 1 .. n
  BY <1>1, Zenon
<1>7. ASSUME NEW x PROVE x \in Range(plain) <=> \E f \in Range(fields) : x = <<<<f.section, "">>, f>>
  <2>1. x \in Range(plain) <=> \E k \in 1 .. n : x = plain[k]
    BY <1>6, Zenon DEF Range
  <2>2. ASSUME NEW k \in 1 .. n, x = plain[k] PROVE \E f \in Range(fields) : x = <<<<f.section, "">>, f>>
    BY <1>3, <2>2, Zenon
  <2>3. ASSUME NEW f \in Range(fields), x = <<<<f.section, "">>, f>> PROVE \E k \in 1 .. n : x = plain[k]
    BY <1>0, <1>3, <2>3, Zenon
  <2> QED BY <2>1, <2>2, <2>3, Zenon
<1>8. Range(plain) = {<<<<f.section, "">>, f>> : f \in Range(fields)}
  BY <1>7, Zenon
<1> QED BY <1>5, <1>8, Zenon DEF Lists

\* The fields of an instance, in order.
LEMMA RowPart ==
    ASSUME NEW F, NEW families \in Seq(F), NEW i, NEW S, \A f \in Range(families) : <<i, f>> \in S,
           NEW r, r = [m \in DOMAIN families |-> IF families[m].section = i[1] THEN <<<<i, families[m]>>>> ELSE <<>>]
    PROVE  Lists(FlattenSeq(r), S, {<<i, f>> : f \in {g \in Range(families) : g.section = i[1]}})
<1> DEFINE n == Len(families)
<1>1. DOMAIN families = 1 .. n /\ n \in Nat
  BY SeqShape, Zenon
<1>0. \A f \in Range(families) : \E k \in 1 .. n : f = families[k]
  BY SeqShape, Zenon
<1> HIDE DEF n
<1>2. r = [m \in 1 .. n |-> r[m]]
  BY <1>1
<1>3. \A m \in 1 .. n : families[m] \in Range(families)
  BY <1>1 DEF Range
<1>4. ASSUME NEW m \in 1 .. n
      PROVE  Lists(r[m], S, IF families[m].section = i[1] THEN {<<i, families[m]>>} ELSE {})
  <2> DEFINE p == <<i, families[m]>>
  <2>1. p \in S
    BY <1>3, Zenon
  <2>2. r[m] = IF families[m].section = i[1] THEN <<p>> ELSE <<>>
    BY <1>1
  <2> HIDE DEF p
  <2>3. DOMAIN <<p>> = {1} /\ <<p>>[1] = p /\ <<p>> \in Seq(S) /\ <<>> \in Seq(S) /\ DOMAIN <<>> = {}
    BY <2>1
  <2>4. Range(<<p>>) = {p} /\ Range(<<>>) = {}
    BY <2>3 DEF Range
  <2>5. Lists(<<p>>, S, {p}) /\ Lists(<<>>, S, {})
    BY <2>3, <2>4 DEF Lists
  <2> QED BY <2>2, <2>5, Zenon DEF p
<1>5. \A m \in 1 .. n : r[m] \in Seq(S)
  BY <1>4 DEF Lists
<1>6. FlattenSeq(r) \in Seq(S) /\ Range(FlattenSeq(r)) = UNION {Range(r[m]) : m \in 1 .. n}
  <2> HIDE DEF Lists
  <2> QED BY ONLY <1>1, <1>2, <1>5, FlattenRange
<1>7. ASSUME NEW x PROVE x \in UNION {Range(r[m]) : m \in 1 .. n} <=> \E f \in {g \in Range(families) : g.section = i[1]} : x = <<i, f>>
  <2>1. ASSUME NEW m \in 1 .. n, x \in Range(r[m]) PROVE families[m].section = i[1] /\ x = <<i, families[m]>>
    <3> DEFINE p == <<i, families[m]>>
               X == IF families[m].section = i[1] THEN {p} ELSE {}
    <3>1. x \in X
      BY <1>4, <2>1, Zenon DEF Lists
    <3> HIDE DEF p
    <3>2. families[m].section = i[1] /\ x = p
      BY <3>1, Zenon
    <3> QED BY <3>2 DEF p
  <2>2. ASSUME NEW f \in Range(families), f.section = i[1], x = <<i, f>> PROVE \E m \in 1 .. n : x \in Range(r[m])
    <3>1. PICK m \in 1 .. n : f = families[m]
      BY <1>0, Zenon
    <3>2. x \in Range(r[m])
      <4>1. Lists(r[m], S, {<<i, families[m]>>})
        BY <1>4, <2>2, <3>1, Zenon
      <4> QED BY <2>2, <3>1, <4>1, Zenon DEF Lists
    <3> QED BY <3>2
  <2> QED BY <1>3, <2>1, <2>2
<1>8. UNION {Range(r[m]) : m \in 1 .. n} = {<<i, f>> : f \in {g \in Range(families) : g.section = i[1]}}
  BY <1>7
<1> QED BY <1>6, <1>8 DEF Lists

\* The fields a document is read for are those that are wanted.
LEMMA FieldsAreWanted ==
    ASSUME IsSchema(schema), NEW t, NEW d, \E S : d.instances \in Seq(S), Range(d.instances) = InstanceNames(t)
    PROVE  \E S : Lists(FieldsInOrder(d), S, WantedIn(schema, t))
<1>1. PICK F : schema.fields \in Seq(F) /\ schema.families \in Seq(F)
  BY Zenon DEF IsSchema
<1>2. PICK N : d.instances \in Seq(N)
  OBVIOUS
<1> DEFINE fields == schema.fields
           families == schema.families
           names == d.instances
           plain == [k \in DOMAIN fields |-> <<<<fields[k].section, "">>, fields[k]>>]
           row(i) == [m \in DOMAIN families |-> IF families[m].section = i[1] THEN <<<<i, families[m]>>>> ELSE <<>>]
           rows == [k \in DOMAIN names |-> FlattenSeq(row(names[k]))]
           P == {<<f.section, "">> : f \in Range(fields)} \cup Range(names)
           Q == Range(fields) \cup Range(families)
           S == P \X Q
           n == Len(names)
           of(i) == {<<i, f>> : f \in FamilyFields(i)}
           PlainOnes == {<<<<f.section, "">>, f>> : f \in Range(fields)}
<1>3. FieldsInOrder(d) = plain \o FlattenSeq(rows)
  BY Zenon DEF FieldsInOrder
<1>4. /\ \A f \in Range(fields) : <<f.section, "">> \in P /\ f \in Q
      /\ \A i \in Range(names) : i \in P
      /\ \A f \in Range(families) : f \in Q
  BY Zenon
<1>5. DOMAIN names = 1 .. n /\ n \in Nat
  BY <1>2
<1>6. WantedIn(schema, t) = PlainOnes \cup UNION {of(i) : i \in Range(names)}
  <2>1. WantedIn(schema, t) = PlainOnes \cup UNION {of(t[k].section) : k \in InstancesIn(t)}
    BY Zenon DEF WantedIn, FamilyIn, FamilyFields
  <2>2. Range(names) = {t[k].section : k \in InstancesIn(t)}
    BY Zenon DEF InstanceNames
  <2> HIDE DEF of, names, PlainOnes
  <2>3. UNION {of(i) : i \in Range(names)} = UNION {of(t[k].section) : k \in InstancesIn(t)}
    BY <2>2
  <2> QED BY <2>1, <2>3
<1> HIDE DEF P, Q
<1>7. /\ \A f \in Range(fields) : <<<<f.section, "">>, f>> \in S
      /\ \A i \in Range(names) : \A f \in Range(families) : <<i, f>> \in S
  BY <1>4, Zenon
<1> HIDE DEF S
<1>8. Lists(plain, S, PlainOnes)
  BY <1>1, <1>7, PlainPart, Zenon
<1>9. ASSUME NEW k \in 1 .. n PROVE Lists(rows[k], S, of(names[k]))
  <2>1. names[k] \in Range(names)
    BY <1>5, Zenon DEF Range
  <2>2. \A f \in Range(families) : <<names[k], f>> \in S
    BY <1>7, <2>1, Zenon
  <2> DEFINE i == names[k]
             r == row(i)
  <2>3. \A f \in Range(families) : <<i, f>> \in S
    BY <2>2, Zenon
  <2>4. of(i) = {<<i, f>> : f \in {g \in Range(families) : g.section = i[1]}}
    BY Zenon DEF FamilyFields
  <2>5. Lists(FlattenSeq(r), S, {<<i, f>> : f \in {g \in Range(families) : g.section = i[1]}})
    <3>1. r = [m \in DOMAIN families |-> IF families[m].section = i[1] THEN <<<<i, families[m]>>>> ELSE <<>>]
      BY Zenon
    <3> HIDE DEF i, r
    <3> QED BY <1>1, <2>3, <3>1, RowPart, Zenon
  <2>6. rows[k] = FlattenSeq(r)
    BY <1>5, Zenon
  <2> HIDE DEF rows, r, of
  <2> QED BY <2>4, <2>5, <2>6
<1>10. rows = [k \in 1 .. n |-> rows[k]]
  BY <1>5
<1>11. \A i : i \in Range(names) <=> \E k \in 1 .. n : i = names[k]
  BY <1>5 DEF Range
<1> HIDE DEF rows, row, plain, PlainOnes, of, n, names, fields, families
<1>12. FlattenSeq(rows) \in Seq(S) /\ Range(FlattenSeq(rows)) = UNION {Range(rows[k]) : k \in 1 .. n}
  <2>1. \A k \in 1 .. n : rows[k] \in Seq(S)
    BY <1>9 DEF Lists
  <2> QED BY ONLY <1>5, <1>10, <2>1, FlattenRange
<1>13. UNION {Range(rows[k]) : k \in 1 .. n} = UNION {of(i) : i \in Range(names)}
  <2>1. \A k \in 1 .. n : Range(rows[k]) = of(names[k])
    BY <1>9 DEF Lists
  <2> QED BY <1>11, <2>1
<1>14. plain \in Seq(S) /\ Range(plain) = PlainOnes
  BY <1>8 DEF Lists
<1>15. plain \o FlattenSeq(rows) \in Seq(S) /\ Range(plain \o FlattenSeq(rows)) = Range(plain) \cup Range(FlattenSeq(rows))
  BY <1>12, <1>14, ConcatRange
<1>16. Lists(FieldsInOrder(d), S, WantedIn(schema, t))
  BY <1>3, <1>6, <1>12, <1>13, <1>14, <1>15 DEF Lists
<1> QED BY <1>16

\* The values load when every field's value reads, and say what did not.
LEMMA ValuesLoad ==
    ASSUME NEW d, NEW S, NEW W, Lists(FieldsInOrder(d), S, W)
    PROVE  /\ load_values(d) = "" <=> \A w \in W : read_value(w[2].type, d.values[<<w[1], w[2].key>>]) = ""
           /\ load_values(d) \in ValueCodes \cup {""}
<1> DEFINE q == FieldsInOrder(d)
           n == Len(q)
           says(w) == read_value(w[2].type, d.values[<<w[1], w[2].key>>])
           verdicts == [k \in DOMAIN q |-> says(q[k])]
           Bad == {k \in 1 .. Len(verdicts) : verdicts[k] # ""}
           bad == IF Bad # {} THEN Min(Bad) ELSE 0
<1>1. q \in Seq(S) /\ Range(q) = W
  BY DEF Lists
<1>2. /\ DOMAIN q = 1 .. n /\ n \in Nat /\ \A k \in 1 .. n : q[k] \in W
      /\ \A w \in W : \E k \in 1 .. n : w = q[k]
  BY <1>1, SeqShape, Zenon
<1>3. load_values(d) = IF bad = 0 THEN "" ELSE verdicts[bad]
  BY Zenon DEF load_values, SelectInSeq
<1>4. \A w : says(w) \in ValueCodes \cup {""}
  BY ReadValueSays, Zenon
<1> HIDE DEF says
<1>5. Len(verdicts) = n
  <2>1. DOMAIN verdicts = 1 .. n
    BY <1>2
  <2>2. verdicts \in Seq({says(q[k]) : k \in 1 .. n})
    <3>1. verdicts = [k \in 1 .. n |-> verdicts[k]] /\ \A k \in 1 .. n : verdicts[k] \in {says(q[j]) : j \in 1 .. n}
      BY <1>2
    <3> HIDE DEF verdicts, n
    <3> QED BY <1>2, <3>1, SeqMade, Zenon
  <2> HIDE DEF verdicts, n, q
  <2> QED BY <1>2, <2>1, <2>2, SeqShape
<1>6. \A k \in 1 .. n : verdicts[k] = says(q[k])
  BY <1>2
<1> HIDE DEF verdicts, q, n
<1>7. Bad = {k \in 1 .. n : says(q[k]) # ""}
  BY <1>5, <1>6, Zenon
<1> HIDE DEF Bad
<1>8. Bad \subseteq Nat /\ 0 \notin Bad /\ Bad \subseteq 1 .. n
  <2>1. Bad \subseteq 1 .. n
    BY <1>7, Zenon
  <2>2. \A k \in 1 .. n : k \in Nat /\ k # 0
    BY ONLY <1>2
  <2> QED BY ONLY <2>1, <2>2
<1>9. CASE Bad = {}
  <2>1. load_values(d) = ""
    BY <1>3, <1>9, Zenon
  <2>2. \A w \in W : says(w) = ""
    BY <1>2, <1>7, <1>9, Zenon
  <2> QED BY <2>1, <2>2, Zenon DEF says
<1>10. CASE Bad # {}
  <2>1. bad \in Bad
    BY <1>8, <1>10, LeastExists
  <2>2. says(q[bad]) # "" /\ bad \in 1 .. n
    BY <1>7, <2>1, Zenon
  <2>3. load_values(d) = says(q[bad])
    BY <1>3, <1>6, <1>8, <2>1, <2>2, Zenon
  <2>4. q[bad] \in W
    BY <1>2, <2>2, Zenon
  <2>5. ~ \A w \in W : says(w) = ""
    BY <2>2, <2>4, Zenon
  <2>6. load_values(d) \in ValueCodes \cup {""}
    BY <1>4, <2>3, Zenon
  <2> QED BY <2>2, <2>3, <2>5, <2>6, Zenon DEF says
<1> QED BY <1>9, <1>10, Zenon

\* The end of a file: a document is required whole exactly when the lines are
\* complete, and what its values report is what reading each pair reports.
LEMMA EndRead ==
    ASSUME IsSchema(schema), NEW t, NEW d, ReadsAs(schema, t, d)
    PROVE  /\ require_all_fields(d) <=> CompleteIn(schema, t)
           /\ require_all_fields(d) => (load_values(d) = "" <=> ReadableIn(schema, t))
           /\ load_values(d) \in ValueCodes \cup {""}
<1>1. ReadsHeaders(schema, t, d) /\ ReadsPairs(schema, t, d)
  BY Zenon DEF ReadsAs
<1>2. PICK S : Lists(FieldsInOrder(d), S, WantedIn(schema, t))
  BY <1>1, FieldsAreWanted DEF ReadsHeaders
<1> DEFINE W == WantedIn(schema, t)
           at(w) == <<w[1], w[2].key>>
           says(w) == read_value(w[2].type, d.values[at(w)])
<1>3. /\ load_values(d) = "" <=> \A w \in W : says(w) = ""
      /\ load_values(d) \in ValueCodes \cup {""}
  BY <1>2, ValuesLoad, Zenon
<1>4. RequiredFields(d) = {at(w) : w \in W}
  <2> DEFINE plain == {<<<<f.section, "">>, f>> : f \in Range(schema.fields)}
             of(i) == {<<i, f>> : f \in FamilyFields(i)}
             keys(i) == {<<i, f.key>> : f \in FamilyFields(i)}
             Names == Range(d.instances)
  <2>1. W = plain \cup UNION {of(i) : i \in Names}
    <3>1. Names = {t[k].section : k \in InstancesIn(t)}
      BY <1>1, Zenon DEF ReadsHeaders, InstanceNames
    <3>2. W = plain \cup UNION {of(t[k].section) : k \in InstancesIn(t)}
      BY Zenon DEF WantedIn, FamilyIn, FamilyFields
    <3> HIDE DEF of, plain, W, Names
    <3> QED BY <3>1, <3>2
  <2>2. RequiredFields(d) = {<<<<f.section, "">>, f.key>> : f \in Range(schema.fields)} \cup UNION {keys(i) : i \in Names}
    BY Zenon DEF RequiredFields
  <2>3. \A i, f : at(<<i, f>>) = <<i, f.key>>
    OBVIOUS
  <2> DEFINE plainkeys == {<<<<f.section, "">>, f.key>> : f \in Range(schema.fields)}
  <2> HIDE DEF W, at
  <2>4. \A x : x \in plainkeys <=> \E w \in plain : x = at(w)
    <3>1. ASSUME NEW x, NEW f \in Range(schema.fields), x = <<<<f.section, "">>, f.key>> PROVE \E w \in plain : x = at(w)
      <4>1. x = at(<<<<f.section, "">>, f>>)
        BY <2>3, <3>1, Zenon
      <4>2. <<<<f.section, "">>, f>> \in plain
        OBVIOUS
      <4> HIDE DEF plain
      <4> QED BY <4>1, <4>2, Zenon
    <3>2. ASSUME NEW x, NEW w \in plain, x = at(w) PROVE x \in plainkeys
      <4>1. PICK f \in Range(schema.fields) : w = <<<<f.section, "">>, f>>
        BY Zenon
      <4>2. x = <<<<f.section, "">>, f.key>>
        BY <2>3, <3>2, <4>1, Zenon
      <4> QED BY <4>2, Zenon
    <3>3. \A x : x \in plainkeys <=> \E f \in Range(schema.fields) : x = <<<<f.section, "">>, f.key>>
      OBVIOUS
    <3> HIDE DEF plain, plainkeys
    <3> QED BY <3>1, <3>2, <3>3, Zenon
  <2>5. \A i : \A x : x \in keys(i) <=> \E w \in of(i) : x = at(w)
    <3> SUFFICES ASSUME NEW i PROVE \A x : x \in keys(i) <=> \E w \in of(i) : x = at(w)
      OBVIOUS
    <3>1. ASSUME NEW x, NEW f \in FamilyFields(i), x = <<i, f.key>> PROVE \E w \in of(i) : x = at(w)
      <4>1. x = at(<<i, f>>)
        BY <2>3, <3>1, Zenon
      <4>2. <<i, f>> \in of(i)
        OBVIOUS
      <4> HIDE DEF of
      <4> QED BY <4>1, <4>2, Zenon
    <3>2. ASSUME NEW x, NEW w \in of(i), x = at(w) PROVE x \in keys(i)
      <4>1. PICK f \in FamilyFields(i) : w = <<i, f>>
        BY Zenon
      <4>2. x = <<i, f.key>>
        BY <2>3, <3>2, <4>1, Zenon
      <4> QED BY <4>2
    <3>3. \A x : x \in keys(i) <=> \E f \in FamilyFields(i) : x = <<i, f.key>>
      OBVIOUS
    <3> HIDE DEF of, keys
    <3> QED BY <3>1, <3>2, <3>3, Zenon
  <2>6. RequiredFields(d) = plainkeys \cup UNION {keys(i) : i \in Names}
    BY <2>2, Zenon
  <2> HIDE DEF keys, of, plain, plainkeys, Names
  <2> QED BY <2>1, <2>4, <2>5, <2>6
<1>5. DOMAIN d.values = {FieldIn(t, k) : k \in PairsIn(t)} /\ \A k \in PairsIn(t) : d.values[FieldIn(t, k)] = t[k].value
  BY <1>1, Zenon DEF ReadsPairs, ValuesIn
<1>6. CompleteIn(schema, t) <=> \A w \in W : \E k \in PairsIn(t) : FieldIn(t, k) = at(w)
  BY Zenon DEF CompleteIn
<1>7. require_all_fields(d) <=> CompleteIn(schema, t)
  <2> HIDE DEF W, at
  <2>1. require_all_fields(d) <=> {at(w) : w \in W} \subseteq {FieldIn(t, k) : k \in PairsIn(t)}
    BY <1>4, <1>5 DEF require_all_fields
  <2> QED BY <1>6, <2>1
<1>8. ReadableIn(schema, t) <=> \A k \in PairsIn(t), w \in W : FieldIn(t, k) = at(w) => read_value(w[2].type, t[k].value) = ""
  <2>1. ReadableIn(schema, t) <=>
           \A k \in PairsIn(t), w \in W : FieldIn(t, k) = at(w) => /\ t[k].value # "" \/ w[2].key \in schema.lists
                                                                   /\ read_value(w[2].type, t[k].value) = ""
    BY Zenon DEF ReadableIn
  <2>2. ASSUME NEW k \in PairsIn(t), NEW w \in W, FieldIn(t, k) = at(w) PROVE t[k].value # "" \/ w[2].key \in schema.lists
    <3>1. t[k].value # "" \/ t[k].key \in schema.lists
      BY <1>1, Zenon DEF ReadsPairs
    <3>2. w[2].key = t[k].key
      BY <2>2 DEF FieldIn
    <3> QED BY <3>1, <3>2, Zenon
  <2> HIDE DEF W, at
  <2> QED BY <2>1, <2>2, Zenon
<1>9. ASSUME require_all_fields(d) PROVE load_values(d) = "" <=> ReadableIn(schema, t)
  <2>1. \A w \in W : \E k \in PairsIn(t) : FieldIn(t, k) = at(w)
    BY <1>6, <1>7, <1>9, Zenon
  <2> DEFINE reads(w, v) == read_value(w[2].type, v) = ""
  <2>2. \A w : says(w) = "" <=> reads(w, d.values[at(w)])
    OBVIOUS
  <2>3. ReadableIn(schema, t) <=> \A k \in PairsIn(t), w \in W : FieldIn(t, k) = at(w) => reads(w, t[k].value)
    BY <1>8, Zenon
  <2> HIDE DEF reads, says, W, at
  <2> QED BY <1>3, <1>5, <2>1, <2>2, <2>3, Zenon
<1> QED BY <1>3, <1>7, <1>9, Zenon

---------------------------------------------------------------------------
(* InputFiles: the reader, from the first line to the last.                *)

\* The reader waits for a file with an empty document, and reads it line by
\* line into one that says those lines.
InputInv ==
    /\ dialect \in {"configuration", "map"}
    /\ text \in Seq(LinesGiven)
    /\ reader \in {"arguments", "file"} => doc = EmptyDocument /\ text = <<>>
    /\ reader = "lines" => ReadsAs(schema, text, doc)
    /\ Exact(schema, reader, doc, text)

\* The schema of either dialect is one.
LEMMA SchemaGiven ==
    ASSUME dialect \in {"configuration", "map"}
    PROVE  IsSchema(schema) /\ LinesOf[dialect] \subseteq LinesGiven
<1>1. NamesGiven(schema.fields) /\ NamesGiven(schema.families) /\ schema.limit \in Nat /\ LinesOf[dialect] \subseteq LinesGiven
  BY InputAssumption DEF schema
<1> DEFINE R == [section : STRING \ {""}, key : STRING \ {""}, type : STRING]
<1>2. schema.fields \in Seq(R) /\ schema.families \in Seq(R)
  BY <1>1, Zenon DEF NamesGiven
<1>3. \A f \in R : f.section # "" /\ f.key # ""
  BY Zenon
<1> HIDE DEF R
<1>4. ASSUME NEW q \in Seq(R), NEW f \in Range(q) PROVE f \in R
  <2>1. PICK k \in 1 .. Len(q) : f = q[k]
    BY SeqShape, Zenon
  <2> QED BY <2>1
<1>5. \A f \in Range(schema.fields) \cup Range(schema.families) : f.section # "" /\ f.key # ""
  BY <1>2, <1>3, <1>4, Zenon
<1> QED BY <1>1, <1>2, <1>5, Zenon DEF IsSchema

\* The empty document says no lines.
LEMMA EmptyReads ==
    ASSUME NEW s, IsSchema(s)
    PROVE  ReadsAs(s, <<>>, EmptyDocument)
<1> DEFINE t == <<>>
           d == EmptyDocument
<1>1. /\ IsDocument(d) /\ d.error = "" /\ d.cursor = NoSection /\ d.seen = {} /\ d.instances = <<>> /\ d.values = <<>>
  BY DEF EmptyDocument, IsDocument
<1>2. t \in Seq({}) /\ Len(t) = 0 /\ DOMAIN t = {}
  OBVIOUS
<1> HIDE DEF t, d
<1>3. HeadersIn(t) = {} /\ PairsIn(t) = {} /\ InstancesIn(t) = {}
  BY <1>2 DEF HeadersIn, PairsIn, InstancesIn
<1>4. SectionIn(t, Len(t) + 1) = NoSection
  <2>1. IsAbove(t, 1, 0)
    BY <1>3 DEF IsAbove
  <2>2. AboveIn(t, 1) = 0
    <3>1. 1 \in 1 .. Len(t) + 1
      BY <1>2
    <3> QED BY <1>2, <2>1, <3>1, AboveExists
  <2> QED BY <1>2, <2>2 DEF SectionIn
<1>5. PlainHeaders(t) = {} /\ InstanceNames(t) = {}
  BY <1>3 DEF PlainHeaders, InstanceNames
<1>6. Range(d.instances) = {} /\ Len(d.instances) = 0 /\ d.instances \in Seq({})
  <2>1. DOMAIN <<>> = {} /\ Len(<<>>) = 0 /\ <<>> \in Seq({})
    OBVIOUS
  <2>2. Range(<<>>) = {}
    BY <2>1 DEF Range
  <2> QED BY <1>1, <2>1, <2>2, Zenon
<1>7. Cardinality(InstancesIn(t)) = 0 /\ 0 <= s.limit
  <2>1. s.limit \in Nat
    BY Zenon DEF IsSchema
  <2>2. Cardinality(InstancesIn(t)) = 0
    BY <1>3, FS_EmptySet, Zenon
  <2>3. 0 <= s.limit
    BY ONLY <2>1
  <2> QED BY <2>2, <2>3
<1>8. KnownSectionsIn(s, t) /\ SectionsOnceIn(t) /\ KnownKeysIn(s, t) /\ KeysOnceIn(t)
  BY <1>3 DEF KnownSectionsIn, SectionsOnceIn, KnownKeysIn, KeysOnceIn
<1>9. ReadsHeaders(s, t, d)
  BY <1>1, <1>4, <1>5, <1>6, <1>7, <1>8, Zenon DEF ReadsHeaders
<1>10. ReadsPairs(s, t, d)
  <2>1. DOMAIN <<>> = {}
    OBVIOUS
  <2> QED BY <1>1, <1>3, <1>8, <2>1, Zenon DEF ReadsPairs, ValuesIn
<1>11. WellFormedIn(t)
  BY <1>2 DEF WellFormedIn
<1> QED BY <1>1, <1>9, <1>10, <1>11, Zenon DEF ReadsAs, t, d

\* What the reader says before it reads a line, and of a table, is of no line.
QuietCodes ==
    {"arguments", "file", "lines", "help", "command_line_invalid", "file_missing", "not_regular_file", "file_too_large",
     "file_read_failed", "map_header_invalid", "map_row_empty", "map_row_too_long", "map_column_count_invalid",
     "map_row_value_invalid"}
\* The property asks nothing of them.
LEMMA QuietCodesAreExact == \A r \in QuietCodes : \A s, d, t : Exact(s, r, d, t)
BY DEF QuietCodes, Exact, ParseErrors

\* What reading a table may report.
TableCodes ==
    {"map_header_invalid", "map_row_empty", "map_row_too_long", "map_column_count_invalid", "map_row_value_invalid"}
\* It reports nothing else.
LEMMA TableSays ==
    ASSUME NEW rows \in Seq(RowsGiven)
    PROVE  read_csv(rows) \in TableCodes \cup {""}
<1> DEFINE n == Len(rows)
           says(k) == IF k = 1 THEN "" ELSE row_verdict(rows[k], k = n)
           verdicts == [k \in DOMAIN rows |-> says(k)]
           Bad == {k \in 1 .. Len(verdicts) : verdicts[k] # ""}
           bad == IF Bad # {} THEN Min(Bad) ELSE 0
           R == RowsGiven
<1>1. DOMAIN rows = 1 .. n /\ n \in Nat /\ \A k \in 1 .. n : rows[k] \in R
  <2>1. rows \in Seq(R)
    OBVIOUS
  <2> HIDE DEF R
  <2> QED BY <2>1
<1>2. ASSUME NEW row \in R, NEW last \in BOOLEAN PROVE row_verdict(row, last) \in TableCodes \cup {""}
  BY Zenon DEF RowsGiven, row_verdict, TableCodes
<1>3. \A k \in 1 .. n : says(k) \in TableCodes \cup {""}
  BY <1>1, <1>2, Zenon
<1> HIDE DEF R, says
<1>4. Len(verdicts) = n
  <2> DEFINE Said == {says(k) : k \in 1 .. n}
  <2>1. verdicts = [k \in 1 .. n |-> verdicts[k]] /\ DOMAIN verdicts = 1 .. n
    BY <1>1
  <2>2. \A k \in 1 .. n : verdicts[k] \in Said
    BY <1>1
  <2> HIDE DEF verdicts, n, Said
  <2>3. verdicts \in Seq(Said)
    BY <1>1, <2>1, <2>2, SeqMade, Zenon
  <2> QED BY <1>1, <2>1, <2>3, SeqShape
<1>5. \A k \in 1 .. n : verdicts[k] = says(k)
  BY <1>1
<1>6. read_csv(rows) = IF rows = <<>> \/ Head(rows) # "header" THEN "map_header_invalid"
                       ELSE IF bad = 0 THEN "" ELSE verdicts[bad]
  BY Zenon DEF read_csv, SelectInSeq, says
<1> HIDE DEF verdicts, n, Bad
<1>7. Bad \subseteq 1 .. n /\ Bad \subseteq Nat /\ 0 \notin Bad
  <2>1. Bad \subseteq 1 .. n
    BY <1>4, Zenon DEF Bad
  <2>2. \A k \in 1 .. n : k \in Nat /\ k # 0
    BY ONLY <1>1
  <2> QED BY ONLY <2>1, <2>2
<1>8. bad = 0 \/ bad \in 1 .. n
  BY <1>7, LeastExists
<1>9. "map_header_invalid" \in TableCodes
  BY DEF TableCodes
<1> QED BY <1>3, <1>5, <1>6, <1>8, <1>9, Zenon

\* Every step keeps it.
LEMMA InputInvInductive ==
    ASSUME InputInv, [InputNext]_inputVars
    PROVE  InputInv'
<1>0. /\ dialect \in {"configuration", "map"} /\ text \in Seq(LinesGiven)
      /\ reader \in {"arguments", "file"} => doc = EmptyDocument /\ text = <<>>
      /\ reader = "lines" => ReadsAs(schema, text, doc)
      /\ Exact(schema, reader, doc, text)
  BY DEF InputInv
<1>1. IsSchema(schema) /\ LinesOf[dialect] \subseteq LinesGiven
  BY <1>0, SchemaGiven
<1>2. dialect' = dialect
  BY Zenon DEF InputNext, inputVars, ReadArguments, ReadFile, ParseLine, EndOfFile, ReadTables
<1>3. schema' = schema
  BY <1>2 DEF schema
<1>4. \A r \in QuietCodes : \A d, t : Exact(schema, r, d, t)
  BY QuietCodesAreExact, Zenon
<1>5. CASE UNCHANGED inputVars
  BY <1>0, <1>3, <1>5 DEF inputVars, InputInv
<1>6. CASE ReadArguments
  <2>1. reader' \in {"help", "command_line_invalid", "file"} /\ reader = "arguments" /\ doc' = doc /\ text' = text
    BY <1>6, Zenon DEF ReadArguments, arguments_verdict
  <2>2. reader' \in QuietCodes /\ reader' # "lines"
    BY <2>1 DEF QuietCodes
  <2> QED BY <1>0, <1>2, <1>3, <1>4, <2>1, <2>2 DEF InputInv
<1>7. CASE ReadFile
  <2>1. /\ reader' \in {"file_missing", "not_regular_file", "file_too_large", "file_read_failed", "lines"}
        /\ reader = "file" /\ doc' = doc /\ text' = text
    BY <1>7 DEF ReadFile, file_verdict
  <2>2. reader' \in QuietCodes /\ reader' \notin {"arguments", "file"}
    BY <2>1 DEF QuietCodes
  <2>3. ReadsAs(schema, text, doc)
    BY <1>0, <1>1, <2>1, EmptyReads
  <2> QED BY <1>0, <1>2, <1>3, <1>4, <2>1, <2>2, <2>3 DEF InputInv
<1>8. CASE ParseLine
  <2>1. reader = "lines" /\ reader' = IF doc'.error # "" THEN doc'.error ELSE "lines"
    BY <1>8, Zenon DEF ParseLine
  <2>2. PICK l \in LinesOf[dialect] : text' = Append(text, l) /\ doc' = parse_line(doc, l)
    BY <1>8, Zenon DEF ParseLine
  <2>3. l \in LinesGiven
    BY <1>1
  <2>4. Outcome(schema, text', doc')
    BY <1>0, <1>1, <2>1, <2>2, <2>3, LineRead, Zenon
  <2>5. text' \in Seq(LinesGiven)
    BY <1>0, <2>2, <2>3, IsLonger, Zenon
  <2>6. CASE doc'.error = "" /\ ReadsAs(schema, text', doc')
    <3>1. reader' = "lines"
      BY <2>1, <2>6, Zenon
    <3>2. "lines" \in QuietCodes
      BY DEF QuietCodes
    <3> QED BY <1>0, <1>2, <1>3, <1>4, <2>5, <2>6, <3>1, <3>2, Zenon DEF InputInv
  <2>7. CASE doc'.error \in ParseErrors \cup {"map_value_invalid"} /\ ~ ExtensibleIn(schema, text')
    <3>1. reader' \in ParseErrors \cup {"map_value_invalid"}
      BY <2>1, <2>7, Zenon DEF ParseErrors
    <3>2. reader' \notin {"arguments", "file", "lines", "accepted", "tables", "key_missing"}
      BY <3>1 DEF ParseErrors
    <3>3. Exact(schema, reader', doc', text')
      BY <2>7, <3>2 DEF Exact
    <3> QED BY <1>0, <1>2, <1>3, <2>5, <3>2, <3>3 DEF InputInv
  <2> QED BY <2>4, <2>6, <2>7, Zenon DEF Outcome
<1>9. CASE EndOfFile
  <2>1. /\ reader = "lines" /\ doc' = doc /\ text' = text
        /\ reader' = IF ~ require_all_fields(doc) THEN error_code("key_missing")
                     ELSE IF load_values(doc) # "" THEN load_values(doc)
                     ELSE IF dialect = "map" THEN "tables" ELSE "accepted"
    BY <1>9, Zenon DEF EndOfFile
  <2>2. ReadsAs(schema, text, doc)
    BY <1>0, <2>1, Zenon
  <2>3. /\ require_all_fields(doc) <=> CompleteIn(schema, text)
        /\ require_all_fields(doc) => (load_values(doc) = "" <=> ReadableIn(schema, text))
        /\ load_values(doc) \in ValueCodes \cup {""}
    BY <1>1, <2>2, EndRead, Zenon
  <2>4. SUFFICES reader' \notin {"arguments", "file", "lines"} /\ Exact(schema, reader', doc, text)
    BY <1>0, <1>2, <1>3, <2>1, Zenon DEF InputInv
  <2>5. CASE ~ require_all_fields(doc)
    <3>1. reader' \in {"key_missing", "map_value_invalid"}
      BY <2>1, <2>5 DEF error_code
    <3> QED BY <2>3, <2>5, <3>1, Zenon DEF Exact, ParseErrors
  <2>6. CASE require_all_fields(doc) /\ load_values(doc) # ""
    <3>1. reader' \in ValueCodes /\ ~ ReadableIn(schema, text)
      BY <2>1, <2>3, <2>6, Zenon
    <3>2. ~ ExtensibleIn(schema, text)
      BY <3>1 DEF ExtensibleIn
    <3> QED BY <3>1, <3>2 DEF Exact, ParseErrors, ValueCodes
  <2>7. CASE require_all_fields(doc) /\ load_values(doc) = ""
    <3>1. reader' \in {"tables", "accepted"}
      BY <2>1, <2>7, Zenon
    <3>2. CompleteIn(schema, text) /\ ReadableIn(schema, text)
      BY <2>3, <2>7, Zenon
    <3>3. /\ WellFormedIn(text) /\ KnownSectionsIn(schema, text) /\ SectionsOnceIn(text)
          /\ Cardinality(InstancesIn(text)) <= schema.limit
          /\ KnownKeysIn(schema, text) /\ KeysOnceIn(text) /\ ValuesIn(doc, text)
      BY <2>2, Zenon DEF ReadsAs, ReadsHeaders, ReadsPairs
    <3>4. ExtensibleIn(schema, text)
      BY <3>2, <3>3 DEF ExtensibleIn
    <3> QED BY <3>1, <3>2, <3>3, <3>4 DEF Exact, ParseErrors
  <2> QED BY <2>5, <2>6, <2>7, Zenon
<1>10. CASE ReadTables
  <2>1. reader = "tables" /\ doc' = doc /\ text' = text
    BY <1>10, Zenon DEF ReadTables
  <2>2. PICK bodies \in Tables, markers \in Tables :
           reader' = IF read_csv(bodies) # "" THEN read_csv(bodies)
                     ELSE IF read_csv(markers) # "" THEN read_csv(markers) ELSE "accepted"
    BY <1>10, Zenon DEF ReadTables
  <2>3. bodies \in Seq(RowsGiven) /\ markers \in Seq(RowsGiven)
    BY InputAssumption
  <2>4. read_csv(bodies) \in TableCodes \cup {""} /\ read_csv(markers) \in TableCodes \cup {""}
    BY <2>3, TableSays, Zenon
  <2>5. reader' \in TableCodes \cup {"accepted"}
    BY <2>2, <2>4, Zenon
  <2>6. CASE reader' = "accepted"
    <3>1. Exact(schema, "accepted", doc, text)
      BY <1>0, <2>1 DEF Exact, ParseErrors
    <3> QED BY <1>0, <1>2, <1>3, <2>1, <2>6, <3>1 DEF InputInv
  <2>7. CASE reader' \in TableCodes
    <3>1. reader' \in QuietCodes /\ reader' \notin {"arguments", "file", "lines"}
      BY <2>7 DEF TableCodes, QuietCodes
    <3> QED BY <1>0, <1>2, <1>3, <1>4, <2>1, <3>1 DEF InputInv
  <2> QED BY <2>5, <2>6, <2>7
<1> QED BY <1>5, <1>6, <1>7, <1>8, <1>9, <1>10 DEF InputNext

\* Whatever the schemas, the lines, the files and the tables, an input is
\* accepted exactly when it should be, and refused at a line no later line can
\* repair.
THEOREM InputsAlwaysExact == InputSpec => []ParseIsExact
<1>1. InputInit({"configuration", "map"}) => InputInv
  <2> SUFFICES ASSUME InputInit({"configuration", "map"}) PROVE InputInv
    OBVIOUS
  <2>1. /\ dialect \in {"configuration", "map"} /\ reader \in {"arguments", "file"}
        /\ doc = EmptyDocument /\ text = <<>>
    BY DEF InputInit
  <2>2. reader \in QuietCodes /\ reader # "lines"
    BY <2>1 DEF QuietCodes
  <2> DEFINE L == LinesGiven
  <2> HIDE DEF L
  <2>3. text \in Seq(L)
    BY <2>1
  <2> QED BY <2>1, <2>2, <2>3, QuietCodesAreExact DEF InputInv, L
<1>2. InputInv /\ [InputNext]_inputVars => InputInv'
  BY InputInvInductive
<1>3. InputInv => ParseIsExact
  BY ExactIs DEF InputInv
<1> QED BY <1>1, <1>2, <1>3, PTL DEF InputSpec

---------------------------------------------------------------------------
(* Terrain: what is accepted of a map is fit for the welcome.              *)

\* A point of the map, as the wire has it.
LEMMA PointsConform ==
    ASSUME NEW x \in Int, NEW extent \in Int, extent > 0, extent <= MaximumWorldDimension, Value(x) \in 0 .. extent
    PROVE  /\ encode_json_number(x) # NegativeZero
           /\ encode_json_number(x) >= 0 /\ encode_json_number(x) <= extent /\ encode_json_number(x) <= MaximumWorldDimension
BY TerrainAssumption DEF encode_json_number, Value, NegativeZero

\* An extent, as the wire has it.
LEMMA ExtentsConform ==
    ASSUME NEW x \in Int, require_terrain_extent(x)
    PROVE  /\ terrain_number(encode_json_number(x), TRUE)
           /\ encode_json_number(x) = x /\ x > 0 /\ x <= MaximumWorldDimension
BY TerrainAssumption DEF encode_json_number, Value, NegativeZero, require_terrain_extent, terrain_number

\* A corridor, as the wire has it.
EncodedCorridor(c) ==
    [name |-> c.name, half_width |-> encode_json_number(c.half_width),
     points |-> [p \in DOMAIN c.points |-> encode_json_number(c.points[p])]]
CorridorConforms(extent, c) ==
    /\ terrain_number(c.half_width, TRUE) /\ Len(c.points) >= 2
    /\ \A p \in DOMAIN c.points : terrain_number(c.points[p], FALSE) /\ c.points[p] <= extent
    /\ \A p \in 2 .. Len(c.points) : c.points[p] # c.points[p - 1]
CorridorKept(extent, c, e) ==
    /\ CorridorConforms(extent, e) /\ Len(e.points) = Len(c.points) /\ e.name = c.name
    /\ \A p \in DOMAIN e.points : e.points[p] # NegativeZero
\* It is as it should be.
LEMMA CorridorsConform ==
    ASSUME NEW extent \in Int, extent > 0, extent <= MaximumWorldDimension,
           NEW c, c.half_width \in Int, c.points \in Seq(Int), corridor_accepted(c),
           \A p \in DOMAIN c.points : Value(c.points[p]) \in 0 .. extent
    PROVE  CorridorKept(extent, c, EncodedCorridor(c))
<1> DEFINE q == c.points
           n == Len(q)
           e == [p \in DOMAIN q |-> encode_json_number(q[p])]
<1>1. q \in Seq(Int) /\ n \in Nat /\ DOMAIN q = 1 .. n /\ \A p \in 1 .. n : q[p] \in Int /\ Value(q[p]) \in 0 .. extent
  BY SeqShape
<1>2. /\ EncodedCorridor(c).name = c.name /\ EncodedCorridor(c).points = e
      /\ EncodedCorridor(c).half_width = encode_json_number(c.half_width)
  BY Zenon DEF EncodedCorridor
<1>3. /\ n >= 2 /\ require_terrain_extent(c.half_width)
      /\ \A p \in 2 .. n : Value(q[p]) # Value(q[p - 1])
  BY DEF corridor_accepted
<1>4. DOMAIN e = 1 .. n /\ \A p \in 1 .. n : e[p] = encode_json_number(q[p])
  BY <1>1
<1> HIDE DEF e, n, q
<1>5. \A p \in 1 .. n : e[p] # NegativeZero /\ terrain_number(e[p], FALSE) /\ e[p] <= extent
  BY <1>1, <1>4, PointsConform DEF terrain_number
<1>6. e \in Seq({e[p] : p \in 1 .. n})
  <2>1. e = [p \in 1 .. n |-> e[p]]
    BY <1>4 DEF e, q
  <2> QED BY <1>1, <2>1, SeqMade
<1>7. Len(e) = n
  BY <1>1, <1>4, <1>6, SeqShape
<1>8. \A p \in 2 .. n : e[p] # e[p - 1]
  BY <1>1, <1>3, <1>4 DEF encode_json_number
<1>9. terrain_number(encode_json_number(c.half_width), TRUE)
  BY <1>3, ExtentsConform
<1> QED BY <1>2, <1>3, <1>4, <1>5, <1>7, <1>8, <1>9 DEF CorridorConforms, CorridorKept, q, n

\* An accepted map's welcome conforms.
LEMMA WelcomeConforms ==
    ASSUME NEW t, TerrainGiven(t), terrain_accepted(t)
    PROVE  welcome_terrain_conforms(encode_terrain(t)) /\ ~ has_negative_zero_token(encode_terrain(t))
<1> DEFINE u == encode_terrain(t)
           cs == t.corridors
           hs == t.holes
           n == Len(cs)
           m == Len(hs)
           C == [name : STRING, half_width : Int, points : Seq(Int)]
           H == [name : STRING, center : Int, radius : Int]
           of(h) == [name |-> h.name, center |-> encode_json_number(h.center), radius |-> encode_json_number(h.radius)]
<1>1. /\ u.extent = encode_json_number(t.extent) /\ u.ground = t.ground
      /\ u.corridors = [i \in DOMAIN cs |-> EncodedCorridor(cs[i])] /\ u.holes = [i \in DOMAIN hs |-> of(hs[i])]
  BY Zenon DEF encode_terrain, EncodedCorridor
<1>2. t.extent \in Int /\ t.ground \in {"solid", "corridors"} /\ cs \in Seq(C) /\ hs \in Seq(H)
  BY DEF TerrainGiven
<1>3. /\ \A c \in C : c.half_width \in Int /\ c.points \in Seq(Int)
      /\ \A h \in H : h.center \in Int /\ h.radius \in Int
  OBVIOUS
<1> HIDE DEF C, H
<1>4. /\ DOMAIN cs = 1 .. n /\ n \in Nat /\ \A i \in 1 .. n : cs[i] \in C
      /\ DOMAIN hs = 1 .. m /\ m \in Nat /\ \A i \in 1 .. m : hs[i] \in H
  BY <1>2, SeqShape
<1>5. /\ require_terrain_extent(t.extent) /\ (t.ground = "solid" <=> t.corridors = <<>>)
      /\ n <= MaximumTerrainShapes /\ m <= MaximumTerrainShapes
      /\ \A i \in 1 .. n : corridor_accepted(cs[i])
      /\ \A i \in 1 .. m : hole_accepted(hs[i])
      /\ Total(PointCounts(cs)) <= MaximumTerrainPoints /\ Total(SegmentCounts(cs)) <= MaximumTerrainSegments
      /\ \A i, j \in 1 .. n : cs[i].name = cs[j].name => i = j
      /\ \A i, j \in 1 .. m : hs[i].name = hs[j].name => i = j
      /\ \A i \in 1 .. n : \A p \in DOMAIN cs[i].points : Value(cs[i].points[p]) \in 0 .. t.extent
      /\ \A i \in 1 .. m : Value(hs[i].center) \in 0 .. t.extent
  BY <1>4, Zenon DEF terrain_accepted, DistinctNames, Within
<1>6. terrain_number(u.extent, TRUE) /\ u.extent = t.extent /\ t.extent > 0 /\ t.extent <= MaximumWorldDimension
  BY <1>1, <1>2, <1>5, ExtentsConform
<1> HIDE DEF u, cs, hs, n, m, of
<1>7. ASSUME NEW i \in 1 .. n
      PROVE  /\ u.corridors[i] = EncodedCorridor(cs[i]) /\ CorridorConforms(t.extent, u.corridors[i])
             /\ Len(u.corridors[i].points) = Len(cs[i].points) /\ u.corridors[i].name = cs[i].name
             /\ \A p \in DOMAIN u.corridors[i].points : u.corridors[i].points[p] # NegativeZero
  <2>1. u.corridors[i] = EncodedCorridor(cs[i])
    BY <1>1, <1>4
  <2>2. cs[i].half_width \in Int /\ cs[i].points \in Seq(Int)
    BY <1>3, <1>4
  <2> DEFINE c == cs[i]
  <2>3. /\ t.extent \in Int /\ t.extent > 0 /\ t.extent <= MaximumWorldDimension
        /\ c.half_width \in Int /\ c.points \in Seq(Int) /\ corridor_accepted(c)
        /\ \A p \in DOMAIN c.points : Value(c.points[p]) \in 0 .. t.extent
    BY <1>2, <1>5, <1>6, <2>2, Zenon
  <2>4. CorridorKept(t.extent, c, EncodedCorridor(c))
    <3> HIDE DEF c
    <3> QED BY <2>3, CorridorsConform, Zenon
  <2> QED BY <2>1, <2>4, Zenon DEF CorridorKept
<1>8. ASSUME NEW i \in 1 .. m
      PROVE  /\ u.holes[i].name = hs[i].name /\ u.holes[i].center # NegativeZero
             /\ terrain_number(u.holes[i].radius, TRUE) /\ terrain_number(u.holes[i].center, FALSE)
             /\ u.holes[i].center <= t.extent
  <2>1. u.holes[i] = of(hs[i])
    BY <1>1, <1>4
  <2>2. /\ u.holes[i].name = hs[i].name /\ u.holes[i].center = encode_json_number(hs[i].center)
        /\ u.holes[i].radius = encode_json_number(hs[i].radius)
    BY <2>1 DEF of
  <2>3. hs[i].center \in Int /\ hs[i].radius \in Int
    BY <1>3, <1>4
  <2>4. terrain_number(u.holes[i].radius, TRUE)
    BY <1>5, <2>2, <2>3, ExtentsConform DEF hole_accepted
  <2>5. u.holes[i].center # NegativeZero /\ terrain_number(u.holes[i].center, FALSE) /\ u.holes[i].center <= t.extent
    BY <1>2, <1>5, <1>6, <2>2, <2>3, PointsConform DEF terrain_number
  <2> QED BY <2>2, <2>4, <2>5
<1>9. DOMAIN u.corridors = 1 .. n /\ DOMAIN u.holes = 1 .. m
  BY <1>1, <1>4
<1>10. Len(u.corridors) = n /\ Len(u.holes) = m
  <2>1. u.corridors \in Seq({u.corridors[i] : i \in 1 .. n}) /\ u.holes \in Seq({u.holes[i] : i \in 1 .. m})
    <3>1. u.corridors = [i \in 1 .. n |-> u.corridors[i]] /\ u.holes = [i \in 1 .. m |-> u.holes[i]]
      BY <1>1, <1>4
    <3> QED BY <1>4, <3>1, SeqMade
  <2> QED BY <1>4, <1>9, <2>1, SeqShape
<1>11. Total(PointCounts(u.corridors)) = Total(PointCounts(cs)) /\ Total(SegmentCounts(u.corridors)) = Total(SegmentCounts(cs))
  <2>1. PointCounts(u.corridors) = PointCounts(cs)
    BY <1>4, <1>7, <1>9 DEF PointCounts
  <2>2. SegmentCounts(u.corridors) = SegmentCounts(cs)
    BY <1>4, <1>7, <1>9 DEF SegmentCounts
  <2> QED BY <2>1, <2>2, Zenon
<1>12. u.corridors = <<>> <=> cs = <<>>
  <2>1. cs = <<>> <=> n = 0
    BY <1>2, EmptySeq DEF n, cs
  <2>2. n = 0 <=> u.corridors = <<>>
    BY <1>1, <1>4, <1>9
  <2> QED BY <2>1, <2>2
<1>13. terrain_names_conform(u.corridors) /\ terrain_names_conform(u.holes)
  <2>1. /\ \A i \in 1 .. n : u.corridors[i].name \in ShapeNames
        /\ \A i \in 1 .. m : u.holes[i].name \in ShapeNames
    BY <1>5, <1>7, <1>8 DEF corridor_accepted, hole_accepted
  <2>2. /\ \A i \in 1 .. n : \A j \in 1 .. i - 1 : u.corridors[j].name # u.corridors[i].name
        /\ \A i \in 1 .. m : \A j \in 1 .. i - 1 : u.holes[j].name # u.holes[i].name
    <3>1. \A i \in 1 .. n : \A j \in 1 .. i - 1 : j \in 1 .. n /\ j # i
      BY <1>4
    <3>2. \A i \in 1 .. m : \A j \in 1 .. i - 1 : j \in 1 .. m /\ j # i
      BY <1>4
    <3> QED BY <1>5, <1>7, <1>8, <3>1, <3>2, Zenon
  <2> QED BY <1>5, <1>9, <1>10, <2>1, <2>2, Zenon DEF terrain_names_conform
<1>14. ~ has_negative_zero_token(u)
  BY <1>7, <1>8, <1>9, Zenon DEF has_negative_zero_token
<1>15. \A i \in DOMAIN u.corridors :
          /\ terrain_number(u.corridors[i].half_width, TRUE) /\ Len(u.corridors[i].points) >= 2
          /\ \A p \in DOMAIN u.corridors[i].points : terrain_point(u, u.corridors[i].points[p])
          /\ \A p \in 2 .. Len(u.corridors[i].points) : u.corridors[i].points[p] # u.corridors[i].points[p - 1]
  BY <1>6, <1>7, <1>9, Zenon DEF CorridorConforms, terrain_point
<1>16. \A i \in DOMAIN u.holes : terrain_number(u.holes[i].radius, TRUE) /\ terrain_point(u, u.holes[i].center)
  BY <1>6, <1>8, <1>9, Zenon DEF terrain_point
<1>17. u.ground \in {"solid", "corridors"} /\ (u.ground = "solid" <=> u.corridors = <<>>)
  BY <1>1, <1>2, <1>5, <1>12 DEF cs
<1>18. /\ u.ground = "solid" => u.corridors = <<>>
       /\ u.ground = "corridors" => u.corridors # <<>>
  BY <1>17
<1>19. welcome_terrain_conforms(u)
  BY <1>5, <1>6, <1>11, <1>13, <1>15, <1>16, <1>17, <1>18, Zenon DEF welcome_terrain_conforms
<1> QED BY <1>14, <1>19 DEF u

---------------------------------------------------------------------------
(* ServerFrames: rosters.                                                  *)

\* A set of ids in ascending order.
IsAscending(S, s) ==
    /\ s \in [1 .. Cardinality(S) -> S]
    /\ \A i, j \in DOMAIN s : i < j => s[i] < s[j]

\* A finite set of numbers has a greatest one.
LEMMA GreatestExists ==
    ASSUME NEW C, IsFiniteSet(C), C \subseteq Nat
    PROVE  \A S \in SUBSET C : S # {} => \E x \in S : \A y \in S : y <= x
<1> DEFINE Good == {S \in SUBSET C : S # {} => \E x \in S : \A y \in S : y <= x}
<1>1. ASSUME NEW S \in SUBSET C, \A x \in S : S \ {x} \in Good PROVE S \in Good
  <2> SUFFICES ASSUME S # {} PROVE \E x \in S : \A y \in S : y <= x
    OBVIOUS
  <2>1. PICK a \in S : TRUE
    OBVIOUS
  <2>2. S \ {a} \in Good /\ a \in Nat
    BY <1>1
  <2>3. CASE S \ {a} = {}
    <3>1. \A y \in S : y = a
      BY <2>3
    <3> QED BY <2>2, <3>1
  <2>4. CASE S \ {a} # {}
    <3>1. PICK b \in S \ {a} : \A y \in S \ {a} : y <= b
      BY <2>2, <2>4
    <3>2. b \in Nat /\ b \in S /\ \A y \in S : y \in Nat
      OBVIOUS
    <3>3. CASE a <= b
      <4>1. \A y \in S : y <= b
        BY <3>1, <3>3
      <4> QED BY <3>2, <4>1
    <3>4. CASE ~ (a <= b)
      <4>1. \A y \in S : y <= a
        BY <2>2, <3>1, <3>2, <3>4
      <4> QED BY <4>1
    <3> QED BY <3>3, <3>4
  <2> QED BY <2>3, <2>4
<1> HIDE DEF Good
<1>2. \A S \in SUBSET C : S \in Good
  BY <1>1, SubsetInduction
<1> QED BY <1>2 DEF Good

\* A finite set of numbers can be put in order.
LEMMA OrderExists ==
    ASSUME NEW C, IsFiniteSet(C), C \subseteq Nat
    PROVE  \A S \in SUBSET C : \E s : IsAscending(S, s)
<1> DEFINE Good == {S \in SUBSET C : \E s : IsAscending(S, s)}
<1>1. ASSUME NEW S \in SUBSET C, \A x \in S : S \ {x} \in Good PROVE S \in Good
  <2>0. IsFiniteSet(S) /\ Cardinality(S) \in Nat
    BY FS_Subset, FS_CardinalityType
  <2> SUFFICES \E s : IsAscending(S, s)
    OBVIOUS
  <2>1. CASE S = {}
    <3> DEFINE s == [i \in 1 .. 0 |-> 0]
    <3>1. Cardinality(S) = 0
      BY <2>1, FS_EmptySet
    <3>2. s \in [1 .. 0 -> S] /\ \A i, j \in DOMAIN s : i < j => s[i] < s[j]
      OBVIOUS
    <3>3. IsAscending(S, s)
      BY <3>1, <3>2 DEF IsAscending
    <3> QED BY <3>3
  <2>2. CASE S # {}
    <3>1. PICK x \in S : \A y \in S : y <= x
      BY <2>2, GreatestExists
    <3>2. PICK s : IsAscending(S \ {x}, s)
      BY <1>1
    <3> DEFINE n == Cardinality(S)
               u == [i \in 1 .. n |-> IF i = n THEN x ELSE s[i]]
    <3>3. Cardinality(S \ {x}) = n - 1 /\ n \in Nat /\ n # 0
      BY <2>0, <2>2, FS_RemoveElement, FS_EmptySet
    <3>4. DOMAIN s = 1 .. n - 1 /\ \A i \in 1 .. n - 1 : s[i] \in S \ {x}
      BY <3>2, <3>3 DEF IsAscending
    <3>5. \A i, j \in 1 .. n - 1 : i < j => s[i] < s[j]
      BY <3>2, <3>4 DEF IsAscending
    <3>6. \A i \in 1 .. n - 1 : s[i] < x
      <4> SUFFICES ASSUME NEW i \in 1 .. n - 1 PROVE s[i] < x
        OBVIOUS
      <4>1. s[i] \in S /\ s[i] # x
        BY <3>4
      <4>2. s[i] <= x /\ s[i] \in Nat /\ x \in Nat
        BY <3>1, <4>1
      <4> QED BY ONLY <4>1, <4>2
    <3> HIDE DEF n
    <3>7. \A i \in 1 .. n : u[i] \in S
      BY <3>3, <3>4
    <3>8. ASSUME NEW i \in 1 .. n, NEW j \in 1 .. n, i < j PROVE u[i] < u[j]
      <4>1. i \in 1 .. n - 1 /\ i # n
        BY <3>3, <3>8
      <4>2. CASE j = n
        BY <3>6, <4>1, <4>2
      <4>3. CASE j # n
        <5>1. j \in 1 .. n - 1
          BY <3>3, <4>3
        <5> QED BY <3>5, <3>8, <4>1, <4>3, <5>1
      <4> QED BY <4>2, <4>3
    <3>9. IsAscending(S, u)
      <4>1. u \in [1 .. n -> S]
        BY <3>7
      <4>2. DOMAIN u = 1 .. n
        OBVIOUS
      <4> HIDE DEF u
      <4> QED BY <3>8, <4>1, <4>2 DEF IsAscending, n
    <3> QED BY <3>9
  <2> QED BY <2>1, <2>2
<1> HIDE DEF Good
<1>2. \A S \in SUBSET C : S \in Good
  BY <1>1, SubsetInduction
<1> QED BY <1>2 DEF Good

\* Every id of the set is in its order, once.
Orders(S, q) ==
    /\ q \in Seq(S) /\ Len(q) = Cardinality(S) /\ Len(q) \in Nat /\ DOMAIN q = 1 .. Len(q)
    /\ \A i \in 1 .. Len(q) : q[i] \in S
    /\ \A i, j \in 1 .. Len(q) : i < j => q[i] < q[j]
    /\ \A e \in S : \E i \in 1 .. Len(q) : q[i] = e
LEMMA AscendingOrders ==
    ASSUME NEW S, IsFiniteSet(S), S \subseteq Nat
    PROVE  Orders(S, Ascending(S))
<1> DEFINE q == Ascending(S)
           n == Cardinality(S)
<1>1. IsAscending(S, q)
  <2>1. \E s : IsAscending(S, s)
    BY OrderExists
  <2> QED BY <2>1, Zenon DEF IsAscending, Ascending
<1>2. n \in Nat /\ q \in [1 .. n -> S] /\ \A i, j \in 1 .. n : i < j => q[i] < q[j]
  <2>1. n \in Nat
    BY FS_CardinalityType
  <2> HIDE DEF q
  <2> QED BY <1>1, <2>1 DEF IsAscending
<1> HIDE DEF q
<1>3. q \in Injection(1 .. n, S)
  <2>1. ASSUME NEW i \in 1 .. n, NEW j \in 1 .. n, q[i] = q[j] PROVE i = j
    <3>0. q[i] \in S /\ q[j] \in S
      <4> HIDE DEF n
      <4> QED BY <1>2
    <3>1. i \in Nat /\ j \in Nat /\ q[i] \in Nat /\ q[j] \in Nat
      <4>1. q[i] \in Nat /\ q[j] \in Nat
        BY <3>0, Zenon
      <4>2. n \in Nat
        BY <1>2
      <4>3. i \in Nat /\ j \in Nat
        <5> HIDE DEF n
        <5> QED BY <4>2
      <4> QED BY <4>1, <4>3
    <3>2. ~ (i < j) /\ ~ (j < i)
      BY <1>2, <2>1, <3>1
    <3> QED BY <3>1, <3>2
  <2>2. \A a, b \in DOMAIN q : q[a] = q[b] => a = b
    BY <1>2, <2>1
  <2> QED BY <1>2, <2>2 DEF Injection, IsInjective
<1>4. Cardinality(1 .. n) = n
  BY <1>2, FS_Interval
<1>5. q \in Surjection(1 .. n, S)
  BY <1>3, <1>4, FS_Injection
<1>6. \A e \in S : \E i \in 1 .. n : q[i] = e
  BY <1>5 DEF Surjection
<1>7. q \in Seq(S)
  <2>1. q = [i \in 1 .. n |-> q[i]] /\ \A i \in 1 .. n : q[i] \in S
    BY <1>2
  <2> QED BY <1>2, <2>1, SeqMade
<1>8. Len(q) = n /\ DOMAIN q = 1 .. n
  <2>1. DOMAIN q = 1 .. n
    BY <1>2
  <2>2. DOMAIN q = 1 .. Len(q) /\ Len(q) \in Nat
    BY <1>7, SeqShape
  <2> HIDE DEF n
  <2> QED BY <1>2, <2>1, <2>2
<1> QED BY <1>2, <1>6, <1>7, <1>8 DEF Orders, q

\* No number of the set is less.
LEMMA LeastIsLeast ==
    ASSUME NEW S, S \subseteq Nat, S # {}
    PROVE  \A y \in S : Min(S) <= y
<1> DEFINE R == OpToRel(<, Nat)
<1>1. IsWellFoundedOn(R, Nat)
  BY NatLessThanWellFounded, Zenon
<1>2. \A x, y \in Nat : x < y => <<x, y>> \in R
  BY SMT DEF OpToRel
<1> HIDE DEF R
<1>3. PICK x \in S : \A y \in S : ~ (<<y, x>> \in R)
  BY <1>1, WFMin
<1>4. ASSUME NEW y \in S PROVE x <= y
  <2>1. x \in Nat /\ y \in Nat
    BY <1>3
  <2>2. ~ (y < x)
    BY <1>2, <1>3, <2>1, Zenon
  <2> QED BY <2>1, <2>2
<1> QED BY <1>3, <1>4 DEF Min

\* A kind's cursor stands past the entries of the entities up to one.
Passed(entries, cursor, last) == \A c \in 1 .. Len(entries) : entries[c] <= last <=> c < cursor

\* emit_component_of_kind takes an entity's own entry, and keeps the cursor so.
LEMMA EmitKeeps ==
    ASSUME NEW S, S \subseteq Nat, NEW q, Orders(S, q), NEW cursor \in 1 .. Len(q) + 1, NEW last \in Nat, NEW entity \in Nat,
           last < entity, Passed(q, cursor, last)
    PROVE  /\ emit_component_of_kind(q, cursor, entity).emitted <=> entity \in S
           /\ emit_component_of_kind(q, cursor, entity).cursor \in 1 .. Len(q) + 1
           /\ Passed(q, emit_component_of_kind(q, cursor, entity).cursor, entity)
<1> DEFINE n == Len(q)
           Cs == {c \in cursor .. n + 1 : c > n \/ q[c] >= entity}
           at == Min(Cs)
<1>1. /\ n \in Nat /\ \A i \in 1 .. n : q[i] \in S /\ q[i] \in Nat
      /\ \A i, j \in 1 .. n : i < j => q[i] < q[j]
      /\ \A e \in S : \E i \in 1 .. n : q[i] = e
  BY DEF Orders
<1>2. Cs \subseteq Nat /\ Cs # {}
  <2>1. n + 1 \in Cs
    BY <1>1
  <2>2. \A c \in cursor .. n + 1 : c \in Nat
    BY <1>1
  <2> QED BY <2>1, <2>2
<1>3. at \in Cs /\ \A c \in Cs : at <= c
  <2> HIDE DEF Cs
  <2> QED BY <1>2, LeastExists, LeastIsLeast
<1>4. emit_component_of_kind(q, cursor, entity) =
        IF at > n \/ q[at] # entity THEN [emitted |-> FALSE, cursor |-> at] ELSE [emitted |-> TRUE, cursor |-> at + 1]
  BY Zenon DEF emit_component_of_kind
<1> HIDE DEF at
<1>5. at \in cursor .. n + 1 /\ at \in 1 .. n + 1 /\ at \in Nat
  BY <1>1, <1>3
<1>6. \A c \in cursor .. n + 1 : c < at => q[c] < entity /\ c <= n
  <2> SUFFICES ASSUME NEW c \in cursor .. n + 1, c < at PROVE q[c] < entity /\ c <= n
    OBVIOUS
  <2>1. c \notin Cs
    <3> HIDE DEF Cs
    <3>1. c \in Nat
      BY <1>1
    <3> QED BY <1>3, <1>5, <3>1
  <2>2. c <= n /\ ~ (q[c] >= entity)
    BY <1>1, <2>1
  <2>3. c \in 1 .. n
    BY <1>1, <2>2
  <2> QED BY <1>1, <2>2, <2>3
<1>7. at <= n => q[at] >= entity
  BY <1>3, <1>5
<1> HIDE DEF Cs, n
<1>8. \A c \in 1 .. n : c < at => q[c] < entity
  <2> SUFFICES ASSUME NEW c \in 1 .. n, c < at PROVE q[c] < entity
    OBVIOUS
  <2>1. CASE c < cursor
    <3>1. q[c] <= last
      BY <2>1 DEF Passed, n
    <3> QED BY <1>1, <3>1
  <2>2. CASE ~ (c < cursor)
    BY <1>1, <1>6, <2>2
  <2> QED BY <2>1, <2>2
<1>9. \A c \in 1 .. n : c > at => q[c] > entity
  <2> SUFFICES ASSUME NEW c \in 1 .. n, c > at PROVE q[c] > entity
    OBVIOUS
  <2>1. at \in 1 .. n
    BY <1>1, <1>5
  <2> QED BY <1>1, <1>7, <2>1
<1>10. CASE at <= n /\ q[at] = entity
  <2>1. emit_component_of_kind(q, cursor, entity) = [emitted |-> TRUE, cursor |-> at + 1]
    BY <1>1, <1>4, <1>5, <1>10
  <2>2. at \in 1 .. n
    BY <1>1, <1>5, <1>10
  <2>3. Passed(q, at + 1, entity)
    <3> SUFFICES ASSUME NEW c \in 1 .. n PROVE q[c] <= entity <=> c < at + 1
      BY DEF Passed, n
    <3> QED BY <1>1, <1>5, <1>8, <1>9, <1>10
  <2>4. at + 1 \in 1 .. n + 1
    BY <1>1, <2>2
  <2>5. entity \in S
    BY <1>1, <1>10, <2>2
  <2> QED BY <2>1, <2>3, <2>4, <2>5 DEF n
<1>11. CASE ~ (at <= n /\ q[at] = entity)
  <2>1. emit_component_of_kind(q, cursor, entity) = [emitted |-> FALSE, cursor |-> at]
    BY <1>1, <1>4, <1>5, <1>11
  <2>2. at <= n => q[at] > entity
    <3> SUFFICES ASSUME at <= n PROVE q[at] > entity
      OBVIOUS
    <3>1. q[at] \in Nat
      BY <1>1, <1>5
    <3> QED BY <1>7, <1>11, <3>1
  <2>3. Passed(q, at, entity)
    <3> SUFFICES ASSUME NEW c \in 1 .. n PROVE q[c] <= entity <=> c < at
      BY DEF Passed, n
    <3>1. q[c] \in Nat /\ c \in Nat
      BY <1>1
    <3>2. c < at \/ c = at \/ c > at
      BY <1>5, <3>1
    <3> QED BY <1>1, <1>5, <1>8, <1>9, <2>2, <3>1, <3>2
  <2>4. entity \notin S
    <3> SUFFICES ASSUME entity \in S PROVE FALSE
      OBVIOUS
    <3>1. PICK c \in 1 .. n : q[c] = entity
      BY <1>1
    <3>2. c \in Nat /\ (c < at \/ c = at \/ c > at)
      BY <1>1, <1>5
    <3> QED BY <1>1, <1>8, <1>9, <1>11, <3>1, <3>2
  <2> QED BY <1>5, <2>1, <2>3, <2>4 DEF n
<1> QED BY <1>10, <1>11

---------------------------------------------------------------------------
(* ServerFrames: encode_entities.                                          *)

\* The stores of a world, as ids.
Entities(stores) == UNION {DOMAIN stores[k] : k \in ComponentKinds}
Storable(stores) == \A k \in ComponentKinds : DOMAIN stores[k] \subseteq Nat \ {0} /\ IsFiniteSet(DOMAIN stores[k])
Holding(stores, e) == {k \in ComponentKinds : e \in DOMAIN stores[k]}

\* The roster and every kind's entries are in order.
LEMMA StoresOrdered ==
    ASSUME NEW stores, Storable(stores)
    PROVE  /\ Entities(stores) \subseteq Nat \ {0} /\ IsFiniteSet(Entities(stores))
           /\ Orders(Entities(stores), roster_of(stores))
           /\ \A k \in ComponentKinds : Orders(DOMAIN stores[k], entries_of(stores[k]))
<1>1. Entities(stores) \subseteq Nat \ {0}
  BY DEF Entities, Storable
<1>2. IsFiniteSet(Entities(stores))
  <2> DEFINE Ds == {DOMAIN stores[k] : k \in ComponentKinds}
  <2>1. IsFiniteSet(Ds)
    <3> DEFINE g == [k \in ComponentKinds |-> DOMAIN stores[k]]
    <3>1. g \in Surjection(ComponentKinds, Ds)
      BY DEF Surjection
    <3>2. IsFiniteSet(ComponentKinds)
      BY FramesAssumption
    <3> HIDE DEF g, Ds
    <3> QED BY <3>1, <3>2, FS_Surjection
  <2>2. \A D \in Ds : IsFiniteSet(D)
    BY DEF Storable
  <2> HIDE DEF Ds
  <2>3. IsFiniteSet(UNION Ds)
    BY <2>1, <2>2, FS_UNION
  <2> QED BY <2>3, Zenon DEF Entities, Ds
<1>3. Orders(Entities(stores), roster_of(stores))
  <2>1. roster_of(stores) = Ascending(Entities(stores))
    BY Zenon DEF roster_of, Entities
  <2>2. Entities(stores) \subseteq Nat
    BY <1>1
  <2> QED BY <1>2, <2>1, <2>2, AscendingOrders, Zenon
<1>4. ASSUME NEW k \in ComponentKinds PROVE Orders(DOMAIN stores[k], entries_of(stores[k]))
  <2>1. DOMAIN stores[k] \subseteq Nat /\ IsFiniteSet(DOMAIN stores[k])
    BY DEF Storable
  <2>2. entries_of(stores[k]) = Ascending(DOMAIN stores[k])
    BY Zenon DEF entries_of
  <2> QED BY <2>1, <2>2, AscendingOrders, Zenon
<1> QED BY <1>1, <1>2, <1>3, <1>4

\* The recursion of encode_entities.
WalkStart == [cursors |-> [k \in ComponentKinds |-> 1], encoded |-> <<>>]
Walks(f, snapshot, n) ==
    /\ encode_entities(snapshot) = f[n].encoded
    /\ f[0] = WalkStart
    /\ \A i \in 1 .. n : f[i] = encode_entity(snapshot, f[i - 1], roster_of(snapshot.stores)[i])

\* encode_entities can be unfolded.
LEMMA WalkUnfolds ==
    ASSUME NEW snapshot, NEW n \in Nat, Len(roster_of(snapshot.stores)) = n
    PROVE  \E f : Walks(f, snapshot, n)
<1> DEFINE roster == roster_of(snapshot.stores)
           Then(f, i) == IF i = 0 THEN WalkStart ELSE encode_entity(snapshot, f[i - 1], roster[i])
           it == CHOOSE f : f = [i \in 0 .. Len(roster) |->
                    IF i = 0 THEN [cursors |-> [k \in ComponentKinds |-> 1], encoded |-> <<>>]
                    ELSE encode_entity(snapshot, f[i - 1], roster[i])]
           IsFamily(f) == f = [i \in 0 .. n |-> f[i]]
           Upto(f, k) == \A i \in 0 .. n : i <= k => f[i] = Then(f, i)
           Ks == {k \in Nat : \E f : IsFamily(f) /\ Upto(f, k)}
<1>1. encode_entities(snapshot) = it[Len(roster)].encoded
  BY Zenon DEF encode_entities
<1>2. 0 \in Ks
  <2> DEFINE f == [i \in 0 .. n |-> WalkStart]
  <2>1. IsFamily(f)
    OBVIOUS
  <2>2. ASSUME NEW i \in 0 .. n, i <= 0 PROVE f[i] = Then(f, i)
    <3>1. i = 0 /\ f[i] = WalkStart
      BY <2>2
    <3> HIDE DEF f
    <3> QED BY <3>1
  <2> HIDE DEF f, IsFamily, Then
  <2>3. Upto(f, 0)
    BY <2>2
  <2> HIDE DEF Upto
  <2> QED BY <2>1, <2>3
<1>3. ASSUME NEW k \in Nat, k \in Ks PROVE k + 1 \in Ks
  <2>1. PICK f : IsFamily(f) /\ Upto(f, k)
    BY <1>3
  <2> DEFINE g == [i \in 0 .. n |-> Then(f, i)]
  <2>2. ASSUME NEW i \in 0 .. n, i <= k + 1 PROVE g[i] = Then(g, i)
    <3>1. g[i] = Then(f, i)
      BY Zenon
    <3>2. CASE i = 0
      <4> HIDE DEF g
      <4> QED BY <3>1, <3>2
    <3>3. CASE i # 0
      <4>1. i - 1 \in 0 .. n /\ i - 1 <= k
        BY <2>2, <3>3
      <4>2. f[i - 1] = Then(f, i - 1)
        <5> HIDE DEF Then, IsFamily
        <5> QED BY <2>1, <4>1
      <4>3. g[i - 1] = Then(f, i - 1)
        <5> HIDE DEF Then
        <5> QED BY <4>1
      <4> HIDE DEF g
      <4> QED BY <3>1, <3>3, <4>2, <4>3, Zenon
    <3> QED BY <3>2, <3>3
  <2>3. IsFamily(g)
    <3> HIDE DEF Then
    <3> QED OBVIOUS
  <2>4. Upto(g, k + 1)
    <3> HIDE DEF g, Then
    <3> QED BY <2>2
  <2> HIDE DEF g, IsFamily, Upto
  <2> QED BY <2>3, <2>4
<1>4. \E f : f = [i \in 0 .. n |-> Then(f, i)]
  <2> HIDE DEF Ks
  <2>1. n \in Ks
    BY <1>2, <1>3, NatSets
  <2> USE DEF Ks
  <2>2. PICK f : IsFamily(f) /\ Upto(f, n)
    BY <2>1
  <2>3. \A i \in 0 .. n : f[i] = Then(f, i)
    <3> HIDE DEF Then, IsFamily
    <3>1. \A i \in 0 .. n : i <= n
      OBVIOUS
    <3> QED BY <2>2, <3>1, Zenon
  <2>4. f = [i \in 0 .. n |-> f[i]]
    BY <2>2
  <2> HIDE DEF Then, IsFamily, Upto
  <2>5. f = [i \in 0 .. n |-> Then(f, i)]
    BY <2>3, <2>4
  <2> QED BY <2>5
<1>5. it = [i \in 0 .. n |-> Then(it, i)]
  <2>1. PICK f : f = [i \in 0 .. n |-> Then(f, i)]
    BY <1>4
  <2>2. f = [i \in 0 .. Len(roster) |->
                    IF i = 0 THEN [cursors |-> [k \in ComponentKinds |-> 1], encoded |-> <<>>]
                    ELSE encode_entity(snapshot, f[i - 1], roster[i])]
    BY <2>1, Zenon DEF WalkStart
  <2>3. it = [i \in 0 .. Len(roster) |->
                    IF i = 0 THEN [cursors |-> [k \in ComponentKinds |-> 1], encoded |-> <<>>]
                    ELSE encode_entity(snapshot, it[i - 1], roster[i])]
    BY Zenon, <2>2
  <2> HIDE DEF it
  <2> QED BY <2>3, Zenon DEF WalkStart
<1> HIDE DEF it
<1>6. it[0] = WalkStart
  <2>1. 0 \in 0 .. n
    OBVIOUS
  <2>2. it[0] = Then(it, 0)
    <3> HIDE DEF Then
    <3> QED BY <1>5, <2>1
  <2> QED BY <2>2
<1>7. ASSUME NEW i \in 1 .. n PROVE it[i] = encode_entity(snapshot, it[i - 1], roster[i])
  <2>1. i \in 0 .. n /\ i # 0
    OBVIOUS
  <2>2. it[i] = Then(it, i)
    <3> HIDE DEF Then
    <3> QED BY <1>5, <2>1
  <2> QED BY <2>1, <2>2
<1>8. Walks(it, snapshot, n)
  BY <1>1, <1>6, <1>7, Zenon DEF Walks
<1> QED BY <1>8

\* The walk after i entities of the roster.
WalkedTo(stores, q, w, i) ==
    /\ \E S : w.encoded \in Seq(S)
    /\ Len(w.encoded) = i
    /\ \A j \in 1 .. i : /\ w.encoded[j].id = q[j]
                         /\ DOMAIN w.encoded[j].components = Holding(stores, q[j])
    /\ \A k \in ComponentKinds :
          /\ w.cursors[k] \in 1 .. Len(entries_of(stores[k])) + 1
          /\ Passed(entries_of(stores[k]), w.cursors[k], IF i = 0 THEN 0 ELSE q[i])

\* No entity has been passed before the first.
LEMMA WalkBegins ==
    ASSUME NEW stores, Storable(stores), NEW q
    PROVE  WalkedTo(stores, q, WalkStart, 0)
<1>1. WalkStart.encoded = <<>> /\ \A k \in ComponentKinds : WalkStart.cursors[k] = 1
  BY DEF WalkStart
<1>2. WalkStart.encoded \in Seq({}) /\ Len(WalkStart.encoded) = 0
  BY <1>1
<1>3. ASSUME NEW k \in ComponentKinds
      PROVE  /\ WalkStart.cursors[k] \in 1 .. Len(entries_of(stores[k])) + 1
             /\ Passed(entries_of(stores[k]), WalkStart.cursors[k], 0)
  <2> DEFINE e == entries_of(stores[k])
  <2>1. Len(e) \in Nat /\ \A c \in 1 .. Len(e) : e[c] \in Nat \ {0}
    <3>1. Orders(DOMAIN stores[k], e) /\ DOMAIN stores[k] \subseteq Nat \ {0}
      BY StoresOrdered DEF Storable
    <3> HIDE DEF e
    <3>2. Len(e) \in Nat /\ \A c \in 1 .. Len(e) : e[c] \in DOMAIN stores[k]
      BY <3>1, Zenon DEF Orders
    <3> QED BY <3>1, <3>2, Zenon
  <2> HIDE DEF e
  <2>2. Passed(e, 1, 0)
    BY <2>1 DEF Passed
  <2>3. 1 \in 1 .. Len(e) + 1
    BY <2>1
  <2> QED BY <1>1, <2>2, <2>3, Zenon DEF e
<1>4. \A j \in 1 .. 0 : FALSE
  OBVIOUS
<1> HIDE DEF WalkStart
<1> QED BY <1>2, <1>3, <1>4 DEF WalkedTo

\* encode_entity keeps it so.
LEMMA WalkGoesOn ==
    ASSUME NEW snapshot, Storable(snapshot.stores), NEW q, q = roster_of(snapshot.stores),
           NEW i \in 1 .. Len(q), NEW w, WalkedTo(snapshot.stores, q, w, i - 1)
    PROVE  WalkedTo(snapshot.stores, q, encode_entity(snapshot, w, q[i]), i)
<1> DEFINE stores == snapshot.stores
           e(k) == entries_of(stores[k])
           emit == [k \in ComponentKinds |-> emit_component_of_kind(e(k), w.cursors[k], q[i])]
           kinds == {k \in ComponentKinds : emit[k].emitted}
           x == [id |-> q[i], components |-> [k \in kinds |-> component_value(k, stores[k][q[i]])]]
           after == encode_entity(snapshot, w, q[i])
           last == IF i - 1 = 0 THEN 0 ELSE q[i - 1]
<1>1. /\ after.cursors = [k \in ComponentKinds |-> emit[k].cursor]
      /\ after.encoded = Append(w.encoded, x)
  BY Zenon DEF encode_entity
<1>2. x.id = q[i] /\ DOMAIN x.components = kinds
  OBVIOUS
<1>3. /\ Len(q) \in Nat /\ i \in Nat
      /\ \A j \in 1 .. Len(q) : q[j] \in Nat \ {0}
      /\ \A a, b \in 1 .. Len(q) : a < b => q[a] < q[b]
  <2>1. Orders(Entities(stores), q) /\ Entities(stores) \subseteq Nat \ {0}
    BY StoresOrdered, Zenon
  <2>2. /\ Len(q) \in Nat /\ \A j \in 1 .. Len(q) : q[j] \in Entities(stores)
        /\ \A a, b \in 1 .. Len(q) : a < b => q[a] < q[b]
    BY <2>1, Zenon DEF Orders
  <2>3. \A j \in 1 .. Len(q) : q[j] \in Nat \ {0}
    BY <2>1, <2>2, Zenon
  <2>4. i \in Nat
    BY <2>2
  <2> QED BY <2>2, <2>3, <2>4
<1>4. last \in Nat /\ last < q[i] /\ q[i] \in Nat \ {0}
  <2>1. CASE i = 1
    BY <1>3, <2>1
  <2>2. CASE i # 1
    <3>1. i - 1 \in 1 .. Len(q) /\ i - 1 < i
      BY <1>3, <2>2
    <3>2. last = q[i - 1]
      BY <3>1
    <3>3. q[i - 1] < q[i] /\ q[i - 1] \in Nat /\ q[i] \in Nat \ {0}
      BY <1>3, <3>1, Zenon
    <3> QED BY <3>2, <3>3
  <2> QED BY <2>1, <2>2
<1>5. ASSUME NEW k \in ComponentKinds
      PROVE  /\ emit[k].emitted <=> q[i] \in DOMAIN stores[k]
             /\ emit[k].cursor \in 1 .. Len(e(k)) + 1
             /\ Passed(e(k), emit[k].cursor, q[i])
  <2>1. DOMAIN stores[k] \subseteq Nat /\ Orders(DOMAIN stores[k], e(k))
    BY StoresOrdered DEF Storable
  <2>2. w.cursors[k] \in 1 .. Len(e(k)) + 1 /\ Passed(e(k), w.cursors[k], last)
    BY Zenon DEF WalkedTo
  <2>3. emit[k] = emit_component_of_kind(e(k), w.cursors[k], q[i])
    OBVIOUS
  <2> HIDE DEF e, emit, last
  <2>4. last \in Nat /\ last < q[i] /\ q[i] \in Nat
    BY <1>4
  <2> DEFINE S == DOMAIN stores[k]
             o == e(k)
             c == w.cursors[k]
             r == emit_component_of_kind(o, c, q[i])
  <2>5. S \subseteq Nat /\ Orders(S, o) /\ c \in 1 .. Len(o) + 1 /\ Passed(o, c, last)
    BY <2>1, <2>2, Zenon
  <2>6. /\ r.emitted <=> q[i] \in S
        /\ r.cursor \in 1 .. Len(o) + 1
        /\ Passed(o, r.cursor, q[i])
    <3> HIDE DEF S, o, c
    <3> QED BY <2>4, <2>5, EmitKeeps, Zenon
  <2>7. emit[k] = r
    BY <2>3
  <2> HIDE DEF r
  <2> QED BY <2>6, <2>7, Zenon
<1>6. kinds = Holding(stores, q[i])
  <2> HIDE DEF emit, e
  <2> QED BY <1>5 DEF Holding
<1> HIDE DEF x, after, emit, kinds, e, last
<1>7. \A k \in ComponentKinds : /\ after.cursors[k] \in 1 .. Len(e(k)) + 1
                                /\ Passed(e(k), after.cursors[k], q[i])
  BY <1>1, <1>5
<1>8. PICK S : w.encoded \in Seq(S)
  BY Zenon DEF WalkedTo
<1>9. /\ after.encoded \in Seq(S \cup {x}) /\ Len(after.encoded) = i
      /\ \A j \in 1 .. i - 1 : after.encoded[j] = w.encoded[j]
      /\ after.encoded[i] = x
  <2>1. w.encoded \in Seq(S \cup {x}) /\ x \in S \cup {x}
    BY <1>8, SeqGrows
  <2>2. Len(w.encoded) = i - 1
    BY Zenon DEF WalkedTo
  <2>3. (i - 1) + 1 = i
    BY <1>3
  <2> QED BY <1>1, <2>1, <2>2, <2>3, AppendProperties
<1>10. ASSUME NEW j \in 1 .. i
       PROVE  after.encoded[j].id = q[j] /\ DOMAIN after.encoded[j].components = Holding(stores, q[j])
  <2>1. CASE j = i
    BY <1>2, <1>6, <1>9, <2>1, Zenon
  <2>2. CASE j # i
    <3>1. j \in 1 .. i - 1
      BY <1>3, <2>2
    <3>2. w.encoded[j].id = q[j] /\ DOMAIN w.encoded[j].components = Holding(stores, q[j])
      BY <3>1, Zenon DEF WalkedTo
    <3> QED BY <1>9, <3>1, <3>2, Zenon
  <2> QED BY <2>1, <2>2
<1>11. (IF i = 0 THEN 0 ELSE q[i]) = q[i]
  BY <1>3
<1>12. \E T : after.encoded \in Seq(T)
  BY <1>9, Zenon
<1>13. Len(after.encoded) = i
  BY <1>9
<1> QED BY <1>7, <1>10, <1>11, <1>12, <1>13, Zenon DEF WalkedTo, after, e

\* A message has every entity with the components it holds.
ShowsEvery(stores, entities) ==
    /\ DOMAIN entities = 1 .. Len(entities) /\ Len(entities) \in Nat
    /\ \A i \in 1 .. Len(entities) : /\ entities[i].id \in Entities(stores)
                                     /\ DOMAIN entities[i].components = Holding(stores, entities[i].id)
    /\ \A e \in Entities(stores) : \E i \in 1 .. Len(entities) : entities[i].id = e
    /\ \A i, j \in 1 .. Len(entities) : i < j => entities[i].id < entities[j].id

\* encode_entities makes it so.
LEMMA EncodedWhole ==
    ASSUME NEW snapshot, Storable(snapshot.stores)
    PROVE  ShowsEvery(snapshot.stores, encode_entities(snapshot))
<1> DEFINE stores == snapshot.stores
           q == roster_of(stores)
           n == Len(q)
           entities == encode_entities(snapshot)
<1>1. Orders(Entities(stores), q)
  BY StoresOrdered, Zenon
<1>2. /\ n \in Nat
      /\ \A i \in 1 .. n : q[i] \in Entities(stores)
      /\ \A i, j \in 1 .. n : i < j => q[i] < q[j]
      /\ \A e \in Entities(stores) : \E i \in 1 .. n : q[i] = e
  BY <1>1, Zenon DEF Orders
<1>3. PICK f : Walks(f, snapshot, n)
  BY <1>2, WalkUnfolds, Zenon
<1> DEFINE Ks == {k \in 0 .. n : WalkedTo(stores, q, f[k], k)}
<1>4. 0 \in Ks
  <2>1. f[0] = WalkStart
    BY <1>3, Zenon DEF Walks
  <2>2. WalkedTo(stores, q, f[0], 0)
    BY <2>1, WalkBegins, Zenon
  <2>3. 0 \in 0 .. n
    BY <1>2
  <2> QED BY <2>2, <2>3
<1>5. ASSUME NEW k \in 1 .. n, k - 1 \in Ks PROVE k \in Ks
  <2>1. f[k] = encode_entity(snapshot, f[k - 1], q[k])
    BY <1>3, Zenon DEF Walks
  <2>2. WalkedTo(stores, q, f[k - 1], k - 1)
    BY <1>5
  <2>3. WalkedTo(stores, q, f[k], k)
    BY <2>1, <2>2, WalkGoesOn, Zenon
  <2>4. k \in 0 .. n
    BY <1>2
  <2> QED BY <2>3, <2>4
<1>6. n \in Ks
  <2> HIDE DEF Ks, n
  <2>1. \A k \in 0 .. n : k \in Ks
    BY <1>2, <1>4, <1>5, UpTo
  <2> QED BY <1>2, <2>1
<1>7. entities = f[n].encoded /\ WalkedTo(stores, q, f[n], n)
  BY <1>3, <1>6, Zenon DEF Walks
<1>8. /\ \E S : entities \in Seq(S)
      /\ Len(entities) = n
      /\ \A j \in 1 .. n : entities[j].id = q[j] /\ DOMAIN entities[j].components = Holding(stores, q[j])
  BY <1>7, Zenon DEF WalkedTo
<1>9. DOMAIN entities = 1 .. n
  BY <1>8, SeqShape, Zenon
<1> HIDE DEF entities, n, q, stores
<1>10. ShowsEvery(stores, entities)
  BY <1>2, <1>8, <1>9, Zenon DEF ShowsEvery
<1> QED BY <1>10 DEF entities, stores

---------------------------------------------------------------------------
(* ServerFrames: what is published, claimed and counted.                   *)

\* A snapshot the engine made.
SnapshotSound(s) ==
    /\ s.tick \in 0 .. TickLimit /\ WorldGiven(s)
    /\ s.movement.revision \in 0 .. SafeMaximum /\ s.movement.effective \in 0 .. s.tick
    /\ s.movement.revision = 0 <=> s.movement.effective = 0

\* If a snapshot is as late as a decision, it shows what was decided.
CoveredBy(r, s) == (\A t \in r.decision_tick : t <= s.tick) => \A n \in r.revision : n <= s.movement.revision

SnapshotsSound ==
    /\ SnapshotSound(published)
    /\ \A s \in made : SnapshotSound(s) /\ s.tick = published.tick + 1
    /\ \A s \in held : SnapshotSound(s) /\ s.tick \in 1 .. published.tick
    /\ \A s, o \in held : s = o
ExchangeSound ==
    \A r \in exchange :
       /\ wire_result_accepted(r)
       /\ \A t \in r.decision_tick : t <= published.tick \/ (made # {} /\ t <= published.tick + 1)
       /\ CoveredBy(r, published)
       /\ \A s \in made : CoveredBy(r, s)
       /\ \A s \in held : CoveredBy(r, s)
CountsSound ==
    /\ delivered \in Int /\ delivered >= -1 /\ shown \in 0 .. published.tick /\ delivered <= shown
    /\ held # {} => 0 <= delivered /\ delivered < shown

\* The inductive invariant.
FramesInv == SnapshotsSound /\ ExchangeSound /\ CountsSound /\ FramesConform

---------------------------------------------------------------------------
(* ServerFrames: every encoder has a message, and it conforms.             *)

Fine(messages) == messages # {} /\ \A m \in messages : check_v3_server_frame(m)

\* The stores of a world.
LEMMA GivenStorable ==
    ASSUME NEW s, WorldGiven(s)
    PROVE  Storable(s.stores)
BY DEF WorldGiven, Storable

\* A snapshot with a result that it covers.
LEMMA SnapshotSent ==
    ASSUME NEW s, SnapshotSound(s), s.tick > 0, NEW sequence \in 2 .. SafeMaximum,
           NEW results, tuning_result_accepted(results, s)
    PROVE  Fine(encode_snapshot_message_v3(s, results, sequence))
<1> DEFINE data == [tick |-> s.tick, entities |-> encode_entities(s), seats |-> encode_seats(s.seats),
                    movement |-> s.movement, tuning_result |-> results]
           m == Message("snapshot", sequence, data)
<1>0. /\ s.tick \in 0 .. TickLimit /\ WorldGiven(s) /\ Storable(s.stores)
      /\ s.movement.revision \in 0 .. SafeMaximum /\ s.movement.effective \in 0 .. s.tick
      /\ s.movement.revision = 0 <=> s.movement.effective = 0
  BY GivenStorable, Zenon DEF SnapshotSound
<1>1. Len(roster_of(s.stores)) <= EntityLimit
  <2>1. Len(roster_of(s.stores)) = Cardinality(Entities(s.stores))
    BY <1>0, StoresOrdered, Zenon DEF Orders
  <2>2. Cardinality(Entities(s.stores)) <= EntityLimit
    BY <1>0, Zenon DEF WorldGiven, Entities
  <2> QED BY <2>1, <2>2, Zenon
<1>2. \A k \in ComponentKinds : \A e \in DOMAIN s.stores[k] : component_accepted(k, s.stores[k][e])
  <2>1. \A k \in ComponentKinds \cap {"controllable", "shield"} : \A e \in DOMAIN s.stores[k] : s.stores[k][e] > 0
    BY <1>0, Zenon DEF WorldGiven
  <2> SUFFICES ASSUME NEW k \in ComponentKinds, NEW e \in DOMAIN s.stores[k], k \in {"controllable", "shield"}
               PROVE  s.stores[k][e] > 0
    BY Zenon DEF component_accepted
  <2>2. k \in ComponentKinds \cap {"controllable", "shield"}
    BY Zenon
  <2> QED BY <2>1, <2>2, Zenon
<1>3. Len(s.seats) <= SeatMaximum
  BY <1>0, Zenon DEF WorldGiven
<1>4. movement_accepted(s.movement, s.tick)
  BY <1>0 DEF movement_accepted
<1>5. sequence >= 2 /\ sequence <= SafeMaximum
  BY FramesAssumption
<1>6. encode_snapshot_message_v3(s, results, sequence) = {m}
  BY <1>1, <1>2, <1>3, <1>4, <1>5, Zenon DEF encode_snapshot_message_v3
<1>7. m.schema = "snapshot" /\ m.sequence = sequence /\ m.data = data
  BY DEF Message
<1>8. /\ data.tick = s.tick /\ data.entities = encode_entities(s)
      /\ data.movement = s.movement /\ data.tuning_result = results
  BY Zenon
<1> HIDE DEF m, data
<1>9. check_entities(data.entities)
  <2> DEFINE q == encode_entities(s)
  <2>1. ShowsEvery(s.stores, q)
    BY <1>0, EncodedWhole, Zenon
  <2> HIDE DEF q
  <2>2. /\ DOMAIN q = 1 .. Len(q) /\ Len(q) \in Nat
        /\ \A i \in 1 .. Len(q) : q[i].id \in Entities(s.stores) /\ DOMAIN q[i].components = Holding(s.stores, q[i].id)
        /\ \A i, j \in 1 .. Len(q) : i < j => q[i].id < q[j].id
    BY <2>1, Zenon DEF ShowsEvery
  <2>3. \A i \in 2 .. Len(q) : q[i - 1].id < q[i].id
    <3> SUFFICES ASSUME NEW i \in 2 .. Len(q) PROVE q[i - 1].id < q[i].id
      OBVIOUS
    <3>1. i - 1 \in 1 .. Len(q) /\ i \in 1 .. Len(q) /\ i - 1 < i
      BY <2>2
    <3> QED BY <2>2, <3>1, Zenon
  <2>4. ASSUME NEW i \in DOMAIN q
        PROVE  DOMAIN q[i].components # {} /\ DOMAIN q[i].components \subseteq ComponentKinds
    <3>1. q[i].id \in Entities(s.stores) /\ DOMAIN q[i].components = Holding(s.stores, q[i].id)
      BY <2>2, Zenon
    <3> QED BY <3>1, Zenon DEF Entities, Holding
  <2>5. data.entities = q
    BY <1>8 DEF q
  <2> QED BY <2>3, <2>4, <2>5, Zenon DEF check_entities
<1>10. movement_coverage_conforms(data)
  <2>1. data.movement.effective <= data.tick
    BY <1>4, <1>8, Zenon DEF movement_accepted
  <2>2. ASSUME NEW r \in data.tuning_result
        PROVE  /\ r.decision_tick = {} <=> r.revision = {}
               /\ \A t \in r.decision_tick : t <= data.tick
               /\ \A n \in r.revision : n <= data.movement.revision
    <3>1. wire_result_accepted(r) /\ (\A t \in r.decision_tick : t <= s.tick)
          /\ \A n \in r.revision : n <= s.movement.revision
      BY <1>8, <2>2, Zenon DEF tuning_result_accepted
    <3>2. r.decision_tick = {} <=> r.revision = {}
      <4>1. CASE r.status \in CommittedStatuses
        BY <3>1, <4>1, Zenon DEF wire_result_accepted
      <4>2. CASE ~ (r.status \in CommittedStatuses)
        BY <3>1, <4>2, Zenon DEF wire_result_accepted
      <4> QED BY <4>1, <4>2
    <3> QED BY <1>8, <3>1, <3>2, Zenon
  <2> QED BY <2>1, <2>2, Zenon DEF movement_coverage_conforms
<1>11. check_v3_server_frame(m)
  BY <1>5, <1>7, <1>9, <1>10 DEF check_v3_server_frame
<1> QED BY <1>6, <1>11, Zenon DEF Fine

\* A welcome, whatever map was accepted.
LEMMA WelcomeSent ==
    ASSUME NEW entity, NEW t \in MapTerrains, terrain_accepted(t)
    PROVE  Fine(encode_welcome_message(entity, t))
<1> DEFINE data == [entity |-> entity, controller |-> Driver, terrain |-> encode_terrain(t)]
           m == Message("welcome", 1, data)
<1>1. encode_welcome_message(entity, t) = {m}
  BY Zenon DEF encode_welcome_message
<1>2. m.schema = "welcome" /\ m.sequence = 1 /\ m.data.terrain = encode_terrain(t)
  BY DEF Message
<1> HIDE DEF m
<1>3. TerrainGiven(t)
  BY FramesAssumption, Zenon
<1>4. welcome_terrain_conforms(encode_terrain(t)) /\ ~ has_negative_zero_token(encode_terrain(t))
  BY <1>3, WelcomeConforms, Zenon
<1>5. check_v3_server_frame(m)
  BY <1>2, <1>4 DEF check_v3_server_frame
<1> QED BY <1>1, <1>5, Zenon DEF Fine

\* A directory of one lobby.
LEMMA DirectorySent ==
    ASSUME NEW s, SnapshotSound(s), NEW sessions \in {0, SeatMaximum}
    PROVE  Fine(encode_lobby_directory_message(lobby_listing_of(s, sessions, SeatMaximum)))
<1> DEFINE l == lobby_listing_of(s, sessions, SeatMaximum)
           F == {i \in DOMAIN s.seats : s.seats[i] \in {"controller", "npc", "vacant_npc"}}
           N == {i \in DOMAIN s.seats : s.seats[i] \in {"npc", "vacant_npc"}}
           n == Len(s.seats)
           m == Message("directory", 0, l)
<1>1. /\ l.tick = s.tick /\ l.seat_count = n /\ l.maximum = SeatMaximum
      /\ l.filled = Cardinality(F) /\ l.npcs = Cardinality(N) /\ l.sessions = sessions
  BY Zenon DEF lobby_listing_of
<1>2. s.seats \in Seq({"empty", "controller", "npc", "vacant_npc"}) /\ n <= SeatMaximum /\ s.tick \in 0 .. TickLimit
  BY Zenon DEF SnapshotSound, WorldGiven
<1>3. n \in Nat /\ DOMAIN s.seats = 1 .. n
  BY <1>2, SeqShape, Zenon
<1>4. ASSUME NEW T \in SUBSET (1 .. n) PROVE Cardinality(T) \in Nat /\ Cardinality(T) <= n
  <2> HIDE DEF n
  <2>1. IsFiniteSet(1 .. n) /\ Cardinality(1 .. n) = n
    BY <1>3, FS_Interval
  <2>2. IsFiniteSet(T) /\ Cardinality(T) <= Cardinality(1 .. n)
    BY <2>1, FS_Subset
  <2>3. Cardinality(T) \in Nat
    BY <2>2, FS_CardinalityType
  <2> QED BY <2>1, <2>2, <2>3
<1>5. F \in SUBSET (1 .. n) /\ N \in SUBSET (1 .. n)
  <2> HIDE DEF n
  <2> QED BY <1>3
<1> HIDE DEF F, N, n, l
<1>6. Cardinality(F) <= n /\ Cardinality(N) <= n
  BY <1>4, <1>5
<1>7. listing_accepted(l)
  <2>1. l.tick <= SafeMaximum
    BY <1>1, <1>2, FramesAssumption
  <2>2. l.maximum \in 1 .. SeatMaximum /\ l.sessions <= SeatMaximum
    BY <1>1, FramesAssumption
  <2> QED BY <1>1, <1>2, <1>6, <2>1, <2>2, Zenon DEF listing_accepted
<1>8. encode_lobby_directory_message(l) = {m}
  BY <1>7, Zenon DEF encode_lobby_directory_message
<1>9. m.schema = "directory"
  BY DEF Message
<1> HIDE DEF m
<1>10. check_v3_server_frame(m)
  BY <1>9 DEF check_v3_server_frame
<1> QED BY <1>8, <1>10, Zenon DEF Fine, l

\* A wait is within its bounds.
LEMMA RetriesBounded ==
    ASSUME NEW d \in {0, 1, RetryMaximum + 1}
    PROVE  retry_after_milliseconds(d) \in 1 .. RetryMaximum
BY FramesAssumption DEF retry_after_milliseconds

\* An error of the router.
LEMMA ErrorsAccepted ==
    ASSUME NEW e \in RouterErrors
    PROVE  http_error_accepted(e[1], e[2])
<1>1. CASE \E d \in {0, 1, RetryMaximum + 1} : e = <<"rate_limited", [retry_after_ms |-> retry_after_milliseconds(d)]>>
  BY <1>1, RetriesBounded DEF http_error_accepted, ErrorRegistry, OptionalDetails
<1>2. CASE e = <<"connection_limit_reached", [retry_after_ms |-> retry_after_milliseconds(0), limit |-> 1]>>
  BY <1>2, RetriesBounded DEF http_error_accepted, ErrorRegistry, OptionalDetails
<1>3. CASE e = <<"not_ready", [retry_after_ms |-> 1]>>
  BY <1>3, FramesAssumption DEF http_error_accepted, ErrorRegistry, OptionalDetails
<1>4. CASE e \in {<<"invalid_request", [reason |-> 1]>>, <<"subprotocol_required", [reason |-> 1]>>}
  BY <1>4 DEF http_error_accepted, ErrorRegistry, OptionalDetails
<1>5. CASE \E code \in {"invalid_request_id", "header_too_large", "payload_too_large",
            "origin_rejected", "route_not_found", "method_not_allowed", "upgrade_required",
            "websocket_version_unsupported"} : e = <<code, NoDetails>>
  BY <1>5 DEF http_error_accepted, ErrorRegistry, OptionalDetails, NoDetails
<1> QED BY <1>1, <1>2, <1>3, <1>4, <1>5, Zenon DEF RouterErrors

\* Its response.
LEMMA ErrorSent ==
    ASSUME NEW e \in RouterErrors
    PROVE  Fine(encode_error_response_v3(e[1], e[2]))
<1> DEFINE data == [code |-> e[1], status |-> ErrorRegistry[e[1]][1], retryable |-> ErrorRegistry[e[1]][2],
                    details |-> DOMAIN e[2]]
           m == Message("error", 0, data)
<1>1. encode_error_response_v3(e[1], e[2]) = {m}
  BY ErrorsAccepted, Zenon DEF encode_error_response_v3
<1>2. m.schema = "error"
  BY DEF Message
<1> HIDE DEF m
<1>3. check_v3_server_frame(m)
  BY <1>2 DEF check_v3_server_frame
<1> QED BY <1>1, <1>3, Zenon DEF Fine

---------------------------------------------------------------------------
(* ServerFrames: every step keeps the invariant.                           *)

\* A message that conforms, or nothing, after a step.
LEMMA SendConforms ==
    ASSUME FramesConform, NEW messages, Fine(messages), Send(messages)
    PROVE  FramesConform' /\ sent' = messages
<1>1. messages # {} /\ \A m \in messages : check_v3_server_frame(m)
  BY Zenon DEF Fine
<1>2. sent' = messages /\ refused' = refused
  BY <1>1, Zenon DEF Send
<1> QED BY <1>1, <1>2, Zenon DEF FramesConform

LEMMA QuietConforms ==
    ASSUME FramesConform, sent' = {}, UNCHANGED refused
    PROVE  FramesConform'
BY Zenon DEF FramesConform

\* The first snapshot.
LEMMA FramesBegin ==
    ASSUME FramesInit
    PROVE  FramesInv
<1>1. /\ made = {} /\ published = Snapshot(0, EmptyWorld, Start) /\ exchange = {}
      /\ held = {} /\ delivered = -1 /\ shown = 0 /\ sent = {} /\ refused = FALSE
  BY Zenon DEF FramesInit
<1>2. /\ published.tick = 0 /\ published.stores = EmptyWorld.stores /\ published.seats = <<>>
      /\ published.movement.revision = 0 /\ published.movement.effective = 0
  BY <1>1 DEF Snapshot, Start, EmptyWorld
<1>3. \A k \in ComponentKinds : DOMAIN published.stores[k] = {}
  <2>1. \A k \in ComponentKinds : EmptyWorld.stores[k] = [e \in {} |-> 0]
    BY DEF EmptyWorld
  <2> QED BY <1>2, <2>1
<1>4. WorldGiven(published)
  <2>1. UNION {DOMAIN published.stores[k] : k \in ComponentKinds} = {}
    BY <1>3
  <2>2. Cardinality({}) = 0 /\ IsFiniteSet({})
    BY FS_EmptySet
  <2>3. <<>> \in Seq({"empty", "controller", "npc", "vacant_npc"}) /\ Len(<<>>) = 0
    OBVIOUS
  <2>4. 0 <= SeatMaximum /\ 0 <= EntityLimit
    BY FramesAssumption
  <2>5. published.seats \in Seq({"empty", "controller", "npc", "vacant_npc"}) /\ Len(published.seats) <= SeatMaximum
    BY <1>2, <2>3, <2>4
  <2>6. Cardinality(UNION {DOMAIN published.stores[k] : k \in ComponentKinds}) <= EntityLimit
    BY <2>1, <2>2, <2>4, Zenon
  <2>7. \A k \in ComponentKinds : DOMAIN published.stores[k] \subseteq Nat \ {0} /\ IsFiniteSet(DOMAIN published.stores[k])
    BY <1>3, <2>2
  <2>8. \A k \in ComponentKinds \cap {"controllable", "shield"} :
           \A e \in DOMAIN published.stores[k] : published.stores[k][e] > 0
    BY <1>3, Zenon
  <2> QED BY <2>5, <2>6, <2>7, <2>8, Zenon DEF WorldGiven
<1>5. SnapshotSound(published)
  BY <1>2, <1>4, FramesAssumption DEF SnapshotSound
<1>6. SnapshotsSound
  BY <1>1, <1>5, Zenon DEF SnapshotsSound
<1>7. ExchangeSound
  BY <1>1, Zenon DEF ExchangeSound
<1>8. CountsSound
  BY <1>1, <1>2 DEF CountsSound
<1>9. FramesConform
  BY <1>1, Zenon DEF FramesConform
<1> QED BY <1>6, <1>7, <1>8, <1>9 DEF FramesInv

\* A tick's decision is one the wire takes, and its own snapshot covers it.
DecisionSound(d, instant) ==
    /\ wire_result_accepted(d.result)
    /\ \A t \in d.result.decision_tick : t = instant
    /\ d.result.decision_tick # {}
    /\ \A n \in d.result.revision : n <= d.movement.revision
    /\ d.movement.revision \in 0 .. SafeMaximum /\ d.movement.effective \in 0 .. instant
    /\ d.movement.revision = 0 <=> d.movement.effective = 0
LEMMA DecisionsSound ==
    ASSUME NEW movement, NEW instant \in 1 .. TickLimit,
           movement.revision \in 0 .. SafeMaximum, movement.effective \in 0 .. instant,
           movement.revision = 0 <=> movement.effective = 0,
           NEW d \in Decisions(movement, instant)
    PROVE  DecisionSound(d, instant)
<1> DEFINE next == [revision |-> movement.revision + 1, effective |-> instant]
<1>0. SafeMaximum \in Nat /\ TickLimit < SafeMaximum /\ TickLimit \in Nat /\ instant \in 1 .. SafeMaximum
  BY FramesAssumption
<1>1. CASE movement.revision < SafeMaximum /\ \E s \in {"applied", "superseded"} :
             d = [movement |-> next, result |-> Result(s, {instant}, {next.revision}, {})]
  <2>1. PICK s \in {"applied", "superseded"} : d = [movement |-> next, result |-> Result(s, {instant}, {next.revision}, {})]
    BY <1>1
  <2>2. /\ d.movement = next /\ d.result.status = s /\ d.result.decision_tick = {instant}
        /\ d.result.revision = {movement.revision + 1} /\ d.result.retry = {}
    BY <2>1 DEF Result
  <2>3. next.revision = movement.revision + 1 /\ next.effective = instant
    OBVIOUS
  <2>4. movement.revision + 1 \in 1 .. SafeMaximum
    BY <1>0, <1>1
  <2> HIDE DEF next
  <2>5. wire_result_accepted(d.result)
    BY <1>0, <2>2, <2>4 DEF wire_result_accepted, CommittedStatuses
  <2> QED BY <1>0, <2>2, <2>3, <2>4, <2>5 DEF DecisionSound
<1>2. CASE ~ (movement.revision < SafeMaximum)
           /\ d = [movement |-> movement, result |-> Result("revision_exhausted", {instant}, {SafeMaximum}, {})]
  <2>1. /\ d.movement = movement /\ d.result.status = "revision_exhausted" /\ d.result.decision_tick = {instant}
        /\ d.result.revision = {SafeMaximum} /\ d.result.retry = {}
    BY <1>2 DEF Result
  <2>2. movement.revision = SafeMaximum
    BY <1>0, <1>2
  <2>3. wire_result_accepted(d.result)
    BY <1>0, <2>1 DEF wire_result_accepted, CommittedStatuses
  <2> QED BY <1>0, <2>1, <2>2, <2>3 DEF DecisionSound
<1>3. CASE \E s \in {"stale_revision", "not_seated", "unsupported_tuning"} :
             d = [movement |-> movement, result |-> Result(s, {instant}, {movement.revision}, {})]
  <2>1. PICK s \in {"stale_revision", "not_seated", "unsupported_tuning"} :
             d = [movement |-> movement, result |-> Result(s, {instant}, {movement.revision}, {})]
    BY <1>3
  <2>2. /\ d.movement = movement /\ d.result.status = s /\ d.result.decision_tick = {instant}
        /\ d.result.revision = {movement.revision} /\ d.result.retry = {}
    BY <2>1 DEF Result
  <2>3. wire_result_accepted(d.result)
    BY <1>0, <2>2 DEF wire_result_accepted, CommittedStatuses
  <2> QED BY <1>0, <2>2, <2>3 DEF DecisionSound
<1> QED BY <1>1, <1>2, <1>3 DEF Decisions

\* A snapshot as it is made.
LEMMA SnapshotMade ==
    ASSUME NEW instant, NEW w \in Worlds, NEW movement
    PROVE  LET s == Snapshot(instant, w, movement)
           IN  s.tick = instant /\ s.movement = movement /\ WorldGiven(s)
<1> DEFINE s == Snapshot(instant, w, movement)
<1>1. s.tick = instant /\ s.movement = movement /\ s.stores = w.stores /\ s.seats = w.seats
  BY DEF Snapshot
<1>2. WorldGiven(w)
  BY FramesAssumption, Zenon
<1> HIDE DEF s
<1>3. WorldGiven(s)
  BY <1>1, <1>2, Zenon DEF WorldGiven
<1> QED BY <1>1, <1>3, Zenon DEF s

\* Step, with no decision.
LEMMA StepUndecided ==
    ASSUME FramesInv, made = {}, published.tick < TickLimit, NEW w \in Worlds,
           made' = {Snapshot(published.tick + 1, w, published.movement)}, UNCHANGED exchange,
           sent' = {}, UNCHANGED <<published, registered, held, delivered, shown, refused>>
    PROVE  FramesInv'
<1> DEFINE s == Snapshot(published.tick + 1, w, published.movement)
<1>1. s.tick = published.tick + 1 /\ s.movement = published.movement /\ WorldGiven(s)
  BY SnapshotMade, Zenon
<1>2. /\ published.tick \in 0 .. TickLimit
      /\ published.movement.revision \in 0 .. SafeMaximum /\ published.movement.effective \in 0 .. published.tick
      /\ published.movement.revision = 0 <=> published.movement.effective = 0
  BY Zenon DEF FramesInv, SnapshotsSound, SnapshotSound
<1>3. TickLimit \in Nat
  BY FramesAssumption
<1>4. s.tick \in 0 .. TickLimit /\ s.movement.effective \in 0 .. s.tick
  <2> HIDE DEF s
  <2> QED BY <1>1, <1>2, <1>3
<1> HIDE DEF s
<1>5. SnapshotSound(s)
  BY <1>1, <1>2, <1>4, Zenon DEF SnapshotSound
<1>6. made' = {s}
  BY DEF s
<1>7. SnapshotsSound'
  BY <1>1, <1>5, <1>6, Zenon DEF FramesInv, SnapshotsSound
<1>8. ASSUME NEW r \in exchange
      PROVE  /\ wire_result_accepted(r)
             /\ \A t \in r.decision_tick : t <= published.tick
             /\ CoveredBy(r, published) /\ CoveredBy(r, s)
             /\ \A o \in held : CoveredBy(r, o)
  <2>1. /\ wire_result_accepted(r)
        /\ \A t \in r.decision_tick : t <= published.tick
        /\ CoveredBy(r, published)
        /\ \A o \in held : CoveredBy(r, o)
    BY Zenon DEF FramesInv, ExchangeSound
  <2>2. \A n \in r.revision : n <= published.movement.revision
    BY <2>1, Zenon DEF CoveredBy
  <2>3. CoveredBy(r, s)
    BY <1>1, <2>2, Zenon DEF CoveredBy
  <2> QED BY <2>1, <2>3
<1>9. ExchangeSound'
  BY <1>6, <1>8, Zenon DEF ExchangeSound
<1>10. CountsSound'
  BY Zenon DEF FramesInv, CountsSound
<1>11. FramesConform'
  BY QuietConforms, Zenon DEF FramesInv
<1> QED BY <1>7, <1>9, <1>10, <1>11, Zenon DEF FramesInv

\* Step, with a decision.
LEMMA StepDecided ==
    ASSUME FramesInv, made = {}, published.tick < TickLimit, NEW w \in Worlds, exchange = {},
           NEW d \in Decisions(published.movement, published.tick + 1),
           made' = {Snapshot(published.tick + 1, w, d.movement)}, exchange' = {d.result},
           sent' = {}, UNCHANGED <<published, registered, held, delivered, shown, refused>>
    PROVE  FramesInv'
<1> DEFINE s == Snapshot(published.tick + 1, w, d.movement)
<1>1. s.tick = published.tick + 1 /\ s.movement = d.movement /\ WorldGiven(s)
  BY SnapshotMade, Zenon
<1>2. /\ published.tick \in 0 .. TickLimit
      /\ published.movement.revision \in 0 .. SafeMaximum /\ published.movement.effective \in 0 .. published.tick
      /\ published.movement.revision = 0 <=> published.movement.effective = 0
  BY Zenon DEF FramesInv, SnapshotsSound, SnapshotSound
<1>3. TickLimit \in Nat
  BY FramesAssumption
<1>4. DecisionSound(d, published.tick + 1)
  <2> DEFINE instant == published.tick + 1
  <2>1. instant \in 1 .. TickLimit /\ published.movement.effective \in 0 .. instant
    BY <1>2, <1>3
  <2> HIDE DEF instant
  <2>2. d \in Decisions(published.movement, instant)
    BY DEF instant
  <2>3. DecisionSound(d, instant)
    BY <1>2, <2>1, <2>2, DecisionsSound, Zenon
  <2> QED BY <2>3 DEF instant
<1> HIDE DEF s
<1>5. s.tick \in 0 .. TickLimit
  BY <1>1, <1>2, <1>3
<1>6. SnapshotSound(s)
  BY <1>1, <1>4, <1>5, Zenon DEF SnapshotSound, DecisionSound
<1>7. made' = {s}
  BY DEF s
<1>8. SnapshotsSound'
  BY <1>1, <1>6, <1>7, Zenon DEF FramesInv, SnapshotsSound
<1> DEFINE r == d.result
<1>9. /\ wire_result_accepted(r) /\ r.decision_tick # {}
      /\ \A t \in r.decision_tick : t = published.tick + 1
      /\ \A n \in r.revision : n <= s.movement.revision
  BY <1>1, <1>4, Zenon DEF DecisionSound
<1> HIDE DEF r
<1>10. \A t \in r.decision_tick : t <= published.tick + 1
  BY <1>2, <1>9
<1>11. CoveredBy(r, s)
  BY <1>9, Zenon DEF CoveredBy
<1>12. ASSUME NEW o, o.tick \in 0 .. published.tick PROVE CoveredBy(r, o)
  <2>1. PICK t \in r.decision_tick : TRUE
    BY <1>9, Zenon
  <2>2. t = published.tick + 1
    BY <1>9, Zenon
  <2>3. ~ (t <= o.tick)
    BY <1>2, <1>12, <2>2
  <2> QED BY <2>1, <2>3, Zenon DEF CoveredBy
<1>13. published.tick \in 0 .. published.tick /\ \A o \in held : o.tick \in 0 .. published.tick
  <2>1. \A o \in held : o.tick \in 1 .. published.tick
    BY Zenon DEF FramesInv, SnapshotsSound
  <2> QED BY <1>2, <2>1
<1>14. CoveredBy(r, published) /\ \A o \in held : CoveredBy(r, o)
  BY <1>12, <1>13, Zenon
<1>15. ExchangeSound'
  <2>1. exchange' = {r} /\ made' # {}
    BY <1>7, Zenon DEF r
  <2> QED BY <1>7, <1>9, <1>10, <1>11, <1>14, <2>1, Zenon DEF ExchangeSound
<1>16. CountsSound'
  BY Zenon DEF FramesInv, CountsSound
<1>17. FramesConform'
  BY QuietConforms, Zenon DEF FramesInv
<1> QED BY <1>8, <1>15, <1>16, <1>17, Zenon DEF FramesInv

\* Publish.
LEMMA PublishKeeps ==
    ASSUME FramesInv, Publish
    PROVE  FramesInv'
<1>1. /\ made # {} /\ published' \in made /\ made' = {} /\ sent' = {} /\ exchange' = exchange
      /\ held' = held /\ delivered' = delivered /\ shown' = shown /\ UNCHANGED refused
  BY Zenon DEF Publish
<1>2. SnapshotSound(published') /\ published'.tick = published.tick + 1 /\ published.tick \in 0 .. TickLimit
  BY <1>1, Zenon DEF FramesInv, SnapshotsSound, SnapshotSound
<1>3. TickLimit \in Nat
  BY FramesAssumption
<1>4. SnapshotsSound'
  <2>1. \A s \in held : SnapshotSound(s) /\ s.tick \in 1 .. published.tick
    BY Zenon DEF FramesInv, SnapshotsSound
  <2>2. \A s \in held : SnapshotSound(s) /\ s.tick \in 1 .. published'.tick
    BY <1>2, <1>3, <2>1
  <2>3. \A s, o \in held : s = o
    BY Zenon DEF FramesInv, SnapshotsSound
  <2> QED BY <1>1, <1>2, <2>2, <2>3, Zenon DEF SnapshotsSound
<1>5. ExchangeSound'
  <2>1. ASSUME NEW r \in exchange
        PROVE  /\ wire_result_accepted(r) /\ CoveredBy(r, published')
               /\ \A s \in held : CoveredBy(r, s)
               /\ \A t \in r.decision_tick : t <= published.tick + 1
    <3>1. /\ wire_result_accepted(r) /\ CoveredBy(r, published')
          /\ \A s \in held : CoveredBy(r, s)
          /\ \A t \in r.decision_tick : t <= published.tick \/ t <= published.tick + 1
      BY <1>1, Zenon DEF FramesInv, ExchangeSound
    <3>2. \A t \in r.decision_tick : t \in Int
      <4>1. r.decision_tick = {} \/ \A t \in r.decision_tick : t \in 1 .. SafeMaximum
        BY <3>1, Zenon DEF wire_result_accepted
      <4> QED BY <4>1, FramesAssumption
    <3>3. \A t \in r.decision_tick : t <= published.tick + 1
      BY <1>2, <3>1, <3>2
    <3> QED BY <3>1, <3>3
  <2> QED BY <1>1, <1>2, <2>1, Zenon DEF ExchangeSound
<1>6. CountsSound'
  <2>1. shown \in 0 .. published'.tick
    BY <1>2, <1>3 DEF FramesInv, CountsSound
  <2> QED BY <1>1, <2>1, Zenon DEF FramesInv, CountsSound
<1>7. FramesConform'
  BY <1>1, QuietConforms, Zenon DEF FramesInv
<1> QED BY <1>4, <1>5, <1>6, <1>7, Zenon DEF FramesInv

\* RefuseRequest.
LEMMA RefuseRequestKeeps ==
    ASSUME FramesInv, RefuseRequest
    PROVE  FramesInv'
<1>1. PICK s \in RefusalStatuses : exchange' = {Result(s, {}, {}, IF s = "rate_limited" THEN {500} ELSE {})}
  BY Zenon DEF RefuseRequest
<1>2. /\ sent' = {} /\ made' = made /\ published' = published /\ held' = held
      /\ delivered' = delivered /\ shown' = shown /\ UNCHANGED refused
  BY Zenon DEF RefuseRequest
<1> DEFINE r == Result(s, {}, {}, IF s = "rate_limited" THEN {500} ELSE {})
<1>3. /\ r.status = s /\ r.decision_tick = {} /\ r.revision = {}
      /\ r.retry = IF s = "rate_limited" THEN {500} ELSE {}
  BY DEF Result
<1> HIDE DEF r
<1>4. wire_result_accepted(r)
  BY <1>3 DEF wire_result_accepted, RefusalStatuses, CommittedStatuses
<1>5. \A o : CoveredBy(r, o)
  BY <1>3, Zenon DEF CoveredBy
<1>6. ExchangeSound'
  <2>1. exchange' = {r}
    BY <1>1 DEF r
  <2> QED BY <1>3, <1>4, <1>5, <2>1, Zenon DEF ExchangeSound
<1>7. SnapshotsSound' /\ CountsSound'
  BY <1>2, Zenon DEF FramesInv, SnapshotsSound, CountsSound
<1>8. FramesConform'
  BY <1>2, QuietConforms, Zenon DEF FramesInv
<1> QED BY <1>6, <1>7, <1>8, Zenon DEF FramesInv

\* WriteWelcome.
LEMMA WriteWelcomeKeeps ==
    ASSUME FramesInv, WriteWelcome
    PROVE  FramesInv'
<1>1. /\ delivered = -1 /\ delivered' = 0 /\ made' = made /\ published' = published /\ exchange' = exchange
      /\ held' = held /\ shown' = shown
  BY Zenon DEF WriteWelcome
<1>2. PICK t \in MapTerrains : terrain_accepted(t) /\ Send(encode_welcome_message(Min(controlled_bodies(published)), t))
  BY Zenon DEF WriteWelcome
<1>3. FramesConform'
  BY <1>2, WelcomeSent, SendConforms, Zenon DEF FramesInv
<1>4. SnapshotsSound' /\ ExchangeSound'
  BY <1>1, Zenon DEF FramesInv, SnapshotsSound, ExchangeSound
<1>5. CountsSound'
  BY <1>1 DEF FramesInv, CountsSound
<1> QED BY <1>3, <1>4, <1>5, Zenon DEF FramesInv

\* TakeSnapshot.
LEMMA TakeSnapshotKeeps ==
    ASSUME FramesInv, TakeSnapshot
    PROVE  FramesInv'
<1>1. /\ delivered >= 0 /\ published.tick > shown
      /\ held' = {published} /\ shown' = published.tick /\ sent' = {} /\ UNCHANGED refused
      /\ made' = made /\ published' = published /\ exchange' = exchange /\ delivered' = delivered
  BY Zenon DEF TakeSnapshot
<1>2. shown \in 0 .. published.tick /\ published.tick \in 0 .. TickLimit /\ SnapshotSound(published)
      /\ delivered \in Int /\ delivered <= shown
  BY Zenon DEF FramesInv, SnapshotsSound, SnapshotSound, CountsSound
<1>3. published.tick \in 1 .. published.tick /\ published.tick \in 0 .. published.tick
  BY <1>1, <1>2
<1>4. SnapshotsSound'
  BY <1>1, <1>2, <1>3, Zenon DEF FramesInv, SnapshotsSound
<1>5. ExchangeSound'
  BY <1>1, Zenon DEF FramesInv, ExchangeSound
<1>6. CountsSound'
  <2>1. 0 <= delivered /\ delivered < published.tick /\ delivered <= published.tick /\ delivered >= -1
    BY <1>1, <1>2
  <2> QED BY <1>1, <1>2, <1>3, <2>1, Zenon DEF CountsSound
<1>7. FramesConform'
  BY <1>1, QuietConforms, Zenon DEF FramesInv
<1> QED BY <1>4, <1>5, <1>6, <1>7, Zenon DEF FramesInv

\* What a session writes.
LEMMA WriteSends ==
    ASSUME FramesInv, start_snapshot_write
    PROVE  \E s \in held : \E results \in SUBSET exchange :
              /\ exchange' = exchange \ results
              /\ Fine(encode_snapshot_message_v3(s, results, (delivered + 1) + 1))
              /\ Send(encode_snapshot_message_v3(s, results, (delivered + 1) + 1))
<1>1. PICK s \in held : \E results \in {claim_tuning_result(exchange, s.tick)} :
          /\ exchange' = exchange \ results
          /\ Send(encode_snapshot_message_v3(s, results, (delivered + 1) + 1))
  BY Zenon DEF start_snapshot_write
<1> DEFINE results == claim_tuning_result(exchange, s.tick)
<1>2. /\ exchange' = exchange \ results
      /\ Send(encode_snapshot_message_v3(s, results, (delivered + 1) + 1))
  BY <1>1, Zenon
<1>3. results \subseteq exchange /\ \A r \in results : \A t \in r.decision_tick : t <= s.tick
  BY DEF claim_tuning_result
<1> HIDE DEF results
<1>4. ASSUME NEW r \in results
      PROVE  /\ wire_result_accepted(r) /\ \A t \in r.decision_tick : t <= s.tick
             /\ \A n \in r.revision : n <= s.movement.revision
  <2>1. wire_result_accepted(r) /\ CoveredBy(r, s)
    BY <1>3, Zenon DEF FramesInv, ExchangeSound
  <2> QED BY <1>3, <2>1, Zenon DEF CoveredBy
<1>5. tuning_result_accepted(results, s)
  BY <1>4, Zenon DEF tuning_result_accepted
<1>6. SnapshotSound(s) /\ s.tick \in 1 .. published.tick /\ published.tick \in 0 .. TickLimit
  BY Zenon DEF FramesInv, SnapshotsSound, SnapshotSound
<1>7. /\ 0 <= delivered /\ delivered < shown /\ shown \in 0 .. published.tick /\ delivered \in Int
  BY Zenon DEF FramesInv, CountsSound
<1>8. (delivered + 1) + 1 \in 2 .. SafeMaximum /\ s.tick > 0
  BY <1>6, <1>7, FramesAssumption
<1>9. Fine(encode_snapshot_message_v3(s, results, (delivered + 1) + 1))
  BY <1>5, <1>6, <1>8, SnapshotSent, Zenon
<1> QED BY <1>2, <1>3, <1>9, Zenon

\* start_snapshot_write.
LEMMA WriteKeeps ==
    ASSUME FramesInv, start_snapshot_write
    PROVE  FramesInv'
<1>1. PICK s \in held : \E results \in SUBSET exchange :
              /\ exchange' = exchange \ results
              /\ Fine(encode_snapshot_message_v3(s, results, (delivered + 1) + 1))
              /\ Send(encode_snapshot_message_v3(s, results, (delivered + 1) + 1))
  BY WriteSends, Zenon
<1>2. PICK results \in SUBSET exchange :
              /\ exchange' = exchange \ results
              /\ Fine(encode_snapshot_message_v3(s, results, (delivered + 1) + 1))
              /\ Send(encode_snapshot_message_v3(s, results, (delivered + 1) + 1))
  BY <1>1, Zenon
<1>3. /\ held' = {} /\ delivered' = delivered + 1 /\ made' = made /\ published' = published /\ shown' = shown
  BY Zenon DEF start_snapshot_write
<1>4. FramesConform'
  BY <1>2, SendConforms, Zenon DEF FramesInv
<1>5. SnapshotsSound'
  BY <1>3, Zenon DEF FramesInv, SnapshotsSound
<1>6. ExchangeSound'
  <2>1. exchange' \subseteq exchange
    BY <1>2, Zenon
  <2> QED BY <1>3, <2>1, Zenon DEF FramesInv, ExchangeSound
<1>7. CountsSound'
  <2>1. /\ 0 <= delivered /\ delivered < shown /\ shown \in 0 .. published.tick /\ delivered \in Int
        /\ published.tick \in 0 .. TickLimit
    BY Zenon DEF FramesInv, CountsSound, SnapshotsSound, SnapshotSound
  <2>2. delivered + 1 \in Int /\ delivered + 1 >= -1 /\ delivered + 1 <= shown
    BY <2>1, FramesAssumption
  <2> QED BY <1>3, <2>1, <2>2, Zenon DEF CountsSound
<1> QED BY <1>4, <1>5, <1>6, <1>7, Zenon DEF FramesInv

\* AnswerRequest.
LEMMA AnswerRequestKeeps ==
    ASSUME FramesInv, AnswerRequest
    PROVE  FramesInv'
<1>1. UNCHANGED <<made, published, exchange, registered, held, delivered, shown>>
  BY Zenon DEF AnswerRequest
<1>2. SnapshotSound(published)
  BY Zenon DEF FramesInv, SnapshotsSound
<1>3. ASSUME NEW sessions \in {0, SeatMaximum},
             Send(encode_lobby_directory_message(lobby_listing_of(published, sessions, SeatMaximum)))
      PROVE  FramesConform'
  <2> DEFINE messages == encode_lobby_directory_message(lobby_listing_of(published, sessions, SeatMaximum))
  <2>1. Fine(messages) /\ Send(messages) /\ FramesConform
    BY <1>2, <1>3, DirectorySent, Zenon DEF FramesInv
  <2> HIDE DEF messages
  <2> QED BY <2>1, SendConforms, Zenon
<1>4. ASSUME NEW e \in RouterErrors, Send(encode_error_response_v3(e[1], e[2]))
      PROVE  FramesConform'
  <2> DEFINE messages == encode_error_response_v3(e[1], e[2])
  <2>1. Fine(messages) /\ Send(messages) /\ FramesConform
    BY <1>4, ErrorSent, Zenon DEF FramesInv
  <2> HIDE DEF messages
  <2> QED BY <2>1, SendConforms, Zenon
<1>5. FramesConform'
  <2>1. \/ \E sessions \in {0, SeatMaximum} :
              Send(encode_lobby_directory_message(lobby_listing_of(published, sessions, SeatMaximum)))
        \/ \E e \in RouterErrors : Send(encode_error_response_v3(e[1], e[2]))
    BY Zenon DEF AnswerRequest
  <2> QED BY <1>3, <1>4, <2>1, Zenon
<1>6. SnapshotsSound' /\ ExchangeSound' /\ CountsSound'
  BY <1>1, Zenon DEF FramesInv, SnapshotsSound, ExchangeSound, CountsSound
<1> QED BY <1>5, <1>6, Zenon DEF FramesInv

\* Every step.
LEMMA FramesStepKeeps ==
    ASSUME FramesInv, [FramesNext]_frameVars
    PROVE  FramesInv'
<1>1. CASE Step
  <2>1. made = {} /\ published.tick < TickLimit /\ sent' = {}
        /\ UNCHANGED <<published, registered, held, delivered, shown, refused>>
    BY <1>1, Zenon DEF Step
  <2>2. PICK w \in Worlds :
          \/ made' = {Snapshot(published.tick + 1, w, published.movement)} /\ UNCHANGED exchange
          \/ /\ exchange = {}
             /\ \E d \in Decisions(published.movement, published.tick + 1) :
                   made' = {Snapshot(published.tick + 1, w, d.movement)} /\ exchange' = {d.result}
    BY <1>1, Zenon DEF Step
  <2>3. CASE made' = {Snapshot(published.tick + 1, w, published.movement)} /\ UNCHANGED exchange
    BY <2>1, <2>3, StepUndecided, Zenon
  <2>4. CASE /\ exchange = {}
             /\ \E d \in Decisions(published.movement, published.tick + 1) :
                   made' = {Snapshot(published.tick + 1, w, d.movement)} /\ exchange' = {d.result}
    BY <2>1, <2>4, StepDecided, Zenon
  <2> QED BY <2>2, <2>3, <2>4, Zenon
<1>2. CASE LeaveDirectory
  <2>1. /\ sent' = {} /\ made' = made /\ published' = published /\ held' = held /\ exchange' = exchange
        /\ delivered' = delivered /\ shown' = shown /\ UNCHANGED refused
    BY <1>2, Zenon DEF LeaveDirectory
  <2>2. FramesConform'
    BY <2>1, QuietConforms, Zenon DEF FramesInv
  <2> QED BY <2>1, <2>2, Zenon DEF FramesInv, SnapshotsSound, ExchangeSound, CountsSound
<1>3. CASE UNCHANGED frameVars
  BY <1>3, Zenon DEF frameVars, FramesInv, SnapshotsSound, ExchangeSound, CountsSound, FramesConform
<1> QED
  BY <1>1, <1>2, <1>3, PublishKeeps, RefuseRequestKeeps, WriteWelcomeKeeps, TakeSnapshotKeeps, WriteKeeps,
     AnswerRequestKeeps, Zenon DEF FramesNext

\* What the engine publishes can always be encoded, whatever the moment, and
\* what is encoded conforms, over any worlds, maps, kinds and limits
\* (session_websocket_session.cpp:657, protocol_v3_frame_conformance.cpp).
THEOREM FramesAlwaysConform == FramesSpec => []FramesConform
<1>1. FramesInit => FramesInv
  BY FramesBegin
<1>2. FramesInv /\ [FramesNext]_frameVars => FramesInv'
  BY FramesStepKeeps
<1>3. FramesInv => FramesConform
  BY DEF FramesInv
<1> QED BY <1>1, <1>2, <1>3, PTL DEF FramesSpec

---------------------------------------------------------------------------
(* ServerFrames: a snapshot message is its snapshot.                       *)

Shows(s, m) ==
    /\ {m.data.entities[i].id : i \in DOMAIN m.data.entities} = UNION {DOMAIN s.stores[k] : k \in ComponentKinds}
    /\ \A i \in DOMAIN m.data.entities :
          DOMAIN m.data.entities[i].components = {k \in ComponentKinds : m.data.entities[i].id \in DOMAIN s.stores[k]}

\* The message of a snapshot shows it.
LEMMA MessageShows ==
    ASSUME NEW s, SnapshotSound(s), NEW results, NEW sequence, NEW m \in encode_snapshot_message_v3(s, results, sequence)
    PROVE  Shows(s, m)
<1> DEFINE q == encode_entities(s)
<1>1. m.data.entities = q
  <2> DEFINE data == [tick |-> s.tick, entities |-> encode_entities(s), seats |-> encode_seats(s.seats),
                      movement |-> s.movement, tuning_result |-> results]
  <2>1. m = Message("snapshot", sequence, data)
    BY Zenon DEF encode_snapshot_message_v3
  <2>2. m.data = data
    BY <2>1, Zenon DEF Message
  <2>3. data.entities = encode_entities(s)
    BY Zenon
  <2> QED BY <2>2, <2>3, Zenon
<1>2. ShowsEvery(s.stores, q)
  BY GivenStorable, EncodedWhole, Zenon DEF SnapshotSound
<1> HIDE DEF q
<1>3. /\ DOMAIN q = 1 .. Len(q)
      /\ \A i \in 1 .. Len(q) : q[i].id \in Entities(s.stores) /\ DOMAIN q[i].components = Holding(s.stores, q[i].id)
      /\ \A e \in Entities(s.stores) : \E i \in 1 .. Len(q) : q[i].id = e
  BY <1>2, Zenon DEF ShowsEvery
<1>4. {q[i].id : i \in DOMAIN q} = Entities(s.stores)
  <2> DEFINE n == Len(q)
  <2> HIDE DEF n
  <2> QED BY <1>3 DEF n
<1>5. {q[i].id : i \in DOMAIN q} = UNION {DOMAIN s.stores[k] : k \in ComponentKinds}
  BY <1>4, Zenon DEF Entities
<1>6. \A i \in DOMAIN q : DOMAIN q[i].components = {k \in ComponentKinds : q[i].id \in DOMAIN s.stores[k]}
  BY <1>3, Zenon DEF Holding
<1> DEFINE o == m.data.entities
<1>7. /\ {o[i].id : i \in DOMAIN o} = UNION {DOMAIN s.stores[k] : k \in ComponentKinds}
      /\ \A i \in DOMAIN o : DOMAIN o[i].components = {k \in ComponentKinds : o[i].id \in DOMAIN s.stores[k]}
  <2>1. o = q
    BY <1>1
  <2> HIDE DEF o
  <2> QED BY <1>5, <1>6, <2>1
<1> QED BY <1>7, Zenon DEF Shows

\* A snapshot message shows every entity of its snapshot with exactly the
\* components it has there, over any worlds and kinds (emit_component_of_kind).
THEOREM FramesAlwaysComplete == FramesSpec => FramesAreComplete
<1>1. FramesInit => FramesInv
  BY FramesBegin
<1>2. FramesInv /\ [FramesNext]_frameVars => FramesInv'
  BY FramesStepKeeps
<1> DEFINE All == sent' # sent => \A s \in held, m \in sent' : m.schema = "snapshot" =>
         /\ {m.data.entities[i].id : i \in DOMAIN m.data.entities} = UNION {DOMAIN s.stores[k] : k \in ComponentKinds}
         /\ \A i \in DOMAIN m.data.entities :
               DOMAIN m.data.entities[i].components = {k \in ComponentKinds : m.data.entities[i].id \in DOMAIN s.stores[k]}
<1>3. ASSUME FramesInv, [FramesNext]_frameVars PROVE [All]_frameVars
  <2> SUFFICES ASSUME FramesNext, sent' # sent, NEW s \in held, NEW m \in sent', m.schema = "snapshot"
               PROVE  Shows(s, m)
    BY <1>3, Zenon DEF Shows
  <2>1. sent' # {}
    OBVIOUS
  <2>2. ASSUME NEW messages, Send(messages) PROVE m \in messages
    BY <2>2, Zenon DEF Send
  <2>3. CASE WriteWelcome
    <3>1. PICK t \in MapTerrains : Send(encode_welcome_message(Min(controlled_bodies(published)), t))
      BY <2>3, Zenon DEF WriteWelcome
    <3>2. m \in encode_welcome_message(Min(controlled_bodies(published)), t)
      BY <2>2, <3>1, Zenon
    <3>3. m.schema = "welcome"
      BY <3>2 DEF encode_welcome_message, Message
    <3> QED BY <3>3
  <2>4. CASE AnswerRequest
    <3>1. m.schema \in {"directory", "error"}
      <4>1. CASE \E sessions \in {0, SeatMaximum} :
                   Send(encode_lobby_directory_message(lobby_listing_of(published, sessions, SeatMaximum)))
        <5>1. \E l : m \in encode_lobby_directory_message(l)
          BY <2>2, <4>1, Zenon
        <5> QED BY <5>1 DEF encode_lobby_directory_message, Message
      <4>2. CASE \E e \in RouterErrors : Send(encode_error_response_v3(e[1], e[2]))
        <5>1. \E c, d : m \in encode_error_response_v3(c, d)
          BY <2>2, <4>2, Zenon
        <5> QED BY <5>1 DEF encode_error_response_v3, Message
      <4> QED BY <2>4, <4>1, <4>2, Zenon DEF AnswerRequest
    <3> QED BY <3>1
  <2>5. CASE start_snapshot_write
    <3>1. PICK o \in held : \E results \in {claim_tuning_result(exchange, o.tick)} :
             Send(encode_snapshot_message_v3(o, results, (delivered + 1) + 1))
      BY <2>5, Zenon DEF start_snapshot_write
    <3>2. o = s /\ SnapshotSound(s)
      BY <1>3, Zenon DEF FramesInv, SnapshotsSound
    <3>3. \E results : m \in encode_snapshot_message_v3(s, results, (delivered + 1) + 1)
      BY <2>2, <3>1, <3>2, Zenon
    <3> QED BY <3>2, <3>3, MessageShows, Zenon
  <2> QED BY <2>1, <2>3, <2>4, <2>5, Zenon
             DEF FramesNext, Step, Publish, RefuseRequest, LeaveDirectory, TakeSnapshot
<1>4. FramesAreComplete <=> [][All]_frameVars
  BY DEF FramesAreComplete
<1> QED BY <1>1, <1>2, <1>3, <1>4, PTL DEF FramesSpec
=============================================================================
