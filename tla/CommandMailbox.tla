--------------------------- MODULE CommandMailbox ---------------------------
(***************************************************************************)
(* runtime::CommandMailbox: the bounded buffer between every command       *)
(* source and one tick, and the tuning exchange each open controller has   *)
(* in it.  mutex_ makes every public operation one atomic step, so each is *)
(* one action.  Any thread may submit; the one runtime worker drains,      *)
(* steps and hands the step's tuning decisions back.                       *)
(*                                                                         *)
(* A command is its kind, the identity it addresses (its ordering key) and *)
(* for a tuning command its request id; all other payload is left out.     *)
(***************************************************************************)
EXTENDS Integers, Sequences, FiniteSetsExt, SequencesExt

CONSTANTS
  Controllers,      \* controller ids a session may be issued
  Keys,             \* identities that non-tuning commands address
  Kinds,            \* kinds that are submitted, "leave" included, "tuning" not
  LifecycleKinds,   \* is_entity_lifecycle_command: never evicted
  AcceptedKinds,    \* accepted_kinds_: what the running mode takes
  Capacity,         \* kMaximumMailboxCommandCount
  MaxExchanges,     \* kMaximumControllerDirectoryEntryCount
  MaxRequestId,     \* kMaximumProtocolSafeInteger
  Millisecond,      \* clock units in a millisecond
  IntervalMs,       \* kMovementTuningMinimumIntervalMilliseconds
  MaxSubmissions,   \* bound: submissions in one behaviour
  MaxTick,          \* bound: ticks that find the mailbox empty
  MaxTime           \* bound: clock

ASSUME CapacityAssumption == Capacity \in Nat \ {0}
ASSUME KindsAssumption ==
  /\ "leave" \in Kinds \cap LifecycleKinds
  /\ "tuning" \notin Kinds \cup LifecycleKinds
ASSUME KeysAssumption == Controllers \subseteq Keys
ASSUME BoundsAssumption ==
  /\ MaxExchanges \in Nat /\ MaxRequestId \in Nat
  /\ Millisecond \in Nat \ {0} /\ IntervalMs \in Nat \ {0}
  /\ MaxSubmissions \in Nat /\ MaxTick \in Nat /\ MaxTime \in Nat

VARIABLES
  pending,    \* pending_, in submission order
  exchanges,  \* tuning_exchanges_, by open controller
  stats,      \* statistics_
  now,        \* steady_clock
  batch,      \* the drained commands the worker is stepping
  stepping,   \* the worker is between drain and complete_tuning_decisions
  tick,       \* last committed tick
  retired,    \* history: controllers that were retired (ids are never reissued)
  lost,       \* history: controllers whose leave was refused
  evicted,    \* history: pending commands evicted for a lifecycle command
  claims      \* history: request ids whose result was claimed, by controller

vars == <<pending, exchanges, stats, now, batch, stepping, tick, retired, lost, evicted, claims>>
worker == <<batch, stepping, tick>>

Counters == {"submitted", "accepted", "superseded", "dropped", "dropped_lifecycle",
             "rejected_unaccepted_kind", "rejected_tuning", "rate_limited", "drains", "drained"}

Command(kind, key, request) == [kind |-> kind, key |-> key, request |-> request]

NoResult == [status |-> "none", tick |-> 0, retry |-> 0]
Refusal(status, retry) == [status |-> status, tick |-> 0, retry |-> retry]
Decision(t) == [status |-> "decision", tick |-> t, retry |-> 0]

\* A new TuningExchange; request 0 stands for "no request id".
NewExchange == [high_water |-> 0, next_eligible |-> 0, request |-> 0, result |-> NoResult]

Init ==
  /\ pending = <<>>
  /\ exchanges = [c \in {} |-> NewExchange]
  /\ stats = [f \in Counters |-> 0]
  /\ now = 0
  /\ batch = <<>>
  /\ stepping = FALSE
  /\ tick = 0
  /\ retired = {}
  /\ lost = {}
  /\ evicted = 0
  /\ claims = [c \in Controllers |-> <<>>]

Count(fields) == [f \in Counters |-> IF f \in fields THEN stats[f] + 1 ELSE stats[f]]

-----------------------------------------------------------------------------
(* Searching pending_ *)

\* find_pending_slot_locked: the slots that hold a command of this kind for this identity.
SlotsOf(command) ==
  {i \in DOMAIN pending : pending[i].kind = command.kind /\ pending[i].key = command.key}

\* find_evictable_slot_locked: the slots an incoming lifecycle command may take.
EvictableSlots == {i \in DOMAIN pending : pending[i].kind \notin LifecycleKinds}

\* The index at which such a search stops.
IsOldest(slot, slots) == slot \in slots /\ \A other \in slots : slot <= other

\* Mutant of RecordTuningEviction: the exchange is not told.
RecordNoEviction(open, command) == open

\* record_tuning_eviction_locked: the exchange of an evicted tuning command learns of it.
RecordTuningEviction(open, command) ==
  IF /\ command.kind = "tuning"
     /\ command.key \in DOMAIN open
     /\ open[command.key].request = command.request
     /\ open[command.key].result = NoResult
  THEN [open EXCEPT ![command.key].result = Refusal("mailbox_evicted", 0)]
  ELSE open

-----------------------------------------------------------------------------
(* submit_locked, one action per outcome.  open is tuning_exchanges_ as the *)
(* calling operation leaves it.                                             *)

RejectUnaccepted(command, open) ==
  /\ command.kind \notin AcceptedKinds
  /\ stats' = Count({"submitted", "rejected_unaccepted_kind"})
  /\ exchanges' = open
  /\ UNCHANGED <<pending, evicted>>

Supersede(command, open) ==
  /\ command.kind \in AcceptedKinds
  /\ \E slot \in DOMAIN pending :
       /\ IsOldest(slot, SlotsOf(command))
       /\ pending' = [pending EXCEPT ![slot] = command]
  /\ stats' = Count({"submitted", "accepted", "superseded"})
  /\ exchanges' = open
  /\ UNCHANGED evicted

Store(command, open) ==
  /\ command.kind \in AcceptedKinds
  /\ SlotsOf(command) = {}
  /\ Len(pending) < Capacity
  /\ pending' = Append(pending, command)
  /\ stats' = Count({"submitted", "accepted"})
  /\ exchanges' = open
  /\ UNCHANGED evicted

EvictAndStore(command, open) ==
  /\ command.kind \in AcceptedKinds \cap LifecycleKinds
  /\ SlotsOf(command) = {}
  /\ Len(pending) >= Capacity
  /\ \E slot \in DOMAIN pending :
       /\ IsOldest(slot, EvictableSlots)
       /\ exchanges' = RecordTuningEviction(open, pending[slot])
       /\ pending' = Append(RemoveAt(pending, slot), command)
  /\ stats' = Count({"submitted", "accepted", "dropped"})
  /\ evicted' = evicted + 1

\* The only outcome of submit_locked, besides an unaccepted kind, that refuses the command.
DropWhenFull(command, open) ==
  /\ command.kind \in AcceptedKinds
  /\ SlotsOf(command) = {}
  /\ Len(pending) >= Capacity
  /\ command.kind \in LifecycleKinds => EvictableSlots = {}
  /\ stats' = Count({"submitted", "dropped"} \cup
                    (IF command.kind \in LifecycleKinds THEN {"dropped_lifecycle"} ELSE {}))
  /\ exchanges' = open
  /\ UNCHANGED <<pending, evicted>>

\* kAccepted and kSuperseded.
Accept(command, open) ==
  Supersede(command, open) \/ Store(command, open) \/ EvictAndStore(command, open)

\* kRejectedUnacceptedKind and kDroppedMailboxFull.
Refuse(command, open) == RejectUnaccepted(command, open) \/ DropWhenFull(command, open)

-----------------------------------------------------------------------------
(* The public operations *)

\* submit, for every kind but tuning.
Submit(kind, key) ==
  /\ stats["submitted"] < MaxSubmissions
  /\ LET command == Command(kind, key, 0)
     IN  Accept(command, exchanges) \/ Refuse(command, exchanges)
  /\ UNCHANGED <<worker, now, retired, lost, claims>>

\* register_controller; the sink issues every controller id once.
RegisterController(c) ==
  /\ c \notin retired
  /\ c \notin DOMAIN exchanges
  /\ Cardinality(DOMAIN exchanges) < MaxExchanges
  /\ exchanges' = [d \in DOMAIN exchanges \cup {c} |->
                     IF d = c THEN NewExchange ELSE exchanges[d]]
  /\ UNCHANGED <<worker, pending, stats, now, retired, lost, evicted, claims>>

\* retire_controller: the exchange is erased and a leave submitted, whose outcome is discarded.
RetireController(c) ==
  /\ stats["submitted"] < MaxSubmissions
  /\ c \in DOMAIN exchanges
  /\ retired' = retired \cup {c}
  /\ LET open == [d \in DOMAIN exchanges \ {c} |-> exchanges[d]]
         leave == Command("leave", c, 0)
     IN  \/ Accept(leave, open) /\ UNCHANGED lost
         \/ Refuse(leave, open) /\ lost' = lost \cup {c}
  /\ UNCHANGED <<worker, now, claims>>

\* Mutant of RetryAfter: rounded down, and no lower bound.
RetryAfterRoundedDown(eligible, at) == (eligible - at) \div Millisecond

\* Milliseconds a rate-limited client is told to wait: rounded up, and within 1 .. IntervalMs.
RetryAfter(eligible, at) ==
  LET remaining == (eligible - at + Millisecond - 1) \div Millisecond
  IN  IF remaining < 1 THEN 1 ELSE IF remaining > IntervalMs THEN IntervalMs ELSE remaining

\* submit_tuning refuses without touching the exchange (unaccepted kind, no open session, request
\* id or revision out of range, request id not above the high water mark).
RejectTuning(c, request, revision_ok) ==
  /\ stats["submitted"] < MaxSubmissions
  /\ IF "tuning" \notin AcceptedKinds
     THEN stats' = Count({"submitted", "rejected_unaccepted_kind"})
     ELSE /\ (c \in DOMAIN exchanges /\ request \in 1 .. MaxRequestId /\ revision_ok)
               => request <= exchanges[c].high_water
          /\ stats' = Count({"submitted", "rejected_tuning"})
  /\ UNCHANGED <<worker, pending, exchanges, now, retired, lost, evicted, claims>>

\* The conditions under which submit_tuning advances the high water mark.
FreshRequest(c, request) ==
  /\ stats["submitted"] < MaxSubmissions
  /\ "tuning" \in AcceptedKinds
  /\ c \in DOMAIN exchanges
  /\ request \in 1 .. MaxRequestId
  /\ request > exchanges[c].high_water

\* A second request while one is unresolved: refused, and its id is spent.
RejectTuningInFlight(c, request) ==
  /\ FreshRequest(c, request)
  /\ exchanges[c].request # 0
  /\ exchanges' = [exchanges EXCEPT ![c].high_water = request]
  /\ stats' = Count({"submitted", "rejected_tuning"})
  /\ UNCHANGED <<worker, pending, now, retired, lost, evicted, claims>>

\* Too soon after the last admitted request: the request is resolved at once, with advice.
RateLimitTuning(c, request, at) ==
  /\ FreshRequest(c, request)
  /\ exchanges[c].request = 0
  /\ at < exchanges[c].next_eligible
  /\ exchanges' = [exchanges EXCEPT
                     ![c].high_water = request,
                     ![c].request = request,
                     ![c].result = Refusal("rate_limited",
                                           RetryAfter(exchanges[c].next_eligible, at))]
  /\ stats' = Count({"submitted", "rate_limited"})
  /\ UNCHANGED <<worker, pending, now, retired, lost, evicted, claims>>

\* Mutant of AdmitTuning: a full mailbox leaves the request unresolved.
AdmitTuningUnresolved(c, request, at) ==
  /\ FreshRequest(c, request)
  /\ exchanges[c].request = 0
  /\ at >= exchanges[c].next_eligible
  /\ LET opened == [exchanges EXCEPT
                      ![c].high_water = request,
                      ![c].request = request,
                      ![c].next_eligible = at + IntervalMs * Millisecond]
         command == Command("tuning", c, request)
     IN  Accept(command, opened) \/ DropWhenFull(command, opened)
  /\ UNCHANGED <<worker, now, retired, lost, claims>>

\* The request is admitted to the mailbox, or resolved as mailbox_full.
AdmitTuning(c, request, at) ==
  /\ FreshRequest(c, request)
  /\ exchanges[c].request = 0
  /\ at >= exchanges[c].next_eligible
  /\ LET command == Command("tuning", c, request)
         opened == [exchanges EXCEPT
                      ![c].high_water = request,
                      ![c].request = request,
                      ![c].next_eligible = at + IntervalMs * Millisecond]
         full == [opened EXCEPT ![c].result = Refusal("mailbox_full", 0)]
     IN  Accept(command, opened) \/ DropWhenFull(command, full)
  /\ UNCHANGED <<worker, now, retired, lost, claims>>

\* drain: the worker takes every pending command.
Drain ==
  /\ ~stepping
  /\ pending # <<>> \/ tick < MaxTick
  /\ batch' = pending
  /\ pending' = <<>>
  /\ stepping' = TRUE
  /\ stats' = [stats EXCEPT !["drains"] = @ + 1, !["drained"] = @ + Len(pending)]
  /\ UNCHANGED <<exchanges, now, tick, retired, lost, evicted, claims>>

\* The batch holds controller c's unresolved request.
Decides(c) ==
  /\ exchanges[c].result = NoResult
  /\ \E i \in DOMAIN batch : batch[i] = Command("tuning", c, exchanges[c].request)

\* complete_tuning_decisions, after a step that committed the next tick.
CompleteTuningDecisions ==
  /\ stepping
  /\ exchanges' = [c \in DOMAIN exchanges |->
                     IF Decides(c) THEN [exchanges[c] EXCEPT !.result = Decision(tick + 1)]
                                   ELSE exchanges[c]]
  /\ tick' = tick + 1
  /\ stepping' = FALSE
  /\ batch' = <<>>
  /\ UNCHANGED <<pending, stats, now, retired, lost, evicted, claims>>

\* claim_tuning_result with the tick of the snapshot about to be written: a decision is handed out
\* only with a snapshot that covers it.
ClaimTuningResult(c, covering) ==
  /\ c \in DOMAIN exchanges
  /\ exchanges[c].result # NoResult
  /\ exchanges[c].result.tick <= covering
  /\ exchanges' = [exchanges EXCEPT ![c].result = NoResult, ![c].request = 0]
  /\ claims' = [claims EXCEPT ![c] = Append(@, exchanges[c].request)]
  /\ UNCHANGED <<worker, pending, stats, now, retired, lost, evicted>>

\* Time passes (external).
ClockAdvances ==
  /\ now < MaxTime
  /\ now' = now + 1
  /\ UNCHANGED <<worker, pending, exchanges, stats, retired, lost, evicted, claims>>

\* submit reads the clock before submit_tuning locks mutex_, so the time it uses may be stale.
TuningRequest(c, request) ==
  \/ \E revision_ok \in BOOLEAN : RejectTuning(c, request, revision_ok)
  \/ RejectTuningInFlight(c, request)
  \/ \E at \in 0 .. now : RateLimitTuning(c, request, at) \/ AdmitTuning(c, request, at)

Next ==
  \/ \E kind \in Kinds, key \in Keys : Submit(kind, key)
  \/ \E c \in Controllers : RegisterController(c) \/ RetireController(c)
  \/ \E c \in Controllers, request \in 0 .. MaxRequestId + 1 : TuningRequest(c, request)
  \/ \E c \in Controllers, covering \in 0 .. tick : ClaimTuningResult(c, covering)
  \/ Drain
  \/ CompleteTuningDecisions
  \/ ClockAdvances

Spec == Init /\ [][Next]_vars

(***************************************************************************)
(* The runtime worker keeps ticking.  Nothing is assumed of the sessions.  *)
(***************************************************************************)
Fairness == WF_vars(Drain) /\ WF_vars(CompleteTuningDecisions)
FairSpec == Spec /\ Fairness

-----------------------------------------------------------------------------
(* Properties *)

Commands == [kind : Kinds \cup {"tuning"}, key : Keys, request : Nat]
Results == [status : {"none", "rate_limited", "mailbox_full", "mailbox_evicted", "decision"},
            tick : Nat, retry : Nat]
Exchanges == [high_water : Nat, next_eligible : Nat, request : Nat, result : Results]

\* Every variable has its type; open exchanges belong to controllers that were not retired.
TypeOK ==
  /\ pending \in Seq(Commands)
  /\ DOMAIN exchanges \subseteq Controllers \ retired
  /\ exchanges \in [DOMAIN exchanges -> Exchanges]
  /\ stats \in [Counters -> Nat]
  /\ now \in Nat /\ tick \in Nat /\ evicted \in Nat
  /\ batch \in Seq(Commands)
  /\ stepping \in BOOLEAN
  /\ retired \subseteq Controllers
  /\ lost \subseteq retired
  /\ claims \in [Controllers -> Seq(Nat)]

\* "One client spamming thrusts occupies one slot": the capacity bounds distinct commanded
\* identities, through supersession, eviction and drains.
OneSlotPerIdentity ==
  /\ Len(pending) <= Capacity
  /\ \A i, j \in DOMAIN pending :
       i # j => pending[i].kind # pending[j].kind \/ pending[i].key # pending[j].key

\* Conservation: every submission is accepted or refused, and every accepted command is pending,
\* drained, superseded or evicted.  No command is counted twice and none disappears uncounted.
Conservation ==
  /\ stats["accepted"] = Len(pending) + stats["drained"] + stats["superseded"] + evicted
  /\ stats["submitted"] = stats["accepted"] + (stats["dropped"] - evicted)
                          + stats["rejected_unaccepted_kind"] + stats["rejected_tuning"]
                          + stats["rate_limited"]

\* An unresolved tuning request is where its answer can still come from: pending in the mailbox,
\* in the batch the worker is stepping, or resolved and waiting to be claimed.
TuningRequestIsNeverLost ==
  \A c \in DOMAIN exchanges :
    exchanges[c].request # 0 /\ exchanges[c].result = NoResult =>
      LET command == Command("tuning", c, exchanges[c].request)
      IN  (\E i \in DOMAIN pending : pending[i] = command) \/
          (stepping /\ \E i \in DOMAIN batch : batch[i] = command)

\* A result answers the exchange's request; a decision is of a tick that was committed.
ResultAnswersRequest ==
  \A c \in DOMAIN exchanges :
    exchanges[c].result # NoResult =>
      exchanges[c].request # 0 /\ exchanges[c].result.tick <= tick

\* A request id is answered at most once and in order, across refusals, evictions and late
\* completions of an earlier request.
AnsweredOnce ==
  \A c \in Controllers : \A i, j \in DOMAIN claims[c] : i < j => claims[c][i] < claims[c][j]

\* "Never evict a lifecycle command": a pending spawn, despawn, join or leave stays pending for its
\* identity until the worker drains it.
LifecycleIsNeverEvicted ==
  [][\A i \in DOMAIN pending :
       pending[i].kind \in LifecycleKinds =>
         \/ batch' = pending /\ stepping'
         \/ \E j \in DOMAIN pending' :
              pending'[j].kind = pending[i].kind /\ pending'[j].key = pending[i].key]_vars

\* The retry advice of a rate limit is enough: a client that waits that long is eligible.
RetryAdviceSuffices ==
  [][\A c \in DOMAIN exchanges \cap DOMAIN exchanges' :
       exchanges'[c].result # exchanges[c].result /\ exchanges'[c].result.status = "rate_limited"
         => /\ now + exchanges'[c].result.retry * Millisecond >= exchanges[c].next_eligible
            /\ exchanges'[c].result.retry <= IntervalMs]_vars

\* An admitted tuning request is answered, or its session ends: the exchange cannot wedge.
TuningIsAnswered ==
  \A c \in Controllers :
    (c \in DOMAIN exchanges /\ exchanges[c].request # 0 /\ exchanges[c].result = NoResult) ~>
    (c \notin DOMAIN exchanges \/ exchanges[c].result # NoResult)

=============================================================================
