------------------------- MODULE SimulationRuntime -------------------------
(***************************************************************************)
(* The lifecycle of runtime::SimulationRuntime: one persistent worker      *)
(* thread that ticks the simulation, and any number of threads that call   *)
(* start (resume is the same body), pause and stop on it.                  *)
(*                                                                         *)
(* lifecycle_mutex_ makes every stretch of code between two acquisitions   *)
(* one atomic step, so an action here is one such stretch.  The worker     *)
(* gives the mutex up in three places: while it waits for Running, while   *)
(* it steps the simulation, and while it waits for the next deadline.      *)
(* lifecycle_transition_mutex_ is held by one caller for the whole of a    *)
(* lifecycle operation, waits included: transition_mutex names the caller. *)
(*                                                                         *)
(* The simulation itself is reduced to its tick number.  Durations are     *)
(* left out: waiting for a deadline may end at any time.                   *)
(***************************************************************************)
EXTENDS Integers

CONSTANTS Callers,     \* the threads that call lifecycle operations
          NoCaller,    \* nobody holds lifecycle_transition_mutex_
          Operations,  \* the operations these threads use
          MaxCalls,    \* bound: lifecycle calls made in one behaviour
          MaxTicks     \* bound: deadlines the worker waits for in one run

ASSUME CallersAssumption == NoCaller \notin Callers
ASSUME OperationsAssumption == Operations \subseteq {"start", "pause", "stop"}
ASSUME BoundsAssumption == MaxCalls \in Nat /\ MaxTicks \in Nat

VARIABLES
  lifecycle_state,       \* lifecycle_state_
  worker_failure,        \* worker_failure_ holds an exception
  worker_joined,         \* worker_joined_
  stop_requested,        \* the jthread's stop token
  ready,                 \* SnapshotPublication: is_ready()
  latest,                \* SnapshotPublication: tick of latest()
  tick,                  \* tick committed inside game_simulation_
  committed_tick_count,  \* TickStatistics::committed_tick_count
  worker_pc,             \* where the worker is in run()
  transition_mutex,      \* who holds lifecycle_transition_mutex_
  caller_pc,             \* where each caller is in its operation
  outcome,               \* how each caller's last operation ended
  calls                  \* lifecycle calls made so far (bound)

publication == <<ready, latest>>
worker == <<worker_pc, tick, committed_tick_count>>
lifecycle == <<lifecycle_state, worker_failure, worker_joined, stop_requested>>
callers == <<transition_mutex, caller_pc, outcome, calls>>
vars == <<publication, worker, lifecycle, callers>>

States == {"ready", "running", "pausing", "paused", "stopping", "stopped", "failed"}

\* Init: the constructor publishes the initial state, not yet ready, and starts the thread.
Init ==
  /\ lifecycle_state = "ready"
  /\ worker_failure = FALSE
  /\ worker_joined = FALSE
  /\ stop_requested = FALSE
  /\ ready = FALSE
  /\ latest = 0
  /\ tick = 0
  /\ committed_tick_count = 0
  /\ worker_pc = "wait_running"
  /\ transition_mutex = NoCaller
  /\ caller_pc = [c \in Callers |-> "outside"]
  /\ outcome = [c \in Callers |-> "none"]
  /\ calls = 0

-----------------------------------------------------------------------------
(* SnapshotPublication *)

\* publish: the snapshot first, then readiness.
publish(t) == latest' = t /\ ready' = TRUE

\* publish, then mark_not_ready: a reader without lifecycle_mutex_ may see the instant between.
publish_quiescent(t) == latest' = t /\ ready' = FALSE

\* mark_not_ready keeps the latest snapshot.
mark_not_ready == ready' = FALSE /\ latest' = latest

-----------------------------------------------------------------------------
(* Lifecycle operations *)

\* A thread calls an operation; it is now queued on lifecycle_transition_mutex_.
Call(c, op) ==
  /\ caller_pc[c] = "outside"
  /\ calls < MaxCalls
  /\ calls' = calls + 1
  /\ caller_pc' = [caller_pc EXCEPT ![c] = op]
  /\ outcome' = [outcome EXCEPT ![c] = "none"]
  /\ UNCHANGED <<publication, worker, lifecycle, transition_mutex>>

\* The caller returns, or its exception propagates, and the transition mutex is free.
Return(c, how) ==
  /\ transition_mutex' = NoCaller
  /\ caller_pc' = [caller_pc EXCEPT ![c] = "outside"]
  /\ outcome' = [outcome EXCEPT ![c] = how]
  /\ UNCHANGED calls

\* Mutant of Hold: the transition mutex guards the notification only, not the wait.
HoldReleasesMutex(c, where) ==
  /\ transition_mutex' = NoCaller
  /\ caller_pc' = [caller_pc EXCEPT ![c] = where]
  /\ UNCHANGED <<outcome, calls>>

\* The caller keeps the transition mutex and waits.
Hold(c, where) ==
  /\ transition_mutex' = c
  /\ caller_pc' = [caller_pc EXCEPT ![c] = where]
  /\ UNCHANGED <<outcome, calls>>

\* start and resume.
TransitionToRunning(c) ==
  /\ caller_pc[c] = "start"
  /\ transition_mutex = NoCaller
  /\ lifecycle_state # "pausing"
  /\ \/ /\ worker_failure \/ lifecycle_state \in {"stopped", "stopping"}
        /\ Return(c, "threw")
        /\ UNCHANGED lifecycle_state
     \/ /\ ~worker_failure /\ lifecycle_state \notin {"stopped", "stopping"}
        /\ lifecycle_state' = "running"
        /\ Return(c, "ok")
  /\ UNCHANGED <<publication, worker, worker_failure, worker_joined, stop_requested>>

\* pause, up to its wait.
Pause(c) ==
  /\ caller_pc[c] = "pause"
  /\ transition_mutex = NoCaller
  /\ \/ /\ worker_failure \/ lifecycle_state \in {"stopped", "stopping"}
        /\ Return(c, "threw")
        /\ UNCHANGED <<publication, lifecycle_state>>
     \/ /\ ~worker_failure /\ lifecycle_state = "ready"
        /\ mark_not_ready
        /\ lifecycle_state' = "paused"
        /\ Return(c, "ok")
     \/ /\ ~worker_failure /\ lifecycle_state = "paused"
        /\ Return(c, "ok")
        /\ UNCHANGED <<publication, lifecycle_state>>
     \/ /\ ~worker_failure /\ lifecycle_state \in {"running", "pausing"}
        /\ lifecycle_state' = "pausing"
        /\ Hold(c, "await_paused")
        /\ UNCHANGED publication
  /\ UNCHANGED <<worker, worker_failure, worker_joined, stop_requested>>

\* pause, after its wait: the worker has left Pausing, one way or the other.
PauseReturns(c) ==
  /\ caller_pc[c] = "await_paused"
  /\ lifecycle_state \notin {"pausing", "stopping"}
  /\ Return(c, IF worker_failure THEN "threw" ELSE "ok")
  /\ UNCHANGED <<publication, worker, lifecycle>>

\* Mutant of Stop: readiness is not withdrawn.
StopStaysReady(c) ==
  /\ caller_pc[c] = "stop"
  /\ transition_mutex = NoCaller
  /\ ~worker_joined
  /\ lifecycle_state' = IF lifecycle_state = "failed" THEN "failed" ELSE "stopping"
  /\ stop_requested' = TRUE
  /\ Hold(c, "join")
  /\ UNCHANGED <<publication, worker, worker_failure, worker_joined>>

\* stop, up to the join.
Stop(c) ==
  /\ caller_pc[c] = "stop"
  /\ transition_mutex = NoCaller
  /\ \/ /\ worker_joined
        /\ Return(c, "ok")
        /\ UNCHANGED <<publication, lifecycle_state, stop_requested>>
     \/ /\ ~worker_joined
        /\ mark_not_ready
        /\ lifecycle_state' = IF lifecycle_state = "failed" THEN "failed" ELSE "stopping"
        /\ stop_requested' = TRUE
        /\ Hold(c, "join")
  /\ UNCHANGED <<worker, worker_failure, worker_joined>>

\* stop, once the worker thread has exited.
StopJoined(c) ==
  /\ caller_pc[c] = "join"
  /\ worker_pc = "exited"
  /\ worker_joined' = TRUE
  /\ lifecycle_state' = IF lifecycle_state = "failed" THEN "failed" ELSE "stopped"
  /\ Return(c, "ok")
  /\ UNCHANGED <<publication, worker, worker_failure, stop_requested>>

-----------------------------------------------------------------------------
(* run(): the worker thread *)

\* Enters state Paused if a pause is waiting for it.
AcknowledgePause ==
  IF lifecycle_state = "pausing"
  THEN mark_not_ready /\ lifecycle_state' = "paused"
  ELSE UNCHANGED <<publication, lifecycle_state>>

\* Mutant of WorkerWakes: the outer wait looks for Running only.
WorkerWakesForRunningOnly ==
  /\ worker_pc = "wait_running"
  /\ lifecycle_state = "running"
  /\ worker_pc' = "step"
  /\ UNCHANGED <<publication, lifecycle, callers, tick, committed_tick_count>>

\* The outer wait ends: a running runtime starts a tick, a stopping one ends the thread.
WorkerWakes ==
  /\ worker_pc = "wait_running"
  /\ stop_requested \/ lifecycle_state \in {"running", "stopping"}
  /\ worker_pc' = IF stop_requested \/ lifecycle_state = "stopping"
                  THEN "exited" ELSE "step"
  /\ UNCHANGED <<publication, lifecycle, callers, tick, committed_tick_count>>

\* drain, reserve, build the batch and step: the tick is committed, no mutex is held.
WorkerSteps ==
  /\ worker_pc = "step"
  /\ tick' = tick + 1
  /\ worker_pc' = "stepped"
  /\ UNCHANGED <<publication, lifecycle, callers, committed_tick_count>>

\* An exception before the commit, or after it (results or snapshot), ends the worker.
record_worker_failure ==
  /\ worker_pc \in {"step", "stepped"}
  /\ mark_not_ready
  /\ worker_failure' = TRUE
  /\ lifecycle_state' = "failed"
  /\ worker_pc' = "exited"
  /\ UNCHANGED <<callers, worker_joined, stop_requested, tick, committed_tick_count>>

\* A stop arrived during the step: the thread ends and the tick is neither published nor counted.
WorkerAbandonsTick ==
  /\ worker_pc = "stepped"
  /\ stop_requested \/ lifecycle_state = "stopping"
  /\ worker_pc' = "exited"
  /\ UNCHANGED <<publication, lifecycle, callers, tick, committed_tick_count>>

\* The tick is published and counted, and a pause that arrived during the step is answered.
WorkerPublishes ==
  /\ worker_pc = "stepped"
  /\ ~stop_requested /\ lifecycle_state # "stopping"
  /\ committed_tick_count' = committed_tick_count + 1
  /\ IF lifecycle_state = "pausing"
     THEN /\ publish_quiescent(tick)
          /\ lifecycle_state' = "paused"
          /\ worker_pc' = "wait_running"
     ELSE /\ publish(tick)
          /\ lifecycle_state' = lifecycle_state
          /\ worker_pc' = "wait_deadline"
  /\ UNCHANGED <<callers, worker_failure, worker_joined, stop_requested, tick>>

\* The deadline wait ends, by the deadline or by a lifecycle change.
WorkerDeadline ==
  /\ worker_pc = "wait_deadline"
  /\ stop_requested \/ lifecycle_state # "running" \/ tick < MaxTicks
  /\ AcknowledgePause
  /\ worker_pc' = CASE stop_requested -> "exited"
                    [] ~stop_requested /\ lifecycle_state = "running" -> "step"
                    [] OTHER -> "wait_running"
  /\ UNCHANGED <<callers, worker_failure, worker_joined, stop_requested, tick,
                 committed_tick_count>>

run ==
  \/ WorkerWakes
  \/ WorkerSteps
  \/ record_worker_failure
  \/ WorkerAbandonsTick
  \/ WorkerPublishes
  \/ WorkerDeadline

\* A caller inside an operation goes on with it.
Proceed(c) ==
  \/ TransitionToRunning(c)
  \/ Pause(c)
  \/ PauseReturns(c)
  \/ Stop(c)
  \/ StopJoined(c)

Next ==
  \/ run
  \/ \E c \in Callers : Proceed(c)
  \/ \E c \in Callers, op \in Operations : Call(c, op)

Spec == Init /\ [][Next]_vars

(***************************************************************************)
(* The operating system schedules every runnable thread.  No fairness on   *)
(* Call (nobody has to call) and none stronger than weak on the mutex: the *)
(* number of calls is finite, so a waiting caller is overtaken finitely    *)
(* often.                                                                  *)
(***************************************************************************)
Fairness == WF_vars(run) /\ \A c \in Callers : WF_vars(Proceed(c))
FairSpec == Spec /\ Fairness

-----------------------------------------------------------------------------
(* Properties *)

\* Every variable has its type.
TypeOK ==
  /\ lifecycle_state \in States
  /\ worker_failure \in BOOLEAN
  /\ worker_joined \in BOOLEAN
  /\ stop_requested \in BOOLEAN
  /\ ready \in BOOLEAN
  /\ latest \in Nat
  /\ tick \in Nat
  /\ committed_tick_count \in Nat
  /\ worker_pc \in {"wait_running", "step", "stepped", "wait_deadline", "exited"}
  /\ transition_mutex \in Callers \cup {NoCaller}
  /\ caller_pc \in [Callers -> {"outside", "start", "pause", "stop", "await_paused", "join"}]
  /\ outcome \in [Callers -> {"none", "ok", "threw"}]
  /\ calls \in Nat

\* README "readiness ... is cleared whenever the runtime becomes quiescent or terminal": a ready
\* publication means a worker that is ticking and a snapshot of a tick it really committed.
ReadyMeansTicking ==
  ready => /\ lifecycle_state \in {"running", "pausing"}
           /\ worker_pc # "exited"
           /\ latest > 0

\* pause "synchronously reaches a quiescent paused state": in Paused the worker is outside its
\* step, and everything it ever committed has been published and counted.
PausedIsQuiescent ==
  lifecycle_state = "paused" =>
    /\ worker_pc = "wait_running"
    /\ latest = tick
    /\ committed_tick_count = tick

\* stop "joins the one worker" and a failure is retained: a stopped runtime never failed, and a
\* failed one stays inspectable whoever raced with the failure.
TerminalIsFinal ==
  /\ worker_joined => lifecycle_state \in {"stopped", "failed"} /\ worker_pc = "exited"
  /\ lifecycle_state = "stopped" => worker_joined
  /\ worker_failure <=> lifecycle_state = "failed"

\* Publication never runs ahead of, or more than one tick behind, the committed simulation.
PublishedTickIsFresh ==
  /\ latest = committed_tick_count
  /\ latest <= tick /\ tick <= latest + 1
  /\ tick # latest => worker_pc \in {"stepped", "exited"}

\* README "Tick numbers never skip", and no tick is published outside Running and Pausing.
TicksNeverSkip ==
  [][latest' # latest => /\ latest' = latest + 1
                         /\ lifecycle_state \in {"running", "pausing"}]_vars

\* Terminal states are left by no operation, and a captured failure is never forgotten.
TerminalIsSticky ==
  [][/\ lifecycle_state = "failed" => lifecycle_state' = "failed"
     /\ lifecycle_state = "stopped" => lifecycle_state' = "stopped"
     /\ worker_joined => worker_joined' /\ tick' = tick]_vars

\* A pause that returns normally returns in Paused: nobody can resume under its transition mutex.
PauseReturnsPaused ==
  [][\A c \in Callers :
       caller_pc[c] = "await_paused" /\ caller_pc'[c] = "outside" /\ outcome'[c] = "ok"
         => lifecycle_state' = "paused"]_vars

\* The one state nobody leaves: a pause that overtook the worker's wake-up holds the transition
\* mutex, the worker waits for Running, and every later stop queues behind the two.
PauseOvertookTheWorker == lifecycle_state = "pausing" /\ worker_pc = "wait_running"

\* stop returns, whoever calls it and in whatever state the worker is, unless it queues behind a
\* pause that overtook the worker.
StopReturns ==
  \A c \in Callers :
    caller_pc[c] = "stop" ~> caller_pc[c] = "outside" \/ PauseOvertookTheWorker

\* simulation_runtime.hpp:91, "Synchronously reaches a quiescent paused state": pause returns.
PauseReturnsEventually ==
  \A c \in Callers : caller_pc[c] = "pause" ~> caller_pc[c] = "outside"

=============================================================================
