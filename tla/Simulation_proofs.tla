------------------------- MODULE Simulation_proofs -------------------------
(***************************************************************************)
(* Proofs about the loop that runs the ticks, SimulationRuntime, and about *)
(* the tick that it runs, SimulationStep: for any set of callers, any      *)
(* operations and bounds, and for any arena, grid, bodies and speeds.      *)
(*                                                                         *)
(* Neither's safety properties are inductive.  That a paused runtime is    *)
(* quiescent depends on who can be where: Inv collects what ties the       *)
(* worker's position, the lifecycle state, the transition mutex and the    *)
(* publication together.  That nobody is committed over the pit depends on *)
(* every event of a solve: StepInv ties the caches of the solver to the    *)
(* motions they were computed from.                                        *)
(***************************************************************************)
EXTENDS SimulationRuntime, SimulationStep, FiniteSetTheorems, WellFoundedInduction, TLAPS

---------------------------------------------------------------------------
(* The loop.                                                               *)

Waiting == {"await_paused", "join"}

\* Exactly the holder of the transition mutex is inside a waiting operation.
MutexInv == \A c \in Callers : caller_pc[c] \in Waiting <=> transition_mutex = c

\* What a waiting caller knows of the lifecycle state, and which states need a waiting caller.
CallerInv ==
  /\ \A c \in Callers : caller_pc[c] = "await_paused"
       => lifecycle_state \in {"pausing", "paused", "failed"} /\ ~stop_requested
  /\ \A c \in Callers : caller_pc[c] = "join"
       => lifecycle_state \in {"stopping", "failed"} /\ stop_requested /\ ~worker_joined
  /\ lifecycle_state = "pausing" => \E c \in Callers : caller_pc[c] = "await_paused"
  /\ lifecycle_state = "stopping" => \E c \in Callers : caller_pc[c] = "join"

\* Where the worker can be in each lifecycle state.
WorkerInv ==
  /\ stop_requested => lifecycle_state \in {"stopping", "stopped", "failed"}
  /\ lifecycle_state \in {"stopping", "stopped"} => stop_requested
  /\ lifecycle_state \in {"ready", "paused"} => worker_pc = "wait_running"
  /\ lifecycle_state \in {"failed", "stopped"} => worker_pc = "exited"
  /\ worker_pc = "exited" => lifecycle_state \in {"stopping", "stopped", "failed"}
  /\ worker_pc \in {"step", "stepped", "wait_deadline"}
       => lifecycle_state \in {"running", "pausing", "stopping"}

\* What is published against what is committed.
TickInv ==
  /\ latest = committed_tick_count
  /\ worker_pc = "stepped" => tick = latest + 1
  /\ worker_pc \in {"wait_running", "step", "wait_deadline"} => tick = latest
  /\ worker_pc = "exited" => tick = latest \/ tick = latest + 1

Inv ==
  /\ TypeOK
  /\ MutexInv
  /\ CallerInv
  /\ WorkerInv
  /\ TickInv
  /\ TerminalIsFinal
  /\ ReadyMeansTicking

-----------------------------------------------------------------------------

\* Init establishes the inductive invariant.
LEMMA InitInv == Init => Inv
  <1> SUFFICES ASSUME Init PROVE Inv
    OBVIOUS
  <1>1. TypeOK
    BY DEF Init, TypeOK, States
  <1>2. MutexInv
    BY CallersAssumption DEF Init, MutexInv, Waiting
  <1>3. CallerInv /\ WorkerInv /\ TickInv
    BY DEF Init, CallerInv, WorkerInv, TickInv
  <1>4. TerminalIsFinal /\ ReadyMeansTicking
    BY DEF Init, TerminalIsFinal, ReadyMeansTicking
  <1> QED BY <1>1, <1>2, <1>3, <1>4 DEF Inv

\* A step that leaves every variable alone preserves it.
LEMMA StutterInv == Inv /\ UNCHANGED vars => Inv'
  BY DEF Inv, vars, publication, worker, lifecycle, callers, TypeOK, MutexInv, CallerInv,
         WorkerInv, TickInv, TerminalIsFinal, ReadyMeansTicking

\* TransitionToRunning preserves the inductive invariant.
LEMMA TransitionToRunningInv ==
  ASSUME Inv, NEW c \in Callers, TransitionToRunning(c)
  PROVE  Inv'
  <1>1. TypeOK'
    BY DEF Inv, TypeOK, States,
           TransitionToRunning, Return, publication, worker, lifecycle, callers
  <1>2. MutexInv'
    BY CallersAssumption DEF Inv, TypeOK, MutexInv, Waiting,
           TransitionToRunning, Return, publication, worker, lifecycle, callers
  <1>3. CallerInv'
    BY CallersAssumption DEF Inv, TypeOK, MutexInv, CallerInv, WorkerInv, TerminalIsFinal, Waiting,
           TransitionToRunning, Return, publication, worker, lifecycle, callers
  <1>4. WorkerInv'
    BY DEF Inv, TypeOK, CallerInv, WorkerInv, TerminalIsFinal,
           TransitionToRunning, Return, publication, worker, lifecycle, callers
  <1>5. TickInv'
    BY DEF Inv, TypeOK, WorkerInv, TickInv,
           TransitionToRunning, Return, publication, worker, lifecycle, callers
  <1>6. (TerminalIsFinal /\ ReadyMeansTicking)'
    BY DEF Inv, TypeOK, CallerInv, WorkerInv, TickInv, TerminalIsFinal,
             ReadyMeansTicking,
           TransitionToRunning, Return, publication, worker, lifecycle, callers
  <1> QED BY <1>1, <1>2, <1>3, <1>4, <1>5, <1>6 DEF Inv

\* Pause preserves the inductive invariant.
LEMMA PauseInv ==
  ASSUME Inv, NEW c \in Callers, Pause(c)
  PROVE  Inv'
  <1>1. TypeOK'
    BY DEF Inv, TypeOK, States,
           Pause, Return, Hold, mark_not_ready, publication, worker, lifecycle, callers
  <1>2. MutexInv'
    BY CallersAssumption DEF Inv, TypeOK, MutexInv, Waiting,
           Pause, Return, Hold, mark_not_ready, publication, worker, lifecycle, callers
  <1>3. CallerInv'
    BY CallersAssumption DEF Inv, TypeOK, MutexInv, CallerInv, WorkerInv, TerminalIsFinal, Waiting,
           Pause, Return, Hold, mark_not_ready, publication, worker, lifecycle, callers
  <1>4. WorkerInv'
    BY DEF Inv, TypeOK, CallerInv, WorkerInv, TerminalIsFinal,
           Pause, Return, Hold, mark_not_ready, publication, worker, lifecycle, callers
  <1>5. TickInv'
    BY DEF Inv, TypeOK, WorkerInv, TickInv,
           Pause, Return, Hold, mark_not_ready, publication, worker, lifecycle, callers
  <1>6. (TerminalIsFinal /\ ReadyMeansTicking)'
    BY DEF Inv, TypeOK, CallerInv, WorkerInv, TickInv, TerminalIsFinal,
             ReadyMeansTicking,
           Pause, Return, Hold, mark_not_ready, publication, worker, lifecycle, callers
  <1> QED BY <1>1, <1>2, <1>3, <1>4, <1>5, <1>6 DEF Inv

\* PauseReturns preserves the inductive invariant.
LEMMA PauseReturnsInv ==
  ASSUME Inv, NEW c \in Callers, PauseReturns(c)
  PROVE  Inv'
  <1>1. TypeOK'
    BY DEF Inv, TypeOK, States,
           PauseReturns, Return, publication, worker, lifecycle, callers
  <1>2. MutexInv'
    BY CallersAssumption DEF Inv, TypeOK, MutexInv, Waiting,
           PauseReturns, Return, publication, worker, lifecycle, callers
  <1>3. CallerInv'
    BY CallersAssumption DEF Inv, TypeOK, MutexInv, CallerInv, WorkerInv, TerminalIsFinal, Waiting,
           PauseReturns, Return, publication, worker, lifecycle, callers
  <1>4. WorkerInv'
    BY DEF Inv, TypeOK, CallerInv, WorkerInv, TerminalIsFinal,
           PauseReturns, Return, publication, worker, lifecycle, callers
  <1>5. TickInv'
    BY DEF Inv, TypeOK, WorkerInv, TickInv,
           PauseReturns, Return, publication, worker, lifecycle, callers
  <1>6. (TerminalIsFinal /\ ReadyMeansTicking)'
    BY DEF Inv, TypeOK, CallerInv, WorkerInv, TickInv, TerminalIsFinal,
             ReadyMeansTicking,
           PauseReturns, Return, publication, worker, lifecycle, callers
  <1> QED BY <1>1, <1>2, <1>3, <1>4, <1>5, <1>6 DEF Inv

\* Stop preserves the inductive invariant.
LEMMA StopInv ==
  ASSUME Inv, NEW c \in Callers, Stop(c)
  PROVE  Inv'
  <1>1. TypeOK'
    BY DEF Inv, TypeOK, States,
           Stop, Return, Hold, mark_not_ready, publication, worker, lifecycle, callers
  <1>2. MutexInv'
    BY CallersAssumption DEF Inv, TypeOK, MutexInv, Waiting,
           Stop, Return, Hold, mark_not_ready, publication, worker, lifecycle, callers
  <1>3. CallerInv'
    BY CallersAssumption DEF Inv, TypeOK, MutexInv, CallerInv, WorkerInv, TerminalIsFinal, Waiting,
           Stop, Return, Hold, mark_not_ready, publication, worker, lifecycle, callers
  <1>4. WorkerInv'
    BY DEF Inv, TypeOK, CallerInv, WorkerInv, TerminalIsFinal,
           Stop, Return, Hold, mark_not_ready, publication, worker, lifecycle, callers
  <1>5. TickInv'
    BY DEF Inv, TypeOK, WorkerInv, TickInv,
           Stop, Return, Hold, mark_not_ready, publication, worker, lifecycle, callers
  <1>6. (TerminalIsFinal /\ ReadyMeansTicking)'
    BY DEF Inv, TypeOK, CallerInv, WorkerInv, TickInv, TerminalIsFinal,
             ReadyMeansTicking,
           Stop, Return, Hold, mark_not_ready, publication, worker, lifecycle, callers
  <1> QED BY <1>1, <1>2, <1>3, <1>4, <1>5, <1>6 DEF Inv

\* StopJoined preserves the inductive invariant.
LEMMA StopJoinedInv ==
  ASSUME Inv, NEW c \in Callers, StopJoined(c)
  PROVE  Inv'
  <1>1. TypeOK'
    BY DEF Inv, TypeOK, States,
           StopJoined, Return, publication, worker, lifecycle, callers
  <1>2. MutexInv'
    BY CallersAssumption DEF Inv, TypeOK, MutexInv, Waiting,
           StopJoined, Return, publication, worker, lifecycle, callers
  <1>3. CallerInv'
    BY CallersAssumption DEF Inv, TypeOK, MutexInv, CallerInv, WorkerInv, TerminalIsFinal, Waiting,
           StopJoined, Return, publication, worker, lifecycle, callers
  <1>4. WorkerInv'
    BY DEF Inv, TypeOK, CallerInv, WorkerInv, TerminalIsFinal,
           StopJoined, Return, publication, worker, lifecycle, callers
  <1>5. TickInv'
    BY DEF Inv, TypeOK, WorkerInv, TickInv,
           StopJoined, Return, publication, worker, lifecycle, callers
  <1>6. (TerminalIsFinal /\ ReadyMeansTicking)'
    BY DEF Inv, TypeOK, CallerInv, WorkerInv, TickInv, TerminalIsFinal,
             ReadyMeansTicking,
           StopJoined, Return, publication, worker, lifecycle, callers
  <1> QED BY <1>1, <1>2, <1>3, <1>4, <1>5, <1>6 DEF Inv

\* WorkerWakes preserves the inductive invariant.
LEMMA WorkerWakesInv ==
  ASSUME Inv, WorkerWakes
  PROVE  Inv'
  <1>1. TypeOK'
    BY DEF Inv, TypeOK, States,
           WorkerWakes, publication, worker, lifecycle, callers
  <1>2. MutexInv'
    BY CallersAssumption DEF Inv, TypeOK, MutexInv, Waiting,
           WorkerWakes, publication, worker, lifecycle, callers
  <1>3. CallerInv'
    BY CallersAssumption DEF Inv, TypeOK, MutexInv, CallerInv, WorkerInv, TerminalIsFinal, Waiting,
           WorkerWakes, publication, worker, lifecycle, callers
  <1>4. WorkerInv'
    BY DEF Inv, TypeOK, CallerInv, WorkerInv, TerminalIsFinal,
           WorkerWakes, publication, worker, lifecycle, callers
  <1>5. TickInv'
    BY DEF Inv, TypeOK, WorkerInv, TickInv,
           WorkerWakes, publication, worker, lifecycle, callers
  <1>6. (TerminalIsFinal /\ ReadyMeansTicking)'
    BY DEF Inv, TypeOK, CallerInv, WorkerInv, TickInv, TerminalIsFinal,
             ReadyMeansTicking,
           WorkerWakes, publication, worker, lifecycle, callers
  <1> QED BY <1>1, <1>2, <1>3, <1>4, <1>5, <1>6 DEF Inv

\* WorkerSteps preserves the inductive invariant.
LEMMA WorkerStepsInv ==
  ASSUME Inv, WorkerSteps
  PROVE  Inv'
  <1>1. TypeOK'
    BY DEF Inv, TypeOK, States,
           WorkerSteps, publication, worker, lifecycle, callers
  <1>2. MutexInv'
    BY CallersAssumption DEF Inv, TypeOK, MutexInv, Waiting,
           WorkerSteps, publication, worker, lifecycle, callers
  <1>3. CallerInv'
    BY CallersAssumption DEF Inv, TypeOK, MutexInv, CallerInv, WorkerInv, TerminalIsFinal, Waiting,
           WorkerSteps, publication, worker, lifecycle, callers
  <1>4. WorkerInv'
    BY DEF Inv, TypeOK, CallerInv, WorkerInv, TerminalIsFinal,
           WorkerSteps, publication, worker, lifecycle, callers
  <1>5. TickInv'
    BY DEF Inv, TypeOK, WorkerInv, TickInv,
           WorkerSteps, publication, worker, lifecycle, callers
  <1>6. (TerminalIsFinal /\ ReadyMeansTicking)'
    BY DEF Inv, TypeOK, CallerInv, WorkerInv, TickInv, TerminalIsFinal,
             ReadyMeansTicking,
           WorkerSteps, publication, worker, lifecycle, callers
  <1> QED BY <1>1, <1>2, <1>3, <1>4, <1>5, <1>6 DEF Inv

\* record_worker_failure preserves the inductive invariant.
LEMMA record_worker_failureInv ==
  ASSUME Inv, record_worker_failure
  PROVE  Inv'
  <1>1. TypeOK'
    BY DEF Inv, TypeOK, States,
           record_worker_failure, mark_not_ready, publication, worker, lifecycle, callers
  <1>2. MutexInv'
    BY CallersAssumption DEF Inv, TypeOK, MutexInv, Waiting,
           record_worker_failure, mark_not_ready, publication, worker, lifecycle, callers
  <1>3. CallerInv'
    BY CallersAssumption DEF Inv, TypeOK, MutexInv, CallerInv, WorkerInv, TerminalIsFinal, Waiting,
           record_worker_failure, mark_not_ready, publication, worker, lifecycle, callers
  <1>4. WorkerInv'
    BY DEF Inv, TypeOK, CallerInv, WorkerInv, TerminalIsFinal,
           record_worker_failure, mark_not_ready, publication, worker, lifecycle, callers
  <1>5. TickInv'
    BY DEF Inv, TypeOK, WorkerInv, TickInv,
           record_worker_failure, mark_not_ready, publication, worker, lifecycle, callers
  <1>6. (TerminalIsFinal /\ ReadyMeansTicking)'
    BY DEF Inv, TypeOK, CallerInv, WorkerInv, TickInv, TerminalIsFinal,
             ReadyMeansTicking,
           record_worker_failure, mark_not_ready, publication, worker, lifecycle, callers
  <1> QED BY <1>1, <1>2, <1>3, <1>4, <1>5, <1>6 DEF Inv

\* WorkerAbandonsTick preserves the inductive invariant.
LEMMA WorkerAbandonsTickInv ==
  ASSUME Inv, WorkerAbandonsTick
  PROVE  Inv'
  <1>1. TypeOK'
    BY DEF Inv, TypeOK, States,
           WorkerAbandonsTick, publication, worker, lifecycle, callers
  <1>2. MutexInv'
    BY CallersAssumption DEF Inv, TypeOK, MutexInv, Waiting,
           WorkerAbandonsTick, publication, worker, lifecycle, callers
  <1>3. CallerInv'
    BY CallersAssumption DEF Inv, TypeOK, MutexInv, CallerInv, WorkerInv, TerminalIsFinal, Waiting,
           WorkerAbandonsTick, publication, worker, lifecycle, callers
  <1>4. WorkerInv'
    BY DEF Inv, TypeOK, CallerInv, WorkerInv, TerminalIsFinal,
           WorkerAbandonsTick, publication, worker, lifecycle, callers
  <1>5. TickInv'
    BY DEF Inv, TypeOK, WorkerInv, TickInv,
           WorkerAbandonsTick, publication, worker, lifecycle, callers
  <1>6. (TerminalIsFinal /\ ReadyMeansTicking)'
    BY DEF Inv, TypeOK, CallerInv, WorkerInv, TickInv, TerminalIsFinal,
             ReadyMeansTicking,
           WorkerAbandonsTick, publication, worker, lifecycle, callers
  <1> QED BY <1>1, <1>2, <1>3, <1>4, <1>5, <1>6 DEF Inv

\* WorkerPublishes preserves the inductive invariant.
LEMMA WorkerPublishesInv ==
  ASSUME Inv, WorkerPublishes
  PROVE  Inv'
  <1>1. TypeOK'
    <2>1. lifecycle_state' \in States /\ ready' \in BOOLEAN /\ latest' \in Nat
      BY DEF Inv, TypeOK, States, WorkerPublishes, publish, publish_quiescent
    <2>2. committed_tick_count' \in Nat /\ worker_pc' \in {"wait_running", "wait_deadline"}
      BY DEF Inv, TypeOK, WorkerPublishes
    <2> QED BY <2>1, <2>2 DEF Inv, TypeOK, WorkerPublishes, callers
  <1>2. MutexInv'
    BY CallersAssumption DEF Inv, TypeOK, MutexInv, Waiting,
           WorkerPublishes, publish, publish_quiescent, publication, worker, lifecycle, callers
  <1>3. CallerInv'
    BY CallersAssumption DEF Inv, TypeOK, MutexInv, CallerInv, WorkerInv, TerminalIsFinal, Waiting,
           WorkerPublishes, publish, publish_quiescent, publication, worker, lifecycle, callers
  <1>4. WorkerInv'
    BY DEF Inv, TypeOK, CallerInv, WorkerInv, TerminalIsFinal,
           WorkerPublishes, publish, publish_quiescent, publication, worker, lifecycle, callers
  <1>5. TickInv'
    BY DEF Inv, TypeOK, WorkerInv, TickInv,
           WorkerPublishes, publish, publish_quiescent, publication, worker, lifecycle, callers
  <1>6. (TerminalIsFinal /\ ReadyMeansTicking)'
    BY DEF Inv, TypeOK, CallerInv, WorkerInv, TickInv, TerminalIsFinal,
             ReadyMeansTicking,
           WorkerPublishes, publish, publish_quiescent, publication, worker, lifecycle, callers
  <1> QED BY <1>1, <1>2, <1>3, <1>4, <1>5, <1>6 DEF Inv

\* WorkerDeadline preserves the inductive invariant.
LEMMA WorkerDeadlineInv ==
  ASSUME Inv, WorkerDeadline
  PROVE  Inv'
  <1>1. TypeOK'
    BY DEF Inv, TypeOK, States,
           WorkerDeadline, AcknowledgePause, mark_not_ready, publication, worker, lifecycle, callers
  <1>2. MutexInv'
    BY CallersAssumption DEF Inv, TypeOK, MutexInv, Waiting,
           WorkerDeadline, AcknowledgePause, mark_not_ready, publication, worker, lifecycle, callers
  <1>3. CallerInv'
    BY CallersAssumption DEF Inv, TypeOK, MutexInv, CallerInv, WorkerInv, TerminalIsFinal, Waiting,
           WorkerDeadline, AcknowledgePause, mark_not_ready, publication, worker, lifecycle, callers
  <1>4. WorkerInv'
    BY DEF Inv, TypeOK, CallerInv, WorkerInv, TerminalIsFinal,
           WorkerDeadline, AcknowledgePause, mark_not_ready, publication, worker, lifecycle, callers
  <1>5. TickInv'
    BY DEF Inv, TypeOK, WorkerInv, TickInv,
           WorkerDeadline, AcknowledgePause, mark_not_ready, publication, worker, lifecycle, callers
  <1>6. (TerminalIsFinal /\ ReadyMeansTicking)'
    BY DEF Inv, TypeOK, CallerInv, WorkerInv, TickInv, TerminalIsFinal,
             ReadyMeansTicking,
           WorkerDeadline, AcknowledgePause, mark_not_ready, publication, worker, lifecycle, callers
  <1> QED BY <1>1, <1>2, <1>3, <1>4, <1>5, <1>6 DEF Inv

\* Call preserves the inductive invariant.
LEMMA CallInv ==
  ASSUME Inv, NEW c \in Callers, NEW op \in Operations, Call(c, op)
  PROVE  Inv'
  <1>0. op \in {"start", "pause", "stop"}
    BY OperationsAssumption
  <1>1. TypeOK'
    BY <1>0 DEF Inv, TypeOK, States,
           Call, publication, worker, lifecycle, callers
  <1>2. MutexInv'
    BY <1>0, CallersAssumption DEF Inv, TypeOK, MutexInv, Waiting,
           Call, publication, worker, lifecycle, callers
  <1>3. CallerInv'
    BY <1>0, CallersAssumption DEF Inv, TypeOK, MutexInv, CallerInv, WorkerInv, TerminalIsFinal, Waiting,
           Call, publication, worker, lifecycle, callers
  <1>4. WorkerInv'
    BY DEF Inv, TypeOK, CallerInv, WorkerInv, TerminalIsFinal,
           Call, publication, worker, lifecycle, callers
  <1>5. TickInv'
    BY DEF Inv, TypeOK, WorkerInv, TickInv,
           Call, publication, worker, lifecycle, callers
  <1>6. (TerminalIsFinal /\ ReadyMeansTicking)'
    BY DEF Inv, TypeOK, CallerInv, WorkerInv, TickInv, TerminalIsFinal,
             ReadyMeansTicking,
           Call, publication, worker, lifecycle, callers
  <1> QED BY <1>1, <1>2, <1>3, <1>4, <1>5, <1>6 DEF Inv

-----------------------------------------------------------------------------
(* The theorems *)

\* Every reachable state satisfies the inductive invariant.
LEMMA Invariance == Spec => []Inv
  <1>1. Inv /\ [Next]_vars => Inv'
    <2> SUFFICES ASSUME Inv, [Next]_vars PROVE Inv'
      OBVIOUS
    <2>1. CASE run
      BY <2>1, WorkerWakesInv, WorkerStepsInv, record_worker_failureInv, WorkerAbandonsTickInv,
         WorkerPublishesInv, WorkerDeadlineInv DEF run
    <2>2. CASE \E c \in Callers : Proceed(c)
      BY <2>2, TransitionToRunningInv, PauseInv, PauseReturnsInv, StopInv, StopJoinedInv
      DEF Proceed
    <2>3. CASE \E c \in Callers, op \in Operations : Call(c, op)
      BY <2>3, CallInv
    <2>4. CASE UNCHANGED vars
      BY <2>4, StutterInv
    <2> QED BY <2>1, <2>2, <2>3, <2>4 DEF Next
  <1> QED BY <1>1, InitInv, PTL DEF Spec

\* The type invariant holds in every reachable state.
THEOREM TypeCorrect == Spec => []TypeOK
  <1>1. Inv => TypeOK
    BY DEF Inv
  <1> QED BY <1>1, Invariance, PTL

\* A ready publication belongs to a worker that is ticking (SnapshotPublication::is_ready).
THEOREM ReadyOnlyWhileTicking == Spec => []ReadyMeansTicking
  <1>1. Inv => ReadyMeansTicking
    BY DEF Inv
  <1> QED BY <1>1, Invariance, PTL

\* pause reaches a quiescent state: nothing committed is left unpublished or uncounted.
THEOREM PauseQuiesces == Spec => []PausedIsQuiescent
  <1>1. Inv => PausedIsQuiescent
    BY DEF Inv, TypeOK, WorkerInv, TickInv, PausedIsQuiescent
  <1> QED BY <1>1, Invariance, PTL

\* stop joins the worker, and a failure that raced with it is retained.
THEOREM TerminalStates == Spec => []TerminalIsFinal
  <1>1. Inv => TerminalIsFinal
    BY DEF Inv
  <1> QED BY <1>1, Invariance, PTL

\* The published tick is the committed tick or the one before it.
THEOREM PublicationIsFresh == Spec => []PublishedTickIsFresh
  <1>1. Inv => PublishedTickIsFresh
    BY DEF Inv, TypeOK, TickInv, PublishedTickIsFresh
  <1> QED BY <1>1, Invariance, PTL

\* Published ticks are consecutive and appear in Running and Pausing only.
THEOREM TickNumbersNeverSkip == Spec => TicksNeverSkip
  <1>1. Inv /\ [Next]_vars =>
          [latest' # latest => /\ latest' = latest + 1
                               /\ lifecycle_state \in {"running", "pausing"}]_vars
    <2> SUFFICES ASSUME Inv, Next, latest' # latest
                 PROVE  latest' = latest + 1 /\ lifecycle_state \in {"running", "pausing"}
      BY DEF vars, publication
    <2>1. WorkerPublishes
      BY DEF Next, run, Proceed, WorkerWakes, WorkerSteps, record_worker_failure,
             WorkerAbandonsTick, WorkerDeadline, AcknowledgePause, TransitionToRunning, Pause,
             PauseReturns, Stop, StopJoined, Call, mark_not_ready, publication
    <2> QED BY <2>1 DEF Inv, TypeOK, WorkerInv, TickInv, WorkerPublishes, publish,
                        publish_quiescent
  <1> QED BY <1>1, Invariance, PTL DEF Spec, TicksNeverSkip

\* A pause that returns normally returns in Paused.
THEOREM PauseReturnsInPaused == Spec => PauseReturnsPaused
  <1>1. Inv /\ [Next]_vars =>
          [\A c \in Callers :
             caller_pc[c] = "await_paused" /\ caller_pc'[c] = "outside" /\ outcome'[c] = "ok"
               => lifecycle_state' = "paused"]_vars
    <2> SUFFICES ASSUME Inv, Next, NEW c \in Callers, caller_pc[c] = "await_paused",
                        caller_pc'[c] = "outside", outcome'[c] = "ok"
                 PROVE  lifecycle_state' = "paused"
      BY DEF vars
    <2>1. PauseReturns(c)
      <3>1. ~run
        BY DEF run, WorkerWakes, WorkerSteps, record_worker_failure, WorkerAbandonsTick,
               WorkerPublishes, WorkerDeadline, callers
      <3>2. PICK d \in Callers : Proceed(d) \/ \E op \in Operations : Call(d, op)
        BY <3>1 DEF Next
      <3>3. d = c
        BY <3>2 DEF Proceed, TransitionToRunning, Pause, PauseReturns, Stop, StopJoined, Call,
                    Return, Hold, Inv, TypeOK
      <3> QED
        BY <3>2, <3>3 DEF Proceed, TransitionToRunning, Pause, Stop, StopJoined, Call
    <2>2. lifecycle_state' = lifecycle_state /\ ~worker_failure
      BY <2>1 DEF PauseReturns, Return, lifecycle, Inv, TypeOK
    <2> QED BY <2>1, <2>2 DEF PauseReturns, Inv, CallerInv, TerminalIsFinal
  <1> QED BY <1>1, Invariance, PTL DEF Spec, PauseReturnsPaused

\* No operation leaves a terminal state, and a joined worker never ticks again.
THEOREM TerminalStatesAreSticky == Spec => TerminalIsSticky
  <1>1. Inv /\ [Next]_vars =>
          [/\ lifecycle_state = "failed" => lifecycle_state' = "failed"
           /\ lifecycle_state = "stopped" => lifecycle_state' = "stopped"
           /\ worker_joined => worker_joined' /\ tick' = tick]_vars
    <2> SUFFICES ASSUME Inv, Next
                 PROVE  /\ lifecycle_state = "failed" => lifecycle_state' = "failed"
                        /\ lifecycle_state = "stopped" => lifecycle_state' = "stopped"
                        /\ worker_joined => worker_joined' /\ tick' = tick
      OBVIOUS
    <2> USE DEF Inv, TypeOK, WorkerInv, TerminalIsFinal, publication, worker, lifecycle, callers
    <2>1. CASE run
      BY <2>1 DEF run, WorkerWakes, WorkerSteps, record_worker_failure, WorkerAbandonsTick,
                  WorkerPublishes, WorkerDeadline, AcknowledgePause
    <2>2. CASE \E c \in Callers : Proceed(c)
      BY <2>2 DEF Proceed, TransitionToRunning, Pause, PauseReturns, Stop, StopJoined, CallerInv
    <2>3. CASE \E c \in Callers, op \in Operations : Call(c, op)
      BY <2>3 DEF Call
    <2> QED BY <2>1, <2>2, <2>3 DEF Next
  <1> QED BY <1>1, Invariance, PTL DEF Spec, TerminalIsSticky

---------------------------------------------------------------------------
(* Induction and finite sets.                                              *)

\* Induction over the natural numbers, stated for a set of them.
LEMMA NatSets ==
    ASSUME NEW S, 0 \in S, \A n \in Nat : n \in S => n + 1 \in S
    PROVE  Nat \subseteq S
<1> DEFINE R == OpToRel(<, Nat)
           T == Nat \ S
<1>1. IsWellFoundedOn(R, Nat)
  BY NatLessThanWellFounded
<1>2. \A x, y \in Nat : x < y => <<x, y>> \in R
  BY SMT DEF OpToRel
<1> HIDE DEF R
<1>3. SUFFICES ASSUME T # {} PROVE FALSE
  OBVIOUS
<1>4. \E x \in T : \A y \in T : ~ (<<y, x>> \in R)
  <2>1. T \subseteq Nat
    OBVIOUS
  <2> HIDE DEF T
  <2> QED BY <1>1, <1>3, <2>1, WFMin
<1>5. PICK x \in T : \A y \in T : ~ (<<y, x>> \in R)
  BY <1>4
<1>6. x \in Nat \ {0}
  OBVIOUS
<1>7. x - 1 \in Nat /\ x - 1 < x /\ x = (x - 1) + 1
  BY <1>6
<1>8. x - 1 \in T
  BY <1>6, <1>7
<1>9. <<x - 1, x>> \in R
  BY <1>2, <1>6, <1>7
<1> QED BY <1>5, <1>8, <1>9

\* Induction up to a bound.
LEMMA UpTo ==
    ASSUME NEW n \in Nat, NEW S, 0 \in S, \A k \in 1 .. n : k - 1 \in S => k \in S
    PROVE  \A k \in 0 .. n : k \in S
<1> DEFINE T == {k \in Nat : k <= n => k \in S}
<1>1. 0 \in T
  OBVIOUS
<1>2. ASSUME NEW k \in Nat, k \in T PROVE k + 1 \in T
  <2> SUFFICES ASSUME k + 1 <= n PROVE k + 1 \in S
    OBVIOUS
  <2>1. k \in S /\ k + 1 \in 1 .. n /\ (k + 1) - 1 = k
    BY <1>2
  <2> QED BY <2>1
<1> HIDE DEF T
<1>3. Nat \subseteq T
  BY <1>1, <1>2, NatSets
<1> QED BY <1>3 DEF T

\* Induction over the subsets of a finite set, stated for a set of them: what
\* holds of a subset whenever it holds of those that are smaller.
LEMMA SubsetInduction ==
    ASSUME NEW C, IsFiniteSet(C), NEW Good,
           \A S \in SUBSET C : (\A x \in S : S \ {x} \in Good) => S \in Good
    PROVE  \A S \in SUBSET C : S \in Good
<1> DEFINE Ns == {n \in Nat : \A S \in SUBSET C : Cardinality(S) = n => S \in Good}
<1>1. \A S \in SUBSET C : IsFiniteSet(S) /\ Cardinality(S) \in Nat
  BY FS_Subset, FS_CardinalityType
<1>2. 0 \in Ns
  <2> SUFFICES ASSUME NEW S \in SUBSET C, Cardinality(S) = 0 PROVE S \in Good
    OBVIOUS
  <2>1. S = {}
    BY <1>1, FS_EmptySet
  <2> QED BY <2>1
<1>3. ASSUME NEW n \in Nat, n \in Ns PROVE n + 1 \in Ns
  <2> SUFFICES ASSUME NEW S \in SUBSET C, Cardinality(S) = n + 1 PROVE S \in Good
    OBVIOUS
  <2>1. ASSUME NEW x \in S PROVE S \ {x} \in Good
    <3>1. Cardinality(S \ {x}) = Cardinality(S) - 1
      BY <1>1, FS_RemoveElement
    <3>2. Cardinality(S \ {x}) = n
      BY <3>1
    <3> QED BY <1>3, <3>2
  <2> QED BY <2>1
<1> HIDE DEF Ns
<1>4. Nat \subseteq Ns
  BY <1>2, <1>3, NatSets
<1> USE DEF Ns
<1>5. ASSUME NEW S \in SUBSET C PROVE S \in Good
  BY <1>1, <1>4
<1> QED BY <1>5

\* A finite set of natural numbers has a greatest element.
LEMMA Greatest ==
    ASSUME NEW S, IsFiniteSet(S), S # {}, S \subseteq Nat
    PROVE  Max(S) \in S /\ \A x \in S : Max(S) >= x
<1> DEFINE Good == {T \in SUBSET S : T # {} => \E m \in T : \A x \in T : m >= x}
<1>1. ASSUME NEW T \in SUBSET S, \A x \in T : T \ {x} \in Good PROVE T \in Good
  <2> SUFFICES ASSUME NEW y \in T PROVE \E m \in T : \A x \in T : m >= x
    OBVIOUS
  <2>1. T \subseteq Nat /\ y \in Nat
    OBVIOUS
  <2>2. CASE T \ {y} = {}
    BY <2>1, <2>2
  <2>3. CASE T \ {y} # {}
    <3>1. PICK m \in T \ {y} : \A x \in T \ {y} : m >= x
      BY <1>1, <2>3
    <3>2. m \in Nat
      BY <2>1
    <3>3. CASE m >= y
      BY <3>1, <3>3
    <3>4. CASE y >= m
      BY <2>1, <3>1, <3>2, <3>4
    <3> QED BY <2>1, <3>2, <3>3, <3>4
  <2> QED BY <2>2, <2>3
<1> HIDE DEF Good
<1>2. \A T \in SUBSET S : T \in Good
  BY <1>1, SubsetInduction
<1>3. \E m \in S : \A x \in S : m >= x
  BY <1>2 DEF Good
<1> QED BY <1>3 DEF Max

\* Among finitely many things in a strict order one comes before all others.
LEMMA FirstExists ==
    ASSUME NEW C, IsFiniteSet(C), NEW R,
           \A x, y \in C : x # y => <<x, y>> \in R \/ <<y, x>> \in R,
           \A x, y, z \in C : <<x, y>> \in R /\ <<y, z>> \in R => <<x, z>> \in R,
           C # {}
    PROVE  \E x \in C : \A y \in C \ {x} : <<x, y>> \in R
<1> DEFINE First(S) == \E x \in S : \A y \in S \ {x} : <<x, y>> \in R
           Good == {S \in SUBSET C : S # {} => First(S)}
<1>1. \A S \in SUBSET C : (\A x \in S : S \ {x} \in Good) => S \in Good
  <2> TAKE S \in SUBSET C
  <2> HAVE \A x \in S : S \ {x} \in Good
  <2> SUFFICES ASSUME S # {} PROVE First(S)
    OBVIOUS
  <2>1. PICK x \in S : TRUE
    OBVIOUS
  <2>2. CASE S \ {x} = {}
    BY <2>1, <2>2
  <2>3. CASE S \ {x} # {}
    <3>1. PICK m \in S \ {x} : \A y \in (S \ {x}) \ {m} : <<m, y>> \in R
      BY <2>1, <2>3
    <3>2. CASE <<m, x>> \in R
      BY <3>1, <3>2
    <3>3. CASE <<x, m>> \in R
      <4>1. ASSUME NEW y \in S \ {x} PROVE <<x, y>> \in R
        <5>1. x \in C /\ y \in C /\ m \in C
          BY <2>1, <3>1
        <5>2. y = m \/ <<m, y>> \in R
          BY <3>1, <4>1
        <5> QED BY <3>3, <5>1, <5>2
      <4> QED BY <2>1, <4>1
    <3> QED BY <3>1, <3>2, <3>3, <2>1
  <2> QED BY <2>2, <2>3
<1> HIDE DEF Good
<1>2. \A S \in SUBSET C : S \in Good
  BY <1>1, SubsetInduction
<1> QED BY <1>2 DEF Good

\* What a function makes of a finite set is finite.
LEMMA ImageIsFinite ==
    ASSUME NEW S, IsFiniteSet(S), NEW f
    PROVE  IsFiniteSet({f[x] : x \in S})
<1> DEFINE T == {f[x] : x \in S}
           g == [x \in S |-> f[x]]
<1>1. g \in Surjection(S, T)
  BY DEF Surjection
<1> HIDE DEF g, T
<1>2. IsFiniteSet(T)
  BY <1>1, FS_Surjection
<1> QED BY <1>2 DEF T

---------------------------------------------------------------------------
(* Numbers.                                                                *)

\* What a quotient is.
LEMMA Quotient ==
    ASSUME NEW n \in Int, NEW d \in Nat \ {0}
    PROVE  n \div d \in Int /\ d * (n \div d) <= n /\ n < d * (n \div d) + d
OBVIOUS

\* A multiple is divided exactly.
LEMMA QuotientOfMultiple ==
    ASSUME NEW w \in Int, NEW d \in Nat \ {0}
    PROVE  (w * d) \div d = w
OBVIOUS

\* The edges between cells are numbers, the first is at 0 and the last at the
\* width of the arena.
LEMMA Edges ==
    /\ internal_boundary(0) = 0 /\ internal_boundary(Cells) = Width
    /\ \A c \in Int : internal_boundary(c) \in Int
<1>1. (Width * 0) \div Cells = 0
  BY IndexAssumption
<1>2. (Width * Cells) \div Cells = Width
  BY IndexAssumption, QuotientOfMultiple
<1>3. ASSUME NEW c \in Int PROVE (Width * c) \div Cells \in Int
  BY IndexAssumption
<1> QED BY <1>1, <1>2, <1>3 DEF internal_boundary

---------------------------------------------------------------------------
(* The index.                                                              *)

\* Every place of the arena is in a cell.
LEMMA PlaceHasCell ==
    ASSUME NEW x \in 0 .. Width
    PROVE  \E c \in 0 .. Cells - 1 : internal_boundary(c) <= x /\ x <= internal_boundary(c + 1)
<1> DEFINE In(c) == internal_boundary(c) <= x /\ x <= internal_boundary(c + 1)
           S == {n \in 0 .. Cells : n > 0 => (internal_boundary(n) < x \/ \E c \in 0 .. n - 1 : In(c))}
<1>0. Cells \in Nat \ {0} /\ Width \in Nat /\ x \in Int
  BY IndexAssumption
<1>1. 0 \in S
  BY <1>0
<1>2. ASSUME NEW k \in 1 .. Cells, k - 1 \in S PROVE k \in S
  <2>1. internal_boundary(k) \in Int /\ internal_boundary(k - 1) \in Int /\ (k - 1) + 1 = k
    BY <1>0, Edges
  <2>2. CASE internal_boundary(k) < x
    BY <1>0, <2>2
  <2>3. CASE x <= internal_boundary(k)
    <3>1. \E c \in 0 .. k - 1 : In(c)
      <4>1. CASE k - 1 = 0
        BY <1>0, <2>1, <2>3, <4>1, Edges
      <4>2. CASE k - 1 > 0 /\ internal_boundary(k - 1) < x
        BY <1>0, <2>1, <2>3, <4>2
      <4>3. CASE k - 1 > 0 /\ \E c \in 0 .. (k - 1) - 1 : In(c)
        BY <1>0, <4>3
      <4> QED BY <1>2, <4>1, <4>2, <4>3
    <3> QED BY <1>0, <3>1
  <2> QED BY <1>0, <2>1, <2>2, <2>3
<1> HIDE DEF S
<1>3. Cells \in S
  BY <1>0, <1>1, <1>2, UpTo
<1>4. internal_boundary(Cells) < x \/ \E c \in 0 .. Cells - 1 : In(c)
  BY <1>0, <1>3 DEF S
<1> QED BY <1>0, <1>4, Edges

\* How far a body reaches is a number.
LEMMA RadiusType ==
    ASSUME NEW body \in Bodies
    PROVE  effective_radius(body) \in Nat \ {0} /\ body.position \in Int
BY IndexAssumption DEF Bodies, effective_radius

\* A place is brought back to the arena without changing the order of places.
Clamped(x) == IF x < 0 THEN 0 ELSE IF x > Width THEN Width ELSE x

\* Discs that touch are in a common cell, those outside the arena included.
LEMMA TouchingShareCell ==
    ASSUME NEW a \in Bodies, NEW b \in Bodies, Touch(a, b)
    PROVE  \E c \in 0 .. Cells - 1 : c \in body_coverage(a) /\ c \in body_coverage(b)
<1> DEFINE ra == effective_radius(a)
           rb == effective_radius(b)
           la == a.position - (ra + Padding)
           lb == b.position - (rb + Padding)
           ha == a.position + (ra + Padding)
           hb == b.position + (rb + Padding)
           x == Clamped(Larger(la, lb))
<1>1. ra \in Nat /\ rb \in Nat /\ a.position \in Int /\ b.position \in Int
  BY RadiusType
<1>2. a.position - b.position <= ra + rb /\ b.position - a.position <= ra + rb
  BY <1>1 DEF Touch, contact_distance
<1>3. Width \in Nat
  BY IndexAssumption
<1>4. la \in Int /\ lb \in Int /\ ha \in Int /\ hb \in Int
  BY <1>1 DEF Padding
<1>5. la <= ha /\ la <= hb /\ lb <= ha /\ lb <= hb
  BY <1>1, <1>2 DEF Padding
<1>6. body_coverage(a) =
         {c \in 0 .. Cells - 1 : internal_boundary(c + 1) >= Clamped(la) /\ internal_boundary(c) <= Clamped(ha)}
  BY DEF body_coverage, Clamped
<1>7. body_coverage(b) =
         {c \in 0 .. Cells - 1 : internal_boundary(c + 1) >= Clamped(lb) /\ internal_boundary(c) <= Clamped(hb)}
  BY DEF body_coverage, Clamped
<1> HIDE DEF la, lb, ha, hb
<1>8. /\ x \in 0 .. Width
      /\ Clamped(la) <= x /\ Clamped(lb) <= x /\ x <= Clamped(ha) /\ x <= Clamped(hb)
      /\ Clamped(la) \in Int /\ Clamped(lb) \in Int /\ Clamped(ha) \in Int /\ Clamped(hb) \in Int
  BY <1>3, <1>4, <1>5 DEF Clamped, Larger
<1>9. PICK c \in 0 .. Cells - 1 : internal_boundary(c) <= x /\ x <= internal_boundary(c + 1)
  BY <1>8, PlaceHasCell
<1>10. internal_boundary(c) \in Int /\ internal_boundary(c + 1) \in Int /\ x \in Int
  BY <1>3, <1>8, Edges, IndexAssumption
<1> HIDE DEF x
<1> QED BY <1>6, <1>7, <1>8, <1>9, <1>10

\* Two different things make a set of two.
LEMMA PairHasTwo ==
    ASSUME NEW e, NEW f, e # f
    PROVE  Cardinality({e, f}) = 2
<1>1. IsFiniteSet({e}) /\ Cardinality({e}) = 1
  BY FS_Singleton
<1>2. {e, f} = {e} \cup {f} /\ f \notin {e}
  OBVIOUS
<1> QED BY <1>1, <1>2, FS_AddElement

\* Bodies that touch are a candidate pair of the index made of them.
LEMMA TouchingArePaired ==
    ASSUME NEW bodies, bodies \in [DOMAIN bodies -> Bodies],
           NEW e \in DOMAIN bodies, NEW f \in DOMAIN bodies, e # f, Touch(bodies[e], bodies[f])
    PROVE  {e, f} \in rebuilt(bodies).pairs
<1>1. bodies[e] \in Bodies /\ bodies[f] \in Bodies
  OBVIOUS
<1>2. PICK c \in 0 .. Cells - 1 : c \in body_coverage(bodies[e]) /\ c \in body_coverage(bodies[f])
  BY <1>1, TouchingShareCell
<1> DEFINE cells == build_cells(bodies)
<1>3. c \in DOMAIN cells /\ {e, f} \in SUBSET cells[c]
  BY <1>2 DEF build_cells
<1>4. Cardinality({e, f}) = 2
  BY PairHasTwo
<1>5. {e, f} \in build_candidate_pairs(cells)
  BY <1>3, <1>4 DEF build_candidate_pairs
<1> QED BY <1>5 DEF rebuilt

\* An index depends on the places and the sizes of the bodies alone.
LEMMA SameIndex ==
    ASSUME NEW indexed, NEW bodies, still_indexes(indexed, bodies)
    PROVE  rebuilt(indexed) = rebuilt(bodies)
<1>1. DOMAIN indexed = DOMAIN bodies
  BY DEF still_indexes
<1>2. ASSUME NEW e \in DOMAIN bodies PROVE body_coverage(indexed[e]) = body_coverage(bodies[e])
  BY DEF still_indexes, body_coverage, effective_radius
<1>3. ASSUME NEW c
      PROVE  {e \in DOMAIN indexed : c \in body_coverage(indexed[e])}
                = {e \in DOMAIN bodies : c \in body_coverage(bodies[e])}
  BY <1>1, <1>2
<1>4. build_cells(indexed) = build_cells(bodies)
  BY <1>3 DEF build_cells
<1> QED BY <1>4 DEF rebuilt

\* So the index that a stage hands on is the one of its bodies.
LEMMA ReindexedIsRebuilt ==
    ASSUME NEW current, NEW indexed, NEW bodies, current = rebuilt(indexed)
    PROVE  reindexed(current, indexed, bodies) = rebuilt(bodies)
BY SameIndex DEF reindexed

---------------------------------------------------------------------------
(* The bodies of a stage.                                                  *)

\* A world: a body of each kind for some of the entities.
IsWorld(bodies) == DOMAIN bodies \subseteq Entities /\ bodies \in [DOMAIN bodies -> Bodies]

\* Taking bodies out of a world leaves a world.
LEMMA WithoutIsWorld ==
    ASSUME NEW bodies, IsWorld(bodies), NEW gone
    PROVE  /\ IsWorld(Without(bodies, gone))
           /\ DOMAIN Without(bodies, gone) = DOMAIN bodies \ gone
           /\ \A e \in DOMAIN bodies \ gone : Without(bodies, gone)[e] = bodies[e]
BY DEF IsWorld, Without, Restrict

\* So does putting one in.
LEMMA WithIsWorld ==
    ASSUME NEW bodies, IsWorld(bodies), NEW e \in Entities, NEW body \in Bodies
    PROVE  /\ IsWorld(With(bodies, e, body))
           /\ DOMAIN With(bodies, e, body) = DOMAIN bodies \cup {e}
           /\ With(bodies, e, body)[e] = body
           /\ \A f \in DOMAIN bodies : f # e => With(bodies, e, body)[f] = bodies[f]
BY DEF IsWorld, With

\* The least of finitely many numbers.
LEMMA Least ==
    ASSUME NEW S, IsFiniteSet(S), S # {}, S \subseteq Int
    PROVE  Min(S) \in S /\ \A x \in S : Min(S) <= x
<1> DEFINE Good == {T \in SUBSET S : T # {} => \E m \in T : \A x \in T : m <= x}
<1>1. ASSUME NEW T \in SUBSET S, \A x \in T : T \ {x} \in Good PROVE T \in Good
  <2> SUFFICES ASSUME NEW y \in T PROVE \E m \in T : \A x \in T : m <= x
    OBVIOUS
  <2>1. T \subseteq Int /\ y \in Int
    OBVIOUS
  <2>2. CASE T \ {y} = {}
    BY <2>1, <2>2
  <2>3. CASE T \ {y} # {}
    <3>1. PICK m \in T \ {y} : \A x \in T \ {y} : m <= x
      BY <1>1, <2>3
    <3>2. m \in Int
      BY <2>1
    <3>3. CASE m <= y
      BY <3>1, <3>3
    <3>4. CASE y <= m
      BY <2>1, <3>1, <3>2, <3>4
    <3> QED BY <2>1, <3>2, <3>3, <3>4
  <2> QED BY <2>2, <2>3
<1> HIDE DEF Good
<1>2. \A T \in SUBSET S : T \in Good
  BY <1>1, SubsetInduction
<1>3. \E m \in S : \A x \in S : m <= x
  BY <1>2 DEF Good
<1> QED BY <1>3 DEF Min

\* One more is seated, or nothing changes.
LEMMA PlacedFacts ==
    ASSUME NEW bodies, IsWorld(bodies), NEW e \in Entities
    PROVE  /\ IsWorld(Placed(bodies, e))
           /\ \/ Placed(bodies, e) = bodies
              \/ DOMAIN Placed(bodies, e) = DOMAIN bodies \cup {e}
<1> DEFINE free == {m \in Markers : Seatable(bodies, m)}
           body == Body(Min(free), 0, PlayerRadius, "folding")
<1>1. CASE free = {}
  BY <1>1 DEF Placed
<1>2. CASE free # {}
  <2>1. IsFiniteSet(free) /\ free \subseteq Int
    BY StepAssumption, IndexAssumption, FS_Subset
  <2>2. Min(free) \in Int
    <3> HIDE DEF free
    <3> QED BY <1>2, <2>1, Least
  <2> HIDE DEF free
  <2>3. body \in Bodies
    BY <2>2, IndexAssumption DEF Body, Bodies, Kinds
  <2> HIDE DEF body
  <2>4. Placed(bodies, e) = With(bodies, e, body)
    BY <1>2 DEF Placed, free, body
  <2>5. \A b \in Bodies : IsWorld(With(bodies, e, b)) /\ DOMAIN With(bodies, e, b) = DOMAIN bodies \cup {e}
    BY WithIsWorld
  <2> QED BY <2>3, <2>4, <2>5
<1> QED BY <1>1, <1>2

\* Seating entity after entity: what after[some] is, for the ones before.
Seating(after, bodies, pending) ==
    /\ after[{}] = bodies /\ Seated(bodies, pending) = after[pending]
    /\ \A some \in SUBSET pending :
          some # {} => after[some] = Placed(after[some \ {Max(some)}], Max(some))

\* The recursion of Seated can be unfolded.
LEMMA SeatedUnfolds ==
    ASSUME NEW bodies, NEW pending, IsFiniteSet(pending), pending \subseteq Nat
    PROVE  \E after : Seating(after, bodies, pending)
<1> DEFINE D == pending
           it == CHOOSE g : g = [some \in SUBSET pending |->
                                    IF some = {} THEN bodies ELSE Placed(g[some \ {Max(some)}], Max(some))]
           Then(f, s) == IF s = {} THEN bodies ELSE Placed(f[s \ {Max(s)}], Max(s))
           IsFamily(f) == f = [s \in SUBSET D |-> f[s]]
           Upto(f, n) == \A s \in SUBSET D : Cardinality(s) <= n => f[s] = Then(f, s)
           Ns == {n \in Nat : \E f : IsFamily(f) /\ Upto(f, n)}
<1>1. Seated(bodies, pending) = it[pending]
  BY Zenon DEF Seated
<1>2. IsFiniteSet(D) /\ Cardinality(D) \in Nat
  BY FS_CardinalityType
<1>3. ASSUME NEW s \in SUBSET D
      PROVE  /\ IsFiniteSet(s) /\ Cardinality(s) \in Nat /\ (Cardinality(s) = 0 <=> s = {})
             /\ Cardinality(s) <= Cardinality(D)
  BY <1>2, FS_Subset, FS_CardinalityType, FS_EmptySet
<1>4. ASSUME NEW s \in SUBSET D, s # {}
      PROVE  s \ {Max(s)} \in SUBSET D /\ Cardinality(s \ {Max(s)}) = Cardinality(s) - 1
  <2>1. Max(s) \in s
    BY <1>3, <1>4, Greatest
  <2> QED BY <1>3, <2>1, FS_RemoveElement
<1>5. 0 \in Ns
  <2> DEFINE f == [s \in SUBSET D |-> bodies]
  <2>1. IsFamily(f)
    OBVIOUS
  <2>2. Upto(f, 0)
    BY <1>3
  <2> HIDE DEF f, Upto, IsFamily
  <2> QED BY <2>1, <2>2
<1>6. ASSUME NEW n \in Nat, n \in Ns PROVE n + 1 \in Ns
  <2>1. PICK f : IsFamily(f) /\ Upto(f, n)
    BY <1>6
  <2> DEFINE h == [s \in SUBSET D |-> Then(f, s)]
  <2>2. ASSUME NEW s \in SUBSET D, Cardinality(s) <= n + 1 PROVE h[s] = Then(h, s)
    <3>1. CASE s = {}
      BY <3>1
    <3>2. CASE s # {}
      <4> DEFINE u == s \ {Max(s)}
      <4>1. u \in SUBSET D /\ Cardinality(u) <= n
        BY <1>3, <1>4, <2>2, <3>2
      <4>2. f[u] = Then(f, u)
        BY <2>1, <4>1
      <4>3. h[u] = f[u]
        BY <4>1, <4>2
      <4>4. h[s] = Then(f, s)
        OBVIOUS
      <4> HIDE DEF h, D
      <4> QED BY <3>2, <4>3, <4>4
    <3> QED BY <3>1, <3>2
  <2>3. IsFamily(h) /\ Upto(h, n + 1)
    BY <2>2
  <2> HIDE DEF h, Upto, IsFamily
  <2> QED BY <2>3
<1>7. \E f : f = [s \in SUBSET D |-> Then(f, s)]
  <2> DEFINE N == Cardinality(D)
  <2>1. N \in Nat /\ \A s \in SUBSET D : Cardinality(s) <= N
    BY <1>2, <1>3
  <2> HIDE DEF Ns, N
  <2>2. N \in Ns
    BY <1>5, <1>6, <2>1, NatSets
  <2> USE DEF Ns
  <2>3. PICK f : IsFamily(f) /\ Upto(f, N)
    BY <2>2
  <2>4. \A s \in SUBSET D : f[s] = Then(f, s)
    BY <2>1, <2>3
  <2>5. f = [s \in SUBSET D |-> f[s]]
    BY <2>3
  <2> HIDE DEF Then, Upto, IsFamily, D
  <2>6. f = [s \in SUBSET D |-> Then(f, s)]
    BY <2>4, <2>5
  <2> QED BY <2>6
<1>8. it = [s \in SUBSET D |-> Then(it, s)]
  <2>1. PICK f : f = [s \in SUBSET D |-> Then(f, s)]
    BY <1>7
  <2>2. f = [some \in SUBSET pending |-> IF some = {} THEN bodies ELSE Placed(f[some \ {Max(some)}], Max(some))]
    BY <2>1
  <2> QED BY Zenon, <2>2
<1> HIDE DEF it
<1>9. it[{}] = bodies
  BY <1>8
<1>10. \A some \in SUBSET pending : some # {} => it[some] = Placed(it[some \ {Max(some)}], Max(some))
  BY <1>8
<1>11. Seating(it, bodies, pending)
  BY <1>1, <1>9, <1>10 DEF Seating
<1> QED BY <1>11

\* The entities that wait are seated or not, and nobody else is touched.
LEMMA SeatedFacts ==
    ASSUME NEW bodies, IsWorld(bodies), NEW pending, pending \subseteq Entities, pending \cap DOMAIN bodies = {}
    PROVE  /\ IsWorld(Seated(bodies, pending))
           /\ DOMAIN Seated(bodies, pending) \subseteq DOMAIN bodies \cup pending
           /\ DOMAIN Seated(bodies, pending) = DOMAIN bodies => Seated(bodies, pending) = bodies
<1>1. IsFiniteSet(pending) /\ pending \subseteq Nat
  BY StepAssumption, FS_Subset
<1>2. PICK after : Seating(after, bodies, pending)
  BY <1>1, SeatedUnfolds
<1> DEFINE Fine(r, some) == /\ IsWorld(r) /\ DOMAIN r \subseteq DOMAIN bodies \cup some
                            /\ r = bodies \/ \E e \in some : e \in DOMAIN r
           Good == {some \in SUBSET pending : Fine(after[some], some)}
<1>3. ASSUME NEW some \in SUBSET pending, \A x \in some : some \ {x} \in Good PROVE some \in Good
  <2>1. CASE some = {}
    BY <1>2, <2>1 DEF Seating
  <2>2. CASE some # {}
    <3> DEFINE e == Max(some)
               before == after[some \ {e}]
               now == after[some]
    <3>1. e \in some /\ e \in Entities
      <4>1. IsFiniteSet(some) /\ some \subseteq Nat
        BY <1>1, FS_Subset
      <4> QED BY <2>2, <4>1, Greatest
    <3>2. Fine(before, some \ {e})
      BY <1>3, <3>1
    <3>3. now = Placed(before, e)
      BY <1>2, <2>2 DEF Seating
    <3> HIDE DEF e, before, now
    <3>4. /\ IsWorld(now)
          /\ now = before \/ DOMAIN now = DOMAIN before \cup {e}
      BY <3>1, <3>2, <3>3, PlacedFacts
    <3>5. Fine(now, some)
      BY <3>1, <3>2, <3>4
    <3> QED BY <3>5 DEF now
  <2> QED BY <2>1, <2>2
<1> HIDE DEF Good
<1>4. pending \in Good
  BY <1>1, <1>3, SubsetInduction
<1>5. Fine(after[pending], pending)
  BY <1>4 DEF Good
<1>6. Fine(Seated(bodies, pending), pending)
  BY <1>2, <1>5 DEF Seating
<1> QED BY <1>6

---------------------------------------------------------------------------
(* The state of a solve.                                                   *)

Epochs == [body : Bodies, anchor : Int, revision : Nat, terminated : BOOLEAN, touch : BOOLEAN]
Certificates == [time : Int, normal : Int, impact : BOOLEAN, revisions : Int \X Int]
PairCaches == [event : Certificates, seen : Int \X Int, suppressed : Int \X Int]
WallCaches == [time : Int, side : {0, 1}]
TriggerCaches == [cursor : Nat, time : Int, revision : Nat, initialized : BOOLEAN]
Effects == {"contact", "gate", "lost"} \X Entities \X Nat

\* The states of a solve of some entities, with caches for some triggers.
Solvers(D, T) ==
    [now : Int, count : Nat, effects : Seq(Effects), bodies : [D -> Epochs],
     pairs : [Pairs(D) -> PairCaches], walls : [D -> WallCaches], triggers : [T -> TriggerCaches]]

\* The entities and the triggers of a solve.
IsScope(D, T) == D \subseteq Entities /\ T \subseteq D \X {"support", "gate"}

\* Where an epoch puts its body is a place.
LEMMA AtType ==
    ASSUME NEW epoch \in Epochs, NEW time \in Int
    PROVE  at(epoch, time) \in Int
<1>1. epoch.body.position \in Int /\ epoch.body.velocity \in Int /\ epoch.anchor \in Int
  BY DEF Epochs, Bodies
<1>2. epoch.body.velocity * (time - epoch.anchor) \in Int
  BY <1>1
<1> QED BY <1>1, <1>2 DEF at

\* An epoch that begins here and now.
Moved(body, position, velocity) == [body EXCEPT !.position = position, !.velocity = velocity]
Restarted(epoch, now, velocity, terminates) ==
    [epoch EXCEPT !.body = Moved(epoch.body, at(epoch, now), velocity), !.anchor = now,
                  !.revision = epoch.revision + 1, !.terminated = terminates]

LEMMA MovedType ==
    ASSUME NEW body \in Bodies, NEW position \in Int, NEW velocity \in Int
    PROVE  /\ Moved(body, position, velocity) \in Bodies
           /\ Moved(body, position, velocity).position = position
           /\ Moved(body, position, velocity).velocity = velocity
           /\ Moved(body, position, velocity).radius = body.radius
           /\ Moved(body, position, velocity).kind = body.kind
BY DEF Moved, Bodies

LEMMA RestartedType ==
    ASSUME NEW epoch \in Epochs, NEW now \in Int, NEW velocity \in Int, NEW terminates \in BOOLEAN
    PROVE  LET fresh == Restarted(epoch, now, velocity, terminates)
           IN /\ fresh \in Epochs
              /\ fresh.anchor = now /\ fresh.revision = epoch.revision + 1
              /\ fresh.terminated = terminates /\ fresh.touch = epoch.touch
              /\ fresh.body.position = at(epoch, now) /\ fresh.body.velocity = velocity
              /\ fresh.body.radius = epoch.body.radius /\ fresh.body.kind = epoch.body.kind
<1> DEFINE body == Moved(epoch.body, at(epoch, now), velocity)
           fresh == Restarted(epoch, now, velocity, terminates)
<1>1. /\ body \in Bodies
      /\ body.position = at(epoch, now) /\ body.velocity = velocity
      /\ body.radius = epoch.body.radius /\ body.kind = epoch.body.kind
  <2>1. epoch.body \in Bodies /\ at(epoch, now) \in Int
    BY AtType DEF Epochs
  <2> QED BY <2>1, MovedType
<1>2. fresh = [epoch EXCEPT !.body = body, !.anchor = now, !.revision = epoch.revision + 1, !.terminated = terminates]
  BY DEF Restarted
<1> HIDE DEF body, fresh
<1>3. fresh \in Epochs
  <2> DEFINE e1 == [epoch EXCEPT !.body = body]
             e2 == [e1 EXCEPT !.anchor = now]
             e3 == [e2 EXCEPT !.revision = epoch.revision + 1]
             e4 == [e3 EXCEPT !.terminated = terminates]
  <2>1. e1 \in Epochs
    BY <1>1 DEF Epochs
  <2> HIDE DEF e1
  <2>2. e2 \in Epochs
    BY <2>1 DEF Epochs
  <2> HIDE DEF e2
  <2>3. e3 \in Epochs
    BY <2>2 DEF Epochs
  <2> HIDE DEF e3
  <2>4. e4 \in Epochs
    BY <2>3 DEF Epochs
  <2>5. fresh = e4
    BY Zenon, <1>2 DEF e1, e2, e3
  <2> HIDE DEF e4
  <2> QED BY <2>4, <2>5
<1>4. /\ fresh.body = body /\ fresh.anchor = now /\ fresh.revision = epoch.revision + 1
      /\ fresh.terminated = terminates /\ fresh.touch = epoch.touch
  BY <1>1, <1>2 DEF Epochs
<1> QED BY <1>1, <1>3, <1>4 DEF fresh

\* What replace does to the state of a solve.
LEMMA ReplaceIs ==
    ASSUME NEW D, NEW T, NEW s \in Solvers(D, T), NEW e \in D, NEW velocity \in Int, NEW terminates \in BOOLEAN
    PROVE  replace(s, e, velocity, terminates) =
              IF velocity = s.bodies[e].body.velocity /\ ~ terminates THEN s
              ELSE [s EXCEPT !.bodies[e] = Restarted(s.bodies[e], s.now, velocity, terminates)]
BY DEF replace, Restarted, Moved

\* The parts of a solve's state.
LEMMA SolverFields ==
    ASSUME NEW D, NEW T, NEW s \in Solvers(D, T)
    PROVE  /\ s.now \in Int /\ s.count \in Nat /\ s.effects \in Seq(Effects)
           /\ s.bodies \in [D -> Epochs] /\ s.pairs \in [Pairs(D) -> PairCaches]
           /\ s.walls \in [D -> WallCaches] /\ s.triggers \in [T -> TriggerCaches]
BY DEF Solvers

\* One part of it is replaced.
LEMMA BodiesUpdate ==
    ASSUME NEW D, NEW T, NEW s \in Solvers(D, T), NEW bodies \in [D -> Epochs]
    PROVE  LET r == [s EXCEPT !.bodies = bodies]
           IN /\ r \in Solvers(D, T) /\ r.bodies = bodies
              /\ r.now = s.now /\ r.count = s.count /\ r.effects = s.effects
              /\ r.pairs = s.pairs /\ r.walls = s.walls /\ r.triggers = s.triggers
BY DEF Solvers

LEMMA PairsUpdate ==
    ASSUME NEW D, NEW T, NEW s \in Solvers(D, T), NEW pairs \in [Pairs(D) -> PairCaches]
    PROVE  LET r == [s EXCEPT !.pairs = pairs]
           IN /\ r \in Solvers(D, T) /\ r.pairs = pairs
              /\ r.now = s.now /\ r.count = s.count /\ r.effects = s.effects
              /\ r.bodies = s.bodies /\ r.walls = s.walls /\ r.triggers = s.triggers
BY DEF Solvers

LEMMA WallsUpdate ==
    ASSUME NEW D, NEW T, NEW s \in Solvers(D, T), NEW walls \in [D -> WallCaches]
    PROVE  LET r == [s EXCEPT !.walls = walls]
           IN /\ r \in Solvers(D, T) /\ r.walls = walls
              /\ r.now = s.now /\ r.count = s.count /\ r.effects = s.effects
              /\ r.bodies = s.bodies /\ r.pairs = s.pairs /\ r.triggers = s.triggers
BY DEF Solvers

LEMMA TriggersUpdate ==
    ASSUME NEW D, NEW T, NEW s \in Solvers(D, T), NEW triggers \in [T -> TriggerCaches]
    PROVE  LET r == [s EXCEPT !.triggers = triggers]
           IN /\ r \in Solvers(D, T) /\ r.triggers = triggers
              /\ r.now = s.now /\ r.count = s.count /\ r.effects = s.effects
              /\ r.bodies = s.bodies /\ r.pairs = s.pairs /\ r.walls = s.walls
BY DEF Solvers

LEMMA EffectsUpdate ==
    ASSUME NEW D, NEW T, NEW s \in Solvers(D, T), NEW effects \in Seq(Effects)
    PROVE  LET r == [s EXCEPT !.effects = effects]
           IN /\ r \in Solvers(D, T) /\ r.effects = effects
              /\ r.now = s.now /\ r.count = s.count /\ r.triggers = s.triggers
              /\ r.bodies = s.bodies /\ r.pairs = s.pairs /\ r.walls = s.walls
BY DEF Solvers

\* begin_event.
Begun(s, time) == [s EXCEPT !.now = time, !.count = @ + 1]

LEMMA BegunFacts ==
    ASSUME NEW D, NEW T, NEW s \in Solvers(D, T), NEW time \in Int
    PROVE  LET r == Begun(s, time)
           IN /\ r \in Solvers(D, T) /\ r.now = time /\ r.effects = s.effects
              /\ r.bodies = s.bodies /\ r.pairs = s.pairs /\ r.walls = s.walls /\ r.triggers = s.triggers
<1> DEFINE m == [s EXCEPT !.now = time]
           r == Begun(s, time)
           c == s.count + 1
           n == [m EXCEPT !.count = c]
<1>1. /\ m \in Solvers(D, T) /\ m.now = time /\ m.effects = s.effects
      /\ m.bodies = s.bodies /\ m.pairs = s.pairs /\ m.walls = s.walls /\ m.triggers = s.triggers
  BY DEF Solvers
<1>2. c \in Nat /\ m.count = s.count
  BY DEF Solvers
<1>3. r = [m EXCEPT !.count = @ + 1]
  BY Zenon DEF Begun
<1> HIDE DEF m, r
<1>4. r = n
  BY Zenon, <1>2, <1>3
<1> HIDE DEF c
<1>5. /\ n \in Solvers(D, T) /\ n.now = m.now /\ n.effects = m.effects
      /\ n.bodies = m.bodies /\ n.pairs = m.pairs /\ n.walls = m.walls /\ n.triggers = m.triggers
  BY <1>1, <1>2 DEF Solvers
<1> HIDE DEF n
<1> QED BY <1>1, <1>4, <1>5 DEF r

\* replace changes the epoch of one body, or nothing.
LEMMA ReplaceFacts ==
    ASSUME NEW D, NEW T, NEW s \in Solvers(D, T), NEW e \in D, NEW velocity \in Int, NEW terminates \in BOOLEAN
    PROVE  LET r == replace(s, e, velocity, terminates)
           IN /\ r \in Solvers(D, T)
              /\ r.now = s.now /\ r.count = s.count /\ r.effects = s.effects
              /\ r.pairs = s.pairs /\ r.walls = s.walls /\ r.triggers = s.triggers
              /\ r.bodies = IF velocity = s.bodies[e].body.velocity /\ ~ terminates THEN s.bodies
                            ELSE [s.bodies EXCEPT ![e] = Restarted(s.bodies[e], s.now, velocity, terminates)]
<1> DEFINE fresh == Restarted(s.bodies[e], s.now, velocity, terminates)
           bodies == [s.bodies EXCEPT ![e] = fresh]
           r == replace(s, e, velocity, terminates)
<1>1. s.bodies \in [D -> Epochs] /\ s.bodies[e] \in Epochs /\ s.now \in Int
  BY SolverFields
<1>2. fresh \in Epochs
  BY <1>1, RestartedType
<1>3. r = IF velocity = s.bodies[e].body.velocity /\ ~ terminates THEN s ELSE [s EXCEPT !.bodies[e] = fresh]
  BY ReplaceIs
<1>4. [s EXCEPT !.bodies[e] = fresh] = [s EXCEPT !.bodies = bodies]
  OBVIOUS
<1> HIDE DEF fresh
<1>5. bodies \in [D -> Epochs]
  BY <1>1, <1>2
<1> HIDE DEF bodies, r
<1>6. CASE velocity = s.bodies[e].body.velocity /\ ~ terminates
  <2>1. r = s
    BY <1>3, <1>6
  <2> QED BY <1>6, <2>1 DEF r
<1>7. CASE ~ (velocity = s.bodies[e].body.velocity /\ ~ terminates)
  <2>1. r = [s EXCEPT !.bodies = bodies]
    BY <1>3, <1>4, <1>7
  <2>2. /\ r \in Solvers(D, T) /\ r.bodies = bodies
        /\ r.now = s.now /\ r.count = s.count /\ r.effects = s.effects
        /\ r.pairs = s.pairs /\ r.walls = s.walls /\ r.triggers = s.triggers
    BY <1>5, <2>1, BodiesUpdate
  <2> QED BY <1>7, <2>2 DEF r, bodies, fresh
<1> QED BY <1>6, <1>7

---------------------------------------------------------------------------
(* The events of pairs and of walls.                                       *)

\* A pair of bodies of a solve.
LEMMA PairMembers ==
    ASSUME NEW D, NEW p \in Pairs(D)
    PROVE  p[1] \in D /\ p[2] \in D /\ p = <<p[1], p[2]>>
BY DEF Pairs

LEMMA RevisionsType ==
    ASSUME NEW D, NEW T, NEW s \in Solvers(D, T), NEW p \in Pairs(D)
    PROVE  Revisions(s, p) \in Int \X Int
<1>1. s.bodies[p[1]] \in Epochs /\ s.bodies[p[2]] \in Epochs
  BY SolverFields, PairMembers
<1> QED BY <1>1 DEF Revisions, Epochs

LEMMA SignFacts ==
    ASSUME NEW x \in Int
    PROVE  /\ Sign(x) \in {-1, 0, 1} /\ Sign(x) * x \in Nat
           /\ x # 0 => Sign(x) * x \in Nat \ {0}
           /\ x > 0 => Sign(x) * x = x
           /\ x < 0 => Sign(x) * x = -x
           /\ x = 0 => Sign(x) * x = 0
BY DEF Sign

LEMMA VelocityType ==
    ASSUME NEW body \in Bodies
    PROVE  velocity_of(body) \in Int
BY DEF velocity_of, Bodies

LEMMA ClosingType ==
    ASSUME NEW a, NEW b, NEW n
    PROVE  closing(a, b, n) \in BOOLEAN
BY DEF closing

\* An event of a pair is at the start of the later epoch, or between now and the end.
LEMMA PairEventFacts ==
    ASSUME NEW D, NEW T, NEW s \in Solvers(D, T), NEW p \in Pairs(D)
    PROVE  /\ pair_event(s, p) \in Certificates
           /\ \/ pair_event(s, p).time = Never
              \/ pair_event(s, p).time = Larger(s.bodies[p[1]].anchor, s.bodies[p[2]].anchor)
              \/ pair_event(s, p).time \in s.now .. End
<1> DEFINE a == s.bodies[p[1]]
           b == s.bodies[p[2]]
           begin == Larger(a.anchor, b.anchor)
           apart == at(b, begin) - at(a, begin)
           approach == velocity_of(a.body) - velocity_of(b.body)
           distance == contact_distance(a.body, b.body)
           observes == a.touch \/ b.touch
           entry == begin + ((Sign(apart) * apart) - distance) \div (Sign(approach) * approach)
           make(time, impact) ==
               LET normal == contact_normal(at(b, time) - at(a, time), approach)
               IN IF observes \/ (impact /\ closing(a.body, b.body, normal))
                  THEN [time |-> time, normal |-> normal, impact |-> impact, revisions |-> Revisions(s, p)]
                  ELSE NoCertificate
           Answers(v) == v \in Certificates /\ (v.time = Never \/ v.time = begin \/ v.time \in s.now .. End)
<1>1. pair_event(s, p) =
         IF Sign(apart) * apart <= distance
         THEN make(begin, approach # 0 /\ (apart = 0 \/ approach * apart > 0))
         ELSE IF begin = End \/ approach * apart <= 0 THEN NoCertificate
              ELSE IF entry > End \/ entry < s.now THEN NoCertificate ELSE make(entry, TRUE)
  BY DEF pair_event
<1>2. a \in Epochs /\ b \in Epochs /\ s.now \in Int
  BY SolverFields, PairMembers
<1>3. a.body \in Bodies /\ b.body \in Bodies /\ a.anchor \in Int /\ b.anchor \in Int
  BY <1>2 DEF Epochs
<1>4. begin \in Int
  BY <1>3 DEF Larger
<1>5. apart \in Int
  <2> HIDE DEF begin
  <2>1. at(a, begin) \in Int /\ at(b, begin) \in Int
    BY <1>2, <1>4, AtType
  <2> QED BY <2>1
<1>6. approach \in Int
  BY <1>3, VelocityType
<1>7. distance \in Int
  BY <1>3, RadiusType DEF contact_distance
<1>8. NoCertificate \in Certificates /\ NoCertificate.time = Never
  BY DEF NoCertificate, Certificates, Never
<1>9. Revisions(s, p) \in Int \X Int
  BY RevisionsType
<1> HIDE DEF a, b, begin, apart, approach, distance, observes, entry
<1>10. ASSUME NEW time \in Int, NEW impact \in BOOLEAN
       PROVE  make(time, impact) \in Certificates /\ make(time, impact).time \in {Never, time}
  <2> DEFINE normal == contact_normal(at(b, time) - at(a, time), approach)
  <2>1. at(a, time) \in Int /\ at(b, time) \in Int
    BY <1>2, AtType
  <2>2. normal \in Int
    BY <1>6, <2>1 DEF contact_normal, Sign
  <2> HIDE DEF normal
  <2> DEFINE v == [time |-> time, normal |-> normal, impact |-> impact, revisions |-> Revisions(s, p)]
  <2>3. v \in Certificates /\ v.time = time
    BY <1>9, <2>2 DEF Certificates
  <2>4. make(time, impact) = v \/ make(time, impact) = NoCertificate
    BY DEF normal
  <2> HIDE DEF v, make
  <2> QED BY <1>8, <2>3, <2>4
<1> HIDE DEF make
<1>11. CASE Sign(apart) * apart <= distance
  <2> DEFINE impact == approach # 0 /\ (apart = 0 \/ approach * apart > 0)
  <2>1. impact \in BOOLEAN
    OBVIOUS
  <2>2. pair_event(s, p) = make(begin, impact)
    BY <1>1, <1>11
  <2> HIDE DEF impact
  <2> QED BY <1>4, <1>10, <2>1, <2>2 DEF a, b, begin
<1>12. CASE ~ (Sign(apart) * apart <= distance) /\ ~ (begin = End \/ approach * apart <= 0)
            /\ ~ (entry > End \/ entry < s.now)
  <2>1. pair_event(s, p) = make(entry, TRUE)
    BY <1>1, <1>12
  <2>2. approach # 0
    BY <1>5, <1>6, <1>12
  <2>3. entry \in Int
    <3>1. Sign(approach) * approach \in Nat \ {0} /\ Sign(apart) * apart \in Int
      BY <1>5, <1>6, <2>2, SignFacts
    <3> DEFINE n == (Sign(apart) * apart) - distance
               d == Sign(approach) * approach
    <3>2. n \in Int /\ d \in Nat \ {0}
      BY <1>7, <3>1
    <3> HIDE DEF n, d
    <3>3. n \div d \in Int
      BY <3>2, Quotient
    <3> QED BY <1>4, <3>3 DEF entry, n, d
  <2>4. entry \in s.now .. End
    BY <1>2, <1>12, <2>3, SolverAssumption
  <2> QED BY <1>2, <1>10, <2>1, <2>3, <2>4 DEF Never
<1>13. CASE pair_event(s, p) = NoCertificate
  BY <1>8, <1>13
<1> QED BY <1>1, <1>11, <1>12, <1>13

\* Certificates are refreshed: one that was not kept is at the start of the
\* later epoch, or lies ahead, and none is left to bodies that ended.
LEMMA RefreshPairFacts ==
    ASSUME NEW D, NEW T, NEW s \in Solvers(D, T), NEW p \in Pairs(D)
    PROVE  LET cache == s.pairs[p]
               r == refresh_pair(s, p)
           IN /\ r \in PairCaches /\ r.seen = Revisions(s, p)
              /\ r.event.time # Never => ~ s.bodies[p[1]].terminated /\ ~ s.bodies[p[2]].terminated
              /\ \/ r.event.time = Never
                 \/ r.event = cache.event /\ (cache.event.time = s.now \/ cache.seen = Revisions(s, p))
                 \/ /\ r.event.time = Larger(s.bodies[p[1]].anchor, s.bodies[p[2]].anchor)
                    /\ cache.seen # Revisions(s, p)
                 \/ r.event.time \in s.now .. End
<1> DEFINE cache == s.pairs[p]
           live == ~ s.bodies[p[1]].terminated /\ ~ s.bodies[p[2]].terminated
           event == IF ~ live \/ cache.suppressed = Revisions(s, p) THEN NoCertificate
                    ELSE IF cache.event.time = s.now THEN cache.event
                    ELSE IF ~ candidate(s, p) THEN NoCertificate
                    ELSE IF cache.seen # Revisions(s, p) THEN pair_event(s, p) ELSE cache.event
           r == [cache EXCEPT !.event = event, !.seen = Revisions(s, p)]
           m == [cache EXCEPT !.event = event]
           begin == Larger(s.bodies[p[1]].anchor, s.bodies[p[2]].anchor)
<1>1. refresh_pair(s, p) = r
  BY DEF refresh_pair
<1>2. cache \in PairCaches /\ cache.event \in Certificates
  BY SolverFields DEF PairCaches
<1>3. Revisions(s, p) \in Int \X Int
  BY RevisionsType
<1>4. NoCertificate \in Certificates /\ NoCertificate.time = Never
  BY DEF NoCertificate, Certificates, Never
<1>5. pair_event(s, p) \in Certificates
      /\ (pair_event(s, p).time = Never \/ pair_event(s, p).time = begin \/ pair_event(s, p).time \in s.now .. End)
  BY PairEventFacts
<1> HIDE DEF begin, cache
<1>6. /\ event \in Certificates
      /\ event.time # Never => live
      /\ \/ event.time = Never
         \/ event = cache.event /\ (cache.event.time = s.now \/ cache.seen = Revisions(s, p))
         \/ event.time = begin /\ cache.seen # Revisions(s, p)
         \/ event.time \in s.now .. End
  <2>1. CASE ~ live \/ cache.suppressed = Revisions(s, p)
    <3>1. event = NoCertificate
      BY <2>1
    <3> HIDE DEF event
    <3> QED BY <1>4, <3>1
  <2>2. CASE live /\ event = cache.event /\ cache.event.time = s.now
    <3> HIDE DEF event, live
    <3> QED BY <1>2, <2>2
  <2>3. CASE event = NoCertificate
    <3> HIDE DEF event, live
    <3> QED BY <1>4, <2>3
  <2>4. CASE live /\ cache.seen # Revisions(s, p) /\ event = pair_event(s, p)
    <3> HIDE DEF event, live
    <3> QED BY <1>5, <2>4
  <2>5. CASE live /\ cache.seen = Revisions(s, p) /\ event = cache.event
    <3> HIDE DEF event, live
    <3> QED BY <1>2, <2>5
  <2> QED BY <2>1, <2>2, <2>3, <2>4, <2>5
<1> HIDE DEF event
<1>7. m \in PairCaches /\ m.event = event
  BY <1>2, <1>6 DEF PairCaches
<1>8. r = [m EXCEPT !.seen = Revisions(s, p)]
  BY Zenon
<1> HIDE DEF m, r
<1>9. r \in PairCaches /\ r.event = m.event /\ r.seen = Revisions(s, p)
  BY <1>3, <1>7, <1>8 DEF PairCaches
<1> QED BY <1>1, <1>6, <1>7, <1>9 DEF live, begin, cache

\* A body that a wall reflects at once: it overlaps the wall and moves on into it.
Outside(epoch) ==
    LET speed == velocity_of(epoch.body)
        boundary == IF speed < 0 THEN effective_radius(epoch.body) ELSE Width - effective_radius(epoch.body)
    IN /\ ~ (epoch.terminated \/ is_static(epoch.body) \/ crosses_bounds(epoch.body))
       /\ \/ speed < 0 /\ epoch.body.position <= boundary
          \/ speed > 0 /\ epoch.body.position >= boundary

\* Walls are refreshed: only such a body's event is at the start of its epoch.
LEMMA RefreshWallFacts ==
    ASSUME NEW D, NEW T, NEW s \in Solvers(D, T), NEW e \in D, s.now \in 0 .. End
    PROVE  LET w == refresh_wall(s, e)
           IN /\ w \in WallCaches
              /\ \/ w.time = Never
                 \/ w.time \in s.now .. End
                 \/ w.time = s.bodies[e].anchor /\ Outside(s.bodies[e])
              /\ s.bodies[e].terminated => w.time = Never
              /\ Outside(s.bodies[e]) => w.time = s.now \/ w.time = s.bodies[e].anchor
<1> DEFINE epoch == s.bodies[e]
           speed == velocity_of(epoch.body)
           start == epoch.body.position
           boundary == IF speed < 0 THEN effective_radius(epoch.body) ELSE Width - effective_radius(epoch.body)
           beyond == (speed < 0 /\ start <= boundary) \/ (speed > 0 /\ start >= boundary)
           time == IF beyond THEN epoch.anchor
                   ELSE epoch.anchor + (Sign(speed) * (boundary - start)) \div (Sign(speed) * speed)
           ends == epoch.terminated \/ is_static(epoch.body) \/ crosses_bounds(epoch.body)
           w == refresh_wall(s, e)
<1>1. w = IF ends THEN NoWall
          ELSE IF s.walls[e].time = s.now THEN s.walls[e]
          ELSE IF speed # 0 /\ (beyond \/ (time >= s.now /\ time <= End))
               THEN [time |-> time, side |-> IF speed < 0 THEN 0 ELSE 1]
               ELSE NoWall
  BY DEF refresh_wall
<1>2. Outside(epoch) <=> ~ ends /\ beyond
  BY DEF Outside
<1>3. epoch \in Epochs /\ epoch.body \in Bodies /\ epoch.anchor \in Int /\ start \in Int
  BY SolverFields DEF Epochs, Bodies
<1>4. speed \in Int /\ boundary \in Int
  BY <1>3, VelocityType, RadiusType, IndexAssumption
<1>5. NoWall \in WallCaches /\ NoWall.time = Never
  BY DEF NoWall, WallCaches, Never
<1>6. s.walls[e] \in WallCaches /\ s.now \in Int /\ End \in Int
  BY SolverFields, SolverAssumption
<1>7. speed # 0 => time \in Int
  <2> SUFFICES ASSUME speed # 0 PROVE time \in Int
    OBVIOUS
  <2> DEFINE n == Sign(speed) * (boundary - start)
             d == Sign(speed) * speed
  <2> HIDE DEF speed, boundary, beyond, start
  <2>1. n \in Int /\ d \in Nat \ {0}
    BY <1>3, <1>4, SignFacts
  <2> HIDE DEF n, d
  <2>2. n \div d \in Int
    BY <2>1, Quotient
  <2> QED BY <1>3, <2>2 DEF n, d
<1>8. beyond => speed # 0 /\ time = epoch.anchor
  BY <1>4
<1> HIDE DEF epoch, speed, start, boundary, beyond, time, w
<1>9. CASE ends
  <2>1. w = NoWall
    BY <1>1, <1>9
  <2> QED BY <1>2, <1>5, <1>9, <2>1 DEF w, epoch
<1> HIDE DEF ends
<1>10. CASE ~ ends /\ s.walls[e].time = s.now
  <2>1. w = s.walls[e]
    BY <1>1, <1>10
  <2>2. ~ epoch.terminated
    BY <1>10 DEF ends
  <2> QED BY <1>6, <1>10, <2>1, <2>2 DEF w, epoch
<1>11. CASE ~ ends /\ s.walls[e].time # s.now /\ speed # 0 /\ (beyond \/ (time >= s.now /\ time <= End))
  <2> DEFINE side == IF speed < 0 THEN 0 ELSE 1
  <2>1. w = [time |-> time, side |-> side]
    BY <1>1, <1>11
  <2>2. side \in {0, 1}
    OBVIOUS
  <2> HIDE DEF side
  <2>3. w \in WallCaches /\ w.time = time
    BY <1>7, <1>11, <2>1, <2>2 DEF WallCaches
  <2>4. ~ beyond => time \in s.now .. End
    BY <1>6, <1>7, <1>11
  <2>5. ~ epoch.terminated
    BY <1>11 DEF ends
  <2> QED BY <1>2, <1>8, <1>11, <2>3, <2>4, <2>5 DEF w, epoch
<1>12. CASE ~ ends /\ s.walls[e].time # s.now /\ ~ (speed # 0 /\ (beyond \/ (time >= s.now /\ time <= End)))
  <2>1. w = NoWall
    BY <1>1, <1>12
  <2>2. ~ beyond
    BY <1>8, <1>12
  <2> QED BY <1>2, <1>5, <2>1, <2>2 DEF w, epoch
<1> QED BY <1>9, <1>10, <1>11, <1>12

\* Every pair and every wall is refreshed.
LEMMA RebuildFacts ==
    ASSUME NEW D, NEW T, NEW s \in Solvers(D, T), s.now \in 0 .. End
    PROVE  LET r == rebuild(s)
           IN /\ r \in Solvers(D, T)
              /\ r.now = s.now /\ r.effects = s.effects /\ r.bodies = s.bodies /\ r.triggers = s.triggers
              /\ \A p \in Pairs(D) : r.pairs[p] = refresh_pair(s, p)
              /\ \A e \in D : r.walls[e] = refresh_wall(s, e)
<1> DEFINE pairs == [p \in DOMAIN s.pairs |-> refresh_pair(s, p)]
           walls == [e \in DOMAIN s.walls |-> refresh_wall(s, e)]
           m == [s EXCEPT !.pairs = pairs]
           r == [m EXCEPT !.walls = walls]
<1>1. DOMAIN s.pairs = Pairs(D) /\ DOMAIN s.walls = D
  BY SolverFields
<1>2. pairs \in [Pairs(D) -> PairCaches] /\ \A p \in Pairs(D) : pairs[p] = refresh_pair(s, p)
  <2>1. \A p \in Pairs(D) : refresh_pair(s, p) \in PairCaches
    BY RefreshPairFacts
  <2> QED BY <1>1, <2>1
<1>3. walls \in [D -> WallCaches] /\ \A e \in D : walls[e] = refresh_wall(s, e)
  <2>1. \A e \in D : refresh_wall(s, e) \in WallCaches
    BY RefreshWallFacts
  <2> QED BY <1>1, <2>1
<1>4. rebuild(s) = r
  BY Zenon DEF rebuild
<1> HIDE DEF pairs, walls
<1>5. /\ m \in Solvers(D, T) /\ m.pairs = pairs /\ m.now = s.now /\ m.effects = s.effects
      /\ m.bodies = s.bodies /\ m.triggers = s.triggers
  BY <1>2, PairsUpdate
<1> HIDE DEF m
<1>6. /\ r \in Solvers(D, T) /\ r.walls = walls /\ r.now = m.now /\ r.effects = m.effects
      /\ r.bodies = m.bodies /\ r.triggers = m.triggers /\ r.pairs = m.pairs
  BY <1>3, <1>5, WallsUpdate
<1> HIDE DEF r
<1> QED BY <1>2, <1>3, <1>4, <1>5, <1>6

---------------------------------------------------------------------------
(* The events of triggers.                                                 *)

\* Where an epoch is at two times.
LEMMA AtLater ==
    ASSUME NEW epoch \in Epochs, NEW from \in Int, NEW to \in Int, ~ epoch.terminated
    PROVE  at(epoch, to) = at(epoch, from) + velocity_of(epoch.body) * (to - from)
<1> DEFINE x == epoch.body.position
           v == epoch.body.velocity
           a == epoch.anchor
<1>1. x \in Int /\ v \in Int /\ a \in Int
  BY DEF Epochs, Bodies
<1>2. CASE is_static(epoch.body)
  BY <1>1, <1>2 DEF at, velocity_of
<1>3. CASE ~ is_static(epoch.body)
  <2>1. at(epoch, to) = x + v * (to - a) /\ at(epoch, from) = x + v * (from - a)
    BY <1>3 DEF at
  <2>2. velocity_of(epoch.body) = v
    BY <1>3 DEF velocity_of
  <2> HIDE DEF x, v, a
  <2>3. x + v * (to - a) = (x + v * (from - a)) + v * (to - from)
    BY <1>1
  <2> QED BY <2>1, <2>2, <2>3
<1> QED BY <1>2, <1>3

\* The ground is under an epoch from a time on, until another one if any.
KeepsGround(epoch, from, until) ==
    \A t \in from .. End : (until = Never \/ t <= until) => ~ OverPit(at(epoch, t))

\* Moving towards an edge, one does not cross it before the time it takes.
LEMMA EdgeTime ==
    ASSUME NEW gap \in Nat, NEW speed \in Nat \ {0}, NEW d \in Int, d <= gap \div speed
    PROVE  speed * d <= gap
<1>1. gap \div speed \in Int /\ speed * (gap \div speed) <= gap
  BY Quotient
<1> DEFINE q == gap \div speed
<1> HIDE DEF q
<1>2. speed * d <= speed * q
  BY <1>1 DEF q
<1>3. speed * d \in Int /\ speed * q \in Int
  BY <1>1 DEF q
<1> QED BY <1>1, <1>2, <1>3 DEF q

\* The ground is lost now, or kept until the time that support_loss gives.
LEMMA SupportLossFacts ==
    ASSUME NEW D, NEW T, NEW s \in Solvers(D, T), NEW e \in D, ~ s.bodies[e].terminated, s.now \in 0 .. End
    PROVE  LET v == support_loss(s, e)
           IN /\ v = Never \/ v \in s.now .. End
              /\ v = s.now \/ KeepsGround(s.bodies[e], s.now, v)
<1> DEFINE epoch == s.bodies[e]
           now == s.now
           x == at(epoch, now)
           speed == velocity_of(epoch.body)
           edge == IF speed > 0 THEN Pit[1] ELSE Pit[2]
           gap == Sign(speed) * (edge - x)
           size == Sign(speed) * speed
           ends == now + gap \div size
           v == support_loss(s, e)
           stays == speed = 0 \/ (speed > 0 /\ x > Pit[1]) \/ (speed < 0 /\ x < Pit[2]) \/ Pit[1] = Pit[2]
<1>1. v = IF OverPit(x) THEN now
          ELSE IF stays THEN Never ELSE IF ends < End THEN ends ELSE Never
  BY DEF support_loss
<1>2. epoch \in Epochs /\ now \in Int /\ now \in 0 .. End /\ epoch.body \in Bodies
  BY SolverFields DEF Epochs
<1>3. x \in Int /\ speed \in Int
  BY <1>2, AtType, VelocityType
<1>4. Pit[1] \in Int /\ Pit[2] \in Int /\ Pit[1] <= Pit[2] /\ edge \in Int /\ End \in Int
  BY SolverAssumption
<1>5. \A t \in Int : at(epoch, t) = x + speed * (t - now)
  BY <1>2, AtLater
<1> HIDE DEF epoch, now, x, speed, v, edge
<1>6. CASE OverPit(x)
  <2>1. v = now
    BY <1>1, <1>6
  <2> QED BY <1>2, <1>4, <2>1 DEF v, now
<1>7. CASE ~ OverPit(x) /\ stays
  <2>1. v = Never
    BY <1>1, <1>7
  <2>2. ASSUME NEW t \in now .. End PROVE ~ OverPit(at(epoch, t))
    <3> DEFINE y == speed * (t - now)
    <3>1. t \in Int /\ t - now \in Nat /\ at(epoch, t) = x + y
      BY <1>2, <1>4, <1>5
    <3>2. y \in Int /\ (speed = 0 => y = 0) /\ (speed > 0 => y >= 0) /\ (speed < 0 => y <= 0)
      BY <1>3, <3>1
    <3> HIDE DEF y
    <3> QED BY <1>3, <1>4, <1>7, <3>1, <3>2 DEF OverPit
  <2>3. KeepsGround(epoch, now, v)
    BY <2>2 DEF KeepsGround
  <2>4. Never \in Int
    BY DEF Never
  <2> QED BY <2>1, <2>3, <2>4 DEF v, now, epoch
<1>8. CASE ~ OverPit(x) /\ ~ stays
  <2>1. speed # 0 /\ (speed > 0 => x <= Pit[1]) /\ (speed < 0 => x >= Pit[2])
    BY <1>3, <1>4, <1>8
  <2>2. gap \in Nat /\ size \in Nat \ {0}
    <3>1. CASE speed > 0
      BY <1>3, <1>4, <2>1, <3>1 DEF Sign, edge
    <3>2. CASE speed < 0
      BY <1>3, <1>4, <2>1, <3>2 DEF Sign, edge
    <3> QED BY <1>3, <2>1, <3>1, <3>2
  <2> DEFINE q == gap \div size
  <2>3. q \in Nat
    <3> HIDE DEF gap, size
    <3> QED BY <2>2
  <2>4. ASSUME NEW t \in now .. End, t - now <= q PROVE ~ OverPit(at(epoch, t))
    <3> DEFINE d == t - now
    <3>1. d \in Int /\ t \in Int
      BY <1>2, <1>4
    <3>2. size * d <= gap
      <4> HIDE DEF gap, size, d
      <4> QED BY <2>2, <2>4, <3>1, EdgeTime DEF d
    <3>3. at(epoch, t) = x + speed * d
      BY <1>5, <3>1
    <3> HIDE DEF d
    <3>4. CASE speed > 0
      <4>1. size = speed /\ gap = Pit[1] - x
        BY <1>3, <1>4, <3>4 DEF Sign, edge
      <4> DEFINE y == speed * d
      <4>2. y \in Int /\ y <= Pit[1] - x
        BY <1>3, <3>1, <3>2, <4>1
      <4> HIDE DEF y
      <4> QED BY <1>3, <1>4, <3>3, <4>2 DEF OverPit, y
    <3>5. CASE speed < 0
      <4>1. size = -speed /\ gap = x - Pit[2]
        BY <1>3, <1>4, <3>5 DEF Sign, edge
      <4> DEFINE y == speed * d
      <4>2. y \in Int /\ (-speed) * d = - y
        BY <1>3, <3>1
      <4>3. - y <= x - Pit[2]
        BY <3>2, <4>1, <4>2
      <4> HIDE DEF y
      <4> QED BY <1>3, <1>4, <3>3, <4>2, <4>3 DEF OverPit, y
    <3> QED BY <1>3, <2>1, <3>4, <3>5
  <2> HIDE DEF q, gap, size
  <2>5. ends = now + q
    BY DEF q
  <2>6. CASE ends < End
    <3>1. v = ends
      BY <1>1, <1>8, <2>6
    <3>2. v \in now .. End
      BY <1>2, <1>4, <2>3, <2>5, <2>6, <3>1
    <3>3. v # Never
      BY <1>2, <1>4, <2>3, <2>5, <3>1 DEF Never
    <3>4. KeepsGround(epoch, now, v)
      <4> SUFFICES ASSUME NEW t \in now .. End, t <= v PROVE ~ OverPit(at(epoch, t))
        BY <3>3 DEF KeepsGround
      <4>1. t - now <= q
        BY <1>2, <1>4, <2>3, <2>5, <3>1
      <4> QED BY <2>4, <4>1
    <3> QED BY <3>2, <3>4 DEF v, now, epoch
  <2>7. CASE ~ (ends < End)
    <3>1. v = Never
      BY <1>1, <1>8, <2>7
    <3>2. KeepsGround(epoch, now, v)
      <4> SUFFICES ASSUME NEW t \in now .. End PROVE ~ OverPit(at(epoch, t))
        BY DEF KeepsGround
      <4>1. t - now <= q
        BY <1>2, <1>4, <2>3, <2>5, <2>7
      <4> QED BY <2>4, <4>1
    <3>3. Never \in Int
      BY DEF Never
    <3> QED BY <3>1, <3>2, <3>3 DEF v, now, epoch
  <2> QED BY <2>6, <2>7
<1> QED BY <1>6, <1>7, <1>8

\* A gate is entered now or later.
LEMMA GateEntryFacts ==
    ASSUME NEW D, NEW T, NEW s \in Solvers(D, T), NEW e \in D, NEW cursor \in Nat, s.now \in 0 .. End
    PROVE  LET v == gate_entry(s, e, cursor) IN v = Never \/ v \in s.now .. End
<1> DEFINE epoch == s.bodies[e]
           x == at(epoch, s.now)
           speed == velocity_of(epoch.body)
           gate == GatePosition[cursor + 1]
           edge == IF speed > 0 THEN gate - GateRadius ELSE gate + GateRadius
           gap == Sign(speed) * (edge - x)
           size == Sign(speed) * speed
           enters == s.now + gap \div size
           inside == x \in gate - GateRadius .. gate + GateRadius
           leaves == speed = 0 \/ (speed > 0 /\ x > gate) \/ (speed < 0 /\ x < gate)
           v == gate_entry(s, e, cursor)
<1>1. v = IF cursor >= Len(GatePosition) THEN Never
          ELSE IF inside THEN s.now ELSE IF leaves THEN Never ELSE IF enters <= End THEN enters ELSE Never
  BY DEF gate_entry
<1>2. epoch \in Epochs /\ epoch.body \in Bodies
  BY SolverFields DEF Epochs
<1>3. x \in Int /\ speed \in Int /\ s.now \in s.now .. End /\ End \in Int
  <2>1. x \in Int /\ speed \in Int /\ End \in Int
    <3>1. s.now \in Int
      BY SolverFields
    <3>2. x \in Int
      BY <1>2, <3>1, AtType
    <3>3. speed \in Int
      BY <1>2, VelocityType
    <3> QED BY <3>2, <3>3, SolverAssumption
  <2> DEFINE now == s.now
  <2>2. now \in 0 .. End
    OBVIOUS
  <2> HIDE DEF now
  <2>3. now \in now .. End
    BY <2>1, <2>2
  <2> QED BY <2>1, <2>3 DEF now
<1>4. CASE cursor >= Len(GatePosition) \/ inside \/ leaves
  <2>1. v = Never \/ v = s.now
    BY <1>1, <1>4
  <2> HIDE DEF v
  <2> QED BY <1>3, <2>1 DEF v
<1>5. CASE ~ (cursor >= Len(GatePosition)) /\ ~ inside /\ ~ leaves
  <2>1. gate \in Int /\ GateRadius \in Nat \ {0}
    <3>1. cursor + 1 \in 1 .. Len(GatePosition)
      BY <1>5, SolverAssumption
    <3> QED BY <3>1, SolverAssumption
  <2> HIDE DEF x, speed, gate, v
  <2>2. gap \in Nat /\ size \in Nat \ {0}
    <3>1. CASE speed > 0
      BY <1>3, <1>5, <2>1, <3>1 DEF Sign
    <3>2. CASE speed < 0
      BY <1>3, <1>5, <2>1, <3>2 DEF Sign
    <3> QED BY <1>3, <1>5, <3>1, <3>2
  <2> HIDE DEF gap, size, inside, leaves
  <2>3. gap \div size \in Nat
    BY <2>2
  <2>4. v = Never \/ (v = s.now + gap \div size /\ v <= End)
    BY <1>1, <1>5
  <2> DEFINE q == gap \div size
  <2> HIDE DEF q
  <2> QED BY <1>3, <2>3, <2>4 DEF v, q
<1> QED BY <1>4, <1>5

\* A trigger's cache is kept or made anew; a body that ended has no event.
LEMMA RefreshTriggerFacts ==
    ASSUME NEW D, NEW T, NEW s \in Solvers(D, T), IsScope(D, T), NEW t \in T, s.now \in 0 .. End
    PROVE  LET cache == s.triggers[t]
               epoch == s.bodies[t[1]]
               r == refresh_trigger(s, t)
           IN /\ r \in TriggerCaches
              /\ epoch.terminated => r.time = Never /\ r.revision = cache.revision
              /\ ~ epoch.terminated =>
                    /\ r.initialized
                    /\ \/ r = cache /\ (cache.revision = epoch.revision \/ cache.time = s.now)
                       \/ /\ r.revision = epoch.revision /\ (r.time = Never \/ r.time \in s.now .. End)
                          /\ t[2] = "support" => r.time = s.now \/ KeepsGround(epoch, s.now, r.time)
<1> DEFINE cache == s.triggers[t]
           epoch == s.bodies[t[1]]
           time == IF t[2] = "support" THEN support_loss(s, t[1]) ELSE gate_entry(s, t[1], cache.cursor)
           ended == [cache EXCEPT !.time = Never]
           fresh == [cache EXCEPT !.time = time, !.revision = epoch.revision, !.initialized = TRUE]
           r == refresh_trigger(s, t)
<1>1. r = IF epoch.terminated THEN ended
          ELSE IF cache.initialized /\ (cache.revision = epoch.revision \/ cache.time = s.now) THEN cache
          ELSE fresh
  BY DEF refresh_trigger
<1>2. t[1] \in D /\ cache \in TriggerCaches /\ cache.cursor \in Nat /\ epoch \in Epochs
  BY SolverFields DEF IsScope, TriggerCaches
<1>3. epoch.revision \in Nat /\ epoch.terminated \in BOOLEAN
  BY <1>2 DEF Epochs
<1>4. CASE epoch.terminated
  <2>1. r = ended
    BY <1>1, <1>4
  <2> HIDE DEF cache, r
  <2>2. ended \in TriggerCaches /\ ended.time = Never /\ ended.revision = cache.revision
    BY <1>2 DEF TriggerCaches, Never
  <2> QED BY <1>4, <2>1, <2>2 DEF r, epoch, cache
<1>5. CASE ~ epoch.terminated /\ cache.initialized /\ (cache.revision = epoch.revision \/ cache.time = s.now)
  <2>1. r = cache
    BY <1>1, <1>5
  <2> HIDE DEF r
  <2> QED BY <1>2, <1>5, <2>1 DEF r, epoch, cache
<1>6. CASE ~ epoch.terminated /\ ~ (cache.initialized /\ (cache.revision = epoch.revision \/ cache.time = s.now))
  <2>1. r = fresh
    BY <1>1, <1>6
  <2>2. /\ time = Never \/ time \in s.now .. End
        /\ t[2] = "support" => time = s.now \/ KeepsGround(epoch, s.now, time)
    <3>1. CASE t[2] = "support"
      BY <1>2, <1>6, <3>1, SupportLossFacts
    <3>2. CASE t[2] # "support"
      BY <1>2, <3>2, GateEntryFacts
    <3> QED BY <3>1, <3>2
  <2>8. time \in Int
    <3> HIDE DEF time
    <3> QED BY <2>2, SolverAssumption, SolverFields DEF Never
  <2> HIDE DEF time, r, epoch, cache
  <2> DEFINE m == [cache EXCEPT !.time = time]
             n == [m EXCEPT !.revision = epoch.revision]
             o == [n EXCEPT !.initialized = TRUE]
  <2>3. m \in TriggerCaches /\ m.time = time
    BY <1>2, <2>8 DEF TriggerCaches
  <2>4. fresh = o
    BY Zenon
  <2> HIDE DEF m
  <2>5. n \in TriggerCaches /\ n.time = time /\ n.revision = epoch.revision
    BY <1>3, <2>3 DEF TriggerCaches
  <2> HIDE DEF n
  <2>6. o \in TriggerCaches /\ o.time = time /\ o.revision = epoch.revision /\ o.initialized = TRUE
    BY <2>5 DEF TriggerCaches
  <2> HIDE DEF o
  <2>7. r \in TriggerCaches /\ r.time = time /\ r.revision = epoch.revision /\ r.initialized
    BY <2>1, <2>4, <2>6
  <2> QED BY <1>6, <2>2, <2>7 DEF r, epoch
<1> QED BY <1>4, <1>5, <1>6

\* Every trigger is refreshed.
LEMMA RefreshTriggersFacts ==
    ASSUME NEW D, NEW T, NEW s \in Solvers(D, T), IsScope(D, T), s.now \in 0 .. End
    PROVE  LET r == refresh_triggers(s)
           IN /\ r \in Solvers(D, T)
              /\ r.now = s.now /\ r.effects = s.effects /\ r.bodies = s.bodies
              /\ r.pairs = s.pairs /\ r.walls = s.walls
              /\ \A t \in T : r.triggers[t] = refresh_trigger(s, t)
<1> DEFINE triggers == [t \in DOMAIN s.triggers |-> refresh_trigger(s, t)]
           r == refresh_triggers(s)
<1>1. \A t \in T : refresh_trigger(s, t) \in TriggerCaches
  BY RefreshTriggerFacts
<1>2. DOMAIN s.triggers = T
  BY SolverFields
<1>3. triggers \in [T -> TriggerCaches] /\ \A t \in T : triggers[t] = refresh_trigger(s, t)
  BY <1>1, <1>2
<1>4. r = [s EXCEPT !.triggers = triggers]
  BY DEF refresh_triggers
<1> HIDE DEF triggers, r
<1> QED BY <1>3, <1>4, TriggersUpdate DEF r

---------------------------------------------------------------------------
(* The first of the events pending.                                        *)

Keys == Int \X Int \X Int \X Int

\* A key is one, and these are its parts.
LEMMA KeyIs ==
    ASSUME NEW a, NEW b, NEW c, NEW d
    PROVE  /\ Key(a, b, c, d)[1] = a /\ Key(a, b, c, d)[2] = b
           /\ Key(a, b, c, d)[3] = c /\ Key(a, b, c, d)[4] = d
           /\ a \in Int /\ b \in Int /\ c \in Int /\ d \in Int => Key(a, b, c, d) \in Keys
BY DEF Key, Keys

\* The order of keys, spelled out.
LEMMA BeforeIs ==
    ASSUME NEW k \in Keys, NEW l \in Keys
    PROVE  Before(k, l) <=> \/ k[1] < l[1]
                            \/ k[1] = l[1] /\ k[2] < l[2]
                            \/ k[1] = l[1] /\ k[2] = l[2] /\ k[3] < l[3]
                            \/ k[1] = l[1] /\ k[2] = l[2] /\ k[3] = l[3] /\ k[4] < l[4]
<1> DEFINE First(i) == k[i] < l[i] /\ \A j \in 1 .. i - 1 : k[j] = l[j]
<1>1. Before(k, l) <=> First(1) \/ First(2) \/ First(3) \/ First(4)
  <2>1. 1 .. 4 = {1, 2, 3, 4}
    OBVIOUS
  <2>2. Before(k, l) <=> \E i \in {1, 2, 3, 4} : First(i)
    BY <2>1 DEF Before
  <2> HIDE DEF First
  <2> QED BY <2>2
<1>2. First(1) <=> k[1] < l[1]
  OBVIOUS
<1>3. First(2) <=> k[1] = l[1] /\ k[2] < l[2]
  <2>1. 1 .. 2 - 1 = {1}
    OBVIOUS
  <2> QED BY <2>1
<1>4. First(3) <=> k[1] = l[1] /\ k[2] = l[2] /\ k[3] < l[3]
  <2>1. 1 .. 3 - 1 = {1, 2}
    OBVIOUS
  <2> QED BY <2>1
<1>5. First(4) <=> k[1] = l[1] /\ k[2] = l[2] /\ k[3] = l[3] /\ k[4] < l[4]
  <2>1. 1 .. 4 - 1 = {1, 2, 3}
    OBVIOUS
  <2> QED BY <2>1
<1> HIDE DEF First
<1> QED BY <1>1, <1>2, <1>3, <1>4, <1>5

\* The events pending are finitely many keys.
LEMMA PendingFinite ==
    ASSUME NEW D, NEW T, NEW s \in Solvers(D, T), IsScope(D, T)
    PROVE  IsFiniteSet(Pending(s)) /\ Pending(s) \subseteq Keys
<1>1. IsFiniteSet(D) /\ D \subseteq Nat
  BY StepAssumption, FS_Subset DEF IsScope
<1>2. IsFiniteSet(Pairs(D))
  <2>1. IsFiniteSet(D \X D)
    BY <1>1, FS_Product
  <2>2. Pairs(D) \subseteq D \X D
    BY DEF Pairs
  <2> QED BY <2>1, <2>2, FS_Subset
<1>3. IsFiniteSet(T)
  <2>1. IsFiniteSet({"support"} \cup {"gate"})
    <3>1. IsFiniteSet({"support"})
      BY FS_Singleton
    <3> QED BY <3>1, FS_AddElement
  <2>2. IsFiniteSet(D \X ({"support"} \cup {"gate"}))
    BY <1>1, <2>1, FS_Product
  <2>3. T \subseteq D \X ({"support"} \cup {"gate"})
    BY DEF IsScope
  <2> QED BY <2>2, <2>3, FS_Subset
<1>4. IsFiniteSet(ContactKeys(s)) /\ ContactKeys(s) \subseteq Keys
  <2> DEFINE ps == {q \in DOMAIN s.pairs : s.pairs[q].event.time # Never}
             f == [p \in ps |-> Key(s.pairs[p].event.time, BodyContact, p[1], p[2])]
  <2>1. ps \subseteq Pairs(D)
    BY SolverFields
  <2>2. IsFiniteSet(ps)
    BY <1>2, <2>1, FS_Subset
  <2>3. \A p \in ps : f[p] = Key(s.pairs[p].event.time, BodyContact, p[1], p[2])
    OBVIOUS
  <2>4. ContactKeys(s) = {f[p] : p \in ps}
    BY <2>3 DEF ContactKeys
  <2>5. \A p \in ps : f[p] \in Keys
    <3> TAKE p \in ps
    <3>1. p[1] \in Int /\ p[2] \in Int
      BY <1>1, <2>1, PairMembers
    <3>2. s.pairs[p].event.time \in Int
      BY <2>1, SolverFields DEF PairCaches, Certificates
    <3> HIDE DEF f, ps
    <3>3. BodyContact \in Int
      BY DEF BodyContact
    <3> QED BY <2>3, <3>1, <3>2, <3>3, KeyIs
  <2> HIDE DEF f, ps
  <2> QED BY <2>2, <2>4, <2>5, ImageIsFinite
<1>5. IsFiniteSet(WallKeys(s)) /\ WallKeys(s) \subseteq Keys
  <2> DEFINE es == {f \in DOMAIN s.walls : s.walls[f].time # Never}
             f == [e \in es |-> Key(s.walls[e].time, WallX, e, s.walls[e].side)]
  <2>1. es \subseteq D
    BY SolverFields
  <2>2. IsFiniteSet(es)
    BY <1>1, <2>1, FS_Subset
  <2>3. \A e \in es : f[e] = Key(s.walls[e].time, WallX, e, s.walls[e].side)
    OBVIOUS
  <2>4. WallKeys(s) = {f[e] : e \in es}
    BY <2>3 DEF WallKeys
  <2>5. \A e \in es : f[e] \in Keys
    <3> TAKE e \in es
    <3>1. e \in D
      BY <2>1
    <3>2. s.walls[e] \in WallCaches
      BY <3>1, SolverFields
    <3>3. s.walls[e].time \in Int /\ s.walls[e].side \in Int
      BY <3>2 DEF WallCaches
    <3>4. e \in Int /\ WallX \in Int
      BY <1>1, <3>1 DEF WallX
    <3> HIDE DEF f, es
    <3> QED BY <2>3, <3>3, <3>4, KeyIs
  <2> HIDE DEF f, es
  <2> QED BY <2>2, <2>4, <2>5, ImageIsFinite
<1>6. IsFiniteSet(TriggerKeys(s)) /\ TriggerKeys(s) \subseteq Keys
  <2> DEFINE ts == {u \in DOMAIN s.triggers : s.triggers[u].time # Never}
             f == [t \in ts |-> Key(s.triggers[t].time, TriggerPriority(t[2]), t[1], s.triggers[t].cursor)]
  <2>1. ts \subseteq T
    BY SolverFields
  <2>2. IsFiniteSet(ts)
    BY <1>3, <2>1, FS_Subset
  <2>3. \A t \in ts : f[t] = Key(s.triggers[t].time, TriggerPriority(t[2]), t[1], s.triggers[t].cursor)
    OBVIOUS
  <2>4. TriggerKeys(s) = {f[t] : t \in ts}
    BY <2>3 DEF TriggerKeys
  <2>5. \A t \in ts : f[t] \in Keys
    <3> TAKE t \in ts
    <3>1. s.triggers[t].time \in Int /\ s.triggers[t].cursor \in Int
      BY <2>1, SolverFields DEF TriggerCaches
    <3>2. t[1] \in Int
      <4>1. t \in D \X {"support", "gate"}
        BY <2>1 DEF IsScope
      <4>2. t[1] \in D
        BY <4>1
      <4>3. \A x \in D : x \in Int
        BY <1>1
      <4> HIDE DEF ts, f
      <4> QED BY <4>2, <4>3
    <3>3. TriggerPriority(t[2]) \in Int
      BY DEF TriggerPriority, SupportLoss, Checkpoint
    <3> HIDE DEF f, ts
    <3> QED BY <2>3, <3>1, <3>2, <3>3, KeyIs
  <2> HIDE DEF f, ts
  <2> QED BY <2>2, <2>4, <2>5, ImageIsFinite
<1> QED BY <1>4, <1>5, <1>6, FS_Union DEF Pending

\* The event selected is pending, and no other comes before it.
LEMMA SelectedIsFirst ==
    ASSUME NEW D, NEW T, NEW s \in Solvers(D, T), IsScope(D, T), Pending(s) # {}
    PROVE  /\ Selected(s) \in Pending(s) /\ Selected(s) \in Keys
           /\ \A l \in Pending(s) : l = Selected(s) \/ Before(Selected(s), l)
<1> DEFINE R == {q \in Keys \X Keys : Before(q[1], q[2])}
<1>1. IsFiniteSet(Pending(s)) /\ Pending(s) \subseteq Keys
  BY PendingFinite
<1>2. ASSUME NEW x \in Keys, NEW y \in Keys PROVE <<x, y>> \in R <=> Before(x, y)
  OBVIOUS
<1>3. ASSUME NEW x \in Keys, NEW y \in Keys, x # y PROVE <<x, y>> \in R \/ <<y, x>> \in R
  <2>1. x[1] # y[1] \/ x[2] # y[2] \/ x[3] # y[3] \/ x[4] # y[4]
    BY <1>3 DEF Keys
  <2>2. /\ x[1] \in Int /\ x[2] \in Int /\ x[3] \in Int /\ x[4] \in Int
        /\ y[1] \in Int /\ y[2] \in Int /\ y[3] \in Int /\ y[4] \in Int
    BY DEF Keys
  <2>3. Before(x, y) \/ Before(y, x)
    BY <2>1, <2>2, BeforeIs
  <2> QED BY <1>2, <2>3
<1>4. ASSUME NEW x \in Keys, NEW y \in Keys, NEW z \in Keys, <<x, y>> \in R, <<y, z>> \in R PROVE <<x, z>> \in R
  <2>1. Before(x, y) /\ Before(y, z)
    BY <1>2, <1>4
  <2>2. /\ x[1] \in Int /\ x[2] \in Int /\ x[3] \in Int /\ x[4] \in Int
        /\ y[1] \in Int /\ y[2] \in Int /\ y[3] \in Int /\ y[4] \in Int
        /\ z[1] \in Int /\ z[2] \in Int /\ z[3] \in Int /\ z[4] \in Int
    BY DEF Keys
  <2>3. Before(x, z)
    BY <2>1, <2>2, BeforeIs
  <2> QED BY <1>2, <2>3
<1> HIDE DEF R
<1>5. \E x \in Pending(s) : \A y \in Pending(s) \ {x} : <<x, y>> \in R
  BY <1>1, <1>3, <1>4, FirstExists
<1>6. \E k \in Pending(s) : \A l \in Pending(s) : l = k \/ Before(k, l)
  BY <1>1, <1>2, <1>5
<1> QED BY <1>1, <1>6 DEF Selected

\* Nothing that is pending is due before the event selected.
LEMMA SelectedIsEarliest ==
    ASSUME NEW D, NEW T, NEW s \in Solvers(D, T), IsScope(D, T), Pending(s) # {}
    PROVE  /\ Selected(s)[1] \in Int
           /\ \A p \in Pairs(D) : s.pairs[p].event.time # Never => Selected(s)[1] <= s.pairs[p].event.time
           /\ \A e \in D : s.walls[e].time # Never => Selected(s)[1] <= s.walls[e].time
           /\ \A t \in T : s.triggers[t].time # Never => Selected(s)[1] <= s.triggers[t].time
<1> DEFINE k == Selected(s)
<1>1. k \in Keys /\ \A l \in Pending(s) : l = k \/ Before(k, l)
  BY SelectedIsFirst
<1>2. Pending(s) \subseteq Keys
  BY PendingFinite
<1>3. \A l \in Pending(s) : k[1] \in Int /\ k[1] <= l[1]
  <2> HIDE DEF k
  <2> TAKE l \in Pending(s)
  <2>1. l \in Keys
    BY <1>2
  <2>2. k[1] \in Int /\ l[1] \in Int
    BY <1>1, <2>1 DEF Keys
  <2>3. CASE l = k
    BY <2>2, <2>3
  <2>4. CASE Before(k, l)
    BY <1>1, <2>1, <2>2, <2>4, BeforeIs
  <2> QED BY <1>1, <2>3, <2>4
<1>4. k[1] \in Int
  <2> HIDE DEF k
  <2> QED BY <1>1 DEF Keys
<1> HIDE DEF k
<1>5. ASSUME NEW p \in Pairs(D), s.pairs[p].event.time # Never PROVE k[1] <= s.pairs[p].event.time
  <2> DEFINE l == Key(s.pairs[p].event.time, BodyContact, p[1], p[2])
  <2>1. l \in Pending(s)
    BY <1>5, SolverFields DEF Pending, ContactKeys
  <2>2. l[1] = s.pairs[p].event.time
    BY KeyIs
  <2> HIDE DEF l
  <2> QED BY <1>3, <2>1, <2>2
<1>6. ASSUME NEW e \in D, s.walls[e].time # Never PROVE k[1] <= s.walls[e].time
  <2> DEFINE l == Key(s.walls[e].time, WallX, e, s.walls[e].side)
  <2>1. l \in Pending(s)
    BY <1>6, SolverFields DEF Pending, WallKeys
  <2>2. l[1] = s.walls[e].time
    BY KeyIs
  <2> HIDE DEF l
  <2> QED BY <1>3, <2>1, <2>2
<1>7. ASSUME NEW t \in T, s.triggers[t].time # Never PROVE k[1] <= s.triggers[t].time
  <2> DEFINE l == Key(s.triggers[t].time, TriggerPriority(t[2]), t[1], s.triggers[t].cursor)
  <2>1. l \in Pending(s)
    BY <1>7, SolverFields DEF Pending, TriggerKeys
  <2>2. l[1] = s.triggers[t].time
    BY KeyIs
  <2> HIDE DEF l
  <2> QED BY <1>3, <2>1, <2>2
<1> QED BY <1>4, <1>5, <1>6, <1>7 DEF k

\* At one time, the loss of the ground comes before anything else.
LEMMA SupportFirst ==
    ASSUME NEW D, NEW T, NEW s \in Solvers(D, T), IsScope(D, T), Pending(s) # {}, NEW e, <<e, "support">> \in T,
           s.triggers[<<e, "support">>].time = Selected(s)[1], s.triggers[<<e, "support">>].time # Never
    PROVE  Selected(s)[2] <= SupportLoss
<1> DEFINE k == Selected(s)
           t == <<e, "support">>
           l == Key(s.triggers[t].time, TriggerPriority(t[2]), t[1], s.triggers[t].cursor)
<1>1. k \in Keys /\ \A m \in Pending(s) : m = k \/ Before(k, m)
  BY SelectedIsFirst
<1>2. l \in Pending(s)
  BY SolverFields DEF Pending, TriggerKeys
<1>3. l \in Keys
  BY <1>2, PendingFinite
<1>4. l[1] = k[1] /\ l[2] = SupportLoss
  <2>1. TriggerPriority(t[2]) = SupportLoss
    BY DEF TriggerPriority
  <2> QED BY <2>1, KeyIs
<1> HIDE DEF k, l
<1>5. k[1] \in Int /\ k[2] \in Int /\ SupportLoss = 0
  BY <1>1 DEF Keys, SupportLoss
<1>6. CASE l = k
  BY <1>4, <1>5, <1>6 DEF k
<1>7. CASE Before(k, l)
  BY <1>1, <1>3, <1>4, <1>5, <1>7, BeforeIs DEF k
<1> QED BY <1>1, <1>2, <1>6, <1>7

---------------------------------------------------------------------------
(* What is true between two events of a solve.                             *)

\* The bodies that the triggers of a solve watch.
Scope(D, T) == IsScope(D, T) /\ \A e \in D : <<e, "gate">> \in T => <<e, "support">> \in T

Lost(s, e) == \E i \in DOMAIN s.effects : s.effects[i] = <<"lost", e, 0>>

\* No motion is of the future.
BodiesInv(s, D) == \A e \in D : s.bodies[e].anchor <= s.now

\* Every certificate is of the current motions, and lies ahead.
PairsInv(s, D) ==
    \A p \in Pairs(D) :
        /\ s.pairs[p].seen = Revisions(s, p)
        /\ s.pairs[p].event.time # Never =>
              /\ s.pairs[p].event.time \in s.now .. End
              /\ ~ s.bodies[p[1]].terminated /\ ~ s.bodies[p[2]].terminated

\* Every wall event lies ahead, and a body outside is reflected now.
WallsInv(s, D) ==
    \A e \in D :
        /\ s.walls[e].time # Never => s.walls[e].time \in s.now .. End /\ ~ s.bodies[e].terminated
        /\ Outside(s.bodies[e]) => s.walls[e].time = s.now /\ s.bodies[e].anchor = s.now

\* Every trigger's event lies ahead, and until then the ground is there.
TriggersInv(s, T) ==
    \A t \in T :
        LET cache == s.triggers[t]
            epoch == s.bodies[t[1]]
        IN /\ cache.time # Never => cache.time \in s.now .. End /\ ~ epoch.terminated
           /\ cache.revision <= epoch.revision
           /\ t[2] = "support" /\ ~ epoch.terminated =>
                 \/ cache.time = s.now
                 \/ cache.revision = epoch.revision /\ KeepsGround(epoch, s.now, cache.time)

\* A motion that ended, ended on the ground or for the loss of it.
EndedInv(s, D) ==
    \A e \in D : s.bodies[e].terminated => Lost(s, e) \/ ~ OverPit(s.bodies[e].body.position)

SolveInv(s, D, T) ==
    /\ s \in Solvers(D, T) /\ s.now \in 0 .. End
    /\ BodiesInv(s, D) /\ PairsInv(s, D) /\ WallsInv(s, D) /\ TriggersInv(s, T) /\ EndedInv(s, D)

---------------------------------------------------------------------------
(* The responses to an event.                                              *)

\* A body whose motion changed: its epoch is new, and if it ended, it is lost
\* or stands on the ground.
Changed(s, c, e) ==
    /\ ~ s.bodies[e].terminated
    /\ c.bodies[e].anchor = s.now /\ c.bodies[e].revision > s.bodies[e].revision
    /\ c.bodies[e].terminated => Lost(c, e) \/ ~ OverPit(c.bodies[e].body.position)

\* What a response to an event at s.now makes of a state s: motions change here
\* and now, and caches are emptied.
Response(s, c, D, T) ==
    /\ c \in Solvers(D, T) /\ c.now = s.now
    /\ \A e \in D : /\ c.bodies[e].body.kind = s.bodies[e].body.kind
                    /\ c.bodies[e] = s.bodies[e] \/ Changed(s, c, e)
    /\ \A p \in Pairs(D) : /\ c.pairs[p].seen = s.pairs[p].seen
                           /\ c.pairs[p].event = s.pairs[p].event \/ c.pairs[p].event.time = Never
    /\ \A e \in D : c.walls[e] = s.walls[e] \/ c.walls[e].time = Never
    /\ \A t \in T : /\ c.triggers[t].revision = s.triggers[t].revision
                    /\ c.triggers[t] = s.triggers[t] \/ (c.triggers[t].time = Never /\ ~ c.triggers[t].initialized)
    /\ \A e \in D : Lost(s, e) => Lost(c, e)

\* One motion changes, or ends.
LEMMA ReplaceMoves ==
    ASSUME NEW D, NEW T, NEW s \in Solvers(D, T), NEW e \in D, NEW velocity \in Int, NEW terminates \in BOOLEAN
    PROVE  LET r == replace(s, e, velocity, terminates)
           IN /\ r \in Solvers(D, T) /\ r.now = s.now /\ r.effects = s.effects
              /\ r.pairs = s.pairs /\ r.walls = s.walls /\ r.triggers = s.triggers
              /\ \A f \in D : f # e => r.bodies[f] = s.bodies[f]
              /\ r.bodies[e].body.kind = s.bodies[e].body.kind
              /\ \/ r.bodies[e] = s.bodies[e] /\ ~ terminates
                 \/ /\ r.bodies[e].anchor = s.now /\ r.bodies[e].revision > s.bodies[e].revision
                    /\ r.bodies[e].terminated = terminates
                    /\ r.bodies[e].body.position = at(s.bodies[e], s.now)
<1> DEFINE fresh == Restarted(s.bodies[e], s.now, velocity, terminates)
           r == replace(s, e, velocity, terminates)
<1>1. s.bodies \in [D -> Epochs] /\ s.bodies[e] \in Epochs /\ s.now \in Int
  BY SolverFields
<1>2. /\ fresh.anchor = s.now /\ fresh.revision = s.bodies[e].revision + 1
      /\ fresh.terminated = terminates /\ fresh.body.kind = s.bodies[e].body.kind
      /\ fresh.body.position = at(s.bodies[e], s.now)
  BY <1>1, RestartedType
<1>3. s.bodies[e].revision \in Nat
  BY <1>1 DEF Epochs
<1>4. /\ r \in Solvers(D, T) /\ r.now = s.now /\ r.effects = s.effects
      /\ r.pairs = s.pairs /\ r.walls = s.walls /\ r.triggers = s.triggers
      /\ r.bodies = IF velocity = s.bodies[e].body.velocity /\ ~ terminates THEN s.bodies
                    ELSE [s.bodies EXCEPT ![e] = fresh]
  BY ReplaceFacts
<1> HIDE DEF fresh, r
<1>5. CASE r.bodies = s.bodies /\ ~ terminates
  BY <1>4, <1>5 DEF r
<1>6. CASE r.bodies = [s.bodies EXCEPT ![e] = fresh]
  <2>1. r.bodies[e] = fresh /\ \A f \in D : f # e => r.bodies[f] = s.bodies[f]
    BY <1>1, <1>6
  <2>2. s.bodies[e].revision + 1 > s.bodies[e].revision
    BY <1>3
  <2> QED BY <1>2, <1>4, <2>1, <2>2 DEF r
<1> QED BY <1>4, <1>5, <1>6

\* A contact's certificate is consumed.
LEMMA ConsumedType ==
    ASSUME NEW cache \in PairCaches, NEW revisions \in Int \X Int
    PROVE  LET r == [cache EXCEPT !.suppressed = revisions, !.event = NoCertificate]
           IN r \in PairCaches /\ r.seen = cache.seen /\ r.event.time = Never
<1> DEFINE m == [cache EXCEPT !.suppressed = revisions]
           r == [m EXCEPT !.event = NoCertificate]
<1>1. NoCertificate \in Certificates /\ NoCertificate.time = Never
  BY DEF NoCertificate, Certificates, Never
<1>2. [cache EXCEPT !.suppressed = revisions, !.event = NoCertificate] = r
  BY Zenon
<1>3. m \in PairCaches /\ m.seen = cache.seen
  BY DEF PairCaches
<1> HIDE DEF m
<1>4. r \in PairCaches /\ r.seen = m.seen /\ r.event = NoCertificate
  BY <1>1, <1>3 DEF PairCaches
<1> HIDE DEF r
<1> QED BY <1>1, <1>2, <1>3, <1>4

\* One more effect is published.
LEMMA AppendKeeps ==
    ASSUME NEW D, NEW T, NEW s \in Solvers(D, T), NEW x \in Effects
    PROVE  /\ Append(s.effects, x) \in Seq(Effects)
           /\ \E i \in DOMAIN Append(s.effects, x) : Append(s.effects, x)[i] = x
           /\ \A i \in DOMAIN s.effects : i \in DOMAIN Append(s.effects, x) /\ Append(s.effects, x)[i] = s.effects[i]
<1> DEFINE q == s.effects
<1>1. q \in Seq(Effects)
  BY SolverFields
<1> HIDE DEF q
<1>2. /\ Append(q, x) \in Seq(Effects)
      /\ Len(q) \in Nat /\ DOMAIN q = 1 .. Len(q) /\ DOMAIN Append(q, x) = 1 .. Len(q) + 1
      /\ Append(q, x)[Len(q) + 1] = x
      /\ \A i \in 1 .. Len(q) : Append(q, x)[i] = q[i]
  BY <1>1
<1>3. Len(q) + 1 \in 1 .. Len(q) + 1 /\ \A i \in 1 .. Len(q) : i \in 1 .. Len(q) + 1
  BY <1>2
<1> QED BY <1>2, <1>3 DEF q

\* The motions of a state change, its caches and its effects do not.
Moves(s, c, D, T) ==
    /\ c \in Solvers(D, T) /\ c.now = s.now /\ c.effects = s.effects
    /\ c.pairs = s.pairs /\ c.walls = s.walls /\ c.triggers = s.triggers
    /\ \A e \in D : /\ c.bodies[e].body.kind = s.bodies[e].body.kind
                    /\ c.bodies[e] = s.bodies[e] \/ Changed(s, c, e)

\* Two bodies that are in motion collide: each of them changes at most once.
LEMMA RespondPairFacts ==
    ASSUME NEW D, NEW T, NEW s \in Solvers(D, T), IsScope(D, T), NEW p \in Pairs(D),
           ~ s.bodies[p[1]].terminated, ~ s.bodies[p[2]].terminated
    PROVE  Moves(s, respond_pair(s, p), D, T)
<1> DEFINE a == s.bodies[p[1]].body
           b == s.bodies[p[2]].body
           v == IF is_static(a) THEN 0 ELSE IF is_static(b) THEN -a.velocity ELSE b.velocity
           w == IF is_static(b) THEN 0 ELSE IF is_static(a) THEN -b.velocity ELSE a.velocity
           no == FALSE
           m == replace(s, p[1], v, no)
           c == replace(m, p[2], w, no)
<1>1. respond_pair(s, p) = s \/ respond_pair(s, p) = c
  BY DEF respond_pair
<1>2. p[1] \in D /\ p[2] \in D /\ p[1] # p[2]
  <2>1. p[1] \in D /\ p[2] \in D
    BY PairMembers
  <2>2. \A e \in D : e \in Int
    BY StepAssumption DEF IsScope
  <2>3. p[1] < p[2]
    BY DEF Pairs
  <2> QED BY <2>1, <2>2, <2>3
<1>3. v \in Int /\ w \in Int
  <2>1. s.bodies[p[1]] \in Epochs /\ s.bodies[p[2]] \in Epochs
    BY <1>2, SolverFields
  <2>2. a.velocity \in Int /\ b.velocity \in Int
    BY <2>1 DEF Epochs, Bodies
  <2> QED BY <2>2
<1>4. no \in BOOLEAN /\ ~ no
  OBVIOUS
<1> HIDE DEF a, b, v, w, no, m, c
<1>5. /\ m \in Solvers(D, T) /\ m.now = s.now /\ m.effects = s.effects
      /\ m.pairs = s.pairs /\ m.walls = s.walls /\ m.triggers = s.triggers
      /\ \A f \in D : f # p[1] => m.bodies[f] = s.bodies[f]
      /\ m.bodies[p[1]].body.kind = s.bodies[p[1]].body.kind
      /\ \/ m.bodies[p[1]] = s.bodies[p[1]]
         \/ /\ m.bodies[p[1]].anchor = s.now /\ m.bodies[p[1]].revision > s.bodies[p[1]].revision
            /\ m.bodies[p[1]].terminated = no
  BY <1>2, <1>3, <1>4, ReplaceMoves DEF m
<1>6. /\ c \in Solvers(D, T) /\ c.now = m.now /\ c.effects = m.effects
      /\ c.pairs = m.pairs /\ c.walls = m.walls /\ c.triggers = m.triggers
      /\ \A f \in D : f # p[2] => c.bodies[f] = m.bodies[f]
      /\ c.bodies[p[2]].body.kind = m.bodies[p[2]].body.kind
      /\ \/ c.bodies[p[2]] = m.bodies[p[2]]
         \/ /\ c.bodies[p[2]].anchor = m.now /\ c.bodies[p[2]].revision > m.bodies[p[2]].revision
            /\ c.bodies[p[2]].terminated = no
  <2>1. \A x \in Solvers(D, T) :
           LET r == replace(x, p[2], w, no)
           IN /\ r \in Solvers(D, T) /\ r.now = x.now /\ r.effects = x.effects
              /\ r.pairs = x.pairs /\ r.walls = x.walls /\ r.triggers = x.triggers
              /\ \A f \in D : f # p[2] => r.bodies[f] = x.bodies[f]
              /\ r.bodies[p[2]].body.kind = x.bodies[p[2]].body.kind
              /\ \/ r.bodies[p[2]] = x.bodies[p[2]]
                 \/ /\ r.bodies[p[2]].anchor = x.now /\ r.bodies[p[2]].revision > x.bodies[p[2]].revision
                    /\ r.bodies[p[2]].terminated = no
    BY <1>2, <1>3, <1>4, ReplaceMoves
  <2> QED BY <1>5, <2>1 DEF c
<1>7. Moves(s, c, D, T)
  <2>1. ASSUME NEW e \in D
        PROVE  /\ c.bodies[e].body.kind = s.bodies[e].body.kind
               /\ c.bodies[e] = s.bodies[e] \/ Changed(s, c, e)
    <3>1. CASE e = p[1]
      BY <1>2, <1>4, <1>5, <1>6, <3>1 DEF Changed
    <3>2. CASE e = p[2]
      BY <1>2, <1>4, <1>5, <1>6, <3>2 DEF Changed
    <3>3. CASE e # p[1] /\ e # p[2]
      BY <1>5, <1>6, <3>3
    <3> QED BY <3>1, <3>2, <3>3
  <2> QED BY <1>5, <1>6, <2>1 DEF Moves
<1>8. Moves(s, s, D, T)
  BY DEF Moves
<1> QED BY <1>1, <1>7, <1>8

\* A contact is handled.
LEMMA HandleContactFacts ==
    ASSUME NEW D, NEW T, NEW s \in Solvers(D, T), IsScope(D, T), NEW p \in Pairs(D),
           ~ s.bodies[p[1]].terminated, ~ s.bodies[p[2]].terminated
    PROVE  Response(s, HandleContact(s, p), D, T)
<1> DEFINE done == respond_pair(s, p)
           observed == impact_admitted(s, p) \/ s.bodies[p[1]].touch \/ s.bodies[p[2]].touch
           cache == [done.pairs[p] EXCEPT !.suppressed = Revisions(done, p), !.event = NoCertificate]
           pairs == [done.pairs EXCEPT ![p] = cache]
           effects == IF observed THEN Append(done.effects, <<"contact", p[1], p[2]>>) ELSE done.effects
           m == [done EXCEPT !.pairs = pairs]
           c == [m EXCEPT !.effects = effects]
<1>1. HandleContact(s, p) = c
  BY DEF HandleContact
<1>2. Moves(s, done, D, T)
  BY RespondPairFacts
<1> HIDE DEF done
<1>3. done \in Solvers(D, T) /\ done.pairs[p] \in PairCaches /\ done.pairs \in [Pairs(D) -> PairCaches]
  BY <1>2, SolverFields DEF Moves
<1>4. cache \in PairCaches /\ cache.seen = done.pairs[p].seen /\ cache.event.time = Never
  <2>1. Revisions(done, p) \in Int \X Int
    BY <1>3, RevisionsType
  <2> QED BY <1>3, <2>1, ConsumedType
<1> HIDE DEF cache
<1>5. pairs \in [Pairs(D) -> PairCaches] /\ pairs[p] = cache /\ \A q \in Pairs(D) : q # p => pairs[q] = done.pairs[q]
  BY <1>3, <1>4
<1>6. <<"contact", p[1], p[2]>> \in Effects
  BY StepAssumption, PairMembers DEF Effects, IsScope
<1>7. effects \in Seq(Effects) /\ \A i \in DOMAIN done.effects : i \in DOMAIN effects /\ effects[i] = done.effects[i]
  <2>1. \A x \in Effects :
           /\ Append(done.effects, x) \in Seq(Effects)
           /\ \A i \in DOMAIN done.effects :
                 i \in DOMAIN Append(done.effects, x) /\ Append(done.effects, x)[i] = done.effects[i]
    BY <1>3, AppendKeeps
  <2>2. done.effects \in Seq(Effects)
    BY <1>3, SolverFields
  <2> QED BY <1>6, <2>1, <2>2
<1> HIDE DEF pairs, effects
<1>8. /\ m \in Solvers(D, T) /\ m.pairs = pairs /\ m.now = done.now /\ m.effects = done.effects
      /\ m.bodies = done.bodies /\ m.walls = done.walls /\ m.triggers = done.triggers
  BY <1>3, <1>5, PairsUpdate
<1> HIDE DEF m
<1>9. /\ c \in Solvers(D, T) /\ c.effects = effects /\ c.now = m.now /\ c.pairs = m.pairs
      /\ c.bodies = m.bodies /\ c.walls = m.walls /\ c.triggers = m.triggers
  BY <1>7, <1>8, EffectsUpdate
<1> HIDE DEF c
<1>10. \A e : Lost(done, e) => Lost(c, e)
  BY <1>7, <1>8, <1>9 DEF Lost
<1>11. \A e \in D : /\ c.bodies[e].body.kind = s.bodies[e].body.kind
                    /\ c.bodies[e] = s.bodies[e] \/ Changed(s, c, e)
  BY <1>2, <1>8, <1>9, <1>10 DEF Moves, Changed
<1>12. \A e \in D : Lost(s, e) => Lost(c, e)
  BY <1>2, <1>10 DEF Moves, Lost
<1>13. \A q \in Pairs(D) : /\ c.pairs[q].seen = s.pairs[q].seen
                           /\ c.pairs[q].event = s.pairs[q].event \/ c.pairs[q].event.time = Never
  BY <1>2, <1>4, <1>5, <1>8, <1>9 DEF Moves
<1>14. c.now = s.now /\ c.walls = s.walls /\ c.triggers = s.triggers
  BY <1>2, <1>8, <1>9 DEF Moves
<1> QED BY <1>1, <1>9, <1>11, <1>12, <1>13, <1>14 DEF Response

\* A wall is handled.
LEMMA HandleWallFacts ==
    ASSUME NEW D, NEW T, NEW s \in Solvers(D, T), IsScope(D, T), NEW e \in D, NEW side, ~ s.bodies[e].terminated
    PROVE  Response(s, HandleWall(s, e, side), D, T)
<1> DEFINE walls == [s.walls EXCEPT ![e] = NoWall]
           consumed == [s EXCEPT !.walls = walls]
           speed == velocity_of(s.bodies[e].body)
           back == - speed
           no == FALSE
           c == replace(consumed, e, back, no)
<1>1. HandleWall(s, e, side) = consumed \/ HandleWall(s, e, side) = c
  BY DEF HandleWall
<1>2. s.walls \in [D -> WallCaches] /\ NoWall \in WallCaches /\ NoWall.time = Never
  BY SolverFields DEF NoWall, WallCaches, Never
<1>3. walls \in [D -> WallCaches] /\ walls[e] = NoWall /\ \A f \in D : f # e => walls[f] = s.walls[f]
  BY <1>2
<1>4. back \in Int /\ no \in BOOLEAN /\ ~ no
  <2>1. s.bodies[e].body \in Bodies
    BY SolverFields DEF Epochs
  <2>2. speed \in Int
    BY <2>1, VelocityType
  <2> QED BY <2>2
<1> HIDE DEF walls, speed, back, no
<1>5. /\ consumed \in Solvers(D, T) /\ consumed.walls = walls /\ consumed.now = s.now
      /\ consumed.effects = s.effects /\ consumed.bodies = s.bodies
      /\ consumed.pairs = s.pairs /\ consumed.triggers = s.triggers
  BY <1>3, WallsUpdate
<1> HIDE DEF consumed, c
<1>6. /\ c \in Solvers(D, T) /\ c.now = consumed.now /\ c.effects = consumed.effects
      /\ c.pairs = consumed.pairs /\ c.walls = consumed.walls /\ c.triggers = consumed.triggers
      /\ \A f \in D : f # e => c.bodies[f] = consumed.bodies[f]
      /\ c.bodies[e].body.kind = consumed.bodies[e].body.kind
      /\ \/ c.bodies[e] = consumed.bodies[e]
         \/ /\ c.bodies[e].anchor = consumed.now /\ c.bodies[e].revision > consumed.bodies[e].revision
            /\ c.bodies[e].terminated = no
  <2>1. \A x \in Solvers(D, T) :
           LET r == replace(x, e, back, no)
           IN /\ r \in Solvers(D, T) /\ r.now = x.now /\ r.effects = x.effects
              /\ r.pairs = x.pairs /\ r.walls = x.walls /\ r.triggers = x.triggers
              /\ \A f \in D : f # e => r.bodies[f] = x.bodies[f]
              /\ r.bodies[e].body.kind = x.bodies[e].body.kind
              /\ \/ r.bodies[e] = x.bodies[e]
                 \/ /\ r.bodies[e].anchor = x.now /\ r.bodies[e].revision > x.bodies[e].revision
                    /\ r.bodies[e].terminated = no
    BY <1>4, ReplaceMoves
  <2> QED BY <1>5, <2>1 DEF c
<1>7. Response(s, consumed, D, T)
  BY <1>2, <1>3, <1>5 DEF Response, Lost
<1>8. Response(s, c, D, T)
  <2>1. \A f \in D : /\ c.bodies[f].body.kind = s.bodies[f].body.kind
                     /\ c.bodies[f] = s.bodies[f] \/ Changed(s, c, f)
    BY <1>4, <1>5, <1>6 DEF Changed
  <2> QED BY <1>2, <1>3, <1>5, <1>6, <2>1 DEF Response, Lost
<1> QED BY <1>1, <1>7, <1>8

\* A trigger is handled: a body that ends its motion on one is lost, or has the
\* ground under it.
LEMMA HandleTriggerFacts ==
    ASSUME NEW D, NEW T, NEW s \in Solvers(D, T), IsScope(D, T), NEW t \in T, ~ s.bodies[t[1]].terminated,
           t[2] = "gate" => ~ OverPit(at(s.bodies[t[1]], s.now))
    PROVE  Response(s, HandleTrigger(s, t), D, T)
<1> DEFINE cache == s.triggers[t]
           gate == t[2] = "gate"
           e == t[1]
           passed == IF gate THEN cache.cursor + 1 ELSE cache.cursor
           emptied == [cache EXCEPT !.initialized = FALSE, !.time = Never, !.cursor = passed]
           effect == IF gate THEN <<"gate", e, cache.cursor + 1>> ELSE <<"lost", e, 0>>
           triggers == [s.triggers EXCEPT ![t] = emptied]
           effects == Append(s.effects, effect)
           m == [s EXCEPT !.triggers = triggers]
           reset == [m EXCEPT !.effects = effects]
           v == s.bodies[e].body.velocity
           zero == 0
           yes == TRUE
<1>1. /\ t[2] = "support" => HandleTrigger(s, t) = replace(reset, e, v, yes)
      /\ t[2] # "support" => \/ HandleTrigger(s, t) = replace(reset, e, zero, yes)
                             \/ HandleTrigger(s, t) = reset
  <2>1. [s EXCEPT !.triggers[t] = emptied] = m
    <3> HIDE DEF emptied
    <3> QED OBVIOUS
  <2>2. [s EXCEPT !.triggers[t] = emptied, !.effects = effects]
           = [[s EXCEPT !.triggers[t] = emptied] EXCEPT !.effects = effects]
    BY Zenon
  <2>3. [s EXCEPT !.triggers[t] = emptied, !.effects = effects] = reset
    <3> HIDE DEF m, emptied, effects
    <3> QED BY <2>1, <2>2
  <2> HIDE DEF reset
  <2> QED BY <2>3 DEF HandleTrigger
<1>2. /\ e \in D /\ t[2] \in {"support", "gate"} /\ cache \in TriggerCaches /\ cache.cursor \in Nat
      /\ s.triggers \in [T -> TriggerCaches] /\ e \in Entities /\ e \in Nat
  <2>1. e \in D /\ t[2] \in {"support", "gate"}
    BY DEF IsScope
  <2>2. s.triggers \in [T -> TriggerCaches]
    BY SolverFields
  <2>3. cache \in TriggerCaches /\ cache.cursor \in Nat
    BY <2>2 DEF TriggerCaches
  <2>4. D \subseteq Entities /\ Entities \subseteq Nat
    BY StepAssumption DEF IsScope
  <2> QED BY <2>1, <2>2, <2>3, <2>4
<1>3. v \in Int /\ zero \in Int /\ yes \in BOOLEAN /\ yes
  BY <1>2, SolverFields DEF Epochs, Bodies
<1>4. emptied \in TriggerCaches /\ emptied.time = Never /\ ~ emptied.initialized /\ emptied.revision = cache.revision
  <2> DEFINE x == [cache EXCEPT !.initialized = FALSE]
             y == [x EXCEPT !.time = Never]
             z == [y EXCEPT !.cursor = passed]
  <2>1. passed \in Nat
    BY <1>2
  <2>2. emptied = z
    BY Zenon
  <2> HIDE DEF cache, passed
  <2>3. x \in TriggerCaches /\ ~ x.initialized /\ x.revision = cache.revision
    BY <1>2 DEF TriggerCaches
  <2> HIDE DEF x
  <2>4. y \in TriggerCaches /\ ~ y.initialized /\ y.time = Never /\ y.revision = cache.revision
    BY <2>3 DEF TriggerCaches, Never
  <2> HIDE DEF y
  <2>5. z \in TriggerCaches /\ ~ z.initialized /\ z.time = Never /\ z.revision = cache.revision
    BY <2>1, <2>4 DEF TriggerCaches
  <2> HIDE DEF z, emptied
  <2> QED BY <2>2, <2>5
<1>5. effect \in Effects
  BY <1>2 DEF Effects
<1>6. t[2] = "support" => effect = <<"lost", e, 0>>
  OBVIOUS
<1> HIDE DEF emptied, effect, cache, v, zero, yes
<1>7. triggers \in [T -> TriggerCaches] /\ triggers[t] = emptied /\ \A u \in T : u # t => triggers[u] = s.triggers[u]
  BY <1>2, <1>4
<1>8. /\ effects \in Seq(Effects) /\ \E i \in DOMAIN effects : effects[i] = effect
      /\ \A i \in DOMAIN s.effects : i \in DOMAIN effects /\ effects[i] = s.effects[i]
  BY <1>5, AppendKeeps
<1> HIDE DEF triggers, effects, e
<1>9. /\ m \in Solvers(D, T) /\ m.triggers = triggers /\ m.now = s.now /\ m.effects = s.effects
      /\ m.bodies = s.bodies /\ m.walls = s.walls /\ m.pairs = s.pairs
  BY <1>7, TriggersUpdate
<1> HIDE DEF m
<1>10. /\ reset \in Solvers(D, T) /\ reset.triggers = triggers /\ reset.now = s.now /\ reset.effects = effects
       /\ reset.bodies = s.bodies /\ reset.walls = s.walls /\ reset.pairs = s.pairs
  BY <1>8, <1>9, EffectsUpdate
<1> HIDE DEF reset
<1>11. Response(s, reset, D, T)
  <2>1. \A u \in T : /\ reset.triggers[u].revision = s.triggers[u].revision
                     /\ \/ reset.triggers[u] = s.triggers[u]
                        \/ reset.triggers[u].time = Never /\ ~ reset.triggers[u].initialized
    BY <1>4, <1>7, <1>10 DEF cache
  <2>2. \A f \in D : Lost(s, f) => Lost(reset, f)
    BY <1>8, <1>10 DEF Lost
  <2> QED BY <1>10, <2>1, <2>2 DEF Response
<1>12. ASSUME NEW velocity \in Int, t[2] = "support" \/ ~ OverPit(at(s.bodies[e], s.now))
       PROVE  Response(s, replace(reset, e, velocity, yes), D, T)
  <2> DEFINE c == replace(reset, e, velocity, yes)
  <2> HIDE DEF c
  <2>1. /\ c \in Solvers(D, T) /\ c.now = reset.now /\ c.effects = reset.effects
        /\ c.pairs = reset.pairs /\ c.walls = reset.walls /\ c.triggers = reset.triggers
        /\ \A f \in D : f # e => c.bodies[f] = reset.bodies[f]
        /\ c.bodies[e].body.kind = reset.bodies[e].body.kind
        /\ c.bodies[e].anchor = reset.now /\ c.bodies[e].revision > reset.bodies[e].revision
        /\ c.bodies[e].body.position = at(reset.bodies[e], reset.now)
    <3>1. \A x \in Solvers(D, T) :
             LET r == replace(x, e, velocity, yes)
             IN /\ r \in Solvers(D, T) /\ r.now = x.now /\ r.effects = x.effects
                /\ r.pairs = x.pairs /\ r.walls = x.walls /\ r.triggers = x.triggers
                /\ \A f \in D : f # e => r.bodies[f] = x.bodies[f]
                /\ r.bodies[e].body.kind = x.bodies[e].body.kind
                /\ \/ r.bodies[e] = x.bodies[e] /\ ~ yes
                   \/ /\ r.bodies[e].anchor = x.now /\ r.bodies[e].revision > x.bodies[e].revision
                      /\ r.bodies[e].terminated = yes
                      /\ r.bodies[e].body.position = at(x.bodies[e], x.now)
      <4>1. e \in D /\ yes \in BOOLEAN
        BY <1>2, <1>3
      <4> QED BY <4>1, ReplaceMoves
    <3> QED BY <1>3, <1>10, <3>1 DEF c
  <2>2. Lost(c, e) \/ ~ OverPit(c.bodies[e].body.position)
    <3>1. CASE t[2] = "support"
      BY <1>6, <1>8, <1>10, <2>1, <3>1 DEF Lost
    <3>2. CASE ~ OverPit(at(s.bodies[e], s.now))
      BY <1>10, <2>1, <3>2
    <3> QED BY <1>12, <3>1, <3>2
  <2>3. \A f \in D : /\ c.bodies[f].body.kind = s.bodies[f].body.kind
                     /\ c.bodies[f] = s.bodies[f] \/ Changed(s, c, f)
    BY <1>2, <1>10, <2>1, <2>2 DEF Changed, e
  <2>4. \A f \in D : Lost(reset, f) => Lost(c, f)
    BY <2>1 DEF Lost
  <2>5. Response(s, c, D, T)
    BY <1>10, <1>11, <2>1, <2>3, <2>4 DEF Response
  <2> QED BY <2>5 DEF c
<1>13. CASE t[2] = "support"
  BY <1>1, <1>3, <1>12, <1>13
<1>14. CASE t[2] = "gate"
  BY <1>1, <1>3, <1>11, <1>12, <1>14 DEF e
<1> QED BY <1>2, <1>13, <1>14

\* The event selected lies ahead.
LEMMA SelectedAhead ==
    ASSUME NEW D, NEW T, NEW s, IsScope(D, T), SolveInv(s, D, T), Pending(s) # {}
    PROVE  Selected(s)[1] \in s.now .. End
<1>1. s \in Solvers(D, T)
  BY DEF SolveInv
<1>2. ASSUME NEW k \in Pending(s) PROVE k[1] \in s.now .. End
  <2>1. CASE k \in ContactKeys(s)
    <3>1. PICK p \in DOMAIN s.pairs : /\ s.pairs[p].event.time # Never
                                      /\ k = Key(s.pairs[p].event.time, BodyContact, p[1], p[2])
      BY <2>1 DEF ContactKeys
    <3>2. p \in Pairs(D)
      BY <1>1, SolverFields
    <3>3. s.pairs[p].event.time \in s.now .. End
      BY <3>1, <3>2 DEF SolveInv, PairsInv
    <3> QED BY <3>1, <3>3, KeyIs
  <2>2. CASE k \in WallKeys(s)
    <3>1. PICK e \in DOMAIN s.walls : /\ s.walls[e].time # Never
                                      /\ k = Key(s.walls[e].time, WallX, e, s.walls[e].side)
      BY <2>2 DEF WallKeys
    <3>2. e \in D
      BY <1>1, SolverFields
    <3>3. s.walls[e].time \in s.now .. End
      BY <3>1, <3>2 DEF SolveInv, WallsInv
    <3> QED BY <3>1, <3>3, KeyIs
  <2>3. CASE k \in TriggerKeys(s)
    <3>1. PICK t \in DOMAIN s.triggers : /\ s.triggers[t].time # Never
                                         /\ k = Key(s.triggers[t].time, TriggerPriority(t[2]), t[1],
                                               s.triggers[t].cursor)
      BY <2>3 DEF TriggerKeys
    <3>2. t \in T
      BY <1>1, SolverFields
    <3>3. s.triggers[t].time \in s.now .. End
      BY <3>1, <3>2 DEF SolveInv, TriggersInv
    <3> QED BY <3>1, <3>3, KeyIs
  <2> QED BY <1>2, <2>1, <2>2, <2>3 DEF Pending
<1>3. Selected(s) \in Pending(s)
  BY <1>1, SelectedIsFirst
<1> QED BY <1>2, <1>3

\* A gate that is passed before the ground is lost is passed on the ground.
LEMMA GateOnGround ==
    ASSUME NEW D, NEW T, NEW s, Scope(D, T), SolveInv(s, D, T), Pending(s) # {}, NEW e, <<e, "gate">> \in T,
           s.triggers[<<e, "gate">>].time # Never, Selected(s)[2] = Checkpoint
    PROVE  ~ OverPit(at(s.bodies[e], Selected(s)[1]))
<1> DEFINE time == Selected(s)[1]
           g == <<e, "gate">>
           u == <<e, "support">>
           cache == s.triggers[u]
           epoch == s.bodies[e]
<1>1. s \in Solvers(D, T) /\ IsScope(D, T) /\ s.now \in 0 .. End
  BY DEF SolveInv, Scope
<1>2. u \in T
  <2>1. g \in D \X {"support", "gate"}
    BY <1>1 DEF IsScope
  <2>2. e \in D
    BY <2>1
  <2> QED BY <2>2 DEF Scope
<1>3. ~ epoch.terminated
  <2>1. s.triggers[g].time # Never => ~ s.bodies[g[1]].terminated
    BY DEF SolveInv, TriggersInv
  <2> QED BY <2>1
<1>4. cache.time = s.now \/ KeepsGround(epoch, s.now, cache.time)
  <2>1. u[1] = e /\ u[2] = "support"
    OBVIOUS
  <2>2. LET c == s.triggers[u] p == s.bodies[u[1]]
        IN u[2] = "support" /\ ~ p.terminated => c.time = s.now \/ KeepsGround(p, s.now, c.time)
    BY <1>2 DEF SolveInv, TriggersInv
  <2> QED BY <1>3, <2>1, <2>2
<1>5. time \in s.now .. End /\ time \in Int
  BY <1>1, SelectedAhead, SelectedIsEarliest
<1>6. cache.time # Never => time <= cache.time /\ time # cache.time
  <2>1. cache.time # Never => time <= cache.time
    BY <1>1, <1>2, SelectedIsEarliest
  <2>2. cache.time = time /\ cache.time # Never => Selected(s)[2] <= SupportLoss
    BY <1>1, <1>2, SupportFirst
  <2>3. ~ (Checkpoint <= SupportLoss)
    BY DEF Checkpoint, SupportLoss
  <2> QED BY <2>1, <2>2, <2>3
<1>7. cache.time \in Int /\ s.now \in Int /\ End \in Int
  BY <1>1, <1>2, SolverFields, SolverAssumption DEF TriggerCaches
<1> DEFINE now == s.now
<1>8. now \in 0 .. End
  BY <1>1
<1> HIDE DEF time, cache, epoch, now
<1>9. cache.time # now
  BY <1>5, <1>6, <1>7, <1>8 DEF Never, now
<1>10. KeepsGround(epoch, now, cache.time)
  BY <1>4, <1>9 DEF now
<1>11. ~ OverPit(at(epoch, time))
  BY <1>5, <1>6, <1>10 DEF KeepsGround, now
<1> QED BY <1>11 DEF epoch, time

\* Every event is answered: handle rebuilds what the response made.
LEMMA HandleResponds ==
    ASSUME NEW D, NEW T, NEW s, Scope(D, T), SolveInv(s, D, T), Pending(s) # {}
    PROVE  \E c : /\ Response(Begun(s, Selected(s)[1]), c, D, T)
                  /\ handle(s, Selected(s)) = rebuild(c)
<1> DEFINE k == Selected(s)
           begun == Begun(s, k[1])
<1>1. s \in Solvers(D, T) /\ IsScope(D, T)
  BY DEF SolveInv, Scope
<1>2. k \in Pending(s) /\ k[1] \in Int
  BY <1>1, SelectedIsFirst, SelectedIsEarliest
<1>3. handle(s, k) = rebuild(CASE k[2] = BodyContact -> HandleContact(begun, <<k[3], k[4]>>)
                               [] k[2] = WallX -> HandleWall(begun, k[3], k[4])
                               [] k[2] = SupportLoss -> HandleTrigger(begun, <<k[3], "support">>)
                               [] k[2] = Checkpoint -> HandleTrigger(begun, <<k[3], "gate">>))
  BY DEF handle, Begun
<1>4. BodyContact = 1 /\ WallX = 2 /\ SupportLoss = 0 /\ Checkpoint = 4
  BY DEF BodyContact, WallX, SupportLoss, Checkpoint
<1> HIDE DEF k
<1>5. begun \in Solvers(D, T) /\ begun.now = k[1] /\ begun.bodies = s.bodies
  <2>1. \A time \in Int : LET r == Begun(s, time) IN r \in Solvers(D, T) /\ r.now = time /\ r.bodies = s.bodies
    BY <1>1, BegunFacts
  <2> QED BY <1>2, <2>1
<1> HIDE DEF begun
<1>6. CASE k \in ContactKeys(s)
  <2>1. PICK p \in DOMAIN s.pairs : /\ s.pairs[p].event.time # Never
                                    /\ k = Key(s.pairs[p].event.time, BodyContact, p[1], p[2])
    BY <1>6 DEF ContactKeys
  <2>2. p \in Pairs(D) /\ p = <<p[1], p[2]>>
    BY <1>1, SolverFields, PairMembers
  <2>3. ~ begun.bodies[p[1]].terminated /\ ~ begun.bodies[p[2]].terminated
    BY <1>5, <2>1, <2>2 DEF SolveInv, PairsInv
  <2>4. k[2] = BodyContact /\ k[3] = p[1] /\ k[4] = p[2]
    BY <2>1, KeyIs
  <2>5. handle(s, k) = rebuild(HandleContact(begun, p))
    BY <1>3, <1>4, <2>2, <2>4
  <2>6. Response(begun, HandleContact(begun, p), D, T)
    BY <1>1, <1>5, <2>2, <2>3, HandleContactFacts
  <2> QED BY <2>5, <2>6 DEF k, begun
<1>7. CASE k \in WallKeys(s)
  <2>1. PICK e \in DOMAIN s.walls : /\ s.walls[e].time # Never
                                    /\ k = Key(s.walls[e].time, WallX, e, s.walls[e].side)
    BY <1>7 DEF WallKeys
  <2>2. e \in D
    BY <1>1, SolverFields
  <2>3. ~ begun.bodies[e].terminated
    BY <1>5, <2>1, <2>2 DEF SolveInv, WallsInv
  <2>4. k[2] = WallX /\ k[3] = e
    BY <2>1, KeyIs
  <2>5. handle(s, k) = rebuild(HandleWall(begun, e, k[4]))
    BY <1>3, <1>4, <2>4
  <2>6. Response(begun, HandleWall(begun, e, k[4]), D, T)
    BY <1>1, <1>5, <2>2, <2>3, HandleWallFacts
  <2> QED BY <2>5, <2>6 DEF k, begun
<1>8. CASE k \in TriggerKeys(s)
  <2>1. PICK t \in DOMAIN s.triggers : /\ s.triggers[t].time # Never
                                       /\ k = Key(s.triggers[t].time, TriggerPriority(t[2]), t[1],
                                               s.triggers[t].cursor)
    BY <1>8 DEF TriggerKeys
  <2>2. t \in T
    BY <1>1, SolverFields
  <2>3. ~ begun.bodies[t[1]].terminated
    BY <1>5, <2>1, <2>2 DEF SolveInv, TriggersInv
  <2>4. k[2] = TriggerPriority(t[2]) /\ k[3] = t[1]
    BY <2>1, KeyIs
  <2>5. t = <<t[1], t[2]>> /\ t[2] \in {"support", "gate"}
    BY <1>1, <2>2 DEF IsScope
  <2>6. handle(s, k) = rebuild(HandleTrigger(begun, t))
    <3>1. CASE t[2] = "support"
      <4>1. k[2] = SupportLoss /\ t = <<k[3], "support">>
        BY <2>4, <2>5, <3>1 DEF TriggerPriority
      <4> QED BY <1>3, <1>4, <4>1
    <3>2. CASE t[2] = "gate"
      <4>1. k[2] = Checkpoint /\ t = <<k[3], "gate">>
        BY <2>4, <2>5, <3>2 DEF TriggerPriority
      <4> QED BY <1>3, <1>4, <4>1
    <3> QED BY <2>5, <3>1, <3>2
  <2>7. t[2] = "gate" => ~ OverPit(at(begun.bodies[t[1]], begun.now))
    <3> SUFFICES ASSUME t[2] = "gate" PROVE ~ OverPit(at(begun.bodies[t[1]], begun.now))
      OBVIOUS
    <3>1. k[2] = Checkpoint /\ t = <<t[1], "gate">>
      BY <2>4, <2>5 DEF TriggerPriority
    <3>2. \A e : <<e, "gate">> \in T /\ s.triggers[<<e, "gate">>].time # Never
                    => ~ OverPit(at(s.bodies[e], k[1]))
      BY <3>1, GateOnGround DEF k
    <3>3. ~ OverPit(at(s.bodies[t[1]], k[1]))
      BY <2>1, <2>2, <3>1, <3>2
    <3> QED BY <1>5, <3>3
  <2>8. Response(begun, HandleTrigger(begun, t), D, T)
    BY <1>1, <1>5, <2>2, <2>3, <2>7, HandleTriggerFacts
  <2> QED BY <2>6, <2>8 DEF k, begun
<1> QED BY <1>2, <1>6, <1>7, <1>8 DEF Pending

---------------------------------------------------------------------------
(* A step of the solve.                                                    *)

\* What a response, or the start of the solve, leaves to rebuild and to
\* refresh_triggers: nothing that is kept is of the past, and a certificate is
\* stale only if a motion began now.
StaleNow(s, D) ==
    \A p \in Pairs(D) :
        s.pairs[p].seen # Revisions(s, p) => Larger(s.bodies[p[1]].anchor, s.bodies[p[2]].anchor) = s.now

Kept(s, D, T) ==
    /\ \A p \in Pairs(D) : s.pairs[p].event.time # Never => s.pairs[p].event.time \in s.now .. End
    /\ \A e \in D : s.walls[e].time # Never => s.walls[e].time \in s.now .. End
    /\ \A t \in T : s.triggers[t].time # Never => s.triggers[t].time \in s.now .. End

OutsideNow(s, D) == \A e \in D : Outside(s.bodies[e]) => s.bodies[e].anchor = s.now

TriggersReady(s, T) ==
    \A t \in T :
        LET cache == s.triggers[t]
            epoch == s.bodies[t[1]]
        IN /\ cache.revision <= epoch.revision
           /\ t[2] = "support" /\ ~ epoch.terminated /\ cache.initialized =>
                 \/ cache.time = s.now
                 \/ cache.revision = epoch.revision => KeepsGround(epoch, s.now, cache.time)

Ready(s, D, T) ==
    /\ s \in Solvers(D, T) /\ s.now \in 0 .. End
    /\ BodiesInv(s, D) /\ EndedInv(s, D)
    /\ StaleNow(s, D) /\ Kept(s, D, T) /\ OutsideNow(s, D) /\ TriggersReady(s, T)

\* rebuild and refresh_triggers establish the invariant.
LEMMA ReadyIsRefreshed ==
    ASSUME NEW D, NEW T, NEW s, IsScope(D, T), Ready(s, D, T)
    PROVE  /\ SolveInv(refresh_triggers(rebuild(s)), D, T)
           /\ refresh_triggers(rebuild(s)).bodies = s.bodies
           /\ refresh_triggers(rebuild(s)).now = s.now
<1> DEFINE m == rebuild(s)
           r == refresh_triggers(m)
           now == s.now
<1>1. s \in Solvers(D, T) /\ now \in 0 .. End
  BY DEF Ready
<1>2. /\ m \in Solvers(D, T)
      /\ m.now = now /\ m.effects = s.effects /\ m.bodies = s.bodies /\ m.triggers = s.triggers
      /\ \A p \in Pairs(D) : m.pairs[p] = refresh_pair(s, p)
      /\ \A e \in D : m.walls[e] = refresh_wall(s, e)
  BY <1>1, RebuildFacts
<1> HIDE DEF m
<1>3. /\ r \in Solvers(D, T)
      /\ r.now = m.now /\ r.effects = m.effects /\ r.bodies = m.bodies
      /\ r.pairs = m.pairs /\ r.walls = m.walls
      /\ \A t \in T : r.triggers[t] = refresh_trigger(m, t)
  BY <1>1, <1>2, RefreshTriggersFacts
<1> HIDE DEF r
<1>4. r.now = now /\ r.bodies = s.bodies /\ r.effects = s.effects
  BY <1>2, <1>3
<1>5. now \in Int /\ End \in Int /\ now \in now .. End /\ now # Never
  BY <1>1, SolverAssumption DEF Never
<1>6. BodiesInv(r, D) /\ EndedInv(r, D)
  BY <1>4 DEF Ready, BodiesInv, EndedInv, Lost, now
<1>7. PairsInv(r, D)
  <2> SUFFICES ASSUME NEW p \in Pairs(D)
               PROVE  /\ r.pairs[p].seen = Revisions(r, p)
                      /\ r.pairs[p].event.time # Never =>
                            /\ r.pairs[p].event.time \in now .. End
                            /\ ~ r.bodies[p[1]].terminated /\ ~ r.bodies[p[2]].terminated
    BY <1>4 DEF PairsInv
  <2>1. r.pairs[p] = refresh_pair(s, p) /\ Revisions(r, p) = Revisions(s, p)
    BY <1>2, <1>3, <1>4 DEF Revisions
  <2>2. LET cache == s.pairs[p]
            q == refresh_pair(s, p)
        IN /\ q.seen = Revisions(s, p)
           /\ q.event.time # Never => ~ s.bodies[p[1]].terminated /\ ~ s.bodies[p[2]].terminated
           /\ \/ q.event.time = Never
              \/ q.event = cache.event
              \/ /\ q.event.time = Larger(s.bodies[p[1]].anchor, s.bodies[p[2]].anchor)
                 /\ cache.seen # Revisions(s, p)
              \/ q.event.time \in now .. End
    BY <1>1, RefreshPairFacts
  <2>3. s.pairs[p].event.time # Never => s.pairs[p].event.time \in now .. End
    BY DEF Ready, Kept
  <2>4. s.pairs[p].seen # Revisions(s, p) => Larger(s.bodies[p[1]].anchor, s.bodies[p[2]].anchor) = now
    BY DEF Ready, StaleNow
  <2> HIDE DEF now
  <2> QED BY <1>4, <1>5, <2>1, <2>2, <2>3, <2>4
<1>8. WallsInv(r, D)
  <2> SUFFICES ASSUME NEW e \in D
               PROVE  /\ r.walls[e].time # Never => r.walls[e].time \in now .. End /\ ~ r.bodies[e].terminated
                      /\ Outside(r.bodies[e]) => r.walls[e].time = now /\ r.bodies[e].anchor = now
    BY <1>4 DEF WallsInv
  <2>1. r.walls[e] = refresh_wall(s, e) /\ r.bodies[e] = s.bodies[e]
    BY <1>2, <1>3, <1>4
  <2>2. LET w == refresh_wall(s, e)
        IN /\ \/ w.time = Never
              \/ w.time \in now .. End
              \/ w.time = s.bodies[e].anchor /\ Outside(s.bodies[e])
           /\ s.bodies[e].terminated => w.time = Never
           /\ Outside(s.bodies[e]) => w.time = now \/ w.time = s.bodies[e].anchor
    BY <1>1, RefreshWallFacts
  <2>3. Outside(s.bodies[e]) => s.bodies[e].anchor = now
    BY DEF Ready, OutsideNow
  <2> HIDE DEF now
  <2> QED BY <1>5, <2>1, <2>2, <2>3
<1>9. TriggersInv(r, T)
  <2> SUFFICES ASSUME NEW t \in T
               PROVE  LET cache == r.triggers[t]
                          epoch == r.bodies[t[1]]
                      IN /\ cache.time # Never => cache.time \in now .. End /\ ~ epoch.terminated
                         /\ cache.revision <= epoch.revision
                         /\ t[2] = "support" /\ ~ epoch.terminated =>
                               \/ cache.time = now
                               \/ cache.revision = epoch.revision /\ KeepsGround(epoch, now, cache.time)
    BY <1>4 DEF TriggersInv
  <2> DEFINE old == s.triggers[t]
             epoch == s.bodies[t[1]]
             cache == refresh_trigger(m, t)
  <2>1. r.triggers[t] = cache /\ r.bodies[t[1]] = epoch
    BY <1>3, <1>4
  <2>2. /\ epoch.terminated => cache.time = Never /\ cache.revision = old.revision
        /\ ~ epoch.terminated =>
              /\ cache.initialized
              /\ \/ cache = old /\ (old.revision = epoch.revision \/ old.time = now)
                 \/ /\ cache.revision = epoch.revision /\ (cache.time = Never \/ cache.time \in now .. End)
                    /\ t[2] = "support" => cache.time = now \/ KeepsGround(epoch, now, cache.time)
    <3>1. LET o == m.triggers[t]
              p == m.bodies[t[1]]
              q == refresh_trigger(m, t)
          IN /\ p.terminated => q.time = Never /\ q.revision = o.revision
             /\ ~ p.terminated =>
                   /\ q.initialized
                   /\ \/ q = o /\ (o.revision = p.revision \/ o.time = m.now)
                      \/ /\ q.revision = p.revision /\ (q.time = Never \/ q.time \in m.now .. End)
                         /\ t[2] = "support" => q.time = m.now \/ KeepsGround(p, m.now, q.time)
      BY <1>1, <1>2, RefreshTriggerFacts
    <3> QED BY <1>2, <3>1
  <2>3. /\ old.revision <= epoch.revision
        /\ old.time # Never => old.time \in now .. End
        /\ t[2] = "support" /\ ~ epoch.terminated /\ old.initialized =>
              \/ old.time = now
              \/ old.revision = epoch.revision => KeepsGround(epoch, now, old.time)
    BY DEF Ready, Kept, TriggersReady
  <2>4. epoch.revision \in Int
    <3>1. t[1] \in D
      BY DEF IsScope
    <3> QED BY <1>1, <3>1, SolverFields DEF Epochs
  <2> HIDE DEF old, epoch, cache, now
  <2>5. /\ cache.time # Never => cache.time \in now .. End /\ ~ epoch.terminated
        /\ cache.revision <= epoch.revision
        /\ t[2] = "support" /\ ~ epoch.terminated =>
              \/ cache.time = now
              \/ cache.revision = epoch.revision /\ KeepsGround(epoch, now, cache.time)
    <3>1. CASE epoch.terminated
      BY <2>2, <2>3, <3>1
    <3>2. CASE ~ epoch.terminated /\ cache = old /\ (old.revision = epoch.revision \/ old.time = now)
      BY <2>2, <2>3, <3>2
    <3>3. CASE /\ ~ epoch.terminated
               /\ cache.revision = epoch.revision /\ (cache.time = Never \/ cache.time \in now .. End)
               /\ t[2] = "support" => cache.time = now \/ KeepsGround(epoch, now, cache.time)
      BY <2>4, <3>3
    <3> QED BY <2>2, <3>1, <3>2, <3>3
  <2> QED BY <2>1, <2>5
<1> QED BY <1>1, <1>3, <1>4, <1>6, <1>7, <1>8, <1>9 DEF SolveInv, now, r, m

\* A response to the event selected leaves what rebuild needs.
LEMMA ResponseIsReady ==
    ASSUME NEW D, NEW T, NEW s, IsScope(D, T), SolveInv(s, D, T), Pending(s) # {}, NEW c,
           Response(Begun(s, Selected(s)[1]), c, D, T)
    PROVE  Ready(c, D, T)
<1> DEFINE time == Selected(s)[1]
           begun == Begun(s, time)
           now == s.now
<1>1. s \in Solvers(D, T) /\ now \in 0 .. End
  BY DEF SolveInv
<1>2. /\ time \in now .. End
      /\ \A p \in Pairs(D) : s.pairs[p].event.time # Never => time <= s.pairs[p].event.time
      /\ \A e \in D : s.walls[e].time # Never => time <= s.walls[e].time
      /\ \A t \in T : s.triggers[t].time # Never => time <= s.triggers[t].time
  BY <1>1, SelectedAhead, SelectedIsEarliest
<1>3. now \in Int /\ End \in Int /\ time \in Int /\ now <= time /\ time <= End /\ time \in 0 .. End
      /\ now # Never /\ time # Never
  <2> HIDE DEF time, now
  <2> QED BY <1>1, <1>2, SolverAssumption DEF Never
<1>4. Response(begun, c, D, T)
  OBVIOUS
<1> HIDE DEF time
<1>5. /\ begun.now = time /\ begun.bodies = s.bodies /\ begun.effects = s.effects
      /\ begun.pairs = s.pairs /\ begun.walls = s.walls /\ begun.triggers = s.triggers
  <2>1. \A x \in Int : LET r == Begun(s, x)
                       IN /\ r.now = x /\ r.effects = s.effects /\ r.bodies = s.bodies
                          /\ r.pairs = s.pairs /\ r.walls = s.walls /\ r.triggers = s.triggers
    BY <1>1, BegunFacts
  <2> QED BY <1>3, <2>1
<1> HIDE DEF begun
<1>6. /\ c \in Solvers(D, T) /\ c.now = time
      /\ \A e \in D : \/ c.bodies[e] = s.bodies[e]
                      \/ /\ ~ s.bodies[e].terminated
                         /\ c.bodies[e].anchor = time /\ c.bodies[e].revision > s.bodies[e].revision
                         /\ c.bodies[e].terminated => Lost(c, e) \/ ~ OverPit(c.bodies[e].body.position)
      /\ \A e \in D : Lost(s, e) => Lost(c, e)
  BY <1>4, <1>5 DEF Response, Changed, Lost
<1>7. /\ \A p \in Pairs(D) : /\ c.pairs[p].seen = s.pairs[p].seen
                             /\ c.pairs[p].event = s.pairs[p].event \/ c.pairs[p].event.time = Never
      /\ \A e \in D : c.walls[e] = s.walls[e] \/ c.walls[e].time = Never
      /\ \A t \in T : /\ c.triggers[t].revision = s.triggers[t].revision
                      /\ \/ c.triggers[t] = s.triggers[t]
                         \/ c.triggers[t].time = Never /\ ~ c.triggers[t].initialized
  BY <1>4, <1>5 DEF Response
<1>8. \A e \in D : /\ s.bodies[e].anchor \in Int /\ s.bodies[e].anchor <= now
                   /\ s.bodies[e].revision \in Int /\ c.bodies[e].revision \in Int
  <2>1. s.bodies \in [D -> Epochs] /\ c.bodies \in [D -> Epochs]
    BY <1>1, <1>6, SolverFields
  <2>2. \A e \in D : s.bodies[e].anchor \in Int /\ s.bodies[e].revision \in Int /\ c.bodies[e].revision \in Int
    BY <2>1 DEF Epochs
  <2> QED BY <2>2 DEF SolveInv, BodiesInv
<1>9. BodiesInv(c, D)
  <2> HIDE DEF now
  <2> QED BY <1>3, <1>6, <1>8 DEF BodiesInv
<1>10. EndedInv(c, D)
  BY <1>6 DEF EndedInv, SolveInv
<1>11. StaleNow(c, D)
  <2> SUFFICES ASSUME NEW p \in Pairs(D), c.pairs[p].seen # Revisions(c, p)
               PROVE  Larger(c.bodies[p[1]].anchor, c.bodies[p[2]].anchor) = time
    BY <1>6 DEF StaleNow
  <2>1. p[1] \in D /\ p[2] \in D
    BY PairMembers
  <2>2. Revisions(s, p) # Revisions(c, p)
    BY <1>7 DEF SolveInv, PairsInv
  <2>3. c.bodies[p[1]] # s.bodies[p[1]] \/ c.bodies[p[2]] # s.bodies[p[2]]
    BY <2>2 DEF Revisions
  <2>4. c.bodies[p[1]].anchor = time \/ c.bodies[p[2]].anchor = time
    BY <1>6, <2>1, <2>3
  <2>5. /\ c.bodies[p[1]].anchor \in Int /\ c.bodies[p[1]].anchor <= time
        /\ c.bodies[p[2]].anchor \in Int /\ c.bodies[p[2]].anchor <= time
    <3> HIDE DEF now
    <3> QED BY <1>3, <1>6, <1>8, <2>1
  <2> QED BY <1>3, <2>4, <2>5 DEF Larger
<1>12. Kept(c, D, T)
  <2>1. \A x \in Int : x \in now .. End /\ time <= x => x \in time .. End
    <3> HIDE DEF now
    <3> QED BY <1>3
  <2>2. ASSUME NEW p \in Pairs(D), c.pairs[p].event.time # Never PROVE c.pairs[p].event.time \in time .. End
    <3>1. c.pairs[p].event = s.pairs[p].event
      BY <1>7, <2>2
    <3>2. s.pairs[p].event.time \in now .. End /\ time <= s.pairs[p].event.time
      BY <1>2, <2>2, <3>1 DEF SolveInv, PairsInv
    <3>3. s.pairs[p].event.time \in Int
      BY <1>1, SolverFields DEF PairCaches, Certificates
    <3> QED BY <2>1, <3>1, <3>2, <3>3
  <2>3. ASSUME NEW e \in D, c.walls[e].time # Never PROVE c.walls[e].time \in time .. End
    <3>1. c.walls[e] = s.walls[e]
      BY <1>7, <2>3
    <3>2. s.walls[e].time \in now .. End /\ time <= s.walls[e].time
      BY <1>2, <2>3, <3>1 DEF SolveInv, WallsInv
    <3>3. s.walls[e].time \in Int
      BY <1>1, SolverFields DEF WallCaches
    <3> QED BY <2>1, <3>1, <3>2, <3>3
  <2>4. ASSUME NEW t \in T, c.triggers[t].time # Never PROVE c.triggers[t].time \in time .. End
    <3>1. c.triggers[t] = s.triggers[t]
      BY <1>7, <2>4
    <3>2. s.triggers[t].time \in now .. End /\ time <= s.triggers[t].time
      BY <1>2, <2>4, <3>1 DEF SolveInv, TriggersInv
    <3>3. s.triggers[t].time \in Int
      BY <1>1, SolverFields DEF TriggerCaches
    <3> QED BY <2>1, <3>1, <3>2, <3>3
  <2> QED BY <1>6, <2>2, <2>3, <2>4 DEF Kept
<1>13. OutsideNow(c, D)
  <2> SUFFICES ASSUME NEW e \in D, Outside(c.bodies[e]), c.bodies[e] = s.bodies[e] PROVE s.bodies[e].anchor = time
    BY <1>6 DEF OutsideNow
  <2>1. s.walls[e].time = now /\ s.bodies[e].anchor = now
    BY DEF SolveInv, WallsInv
  <2> HIDE DEF now
  <2> QED BY <1>2, <1>3, <2>1
<1>14. TriggersReady(c, T)
  <2> SUFFICES ASSUME NEW t \in T
               PROVE  LET cache == c.triggers[t]
                          epoch == c.bodies[t[1]]
                      IN /\ cache.revision <= epoch.revision
                         /\ t[2] = "support" /\ ~ epoch.terminated /\ cache.initialized =>
                               \/ cache.time = time
                               \/ cache.revision = epoch.revision => KeepsGround(epoch, time, cache.time)
    BY <1>6 DEF TriggersReady
  <2> DEFINE cache == c.triggers[t]
             old == s.triggers[t]
             epoch == c.bodies[t[1]]
             before == s.bodies[t[1]]
  <2>1. t[1] \in D
    BY DEF IsScope
  <2>2. /\ cache.revision = old.revision
        /\ cache = old \/ (cache.time = Never /\ ~ cache.initialized)
    BY <1>7
  <2>3. epoch = before \/ epoch.revision > before.revision
    BY <1>6, <2>1
  <2>4. /\ old.revision <= before.revision
        /\ t[2] = "support" /\ ~ before.terminated => old.time = now \/ KeepsGround(before, now, old.time)
    BY DEF SolveInv, TriggersInv
  <2>5. old.revision \in Int /\ before.revision \in Int /\ epoch.revision \in Int /\ old.time \in Int
    BY <1>1, <1>8, <2>1, SolverFields DEF TriggerCaches
  <2>6. old.time # Never => time <= old.time
    BY <1>2
  <2> HIDE DEF cache, old, epoch, before, now
  <2>7. KeepsGround(before, now, old.time) => KeepsGround(before, time, old.time)
    BY <1>3 DEF KeepsGround
  <2>8. old.time = now => old.time = time
    BY <1>3, <2>5, <2>6
  <2>9. /\ cache.revision <= epoch.revision
        /\ t[2] = "support" /\ ~ epoch.terminated /\ cache.initialized =>
              \/ cache.time = time
              \/ cache.revision = epoch.revision => KeepsGround(epoch, time, cache.time)
    <3>1. CASE epoch = before
      BY <2>2, <2>4, <2>7, <2>8, <3>1
    <3>2. CASE epoch.revision > before.revision
      BY <2>2, <2>4, <2>5, <3>2
    <3> QED BY <2>3, <3>1, <3>2
  <2> QED BY <2>9 DEF cache, epoch
<1>15. c.now \in 0 .. End
  BY <1>3, <1>6
<1> QED BY <1>6, <1>9, <1>10, <1>11, <1>12, <1>13, <1>14, <1>15 DEF Ready

\* A turn of the loop takes the solve to the time of its event, and leaves the
\* kinds of the bodies.
LEMMA HandledKinds ==
    ASSUME NEW D, NEW T, NEW s, Scope(D, T), SolveInv(s, D, T), Pending(s) # {}
    PROVE  LET r == refresh_triggers(handle(s, Selected(s)))
           IN /\ SolveInv(r, D, T)
              /\ \A e \in D : r.bodies[e].body.kind = s.bodies[e].body.kind
              /\ r.now = Selected(s)[1]
<1> DEFINE begun == Begun(s, Selected(s)[1])
<1>1. IsScope(D, T) /\ s \in Solvers(D, T)
  BY DEF Scope, SolveInv
<1>2. PICK c : Response(begun, c, D, T) /\ handle(s, Selected(s)) = rebuild(c)
  BY HandleResponds
<1>3. Ready(c, D, T)
  BY <1>1, <1>2, ResponseIsReady
<1>4. begun.bodies = s.bodies /\ begun.now = Selected(s)[1]
  <2>1. \A x \in Int : Begun(s, x).bodies = s.bodies /\ Begun(s, x).now = x
    BY <1>1, BegunFacts
  <2>2. Selected(s)[1] \in Int
    BY <1>1, SelectedIsEarliest
  <2> QED BY <2>1, <2>2
<1>5. c.now = Selected(s)[1] /\ \A e \in D : c.bodies[e].body.kind = s.bodies[e].body.kind
  BY <1>2, <1>4 DEF Response
<1>6. /\ SolveInv(refresh_triggers(rebuild(c)), D, T)
      /\ refresh_triggers(rebuild(c)).bodies = c.bodies /\ refresh_triggers(rebuild(c)).now = c.now
  BY <1>1, <1>3, ReadyIsRefreshed
<1> QED BY <1>2, <1>5, <1>6

\* The bodies that the motion of a tick drives, and the triggers it watches.
Folding(bodies) == {e \in DOMAIN bodies : bodies[e].kind = "folding"}
Watched(bodies) == (Folding(bodies) \X {"support"}) \cup ((Racers \cap Folding(bodies)) \X {"gate"})

\* A solve of these bodies is under way.
Solving(bodies, s) ==
    /\ SolveInv(s, DOMAIN bodies, Watched(bodies))
    /\ \A e \in DOMAIN bodies : s.bodies[e].body.kind = bodies[e].kind

LEMMA WatchedScope ==
    ASSUME NEW bodies, IsWorld(bodies)
    PROVE  Scope(DOMAIN bodies, Watched(bodies))
<1> DEFINE F == Folding(bodies)
           R == Racers \cap F
<1>1. F \subseteq DOMAIN bodies /\ R \subseteq F
  BY DEF Folding
<1>2. Watched(bodies) = (F \X {"support"}) \cup (R \X {"gate"})
  BY DEF Watched
<1> HIDE DEF F, R
<1>3. Watched(bodies) \subseteq (DOMAIN bodies) \X {"support", "gate"}
  BY <1>1, <1>2
<1>4. \A e : <<e, "gate">> \in Watched(bodies) => <<e, "support">> \in Watched(bodies)
  BY <1>1, <1>2
<1> QED BY <1>3, <1>4 DEF Scope, IsScope, IsWorld

\* A turn of the loop is a turn of the same solve, and not of an earlier time.
LEMMA HandledSolving ==
    ASSUME NEW bodies, IsWorld(bodies), NEW s, Solving(bodies, s), Pending(s) # {}
    PROVE  /\ Solving(bodies, refresh_triggers(handle(s, Selected(s))))
           /\ refresh_triggers(handle(s, Selected(s))).now \in s.now .. End
<1> DEFINE r == refresh_triggers(handle(s, Selected(s)))
<1>1. Scope(DOMAIN bodies, Watched(bodies)) /\ SolveInv(s, DOMAIN bodies, Watched(bodies))
  BY WatchedScope DEF Solving
<1>2. /\ SolveInv(r, DOMAIN bodies, Watched(bodies))
      /\ \A e \in DOMAIN bodies : r.bodies[e].body.kind = s.bodies[e].body.kind
      /\ r.now = Selected(s)[1]
  BY <1>1, HandledKinds
<1>3. Selected(s)[1] \in s.now .. End
  BY <1>1, SelectedAhead DEF Scope
<1> HIDE DEF r
<1> QED BY <1>2, <1>3 DEF Solving, r

\* The solve starts with every body at rest on its first motion, and nothing computed.
LEMMA StartSolves ==
    ASSUME NEW bodies, IsWorld(bodies)
    PROVE  Solving(bodies, refresh_triggers(start_solve(bodies, Observers,
                              [e \in Racers \cap Folding(bodies) |-> 0], Folding(bodies))))
<1> DEFINE D == DOMAIN bodies
           T == Watched(bodies)
           cursors == [e \in Racers \cap Folding(bodies) |-> 0]
           epochs == [e \in D |-> Epoch(bodies[e], e \in Observers)]
           pair == [event |-> NoCertificate, seen |-> <<-1, -1>>, suppressed |-> <<-1, -1>>]
           pairs == [p \in Pairs(D) |-> pair]
           walls == [e \in D |-> NoWall]
           Trigger(t) == [cursor |-> IF t[2] = "gate" THEN cursors[t[1]] ELSE 0,
                          time |-> Never, revision |-> 0, initialized |-> FALSE]
           triggers == [t \in T |-> Trigger(t)]
           none == <<>>
           s == [now |-> 0, count |-> 0, effects |-> none, bodies |-> epochs, pairs |-> pairs,
                 walls |-> walls, triggers |-> triggers]
<1>1. start_solve(bodies, Observers, cursors, Folding(bodies)) = rebuild(s)
  <2>1. DOMAIN cursors = Racers \cap Folding(bodies)
    OBVIOUS
  <2> HIDE DEF cursors
  <2> QED BY <2>1 DEF start_solve, Watched
<1>2. IsScope(D, T)
  BY WatchedScope DEF Scope
<1>3. /\ epochs \in [D -> Epochs]
      /\ \A e \in D : /\ epochs[e].anchor = 0 /\ epochs[e].revision = 0 /\ ~ epochs[e].terminated
                      /\ epochs[e].body = bodies[e]
  <2>1. ASSUME NEW e \in D PROVE Epoch(bodies[e], e \in Observers) \in Epochs
    <3> DEFINE touch == e \in Observers
               b == bodies[e]
    <3>1. touch \in BOOLEAN /\ b \in Bodies
      BY DEF IsWorld
    <3> HIDE DEF touch, b
    <3>2. Epoch(b, touch) \in Epochs
      BY <3>1 DEF Epoch, Epochs
    <3> QED BY <3>2 DEF touch, b
  <2> QED BY <2>1 DEF Epoch
<1>4. /\ pairs \in [Pairs(D) -> PairCaches]
      /\ \A p \in Pairs(D) : pairs[p].event.time = Never
  <2>1. NoCertificate \in Certificates /\ NoCertificate.time = Never
    BY DEF NoCertificate, Certificates, Never
  <2>2. pair \in PairCaches /\ pair.event.time = Never
    <3> DEFINE minus == <<-1, -1>>
    <3>1. minus \in Int \X Int
      OBVIOUS
    <3> HIDE DEF minus
    <3> QED BY <2>1, <3>1 DEF PairCaches, minus
  <2> HIDE DEF pair
  <2> QED BY <2>2
<1>5. walls \in [D -> WallCaches] /\ \A e \in D : walls[e].time = Never
  BY DEF NoWall, WallCaches, Never
<1>6. /\ triggers \in [T -> TriggerCaches]
      /\ \A t \in T : triggers[t].time = Never /\ triggers[t].revision = 0 /\ ~ triggers[t].initialized
  <2>1. ASSUME NEW t \in T PROVE Trigger(t) \in TriggerCaches
    <3> DEFINE cursor == IF t[2] = "gate" THEN cursors[t[1]] ELSE 0
    <3>1. cursor \in Nat
      <4>1. CASE t \in Folding(bodies) \X {"support"}
        BY <4>1
      <4>2. CASE t \in (Racers \cap Folding(bodies)) \X {"gate"}
        BY <4>2
      <4> QED BY <4>1, <4>2 DEF Watched
    <3> HIDE DEF cursor
    <3>2. [cursor |-> cursor, time |-> Never, revision |-> 0, initialized |-> FALSE] \in TriggerCaches
      BY <3>1 DEF TriggerCaches, Never
    <3> QED BY <3>2 DEF cursor
  <2> QED BY <2>1
<1>7. none \in Seq(Effects)
  OBVIOUS
<1> HIDE DEF D, T, epochs, pairs, walls, triggers, none
<1>8. s \in Solvers(D, T)
  BY <1>3, <1>4, <1>5, <1>6, <1>7 DEF Solvers
<1>9. /\ s.now = 0 /\ s.bodies = epochs /\ s.pairs = pairs /\ s.walls = walls /\ s.triggers = triggers
  OBVIOUS
<1> HIDE DEF s
<1>10. 0 \in 0 .. End
  BY SolverAssumption
<1>11. Ready(s, D, T)
  <2>1. BodiesInv(s, D) /\ EndedInv(s, D)
    BY <1>3, <1>9 DEF BodiesInv, EndedInv
  <2>2. StaleNow(s, D)
    BY <1>3, <1>9, PairMembers DEF StaleNow, Larger
  <2>3. Kept(s, D, T)
    BY <1>4, <1>5, <1>6, <1>9 DEF Kept
  <2>4. OutsideNow(s, D)
    BY <1>3, <1>9 DEF OutsideNow
  <2>5. TriggersReady(s, T)
    <3>1. ASSUME NEW t \in T PROVE t[1] \in D
      BY <1>2 DEF IsScope
    <3> QED BY <1>3, <1>6, <1>9, <3>1 DEF TriggersReady
  <2> QED BY <1>8, <1>9, <1>10, <2>1, <2>2, <2>3, <2>4, <2>5 DEF Ready
<1>12. /\ SolveInv(refresh_triggers(rebuild(s)), D, T)
       /\ refresh_triggers(rebuild(s)).bodies = s.bodies
  BY <1>2, <1>11, ReadyIsRefreshed
<1> QED BY <1>1, <1>3, <1>9, <1>12 DEF Solving, D, T

\* The accelerations of a tick change neither who is there nor of what kind.
LEMMA AcceleratedFacts ==
    ASSUME NEW bodies, IsWorld(bodies), NEW speeds \in [DOMAIN bodies -> Speeds]
    PROVE  /\ IsWorld(Accelerated(bodies, speeds)) /\ DOMAIN Accelerated(bodies, speeds) = DOMAIN bodies
           /\ \A e \in DOMAIN bodies : Accelerated(bodies, speeds)[e].kind = bodies[e].kind
           /\ Folding(Accelerated(bodies, speeds)) = Folding(bodies)
           /\ Watched(Accelerated(bodies, speeds)) = Watched(bodies)
<1> DEFINE after == Accelerated(bodies, speeds)
<1>1. ASSUME NEW e \in DOMAIN bodies PROVE after[e] \in Bodies /\ after[e].kind = bodies[e].kind
  <2>1. bodies[e] \in Bodies /\ speeds[e] \in Int
    BY StepAssumption DEF IsWorld
  <2>2. [bodies[e] EXCEPT !.velocity = speeds[e]] \in Bodies
        /\ [bodies[e] EXCEPT !.velocity = speeds[e]].kind = bodies[e].kind
    BY <2>1 DEF Bodies
  <2> QED BY <2>1, <2>2 DEF Accelerated
<1>2. DOMAIN after = DOMAIN bodies /\ after \in [DOMAIN bodies -> Bodies]
  BY <1>1 DEF Accelerated
<1> HIDE DEF after
<1>3. Folding(after) = Folding(bodies)
  BY <1>1, <1>2 DEF Folding
<1>4. Watched(after) = Watched(bodies)
  BY <1>3 DEF Watched
<1> QED BY <1>1, <1>2, <1>3, <1>4 DEF IsWorld, after

\* Where the bodies of a solve end up: on the ground, unless they are lost.
LEMMA RestingFacts ==
    ASSUME NEW bodies, IsWorld(bodies), NEW s, Solving(bodies, s), Pending(s) = {}
    PROVE  /\ IsWorld(resting(s)) /\ DOMAIN resting(s) = DOMAIN bodies
           /\ \A e \in DOMAIN bodies :
                 resting(s)[e].kind = "folding" => Lost(s, e) \/ ~ OverPit(resting(s)[e].position)
<1> DEFINE D == DOMAIN bodies
           T == Watched(bodies)
           after == resting(s)
<1>1. s \in Solvers(D, T) /\ s.bodies \in [D -> Epochs] /\ s.triggers \in [T -> TriggerCaches]
  <2>1. s \in Solvers(D, T)
    BY DEF Solving, SolveInv
  <2> QED BY <2>1, SolverFields
<1>2. ASSUME NEW e \in D
      PROVE  /\ after[e] \in Bodies /\ after[e].kind = bodies[e].kind
             /\ after[e].position = at(s.bodies[e], End)
  <2> DEFINE b == s.bodies[e].body
             x == at(s.bodies[e], End)
  <2>1. b \in Bodies /\ x \in Int
    <3>1. s.bodies[e] \in Epochs /\ End \in Int
      BY <1>1, SolverAssumption
    <3>2. x \in Int
      BY <3>1, AtType
    <3> QED BY <3>1, <3>2 DEF Epochs
  <2>2. b.kind = bodies[e].kind
    BY DEF Solving
  <2>3. after[e] = [b EXCEPT !.position = x]
    BY <1>1 DEF resting
  <2> HIDE DEF b, x, after
  <2>4. after[e] \in Bodies /\ after[e].kind = b.kind /\ after[e].position = x
    BY <2>1, <2>3 DEF Bodies
  <2> QED BY <2>2, <2>4 DEF x
<1>3. DOMAIN after = D /\ after \in [D -> Bodies]
  BY <1>1, <1>2 DEF resting
<1> HIDE DEF after
<1>4. ASSUME NEW e \in D, after[e].kind = "folding" PROVE Lost(s, e) \/ ~ OverPit(after[e].position)
  <2> DEFINE t == <<e, "support">>
             epoch == s.bodies[e]
             cache == s.triggers[t]
  <2>1. t \in T
    BY <1>2, <1>4 DEF Watched, Folding
  <2>2. CASE epoch.terminated
    <3>1. Lost(s, e) \/ ~ OverPit(epoch.body.position)
      BY <2>2 DEF Solving, SolveInv, EndedInv
    <3>2. at(epoch, End) = epoch.body.position
      BY <2>2 DEF at
    <3> QED BY <1>2, <3>1, <3>2
  <2>3. CASE ~ epoch.terminated
    <3>1. cache.time = Never
      <4> SUFFICES ASSUME cache.time # Never PROVE FALSE
        OBVIOUS
      <4>1. t \in {u \in DOMAIN s.triggers : s.triggers[u].time # Never}
        BY <1>1, <2>1
      <4>2. Key(cache.time, TriggerPriority(t[2]), t[1], cache.cursor) \in TriggerKeys(s)
        BY <4>1 DEF TriggerKeys
      <4> QED BY <4>2 DEF Pending
    <3>2. cache.time = s.now \/ KeepsGround(epoch, s.now, cache.time)
      <4>1. t[1] = e /\ t[2] = "support"
        OBVIOUS
      <4> QED BY <2>1, <2>3, <4>1 DEF Solving, SolveInv, TriggersInv
    <3> DEFINE now == s.now
    <3>3. now \in 0 .. End
      BY DEF Solving, SolveInv
    <3> HIDE DEF now
    <3>4. now # Never /\ End \in now .. End
      BY <3>3, SolverAssumption DEF Never
    <3>5. ~ OverPit(at(epoch, End))
      BY <3>1, <3>2, <3>4 DEF KeepsGround, now
    <3> QED BY <1>2, <3>5
  <2> QED BY <2>2, <2>3
<1> QED BY <1>3, <1>4 DEF IsWorld, after

---------------------------------------------------------------------------
(* The step.                                                               *)

\* Whoever stands over the pit after the solve is going to be removed.
Spared(bodies, gone) ==
    \A e \in DOMAIN bodies : bodies[e].kind = "folding" => e \in gone \/ ~ OverPit(bodies[e].position)

\* The inductive invariant: a stage reads an index of its bodies, and the solve
\* is one of the stage's bodies.
StepInv ==
    /\ StepTypeOK /\ IndexIsCurrent
    /\ IsWorld(world) /\ IsWorld(next) /\ Spared(world, {})
    /\ stage = "idle" => next = world
    /\ stage # "idle" => tick_sequence < MaxSteps
    /\ stage = "solve" => Solving(next, solver)
    /\ stage = "late" => Spared(next, doomed)

\* What a simulation is created with satisfies it.
LEMMA StepInitInv == StepInit => StepInv
<1> SUFFICES ASSUME NEW bodies \in Worlds, Start(bodies) PROVE StepInv
  BY DEF StepInit
<1>1. IsWorld(bodies) /\ Spared(bodies, {})
  BY WorldsAssumption DEF IsWorld, Spared
<1>2. StepTypeOK
  BY <1>1, StepAssumption DEF Start, StepTypeOK, IsWorld
<1>3. IndexIsCurrent
  BY DEF Start, IndexIsCurrent
<1> QED BY <1>1, <1>2, <1>3 DEF StepInv, Start

\* The intake preserves it.
LEMMA IntakeInv ==
    ASSUME StepInv, NEW gone, NEW arrivals, arrivals \subseteq Entities, Intake(gone, arrivals)
    PROVE  StepInv'
<1>1. /\ IsWorld(next') /\ DOMAIN next' = DOMAIN world \ gone
  BY WithoutIsWorld DEF Intake, StepInv
<1>2. index' = rebuilt(next')
  BY ReindexedIsRebuilt DEF Intake, StepInv, IndexIsCurrent
<1>3. stage' \in {"seat", "failed"}
  BY DEF Intake, Continue
<1>4. /\ world' = world /\ grid' = grid /\ tick_sequence' = tick_sequence /\ doomed' = doomed
      /\ solver' = solver /\ stage = "idle" /\ tick_sequence < MaxSteps
      /\ waiting' = (waiting \ gone) \cup arrivals /\ arrivals \cap (DOMAIN world \cup waiting) = {}
  BY DEF Intake, Committed
<1>5. waiting \cap DOMAIN world = {}
  BY <1>4 DEF StepInv, StepTypeOK
<1>6. StepTypeOK'
  BY <1>1, <1>3, <1>4, <1>5 DEF StepInv, StepTypeOK, IsWorld
<1>7. IndexIsCurrent'
  BY <1>2, <1>4 DEF StepInv, IndexIsCurrent
<1> QED BY <1>1, <1>3, <1>4, <1>6, <1>7 DEF StepInv, Spared

\* Seating preserves it.
LEMMA SeatInv ==
    ASSUME StepInv, Seat
    PROVE  StepInv'
<1>1. waiting \subseteq Entities /\ waiting \cap DOMAIN next = {} /\ IsWorld(next)
  BY DEF StepInv, StepTypeOK
<1>2. /\ IsWorld(next')
      /\ DOMAIN next' = DOMAIN next => next' = next
      /\ DOMAIN next' \subseteq DOMAIN next \cup waiting
  BY <1>1, SeatedFacts DEF Seat
<1>3. stage' \in {"pre_kernel", "failed"}
  BY DEF Seat, Continue
<1>4. /\ world' = world /\ grid' = grid /\ tick_sequence' = tick_sequence /\ doomed' = doomed
      /\ solver' = solver /\ stage = "seat" /\ waiting' = waiting \ DOMAIN next'
  BY DEF Seat, Committed
<1>5. index' = rebuilt(next')
  BY <1>2, <1>4 DEF Seat, StepInv, IndexIsCurrent
<1>6. StepTypeOK'
  BY <1>1, <1>2, <1>3, <1>4 DEF StepInv, StepTypeOK, IsWorld
<1>7. IndexIsCurrent'
  BY <1>4, <1>5 DEF StepInv, IndexIsCurrent
<1> QED BY <1>2, <1>3, <1>4, <1>6, <1>7 DEF StepInv, Spared

\* A body that changes its size is a body of the same kind in the same place.
LEMMA ResizedFacts ==
    ASSUME NEW bodies, IsWorld(bodies), NEW e \in DOMAIN bodies
    PROVE  /\ IsWorld(Resized(bodies, e)) /\ DOMAIN Resized(bodies, e) = DOMAIN bodies
           /\ \A f \in DOMAIN bodies : /\ Resized(bodies, e)[f].kind = bodies[f].kind
                                       /\ Resized(bodies, e)[f].position = bodies[f].position
<1> DEFINE body == [bodies[e] EXCEPT !.radius = 2 * PlayerRadius]
<1>1. body \in Bodies /\ body.kind = bodies[e].kind /\ body.position = bodies[e].position
  BY IndexAssumption DEF IsWorld, Bodies
<1>2. e \in Entities
  BY DEF IsWorld
<1>3. Resized(bodies, e) = With(bodies, e, body)
  BY DEF Resized
<1> HIDE DEF body
<1>4. /\ IsWorld(With(bodies, e, body)) /\ DOMAIN With(bodies, e, body) = DOMAIN bodies \cup {e}
      /\ With(bodies, e, body)[e] = body
      /\ \A f \in DOMAIN bodies : f # e => With(bodies, e, body)[f] = bodies[f]
  BY <1>1, <1>2, WithIsWorld
<1> QED BY <1>1, <1>3, <1>4

\* The systems before the kernel preserve it.
LEMMA PreKernelInv ==
    ASSUME StepInv, NEW bodies \in PreKernelChanges(next), PreKernel(bodies)
    PROVE  StepInv'
<1>1. IsWorld(next) /\ waiting \cap DOMAIN next = {}
  BY DEF StepInv, StepTypeOK
<1>2. IsWorld(bodies) /\ waiting \cap DOMAIN bodies = {}
  <2>1. CASE bodies = next
    BY <1>1, <2>1
  <2>2. CASE \E e \in DOMAIN next : bodies = Resized(next, e)
    BY <1>1, <2>2, ResizedFacts
  <2>3. CASE \E e \in Entities \ (DOMAIN next \cup waiting) : bodies = With(next, e, Hazard(- PlayerRadius, 1))
    <3>1. PICK e \in Entities \ (DOMAIN next \cup waiting) : bodies = With(next, e, Hazard(- PlayerRadius, 1))
      BY <2>3
    <3> DEFINE hazard == Hazard(- PlayerRadius, 1)
    <3>2. hazard \in Bodies
      BY IndexAssumption DEF Hazard, Body, Bodies, Kinds
    <3> HIDE DEF hazard
    <3>3. IsWorld(With(next, e, hazard)) /\ DOMAIN With(next, e, hazard) = DOMAIN next \cup {e}
      BY <1>1, <3>2, WithIsWorld
    <3> QED BY <1>1, <3>1, <3>3 DEF hazard
  <2> QED BY <2>1, <2>2, <2>3 DEF PreKernelChanges
<1>3. /\ world' = world /\ grid' = grid /\ tick_sequence' = tick_sequence /\ doomed' = doomed
      /\ solver' = solver /\ stage = "pre_kernel" /\ waiting' = waiting /\ next' = bodies
      /\ stage' \in {"kernel", "failed"}
  BY DEF PreKernel, Committed
<1>4. index' = rebuilt(next')
  BY <1>3, SameIndex DEF PreKernel, StepInv, IndexIsCurrent
<1>5. StepTypeOK'
  BY <1>2, <1>3 DEF StepInv, StepTypeOK, IsWorld
<1>6. IndexIsCurrent'
  BY <1>3, <1>4 DEF StepInv, IndexIsCurrent
<1> QED BY <1>2, <1>3, <1>5, <1>6 DEF StepInv, Spared

\* The start of the solve preserves it.
LEMMA AccelerateInv ==
    ASSUME StepInv, NEW speeds \in [DOMAIN next -> Speeds], Accelerate(speeds)
    PROVE  StepInv'
<1> DEFINE bodies == Accelerated(next, speeds)
<1>1. /\ world' = world /\ grid' = grid /\ tick_sequence' = tick_sequence /\ doomed' = doomed
      /\ stage = "kernel" /\ waiting' = waiting /\ next' = next /\ index' = index
      /\ stage' \in {"solve", "failed"}
      /\ stage' = "failed" => solver' = solver
      /\ stage' = "solve" =>
            solver' = refresh_triggers(start_solve(bodies, Observers,
                                          [e \in Racers \cap Folding(bodies) |-> 0], Folding(bodies)))
  BY DEF Accelerate, Committed, Folding
<1>2. IsWorld(next)
  BY DEF StepInv
<1>3. /\ IsWorld(bodies) /\ DOMAIN bodies = DOMAIN next
      /\ \A e \in DOMAIN next : bodies[e].kind = next[e].kind
      /\ Watched(bodies) = Watched(next)
  BY <1>2, AcceleratedFacts
<1>4. stage' = "solve" => Solving(bodies, solver')
  BY <1>1, <1>3, StartSolves
<1>5. stage' = "solve" => Solving(next, solver')
  BY <1>3, <1>4 DEF Solving
<1>6. StepTypeOK'
  BY <1>1 DEF StepInv, StepTypeOK
<1>7. IndexIsCurrent'
  BY <1>1 DEF StepInv, IndexIsCurrent
<1> QED BY <1>1, <1>5, <1>6, <1>7 DEF StepInv, Spared

\* A turn of the solver's loop preserves it.
LEMMA SolveEventInv ==
    ASSUME StepInv, SolveEvent
    PROVE  StepInv'
<1>1. /\ world' = world /\ grid' = grid /\ tick_sequence' = tick_sequence /\ doomed' = doomed
      /\ stage = "solve" /\ waiting' = waiting /\ next' = next /\ index' = index
      /\ Pending(solver) # {}
      /\ \/ stage' = "solve" /\ solver' = refresh_triggers(handle(solver, Selected(solver)))
         \/ stage' = "failed" /\ solver' = NoSolver
  BY DEF SolveEvent, Committed
<1>2. IsWorld(next)
  BY DEF StepInv
<1>3. Solving(next, solver)
  BY <1>1 DEF StepInv
<1>4. stage' = "solve" => Solving(next, solver')
  <2>1. Solving(next, refresh_triggers(handle(solver, Selected(solver))))
    BY <1>1, <1>2, <1>3, HandledSolving
  <2> QED BY <1>1, <2>1
<1>5. StepTypeOK'
  BY <1>1 DEF StepInv, StepTypeOK
<1>6. IndexIsCurrent'
  BY <1>1 DEF StepInv, IndexIsCurrent
<1> QED BY <1>1, <1>4, <1>5, <1>6 DEF StepInv, Spared

\* The end of the solve preserves it.
LEMMA SolveEndInv ==
    ASSUME StepInv, SolveEnd
    PROVE  StepInv'
<1>1. /\ world' = world /\ grid' = grid /\ tick_sequence' = tick_sequence
      /\ stage = "solve" /\ waiting' = waiting /\ next' = resting(solver) /\ index' = rebuilt(next')
      /\ Pending(solver) = {} /\ stage' = "late" /\ solver' = NoSolver
      /\ doomed' = {solver.effects[i][2] : i \in {j \in DOMAIN solver.effects : solver.effects[j][1] = "lost"}}
  BY DEF SolveEnd, Committed
<1>2. Solving(next, solver) /\ IsWorld(next)
  BY <1>1 DEF StepInv
<1>3. /\ IsWorld(next') /\ DOMAIN next' = DOMAIN next
      /\ \A e \in DOMAIN next : next'[e].kind = "folding" => Lost(solver, e) \/ ~ OverPit(next'[e].position)
  BY <1>1, <1>2, RestingFacts
<1>4. \A e : Lost(solver, e) => e \in doomed'
  <2> SUFFICES ASSUME NEW e, NEW i \in DOMAIN solver.effects, solver.effects[i] = <<"lost", e, 0>>
               PROVE  e \in doomed'
    BY DEF Lost
  <2>1. solver.effects[i][1] = "lost" /\ solver.effects[i][2] = e
    OBVIOUS
  <2> QED BY <1>1, <2>1
<1>5. doomed' \subseteq Entities
  <2>1. solver.effects \in Seq(Effects)
    BY <1>2, SolverFields DEF Solving, SolveInv
  <2>2. \A i \in DOMAIN solver.effects : solver.effects[i][2] \in Entities
    BY <2>1 DEF Effects
  <2> QED BY <1>1, <2>2
<1>6. StepTypeOK'
  BY <1>1, <1>3, <1>5 DEF StepInv, StepTypeOK, IsWorld
<1>7. IndexIsCurrent'
  BY <1>1 DEF StepInv, IndexIsCurrent
<1>8. Spared(next', doomed')
  BY <1>3, <1>4 DEF Spared
<1> QED BY <1>1, <1>3, <1>6, <1>7, <1>8 DEF StepInv, Spared

\* A body that is not in the arena is in no index.
LEMMA PushedOut ==
    ASSUME NEW body \in Bodies, body.kind = "folding", body.position = - PlayerRadius
    PROVE  ~ fits_envelope(body)
<1>1. ~ InArena(- PlayerRadius)
  BY IndexAssumption DEF InArena
<1> QED BY <1>1 DEF fits_envelope, is_static, crosses_bounds

\* What the late systems do leaves a world; who stands over the pit after it did
\* before, and in the same place, or was pushed out of the arena.
LEMMA LateChangeFacts ==
    ASSUME NEW bodies, IsWorld(bodies), NEW change \in LateChanges(bodies)
    PROVE  /\ IsWorld(change.bodies) /\ DOMAIN change.bodies \subseteq DOMAIN bodies
           /\ \A e \in DOMAIN change.bodies :
                 /\ change.bodies[e].kind = bodies[e].kind
                 /\ \/ change.bodies[e].position = bodies[e].position
                    \/ change.bodies[e].kind = "folding" /\ change.bodies[e].position = - PlayerRadius
<1>1. CASE change = [bodies |-> bodies, doomed |-> {}]
  BY <1>1
<1>2. CASE \E e \in DOMAIN bodies : change = [bodies |-> Without(bodies, {e}), doomed |-> {}]
  <2>1. PICK e \in DOMAIN bodies : change = [bodies |-> Without(bodies, {e}), doomed |-> {}]
    BY <1>2
  <2>2. \A gone : /\ IsWorld(Without(bodies, gone)) /\ DOMAIN Without(bodies, gone) = DOMAIN bodies \ gone
                 /\ \A f \in DOMAIN bodies \ gone : Without(bodies, gone)[f] = bodies[f]
    BY WithoutIsWorld
  <2> DEFINE gone == {e}
  <2>3. change.bodies = Without(bodies, gone)
    BY <2>1
  <2> HIDE DEF gone
  <2>4. /\ IsWorld(change.bodies) /\ DOMAIN change.bodies = DOMAIN bodies \ gone
        /\ \A f \in DOMAIN bodies \ gone : change.bodies[f] = bodies[f]
    BY <2>2, <2>3
  <2> QED BY <2>4
<1>3. CASE \E e \in DOMAIN bodies : change = [bodies |-> Resized(bodies, e), doomed |-> {}]
  BY <1>3, ResizedFacts
<1>4. CASE \E e \in {f \in DOMAIN bodies : bodies[f].kind = "folding"}, gone \in SUBSET DOMAIN bodies :
              change = [bodies |-> Pushed(bodies, e), doomed |-> gone]
  <2>1. PICK e \in DOMAIN bodies, gone \in SUBSET DOMAIN bodies :
                /\ bodies[e].kind = "folding"
                /\ change = [bodies |-> Pushed(bodies, e), doomed |-> gone]
    BY <1>4
  <2> DEFINE body == [bodies[e] EXCEPT !.position = - PlayerRadius]
  <2>2. body \in Bodies /\ body.kind = bodies[e].kind /\ body.position = - PlayerRadius
    BY IndexAssumption DEF IsWorld, Bodies
  <2>3. change.bodies = With(bodies, e, body)
    BY <2>1 DEF Pushed
  <2>4. e \in Entities
    BY DEF IsWorld
  <2> HIDE DEF body
  <2>5. \A b \in Bodies : /\ IsWorld(With(bodies, e, b)) /\ DOMAIN With(bodies, e, b) = DOMAIN bodies \cup {e}
                          /\ With(bodies, e, b)[e] = b
                          /\ \A f \in DOMAIN bodies : f # e => With(bodies, e, b)[f] = bodies[f]
    BY <2>4, WithIsWorld
  <2> QED BY <2>1, <2>2, <2>3, <2>5
<1>5. \/ change = [bodies |-> bodies, doomed |-> {}]
      \/ \E e \in DOMAIN bodies : change = [bodies |-> Without(bodies, {e}), doomed |-> {}]
      \/ \E e \in DOMAIN bodies : change = [bodies |-> Resized(bodies, e), doomed |-> {}]
      \/ \E e \in {f \in DOMAIN bodies : bodies[f].kind = "folding"}, gone \in SUBSET DOMAIN bodies :
              change = [bodies |-> Pushed(bodies, e), doomed |-> gone]
  <2> DEFINE moved == UNION {{[bodies |-> Pushed(bodies, e), doomed |-> gone] : gone \in SUBSET DOMAIN bodies} :
                               e \in {f \in DOMAIN bodies : bodies[f].kind = "folding"}}
             kept == {[bodies |-> bodies, doomed |-> {}]}
             gone == {[bodies |-> Without(bodies, {e}), doomed |-> {}] : e \in DOMAIN bodies}
             sized == {[bodies |-> Resized(bodies, e), doomed |-> {}] :
                          e \in {f \in DOMAIN bodies : ~ is_static(bodies[f])}}
  <2>1. LateChanges(bodies) = kept \cup gone \cup sized \cup moved
    BY DEF LateChanges
  <2>2. CASE change \in kept
    BY <2>2
  <2>3. CASE change \in gone
    BY <2>3
  <2>4. CASE change \in sized
    BY <2>4
  <2>5. CASE change \in moved
    BY <2>5
  <2> HIDE DEF moved, kept, gone, sized
  <2> QED BY <2>1, <2>2, <2>3, <2>4, <2>5
<1> QED BY <1>1, <1>2, <1>3, <1>4, <1>5

\* The systems after the kernel and the commit preserve it.
LEMMA LateInv ==
    ASSUME StepInv, NEW change \in LateChanges(next), Late(change)
    PROVE  StepInv'
<1> DEFINE gone == (doomed \cup change.doomed) \cap DOMAIN change.bodies
           survivors == Surviving(change.bodies, gone)
           fits == Cardinality(DOMAIN survivors) <= MaxBodies /\ CanIndex(survivors)
<1>1. /\ stage = "late" /\ waiting' = waiting /\ solver' = solver /\ doomed' = {} /\ next' = survivors
      /\ ~ fits => /\ stage' = "failed" /\ world' = world /\ grid' = grid /\ tick_sequence' = tick_sequence
      /\ fits => /\ stage' = "idle" /\ world' = survivors /\ tick_sequence' = tick_sequence + 1 /\ index' = grid'
                 /\ grid' = IF gone = {} /\ still_indexes(next, survivors) THEN index ELSE rebuilt(survivors)
  BY DEF Late, Committed
<1>2. /\ IsWorld(change.bodies) /\ DOMAIN change.bodies \subseteq DOMAIN next
      /\ \A e \in DOMAIN change.bodies :
            /\ change.bodies[e].kind = next[e].kind
            /\ \/ change.bodies[e].position = next[e].position
               \/ change.bodies[e].kind = "folding" /\ change.bodies[e].position = - PlayerRadius
  BY LateChangeFacts DEF StepInv
<1>3. doomed \cap DOMAIN change.bodies \subseteq gone
  OBVIOUS
<1> HIDE DEF gone
<1>4. /\ IsWorld(survivors) /\ DOMAIN survivors = DOMAIN change.bodies \ gone
      /\ \A e \in DOMAIN survivors : survivors[e] = change.bodies[e]
  <2> DEFINE bodies == change.bodies
  <2>1. IsWorld(bodies)
    BY <1>2
  <2> HIDE DEF bodies
  <2>2. \A g : /\ IsWorld(Without(bodies, g)) /\ DOMAIN Without(bodies, g) = DOMAIN bodies \ g
              /\ \A e \in DOMAIN bodies \ g : Without(bodies, g)[e] = bodies[e]
    BY <2>1, WithoutIsWorld
  <2>3. survivors = Without(bodies, gone)
    BY DEF Surviving, bodies
  <2> HIDE DEF survivors
  <2> QED BY <2>2, <2>3 DEF bodies
<1> HIDE DEF survivors
<1>5. CanIndex(survivors) => Spared(survivors, {})
  <2> SUFFICES ASSUME CanIndex(survivors), NEW e \in DOMAIN survivors, survivors[e].kind = "folding"
               PROVE  ~ OverPit(survivors[e].position)
    BY DEF Spared
  <2>1. survivors[e] \in Bodies /\ fits_envelope(survivors[e])
    BY <1>4 DEF IsWorld, CanIndex
  <2>2. survivors[e].position # - PlayerRadius
    BY <2>1, PushedOut
  <2>3. survivors[e].position = next[e].position /\ next[e].kind = "folding" /\ e \notin doomed /\ e \in DOMAIN next
    BY <1>2, <1>3, <1>4, <2>2
  <2> QED BY <1>1, <2>3 DEF StepInv, Spared
<1>6. fits => grid' = rebuilt(world')
  BY <1>1, SameIndex DEF StepInv, IndexIsCurrent
<1>7. tick_sequence \in 0 .. MaxSteps /\ tick_sequence < MaxSteps /\ tick_sequence + 1 \in 0 .. MaxSteps
  BY <1>1, StepAssumption DEF StepInv, StepTypeOK
<1>8. waiting \cap DOMAIN survivors = {}
  BY <1>2, <1>4 DEF StepInv, StepTypeOK
<1>9. CASE fits
  <2> HIDE DEF fits
  <2>1. StepTypeOK'
    BY <1>1, <1>4, <1>7, <1>8, <1>9 DEF StepInv, StepTypeOK, IsWorld
  <2>2. IndexIsCurrent'
    BY <1>1, <1>6, <1>9 DEF IndexIsCurrent
  <2>3. Spared(world', {})
    BY <1>1, <1>5, <1>9 DEF fits
  <2> QED BY <1>1, <1>4, <1>9, <2>1, <2>2, <2>3 DEF StepInv, Spared
<1>10. CASE ~ fits
  <2> HIDE DEF fits
  <2>1. StepTypeOK'
    BY <1>1, <1>4, <1>7, <1>8, <1>10 DEF StepInv, StepTypeOK, IsWorld
  <2>2. IndexIsCurrent'
    BY <1>1, <1>10 DEF IndexIsCurrent, StepInv
  <2> QED BY <1>1, <1>4, <1>7, <1>10, <2>1, <2>2 DEF StepInv, Spared
<1> QED BY <1>9, <1>10

\* Every step preserves it.
LEMMA StepNextInv ==
    ASSUME StepInv, [Step]_step_vars
    PROVE  StepInv'
<1>1. ASSUME NEW gone \in AtMostOne(DOMAIN world \cup waiting),
             NEW arrivals \in AtMostOne(Entities \ (DOMAIN world \cup waiting)), Intake(gone, arrivals)
      PROVE  StepInv'
  <2>1. arrivals \subseteq Entities
    BY DEF AtMostOne
  <2> QED BY <1>1, <2>1, IntakeInv
<1>2. CASE Seat
  BY <1>2, SeatInv
<1>3. CASE \E bodies \in PreKernelChanges(next) : PreKernel(bodies)
  BY <1>3, PreKernelInv
<1>4. CASE \E speeds \in [DOMAIN next -> Speeds] : Accelerate(speeds)
  BY <1>4, AccelerateInv
<1>5. CASE SolveEvent
  BY <1>5, SolveEventInv
<1>6. CASE SolveEnd
  BY <1>6, SolveEndInv
<1>7. CASE \E change \in LateChanges(next) : Late(change)
  BY <1>7, LateInv
<1>8. CASE UNCHANGED step_vars
  BY <1>8 DEF step_vars, StepInv, StepTypeOK, IndexIsCurrent, Spared
<1> QED BY <1>1, <1>2, <1>3, <1>4, <1>5, <1>6, <1>7, <1>8 DEF Step

\* The invariant holds throughout.
THEOREM StepIsInductive == StepSpec => []StepInv
<1>1. StepInit => StepInv
  BY StepInitInv
<1>2. StepInv /\ [Step]_step_vars => StepInv'
  BY StepNextInv
<1> QED BY <1>1, <1>2, PTL DEF StepSpec

\* Every stage reads an index of the bodies it starts from, and the committed
\* index misses no pair of bodies that touch, for every arena, grid and world.
THEOREM IndexIsAlwaysSound == StepSpec => []IndexIsSound
<1>1. StepInv => IndexIsSound
  <2> SUFFICES ASSUME StepInv PROVE BroadPhaseIsComplete
    BY DEF StepInv, IndexIsSound
  <2>1. world \in [DOMAIN world -> Bodies] /\ grid = rebuilt(world)
    BY DEF StepInv, IsWorld, IndexIsCurrent
  <2> QED BY <2>1, TouchingArePaired DEF BroadPhaseIsComplete
<1> QED BY <1>1, StepIsInductive, PTL

\* No body that a mode drives is ever committed over the pit, however many
\* events deflected it in the tick.
THEOREM NobodyStandsOverThePit == StepSpec => []GroundedOrGone
<1>1. StepInv => GroundedOrGone
  BY DEF StepInv, Spared, GroundedOrGone
<1> QED BY <1>1, StepIsInductive, PTL

\* The events of a solve are handled in the order of their times, none before
\* the one already handled and none after the end of the tick.
SolveMovesOn == stage = "solve" /\ stage' = "solve" => solver'.now \in solver.now .. End

THEOREM EventsInOrder == StepSpec => [][SolveMovesOn]_step_vars
<1>1. StepInv /\ [Step]_step_vars => [SolveMovesOn]_step_vars
  <2> SUFFICES ASSUME StepInv, Step, stage = "solve", stage' = "solve" PROVE solver'.now \in solver.now .. End
    BY DEF SolveMovesOn
  <2>1. SolveEvent
    BY DEF Step, Intake, Seat, PreKernel, Accelerate, SolveEnd, Late
  <2>2. Pending(solver) # {} /\ solver' = refresh_triggers(handle(solver, Selected(solver)))
    BY <2>1 DEF SolveEvent
  <2>3. IsWorld(next) /\ Solving(next, solver)
    BY DEF StepInv
  <2>4. refresh_triggers(handle(solver, Selected(solver))).now \in solver.now .. End
    BY <2>2, <2>3, HandledSolving
  <2> QED BY <2>2, <2>4
<1> QED BY <1>1, StepIsInductive, PTL DEF StepSpec
============================================================================
