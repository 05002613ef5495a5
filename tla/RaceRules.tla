----------------------------- MODULE RaceRules -----------------------------
(***************************************************************************)
(* The race (src/src/gameplay/race): ordered gates, standings, and the two *)
(* ways back onto the course.  A gate event carries the time inside the    *)
(* tick at which the gate was crossed; only that of a finish matters.      *)
(***************************************************************************)
EXTENDS Integers, FiniteSets, Sequences, SequencesExt

CONSTANTS
    Gates,              \* checkpoints of the course; the last is the finish
    FinishWindow        \* finish_window_ticks

ASSUME RaceAssumption == Gates \in Nat \ {0} /\ FinishWindow \in Nat

NoProgress == -1        \* no RaceProgress component
HasFinished(player) == player.progress = Gates

\* OrderedCheckpointTrigger::bind: the gate this body may cross next.
Racing(player) == player.body /\ ~ HasFinished(player)
Cursor(player) == IF player.progress = NoProgress THEN 0 ELSE player.progress

\* checkpoint_progress: whoever is on the field has progress, and every event
\* of this tick advances its racer by one gate, whatever became of its body.
checkpoint_progress(player, crossed) ==
    IF player.body THEN [player EXCEPT !.progress = Cursor(player) + crossed] ELSE player

Standing(entity, placement, tick, offset) ==
    [entity |-> entity, placement |-> placement, tick |-> tick, offset |-> offset]

Finished(standings) == {s.entity : s \in ToSet(standings)}

\* Mutant of FinishesBefore: finishers of one tick are taken by entity.
FinishesBeforeById(p, q, offset) == p < q

\* The finishers of one tick by the time of their finish, then by entity.
FinishesBefore(p, q, offset) == offset[p] < offset[q] \/ (offset[p] = offset[q] /\ p < q)

LastFinisher(finishers, offset) ==
    CHOOSE p \in finishers : \A q \in finishers \ {p} : FinishesBefore(q, p, offset)

\* Only finishes of the same tick and the same time inside it are tied.
Placed(standings, entity, tick, offset) ==
    LET last == standings[Len(standings)]
        tied == standings # <<>> /\ last.tick = tick /\ last.offset = offset
    IN Append(standings,
              Standing(entity, IF tied THEN last.placement ELSE Len(standings) + 1, tick, offset))

\* standings_recorder.
standings_recorder(standings, finishers, offset, tick) ==
    LET new == finishers \ Finished(standings)
        list[S \in SUBSET new] ==
            IF S = {} THEN standings
            ELSE LET last == LastFinisher(S, offset)
                 IN Placed(list[S \ {last}], last, tick, offset[last])
    IN list[new]

\* GridSpawnPolicy: the grid takes a racer that has not passed a gate back
\* into a running race, and nobody new.
grid_admits(player, phase) == phase # "ended" /\ (phase = "running" => player.progress = 0)

\* checkpoint_respawn: a bodyless racer whose time is up returns to its gate.
returns_to_gate(player) == player.progress > 0 /\ ~ player.body /\ player.timer = 0

\* RaceObjective::outcome: all in, or the window after the first finish over:
\* first place decides.  Nobody in by the time limit: the furthest decides.
race_outcome(participants, standings, progress, elapsed, time_limit) ==
    CASE participants = {} -> {{}}
      [] participants # {} /\ standings # <<>>
            /\ (participants \subseteq Finished(standings) \/ elapsed - standings[1].tick >= FinishWindow) ->
            {{s.entity : s \in {t \in ToSet(standings) : t.placement = 1}}}
      [] participants # {} /\ standings = <<>> /\ elapsed >= time_limit ->
            {{p \in participants : \A q \in participants : progress[q] <= progress[p]}}
      [] OTHER -> {}
====
