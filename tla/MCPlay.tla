------------------------------ MODULE MCPlay ------------------------------
(***************************************************************************)
(* What happens on the field, in three parts that share no state: the      *)
(* modes with a clock (Modes), abilities, statuses and hazards (Combat),   *)
(* and a hosted bot with the body it drives (Bots).  A behaviour is of one *)
(* part; the others stay as they began.                                    *)
(***************************************************************************)
EXTENDS Modes, Combat, Bots

VARIABLE part

playVars == <<part, vars, combatVars, botVars>>

\* The markers of a tour, in map order.
MCMarkers == <<1, 3>>

\* A pugnacious bot: it likes shoving as much as its objective.
MCProfile == [seek |-> 3, reaction |-> 1, persistence |-> 2, weights |-> <<3, 3, 4, 4, 4>>,
              risk |-> 2, horizon |-> 2, screen |-> 4, anticipation |-> 1, caution |-> 2, brake |-> 2,
              exposure_preference |-> 2, minimum_opening |-> 16]

Opponent(at, velocity, stunned) ==
    [id |-> 1, at |-> at, velocity |-> velocity, stunned |-> stunned, open |-> IF stunned THEN {"shield"} ELSE {}]

MCScene(schema, self, target, opponents) ==
    [schema |-> schema, self |-> self, velocity |-> 0, sideways |-> 0, top_speed |-> 1,
     place |-> target, radius |-> 1, drift |-> 0, lethal |-> {}, progress |-> 0, astray |-> 0,
     opponents |-> opponents, shield |-> "free", charge |-> "free"]

Surroundings == {{}, {Opponent(2, 0, FALSE)}, {Opponent(2, 0, TRUE)}, {Opponent(6, -1, TRUE)}}

MCScenes ==
    {MCScene("hill", self, target, opponents) : self \in {1, 5}, target \in {1, 6}, opponents \in Surroundings}
    \cup {[MCScene("race", 5, 8, {}) EXCEPT !.progress = p, !.astray = a] : p \in -1 .. 1, a \in {0, 3}}
    \cup {[MCScene("royale", 6, 7, {Opponent(7, -1, FALSE)}) EXCEPT !.shield = s, !.charge = c] :
            s \in {"free", "active", "cooling"}, c \in {"free", "cooling"}}

OneMode == CHOOSE m \in ModesChecked : TRUE
OneKind == CHOOSE k \in BotKinds : TRUE

PlayInit ==
    /\ part \in {"modes", "combat", "bots"}
    /\ Init /\ CombatInit /\ BotsInit
    /\ part # "modes" => mode = OneMode
    /\ part # "bots" => kind = OneKind

PlayNext ==
    \/ part = "modes" /\ Next /\ UNCHANGED <<part, combatVars, botVars>>
    \/ part = "combat" /\ CombatNext /\ UNCHANGED <<part, vars, botVars>>
    \/ part = "bots" /\ BotsNext /\ UNCHANGED <<part, vars, combatVars>>

\* The worker keeps ticking (SimulationRuntime).
PlaySpec == PlayInit /\ [][PlayNext]_playVars /\ WF_vars(part = "modes" /\ Next)
===========================================================================
