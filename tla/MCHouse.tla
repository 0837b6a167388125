------------------------------ MODULE MCHouse -------------------------------
(***************************************************************************)
(* Two parts of the owner task that share nothing with each other: the     *)
(* cabin thermostat (Thermostat) and the water guard (Water), which looks  *)
(* at two units that only differ by name.  Each behaviour is one of        *)
(* theirs, named by part; the other stands still.                          *)
(***************************************************************************)
EXTENDS Thermostat, Water, TLC

ASSUME WaterTimes == WaterAssumption

VARIABLE part

\* An empty tank; the level of the latch itself, with the waste water moved;
\* a level to climb to.
SomeTanks == {[f |-> 0, w |-> 0], [f |-> 1, w |-> 1], [f |-> 3, w |-> 0]}

EitherUnit == Permutations(Units)

HouseVars == <<part, vars, waterVars>>

\* Where the water stands still, its first state is any one of its own.
HouseInit ==
    /\ part \in {"heat", "water"}
    /\ Init /\ WaterInit
    /\ part = "heat" => tank = CHOOSE t \in Tanks : TRUE

HouseNext ==
    \/ part = "heat" /\ Next /\ UNCHANGED <<part, waterVars>>
    \/ part = "water" /\ WaterNext /\ UNCHANGED <<part, vars>>

HouseSpec == HouseInit /\ [][HouseNext]_HouseVars
=============================================================================
