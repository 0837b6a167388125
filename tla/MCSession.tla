----------------------------- MODULE MCSession -----------------------------
(* Small instances of Session for TLC. *)
EXTENDS Session

CONSTANTS u1

MCOrder2 == <<"energy", "campingmode">>
MCOrderB == <<"campingmode">>
MCValues == [c \in {"campingmode", "energy", "vehicle"} |->
    CASE c = "campingmode" -> {"off", "on"} [] c = "energy" -> {"off"} [] c = "vehicle" -> {"on"}]
MCLiveValues == [c \in {"campingmode", "energy", "vehicle"} |-> IF c = "vehicle" THEN {"on"} ELSE {"off"}]
=============================================================================
