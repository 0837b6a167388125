------------------------------ MODULE MCDaemon ------------------------------
(***************************************************************************)
(* Three instances of the daemon, named by part: "radio" with its poll     *)
(* loop, commands and pairing flows; "page" with the roof page and one     *)
(* press; "presses" with the roof page and several, where the web UI stays *)
(* in use, the unit as awake as it was and no write fails.                 *)
(***************************************************************************)
EXTENDS Roof

VARIABLE part

Lone == CHOOSE p \in Presses : TRUE

MCInit == RoofInit /\ part \in {"radio", "page", "presses"}

MCNext ==
    /\ RoofNext /\ UNCHANGED part
    /\ part = "radio" => UNCHANGED roofVars
    /\ part # "radio" => UNCHANGED <<poll, cmd, pairVars>>
    /\ part = "page" => \A p \in Presses \ {Lone} : press'[p] = "no" /\ p \notin freed'
    /\ part = "presses" => ui' = "active" /\ UNCHANGED <<reach, faults>>

\* What a part leaves out never asks for a step.
MCSpec == MCInit /\ [][MCNext]_<<vars, part>> /\ RoofFairness
=============================================================================
