------------------------------ MODULE MCNimble ------------------------------
(***************************************************************************)
(* The two views of the NimBLE transport, the life of its one link         *)
(* (Transport) and the operations on it (Gatt), and beside them the OTA    *)
(* task (Ota), which shares nothing with either.  Each behaviour is one of *)
(* theirs, named by part; the others stand still.                          *)
(*                                                                         *)
(* Two release channels: the stable release moves from v1 to v2, the       *)
(* latest one holds v2 and a build that does not stay healthy.             *)
(***************************************************************************)
EXTENDS Gatt, Transport, Ota

ASSUME ResetsAssumption == Resets \in BOOLEAN
ASSUME UnitsDiffer == UnitsAssumption

VARIABLE part

TwoReleases == [c \in {"stable", "latest"} |->
                  IF c = "stable" THEN {"v1", "v2"} ELSE {"v2", "bad"}]

NimbleVars == <<part, vars, gattVars, otaVars>>

NimbleInit == part \in {"gap", "gatt", "ota"} /\ Init /\ GattInit /\ OtaInit

NimbleNext ==
    \/ part = "gatt" /\ GattNext /\ UNCHANGED <<part, vars, otaVars>>
    \/ part = "gap" /\ Next /\ UNCHANGED <<part, gattVars, otaVars>>
    \/ part = "ota" /\ OtaNext /\ UNCHANGED <<part, vars, gattVars>>

\* The fairness of Gatt, of Transport and of Ota.  Where one of the first two
\* stands still it asks for no step, nothing being queued, dropped or
\* cancelled there; a fresh Ota would, so its fairness names its part.
NimbleSpec ==
    /\ NimbleInit /\ [][NimbleNext]_NimbleVars
    /\ Fairness /\ GattFairness
    /\ WF_otaVars(part = "ota" /\ Work)
    /\ WF_otaVars(part = "ota" /\ MarkValid)
    /\ WF_otaVars(part = "ota" /\ Unhealthy)
=============================================================================
