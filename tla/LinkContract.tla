---------------------------- MODULE LinkContract ----------------------------
(***************************************************************************)
(* What cali_transport.h promises of the one link: a connect gets at most  *)
(* one verdict, a verdict and a loss are only reported while the caller    *)
(* still wants the connect or the link, and security events only on a link *)
(* that is up.                                                             *)
(***************************************************************************)
VARIABLES
    phase,   \* the link as the caller may assume it: "idle", "connecting", "up"
    out      \* the event the last step reported, "none" if it reported none

contractVars == <<phase, out>>

OnLink == {"PASSKEY_REQ", "ENC_OK", "ENC_FAIL", "READ"}

Init == phase = "idle" /\ out = "none"

Connect == phase = "idle" /\ phase' = "connecting" /\ out' = "none"

\* disconnect(), a scan that takes the radio, or a host reset: nothing is reported.
Drop == phase' = "idle" /\ out' = "none"

Connected == phase = "connecting" /\ phase' = "up" /\ out' = "CONNECTED"

ConnectFail == phase = "connecting" /\ phase' = "idle" /\ out' = "CONNECT_FAIL"

Disconnected == phase = "up" /\ phase' = "idle" /\ out' = "DISCONNECTED"

Report ==
    /\ phase' = phase
    /\ out' \in {"none", "FOUND"} \/ (phase = "up" /\ out' \in OnLink)

Next == Connect \/ Drop \/ Connected \/ ConnectFail \/ Disconnected \/ Report

Spec == Init /\ [][Next]_contractVars
=============================================================================
