---------------------------- MODULE MCOwnerTick -----------------------------
(***************************************************************************)
(* Four parts that run on the owner task, the BLE host's, and share        *)
(* nothing with each other: the control sequencer (ControlRun), the WiFi   *)
(* machine (Wifi), the Pi's wake and halt lines (PiWake) and the bond      *)
(* store (BondStore).  Each behaviour is one of theirs, named by part; the *)
(* others stand still.                                                     *)
(***************************************************************************)
EXTENDS ControlRun, PiWake, BondStore, Wifi

VARIABLE part

ASSUME PiTimes == PiAssumption

\* One frame; a frame and its commit; preface, commit, frame, commit.
MCPlans == {<<0>>, <<0, FollowDelay>>, <<0, FollowDelay, 0, FollowDelay>>}

OwnerVars == <<part, vars, wifiVars, piVars, bondVars>>

OwnerInit ==
    /\ part \in {"control", "wifi", "pi", "bonds"}
    /\ Init /\ WifiInit /\ PiInit /\ BondInit

OwnerNext ==
    \/ part = "control" /\ Next /\ UNCHANGED <<part, wifiVars, piVars, bondVars>>
    \/ part = "wifi" /\ WifiNext /\ UNCHANGED <<part, vars, piVars, bondVars>>
    \/ part = "pi" /\ PiNext /\ UNCHANGED <<part, vars, wifiVars, bondVars>>
    \/ part = "bonds" /\ BondNext /\ UNCHANGED <<part, vars, wifiVars, piVars>>

\* The fairness of ControlRun, of Wifi and of PiWake, each for its own
\* behaviours.
OwnerFairness ==
    /\ WF_vars(part = "control" /\ Tick)
    /\ WF_vars(part = "control" /\ wire # <<>> /\ ((\E ok \in BOOLEAN : Written(ok)) \/ LinkDies))
    /\ WF_vars(part = "control" /\ link = "dying" /\ LinkLost)
    /\ WF_wifiVars(part = "wifi" /\ \E s \in Starts : Boot(s))
    /\ SF_wifiVars(part = "wifi" /\ \E s \in Starts : WifiTick([retry |-> TRUE, ap |-> TRUE], s))
    /\ WF_wifiVars(part = "wifi" /\ (Store \/ StoreFails))
    /\ WF_wifiVars(part = "wifi" /\ \E s \in Starts : TakeCreds(s))
    /\ SF_wifiVars(part = "wifi" /\ (GotIp \/ JoinFails))
    /\ WF_piVars(part = "pi" /\ PiTick)

OwnerSpec == OwnerInit /\ [][OwnerNext]_OwnerVars /\ OwnerFairness

\* The board can be reached again, whatever is cut off or fails (wifi.c,
\* wifi_run.c): Wifi's Reachable.
WifiReached == part = "wifi" => Reachable

\* A parked van's Pi gets halted (pi_wake.c tick): PiWake's ParkedPiHalts.
ParkedHalts == part = "pi" => ParkedPiHalts
=============================================================================
