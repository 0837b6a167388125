------------------------------ MODULE Pairing -------------------------------
(***************************************************************************)
(* The pairing flow: the state machine (pairing_sm.c), the runner that     *)
(* feeds it transport events and runs its actions (runner.c), and the      *)
(* hand-over of the one link to and from the session (console.c on_state), *)
(* on top of the transport of module Transport.                            *)
(*                                                                         *)
(* Everything runs on one task.  A feed() that is not nested drains the    *)
(* queue before it returns, so between two environment steps the runner    *)
(* takes its small steps in a fixed order: the event a transport call just *)
(* reported is routed, then the running step's actions, then the state     *)
(* callback, then the next queued event, then the rest of gap_cb().        *)
(***************************************************************************)
EXTENDS Transport

CONSTANTS
    MaxAttempts,   \* PAIR_MAX_ATTEMPTS
    Patience,      \* PAIR_TIMEOUT_S of every state of a flow, in ticks
    QueueLength    \* QLEN

ASSUME PairingAssumption ==
    MaxAttempts \in Nat \ {0} /\ Patience \in Nat \ {0} /\ QueueLength \in Nat \ {0}

VARIABLES
    st, attempts, error,           \* s_ps
    left,                          \* ticks until the state's timeout
    q,                             \* s_q: events of the state machine not stepped yet
    acts,                          \* actions of the running step not run yet
    changed,                       \* the running step changed the state: on_state() follows
    sess,                          \* the session: "off", or its link "down", "connecting", "up"
    verified                       \* history: the unit verified in this flow

machine == <<st, attempts, error, left>>
pairVars == <<vars, machine, q, acts, changed, sess, verified>>

\* The outcomes of t_disconnect().
Dropped(t) == {Disconnect(t, ended) : ended \in BOOLEAN}

-----------------------------------------------------------------------------
Flow == {"scanning", "connecting", "waiting_passkey", "pairing", "verifying", "resetting"}
States == Flow \cup {"idle", "bonded", "error"}

\* The states in which the machine has a transition for an event.
Accepts == [
    cancel |-> States, timeout |-> Flow, reset |-> {"bonded", "error", "idle"},
    start |-> {"idle", "error"}, found |-> {"scanning"}, connected |-> {"connecting"},
    passkey_requested |-> {"pairing"}, passkey_entered |-> {"waiting_passkey"},
    pair_ok |-> {"pairing"}, pair_fail |-> {"pairing"}, connect_fail |-> {"connecting"},
    verify_ok |-> {"verifying"}, verify_fail |-> {"verifying"}, reset_done |-> {"resetting"}]

\* cleanup().
Cleanup ==
    IF st = "scanning" THEN <<"stop_scan">>
    ELSE IF st \in {"connecting", "waiting_passkey", "pairing", "verifying"} THEN <<"disconnect">>
    ELSE <<>>

PairInit ==
    /\ Init
    /\ st = "idle" /\ attempts = 0 /\ error = "none" /\ left = 0
    /\ q = <<>> /\ acts = <<>> /\ changed = FALSE
    /\ sess = "off" /\ verified = None

Feed(e) == IF Len(q) < QueueLength THEN Append(q, e) ELSE q

-----------------------------------------------------------------------------
(* sink(): the event a transport step reported.                            *)

Routing == out # "none"

\* map_event(): the machine's event for a transport event.  The read of the auth
\* characteristic, where it succeeds or fails, is an event of its own here.
MapEvent(e) ==
    CASE e = "FOUND" -> "found"
      [] e = "CONNECTED" -> "connected"
      [] e = "CONNECT_FAIL" -> "connect_fail"
      [] e = "PASSKEY_REQ" -> "passkey_requested"
      [] e = "ENC_OK" -> "pair_ok"
      [] e = "ENC_FAIL" -> "pair_fail"
      [] e = "DISCONNECTED" /\ st = "connecting" -> "connect_fail"
      [] e = "DISCONNECTED" /\ st \in {"waiting_passkey", "pairing"} -> "pair_fail"
      [] e = "DISCONNECTED" /\ st = "verifying" -> "verify_fail"
      [] OTHER -> "none"

Consumed == st \in Flow /\ MapEvent(out) # "none"

RouteToMachine ==
    /\ Routing /\ Consumed
    /\ out' = "none" /\ q' = Feed(MapEvent(out))
    /\ UNCHANGED <<g, bonds, keys, resume, machine, acts, changed, sess, verified>>

RouteVerify ==
    /\ Routing /\ out = "READ" /\ st = "verifying"
    /\ out' = "none"
    /\ \/ q' = Feed("verify_ok") /\ verified' = g.peer
       \/ q' = Feed("verify_fail") /\ UNCHANGED verified
    /\ UNCHANGED <<g, bonds, keys, resume, machine, acts, changed, sess>>

\* cali_runner_on_other(): the session's on_event().
RouteToSession ==
    /\ Routing /\ ~Consumed /\ ~(out = "READ" /\ st = "verifying")
    /\ out' = "none"
    /\ \/ /\ out = "CONNECTED" /\ sess = "connecting" /\ sess' = "up" /\ UNCHANGED g
       \/ /\ out \in {"CONNECT_FAIL", "ENC_FAIL", "DISCONNECTED"} /\ sess \in {"connecting", "up"}
          /\ sess' = "down"
          /\ g' \in Dropped(g)
       \/ /\ ~(out = "CONNECTED" /\ sess = "connecting")
          /\ ~(out \in {"CONNECT_FAIL", "ENC_FAIL", "DISCONNECTED"} /\ sess \in {"connecting", "up"})
          /\ UNCHANGED <<g, sess>>
    /\ UNCHANGED <<bonds, keys, resume, machine, q, acts, changed, verified>>

-----------------------------------------------------------------------------
(* run_action().                                                           *)

Running(a) == ~Routing /\ acts # <<>> /\ Head(acts) = a /\ acts' = Tail(acts)
              /\ UNCHANGED <<resume, keys, machine, changed, sess, verified>>

RunStartScan ==
    /\ Running("start_scan")
    /\ \E ok \in BOOLEAN : g' = StartScan(g, ok)
    /\ UNCHANGED <<bonds, out, q>>

RunStopScan == Running("stop_scan") /\ g' = StopScan(g) /\ UNCHANGED <<bonds, out, q>>

RunConnect ==
    /\ Running("connect")
    /\ \E ok \in BOOLEAN :
        /\ g' = IF g.found = None THEN g ELSE ConnectTo(g, g.found, FALSE, ok)
        /\ q' = IF g'.connecting /\ ~g.connecting THEN q ELSE Feed("connect_fail")
    /\ UNCHANGED <<bonds, out>>

RunPair ==
    /\ Running("pair")
    /\ \E ok \in BOOLEAN :
        /\ ok => g.conn /\ g.sec = "none"
        /\ g' = IF ok THEN Pair(g, Bonded(g.peer))
                ELSE IF g.conn THEN [g EXCEPT !.probing = FALSE] ELSE g
        /\ q' = IF ok THEN q ELSE Feed("pair_fail")
    /\ UNCHANGED <<bonds, out>>

RunSendPasskey ==
    /\ Running("send_passkey")
    /\ LET ok == g.conn /\ g.sec = "asked"
       IN  /\ g' = IF ok THEN [g EXCEPT !.sec = "typed"] ELSE g
           /\ q' = IF ok THEN q ELSE Feed("pair_fail")
    /\ UNCHANGED <<bonds, out>>

\* The read is queued, or refused, or accepted and failed inside the call.
RunVerify ==
    /\ Running("verify")
    /\ \/ g.conn /\ g' = [g EXCEPT !.reading = TRUE] /\ UNCHANGED <<q, out>>
       \/ q' = Feed("verify_fail") /\ UNCHANGED <<g, out>>
    /\ UNCHANGED bonds

RunPersistBond ==
    /\ Running("persist_bond")
    /\ bonds' = IF ~g.conn THEN bonds ELSE IF Bonded(g.peer) THEN <<g.peer>> ELSE <<>>
    /\ UNCHANGED <<g, out, q>>

RunDisconnect ==
    /\ Running("disconnect")
    /\ g' \in Dropped(g)
    /\ UNCHANGED <<bonds, out, q>>

RunRemoveBond ==
    /\ Running("remove_bond")
    /\ g' \in Dropped(g)
    /\ bonds' \in {<<>>, bonds}
    /\ q' = IF bonds' = <<>> THEN Feed("reset_done") ELSE q
    /\ UNCHANGED out

RunAction == RunStartScan \/ RunStopScan \/ RunConnect \/ RunPair \/ RunSendPasskey
             \/ RunVerify \/ RunPersistBond \/ RunDisconnect \/ RunRemoveBond

-----------------------------------------------------------------------------
\* Only the end of a flow touches the session.
RejectedOnState ==
    /\ ~Routing /\ acts = <<>> /\ changed /\ changed' = FALSE
    /\ IF st = "bonded" THEN sess' = "up" /\ UNCHANGED g
       ELSE IF st \in Flow THEN UNCHANGED <<g, sess>>
       ELSE sess' = "off" /\ g' \in IF sess \in {"connecting", "up"} THEN Dropped(g) ELSE {g}
    /\ UNCHANGED <<bonds, keys, out, resume, machine, q, acts, verified>>

\* on_state(): the session gets the link of a verified bond; any other state of
\* the machine stops it, and the end of a flow lets it boot again.
OnState ==
    /\ ~Routing /\ acts = <<>> /\ changed /\ changed' = FALSE
    /\ IF st = "bonded" THEN sess' = "up" /\ UNCHANGED g
       ELSE \E ok, on \in BOOLEAN, a \in IF sess \in {"connecting", "up"} THEN Dropped(g) ELSE {g} :
            LET boots == st \in {"idle", "error"} /\ bonds # <<>>
                b == IF boots /\ on THEN ConnectTo(a, Head(bonds), TRUE, ok) ELSE a
            IN  /\ g' = b
                /\ sess' = IF ~boots THEN "off"
                           ELSE IF b.connecting /\ ~a.connecting THEN "connecting" ELSE "down"
    /\ UNCHANGED <<bonds, keys, out, resume, machine, q, acts, verified>>

-----------------------------------------------------------------------------
(* cali_pair_step().                                                       *)

Stepping == ~Routing /\ acts = <<>> /\ ~changed /\ q # <<>>

Step(e, to, att, err, list) ==
    /\ Stepping /\ Head(q) = e /\ st \in Accepts[e] /\ q' = Tail(q)
    /\ st' = to /\ attempts' = att /\ error' = err
    /\ changed' = (<<st', attempts', error'>> # <<st, attempts, error>>)
    /\ left' = IF changed' /\ to \in Flow THEN Patience ELSE IF changed' THEN 0 ELSE left
    /\ acts' = list
    /\ verified' = IF to = "bonded" THEN verified ELSE None
    /\ UNCHANGED <<vars, sess>>

StepCancel == Step("cancel", "idle", 0, "none", Cleanup)
StepTimeout == Step("timeout", "error", attempts, "timeout", Cleanup)
StepReset == Step("reset", "resetting", 0, "none", <<"remove_bond">>)
StepStart == Step("start", "scanning", 0, "none", <<"start_scan">>)
StepFound == Step("found", "connecting", attempts, "none", <<"stop_scan", "connect">>)
StepConnected == Step("connected", "pairing", attempts, "none", <<"pair">>)
StepAsked == Step("passkey_requested", "waiting_passkey", attempts, "none", <<>>)
StepEntered == Step("passkey_entered", "pairing", attempts, "none", <<"send_passkey">>)
StepPaired == Step("pair_ok", "verifying", attempts, "none", <<"verify">>)
StepVerified == Step("verify_ok", "bonded", attempts, "none", <<"persist_bond">>)
StepUnverified == Step("verify_fail", "error", attempts, "verify", <<"disconnect">>)
StepResetDone == Step("reset_done", "idle", 0, "none", <<>>)

\* A failed pairing or connect is tried again from the scan, a bounded number of times.
StepFailed ==
    \E e \in {"pair_fail", "connect_fail"} :
        IF attempts + 1 < MaxAttempts
        THEN Step(e, "scanning", attempts + 1, "none", <<"disconnect", "start_scan">>)
        ELSE Step(e, "error", attempts + 1, e, <<"disconnect">>)

StepIgnored ==
    /\ Stepping /\ st \notin Accepts[Head(q)] /\ q' = Tail(q)
    /\ UNCHANGED <<vars, machine, acts, changed, sess, verified>>

PairStep == StepCancel \/ StepTimeout \/ StepReset \/ StepStart \/ StepFound \/ StepConnected
            \/ StepAsked \/ StepEntered \/ StepPaired \/ StepVerified \/ StepUnverified
            \/ StepResetDone \/ StepFailed \/ StepIgnored

-----------------------------------------------------------------------------
(* The environment: only while the runner does nothing.                    *)

Drained == ~Routing /\ acts = <<>> /\ ~changed /\ q = <<>>
Quiet == Drained /\ ~resume

\* What is left of gap_cb() after its emit(CONNECTED) and all that it caused.
Resume ==
    /\ Drained /\ EncryptOnConnect
    /\ UNCHANGED <<machine, q, acts, changed, sess, verified>>

Host ==
    /\ Quiet
    /\ \/ Advert \/ WindowEnds \/ LinkMade \/ ConnectFails \/ LinkDrops
       \/ TermFailure \/ PasskeyAction \/ Encrypted \/ ProbeRefused \/ EncFails
       \/ RepeatPairing \/ ReadDone \/ UnitForgets
    /\ UNCHANGED <<machine, q, acts, changed, sess, verified>>

\* The console or the web page.
Command ==
    /\ Quiet
    /\ \/ \E e \in {"start", "cancel", "reset"} : q' = Feed(e)
       \/ st = "waiting_passkey" /\ q' = Feed("passkey_entered")
    /\ UNCHANGED <<vars, machine, acts, changed, sess, verified>>

\* The owner may take their time with the passkey.
RejectedTick ==
    /\ Quiet /\ st \in Flow
    /\ left' = IF left = 0 \/ st = "waiting_passkey" THEN left ELSE left - 1
    /\ q' = IF left' = 0 THEN Feed("timeout") ELSE q
    /\ UNCHANGED <<vars, st, attempts, error, acts, changed, sess, verified>>

\* cali_runner_tick().
Tick ==
    /\ Quiet /\ st \in Flow
    /\ left' = IF left = 0 THEN 0 ELSE left - 1
    /\ q' = IF left' = 0 THEN Feed("timeout") ELSE q
    /\ UNCHANGED <<vars, st, attempts, error, acts, changed, sess, verified>>

\* The session, when it runs: a reconnect that is due, or a link it gives up.
SessionConnects ==
    /\ Quiet /\ sess = "down" /\ bonds # <<>>
    /\ \E ok \in BOOLEAN : g' = ConnectTo(g, Head(bonds), TRUE, ok)
    /\ sess' = IF g'.connecting /\ ~g.connecting THEN "connecting" ELSE "down"
    /\ UNCHANGED <<bonds, keys, out, resume, machine, q, acts, changed, verified>>

SessionDrops ==
    /\ Quiet /\ sess \in {"connecting", "up"} /\ sess' = "down"
    /\ g' \in Dropped(g)
    /\ UNCHANGED <<bonds, keys, out, resume, machine, q, acts, changed, verified>>

\* cali_sensors_tick(): a scan window, never during a flow.
SensorWindow ==
    /\ Quiet /\ st \notin Flow
    /\ \E ok \in BOOLEAN : g' = ScanWindow(g, ok)
    /\ UNCHANGED <<bonds, keys, out, resume, machine, q, acts, changed, sess, verified>>

Runner == RouteToMachine \/ RouteVerify \/ RouteToSession \/ RunAction \/ OnState
          \/ PairStep \/ Resume

PairNext == Runner \/ Host \/ Command \/ Tick \/ SessionConnects \/ SessionDrops \/ SensorWindow

PairSpec == PairInit /\ [][PairNext]_pairVars
-----------------------------------------------------------------------------
Events == DOMAIN Accepts
Actions == {"start_scan", "stop_scan", "connect", "pair", "send_passkey", "verify",
            "persist_bond", "disconnect", "remove_bond"}

\* Type correctness; the attempts never pass PAIR_MAX_ATTEMPTS.
PairTypes ==
    /\ TypeOK
    /\ st \in States /\ attempts \in 0..MaxAttempts /\ left \in 0..Patience
    /\ error \in {"none", "timeout", "pair_fail", "connect_fail", "verify"}
    /\ q \in Seq(Events) /\ Len(q) <= QueueLength /\ acts \in Seq(Actions)
    /\ changed \in BOOLEAN /\ sess \in {"off", "down", "connecting", "up"}
    /\ verified \in Units \cup {None}

\* Outside a flow the radio belongs to the session: no scan of the flow is left
\* running or waiting, a link or a connect is one the session has, and the session
\* has no link or connect that is not there (cleanup, on_state, t_disconnect).
RadioReturned ==
    Quiet /\ st \notin Flow =>
        /\ ~g.scanning /\ ~g.scanDeferred
        /\ g.conn <=> sess = "up"
        /\ g.connecting <=> sess = "connecting"

\* In a flow the session is stopped and a link or a connect is the flow's own
\* (on_state, t_start_scan).
RadioTaken ==
    Quiet /\ st \in Flow =>
        /\ sess = "off"
        /\ g.connecting => st = "connecting"
        /\ g.conn => st \in {"pairing", "waiting_passkey", "verifying"}

\* A flow never waits for an answer that cannot come before its timeout: a connect
\* runs, a link is there to pair on, the read is queued (run_action, feed).
FlowHasCause ==
    Quiet =>
        /\ st = "connecting" => g.connecting
        /\ st = "pairing" => g.conn
        /\ st = "verifying" => g.conn /\ g.reading

\* The radio has one owner at a time: the session outside a flow, the flow inside it,
\* and the flow has what it waits for.
RadioOwned == RadioReturned /\ RadioTaken /\ FlowHasCause

\* Once bonded, no bond is stored but the one of the unit that was verified, until
\* the next flow (keep_only_bond, issue 255); it may only be lost again when that
\* unit has forgotten us.
OneUnit ==
    st = "bonded" /\ Quiet =>
        \/ bonds = <<verified>>
        \/ bonds = <<>> /\ verified \notin keys

\* What a pairing flow leaves and holds: one owner of the radio, one bond (runner.c,
\* console.c on_state).
FlowIsClean == RadioOwned /\ OneUnit

\* No event ever waits behind another: whatever a step's actions report inside the
\* transport's calls, the queue of runner.c cannot overflow and drop one (feed).
QueueFits == Len(q) <= 1

\* The task finishes what it is at; a tick that is due is not passed over for ever.
PairFairness == WF_pairVars(Runner) /\ SF_pairVars(Tick)

PairFairSpec == PairSpec /\ PairFairness

\* Every flow ends, whatever the units and the controller do (tick, attempts).
FlowEnds == st \in Flow ~> st \notin Flow
=============================================================================
