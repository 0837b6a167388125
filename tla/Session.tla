------------------------------ MODULE Session ------------------------------
(***************************************************************************)
(* The satellite's bonded session (firmware/components/cali_core/         *)
(* session.c): the one BLE link to the camper unit, its reconnects, the    *)
(* read pass, the BLE modes (hold, quiet, off), probes, the power-save     *)
(* rest and the viewer's redial.                                           *)
(*                                                                         *)
(* session.c's statics are the fields of the record s; each operator below *)
(* that takes a session t and returns one is the C function of the same    *)
(* name, composed as the C code calls them, and each action is one whole   *)
(* handler.  Everything runs on one task, so handlers are atomic.  A       *)
(* tick's first two lines (s_now and cali_ctl_tick) are the action Clock,  *)
(* the rest of it the Tick actions; ticking = TRUE keeps every other       *)
(* handler out in between, so the two are one step of the program.         *)
(*                                                                         *)
(* Time is counted in ticks.  A stamp s_x_at is held as the time left to   *)
(* it, or since it, saturating at the only threshold the code compares it  *)
(* with.                                                                   *)
(***************************************************************************)
EXTENDS Integers, Sequences

CONSTANTS
    BackoffMin, BackoffMax,     \* CALI_SESSION_BACKOFF_MIN_MS / _MAX_MS
    Cooldown,                   \* CALI_SESSION_UNIT_COOLDOWN_MS
    StableTime,                 \* CALI_SESSION_STABLE_MS
    ConnectTimeout, EncTimeout, \* CALI_SESSION_CONNECT_TIMEOUT_MS / ENC_TIMEOUT_MS
    ArmDelay,                   \* CODEC_ARM_DELAY_MS
    RestPolls,                  \* the rest poll intervals a user may set; 0 = no poll
    ViewerTime, InputTime,      \* CALI_SESSION_VIEWER_MS / INPUT_IDLE_MS
    Order,                      \* the read pass: characteristics in read order
    Values,                     \* what a function's field can say ("unknown" = not in the frame)
    Units, NoUnit,              \* identities a bond can have; no bond
    Modes,                      \* the BLE modes users and policies switch between
    Holds,                      \* whether the thermostat may hold the session
    Resyncs                     \* whether the controller may reset under the session

ASSUME TimesAssumption ==
    /\ {BackoffMin, ConnectTimeout, EncTimeout, StableTime, ArmDelay} \subseteq Nat \ {0}
    /\ BackoffMax \in Nat /\ BackoffMin <= BackoffMax
    /\ {Cooldown, ViewerTime, InputTime} \subseteq Nat
    /\ RestPolls \subseteq Nat /\ RestPolls # {}

ASSUME SetsAssumption ==
    /\ Modes \subseteq {"hold", "quiet", "off"}
    /\ Values \in [{"campingmode", "energy", "vehicle"} -> SUBSET {"unknown", "off", "on"}]
    /\ Holds \in BOOLEAN /\ Resyncs \in BOOLEAN
    /\ NoUnit \notin Units

\* The functions whose values the session itself looks at.
Tracked == {"campingmode", "energy", "vehicle"}

ASSUME OrderAssumption == Order \in Seq(Tracked \cup {"water", "airheater"})

VARIABLES
    s,          \* session.c's statics
    bonded,     \* has_bond() / identity(): the unit the stored bond is for, or NoUnit
    busy,       \* cali_ctl_busy(): a command runs or a write awaits its ACK
    flow,       \* a pairing flow runs (console.c on_state keeps the session stopped)
    wire,       \* GATT requests accepted by the transport and not answered yet
    beats,      \* heartbeats written in consecutive ticks of this link, up to ArmDelay
    ticking     \* TRUE between a tick's Clock and the rest of it

vars == <<s, bonded, busy, flow, wire, beats, ticking>>

-----------------------------------------------------------------------------
Larger(a, b) == IF a > b THEN a ELSE b
Smaller(a, b) == IF a < b THEN a ELSE b
MaxAge == Larger(StableTime, Larger(ConnectTimeout, EncTimeout))
MaxDelay == Larger(BackoffMax, Cooldown)

Session == [
    active : BOOLEAN,                  \* s_active
    link : {"down", "connecting", "connected", "up"},
    mode : {"hold", "quiet", "off"},
    age : 0..MaxAge,                   \* since s_connect_started / s_connected_at / s_up_at
    hbAge : 0..ArmDelay,               \* since s_hb_since
    pending : BOOLEAN,                 \* s_reconnect_pending
    reconnectIn : 0..MaxDelay,         \* until s_reconnect_at
    backoff : BackoffMin..BackoffMax,
    sinceDown : 0..Cooldown,           \* since s_down_at; Cooldown = long ago or never up
    warming : BOOLEAN,
    reading : 0..Len(Order),           \* s_reading and s_read_idx
    snapped : BOOLEAN,
    rereading : BOOLEAN,               \* the periodic water read is out
    heaterReading : BOOLEAN,
    variantPending : BOOLEAN,
    vehiclePre : BOOLEAN,
    probe : BOOLEAN,
    rest : BOOLEAN,
    restLeft : BOOLEAN,
    restPoll : RestPolls,
    restIn : Nat,                      \* until s_rest_next
    redial : BOOLEAN,
    hold : BOOLEAN,
    viewerLeft : 0..ViewerTime,        \* the viewer's stamp still counts this long
    inputLeft : 0..InputTime,
    unit : Units \cup {NoUnit},        \* s_unit
    frame : [Tracked -> {"unknown", "off", "on"}],  \* stored_field()'s view of s_fr
    live : SUBSET {"campingmode", "energy"}]   \* s_fr[].live

JustNow == 0     \* a stamp taken at this tick: nothing has passed since it
NoPass == 0      \* no read pass runs
NoFrames == [c \in Tracked |-> "unknown"]

-----------------------------------------------------------------------------
(* The session's functions.                                                *)

\* Rejected* operators are variants of the next definition with a slip in them;
\* each shows that a property below can fail.
RejectedRestConditions(t, ac) ==
    t.frame["campingmode"] = "off" /\ t.frame["energy"] = "off" /\ ac

\* rest_conditions(): ac stands for the auto camper's part, ignition known off
\* and no restore owed.  "energy" is "on" for shore power active or standby.
RestConditions(t, ac) ==
    t.frame["campingmode"] = "off" /\ t.frame["energy"] = "off" /\ ac /\ ~t.hold

LiveUnitAwake(t) == \E c \in t.live : t.frame[c] = "on"

ViewerActive(t) == t.viewerLeft > 0 /\ t.inputLeft > 0

\* rest_set(1, ...) and rest_set(0, ...).
RestOn(t) ==
    [t EXCEPT !.redial = FALSE, !.restLeft = FALSE, !.rest = TRUE,
              !.restIn = IF t.rest THEN @ ELSE t.restPoll]

RestOff(t) ==
    [t EXCEPT !.restLeft = t.rest /\ t.link # "up", !.rest = FALSE,
              !.restIn = IF t.rest THEN t.restPoll ELSE @]

\* unit_check(): another identity's frames are dropped.
UnitCheck(t) ==
    IF t.unit = bonded THEN t
    ELSE [t EXCEPT !.unit = bonded, !.frame = NoFrames, !.live = {}]

\* The reads of a link, reset when it goes and again when one comes up.
NoReads(t) ==
    [t EXCEPT !.warming = FALSE, !.reading = NoPass, !.snapped = FALSE,
              !.rereading = FALSE, !.heaterReading = FALSE,
              !.variantPending = FALSE, !.vehiclePre = FALSE]

LinkClear(t) ==
    [NoReads(t) EXCEPT
        !.backoff = IF t.link = "up" /\ t.age >= StableTime THEN BackoffMin ELSE @,
        !.sinceDown = IF t.link = "up" THEN JustNow ELSE @,
        !.link = "down"]

HbWanted(t) ==
    \/ t.mode = "hold" \/ t.variantPending \/ t.warming
    \/ t.reading # NoPass \/ t.probe \/ busy

\* probe_end(0, ...), as its callers have it: if (s_probe) probe_end(0, why).
DropProbe(t) ==
    [t EXCEPT !.probe = FALSE, !.restIn = IF t.probe /\ t.rest THEN t.restPoll ELSE @]

\* probe_end(1, "read_all").
ProbeRead(t, ac) ==
    LET u == DropProbe(t)
        v == IF u.rest /\ ~RestConditions(u, ac) THEN RestOff(u) ELSE u
    IN  IF (v.rest \/ v.mode = "off") /\ v.link # "down" THEN LinkClear(v) ELSE v

\* What is left of the cooldown the unit wants after a link.
CooldownLeft(t) == Cooldown - t.sinceDown

ScheduleReconnect(t) ==
    IF ~t.active \/ t.mode = "off" \/ t.rest THEN t
    ELSE IF bonded = NoUnit THEN [t EXCEPT !.active = FALSE]
    ELSE [t EXCEPT !.pending = TRUE,
                   !.reconnectIn = Larger(t.backoff, CooldownLeft(t)),
                   !.backoff = Smaller(2 * t.backoff, BackoffMax)]

CanRestAgain(t, ac) ==
    /\ t.restLeft /\ t.active /\ t.mode # "off" /\ ~busy
    /\ RestConditions(t, ac) /\ ~ViewerActive(t)

RestAgain(t, ac) == IF CanRestAgain(t, ac) THEN RestOn(t) ELSE t

\* link_lost(): hungUp = the unit ended the link itself (peer_hangup of a DISCONNECTED).
LinkLost(t, hungUp, ac) ==
    LET a == [t EXCEPT !.redial = FALSE]
        b == DropProbe(a)
        c == IF b.rest /\ LiveUnitAwake(b) THEN RestOff(b) ELSE b
        d == LinkClear(c)
        powerSave == /\ d.active /\ d.mode # "off" /\ hungUp
                     /\ ~busy /\ RestConditions(d, ac)
        e == CASE CanRestAgain(d, ac) -> RestOn(d)
               [] ~CanRestAgain(d, ac) /\ powerSave /\ ViewerActive(d) ->
                    [d EXCEPT !.redial = TRUE, !.backoff = BackoffMin]
               [] ~CanRestAgain(d, ac) /\ powerSave /\ ~ViewerActive(d) -> RestOn(d)
               [] OTHER -> d
    IN  ScheduleReconnect(e)

ConnectNow(t, accepted, ac) ==
    IF accepted THEN [t EXCEPT !.link = "connecting", !.age = JustNow]
    ELSE ScheduleReconnect(RestAgain(DropProbe([t EXCEPT !.redial = FALSE]), ac))

LinkUp(t, discovers, ac) ==
    LET a == [NoReads(t) EXCEPT !.restLeft = FALSE, !.link = "up", !.age = JustNow,
                                !.pending = FALSE, !.hbAge = JustNow]
        b == [UnitCheck(a) EXCEPT !.live = {}]
    IN  IF discovers THEN b ELSE LinkLost(b, FALSE, ac)

\* read_next(): the first index >= from that the pass reads and the transport
\* accepts, or the end of the pass.  The variant gate's skips and refused reads
\* both move on to a later index.
NextReads(t, from) ==
    {k \in from..Len(Order) : ~(t.vehiclePre /\ Order[k] = "vehicle")} \cup {Len(Order) + 1}

ReadNext(t, k, ac) ==
    IF k <= Len(Order) THEN [t EXCEPT !.reading = k]
    ELSE LET u == [t EXCEPT !.reading = NoPass, !.vehiclePre = FALSE, !.snapped = TRUE]
         IN  IF u.probe THEN ProbeRead(u, ac) ELSE u

\* store(): the last frame of a function wins and is this link's.
Store(t, c, v) ==
    IF c \in Tracked
    THEN [t EXCEPT !.frame[c] = v, !.live = @ \cup ({c} \ {"vehicle"})]
    ELSE t

SetMode(t, m, accepted, ac) ==
    IF m = t.mode THEN t
    ELSE LET a == [t EXCEPT !.mode = m,
                            !.hbAge = IF t.active /\ m = "hold" THEN JustNow ELSE @]
             b == [a EXCEPT !.pending = FALSE, !.redial = FALSE]
         IN  CASE ~t.active -> a
               [] t.active /\ m = "off" ->
                    IF b.link # "down" /\ ~b.probe THEN LinkClear(b) ELSE b
               [] t.active /\ m # "off" ->
                    IF a.link = "down" /\ ~a.pending /\ ~a.rest
                    THEN ConnectNow([a EXCEPT !.backoff = BackoffMin], accepted, ac)
                    ELSE a

Probe(t, accepted, ac) ==
    LET a == [t EXCEPT !.probe = TRUE]
    IN  IF a.link = "down" THEN ConnectNow([a EXCEPT !.pending = FALSE], accepted, ac)
        ELSE IF a.link = "up" /\ a.snapped /\ a.reading = NoPass /\ ~a.warming
        THEN [a EXCEPT !.warming = TRUE]
        ELSE a

ReconnectSoon(t) ==
    LET a == RestOff(t)
        b == IF ~t.rest THEN t
             ELSE IF a.active /\ a.link = "down" /\ ~a.pending /\ ~a.probe
             THEN ScheduleReconnect([a EXCEPT !.backoff = BackoffMin])
             ELSE a
    IN  IF b.active /\ b.link = "down" /\ b.pending
        THEN [b EXCEPT !.reconnectIn = CooldownLeft(b)]
        ELSE b

Wake(t, accepted, ac) ==
    ReconnectSoon(SetMode([t EXCEPT !.inputLeft = InputTime], "hold", accepted, ac))

Boot(t, accepted, ac) ==
    IF bonded = NoUnit THEN t
    ELSE LET a == [t EXCEPT !.active = TRUE]
         IN  IF a.mode # "off" THEN ConnectNow(a, accepted, ac) ELSE a

Stop(t) ==
    UnitCheck(LinkClear([DropProbe(RestOff(t)) EXCEPT
        !.redial = FALSE, !.active = FALSE, !.pending = FALSE, !.backoff = BackoffMin]))

Viewer(t) ==
    LET a == [t EXCEPT !.viewerLeft = ViewerTime]
        b == ReconnectSoon(a)
    IN  IF a.rest /\ a.active /\ a.mode # "off" /\ ViewerActive(a)
        THEN [b EXCEPT !.redial = b.link = "down" /\ b.pending]
        ELSE a

\* cali_session_ready(): the link takes commands.
Ready(t) == t.link = "up" /\ t.snapped /\ t.mode = "hold" /\ t.hbAge >= ArmDelay

-----------------------------------------------------------------------------
Init ==
    /\ s \in {[active |-> FALSE, link |-> "down", mode |-> "hold", age |-> 0, hbAge |-> 0,
              pending |-> FALSE, reconnectIn |-> 0, backoff |-> BackoffMin,
              sinceDown |-> Cooldown, warming |-> FALSE, reading |-> 0, snapped |-> FALSE,
              rereading |-> FALSE, heaterReading |-> FALSE, variantPending |-> FALSE,
              vehiclePre |-> FALSE, probe |-> FALSE, rest |-> FALSE, restLeft |-> FALSE,
              restPoll |-> p, restIn |-> p, redial |-> FALSE, hold |-> FALSE,
              viewerLeft |-> 0, inputLeft |-> 0, unit |-> NoUnit,
              frame |-> NoFrames, live |-> {}] : p \in RestPolls}
    /\ bonded \in Units \cup {NoUnit}
    /\ busy = FALSE /\ flow = FALSE /\ wire = <<>> /\ beats = 0 /\ ticking = FALSE

\* The session becomes u; a link that is gone takes its requests and its
\* heartbeat run with it (the transport drops its queue with the link).
Becomes(u, requests) ==
    /\ s' = u
    /\ wire' = IF u.link = "up" THEN requests ELSE <<>>
    /\ beats' = IF u.link = "up" /\ s.link = "up" THEN beats ELSE 0

\* A handler runs between ticks and leaves the world outside the session alone.
Handler == ~ticking /\ UNCHANGED <<bonded, busy, flow, ticking>>

-----------------------------------------------------------------------------
(* Transport events: on_event().                                           *)

EvConnected ==
    /\ Handler /\ s.active /\ s.link = "connecting"
    /\ Becomes([s EXCEPT !.link = "connected", !.age = JustNow], <<>>)

EvEncOk ==
    /\ Handler /\ s.active /\ s.link = "connected"
    /\ \E discovers, ac \in BOOLEAN : Becomes(LinkUp(s, discovers, ac), <<"discover">>)

\* CALI_TEV_DISCONNECTED and CALI_TEV_CONNECT_FAIL clear the link before link_lost();
\* only a link that was connected can be hung up by the unit.
EvDisconnected ==
    /\ Handler /\ s.active /\ s.link # "down"
    /\ \E hungUp, ac \in BOOLEAN :
        /\ hungUp => s.link # "connecting"
        /\ Becomes(LinkLost(LinkClear(s), hungUp, ac), <<>>)

\* CALI_TEV_ENC_FAIL, and a CALI_TEV_HEARTBEAT with an error on a link that is up.
EvLinkBad ==
    /\ Handler /\ s.active /\ s.link # "down"
    /\ \E ac \in BOOLEAN : Becomes(LinkLost(s, FALSE, ac), <<>>)

SubscribeAndWarm(t) == [t EXCEPT !.warming = TRUE]

EvDiscovered ==
    /\ Handler /\ s.active /\ s.link = "up" /\ wire # <<>> /\ Head(wire) = "discover"
    /\ \/ \E ac \in BOOLEAN : Becomes(LinkLost(s, FALSE, ac), <<>>)
       \/ /\ s.frame["vehicle"] = "unknown"
          /\ Becomes([s EXCEPT !.variantPending = TRUE], Append(Tail(wire), "vehicle"))
       \/ Becomes(SubscribeAndWarm(s), Tail(wire))   \* variant known, or its read refused

Reported(c) == IF c \in Tracked THEN Values[c] ELSE {"unknown"}

\* on_read(): the completion of the oldest request, with a value or an error.
EvRead ==
    /\ Handler /\ s.active /\ s.link = "up" /\ wire # <<>> /\ Head(wire) # "discover"
    /\ \E ok, ac \in BOOLEAN, v \in Reported(Head(wire)) :
        LET c == Head(wire)
            t == IF ok THEN Store(s, c, v) ELSE s
        IN  CASE s.variantPending /\ c = "vehicle" ->
                    Becomes(SubscribeAndWarm([t EXCEPT !.variantPending = FALSE,
                                                       !.vehiclePre = ok \/ @]), Tail(wire))
              [] s.heaterReading /\ c = "airheater" ->
                    Becomes([t EXCEPT !.heaterReading = FALSE], Tail(wire))
              [] s.rereading /\ c = "water" ->
                    Becomes([t EXCEPT !.rereading = FALSE], Tail(wire))
              [] s.reading # NoPass /\ c = Order[s.reading] ->
                    \E k \in NextReads(t, s.reading + 1) :
                        Becomes(ReadNext(t, k, ac),
                                IF k <= Len(Order) THEN Append(Tail(wire), Order[k]) ELSE Tail(wire))
              [] OTHER -> Becomes(s, Tail(wire))

EvNotify ==
    /\ Handler /\ s.active /\ s.link = "up"
    /\ \E c \in Tracked : \E v \in Values[c] : Becomes(Store(s, c, v), wire)

\* cali_ctl_on_written(): the command in flight may end here.
EvWritten ==
    /\ ~ticking /\ s.active /\ busy /\ busy' = FALSE
    /\ UNCHANGED <<s, bonded, flow, wire, beats, ticking>>

-----------------------------------------------------------------------------
(* cali_session_tick().                                                    *)

Down(n) == IF n = 0 THEN 0 ELSE n - 1
Up(n, max) == IF n < max THEN n + 1 ELSE max

\* s_now moves on and cali_ctl_tick() runs: with no link it ends the command.
Clock ==
    /\ ~ticking /\ ticking' = TRUE
    /\ s' = [s EXCEPT !.age = IF s.link = "down" THEN JustNow ELSE Up(@, MaxAge),
                      !.hbAge = IF s.link = "up" THEN Up(@, ArmDelay) ELSE JustNow,
                      !.reconnectIn = Down(@),
                      !.sinceDown = Up(@, Cooldown),
                      !.restIn = IF s.rest THEN Down(@) ELSE JustNow,
                      !.viewerLeft = Down(@), !.inputLeft = Down(@)]
    /\ busy' \in IF busy /\ s.link = "up" THEN BOOLEAN ELSE {FALSE}
    /\ UNCHANGED <<bonded, flow, wire, beats>>

TickEnds == ticking /\ ticking' = FALSE /\ UNCHANGED <<bonded, busy, flow>>

TickInactive == TickEnds /\ ~s.active /\ UNCHANGED <<s, wire, beats>>

\* The heartbeat is due and write_heartbeat() refuses it.
TickBeatFails ==
    /\ TickEnds /\ s.active /\ s.link = "up" /\ HbWanted(s)
    /\ \E ac \in BOOLEAN : Becomes(LinkLost(s, FALSE, ac), <<>>)

\* The heater's re-read does not wait for the water's.
RejectedIdleReads(t) ==
    t.link = "up" /\ t.snapped /\ t.reading = NoPass /\ ~t.warming /\ ~t.heaterReading

IdleReads(t) ==
    /\ t.link = "up" /\ t.snapped /\ t.reading = NoPass /\ ~t.warming
    /\ ~t.rereading /\ ~t.heaterReading

EndRedial(t) ==
    [t EXCEPT !.redial = @ /\ ~(t.link = "up" /\ t.snapped /\ (t.mode # "hold" \/ Ready(t)))]

StartsReads(t) == t.warming /\ ~t.rereading /\ ~t.heaterReading

\* The heartbeat is written or not wanted; then the read pass starts, or a
\* water or heater re-read that is due is issued.  A re-read's due time is
\* left open: any tick of an idle link may be the one.
TickUp ==
    /\ TickEnds /\ s.active /\ s.link = "up"
    /\ \E ac, water, heater \in BOOLEAN, k \in NextReads(s, 1) :
        LET a == IF StartsReads(s) THEN ReadNext([s EXCEPT !.warming = FALSE], k, ac) ELSE s
            b == EndRedial(a)
            c == IF water /\ ~StartsReads(s) /\ IdleReads(b)
                 THEN [b EXCEPT !.rereading = TRUE] ELSE b
            d == IF heater /\ c.hold /\ IdleReads(c) THEN [c EXCEPT !.heaterReading = TRUE] ELSE c
            issued == IF StartsReads(s) /\ k <= Len(Order) THEN <<Order[k]>>
                      ELSE IF d.rereading /\ ~s.rereading THEN <<"water">>
                      ELSE IF d.heaterReading /\ ~s.heaterReading THEN <<"airheater">>
                      ELSE <<>>
        IN  /\ s' = d
            /\ wire' = IF d.link = "up" THEN wire \o issued ELSE <<>>
            /\ beats' = IF d.link = "up" /\ HbWanted(s) THEN Up(beats, ArmDelay) ELSE 0

\* The watchdog of the encryption only, none of the connect itself.
RejectedTickConnecting ==
    /\ TickEnds /\ s.active /\ s.link \in {"connecting", "connected"}
    /\ \E ac \in BOOLEAN :
        Becomes(IF s.link = "connected" /\ s.age >= EncTimeout THEN LinkLost(s, FALSE, ac) ELSE s,
                <<>>)

TickConnecting ==
    /\ TickEnds /\ s.active /\ s.link \in {"connecting", "connected"}
    /\ \E ac \in BOOLEAN :
        Becomes(IF s.age >= (IF s.link = "connecting" THEN ConnectTimeout ELSE EncTimeout)
                THEN LinkLost(s, FALSE, ac) ELSE s, <<>>)

RestPollDue(t) == t.rest /\ t.restPoll # 0 /\ t.mode # "off" /\ ~t.probe /\ t.restIn = 0
ReconnectDue(t) == t.pending /\ t.reconnectIn = 0

TickDown ==
    /\ TickEnds /\ s.active /\ s.link = "down"
    /\ \E accepted, ac \in BOOLEAN :
        LET t == [s EXCEPT !.pending = FALSE]
        IN  Becomes(CASE RestPollDue(s) -> Probe(s, accepted, ac)
                      [] ~RestPollDue(s) /\ ReconnectDue(s) /\ bonded = NoUnit ->
                           [t EXCEPT !.active = FALSE, !.redial = FALSE]
                      [] ~RestPollDue(s) /\ ReconnectDue(s) /\ bonded # NoUnit ->
                           ConnectNow(t, accepted, ac)
                      [] OTHER -> s, <<>>)

Tick == TickInactive \/ TickBeatFails \/ TickUp \/ TickConnecting \/ TickDown

-----------------------------------------------------------------------------
(* Calls from the web page, the console, the policies and the thermostat.  *)

CallSetMode ==
    /\ Handler
    /\ \E m \in Modes, accepted, ac \in BOOLEAN : Becomes(SetMode(s, m, accepted, ac), wire)

CallProbe ==
    /\ Handler /\ s.active /\ ~s.probe
    /\ \E accepted, ac \in BOOLEAN : Becomes(Probe(s, accepted, ac), wire)

\* cali_session_connect(), which needs a bond, and a command that finds the session
\* not ready or without the function's frame (control_run.c submit).
CallWake ==
    /\ Handler /\ (bonded # NoUnit \/ ~busy)
    /\ \E accepted, ac \in BOOLEAN : Becomes(Wake(s, accepted, ac), wire)

\* control_run.c submit: accepted only on a ready session.
CallSubmit ==
    /\ ~ticking /\ ~busy /\ Ready(s) /\ busy' = TRUE
    /\ UNCHANGED <<s, bonded, flow, wire, beats, ticking>>

CallHold ==
    /\ Handler /\ Holds
    /\ \/ s.hold /\ Becomes([s EXCEPT !.hold = FALSE], wire)
       \/ /\ ~s.hold
          /\ \E accepted, ac \in BOOLEAN :
              Becomes(ReconnectSoon(SetMode([s EXCEPT !.hold = TRUE], "hold", accepted, ac)), wire)

CallViewer == Handler /\ Becomes(Viewer(s), wire)

CallInput == Handler /\ Becomes(Viewer([s EXCEPT !.inputLeft = InputTime]), wire)

CallSetRestPoll ==
    /\ Handler
    /\ \E p \in RestPolls : Becomes([s EXCEPT !.restPoll = p, !.restIn = p], wire)

-----------------------------------------------------------------------------
(* Boot and the pairing runner (console.c on_state, app_main.c on_sync).   *)

\* on_sync: at boot, and again after every controller reset, whatever runs then.  The
\* reset drops the link first (NimBLE reports DISCONNECTED before it syncs again).
OnSync ==
    /\ Handler
    /\ IF Resyncs THEN s.link = "down" ELSE ~s.active /\ ~flow
    /\ \E accepted, ac \in BOOLEAN : Becomes(Boot(s, accepted, ac), wire)

\* The runner enters a pairing state, the flow's first or a later one: on_state
\* stops the session.
FlowStart ==
    /\ ~ticking /\ flow' = TRUE
    /\ Becomes(Stop(s), <<>>)
    /\ UNCHANGED <<bonded, busy, ticking>>

\* The flow ends without a new bond: the session stops and boots again.
FlowEnd ==
    /\ ~ticking /\ flow /\ flow' = FALSE
    /\ \E accepted, ac \in BOOLEAN : Becomes(Boot(Stop(s), accepted, ac), <<>>)
    /\ UNCHANGED <<bonded, busy, ticking>>

\* Pairing stores a bond, or drops a stale one, inside the flow.
FlowBond ==
    /\ ~ticking /\ flow /\ bonded' \in Units \cup {NoUnit}
    /\ UNCHANGED <<s, busy, flow, wire, beats, ticking>>

\* cali_session_on_bonded(): the flow verified its bond on the link it holds.
OnBonded ==
    /\ ~ticking /\ flow /\ bonded # NoUnit /\ flow' = FALSE
    /\ \E discovers, accepted, ac \in BOOLEAN :
        LET a == RestOff(SetMode(s, "hold", accepted, ac))
        IN  Becomes(LinkUp([a EXCEPT !.active = TRUE], discovers, ac), <<"discover">>)
    /\ UNCHANGED <<bonded, busy, ticking>>

\* The owner forgets the unit: remove_bond(), then on_state stops the session.
\* The stop's unit_check() already sees no bond.
Forget ==
    /\ ~ticking /\ ~flow /\ bonded # NoUnit /\ bonded' = NoUnit
    /\ Becomes([Stop(s) EXCEPT !.unit = NoUnit, !.frame = NoFrames, !.live = {}], <<>>)
    /\ UNCHANGED <<busy, flow, ticking>>

\* The bond store loses the bond under a running session (a failed read counts).
BondLost ==
    /\ ~ticking /\ bonded # NoUnit /\ bonded' = NoUnit
    /\ UNCHANGED <<s, busy, flow, wire, beats, ticking>>

Event == EvConnected \/ EvEncOk \/ EvDisconnected \/ EvLinkBad \/ EvDiscovered
         \/ EvRead \/ EvNotify \/ EvWritten

Call == CallSetMode \/ CallProbe \/ CallWake \/ CallSubmit \/ CallHold
        \/ CallViewer \/ CallInput \/ CallSetRestPoll

Runner == OnSync \/ FlowStart \/ FlowEnd \/ FlowBond \/ OnBonded \/ Forget \/ BondLost

Next == Event \/ Clock \/ Tick \/ Call \/ Runner

Spec == Init /\ [][Next]_vars

-----------------------------------------------------------------------------
(* Safety.                                                                 *)

Requests == {"discover", "vehicle", "water", "airheater", "campingmode", "energy"}

\* Type correctness of session.c's statics as modelled.
TypeOK ==
    /\ s \in Session
    /\ bonded \in Units \cup {NoUnit}
    /\ busy \in BOOLEAN /\ flow \in BOOLEAN /\ ticking \in BOOLEAN
    /\ wire \in Seq(Requests)
    /\ beats \in 0..ArmDelay

\* An active session that is neither off nor resting and has no link always has
\* a reconnect planned: no sequence of failed connects, probes, mode switches,
\* rests and wake-ups leaves it down for good (session.c schedule_reconnect).
NeverStranded ==
    s.active /\ s.mode # "off" /\ ~s.rest /\ s.link = "down" => s.pending

\* In mode off and in power-save rest the unit is left alone: a link exists only
\* while a probe wants it, and a stopped session has none (probe_end, set_mode).
LinkOnlyWhenWanted ==
    s.link # "down" => s.active /\ (s.mode = "off" \/ s.rest => s.probe)

\* A planned reconnect never falls inside the unit's cooldown after the last
\* link, whatever pulled it forward (schedule_reconnect, reconnect_soon).
PlanKeepsCooldown == s.pending => s.reconnectIn + s.sinceDown >= Cooldown

\* Rest is left alone only when nothing waits on the unit: no command in flight,
\* no thermostat hold and no reconnect planned (link_lost, rest_again, hold).
NobodyWaitsInRest == s.rest => ~busy /\ ~s.hold /\ ~s.pending

\* At most one GATT request of the session is out, and whichever part of the
\* session waits for an answer is the one whose request is out: an answer is
\* never credited to another read and no wait is without its request (on_read).
OneRequestOut ==
    /\ Len(wire) <= 1
    /\ s.variantPending => wire = <<"vehicle">>
    /\ s.reading # NoPass => wire = <<Order[s.reading]>>
    /\ s.rereading => wire = <<"water">>
    /\ s.heaterReading => wire = <<"airheater">>

\* A session that takes commands has written the 1003 heartbeat in every tick of
\* the arm delay, also after quiet -> hold on a link that is up (ready).
ArmedWhenReady == Ready(s) /\ ~ticking => beats >= ArmDelay

\* What both rest on.  The part that waits for an answer is the only one, and its
\* request the only one out; discovery and the variant's read come before the pass,
\* the re-reads after it.  Without a link nothing waits and nothing is out.
Waits(t, variant, place, water, heater) ==
    /\ t.variantPending = variant /\ t.reading = place
    /\ t.rereading = water /\ t.heaterReading = heater

Clean(t) == Waits(t, FALSE, NoPass, FALSE, FALSE) /\ ~t.warming /\ ~t.snapped

Asked(t, w) ==
    \/ w = <<>> /\ Waits(t, FALSE, NoPass, FALSE, FALSE)
    \/ w = <<"discover">> /\ Clean(t)
    \/ w = <<"vehicle">> /\ Waits(t, TRUE, NoPass, FALSE, FALSE) /\ ~t.warming /\ ~t.snapped
    \/ /\ t.reading # NoPass /\ w = <<Order[t.reading]>>
       /\ Waits(t, FALSE, t.reading, FALSE, FALSE) /\ ~t.warming
    \/ w = <<"water">> /\ Waits(t, FALSE, NoPass, TRUE, FALSE) /\ t.snapped
    \/ w = <<"airheater">> /\ Waits(t, FALSE, NoPass, FALSE, TRUE) /\ t.snapped

\* The arm delay never runs ahead of the heartbeats, but within a tick.
ArmKept ==
    s.link = "up" /\ s.mode = "hold" => IF ticking THEN beats + 1 >= s.hbAge ELSE beats >= s.hbAge

LinkState ==
    /\ IF s.link = "up" THEN Asked(s, wire) ELSE Clean(s) /\ wire = <<>>
    /\ ArmKept

\* What goes over the link is in order: requests one at a time, each for the one that
\* waits for it, and no command before the heartbeats that arm the unit (read_next,
\* on_read, ready).
LinkInOrder == OneRequestOut /\ ArmedWhenReady /\ LinkState

\* What the safety properties rest on: a planned reconnect belongs to an active
\* session that is down and not off, a probe to a link, a finished read pass to a
\* link that is up, rest to an active session without one; a pairing flow keeps
\* the session stopped.
ControlState ==
    /\ s.pending => s.active /\ s.link = "down" /\ s.mode # "off"
    /\ s.probe => s.link # "down"
    /\ s.snapped => s.link = "up"
    /\ s.rest => s.active /\ ~s.snapped
    /\ flow => ~s.active

\* The inductive invariant: an active session always has a way back to a link, holds
\* one only when it is wanted, plans none inside the cooldown and rests only when
\* nothing waits on the unit (schedule_reconnect, reconnect_soon, rest_again, set_mode).
SessionInv ==
    /\ TypeOK /\ ControlState
    /\ NeverStranded /\ LinkOnlyWhenWanted /\ PlanKeepsCooldown /\ NobodyWaitsInRest

-----------------------------------------------------------------------------
(* Liveness.                                                               *)

\* The tick timer runs; a GATT request is answered in the end (NimBLE ends one
\* with an ATT timeout); a connect tried again and again is accepted once.
Fairness ==
    /\ WF_vars(Clock) /\ WF_vars(Tick)
    /\ SF_vars(EvDiscovered) /\ SF_vars(EvRead)
    /\ SF_vars(TickDown /\ s'.link = "connecting")

FairSpec == Spec /\ Fairness

\* A connect attempt gets a verdict: the watchdogs end it even when the
\* transport's own event was lost (session.c tick, issue 264).
ConnectVerdict == s.link \in {"connecting", "connected"} ~> s.link \in {"down", "up"}

\* Every probe ends, with its read pass or with its link (probe_end).
ProbeEnds == s.probe ~> ~s.probe

\* What the session starts ends: every connect and every probe, although the
\* transport's event for it may never come (tick, probe_end).
AttemptEnds == ConnectVerdict /\ ProbeEnds

\* A session that should have a link gets one started (tick, reconnect_soon),
\* unless manual probes, each a refused connect of its own, restart the backoff
\* for ever: nothing else pushes the planned reconnect out again and again.
LinkIsSought ==
    <>[][~CallProbe]_vars =>
        ((s.active /\ s.mode # "off" /\ ~s.rest /\ s.link = "down")
            ~> (s.link # "down" \/ s.rest \/ s.mode = "off" \/ ~s.active))

\* The session goes on by itself (session.c tick, schedule_reconnect).
SessionGoesOn == AttemptEnds /\ LinkIsSought
=============================================================================
