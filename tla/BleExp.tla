------------------------------- MODULE BleExp -------------------------------
(***************************************************************************)
(* The two schedulers of the session's connection mode (ble_exp.c,         *)
(* ble_exp_run.c): the power experiment, which walks through hold, quiet   *)
(* and off with a probe at each phase's end, and the idle policy, which    *)
(* lets the link go when nobody is there and probes now and then.  Both    *)
(* run on the owner task's tick and give way to activity: a viewer, the    *)
(* ignition on an up link, the thermostat's hold, a mode set from outside, *)
(* the unit's advert coming back.                                          *)
(*                                                                         *)
(* The session is its mode, its probe and its link; time is counted in     *)
(* ticks, the hour is inside the window or not.                            *)
(***************************************************************************)
EXTENDS Integers

CONSTANTS
    IdleTime,      \* CALI_BX_IDLE_MS
    PhaseTime,     \* phase_ms of the experiment
    ProbeTimes,    \* settings of the idle policy; 0 is always connected
    GoneTime       \* CALI_BX_GONE_MS

ASSUME ExpAssumption == {IdleTime, PhaseTime, GoneTime} \subseteq Nat /\ ProbeTimes \subseteq Nat

VARIABLES
    mode, probing, linkUp,       \* the session
    resting,       \* its power-save rest, in which only its own poll wakes the unit
    heldBy, ignOn, inWindow,     \* the thermostat's hold, the ignition, the hour
    closed,        \* ticks the window has been closed
    bx,            \* cali_bx_t
    adv,           \* its advert part, with s_adv_mode and s_adv_armed
    bi,            \* cali_bi_t
    since,         \* history: ticks since the last activity
    expAgo,        \* history: ticks since one with the experiment on
    word,          \* history: the experiment was begun and nobody there since
    alone          \* nothing comes from outside any more

seen == <<since, expAgo, word>>
world == <<linkUp, resting, heldBy, ignOn, inWindow, closed>>
expVars == <<mode, probing, world, bx, adv, bi, seen, alone>>

-----------------------------------------------------------------------------
(* Data.                                                                    *)

Modes == {"hold", "quiet", "off"}
Order == <<"hold", "quiet", "off">>
NoMode == "none"

Down(t) == IF t > 0 THEN t - 1 ELSE 0
Up(t, cap) == IF t < cap THEN t + 1 ELSE cap

BxOff == [on |-> FALSE, phase |-> 1, want |-> NoMode, left |-> 0, idle |-> 0, probing |-> FALSE,
          touched |-> FALSE]
BxStart == [BxOff EXCEPT !.on = TRUE]
AdvUnknown == [seen |-> "unknown", clock |-> FALSE, age |-> 0, mode |-> NoMode, armed |-> FALSE]
BiSet(min) == [min |-> min, want |-> NoMode, idle |-> IdleTime, next |-> 0, touched |-> FALSE]

\* cali_bx_activity().
BxActivity(x) == IF x.on THEN [x EXCEPT !.idle = IdleTime, !.touched = TRUE] ELSE x
BiActivity(y) == [y EXCEPT !.touched = TRUE]

Nothing == [set |-> NoMode, probe |-> FALSE]
SetHold(cur) == IF cur = "hold" THEN NoMode ELSE "hold"
\* A slip: the phase that ended is run again.
RejectedNextPhase(x) == [x EXCEPT !.want = NoMode, !.probing = FALSE]

\* The next phase of the cycle, not begun yet.
NextPhase(x) == [x EXCEPT !.want = NoMode, !.probing = FALSE, !.phase = (@ % 3) + 1]

-----------------------------------------------------------------------------
(* cali_bx_step(): the experiment's new state and what to do.               *)

\* The running phase is cut short.
Cut(x, cur) ==
    /\ x.want # NoMode
    /\ x.touched \/ ~inWindow \/ (cur # x.want /\ ~x.probing)

CutShort(x, cur) ==
    [x |-> NextPhase([x EXCEPT !.idle = IF ~x.touched /\ inWindow THEN IdleTime ELSE @,
                               !.touched = FALSE]),
     o |-> [Nothing EXCEPT !.set = SetHold(cur)]]

Between(x, cur) ==
    IF ~inWindow \/ x.idle > 0
    THEN [x |-> x, o |-> [Nothing EXCEPT !.set = SetHold(cur)]]
    ELSE [x |-> [x EXCEPT !.want = Order[x.phase], !.left = PhaseTime],
          o |-> [Nothing EXCEPT !.set = IF cur = Order[x.phase] THEN NoMode ELSE Order[x.phase]]]

\* The probe ended; a mode forced meanwhile makes the phase an aborted one.
ProbeDone(x, cur) ==
    LET aborted == cur # x.want
    IN  [x |-> NextPhase([x EXCEPT !.idle = IF aborted THEN IdleTime ELSE @]),
         o |-> [Nothing EXCEPT !.set = IF aborted THEN SetHold(cur) ELSE NoMode]]

BxStep(x, cur, engaged) ==
    LET y == [x EXCEPT !.touched = FALSE]
    IN  IF ~x.on THEN [x |-> x, o |-> Nothing]
        ELSE IF Cut(x, cur) THEN CutShort(x, cur)
        ELSE IF x.want = NoMode THEN Between(y, cur)
        ELSE IF ~x.probing /\ x.left = 0
             THEN [x |-> [y EXCEPT !.probing = TRUE], o |-> [Nothing EXCEPT !.probe = TRUE]]
        ELSE IF x.probing /\ ~engaged THEN ProbeDone(y, cur)
        ELSE [x |-> y, o |-> Nothing]

-----------------------------------------------------------------------------
(* cali_bi_step(): the idle policy.                                         *)

\* A slip: an experiment that runs does not keep the policy waiting.
RejectedBiRenewed(y, cur, engaged, expOn) ==
    y.touched \/ (y.want # NoMode /\ cur # y.want /\ ~engaged)

BiRenewed(y, cur, engaged, expOn) ==
    expOn \/ y.touched \/ (y.want # NoMode /\ cur # y.want /\ ~engaged)

BiStep(y, cur, engaged, expOn) ==
    LET z == [y EXCEPT !.touched = FALSE,
                       !.idle = IF BiRenewed(y, cur, engaged, expOn) THEN IdleTime ELSE @]
        want == IF z.idle > 0 THEN "hold" ELSE "off"
        v == [z EXCEPT !.want = want,
                       !.next = IF want = "off" /\ z.want # "off" THEN z.min ELSE @]
    IN  IF y.min = 0 THEN [y |-> [y EXCEPT !.touched = FALSE], o |-> Nothing]
        ELSE IF expOn THEN [y |-> [z EXCEPT !.want = NoMode], o |-> Nothing]
        ELSE IF engaged THEN [y |-> v, o |-> Nothing]
        ELSE IF cur # want THEN [y |-> v, o |-> [Nothing EXCEPT !.set = want]]
        ELSE IF want = "off" /\ v.next = 0
             THEN [y |-> [v EXCEPT !.next = y.min], o |-> [Nothing EXCEPT !.probe = TRUE]]
        ELSE [y |-> v, o |-> Nothing]

-----------------------------------------------------------------------------
(* The unit's advert: cali_bx_seen() and adv_transition().                  *)

\* A mode change disarms.
AdvIn(a, m) == IF a.mode = m THEN a ELSE [a EXCEPT !.mode = m, !.armed = FALSE]

\* The advert is gone: a wake is armed only with the link down.
Gone(a, m, up) == [AdvIn(a, m) EXCEPT !.seen = "gone", !.armed = ~up]

\* The gone check of a tick.
AdvCheck(a, m, up) ==
    IF ~a.clock THEN [AdvIn(a, m) EXCEPT !.clock = TRUE, !.age = 0]
    ELSE IF a.seen # "gone" /\ Up(a.age, GoneTime) = GoneTime
         THEN [Gone(a, m, up) EXCEPT !.age = GoneTime]
    ELSE [AdvIn(a, m) EXCEPT !.age = Up(@, GoneTime)]

\* History: somebody is there.
Noticed == since' = 0 /\ word' = FALSE /\ UNCHANGED expAgo

Wakes(a) == a.seen # "seen" /\ AdvIn(a, mode).armed /\ mode # "hold"

\* on_unit_adv(), from a scan window between two ticks.
UnitAdvert ==
    /\ bx.on
    /\ bx' = IF Wakes(adv) THEN BxActivity(bx) ELSE bx
    /\ IF Wakes(adv) THEN Noticed ELSE UNCHANGED seen
    /\ adv' = [AdvIn(adv, mode) EXCEPT !.clock = TRUE, !.age = 0, !.seen = "seen",
                   !.armed = IF adv.seen = "seen" THEN @ ELSE FALSE]
    /\ UNCHANGED <<mode, probing, world, bi>>

-----------------------------------------------------------------------------
(* cali_ble_exp_tick().                                                     *)

Active == (linkUp /\ ignOn) \/ heldBy

Aged(x) == [x EXCEPT !.left = Down(@), !.idle = Down(@)]
AgedBi(y) == IF y.min = 0 THEN y ELSE [y EXCEPT !.idle = Down(@), !.next = Down(@)]

Bx0 == IF Active THEN BxActivity(Aged(bx)) ELSE Aged(bx)
Bi0 == IF Active THEN BiActivity(AgedBi(bi)) ELSE AgedBi(bi)
ModeAfter(o, m) == IF o.set = NoMode THEN m ELSE o.set

\* cali_session_probe() takes a probe unless one runs; none is asked for in the rest.
ProbeAfter(o, engaged) == engaged \/ (o.probe /\ ~resting)

\* The tick finds a mode its phase did not set; a touched phase is over anyway.
Forced ==
    /\ bx.on /\ ~bx.touched /\ bx.want # NoMode /\ mode # bx.want
    /\ ~(bx.probing /\ probing)

\* History: who was there at this tick.
There == Active \/ Forced \/ (~bx.on /\ bi.min > 0 /\ BiRenewed(bi, mode, probing, FALSE))

Watched ==
    /\ since' = IF There THEN 0 ELSE Up(since, IdleTime)
    /\ expAgo' = IF bx.on THEN 0 ELSE Up(expAgo, IdleTime)
    /\ word' = (word /\ ~Active /\ ~Forced)

Tick ==
    LET e == BxStep(Bx0, mode, probing)
        m == ModeAfter(e.o, mode)
        p == ProbeAfter(e.o, probing)
        i == BiStep(Bi0, m, p, bx.on)
    IN  /\ bx' = e.x
        /\ adv' = IF bx.on THEN AdvCheck(adv, mode, linkUp) ELSE adv
        /\ bi' = i.y
        /\ mode' = ModeAfter(i.o, m)
        /\ probing' = ProbeAfter(i.o, p)
        /\ linkUp' = (linkUp /\ (mode' # "off" \/ probing'))   \* set_mode(off) hangs up
        /\ IF alone THEN UNCHANGED seen ELSE Watched
        /\ closed' = IF inWindow THEN closed ELSE Up(closed, IdleTime)
        /\ UNCHANGED <<resting, heldBy, ignOn, inWindow>>

-----------------------------------------------------------------------------
(* Calls between two ticks, and the world.                                  *)

\* cali_ble_exp_start(), over a running phase or not.
ExpStart ==
    /\ bx' = BxStart
    /\ adv' = AdvUnknown
    /\ word' = TRUE
    /\ UNCHANGED <<mode, probing, world, bi, since, expAgo>>

ExpStop ==
    /\ bx.on
    /\ bx' = BxOff          \* a start clears all of it, and the adverts with it
    /\ adv' = AdvUnknown
    /\ mode' = "hold"
    /\ UNCHANGED <<probing, world, bi, seen>>

\* cali_ble_idle_set().
IdleSet(min) ==
    /\ bi' = BiSet(min)
    /\ mode' = IF min = 0 /\ ~bx.on THEN "hold" ELSE mode
    /\ IF bx.on THEN UNCHANGED seen ELSE Noticed
    /\ UNCHANGED <<probing, world, bx, adv>>

\* cali_ble_exp_activity(): a page load or poll.
Viewer ==
    /\ bx' = BxActivity(bx)
    /\ bi' = BiActivity(bi)
    /\ Noticed
    /\ UNCHANGED <<mode, probing, world, adv>>

\* A mode set from outside: a command (hold), the console, the page.
Outside(m) ==
    /\ m # mode
    /\ mode' = m
    /\ linkUp' = (linkUp /\ (m # "off" \/ probing))
    /\ UNCHANGED <<probing, resting, heldBy, ignOn, inWindow, closed, bx, adv, bi, seen>>

\* The thermostat's hold, which needs the session in hold.
Held ==
    /\ heldBy' = ~heldBy
    /\ mode' = IF heldBy' THEN "hold" ELSE mode
    /\ UNCHANGED <<probing, linkUp, resting, ignOn, inWindow, closed, bx, adv, bi, seen>>

ProbeEnds ==
    /\ probing
    /\ probing' = FALSE
    /\ linkUp' = (linkUp /\ mode # "off")
    /\ UNCHANGED <<mode, resting, heldBy, ignOn, inWindow, closed, bx, adv, bi, seen>>

Link ==
    /\ linkUp \/ mode # "off" \/ probing
    /\ linkUp' = ~linkUp
    /\ UNCHANGED <<mode, probing, resting, heldBy, ignOn, inWindow, closed, bx, adv, bi, seen>>

Rest ==
    /\ ~linkUp
    /\ resting' = ~resting
    /\ UNCHANGED <<mode, probing, linkUp, heldBy, ignOn, inWindow, closed, bx, adv, bi, seen>>

IgnitionTurns ==
    /\ ignOn' = ~ignOn
    /\ UNCHANGED <<mode, probing, linkUp, resting, heldBy, inWindow, closed, bx, adv, bi, seen>>

\* The window is closed for hours, longer than any hold after activity.
Hour ==
    /\ inWindow \/ closed = IdleTime
    /\ inWindow' = ~inWindow
    /\ closed' = 0
    /\ UNCHANGED <<mode, probing, linkUp, resting, heldBy, ignOn, bx, adv, bi, seen>>

ExpInit ==
    /\ mode = "hold" /\ probing = FALSE /\ linkUp = FALSE /\ resting = FALSE
    /\ heldBy = FALSE /\ ignOn = FALSE /\ inWindow = TRUE /\ closed = 0
    /\ bx = BxOff /\ adv = AdvUnknown /\ bi = BiSet(0)
    /\ since = 0 /\ expAgo = IdleTime /\ word = FALSE /\ alone = FALSE

Outsiders ==
    \/ Viewer \/ Held \/ Link \/ Rest \/ IgnitionTurns \/ Hour \/ UnitAdvert
    \/ \E m \in Modes : Outside(m)
    \/ ExpStart \/ ExpStop
    \/ \E min \in ProbeTimes : IdleSet(min)

\* From here on the schedulers are left to themselves.
Leave ==
    /\ ~alone /\ ~heldBy /\ ~ignOn /\ ~resting
    /\ alone' = TRUE
    /\ since' = 0 /\ expAgo' = 0 /\ word' = FALSE     \* no longer of interest
    /\ UNCHANGED <<mode, probing, world, bx, adv, bi>>

ExpNext ==
    \/ ~alone /\ Outsiders /\ UNCHANGED alone
    \/ Leave
    \/ (Tick \/ ProbeEnds) /\ UNCHANGED alone

ExpSpec == ExpInit /\ [][ExpNext]_expVars
\* The owner task keeps ticking, and a probe ends (Session).  It matters
\* only where the schedulers are left alone.
Unseen(A) == alone /\ A /\ UNCHANGED alone
ExpFairness == WF_expVars(Unseen(Tick)) /\ WF_expVars(Unseen(ProbeEnds))
ExpFairSpec == ExpSpec /\ ExpFairness

-----------------------------------------------------------------------------

\* A tick takes the session out of hold only when nobody has been there for
\* the idle time: no viewer, no ignition on an up link, no hold of the
\* thermostat, no advert that woke, no mode found forced into a running phase
\* or on the policy, no new setting, and for the policy no experiment either.
\* (The start of an experiment is the owner's word to begin at once.)
QuietIsEarned ==
    [][Tick /\ ~alone /\ mode = "hold" /\ mode' # "hold" =>
            IF bx.on THEN since' = IdleTime \/ word'
            ELSE since' = IdleTime /\ expAgo' = IdleTime]_expVars

\* Left alone, the experiment comes to the last of its phases again and
\* again, and so to each of them, and the idle policy keeps probing.
ScheduleGoesOn ==
    /\ [](alone /\ bx.on /\ inWindow => <>(bx.want = "off"))
    /\ [](alone /\ ~bx.on /\ bi.min > 0 => <>probing)
=============================================================================
