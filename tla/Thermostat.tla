----------------------------- MODULE Thermostat -----------------------------
(***************************************************************************)
(* The cabin thermostat: the decision of thermostat.c and the runner of    *)
(* thermostat_run.c that feeds it and sends its commands through the       *)
(* control sequencer, with the air heater they act on.                     *)
(*                                                                         *)
(* What is kept: the five modes, the pending command with its readback,    *)
(* result and retry, the expected heater, the stop that waits for the      *)
(* link, the night wait, the owner's requests and switch, the command      *)
(* batch, the hold on the session, a link that comes and goes, a heater    *)
(* frame that grows stale, and an owner at the heater's own panel.         *)
(*                                                                         *)
(* What is abstracted: the control law (any level, "hold" or "hot" may     *)
(* come out of it), the temperatures and the entry conditions (camping     *)
(* mode, ignition, reference: "fit"), and every clock (a window may have   *)
(* run out at any step).                                                   *)
(***************************************************************************)
EXTENDS Naturals, Sequences

CONSTANTS
    Levels,     \* heater levels; the least one is min_level
    Nights,     \* values of the run-time setting "Nacht"
    Faults,     \* what ErrorCode may say: "none", "battery" (code 1), "other"
    Panel       \* the runs somebody may switch on at the panel of the heater

ASSUME LevelsAssumption == Levels \subseteq Nat \ {0} /\ Levels # {}
ASSUME FaultsAssumption == "none" \in Faults /\ Faults \subseteq {"none", "battery", "other"}
ASSUME SwitchAssumption == Nights \subseteq BOOLEAN /\ Nights # {} /\ Panel \subseteq {"run", "cont"}

VARIABLES
    mode, pend, expect, stop, night, cont,          \* cali_thermo_state_t
    on, req, batch, inFlight, batchOn, res, held,   \* the runner
    link, frame, fresh, post,                       \* the session as the step sees it
    heater,                                         \* the heater itself
    ours, wish, ended, starts                       \* history: see below

thermo == <<mode, pend, expect, stop, night, cont>>
runner == <<on, req, batch, inFlight, batchOn, res, held>>
seen == <<link, frame, fresh, post>>

\* History for the properties: is the run of the heater one the thermostat started and has
\* not taken for another one since, what did the owner ask for last, was the last run let
\* go with the heater possibly on, and how often did the power on of this start go out.
history == <<ours, wish, ended, starts>>
vars == <<thermo, runner, seen, heater, history>>

-----------------------------------------------------------------------------
(* Data.                                                                    *)

MinLevel == CHOOSE l \in Levels : \A k \in Levels : l <= k

\* A heater as 1702 shows it; level 0 stands for a level outside 1..10.
NoSnap == [run |-> "off", level |-> 0]
NoFrame == [run |-> "off", level |-> 0, fault |-> "none"]

Cmd(w, v) == [what |-> w, value |-> v]
StopCommands == {Cmd("power", 0), Cmd("permanent", 0)}

\* The pending command: "why" is the owner's or a safety stop's.
Pending(w, v, before, why) ==
    [what |-> w, value |-> v, tries |-> 1, before |-> before, why |-> why]
NoPend == Pending("none", 0, 0, "")
NoStop == [snap |-> NoSnap, why |-> ""]
NoResult == [what |-> "none", rc |-> "none"]

Same(a, b) == a.run = b.run /\ (a.level = 0 \/ b.level = 0 \/ a.level = b.level)

Applied(p, f) ==
    CASE p.what = "level"     -> f.level = p.value
      [] p.what = "permanent" -> f.run # "cont"
      [] OTHER                -> (f.run = "run") = (p.value = 1)

IsStop(p) == p.what \in {"power", "permanent"} /\ p.value = 0
IsStart(p) == p.what = "power" /\ p.value = 1

\* What a command does to a heater that follows it.
Effect(c, h) ==
    CASE c.what = "level"                              -> [h EXCEPT !.level = c.value]
      [] c = Cmd("power", 1) /\ h.run = "off"          -> [h EXCEPT !.run = "run"]
      [] c = Cmd("power", 0) /\ h.run = "run"          -> [h EXCEPT !.run = "off"]
      [] c = Cmd("permanent", 0) /\ h.run = "cont"     -> [h EXCEPT !.run = "off"]
      [] OTHER                                         -> h

Active == {"AUTO", "DEGRADED"}
Faulty == fresh /\ frame.fault # "none"
Seen == [run |-> frame.run, level |-> frame.level]
Heating == fresh /\ ~Faulty /\ frame.run # "off"

-----------------------------------------------------------------------------
(* The decision.  A state s is the session with the commands "out" and the  *)
(* flag "sent" of a command sent in this step; "done" is the early return.  *)

Session == [mode |-> mode, pend |-> pend, expect |-> expect, stop |-> stop, night |-> night,
            cont |-> cont, out |-> <<>>, sent |-> FALSE, done |-> FALSE, why |-> ""]

Ret(s, why) == [s EXCEPT !.done = TRUE, !.why = why]
End(s) == [s EXCEPT !.mode = "OFF", !.pend = NoPend, !.out = <<>>]

Send(s, p) == [s EXCEPT !.pend = p, !.out = <<Cmd(p.what, p.value)>>, !.sent = TRUE]

\* A level command of its own: the heater is expected to follow it.
SendLevel(s, l, before) ==
    [Send(s, Pending("level", l, before, "")) EXCEPT !.expect.level = l]

Resend(s, full) ==
    LET p == s.pend
    IN  [s EXCEPT !.sent = TRUE,
                  !.out = IF full /\ IsStart(p)
                          THEN <<Cmd("runtime", 0), Cmd("level", s.expect.level), Cmd("power", 1)>>
                          ELSE <<Cmd(p.what, p.value)>>]

\* A slip: a stop that cannot be sent is dropped.
RejectedDefer(off, s, why) == off

\* A stop that cannot be sent waits in STOPPING with what it is to stop.
Defer(off, s, why) == [off EXCEPT !.mode = "STOPPING", !.stop = [snap |-> s.expect, why |-> why]]

Stop(s, canSend, why) ==
    LET what == IF s.expect.run = "cont" THEN "permanent" ELSE "power"
        off == [End(s) EXCEPT !.sent = FALSE]
    IN  IF s.expect.run = "off" THEN off
        ELSE IF canSend THEN Send(off, Pending(what, 0, 0, why))
        ELSE Defer(off, s, why)

OwnerOff == req = "OFF" \/ ~on
OffWhy == IF on THEN "owner" ELSE "safety"

\* What rules (5), (7) and (8) come to: the first one that acts, with the level it asks
\* for.  A run that is too hot already starts at the lowest level.
Law(k, l) == [kind |-> k, level |-> l]
Hold == Law("hold", MinLevel)
Laws(kinds) == {Law(k, MinLevel) : k \in kinds} \cup {Law("level", l) : l \in Levels}

\* takeover(): regulate the heater as it is seen, its level set at once.
TakeOver(s, i) ==
    LET t == [s EXCEPT !.pend = NoPend, !.expect = Seen, !.out = <<>>]
    IN  IF i.law.kind # "lost" /\ i.law.level # frame.level /\ link
        THEN SendLevel(t, i.law.level, frame.level) ELSE t

\* A slip: the retry is not counted.
RejectedRetry(s) == Resend(s, FALSE)

\* The one retry of a command that was not applied.
Retry(s) == [Resend(s, FALSE) EXCEPT !.pend.tries = 2]

\* A slip: a failed level ends AUTO whatever the owner asked.
RejectedOffFirst(s) == FALSE

\* owner_off: rule (2) stops the heater, a failed level does not end AUTO first.
OffFirst(s) == s.pend.what = "level" /\ s.mode \in Active /\ OwnerOff

\* Rule (1): readback, result and verify window of the pending command.
Bookkeep(s, i) ==
    LET p == s.pend
        read == fresh /\ post
        fail == IF IsStart(p) THEN "START_NOT_CONFIRMED" ELSE "NOT_APPLIED"
        giveUp == Ret(IF IsStop(p) THEN [s EXCEPT !.pend = NoPend] ELSE End(s), fail)
        fit == i.fit /\ on
        moved == /\ p.what = "level" /\ read /\ ~Faulty
                 /\ \/ frame.level \notin {0, p.value, p.before}
                    \/ frame.run # s.expect.run
    IN  IF p = NoPend THEN s
        ELSE IF s.mode = "WAITING" THEN
            IF (read /\ Applied(p, Seen)) \/ res.rc \notin {"none", "OK"} \/ i.elapsed
            THEN [s EXCEPT !.pend = NoPend] ELSE s
        ELSE IF moved THEN Ret(End(s), IF frame.run = "off" THEN "RUN_ENDED" ELSE "FOREIGN_CHANGE")
        ELSE IF read /\ Applied(p, Seen) THEN [s EXCEPT !.pend = NoPend, !.expect = Seen]
        ELSE IF Faulty THEN s
        ELSE IF res.rc = "REFUSED" THEN IF OffFirst(s) THEN s ELSE giveUp
        ELSE IF res.rc \in {"BUSY", "NOT_READY"} /\ link THEN
            IF IsStart(p) /\ ~fit THEN giveUp ELSE Resend(s, res.what # "power")
        ELSE IF ~(read /\ link /\ i.elapsed) THEN s
        ELSE IF IsStop(p) /\ ~Same(Seen, s.expect) THEN Ret([s EXCEPT !.pend = NoPend], "STOP_DROPPED")
        ELSE IF p.tries < 2 /\ (IsStart(p) => fit) THEN Retry(s)
        ELSE IF OffFirst(s) THEN s
        ELSE giveUp

\* Rule (W): the night wait sends nothing but a stop.  Continuous heating counts once
\* a frame read after the first sight of it still shows it.
Waiting(s0, i) ==
    LET s == IF fresh THEN [s0 EXCEPT !.expect = Seen] ELSE s0
        continuous == fresh /\ frame.run = "cont"
    IN  IF OwnerOff THEN Ret(Stop(s, link /\ fresh, OffWhy), "USER_OFF")
        ELSE IF Faulty THEN Ret(End(s), "FAULT")
        ELSE IF (~continuous \/ s.cont = "no") /\ i.wait = "over" THEN Ret(End(s), "NIGHT_WAIT_ENDED")
        ELSE IF ~continuous THEN Ret([s EXCEPT !.cont = "no"], "WAITING")
        ELSE IF s.cont = "no" THEN Ret([s EXCEPT !.cont = "seen"], "WAITING")
        ELSE IF s.cont = "again" /\ i.wait = "confirmed" THEN Ret(TakeOver([s EXCEPT !.mode = "AUTO"], i), "ADOPT")
        ELSE Ret(s, "WAITING")

\* Rule (2): an AUTO request that no condition refuses.
Enter(s0, i) ==
    LET s == [s0 EXCEPT !.mode = "AUTO", !.pend = NoPend, !.out = <<>>, !.sent = FALSE,
                        !.stop = NoStop, !.night = i.night]
        w == [s EXCEPT !.mode = "WAITING", !.cont = "no", !.expect = Seen]
        l == i.law.level
    IN  IF i.night /\ frame.run # "cont" THEN
            Ret(IF frame.run = "off" THEN TakeOver(w, i) ELSE w, "WAITING")
        ELSE IF frame.run = "off" THEN
            Ret([s EXCEPT !.pend = Pending("power", 1, 0, ""), !.sent = TRUE,
                          !.expect = [run |-> "run", level |-> l],
                          !.out = <<Cmd("runtime", 0), Cmd("level", l), Cmd("power", 1)>>], "START")
        ELSE Ret(TakeOver(s, i), "ADOPT")

\* The stop whose reason is not the owner's OFF runs on whatever is asked.
HeldWhy(s) == IF s.pend # NoPend THEN s.pend.why ELSE IF s.mode = "STOPPING" THEN s.stop.why ELSE ""

Request(s, i) ==
    CASE s.mode \in Active /\ OwnerOff -> Ret(Stop(s, link /\ fresh, OffWhy), "USER_OFF")
      [] req = "AUTO" /\ s.mode \notin Active /\ HeldWhy(s) # "safety" ->
            IF on /\ link /\ fresh /\ ~Faulty /\ i.fit THEN Enter(s, i) ELSE Ret(s, "REFUSED")
      [] OTHER -> s

\* STOPPING: with the link back, stop only what was left running.
Stopping(s) ==
    LET t == [s EXCEPT !.mode = "OFF", !.stop = NoStop]
    IN  IF s.mode \in Active THEN s
        ELSE IF s.mode = "OFF" THEN Ret(s, "")
        ELSE IF ~(link /\ fresh) THEN Ret(s, "STOPPING")
        ELSE IF ~Heating THEN Ret(t, "RUN_ENDED")
        ELSE IF ~Same(Seen, s.stop.snap) THEN Ret(t, "STOP_DROPPED")
        ELSE Ret(Stop([t EXCEPT !.expect = s.stop.snap], TRUE, s.stop.why), "STOPPING")

\* Rules (3) to (6): faults, an unknown heater, a foreign change, the battery, the end of the run.
Guards(s0, i) ==
    LET calm == s0.pend = NoPend
        s == IF calm /\ Heating /\ s0.expect.level = 0 THEN [s0 EXCEPT !.expect.level = frame.level] ELSE s0
    IN  IF Faulty /\ frame.fault = "battery" THEN Ret(Stop(s0, link, "safety"), "BATTERY_LOW")
        ELSE IF Faulty THEN Ret(End(s0), "FAULT")
        ELSE IF ~fresh THEN Ret([s0 EXCEPT !.out = <<>>], "HEATER_UNKNOWN")
        ELSE IF calm /\ Heating /\ ~Same(Seen, s0.expect) THEN Ret(End(s0), "FOREIGN_CHANGE")
        ELSE IF i.law.kind = "battery" THEN Ret(Stop(s, link, "safety"), "BATTERY_LOW")
        ELSE IF calm /\ ~Heating THEN Ret(End(s), "RUN_ENDED")
        ELSE s

\* Rules (7) and (8): the reference, then the control law; never beside a pending command.
Control(s, i) ==
    LET calm == s.pend = NoPend
        k == i.law.kind
        leveled == IF calm /\ i.law.level # frame.level /\ link THEN SendLevel(s, i.law.level, frame.level) ELSE s
    IN  IF k = "swapped" THEN Ret([s EXCEPT !.mode = "AUTO"], "SELECTED")
        ELSE IF k = "lost" THEN Ret([leveled EXCEPT !.mode = "DEGRADED"], "REFERENCE_LOST")
        ELSE IF s.mode = "DEGRADED" THEN Ret([s EXCEPT !.mode = "AUTO"], "AUTO_ON")
        ELSE IF ~calm \/ k = "hold" THEN Ret(s, "HOLD")
        ELSE IF k = "hot" /\ frame.run # "cont" THEN Ret(Stop(s, link, "safety"), "OVERHEAT")
        ELSE Ret(leveled, IF k = "hot" THEN "HOLD_AT_MIN_LEVEL" ELSE "LEVEL")

\* finish(): the night setting ends with the run, the confirm window with the wait.
Finish(s) ==
    [s EXCEPT !.night = s.night /\ s.mode # "OFF", !.cont = IF s.mode = "WAITING" THEN s.cont ELSE "no"]

\* cali_thermo_step(): each rule runs unless an earlier one has returned.
Decide(i) ==
    LET a == Bookkeep(Session, i)
        b == IF a.done THEN a ELSE IF a.mode = "WAITING" THEN Waiting(a, i) ELSE Request(a, i)
        c == IF b.done THEN b ELSE Stopping(b)
        d == IF c.done THEN c ELSE Guards(c, i)
    IN  Finish(IF d.done THEN d ELSE Control(d, i))

\* What a step reads besides the session; only what this step looks at varies.
Circumstances ==
    LET asked == req = "AUTO" /\ on /\ link /\ fresh
    IN  [elapsed : IF pend # NoPend /\ (mode = "WAITING" \/ (fresh /\ post)) THEN BOOLEAN ELSE {FALSE},
         fit : IF asked \/ (IsStart(pend) /\ link) THEN BOOLEAN ELSE {FALSE},
         night : IF asked THEN Nights ELSE {FALSE},
         wait : IF mode = "WAITING" THEN {"on", "confirmed", "over"} ELSE {"on"},
         law : IF mode \in Active /\ fresh THEN Laws({"battery", "swapped", "lost", "hold", "hot"})
               ELSE IF mode = "WAITING" /\ cont = "again" THEN Laws({"lost", "hot"})
               ELSE IF mode \notin Active /\ asked THEN Laws({"hot"})
               ELSE {Hold}]

-----------------------------------------------------------------------------
(* The runner.                                                              *)

Init ==
    /\ mode = "OFF" /\ pend = NoPend /\ expect = NoSnap /\ stop = NoStop
    /\ night = FALSE /\ cont = "no"
    /\ on = FALSE /\ req = "NONE" /\ batch = <<>> /\ inFlight = FALSE /\ batchOn = FALSE
    /\ res = NoResult /\ held = FALSE
    /\ link = FALSE /\ fresh = FALSE /\ post = TRUE /\ frame = NoFrame
    /\ heater = [run |-> "off", level |-> MinLevel]
    /\ ours = FALSE /\ wish = "OFF" /\ ended = FALSE /\ starts = 0

\* cali_ctl_submit(): taken, or answered at once.
Answers == IF link THEN {"PENDING", "BUSY", "REFUSED"} ELSE {"NOT_READY"}

Submit(cmds, rc) ==
    IF cmds = <<>> THEN batch' = <<>> /\ inFlight' = FALSE /\ res' = NoResult
    ELSE IF rc = "PENDING" THEN batch' = cmds /\ inFlight' = TRUE /\ res' = NoResult
    ELSE batch' = <<>> /\ inFlight' = FALSE /\ res' = [what |-> Head(cmds).what, rc |-> rc]

PowerOns(cmds, rc) == IF rc = "PENDING" /\ cmds # <<>> /\ Head(cmds) = Cmd("power", 1) THEN 1 ELSE 0

\* The reasons that let a run go with its heater on, and a frame that does not show it.
LetGo == {"NOT_APPLIED", "STOP_DROPPED", "FAULT", "START_NOT_CONFIRMED", "FOREIGN_CHANGE", "NIGHT_WAIT_ENDED"}
Blind == ~fresh \/ Faulty \/ frame.run # heater.run
Busy == mode # "OFF" \/ pend # NoPend

\* A tick whose step is due: the decision s, then its first command, answered with rc.
\* Here and below a variable is blanked where the code does not read it any more.
Step(s, rc) ==
    LET busy == s.mode # "OFF" \/ s.pend # NoPend
    IN  /\ mode' = s.mode /\ pend' = s.pend /\ stop' = s.stop
        /\ expect' = IF busy /\ s.mode # "STOPPING" THEN s.expect ELSE NoSnap
        /\ night' = s.night /\ cont' = s.cont
        /\ held' = busy
        /\ req' = "NONE"
        /\ Submit(s.out, rc) /\ batchOn' = (on /\ inFlight')
        /\ post' = (~s.sent /\ (post \/ s.pend = NoPend))
        /\ ended' = (~busy /\ (ended \/ s.why \in LetGo \/ (Busy /\ Blind)))
        /\ starts' = (IF IsStart(s.pend) /\ s.why # "START" THEN starts ELSE 0) + PowerOns(s.out, rc)
        /\ ours' = (ours /\ ~(s.why \in {"START", "ADOPT", "WAITING"} /\ Blind))
        /\ UNCHANGED <<on, link, frame, fresh, heater, wish>>

Tick ==
    /\ ~inFlight
    /\ \E s \in {Decide(i) : i \in Circumstances} :
           \E rc \in IF s.out = <<>> THEN {"PENDING"} ELSE Answers : Step(s, rc)

\* A tick that lets an AUTO request wait for the link it woke and a fresh heater.
AutoWaits ==
    /\ ~inFlight /\ req = "AUTO" /\ on /\ mode = "OFF" /\ ~(link /\ fresh)
    /\ held' = TRUE
    /\ UNCHANGED <<thermo, on, req, batch, inFlight, batchOn, res, seen, heater, history>>

\* A slip: the batch goes on whatever the owner asked.
RejectedGoesOn == Len(batch) > 1

\* cmd_done(): the next command of the batch; an owner who switched off meanwhile keeps
\* the rest at home.
GoesOn == Len(batch) > 1 /\ ~(batchOn /\ ~on) /\ req # "OFF"

NextCmd ==
    /\ inFlight /\ GoesOn
    /\ \E rc \in Answers :
           /\ Submit(Tail(batch), rc) /\ batchOn' = (batchOn /\ inFlight')
           /\ starts' = starts + PowerOns(Tail(batch), rc)
    /\ UNCHANGED <<thermo, on, req, held, seen, heater, ours, wish, ended>>

\* FAILED, TIMEOUT and UNCONFIRMED: the decision does not tell them apart.
Results == {"OK", "FAILED"}

\* cmd_done(): the result, for the next step.
CmdDone(rc) ==
    /\ inFlight
    /\ rc = "OK" => ~GoesOn
    /\ batch' = <<>> /\ inFlight' = FALSE /\ batchOn' = FALSE
    /\ res' = IF pend = NoPend THEN NoResult ELSE [what |-> Head(batch).what, rc |-> rc]
    /\ UNCHANGED <<thermo, on, req, held, seen, heater, history>>

\* cali_thermo_apply(): the switch first, then the request of the same body; a switch
\* that cannot be stored ends it, and an enable then stays off.
Post(enabled, ask, stored) ==
    LET failed == enabled # "keep" /\ ~stored
        asked == ~failed /\ ask # "none"
    IN  /\ on' = CASE enabled = "on" -> stored [] enabled = "off" -> FALSE [] enabled = "keep" -> on
        /\ req' = IF asked THEN ask ELSE req
        /\ wish' = IF asked THEN ask ELSE wish
        /\ UNCHANGED <<thermo, batch, inFlight, batchOn, res, held, seen, heater, ours, ended, starts>>

Posts ==
    \/ \E e \in {"on", "off", "keep"}, a \in {"AUTO", "OFF", "none"} : Post(e, a, TRUE)
    \/ \E e \in {"on", "off"} : Post(e, "none", FALSE)

-----------------------------------------------------------------------------
(* The link, the frames and the heater.                                     *)

\* A new frame of 1702; it may carry no level in 1..10.
Reads(f, l) ==
    /\ frame' = [run |-> heater.run, level |-> l, fault |-> f]
    /\ fresh' = TRUE /\ post' = TRUE
    /\ cont' = IF cont = "seen" THEN "again" ELSE cont

\* The session is ready once its read pass is over; the read of 1702 may have failed and
\* left the frame of the link before.
LinkUp(readOk) ==
    /\ ~link
    /\ link' = TRUE
    /\ IF readOk THEN Reads("none", heater.level) ELSE UNCHANGED <<frame, fresh, post, cont>>
    /\ UNCHANGED <<mode, pend, expect, stop, night, runner, heater, history>>

LinkDown == link /\ link' = FALSE /\ UNCHANGED <<thermo, runner, frame, fresh, post, heater, history>>

FrameRead(f, l) ==
    /\ link
    /\ Reads(f, l)
    /\ UNCHANGED <<mode, pend, expect, stop, night, runner, link, heater, history>>

FrameStale ==
    /\ fresh
    /\ fresh' = FALSE /\ frame' = NoFrame
    /\ UNCHANGED <<thermo, runner, link, post, heater, history>>

\* The unit follows the command in flight; it may also ignore it.
Follow ==
    /\ inFlight /\ link
    /\ heater' = Effect(Head(batch), heater)
    /\ heater' # heater
    /\ ours' = (heater'.run # "off" /\ (ours \/ heater.run = "off"))
    /\ UNCHANGED <<thermo, runner, seen, wish, ended, starts>>

\* The run time is over, or somebody uses the panel.
HeaterMoves(h) ==
    /\ h # heater
    /\ heater' = h /\ ours' = FALSE
    /\ UNCHANGED <<thermo, runner, seen, wish, ended, starts>>

Next ==
    \/ Tick
    \/ AutoWaits
    \/ NextCmd
    \/ \E rc \in Results : CmdDone(rc)
    \/ Posts
    \/ \E ok \in BOOLEAN : LinkUp(ok)
    \/ LinkDown
    \/ FrameRead("none", heater.level)
    \/ \E f \in Faults : FrameRead(f, 0)
    \/ FrameStale
    \/ Follow
    \/ HeaterMoves([heater EXCEPT !.run = "off"])
    \/ \E r \in Panel : HeaterMoves([heater EXCEPT !.run = r])
    \/ \E l \in Levels : Panel # {} /\ HeaterMoves([heater EXCEPT !.level = l])

Spec == Init /\ [][Next]_vars

-----------------------------------------------------------------------------
(* Properties.                                                              *)

OffWanted == ~on \/ wish = "OFF"
Settled == ~Busy /\ ~inFlight /\ req = "NONE"

\* Once the owner said OFF, or switched the feature off, nothing but a stop is handed to
\* the sequencer, also not the rest of a start that is on its way (cmd_done).
OnlyStopsAfterOff ==
    [][OffWanted /\ inFlight' /\ batch' # batch => Head(batch') \in StopCommands]_vars

\* The frame shows the heater as this session runs it.
AsExpected ==
    /\ Heating
    /\ mode = "WAITING" \/ (frame.run = expect.run /\ ~IsStart(pend))
    /\ pend.what = "level" => frame.level \in {0, pend.value, pend.before}

\* A step that takes an OFF while the heater is seen to run as expected leaves a stop on
\* its way or waiting for the link; a level command that failed does not end the session
\* first (rules (1), (W) and (2) of cali_thermo_step).
OffIsTaken ==
    [][OwnerOff /\ mode \in Active \cup {"WAITING"} /\ AsExpected
          /\ (mode' # mode \/ (req = "OFF" /\ req' = "NONE"))
        => mode' = "STOPPING" \/ IsStop(pend')]_vars

\* When the thermostat rests after an OFF, the heater it started is off, or it has
\* reported why it let go of it, or the frame it went by did not show the heater.
SettledIsStopped ==
    OffWanted /\ Settled /\ ours /\ heater.run # "off" => ended

\* A power on goes out again once at most, and never to a heater that is not seen or that
\* is seen in the run it asks for (rule (1): tries, post and start_retry_ok).
StartRetry ==
    [][starts' > starts /\ starts > 0 => starts = 1 /\ fresh /\ frame.run # "run"]_vars
=============================================================================
