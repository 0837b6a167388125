-------------------------------- MODULE Roof --------------------------------
(***************************************************************************)
(* The pop-up roof in the daemon (serve.py roof_*, device.py RoofStream):  *)
(* it moves while a button is held, and a STOP must always come.  A press  *)
(* queues for the lock of Daemon like any command; its release, another    *)
(* press and leaving the page do not: they set the press's stop token.     *)
(* Press and release travel as two requests and may arrive in any order.   *)
(* While the roof page is open, a view stream of STOP frames runs on the   *)
(* session, and a press rides it; else it has a stream of its own.         *)
(*                                                                         *)
(* A frame is its direction byte, the counter is left out.  A stream whose *)
(* write failed writes again at its next tick.  When the link is lost, the *)
(* unit stops by itself (its dead man's switch, external).                 *)
(***************************************************************************)
EXTENDS Daemon

CONSTANTS
    Presses,      \* presses of a move button, by anybody
    SettleTicks,  \* ticks of a stream in SETTLE_S
    MaxFaults     \* bound: writes that fail on a live link

ASSUME RoofAssumption == "none" \notin Presses /\ {SettleTicks, MaxFaults} \subseteq Nat

VARIABLES
    press,        \* its task: "no" (not arrived), "wait", "dial", "move", "settle"
                  \* (the STOP is out), "done"
    ride,         \* its stream: "none", "own" or "view"
    cur,          \* _roof_stop: the press whose token it is
    stopped,      \* the presses whose token is set
    freed,        \* those whose release arrived
    stopper,      \* the task of that release, if it is a standalone STOP: "no", "wait",
                  \* "dial", "settle"
    guard,        \* a standalone STOP came within ROOF_RELEASE_GUARD_S
    viewing,      \* _roof_view_until is ahead
    viewLoop,     \* _roof_view_loop runs
    view,         \* the view stream on the session: "off" or its direction
    coldUp,       \* the link of a roof task's own connection
    ticked,       \* of one that settles, the ticks of its stream since the STOP
    drive,        \* the last direction the unit heard on this link
    faults,       \* writes that failed
    spent,        \* history: presses whose early release ended another's move
    unheard       \* history: a STOP failed on a stream that was closed

presses == <<press, ride, cur, stopped, freed, stopper, guard>>
streams == <<viewing, viewLoop, view, coldUp, ticked, drive, faults>>
roofVars == <<presses, streams, spent, unheard>>
vars == <<daemonVars, roofVars>>

\* What no roof task touches.
rest == <<sess, reach, sup, poll, cmd, pairVars>>

NoPress == "none"
Press(p) == <<"press", p>>
Stop(p) == <<"stop", p>>

RoofInit ==
    /\ DaemonInit
    /\ press = [p \in Presses |-> "no"]
    /\ ride = [p \in Presses |-> "none"] /\ stopper = [p \in Presses |-> "no"]
    /\ cur = NoPress /\ stopped = {} /\ freed = {} /\ guard = FALSE
    /\ viewing = FALSE /\ viewLoop = FALSE /\ view = "off" /\ coldUp = FALSE
    /\ ticked = [p \in Presses |-> 0] /\ drive = "stop" /\ faults = 0 /\ spent = {} /\ unheard = FALSE

-----------------------------------------------------------------------------
(* Tokens, links and frames.                                                *)

Pending(p) == p \in Presses /\ p \notin stopped
Moving == Pending(cur)                        \* a release finds a move in flight
TokenSet == stopped' = stopped \cup ({cur} \ {NoPress})

Own(task) == cold = task
Linked(task) == IF Own(task) THEN coldUp ELSE Live

\* One write on a link that is up or not; again says a ticker repeats it.
Writes(frame, up, again) ==
    \/ /\ drive' = IF up THEN frame ELSE drive
       /\ UNCHANGED <<faults, unheard>>
    \/ /\ up /\ faults < MaxFaults /\ faults' = faults + 1
       /\ unheard' = (unheard \/ (frame = "stop" /\ ~again))
       /\ UNCHANGED drive

\* RoofStream.set on the view's stream: a direction that went out is not written again.
Sets(frame, up, on) ==
    IF on = "view" /\ view = frame
    THEN UNCHANGED <<view, drive, faults, unheard>>
    ELSE /\ Writes(frame, up, on = "own" \/ view # "off")
         /\ view' = IF on = "view" /\ view # "off" THEN frame ELSE view

\* The task is over: its stream and its connection are closed, the lock is free.
Over(task) == Leaves /\ cold' = IF Own(task) THEN NoTask ELSE cold

PressOver(p) ==
    /\ press' = [press EXCEPT ![p] = "done"] /\ stopped' = stopped \cup {p}
    /\ ride' = [ride EXCEPT ![p] = "none"] /\ ticked' = [ticked EXCEPT ![p] = 0]
    /\ Over(Press(p))
    /\ UNCHANGED ui

-----------------------------------------------------------------------------
(* The button.                                                              *)

\* A slip: a press leaves the token of the one before.
RejectedPressArrives(p) ==
    /\ press[p] = "no" /\ ~guard
    /\ cur' = p /\ Claim
    /\ press' = [press EXCEPT ![p] = "wait"] /\ Queues(Press(p))
    /\ UNCHANGED <<cold, rest, ride, stopped, freed, stopper, guard, streams, spent, unheard>>

\* _roof_move_command, up to the lock: the token comes before the wait.
PressArrives(p) ==
    /\ press[p] = "no" /\ ~guard
    /\ TokenSet /\ cur' = p /\ Claim
    /\ press' = [press EXCEPT ![p] = "wait"] /\ Queues(Press(p))
    /\ UNCHANGED <<cold, rest, ride, freed, stopper, guard, streams, spent, unheard>>

\* It is taken for the late press of the standalone STOP before it.
PressRefused(p) ==
    /\ press[p] = "no" /\ guard
    /\ press' = [press EXCEPT ![p] = "done"]
    /\ UNCHANGED <<daemonVars, ride, cur, stopped, freed, stopper, guard, streams, spent,
                   unheard>>

\* A press is not later than the guard behind its own release.
GuardEnds ==
    /\ guard /\ \A p \in freed : press[p] # "no"
    /\ guard' = FALSE
    /\ UNCHANGED <<daemonVars, press, ride, cur, stopped, freed, stopper, streams, spent,
                   unheard>>

\* _roof_stop_command.
ReleaseArrives(p) ==
    /\ p \notin freed
    /\ freed' = freed \cup {p} /\ TokenSet
    /\ IF Moving
       THEN /\ spent' = IF press[p] = "no" THEN spent \cup {p} ELSE spent
            /\ UNCHANGED <<lock, stopper, guard>>
       ELSE /\ guard' = TRUE /\ stopper' = [stopper EXCEPT ![p] = "wait"]
            /\ Queues(Stop(p)) /\ UNCHANGED spent
    /\ UNCHANGED <<cold, ui, rest, press, ride, cur, streams, unheard>>

-----------------------------------------------------------------------------
(* A move, under the lock (_roof_move, _actuate_roof_on).                   *)

\* The first frame: the move, or at once the STOP of a press that was stopped.
Goes(p, up, on) ==
    /\ press' = [press EXCEPT ![p] = IF Pending(p) THEN "move" ELSE "settle"]
    /\ ride' = [ride EXCEPT ![p] = on]
    /\ Sets(IF Pending(p) THEN "move" ELSE "stop", up, on)

PressStarts(p) ==
    /\ press[p] = "wait" /\ Holds(Press(p)) /\ Pending(p) /\ Live
    /\ Goes(p, TRUE, IF view = "off" THEN "own" ELSE "view")
    /\ UNCHANGED <<lock, cold, ui, rest, cur, stopped, freed, stopper, guard,
                   viewing, viewLoop, coldUp, ticked, spent>>

PressDials(p) ==
    /\ press[p] = "wait" /\ Holds(Press(p)) /\ Pending(p) /\ ~Live
    /\ press' = [press EXCEPT ![p] = "dial"] /\ cold' = Press(p)
    /\ UNCHANGED <<lock, ui, rest, ride, cur, stopped, freed, stopper, guard,
                   streams, spent, unheard>>

PressDialed(p) ==
    /\ press[p] = "dial" /\ reach
    /\ coldUp' = TRUE /\ Goes(p, TRUE, "own")
    /\ UNCHANGED <<lock, cold, ui, rest, cur, stopped, freed, stopper, guard,
                   viewing, viewLoop, ticked, spent>>

\* Released before it got the lock; no connection.
PressFails(p) ==
    /\ \/ press[p] = "wait" /\ Holds(Press(p)) /\ ~Pending(p)
       \/ press[p] = "dial" /\ ~reach
    /\ PressOver(p)
    /\ UNCHANGED <<rest, cur, freed, stopper, guard, viewing, viewLoop, view, coldUp, drive, faults,
                   spent, unheard>>

\* A slip: a move without limit and cap.
RejectedMoveEnds(p) ==
    /\ press[p] = "move" /\ ~Pending(p)
    /\ press' = [press EXCEPT ![p] = "settle"]
    /\ Sets("stop", Linked(Press(p)), ride[p])
    /\ UNCHANGED <<daemonVars, ride, cur, stopped, freed, stopper, guard, viewing, viewLoop,
                   coldUp, ticked, spent>>

\* The token, the limit, the cap, a counter the unit does not take, a stream
\* that is gone: the move ends in a STOP.
MoveEnds(p) ==
    /\ press[p] = "move"
    /\ press' = [press EXCEPT ![p] = "settle"]
    /\ Sets("stop", Linked(Press(p)), ride[p])
    /\ UNCHANGED <<daemonVars, ride, cur, stopped, freed, stopper, guard, viewing, viewLoop,
                   coldUp, ticked, spent>>

\* It waits SETTLE_S for its stream; more ticks than that are not counted.
Counted(ticks) == IF ticks < SettleTicks THEN ticks + 1 ELSE ticks
Ticks(p) == Linked(Press(p)) /\ (ride[p] = "own" \/ view # "off")

MoveSettles(p) ==
    /\ press[p] = "settle" /\ (Ticks(p) => ticked[p] = SettleTicks)
    /\ PressOver(p)
    /\ coldUp' = (coldUp /\ ~Own(Press(p)))
    /\ UNCHANGED <<rest, cur, freed, stopper, guard, viewing, viewLoop, view, drive, faults, spent,
                   unheard>>

OwnTick(p) ==
    /\ press[p] \in {"move", "settle"} /\ ride[p] = "own" /\ Linked(Press(p))
    /\ Writes(IF press[p] = "move" THEN "move" ELSE "stop", TRUE, TRUE)
    /\ ticked' = [ticked EXCEPT ![p] = IF press[p] = "settle" THEN Counted(@) ELSE @]
    /\ UNCHANGED <<daemonVars, presses, viewing, viewLoop, view, coldUp, spent>>

-----------------------------------------------------------------------------
(* A standalone STOP: a move of no length.                                  *)

StopSends(p) ==
    /\ stopper[p] = "wait" /\ Holds(Stop(p)) /\ Live
    /\ stopper' = [stopper EXCEPT ![p] = "settle"]
    /\ Sets("stop", TRUE, IF view = "off" THEN "own" ELSE "view")
    /\ UNCHANGED <<daemonVars, press, ride, cur, stopped, freed, guard, viewing, viewLoop,
                   coldUp, ticked, spent>>

StopDials(p) ==
    /\ stopper[p] = "wait" /\ Holds(Stop(p)) /\ ~Live
    /\ stopper' = [stopper EXCEPT ![p] = "dial"] /\ cold' = Stop(p)
    /\ UNCHANGED <<lock, ui, rest, press, ride, cur, stopped, freed, guard,
                   streams, spent, unheard>>

StopDialed(p) ==
    /\ stopper[p] = "dial" /\ reach
    /\ stopper' = [stopper EXCEPT ![p] = "settle"] /\ coldUp' = TRUE
    /\ Sets("stop", TRUE, "own")
    /\ UNCHANGED <<daemonVars, press, ride, cur, stopped, freed, guard, viewing, viewLoop,
                   ticked, spent>>

StopEnds(p) ==
    /\ stopper[p] = "settle" \/ (stopper[p] = "dial" /\ ~reach)
    /\ stopper' = [stopper EXCEPT ![p] = "no"] /\ Over(Stop(p))
    /\ coldUp' = (coldUp /\ ~Own(Stop(p)))
    /\ UNCHANGED <<ui, rest, press, ride, cur, stopped, freed, guard, viewing,
                   viewLoop, view, ticked, drive, faults, spent, unheard>>

-----------------------------------------------------------------------------
(* The roof page.                                                           *)

\* roof_view("view"), refreshed while the page is open.
ViewArrives ==
    /\ viewing' = TRUE /\ viewLoop' = TRUE /\ Claim
    /\ UNCHANGED <<lock, cold, rest, presses, view, coldUp, ticked, drive, faults, spent, unheard>>

\* roof_view("leave").
LeaveArrives ==
    /\ viewing' = FALSE /\ TokenSet
    /\ UNCHANGED <<daemonVars, press, ride, cur, freed, stopper, guard, viewLoop, view,
                   coldUp, ticked, drive, faults, spent, unheard>>

ViewLapses ==
    /\ viewing /\ viewing' = FALSE
    /\ UNCHANGED <<daemonVars, presses, viewLoop, view, coldUp, ticked, drive, faults, spent,
                   unheard>>

ViewTicked ==
    ticked' = [p \in Presses |-> IF press[p] = "settle" /\ ride[p] = "view"
                                  THEN Counted(ticked[p]) ELSE ticked[p]]

\* One turn of _roof_view_loop, which knows nothing of the streams of presses.
ViewGoesOn == viewing \/ Moving

ViewStarts ==
    /\ viewLoop /\ ViewGoesOn /\ Live /\ view = "off"
    /\ view' = "stop" /\ Writes("stop", TRUE, TRUE) /\ ViewTicked
    /\ UNCHANGED <<daemonVars, presses, viewing, viewLoop, coldUp, spent>>

ViewEnds ==
    /\ viewLoop /\ ~ViewGoesOn
    /\ viewLoop' = FALSE /\ view' = "off"
    /\ unheard' = (unheard \/ (view = "stop" /\ drive = "move"))
    /\ UNCHANGED <<daemonVars, presses, viewing, coldUp, ticked, drive, faults, spent>>

ViewTick ==
    /\ view # "off"
    /\ Writes(view, TRUE, TRUE) /\ ViewTicked
    /\ UNCHANGED <<daemonVars, presses, viewing, viewLoop, view, coldUp, spent>>

-----------------------------------------------------------------------------
(* The rest of the daemon; links that are lost.                             *)

ColdLost ==
    /\ coldUp /\ coldUp' = FALSE /\ drive' = "stop"
    /\ UNCHANGED <<daemonVars, presses, viewing, viewLoop, view, ticked, faults, spent, unheard>>

DaemonSteps ==
    /\ DaemonNext
    /\ view' = IF sess' = "up" THEN view ELSE "off"
    /\ drive' = IF Live /\ sess' # "up" THEN "stop" ELSE drive
    /\ UNCHANGED <<presses, viewing, viewLoop, coldUp, ticked, faults, spent, unheard>>

PressSteps(p) ==
    PressStarts(p) \/ PressDials(p) \/ PressDialed(p) \/ PressFails(p) \/ MoveEnds(p)
        \/ MoveSettles(p)
StopSteps(p) == StopSends(p) \/ StopDials(p) \/ StopDialed(p) \/ StopEnds(p)

RoofNext ==
    \/ DaemonSteps
    \/ \E p \in Presses : \/ PressArrives(p) \/ PressRefused(p)
                          \/ ReleaseArrives(p) \/ PressSteps(p) \/ StopSteps(p) \/ OwnTick(p)
    \/ GuardEnds \/ ViewArrives \/ LeaveArrives \/ ViewLapses \/ ViewStarts \/ ViewEnds \/ ViewTick
    \/ ColdLost

\* As in Daemon: every operation on the radio ends, and the cap ends a move.
RoofFairness ==
    /\ DaemonFairness
    /\ WF_vars(\E p \in Presses : PressSteps(p) \/ StopSteps(p))
    /\ WF_vars(\E p \in Presses : OwnTick(p))
    /\ WF_vars(ViewTick)

RoofSpec == RoofInit /\ [][RoofNext]_vars /\ RoofFairness

-----------------------------------------------------------------------------
(* Properties.                                                              *)

RoofTypeOK ==
    /\ cur \in Presses \cup {NoPress}
    /\ stopped \cup freed \cup spent \subseteq Presses
    /\ press \in [Presses -> {"no", "wait", "dial", "move", "settle", "done"}]
    /\ ride \in [Presses -> {"none", "own", "view"}]
    /\ stopper \in [Presses -> {"no", "wait", "dial", "settle"}]
    /\ {guard, viewing, viewLoop, coldUp, unheard} \subseteq BOOLEAN
    /\ view \in {"off", "stop", "move"} /\ drive \in {"stop", "move"}
    /\ ticked \in [Presses -> 0..SettleTicks] /\ faults \in 0..MaxFaults

\* A release, another press or leaving the page reaches every press that
\* moves or still may: _roof_stop is its token, from before it waits for the
\* lock to its end (serve.py _roof_move_command).
StopReaches ==
    \A p \in Presses : press[p] \in {"wait", "dial", "move"} /\ Pending(p) => cur = p

\* Nobody's roof moves on after the release, whichever of the two requests
\* came first (serve.py ROOF_RELEASE_GUARD_S).  Not covered by the code: an
\* early release that was taken for the one of another move.
HeldOrStopped == \A p \in freed \ spent : press[p] = "move" => p \in stopped

\* When no press is at it, the last the unit heard is STOP, though a write
\* fails (device.py _actuate_roof_on, RoofStream); but for a STOP that failed
\* just when the page was left and its stream closed.
LastWordIsStop ==
    drive = "move" => unheard \/ \E p \in Presses : press[p] \in {"move", "settle"}

\* What these rest on.  A roof task uses the radio only with the lock; a connection
\* of its own is up while it is at it.
RoofOnRadio ==
    /\ \A p \in Presses :
        /\ press[p] \in {"dial", "move", "settle"} => Holds(Press(p))
        /\ stopper[p] \in {"dial", "settle"} => Holds(Stop(p))
        /\ press[p] = "dial" => Own(Press(p))
        /\ stopper[p] = "dial" => Own(Stop(p))
        /\ Own(Press(p)) => press[p] = "dial" \/ ride[p] = "own"
    /\ coldUp => \E p \in Presses : \/ Own(Press(p)) /\ press[p] \in {"move", "settle"}
                                    \/ Own(Stop(p)) /\ stopper[p] = "settle"

\* A press that is still to come after its release meets the guard, and one that
\* waits or dials is stopped already; no STOP is for a press still held.
ReleaseKept ==
    /\ \A p \in freed \ spent :
        /\ press[p] \in {"wait", "dial", "move"} => p \in stopped
        /\ press[p] = "no" => guard
    /\ \A p \in Presses \ freed : stopper[p] = "no"

\* A stream moves only for a press that rides it, on a session that is up.
StreamKept ==
    /\ \A p \in Presses : ticked[p] > 0 => press[p] = "settle"
    /\ view # "off" => Live
    /\ view = "move" => \E p \in Presses : press[p] = "move" /\ ride[p] = "view"
    /\ \A p \in Presses : press[p] \in {"move", "settle"} => ride[p] # "none"

\* A press moves, or its STOP and every tick of its stream since have failed.
AtIt(p) ==
    \/ press[p] = "move" /\ (ride[p] = "view" /\ view = "stop" => faults > 0)
    \/ /\ press[p] = "settle" /\ faults > ticked[p]
       /\ ride[p] = "view" => view # "off"

\* While the roof moves, a press is at it, over a link.
DriveKept == drive = "move" /\ ~unheard => (Live \/ coldUp) /\ \E p \in Presses : AtIt(p)

\* What always holds of the radio and the roof (serve.py roof_*, device.py
\* RoofStream).
RoofInv ==
    /\ RoofTypeOK /\ DaemonInv /\ StopReaches /\ HeldOrStopped /\ LastWordIsStop
    /\ RoofOnRadio /\ ReleaseKept /\ StreamKept /\ DriveKept

\* Every press comes to an end, and with it the roof stands (R_ROOF_ACTUATE:
\* "never left running unbounded").
MovesEnd == \A p \in Presses : press[p] = "wait" ~> press[p] = "done"
=============================================================================
