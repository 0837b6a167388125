----------------------------- MODULE ControlRun -----------------------------
(***************************************************************************)
(* The command sequencer (firmware/components/cali_core/control_run.c):    *)
(* one control command at a time, its frames written one by one with       *)
(* response, an optional pull of the lighting configuration first, and one *)
(* answer to whoever submitted it.                                         *)
(*                                                                         *)
(* The variables from active to pullIn are the fields of control_run.c's   *)
(* O; wire, link and ready are what it sees of the transport and of the    *)
(* session; the others only record what happened, for the properties.      *)
(* Time is counted in ticks; a stamp is held as the ticks left to it.      *)
(***************************************************************************)
EXTENDS Integers, Sequences

CONSTANTS
    Deadline,       \* CALI_CTL_DEADLINE_MS
    PullTime,       \* CODEC_CONFIG_PULL_MS
    FollowDelay,    \* CODEC_FOLLOW_DELAY_MS
    Plans           \* plans of cali_ctl_plan(): the delay of each frame after the last ACK

Delays == Seq({0, FollowDelay})     \* cali_ctl_plan_t.f[].delay_ms

ASSUME ControlAssumption ==
    /\ Deadline \in Nat \ {0} /\ PullTime \in Nat /\ FollowDelay \in Nat
    /\ Plans \subseteq Delays /\ <<>> \notin Plans

VARIABLES
    active,      \* O.active: a command runs
    inflight,    \* O.inflight: a write's WRITTEN has not come back
    i,           \* O.i: frames of the plan ACKed
    plan,        \* O.plan
    pull,        \* O.pull: 0, 1 = the request goes out, 2 = the unit's reply is awaited
    deadlineIn,  \* until O.deadline
    nextIn,      \* until O.next_at
    pullIn,      \* until O.pull_until
    link,        \* "up", "dying" (failed, not reported yet), "lost" since the last tick, "down"
    ready,       \* cali_session_ready() and this link's frame of the function
    wire,        \* writes in the transport: "mine" the running command's, "old" an earlier one's
    taken,       \* frames of the running plan the unit has ACKed
    reached,     \* a frame of the command, not of its pull, may have reached the unit
    gap,         \* full ticks since the running command's last ACK, up to FollowDelay
    relinked,    \* a link that a tick saw down was replaced since the command was accepted
    answer,      \* what done() was last called with, "none" while a command waits for it
    calls        \* how often done() was called for the latest command

ctl == <<active, inflight, i, plan, pull, deadlineIn, nextIn, pullIn>>
vars == <<ctl, link, ready, wire, taken, reached, gap, relinked, answer, calls>>

-----------------------------------------------------------------------------
PullPlan == <<0, FollowDelay>>     \* cali_ctl_pull_plan(): the request and its commit

\* Rejected* operators are variants of the next definition with a slip in them;
\* each shows that a property below can fail.
RejectedBusy == active

Busy == active \/ inflight

LinkUp == link \in {"up", "dying"}     \* cali_session_link_up()

Init ==
    /\ active = FALSE /\ inflight = FALSE /\ i = 0 /\ plan = <<>> /\ pull = 0
    /\ deadlineIn = 0 /\ nextIn = 0 /\ pullIn = 0
    /\ link = "down" /\ ready = FALSE /\ wire = <<>>
    /\ taken = 0 /\ reached = FALSE /\ gap = 0 /\ relinked = FALSE
    /\ answer = "none" /\ calls = 0

\* The write left in the transport by a command that ended is an old one.
Aged(x) == IF x = <<>> THEN x ELSE <<"old">>

\* finish().
Finish(result) ==
    /\ active' = FALSE /\ pull' = 0
    /\ answer' = result /\ calls' = calls + 1

-----------------------------------------------------------------------------
\* submit(): accepted with a plan or with a pull first.  The answers given at once
\* (busy, not ready, refused, bad value) leave everything as it is.
Submit ==
    /\ ~Busy /\ ready
    /\ \E pulling \in BOOLEAN, p \in Plans :
        /\ plan' = IF pulling THEN PullPlan ELSE p
        /\ pull' = IF pulling THEN 1 ELSE 0
        /\ deadlineIn' = Deadline + (IF pulling THEN PullTime ELSE 0)
    /\ active' = TRUE /\ i' = 0 /\ nextIn' = 0
    /\ taken' = 0 /\ reached' = FALSE /\ relinked' = FALSE
    /\ answer' = "none" /\ calls' = 0
    /\ UNCHANGED <<inflight, pullIn, link, ready, wire, gap>>

-----------------------------------------------------------------------------
(* cali_ctl_tick().                                                        *)

Down(n) == IF n = 0 THEN 0 ELSE n - 1

Clock ==
    /\ deadlineIn' = Down(deadlineIn)
    /\ gap' = IF gap < FollowDelay THEN gap + 1 ELSE gap
    /\ link' = IF link = "lost" THEN "down" ELSE link
    /\ UNCHANGED <<ready, relinked>>

\* A command frame is out or was ACKed; the frames of a pull never actuate.
Sent == pull = 0 /\ (inflight \/ i > 0)

\* Only a command with a write out is ended with the link.
RejectedTickNoLink ==
    /\ Clock /\ ~LinkUp /\ inflight' = FALSE
    /\ IF active /\ Sent THEN Finish("unconfirmed")
       ELSE UNCHANGED <<active, pull, answer, calls>>
    /\ UNCHANGED <<i, plan, nextIn, pullIn, wire, taken, reached>>

\* The write that was out is not forgotten with the link.
RejectedTickLinkGone ==
    /\ Clock /\ ~LinkUp /\ inflight' = inflight
    /\ IF active THEN Finish(IF Sent THEN "unconfirmed" ELSE "link_lost")
       ELSE UNCHANGED <<active, pull, answer, calls>>
    /\ UNCHANGED <<i, plan, nextIn, pullIn, wire, taken, reached>>

TickNoLink ==
    /\ Clock /\ ~LinkUp /\ inflight' = FALSE
    /\ IF active THEN Finish(IF Sent THEN "unconfirmed" ELSE "link_lost")
       ELSE UNCHANGED <<active, pull, answer, calls>>
    /\ UNCHANGED <<i, plan, nextIn, pullIn, wire, taken, reached>>

TickIdle ==
    /\ Clock /\ LinkUp /\ ~active
    /\ UNCHANGED <<active, inflight, i, plan, pull, nextIn, pullIn, wire, taken, reached,
                   answer, calls>>

Expired == Down(deadlineIn) = 0

TickExpired ==
    /\ Clock /\ LinkUp /\ active /\ Expired
    /\ Finish("timeout")
    /\ wire' = Aged(wire)
    /\ UNCHANGED <<inflight, i, plan, nextIn, pullIn, taken, reached>>

\* Frame k of plan p goes out, or not: the transport refuses it (nothing sent), or the
\* stack fails it inside the call and on_written() runs there.
Write(p, k) ==
    /\ plan' = p /\ i' = k /\ taken' = (IF pull = 2 THEN 0 ELSE taken)
    /\ \/ /\ link = "up" /\ inflight' = TRUE
          /\ wire' = Append(wire, "mine") /\ reached' = (reached \/ pull # 1)
          /\ pull' = (IF pull = 2 THEN 0 ELSE pull)
          /\ UNCHANGED <<active, answer, calls>>
       \/ /\ inflight' = FALSE
          /\ \E result \in {"not_issued", "att_error"} : Finish(result)
          /\ UNCHANGED <<wire, reached>>
    /\ UNCHANGED <<nextIn, pullIn>>

Running == LinkUp /\ active /\ ~Expired

\* A write is out or its time has not come.
TickWait ==
    /\ Clock /\ Running /\ pull # 2 /\ (inflight \/ Down(nextIn) > 0)
    /\ nextIn' = Down(nextIn)
    /\ UNCHANGED <<active, inflight, i, plan, pull, pullIn, wire, taken, reached, answer, calls>>

TickWrite ==
    /\ Clock /\ Running /\ pull # 2 /\ ~inflight /\ Down(nextIn) = 0
    /\ Write(plan, i)

\* pull = 2: the command is planned again over the unit's reply frames, every tick
\* until they are there or the pull's time is over.
TickReply ==
    /\ Clock /\ Running /\ pull = 2
    /\ \/ /\ Down(pullIn) > 0       \* still unknown
          /\ pullIn' = Down(pullIn)
          /\ UNCHANGED <<active, inflight, i, plan, pull, nextIn, wire, taken, reached,
                         answer, calls>>
       \/ \* still unknown, or the reply's own gate; or its clock does not fit the frame
          /\ \E result \in {"refused", "bad_value"} : Finish(result)
          /\ UNCHANGED <<inflight, i, plan, nextIn, pullIn, wire, taken, reached>>
       \/ \E p \in Plans : Write(p, 0)

Tick == TickNoLink \/ TickIdle \/ TickExpired \/ TickWait \/ TickWrite \/ TickReply

-----------------------------------------------------------------------------
(* cali_ctl_on_written().                                                  *)

\* The gap counts from the tick after the ACK: it may have come just before one.
NextDelay == IF plan[i + 2] > 0 THEN plan[i + 2] + 1 ELSE 0

\* The late ACK of a command that has ended does not count.
Counts == inflight /\ active

Written(ok) ==
    /\ LinkUp /\ wire # <<>>
    /\ LET mine == Head(wire) = "mine"
           last == i + 1 = Len(plan)
       IN  /\ inflight' = FALSE
           /\ CASE ~Counts -> UNCHANGED <<active, i, pull, nextIn, pullIn, answer, calls>>
                [] Counts /\ ~ok ->
                    Finish("att_error") /\ UNCHANGED <<i, nextIn, pullIn>>
                [] Counts /\ ok /\ ~last ->
                    /\ i' = i + 1 /\ nextIn' = NextDelay
                    /\ UNCHANGED <<active, pull, pullIn, answer, calls>>
                [] Counts /\ ok /\ last /\ pull = 1 ->
                    /\ i' = i + 1 /\ pull' = 2 /\ pullIn' = PullTime
                    /\ UNCHANGED <<active, nextIn, answer, calls>>
                [] Counts /\ ok /\ last /\ pull # 1 ->
                    Finish("ok") /\ i' = i + 1 /\ UNCHANGED <<nextIn, pullIn>>
           /\ wire' = Tail(wire)
           /\ taken' = IF mine /\ ok THEN taken + 1 ELSE taken
           /\ reached' = IF mine /\ ~ok THEN taken > 0 /\ reached ELSE reached
           /\ gap' = IF mine THEN 0 ELSE gap
    /\ UNCHANGED <<plan, deadlineIn, link, ready, relinked>>

-----------------------------------------------------------------------------
(* The link under the sequencer (session.c, ble_nimble.c op_finish).       *)

\* The stack fails the outstanding write because the link is going: the transport
\* drops its queue silently and takes no more writes; DISCONNECTED follows.
LinkDies ==
    /\ link = "up" /\ link' = "dying" /\ wire' = <<>>
    /\ UNCHANGED <<ctl, ready, taken, reached, gap, relinked, answer, calls>>

LinkLost ==
    /\ LinkUp /\ link' = "lost" /\ wire' = <<>> /\ ready' = FALSE
    /\ UNCHANGED <<ctl, taken, reached, gap, relinked, answer, calls>>

\* The next link may be up before a tick saw the last one down.
Relink ==
    /\ link \in {"lost", "down"}
    /\ link' = "up" /\ relinked' = (relinked \/ link = "down")
    /\ UNCHANGED <<ctl, ready, wire, taken, reached, gap, answer, calls>>

\* The read-all ends and the link is armed; or the mode leaves hold.
ReadyChanges ==
    /\ LinkUp /\ ready' = ~ready
    /\ UNCHANGED <<ctl, link, wire, taken, reached, gap, relinked, answer, calls>>

Environment == LinkDies \/ LinkLost \/ Relink \/ ReadyChanges

Next == Submit \/ Tick \/ (\E ok \in BOOLEAN : Written(ok)) \/ Environment

Spec == Init /\ [][Next]_vars

-----------------------------------------------------------------------------
(* Safety.                                                                 *)

Results == {"none", "ok", "not_issued", "att_error", "link_lost", "unconfirmed", "timeout",
            "refused", "bad_value"}

Writes == Seq({"mine", "old"})

FlagsOK ==
    /\ active \in BOOLEAN /\ inflight \in BOOLEAN /\ ready \in BOOLEAN
    /\ reached \in BOOLEAN /\ relinked \in BOOLEAN

\* Type correctness of control_run.c's O as modelled.
TypeOK ==
    /\ FlagsOK
    /\ i \in Nat /\ plan \in Delays /\ pull \in 0..2
    /\ deadlineIn \in Nat /\ nextIn \in Nat /\ pullIn \in Nat
    /\ link \in {"up", "dying", "lost", "down"}
    /\ wire \in Writes
    /\ taken \in Nat /\ gap \in Nat
    /\ answer \in Results /\ calls \in Nat

\* Success is reported only when the unit ACKed every frame of this command: the late
\* ACK of a command that timed out is never counted for the next one (on_written, busy).
OkMeansAcked == answer = "ok" => taken = Len(plan)

\* done() is called once per command, and never while it still runs (finish).
DoneOnce == calls <= 1 /\ (active => calls = 0)

\* A link lost under a command is reported as unconfirmed exactly when one of its frames
\* may have reached the unit, so "failed" is safe to retry (tick).
LossIsHonest == answer \in {"unconfirmed", "link_lost"} => (answer = "unconfirmed") = reached

\* A frame goes out no sooner than its delay after the last ACK, whenever between two
\* ticks that ACK came (on_written's next_at), and never on a later link than the one
\* its command was accepted on, armed and read for it, once a tick saw that link down.
FrameInPlace ==
    [][wire' = Append(wire, "mine") =>
        /\ i' > 0 => gap >= plan'[i' + 1]
        /\ ~relinked]_vars

\* Success is reported only when every frame was ACKed, each command is answered once, and
\* a lost link is answered unconfirmed exactly when a frame may have reached the unit.
\* These rest on: a write in the transport is the running command's, or a late one of a
\* command that has ended; a running command counts its own ACKs only, has not been
\* answered, and may have reached the unit exactly when Sent says so.
AnswerInv ==
    /\ TypeOK
    /\ wire \in {<<>>, <<"mine">>, <<"old">>}
    /\ wire # <<>> => inflight /\ link = "up"
    /\ wire = <<"mine">> => active
    /\ wire = <<"old">> => ~active
    /\ active => /\ taken = i /\ (reached <=> Sent)
                 /\ IF pull = 2 THEN ~inflight ELSE i < Len(plan)
    /\ ~active => pull = 0
    /\ ready => LinkUp
    /\ OkMeansAcked /\ DoneOnce /\ LossIsHonest
    /\ active => answer = "none"

\* A frame that waits for its time has waited since the last ACK or still has to, and a
\* running command is on the link it was accepted on, as far as a tick can tell.
Waited == gap >= plan[i + 1] \/ gap + nextIn > plan[i + 1]
PlaceInv ==
    /\ active => ~relinked /\ link # "down"
    /\ active /\ pull # 2 /\ i > 0 => Waited

\* The inductive invariant: the answers are true and the frames in place
\* (control_run.c tick, on_written, finish).
CtlInv == AnswerInv /\ PlaceInv

\* A tick has seen the link down since the last command was accepted: it is still down,
\* or that link has been replaced since.
SeenDown == link = "down" \/ relinked

\* The sequencer as the session sees it.
Port == INSTANCE ControlPort WITH busy <- Busy, up <- LinkUp, seen <- SeenDown

\* The sequencer keeps the promises Session relies on: one command at a time, accepted
\* only on a link, and neither a command nor the write of one survives a tick without a
\* link (tick): the tick that sees the link gone is a step of its own, it leaves nothing
\* busy, and nothing is busy again before the next command is accepted.
PortSpec == Port!Spec

-----------------------------------------------------------------------------
(* Liveness.                                                               *)

\* The tick timer runs; NimBLE answers a write or gives the link up after its ATT
\* timeout, and a link it gave up is reported as disconnected.
Fairness ==
    /\ WF_vars(Tick)
    /\ WF_vars(wire # <<>> /\ ((\E ok \in BOOLEAN : Written(ok)) \/ LinkDies))
    /\ WF_vars(link = "dying" /\ LinkLost)

FairSpec == Spec /\ Fairness

\* A write that went with a link which was lost and up again between two ticks:
\* nothing will answer it, and no tick sees the loss.
Orphaned == inflight /\ wire = <<>> /\ link = "up"

\* The sequencer never stays busy for good, also when no ACK ever comes (on_written,
\* tick with no link), an orphaned write excepted.
BusyEnds == Busy ~> (~Busy \/ Orphaned)

=============================================================================
