------------------------------- MODULE Daemon -------------------------------
(***************************************************************************)
(* The daemon on the Pi (calictl/serve.py, calictl/session.py): one asyncio *)
(* loop whose tasks share the radio under one FIFO lock, serve's _ble.     *)
(* The supervisor holds a session while the web UI is in use, the poll     *)
(* loop reads, commands write, and a guided pairing flow takes the radio   *)
(* for minutes without the lock.  An action is what one task does between  *)
(* two awaits; a task that needs the lock queues for it and acts when it   *)
(* is at its head.                                                         *)
(*                                                                         *)
(* Every delay (interval, backoff, idle time, waiting for a session) may   *)
(* end at any step, with or without the supervisor's _wake, which only     *)
(* makes it shorter.  A command that the gates refuse writes nothing and   *)
(* ends like one that fails; the poll's own commands, the auto camper's,   *)
(* are commands like any other.  The pairing state machine is Pairing's;   *)
(* here a flow is running or not.                                          *)
(***************************************************************************)
EXTENDS Naturals, Sequences

CONSTANTS
    Commands,     \* commands at a time
    Starts        \* start tasks of pairing flows at a time

VARIABLES
    holder,       \* serve's _ble: the task that has it
    queue,        \* and those that wait for it, in order
    ui,           \* "release" (_session_mode), else the web UI was used within
                  \* ui_idle_s: "active", or not: "idle"
    sup,          \* the supervisor: "idle", "nap", "backoff", or with or for the
                  \* lock "connect" or "drop"
    sess,         \* _session: "none", "up", or "lost", not yet replaced
    cold,         \* the task that holds a connection of its own
    reach,        \* the unit answers a connect
    poll,         \* the poll loop: "nap", "wait" for the lock, "read"
    cmd,          \* a command: "off", "warm" (waits for a session), "wait", "act"
    flow,         \* a pairing flow runs
    pending,      \* _pairing_pending
    startTask,    \* _pairing_start_task
    start,        \* a start task: "off", "wait", "run"
    cancelling    \* the start task a cancel waits for

lock == <<holder, queue>>
radio == <<lock, sess, cold, reach>>
supVars == <<ui, sup>>
pairVars == <<flow, pending, startTask, start, cancelling>>
daemonVars == <<radio, supVars, poll, cmd, pairVars>>

-----------------------------------------------------------------------------
(* The lock and its tasks.                                                  *)

NoTask == <<"none", "">>
Sup == <<"sup", "">>
Poll == <<"poll", "">>
Cmd(c) == <<"cmd", c>>
Start(t) == <<"start", t>>

Holds(task) == holder = task

Queues(task) ==
    IF holder = NoTask THEN holder' = task /\ UNCHANGED queue
    ELSE queue' = Append(queue, task) /\ UNCHANGED holder

Leaves ==
    IF queue = <<>> THEN holder' = NoTask /\ UNCHANGED queue
    ELSE holder' = Head(queue) /\ queue' = Tail(queue)

\* At once to the end of the queue again.
Requeues(task) ==
    IF queue = <<>> THEN UNCHANGED lock
    ELSE holder' = Head(queue) /\ queue' = Append(Tail(queue), task)

\* A waiter that is cancelled leaves the queue.
Withdraws(task) ==
    IF Holds(task) THEN Leaves
    ELSE queue' = SelectSeq(queue, LAMBDA other : other # task) /\ UNCHANGED holder

\* live_session(): what a holder of the lock uses, else a connection of its own.
Live == sess = "up"
Connects(task) == cold' = IF Live THEN cold ELSE task
Disconnects == cold' = NoTask

UiActive == ui = "active"
Connecting == sup = "connect" /\ Holds(Sup)     \* session_state is "connecting"
OwnsRadio == pending \/ flow

\* claim_intent().
Claim == ui' = "active"

DaemonInit ==
    /\ holder = NoTask /\ queue = <<>> /\ sess = "none" /\ cold = NoTask /\ reach \in BOOLEAN
    /\ ui = "idle" /\ sup = "idle"
    /\ poll = "nap" /\ cmd = [c \in Commands |-> "off"]
    /\ flow = FALSE /\ pending = FALSE /\ startTask = NoTask /\ cancelling = NoTask
    /\ start = [t \in Starts |-> "off"]

-----------------------------------------------------------------------------
(* The unit and the web UI.                                                 *)

LinkLost ==
    /\ Live /\ sess' = "lost"
    /\ UNCHANGED <<lock, cold, reach, supVars, poll, cmd, pairVars>>

UnitSleeps ==
    /\ reach /\ reach' = FALSE
    /\ sess' = IF Live THEN "lost" ELSE sess
    /\ UNCHANGED <<lock, cold, supVars, poll, cmd, pairVars>>

UnitWakes ==
    /\ ~reach /\ reach' = TRUE
    /\ UNCHANGED <<lock, sess, cold, supVars, poll, cmd, pairVars>>

\* A browser polls the state: of no use while the session is let go.
Browse ==
    /\ ui = "idle" /\ ui' = "active"
    /\ UNCHANGED <<radio, sup, poll, cmd, pairVars>>

UiLapses ==
    /\ ui = "active" /\ ui' = "idle"
    /\ UNCHANGED <<radio, sup, poll, cmd, pairVars>>

\* set_mode("connect"), set_mode("disconnect").
Connect ==
    /\ Claim
    /\ UNCHANGED <<radio, sup, poll, cmd, pairVars>>

Disconnect ==
    /\ ui' = "release"
    /\ UNCHANGED <<radio, sup, poll, cmd, pairVars>>

-----------------------------------------------------------------------------
(* The supervisor.                                                          *)

\* A slip: a session that was lost counts as up.
RejectedSought(s) ==
    IF UiActive THEN (IF s # "none" THEN "nap" ELSE "connect")
    ELSE (IF s = "none" THEN "idle" ELSE "drop")

\* The top of its loop: what it goes for next, given the session.
Sought(s) ==
    IF UiActive THEN (IF s = "up" THEN "nap" ELSE "connect")
    ELSE (IF s = "none" THEN "idle" ELSE "drop")

\* The waits that _wake ends, and the sleep over a session that is up.
SupWakes ==
    /\ sup \in {"idle", "backoff", "nap"}
    /\ sup' = Sought(sess)
    /\ IF sup' \in {"connect", "drop"} THEN Queues(Sup) ELSE UNCHANGED lock
    /\ UNCHANGED <<sess, cold, reach, ui, poll, cmd, pairVars>>

\* The session is closed; the loop does not look at the UI again before it waits.
SupDrops ==
    /\ sup = "drop" /\ Holds(Sup)
    /\ sess' = "none" /\ sup' = "idle" /\ Leaves
    /\ UNCHANGED <<cold, reach, ui, poll, cmd, pairVars>>

SupConnects ==
    /\ Connecting /\ reach
    /\ sess' = "up" /\ sup' = Sought("up")
    /\ IF sup' = "drop" THEN Requeues(Sup) ELSE Leaves
    /\ UNCHANGED <<cold, reach, ui, poll, cmd, pairVars>>

SupFails ==
    /\ Connecting /\ ~reach
    /\ sess' = "none" /\ sup' = "backoff" /\ Leaves
    /\ UNCHANGED <<cold, reach, ui, poll, cmd, pairVars>>

-----------------------------------------------------------------------------
(* The poll loop, and commands.                                             *)

PollBegins ==
    /\ poll = "nap" /\ ~Connecting /\ ~OwnsRadio
    /\ poll' = "wait" /\ Queues(Poll)
    /\ UNCHANGED <<sess, cold, reach, supVars, cmd, pairVars>>

PollReads ==
    /\ poll = "wait" /\ Holds(Poll) /\ ~OwnsRadio
    /\ poll' = "read" /\ Connects(Poll)
    /\ UNCHANGED <<lock, sess, reach, supVars, cmd, pairVars>>

PollSkips ==
    /\ poll = "wait" /\ Holds(Poll) /\ OwnsRadio
    /\ poll' = "nap" /\ Leaves
    /\ UNCHANGED <<sess, cold, reach, supVars, cmd, pairVars>>

PollEnds ==
    /\ poll = "read"
    /\ poll' = "nap" /\ Disconnects /\ Leaves
    /\ UNCHANGED <<sess, reach, supVars, cmd, pairVars>>

\* on_command, but for the roof: set_mode("connect"), a wait for the session
\* outside the lock, the lock.
CmdBegins(c) ==
    /\ cmd[c] = "off" /\ Claim
    /\ cmd' = [cmd EXCEPT ![c] = IF Live THEN "wait" ELSE "warm"]
    /\ IF Live THEN Queues(Cmd(c)) ELSE UNCHANGED lock
    /\ UNCHANGED <<sess, cold, reach, sup, poll, pairVars>>

CmdWarmed(c) ==
    /\ cmd[c] = "warm"
    /\ cmd' = [cmd EXCEPT ![c] = "wait"] /\ Queues(Cmd(c))
    /\ UNCHANGED <<sess, cold, reach, supVars, poll, pairVars>>

CmdActs(c) ==
    /\ cmd[c] = "wait" /\ Holds(Cmd(c))
    /\ cmd' = [cmd EXCEPT ![c] = "act"] /\ Connects(Cmd(c))
    /\ UNCHANGED <<lock, sess, reach, supVars, poll, pairVars>>

CmdEnds(c) ==
    /\ cmd[c] = "act"
    /\ cmd' = [cmd EXCEPT ![c] = "off"] /\ Disconnects /\ Leaves
    /\ UNCHANGED <<sess, reach, supVars, poll, pairVars>>

-----------------------------------------------------------------------------
(* Pairing: a start waits for the lock, the flow runs without it.           *)

StartArrives(t) ==
    /\ ~pending /\ start[t] = "off" /\ cancelling # Start(t)
    /\ ui' = "release"
    /\ pending' = TRUE /\ startTask' = Start(t)
    /\ start' = [start EXCEPT ![t] = "wait"] /\ Queues(Start(t))
    /\ UNCHANGED <<sess, cold, reach, sup, poll, cmd, flow, cancelling>>

StartRuns(t) ==
    /\ start[t] = "wait" /\ Holds(Start(t)) /\ cancelling # Start(t) /\ pending
    /\ start' = [start EXCEPT ![t] = "run"] /\ flow' = TRUE
    /\ UNCHANGED <<radio, supVars, poll, cmd, pending, startTask, cancelling>>

\* The end of the start task: of its start, of one that finds itself
\* abandoned, or by a cancel; its finally takes _pairing_pending and
\* _pairing_start_task, whosever they are by now.
StartEnds(t) ==
    /\ \/ start[t] = "run"
       \/ start[t] = "wait" /\ Holds(Start(t)) /\ ~pending
       \/ start[t] = "wait" /\ cancelling = Start(t)
    /\ start' = [start EXCEPT ![t] = "off"] /\ Withdraws(Start(t))
    /\ pending' = FALSE /\ startTask' = NoTask
    /\ UNCHANGED <<sess, cold, reach, supVars, poll, cmd, flow, cancelling>>

\* "cancel" and "reset": _abandon_pending_pairing_start, then the runner's cancel.
CancelArrives ==
    /\ cancelling = NoTask
    /\ startTask' = NoTask /\ pending' = FALSE /\ cancelling' = startTask
    /\ flow' = (flow /\ startTask # NoTask)
    /\ UNCHANGED <<radio, supVars, poll, cmd, start>>

CancelEnds(t) ==
    /\ cancelling = Start(t) /\ start[t] = "off"
    /\ cancelling' = NoTask /\ flow' = FALSE
    /\ UNCHANGED <<radio, supVars, poll, cmd, pending, startTask, start>>

\* The flow ends by itself: bonded, refused, timed out.
FlowEnds ==
    /\ flow /\ flow' = FALSE
    /\ UNCHANGED <<radio, supVars, poll, cmd, pending, startTask, start, cancelling>>

-----------------------------------------------------------------------------
SupSteps == SupWakes \/ SupDrops \/ SupConnects \/ SupFails
PollSteps == PollBegins \/ PollReads \/ PollSkips \/ PollEnds
CmdSteps(c) == CmdWarmed(c) \/ CmdActs(c) \/ CmdEnds(c)
StartSteps(t) == StartRuns(t) \/ StartEnds(t) \/ CancelEnds(t)

DaemonNext ==
    \/ LinkLost \/ UnitSleeps \/ UnitWakes \/ Browse \/ UiLapses \/ Connect \/ Disconnect
    \/ SupSteps \/ PollSteps
    \/ \E c \in Commands : CmdBegins(c) \/ CmdSteps(c)
    \/ \E t \in Starts : StartArrives(t) \/ StartSteps(t)
    \/ CancelArrives \/ FlowEnds

\* Every delay and every operation on the radio ends: sleeps, timeouts of the
\* connects, three tries of a read.
DaemonFairness ==
    /\ WF_daemonVars(SupSteps)
    /\ WF_daemonVars(PollReads \/ PollSkips \/ PollEnds)
    /\ \A c \in Commands : WF_daemonVars(CmdSteps(c))
    /\ \A t \in Starts : WF_daemonVars(StartSteps(t))

DaemonSpec == DaemonInit /\ [][DaemonNext]_daemonVars /\ DaemonFairness

-----------------------------------------------------------------------------
(* Properties.                                                              *)

DaemonTypeOK ==
    /\ sup \in {"idle", "nap", "backoff", "connect", "drop"}
    /\ ui \in {"active", "idle", "release"}
    /\ sess \in {"none", "up", "lost"}
    /\ {reach, flow, pending} \subseteq BOOLEAN
    /\ poll \in {"nap", "wait", "read"}
    /\ cmd \in [Commands -> {"off", "warm", "wait", "act"}]
    /\ start \in [Starts -> {"off", "wait", "run"}]

\* The daemon has one connection to the unit at a time: a task that opened its
\* own is at the head of the lock, and the session neither up nor being
\* connected (session.py: "opens at most one link to the unit").
OneLink == cold # NoTask => Holds(cold) /\ ~Live /\ ~Connecting

\* A poll never reads while a pairing flow has the radio (serve.py poll,
\* _pairing_owns_radio).
PollKeepsAway == flow => poll # "read"

\* What both rest on: who uses the radio has the lock, and only a poll or a
\* command opens a connection of its own.
OnRadio ==
    /\ poll = "read" => Holds(Poll)
    /\ \A c \in Commands : cmd[c] = "act" => Holds(Cmd(c))
    /\ cold # Sup /\ \A t \in Starts : cold # Start(t)
    /\ cold = Poll => poll = "read"

\* What always holds of the radio (serve.py poll, session.py supervise).
DaemonInv == DaemonTypeOK /\ OneLink /\ PollKeepsAway /\ OnRadio

\* A command always comes to its end: the lock gets to everybody (serve.py
\* on_command, session.py supervise).
CommandEnds == \A c \in Commands : cmd[c] # "off" ~> cmd[c] = "off"

\* While somebody uses the web UI and the unit answers, a session comes up,
\* whatever became of the one before (session.py supervise, nudge).
SessionComes == <>[](UiActive /\ reach /\ ~OwnsRadio) => []<>Live

\* A session the user let go is closed (session.py set_mode, supervise).
ReleaseDrops == ui = "release" ~> (sess = "none" \/ ui # "release")

\* The daemon goes on: commands end, the session comes and is let go
\* (serve.py on_command, session.py supervise).
RadioGoesOn == CommandEnds /\ SessionComes /\ ReleaseDrops
=============================================================================
