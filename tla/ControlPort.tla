---------------------------- MODULE ControlPort ----------------------------
(***************************************************************************)
(* What the session sees of the command sequencer: cali_ctl_busy() and the *)
(* link the sequencer asks about (cali_session_link_up).  Module Session   *)
(* uses the sequencer only this way; ControlRun implements it.             *)
(***************************************************************************)
VARIABLES
    busy,    \* cali_ctl_busy(): a command runs, or one's write is out
    up,      \* the link is up
    seen     \* a tick has seen no link since the last command was accepted

portVars == <<busy, up, seen>>

Init == busy = FALSE /\ up \in BOOLEAN /\ seen \in BOOLEAN

\* A command is accepted: only one at a time, only over a link.
Submit == up /\ ~busy /\ busy' = TRUE /\ seen' = FALSE /\ UNCHANGED up

\* The answer of a write may end the command.
Written == up /\ busy /\ busy' = FALSE /\ UNCHANGED <<up, seen>>

\* A tick may end the command.  Without a link it always does, and what it saw stays
\* visible, so that a command which outlives such a tick shows.
Tick ==
    /\ busy' \in (IF up /\ busy THEN BOOLEAN ELSE {FALSE})
    /\ seen' = (seen \/ ~up)
    /\ UNCHANGED up

\* The link comes and goes on its own.
Link == up' \in BOOLEAN /\ UNCHANGED <<busy, seen>>

Next == Submit \/ Written \/ Tick \/ Link

Spec == Init /\ [][Next]_portVars
=============================================================================
