----------------------------- MODULE HouseProofs ----------------------------
(***************************************************************************)
(* Proofs about the air heater and the water tank: the cabin thermostat    *)
(* (Thermostat), for every set of levels, night settings, faults and uses  *)
(* of the panel, and the water guard (Water), for every unit, tank, latch  *)
(* and debounce time.                                                      *)
(***************************************************************************)
EXTENDS Thermostat, Water, Integers, TLAPS

-----------------------------------------------------------------------------
(* What the thermostat and its runner hold.                                 *)

Runs == {"off", "run", "cont"}
AnyLevel == Levels \cup {0, 1, MinLevel}
Snaps == [run : Runs, level : AnyLevel]
Frames == [run : Runs, level : AnyLevel, fault : {"none", "battery", "other"}]
Whys == {"", "owner", "safety"}
Pends == [what : {"none", "power", "permanent", "level"}, value : AnyLevel, tries : {1, 2},
          before : AnyLevel, why : Whys]
Held == [snap : Snaps, why : Whys]
Answer == [what : {"none", "runtime", "power", "permanent", "level"},
           rc : {"none", "OK", "FAILED", "BUSY", "REFUSED", "NOT_READY"}]
NotNow == {"BUSY", "NOT_READY"}
Running == Active \cup {"WAITING"}
Modes == Running \cup {"OFF", "STOPPING"}

ThermoTyped ==
    /\ mode \in Modes /\ pend \in Pends /\ expect \in Snaps /\ stop \in Held
    /\ cont \in {"no", "seen", "again"}
    /\ {night, on, inFlight, batchOn, held, link, fresh, post, ours, ended} \subseteq BOOLEAN
    /\ req \in {"NONE", "AUTO", "OFF"} /\ wish \in {"AUTO", "OFF"}
    /\ res \in Answer /\ frame \in Frames /\ heater \in Snaps /\ starts \in Nat

\* The command a session in mode m waits for, and the heater it expects.
PendFits(p, m, e) ==
    \/ p = NoPend
    \/ p.what = "level" /\ m \in Running
    \/ IsStart(p) /\ m \in Active /\ e.run = "run"
    \/ IsStop(p) /\ p.why \in {"owner", "safety"} /\ m = "OFF"

PendKept ==
    /\ PendFits(pend, mode, expect)
    /\ mode = "STOPPING" => stop.why \in {"owner", "safety"}

Rest(l) == <<Cmd("level", l), Cmd("power", 1)>>
Full(l) == <<Cmd("runtime", 0), Cmd("level", l), Cmd("power", 1)>>

\* What is in flight is the pending command, or the batch of a start's first try.
BatchKept ==
    \/ batch = <<>> /\ ~inFlight
    \/ batch = <<Cmd(pend.what, pend.value)>> /\ inFlight /\ pend # NoPend
    \/ /\ \E l \in AnyLevel : batch \in {Rest(l), Full(l)}
       /\ inFlight /\ batchOn /\ IsStart(pend) /\ pend.tries = 1 /\ starts = 0

OffDone == wish = "OFF" /\ req # "OFF" => mode \notin Running /\ req = "NONE"

StartsKept ==
    /\ ~IsStart(pend) => starts = 0
    /\ IsStart(pend) =>
          /\ starts <= pend.tries
          /\ res.rc \in NotNow => starts < pend.tries
          /\ pend.tries = 2 => /\ res.rc \in NotNow => res.what = "power"
                               /\ fresh /\ ~post => frame.run # "run"

OursKept ==
    ours =>
        /\ heater.run = "run"
        /\ mode \in Running => /\ expect.run = "run"
                               /\ IsStart(pend) \/ ~fresh \/ frame.run = "run"
        /\ IsStop(pend) => pend.what = "power" /\ (fresh /\ post => frame.run = "run")
        /\ mode = "STOPPING" => stop.snap.run = "run"
        /\ Busy \/ ended

ThermoInv == ThermoTyped /\ PendKept /\ BatchKept /\ OffDone /\ StartsKept /\ OursKept

-----------------------------------------------------------------------------
(* What a rule leaves of the session.                                       *)

Cmds == [what : {"runtime", "power", "permanent", "level"}, value : AnyLevel]
Outs == {<<>>} \cup {<<c>> : c \in Cmds} \cup {Full(l) : l \in AnyLevel}
Reasons == {"", "START_NOT_CONFIRMED", "NOT_APPLIED", "RUN_ENDED", "FOREIGN_CHANGE", "STOP_DROPPED",
            "USER_OFF", "FAULT", "NIGHT_WAIT_ENDED", "WAITING", "ADOPT", "START", "REFUSED",
            "STOPPING", "BATTERY_LOW", "HEATER_UNKNOWN", "SELECTED", "REFERENCE_LOST", "AUTO_ON",
            "HOLD", "OVERHEAT", "HOLD_AT_MIN_LEVEL", "LEVEL"}
Sessions ==
    [mode : Modes, pend : Pends, expect : Snaps, stop : Held, night : BOOLEAN,
     cont : {"no", "seen", "again"}, out : Outs, sent : BOOLEAN, done : BOOLEAN, why : Reasons]
Inputs ==
    [elapsed : BOOLEAN, fit : BOOLEAN, night : BOOLEAN, wait : {"on", "confirmed", "over"},
     law : [kind : {"battery", "swapped", "lost", "hold", "hot", "level"}, level : AnyLevel]]

\* What is sent is the pending command, or the batch of a start's first try.
OutFits(s) ==
    \/ s.out = <<>>
    \/ s.sent /\ s.pend # NoPend /\ s.out = <<Cmd(s.pend.what, s.pend.value)>>
    \/ /\ s.sent /\ on /\ IsStart(s.pend) /\ s.pend.tries = 1
       /\ \E l \in AnyLevel : s.out = Full(l)

\* A start that is pending is an old one, left alone, sent again after an answer that did
\* not take it, or sent for its one retry; a start sent again is not seen to run.
Retried(s) ==
    /\ s.sent /\ s.pend = [pend EXCEPT !.tries = 2] /\ pend.tries = 1
    /\ frame.run # "run" /\ s.out \in {<<>>, <<Cmd("power", 1)>>}
Resent(s) ==
    /\ s.sent /\ s.pend = pend /\ res.rc \in NotNow
    /\ fresh /\ post => frame.run # "run"
    /\ s.out # <<Cmd("power", 1)>> \/ res.what = "power"
TryFits(s) ==
    /\ IsStart(s.pend) /\ s.why = "START" => s.pend.tries = 1
    /\ IsStart(s.pend) /\ s.why # "START" =>
           /\ IsStart(pend)
           /\ (~s.sent /\ s.pend = pend) \/ Retried(s) \/ Resent(s)

\* The run that is ours is expected, and no rule lets go of it without a word.
Mistaken(s) == s.why \in {"START", "ADOPT", "WAITING"} /\ Blind
OursFit(s) ==
    ours /\ ~Mistaken(s) =>
        /\ s.mode \in Running => /\ s.expect.run = "run"
                                 /\ IsStart(s.pend) \/ ~fresh \/ frame.run = "run"
        /\ IsStop(s.pend) => /\ s.pend.what = "power"
                             /\ s.sent \/ (fresh /\ post => frame.run = "run")
        /\ s.mode = "STOPPING" => s.stop.snap.run = "run"
        /\ s.mode = "OFF" /\ s.pend = NoPend => ended \/ s.why \in LetGo \/ (Busy /\ Blind)

Sound(s) ==
    /\ s \in Sessions
    /\ PendFits(s.pend, s.mode, s.expect)
    /\ s.mode = "STOPPING" => s.stop.why \in {"owner", "safety"}
    /\ OutFits(s) /\ TryFits(s) /\ OursFit(s)

\* What a session looks like to the rules that come after: not asked to return yet.
Open(s) == Sound(s) /\ ~s.done /\ s.why = ""

-----------------------------------------------------------------------------
(* The parts of the decision.                                               *)

\* What may be sent.
LEMMA OutsAre ==
    /\ <<>> \in Outs
    /\ \A c \in Cmds : <<c>> \in Outs
    /\ \A l \in AnyLevel : Full(l) \in Outs
    /\ \A p \in Pends : p # NoPend /\ p.what # "none" => Cmd(p.what, p.value) \in Cmds
<1>1. \A p \in Pends : p.what # "none" => Cmd(p.what, p.value) \in Cmds
  BY DEF Pends, Cmd, Cmds
<1> QED
  BY <1>1 DEF Outs

\* What is nothing is of the type of something.
LEMMA NothingTyped ==
    /\ NoPend \in Pends /\ NoSnap \in Snaps /\ NoStop \in Held /\ NoResult \in Answer
    /\ NoFrame \in Frames
  BY DEF NoPend, Pending, Pends, NoSnap, Snaps, NoStop, Held, NoResult, Answer, Whys, Runs,
     AnyLevel, NoFrame, Frames

\* No command is pending exactly when the pending one is none.
LEMMA NoneIsNone ==
    /\ ~IsStart(NoPend) /\ ~IsStop(NoPend) /\ NoPend.what = "none" /\ NoPend.tries = 1
    /\ \A p : IsStart(p) \/ IsStop(p) \/ p.what = "level" => p # NoPend /\ p.what # "none"
    /\ \A p : IsStart(p) => ~IsStop(p) /\ p.what = "power" /\ p.value = 1
    /\ \A p : p.what = "level" => ~IsStop(p) /\ ~IsStart(p)
<1>1. NoPend.what = "none" /\ NoPend.tries = 1
  BY DEF NoPend, Pending
<1>2. ~IsStart(NoPend) /\ ~IsStop(NoPend)
  BY <1>1 DEF IsStart, IsStop
<1>3. \A p : IsStart(p) \/ IsStop(p) \/ p.what = "level" => p # NoPend /\ p.what # "none"
  BY <1>1 DEF IsStart, IsStop
<1>4. \A p : IsStart(p) => ~IsStop(p) /\ p.what = "power" /\ p.value = 1
  BY DEF IsStart, IsStop
<1>5. \A p : p.what = "level" => ~IsStop(p) /\ ~IsStart(p)
  BY DEF IsStart, IsStop
<1> QED
  BY <1>1, <1>2, <1>3, <1>4, <1>5

\* The circumstances of a step, and the heater it sees.
LEMMA CircumstancesTyped == ThermoTyped => Circumstances \subseteq Inputs
<1> SUFFICES ASSUME ThermoTyped, NEW i \in Circumstances
             PROVE  i \in Inputs
  OBVIOUS
<1> DEFINE L == [kind : {"battery", "swapped", "lost", "hold", "hot", "level"}, level : AnyLevel]
<1>1. \A ks \in SUBSET {"battery", "swapped", "lost", "hold", "hot"} : Laws(ks) \subseteq L
  BY DEF Laws, Law, AnyLevel
<1>2. Hold \in L
  BY DEF Hold, Law, AnyLevel
<1>3. Nights \subseteq BOOLEAN
  BY SwitchAssumption
<1> HIDE DEF L
<1>4. {Hold} \subseteq L /\ Laws({"battery", "swapped", "lost", "hold", "hot"}) \subseteq L
      /\ Laws({"lost", "hot"}) \subseteq L /\ Laws({"hot"}) \subseteq L
  BY <1>1, <1>2
<1> DEFINE ls == IF mode \in Active /\ fresh THEN Laws({"battery", "swapped", "lost", "hold", "hot"})
                 ELSE IF mode = "WAITING" /\ cont = "again" THEN Laws({"lost", "hot"})
                 ELSE IF mode \notin Active /\ (req = "AUTO" /\ on /\ link /\ fresh) THEN Laws({"hot"})
                 ELSE {Hold}
<1>5. ls \subseteq L
  BY <1>4
<1> HIDE DEF ls
<1>6. i \in [elapsed : BOOLEAN, fit : BOOLEAN, night : BOOLEAN, wait : {"on", "confirmed", "over"}, law : L]
  <2>1. i \in [elapsed : IF pend # NoPend /\ (mode = "WAITING" \/ (fresh /\ post)) THEN BOOLEAN ELSE {FALSE},
               fit : IF (req = "AUTO" /\ on /\ link /\ fresh) \/ (IsStart(pend) /\ link) THEN BOOLEAN ELSE {FALSE},
               night : IF req = "AUTO" /\ on /\ link /\ fresh THEN Nights ELSE {FALSE},
               wait : IF mode = "WAITING" THEN {"on", "confirmed", "over"} ELSE {"on"},
               law : ls]
    BY DEF Circumstances, ls
  <2> QED
    BY <2>1, <1>3, <1>5
<1> QED
  BY <1>6 DEF Inputs, L

\* The heater as it is seen.
LEMMA SeenTyped == ThermoTyped => Seen \in Snaps /\ Seen.run = frame.run /\ Seen.level = frame.level
  BY DEF ThermoTyped, Seen, Snaps, Frames

\* The end of the session: nothing is pending and nothing is sent.
LEMMA EndDoes ==
    ASSUME NEW s \in Sessions, NEW w \in Reasons, NEW u, u = Ret(End(s), w),
           ours => ended \/ w \in LetGo \/ (Busy /\ Blind)
    PROVE  Sound(u) /\ u.done /\ u.mode = "OFF"
<1>1. u = [[s EXCEPT !.mode = "OFF", !.pend = NoPend, !.out = <<>>] EXCEPT !.done = TRUE, !.why = w]
  BY DEF Ret, End
<1>2. /\ u.mode = "OFF" /\ u.pend = NoPend /\ u.out = <<>> /\ u.done = TRUE /\ u.why = w
      /\ u.expect = s.expect
  BY <1>1 DEF Sessions
<1>3. u \in Sessions
  BY <1>1, NothingTyped, OutsAre DEF Sessions, Modes
<1> QED
  BY <1>2, <1>3, NoneIsNone DEF Sound, PendFits, OutFits, TryFits, OursFit, Running, Active

\* A stop is sent, or waits for the link; a run that is ours is not left without one.
LEMMA StopDoes ==
    ASSUME NEW s \in Sessions, NEW can \in BOOLEAN, NEW r \in {"owner", "safety"},
           NEW w \in Reasons, ours => s.expect.run = "run",
           NEW u, u = Ret(Stop(s, can, r), w)
    PROVE  Sound(u) /\ u.done /\ u.mode \in {"OFF", "STOPPING"}
<1> DEFINE what == IF s.expect.run = "cont" THEN "permanent" ELSE "power"
           p == Pending(what, 0, 0, r)
           off == [End(s) EXCEPT !.sent = FALSE]
<1>1. off = [s EXCEPT !.mode = "OFF", !.pend = NoPend, !.out = <<>>, !.sent = FALSE]
  BY DEF End, Sessions
<1>2. /\ off \in Sessions /\ off.mode = "OFF" /\ off.pend = NoPend /\ off.out = <<>> /\ ~off.sent
      /\ off.expect = s.expect
  <2>1. off \in Sessions
    BY <1>1, NothingTyped, OutsAre DEF Sessions, Modes
  <2> QED
    BY <1>1, <2>1 DEF Sessions
<1>3. /\ p \in Pends /\ p.what = what /\ p.value = 0 /\ p.why = r /\ IsStop(p) /\ ~IsStart(p)
      /\ p # NoPend
  <2>1. p.what = what /\ p.value = 0 /\ p.why = r
    BY DEF Pending
  <2>2. p \in Pends
    BY DEF Pending, Pends, AnyLevel, Whys
  <2>3. IsStop(p)
    BY <2>1 DEF IsStop
  <2> QED
    BY <2>1, <2>2, <2>3, NoneIsNone
<1> HIDE DEF off, p
<1>4. CASE s.expect.run = "off"
  <2>1. u = [off EXCEPT !.done = TRUE, !.why = w]
    BY <1>4 DEF Stop, Ret, off
  <2>2. /\ u.mode = "OFF" /\ u.pend = NoPend /\ u.out = <<>> /\ u.done
    BY <1>2, <2>1 DEF Sessions
  <2>3. u \in Sessions
    BY <1>2, <2>1 DEF Sessions
  <2> QED
    BY <1>4, <2>2, <2>3, NoneIsNone DEF Sound, PendFits, OutFits, TryFits, OursFit
<1>5. CASE s.expect.run # "off" /\ can
  <2>1. u = [[off EXCEPT !.pend = p, !.out = <<Cmd(p.what, p.value)>>, !.sent = TRUE]
               EXCEPT !.done = TRUE, !.why = w]
    BY <1>5 DEF Stop, Ret, Send, off, p
  <2>2. <<Cmd(p.what, p.value)>> \in Outs
    BY <1>3, OutsAre, NoneIsNone
  <2>3. /\ u.mode = "OFF" /\ u.pend = p /\ u.out = <<Cmd(p.what, p.value)>> /\ u.done /\ u.sent
    BY <1>2, <2>1 DEF Sessions
  <2>4. u \in Sessions
    BY <1>2, <1>3, <2>1, <2>2 DEF Sessions
  <2>5. PendFits(u.pend, u.mode, u.expect) /\ OutFits(u) /\ TryFits(u)
    BY <1>3, <2>3 DEF PendFits, OutFits, TryFits
  <2>6. OursFit(u)
    BY <1>3, <2>3 DEF OursFit, Running, Active
  <2> QED
    BY <2>3, <2>4, <2>5, <2>6 DEF Sound
<1>6. CASE s.expect.run # "off" /\ ~can
  <2> DEFINE h == [snap |-> s.expect, why |-> r]
  <2>1. u = [[off EXCEPT !.mode = "STOPPING", !.stop = h] EXCEPT !.done = TRUE, !.why = w]
    BY <1>6 DEF Stop, Ret, Defer, off
  <2>2. h \in Held /\ h.snap = s.expect /\ h.why = r
    BY DEF Held, Sessions, Whys
  <2> HIDE DEF h
  <2>3. /\ u.mode = "STOPPING" /\ u.pend = NoPend /\ u.out = <<>> /\ u.done /\ u.stop = h
    BY <1>2, <2>1 DEF Sessions
  <2>4. u \in Sessions
    BY <1>2, <2>1, <2>2 DEF Sessions, Modes
  <2>5. PendFits(u.pend, u.mode, u.expect) /\ OutFits(u) /\ TryFits(u)
    BY <2>3, NoneIsNone DEF PendFits, OutFits, TryFits
  <2>6. OursFit(u)
    BY <1>6, <2>2, <2>3, NoneIsNone DEF OursFit, Running, Active
  <2> QED
    BY <2>2, <2>3, <2>4, <2>5, <2>6 DEF Sound
<1> QED
  BY <1>4, <1>5, <1>6

\* An early return that changes nothing else.
LEMMA RetDoes ==
    ASSUME NEW s, Open(s), NEW w \in Reasons, w # "START", NEW u, u = Ret(s, w)
    PROVE  Sound(u) /\ u.done /\ u.mode = s.mode /\ u.pend = s.pend /\ u.sent = s.sent
<1>1. u = [s EXCEPT !.done = TRUE, !.why = w] /\ s \in Sessions
  BY DEF Ret, Open, Sound
<1>2. /\ u.mode = s.mode /\ u.pend = s.pend /\ u.out = s.out /\ u.sent = s.sent /\ u.expect = s.expect
      /\ u.stop = s.stop /\ u.done /\ u.why = w
  BY <1>1 DEF Sessions
<1>3. u \in Sessions
  BY <1>1 DEF Sessions
<1>4. OutFits(u)
  BY <1>2 DEF Open, Sound, OutFits
<1>5. TryFits(u)
  BY <1>2 DEF Open, Sound, TryFits, Retried, Resent
<1>6. OursFit(u)
  BY <1>2 DEF Open, Sound, OursFit, Mistaken, LetGo
<1> QED
  BY <1>2, <1>3, <1>4, <1>5, <1>6 DEF Open, Sound

\* The batch of a start is longer than its last command, and begins with another one.
LEMMA FullIsLong ==
    \A l : /\ Full(l) # <<>> /\ Head(Full(l)) = Cmd("runtime", 0) /\ Tail(Full(l)) = Rest(l)
           /\ Len(Full(l)) = 3 /\ \A c : Full(l) # <<c>>
  BY DEF Full, Rest

\* The session as the step finds it.
LEMMA SessionOpen ==
    ASSUME ThermoInv
    PROVE  /\ Open(Session) /\ Session.out = <<>> /\ ~Session.sent
           /\ Session.mode = mode /\ Session.pend = pend /\ Session.expect = expect
           /\ Session.stop = stop /\ Session.cont = cont
<1> DEFINE s == [mode |-> mode, pend |-> pend, expect |-> expect, stop |-> stop, night |-> night,
                 cont |-> cont, out |-> <<>>, sent |-> FALSE, done |-> FALSE, why |-> ""]
<1>1. s = Session
  BY DEF Session
<1>2. /\ s.out = <<>> /\ ~s.sent /\ s.mode = mode /\ s.pend = pend /\ s.expect = expect
      /\ s.stop = stop /\ s.cont = cont /\ ~s.done /\ s.why = ""
  OBVIOUS
<1>3. s \in Sessions
  <2>1. /\ mode \in Modes /\ pend \in Pends /\ expect \in Snaps /\ stop \in Held
        /\ cont \in {"no", "seen", "again"} /\ night \in BOOLEAN
    BY DEF ThermoInv, ThermoTyped
  <2>2. "" \in Reasons
    BY DEF Reasons
  <2>3. <<>> \in Outs
    BY OutsAre
  <2> QED
    BY <2>1, <2>2, <2>3 DEF Sessions
<1> HIDE DEF s
<1>4. PendFits(s.pend, s.mode, s.expect) /\ OutFits(s) /\ TryFits(s)
  BY <1>2 DEF ThermoInv, PendKept, OutFits, TryFits
<1>5. OursFit(s)
  BY <1>2 DEF ThermoInv, OursKept, OursFit, Busy
<1> QED
  BY <1>1, <1>2, <1>3, <1>4, <1>5 DEF Open, Sound, ThermoInv, PendKept

\* A level command of its own.
LEMMA SendLevelDoes ==
    ASSUME NEW s \in Sessions, s.mode \in Running, NEW l \in AnyLevel, NEW b \in AnyLevel,
           NEW u, u = SendLevel(s, l, b)
    PROVE  /\ u \in Sessions /\ u.mode = s.mode /\ u.pend.what = "level" /\ u.expect.run = s.expect.run
           /\ OutFits(u) /\ u.done = s.done /\ u.why = s.why /\ u.sent /\ u.stop = s.stop
<1> DEFINE p == Pending("level", l, b, "")
           e == [s.expect EXCEPT !.level = l]
<1>1. p \in Pends /\ p.what = "level" /\ p.value = l
  BY DEF Pending, Pends, Whys
<1>2. e \in Snaps /\ e.run = s.expect.run
  BY DEF Sessions, Snaps
<1>3. u = [[s EXCEPT !.pend = p, !.out = <<Cmd(p.what, p.value)>>, !.sent = TRUE] EXCEPT !.expect.level = l]
  BY DEF SendLevel, Send
<1> HIDE DEF p
<1>4. u = [s EXCEPT !.pend = p, !.out = <<Cmd(p.what, p.value)>>, !.sent = TRUE, !.expect = e]
  BY <1>3 DEF Sessions
<1> HIDE DEF e
<1>5. <<Cmd(p.what, p.value)>> \in Outs /\ p # NoPend
  BY <1>1, OutsAre, NoneIsNone
<1>6. /\ u.pend = p /\ u.out = <<Cmd(p.what, p.value)>> /\ u.sent /\ u.expect = e /\ u.mode = s.mode
      /\ u.done = s.done /\ u.why = s.why /\ u.stop = s.stop
  BY <1>4 DEF Sessions
<1>7. u \in Sessions
  BY <1>1, <1>2, <1>4, <1>5 DEF Sessions
<1> QED
  BY <1>1, <1>2, <1>5, <1>6, <1>7 DEF OutFits

\* A pending command is dropped, and the heater is expected as before.
LEMMA DropKeeps ==
    ASSUME NEW s \in Sessions, NEW u, u = [s EXCEPT !.pend = NoPend]
    PROVE  u = [s EXCEPT !.pend = NoPend, !.expect = s.expect] /\ s.expect \in Snaps
  BY DEF Sessions

-----------------------------------------------------------------------------
(* Rule (1).                                                                *)

\* What a command left unapplied shows: a start is not seen to run, and a stop of a run
\* that is ours is never taken for applied.
LEMMA AppliedShows ==
    ASSUME ThermoInv
    PROVE  /\ IsStart(pend) => (Applied(pend, Seen) <=> frame.run = "run")
           /\ IsStop(pend) /\ ours => ~(fresh /\ post /\ Applied(pend, Seen))
<1>1. Seen.run = frame.run
  BY SeenTyped DEF ThermoInv
<1>2. IsStart(pend) => (Applied(pend, Seen) <=> frame.run = "run")
  BY <1>1 DEF IsStart, Applied
<1>3. ASSUME IsStop(pend), ours, fresh, post, Applied(pend, Seen) PROVE FALSE
  <2>1. pend.what = "power" /\ pend.value = 0 /\ frame.run = "run"
    BY <1>3 DEF ThermoInv, OursKept, IsStop
  <2> QED
    BY <1>1, <1>3, <2>1 DEF Applied
<1> QED
  BY <1>2, <1>3

\* A command is sent again: once more, or for its one retry.
LEMMA ResendDoes ==
    ASSUME ThermoInv, pend # NoPend, NEW full \in BOOLEAN,
           full /\ IsStart(pend) => on /\ pend.tries = 1,
           ~full /\ IsStart(pend) => res.what = "power",
           IsStart(pend) /\ fresh /\ post => frame.run # "run",
           res.rc \in NotNow,
           NEW u, u = Resend(Session, full)
    PROVE  Open(u) /\ u.mode = mode
<1> DEFINE s == Session
           o == IF full /\ IsStart(pend) THEN Full(expect.level) ELSE <<Cmd(pend.what, pend.value)>>
<1>1. /\ s \in Sessions /\ ~s.done /\ s.why = "" /\ s.mode = mode /\ s.pend = pend
      /\ s.expect = expect /\ s.stop = stop /\ s.cont = cont /\ Sound(s)
  BY SessionOpen DEF Open, Sound
<1> HIDE DEF s
<1>2. u = [s EXCEPT !.sent = TRUE, !.out = o]
  BY <1>1 DEF Resend, Full, s
<1>3. pend \in Pends /\ expect.level \in AnyLevel /\ pend.what # "none"
  <2>1. pend \in Pends /\ expect \in Snaps
    BY DEF ThermoInv, ThermoTyped
  <2>2. pend.what # "none"
    BY NoneIsNone DEF ThermoInv, PendKept, PendFits
  <2> QED
    BY <2>1, <2>2 DEF Snaps
<1>4. o \in Outs
  BY <1>3, OutsAre
<1>5. IsStart(pend) => o = IF full THEN Full(expect.level) ELSE <<Cmd("power", 1)>>
  BY NoneIsNone
<1>6. o = Full(expect.level) \/ o = <<Cmd(pend.what, pend.value)>>
  OBVIOUS
<1>7. ~(full /\ IsStart(pend)) => o = <<Cmd(pend.what, pend.value)>>
  OBVIOUS
<1>8. full /\ IsStart(pend) => o = Full(expect.level)
  OBVIOUS
<1> HIDE DEF o
<1>9. /\ u.mode = mode /\ u.pend = pend /\ u.out = o /\ u.sent /\ u.expect = expect /\ u.stop = stop
      /\ ~u.done /\ u.why = ""
  BY <1>1, <1>2 DEF Sessions
<1>10. u \in Sessions
  BY <1>1, <1>2, <1>4 DEF Sessions
<1>11. OutFits(u)
  BY <1>3, <1>7, <1>8, <1>9 DEF OutFits
<1>12. TryFits(u)
  <2>1. IsStart(pend) => o # <<Cmd("power", 1)>> \/ res.what = "power"
    BY <1>5, FullIsLong
  <2> QED
    BY <1>9, <2>1 DEF TryFits, Resent
<1>13. OursFit(u)
  BY <1>1, <1>9 DEF Sound, OursFit, Mistaken
<1> QED
  BY <1>1, <1>9, <1>10, <1>11, <1>12, <1>13 DEF Open, Sound

\* The one retry.
LEMMA RetryDoes ==
    ASSUME ThermoInv, pend # NoPend, pend.tries < 2,
           IsStart(pend) => frame.run # "run",
           NEW u, u = Retry(Session)
    PROVE  Open(u) /\ u.mode = mode
<1> DEFINE s == Session
           o == <<Cmd(pend.what, pend.value)>>
           p == [pend EXCEPT !.tries = 2]
<1>1. /\ s \in Sessions /\ ~s.done /\ s.why = "" /\ s.mode = mode /\ s.pend = pend
      /\ s.expect = expect /\ s.stop = stop /\ s.cont = cont /\ Sound(s)
  BY SessionOpen DEF Open, Sound
<1> HIDE DEF s
<1>2. u = [[s EXCEPT !.sent = TRUE, !.out = o] EXCEPT !.pend.tries = 2]
  BY <1>1 DEF Retry, Resend, s
<1>3. pend \in Pends /\ pend.what # "none" /\ pend.tries = 1
  <2>1. pend \in Pends
    BY DEF ThermoInv, ThermoTyped
  <2>2. pend.what # "none"
    BY NoneIsNone DEF ThermoInv, PendKept, PendFits
  <2> QED
    BY <2>1, <2>2 DEF Pends
<1>4. o \in Outs
  BY <1>3, OutsAre
<1>5. /\ p \in Pends /\ p.what = pend.what /\ p.value = pend.value /\ p.why = pend.why /\ p # NoPend
      /\ (IsStart(p) <=> IsStart(pend)) /\ (IsStop(p) <=> IsStop(pend))
  <2>1. p \in Pends /\ p.what = pend.what /\ p.value = pend.value /\ p.why = pend.why
    BY <1>3 DEF Pends
  <2> QED
    BY <1>3, <2>1, NoneIsNone DEF IsStart, IsStop
<1>6. u = [s EXCEPT !.sent = TRUE, !.out = o, !.pend = p]
  BY <1>1, <1>2 DEF Sessions
<1>7. IsStart(pend) => o = <<Cmd("power", 1)>>
  BY NoneIsNone
<1>8. o = <<Cmd(p.what, p.value)>>
  BY <1>5
<1>9. p = [pend EXCEPT !.tries = 2]
  OBVIOUS
<1> HIDE DEF o, p
<1>10. /\ u.mode = mode /\ u.pend = p /\ u.out = o /\ u.sent /\ u.expect = expect /\ u.stop = stop
       /\ ~u.done /\ u.why = ""
  BY <1>1, <1>6 DEF Sessions
<1>11. u \in Sessions
  BY <1>1, <1>4, <1>5, <1>6 DEF Sessions
<1>12. OutFits(u) /\ TryFits(u)
  BY <1>3, <1>5, <1>7, <1>8, <1>9, <1>10 DEF OutFits, TryFits, Retried
<1>13. OursFit(u)
  BY <1>1, <1>5, <1>10 DEF Sound, OursFit, Mistaken
<1>14. PendFits(u.pend, u.mode, u.expect)
  BY <1>1, <1>5, <1>10, NoneIsNone DEF Sound, PendFits
<1> QED
  BY <1>1, <1>10, <1>11, <1>12, <1>13, <1>14 DEF Open, Sound

\* A command that is given up: a failed stop is dropped, anything else ends the session.
LEMMA GiveUpDoes ==
    ASSUME ThermoInv, pend # NoPend, NEW w \in {"START_NOT_CONFIRMED", "NOT_APPLIED"},
           NEW u, u = Ret(IF IsStop(pend) THEN [Session EXCEPT !.pend = NoPend] ELSE End(Session), w)
    PROVE  Sound(u) /\ u.done /\ u.mode = "OFF"
<1> DEFINE s == Session
<1>1. s \in Sessions /\ s.mode = mode /\ s.pend = pend /\ s.out = <<>>
  BY SessionOpen DEF Open, Sound
<1> HIDE DEF s
<1>2. w \in Reasons /\ w \in LetGo
  BY DEF Reasons, LetGo
<1>3. CASE ~IsStop(pend)
  BY <1>1, <1>2, <1>3, EndDoes DEF s
<1>4. CASE IsStop(pend)
  <2>1. u = [[s EXCEPT !.pend = NoPend] EXCEPT !.done = TRUE, !.why = w]
    BY <1>4 DEF Ret, s
  <2>2. mode = "OFF"
    BY <1>4, NoneIsNone DEF ThermoInv, PendKept, PendFits
  <2>3. /\ u.mode = "OFF" /\ u.pend = NoPend /\ u.out = <<>> /\ u.done /\ u.why = w
    BY <1>1, <2>1, <2>2 DEF Sessions
  <2>4. u \in Sessions
    BY <1>1, <1>2, <2>1, NothingTyped DEF Sessions
  <2> QED
    BY <1>2, <2>3, <2>4, NoneIsNone DEF Sound, PendFits, OutFits, TryFits, OursFit, Running, Active
<1> QED
  BY <1>3, <1>4

\* The pending command of the session is dropped; some heater is expected.
LEMMA DropFirst ==
    ASSUME ThermoInv, NEW e \in Snaps, NEW u, u = [Session EXCEPT !.pend = NoPend, !.expect = e]
    PROVE  /\ u \in Sessions /\ u.mode = mode /\ u.pend = NoPend /\ u.expect = e /\ u.stop = stop
           /\ ~u.done /\ u.why = "" /\ PendFits(u.pend, u.mode, u.expect) /\ OutFits(u) /\ TryFits(u)
<1> DEFINE s == Session
<1>1. /\ s \in Sessions /\ s.mode = mode /\ s.out = <<>> /\ ~s.done /\ s.why = "" /\ s.stop = stop
      /\ u = [s EXCEPT !.pend = NoPend, !.expect = e]
  BY SessionOpen DEF Open, Sound
<1> HIDE DEF s
<1>2. /\ u.mode = mode /\ u.pend = NoPend /\ u.expect = e /\ u.out = <<>>
      /\ ~u.done /\ u.why = "" /\ u.stop = stop
  BY <1>1 DEF Sessions
<1>3. u \in Sessions
  BY <1>1, NothingTyped DEF Sessions
<1> QED
  BY <1>2, <1>3, NoneIsNone DEF PendFits, OutFits, TryFits

\* Rule (1) keeps the session sound; where it returns, the session is off.
LEMMA BookkeepDoes ==
    ASSUME ThermoInv, NEW i \in Inputs, NEW u, u = Bookkeep(Session, i)
    PROVE  /\ Sound(u)
           /\ u.done => u.mode = "OFF"
           /\ ~u.done => u.why = "" /\ u.mode = mode
<1> DEFINE s == Session
           p == s.pend
           read == fresh /\ post
           fail == IF IsStart(p) THEN "START_NOT_CONFIRMED" ELSE "NOT_APPLIED"
           giveUp == Ret(IF IsStop(p) THEN [s EXCEPT !.pend = NoPend] ELSE End(s), fail)
           fit == i.fit /\ on
           moved == /\ p.what = "level" /\ read /\ ~Faulty
                    /\ \/ frame.level \notin {0, p.value, p.before}
                       \/ frame.run # s.expect.run
           asIs == Open(u) /\ u.mode = mode
           ends == Sound(u) /\ u.done /\ u.mode = "OFF"
<1>1. Open(s) /\ s.mode = mode /\ s.pend = pend /\ s.expect = expect /\ s.out = <<>>
  BY SessionOpen
<1>2. s \in Sessions /\ expect \in Snaps /\ Seen \in Snaps /\ Seen.run = frame.run
  BY <1>1, SeenTyped DEF Open, Sound, ThermoInv, ThermoTyped
<1> SUFFICES asIs \/ ends
  BY DEF Open
<1>3. CASE p = NoPend
  <2>1. u = s
    BY <1>3 DEF Bookkeep
  <2> QED
    BY <1>1, <2>1
<1>4. CASE p # NoPend /\ s.mode = "WAITING"
  <2>1. u = s \/ u = [s EXCEPT !.pend = NoPend]
    BY <1>4 DEF Bookkeep
  <2>2. CASE u = s
    BY <1>1, <2>2
  <2>3. CASE u = [s EXCEPT !.pend = NoPend]
    <3>1. u = [s EXCEPT !.pend = NoPend, !.expect = expect]
      BY <1>1, <1>2, <2>3, DropKeeps
    <3>2. /\ u \in Sessions /\ u.mode = "WAITING" /\ u.pend = NoPend /\ u.expect = expect
          /\ ~u.done /\ u.why = "" /\ PendFits(u.pend, u.mode, u.expect) /\ OutFits(u) /\ TryFits(u)
      BY <1>1, <1>2, <1>4, <3>1, DropFirst
    <3>3. ~IsStart(pend)
      BY <1>1, <1>4, NoneIsNone DEF ThermoInv, PendKept, PendFits, Active
    <3>4. OursFit(u)
      BY <1>1, <1>4, <3>2, <3>3, NoneIsNone DEF OursFit, ThermoInv, OursKept
    <3> QED
      BY <1>1, <1>4, <3>2, <3>4 DEF Open, Sound
  <2> QED
    BY <2>1, <2>2, <2>3
<1> DEFINE busy == p # NoPend /\ s.mode # "WAITING"
<1>5. CASE busy /\ moved
  <2> DEFINE w == IF frame.run = "off" THEN "RUN_ENDED" ELSE "FOREIGN_CHANGE"
  <2>1. u = Ret(End(s), w)
    BY <1>5 DEF Bookkeep
  <2>2. w \in Reasons /\ (w = "RUN_ENDED" => frame.run = "off") /\ (w # "RUN_ENDED" => w \in LetGo)
    BY DEF Reasons, LetGo
  <2> HIDE DEF w
  <2>3. ours => w \in LetGo \/ (Busy /\ Blind)
    BY <1>1, <1>5, <2>2 DEF ThermoInv, OursKept, Busy, Blind
  <2> QED
    BY <1>2, <2>1, <2>2, <2>3, EndDoes
<1>6. CASE busy /\ ~moved /\ read /\ Applied(p, Seen)
  <2>1. u = [s EXCEPT !.pend = NoPend, !.expect = Seen]
    BY <1>6 DEF Bookkeep
  <2>2. /\ u \in Sessions /\ u.mode = mode /\ u.pend = NoPend /\ u.expect = Seen /\ u.stop = stop
        /\ ~u.done /\ u.why = "" /\ PendFits(u.pend, u.mode, u.expect) /\ OutFits(u) /\ TryFits(u)
    <3>1. ASSUME NEW e \in Snaps, e = Seen
          PROVE  /\ u \in Sessions /\ u.mode = mode /\ u.pend = NoPend /\ u.expect = e /\ u.stop = stop
                 /\ ~u.done /\ u.why = "" /\ PendFits(u.pend, u.mode, u.expect) /\ OutFits(u) /\ TryFits(u)
      <4>1. u = [Session EXCEPT !.pend = NoPend, !.expect = e]
        BY <2>1, <3>1
      <4> QED
        BY <3>1, <4>1, DropFirst
    <3> QED
      BY <1>2, <3>1
  <2>3. ours => frame.run = "run" /\ mode \in Running
    <3>1. CASE IsStart(pend)
      BY <1>1, <1>6, <3>1, AppliedShows, NoneIsNone DEF ThermoInv, PendKept, PendFits, Running
    <3>2. CASE IsStop(pend)
      BY <1>1, <1>6, <3>2, AppliedShows
    <3>3. CASE pend.what = "level"
      <4>1. mode \in Running /\ ~IsStart(pend)
        BY <3>3, NoneIsNone DEF ThermoInv, PendKept, PendFits
      <4> QED
        BY <1>6, <4>1 DEF ThermoInv, OursKept
    <3> QED
      BY <1>1, <1>6, <3>1, <3>2, <3>3 DEF ThermoInv, PendKept, PendFits
  <2>4. OursFit(u)
    BY <1>2, <2>2, <2>3, NoneIsNone DEF OursFit, Running, Active
  <2> QED
    BY <1>1, <2>2, <2>4 DEF Open, Sound, ThermoInv, PendKept
<1> DEFINE open == busy /\ ~moved /\ ~(read /\ Applied(p, Seen))
<1>7. CASE open /\ Faulty
  <2>1. u = s
    BY <1>7 DEF Bookkeep
  <2> QED
    BY <1>1, <2>1
<1>8. CASE open /\ ~Faulty /\ res.rc = "REFUSED"
  <2>1. u = s \/ u = giveUp
    BY <1>8 DEF Bookkeep
  <2> QED
    BY <1>1, <1>8, <2>1, GiveUpDoes
<1> DEFINE notNow == res.rc \in {"BUSY", "NOT_READY"} /\ link
<1>9. CASE open /\ ~Faulty /\ res.rc # "REFUSED" /\ notNow
  <2>1. CASE IsStart(p) /\ ~fit
    <3>1. u = giveUp
      BY <1>9, <2>1 DEF Bookkeep
    <3> QED
      BY <1>1, <1>9, <3>1, GiveUpDoes
  <2>2. CASE ~(IsStart(p) /\ ~fit)
    <3>1. u = Resend(s, res.what # "power")
      BY <1>9, <2>2 DEF Bookkeep
    <3>2. IsStart(pend) /\ res.what # "power" => on /\ pend.tries = 1
      <4>1. pend.tries \in {1, 2}
        BY DEF ThermoInv, ThermoTyped, Pends
      <4> QED
        BY <1>1, <1>9, <2>2, <4>1 DEF ThermoInv, StartsKept, NotNow
    <3>3. IsStart(pend) /\ fresh /\ post => frame.run # "run"
      BY <1>1, <1>9, AppliedShows
    <3>4. (res.what # "power") \in BOOLEAN /\ res.rc \in NotNow
      BY <1>9 DEF NotNow
    <3> QED
      BY <1>1, <1>9, <3>1, <3>2, <3>3, <3>4, ResendDoes
  <2> QED
    BY <2>1, <2>2
<1> DEFINE quiet == open /\ ~Faulty /\ res.rc # "REFUSED" /\ ~notNow
           expired == read /\ link /\ i.elapsed
           gone == IsStop(p) /\ ~Same(Seen, s.expect)
           again == p.tries < 2 /\ (IsStart(p) => fit)
<1>10. CASE quiet /\ ~expired
  <2>1. u = s
    BY <1>10 DEF Bookkeep
  <2> QED
    BY <1>1, <2>1
<1>11. CASE quiet /\ expired /\ gone
  <2>1. u = Ret([s EXCEPT !.pend = NoPend], "STOP_DROPPED")
    BY <1>11 DEF Bookkeep
  <2>2. u = [[s EXCEPT !.pend = NoPend] EXCEPT !.done = TRUE, !.why = "STOP_DROPPED"]
    BY <2>1 DEF Ret
  <2>3. mode = "OFF"
    BY <1>1, <1>11, NoneIsNone DEF ThermoInv, PendKept, PendFits
  <2>4. u.mode = "OFF" /\ u.pend = NoPend /\ u.out = <<>> /\ u.done /\ u.why = "STOP_DROPPED"
    BY <1>1, <1>2, <2>2, <2>3 DEF Sessions
  <2>5. u \in Sessions
    BY <1>2, <2>2, NothingTyped DEF Sessions, Reasons
  <2> QED
    BY <2>4, <2>5, NoneIsNone DEF Sound, PendFits, OutFits, TryFits, OursFit, Running, Active, LetGo
<1>12. CASE quiet /\ expired /\ ~gone /\ again
  <2>1. u = Retry(s)
    BY <1>12 DEF Bookkeep
  <2>2. IsStart(pend) => frame.run # "run"
    BY <1>1, <1>12, AppliedShows
  <2> QED
    BY <1>1, <1>12, <2>1, <2>2, RetryDoes
<1>13. CASE quiet /\ expired /\ ~gone /\ ~again
  <2>1. u = s \/ u = giveUp
    BY <1>13 DEF Bookkeep
  <2> QED
    BY <1>1, <1>13, <2>1, GiveUpDoes
<1> QED
  BY <1>3, <1>4, <1>5, <1>6, <1>7, <1>8, <1>9, <1>10, <1>11, <1>12, <1>13

-----------------------------------------------------------------------------
(* Rules (W) and (2).                                                       *)

\* A session that differs in nothing the invariant looks at.
LEMMA LikeOpen ==
    ASSUME NEW s, Open(s), NEW u \in Sessions,
           u.pend = s.pend, u.out = s.out, u.sent = s.sent, u.stop = s.stop,
           u.expect.run = s.expect.run, ~u.done, u.why = "",
           u.mode = s.mode \/ (u.mode \in Active /\ s.mode \in Active)
    PROVE  Open(u)
<1>1. /\ PendFits(s.pend, s.mode, s.expect)
      /\ s.mode = "STOPPING" => s.stop.why \in {"owner", "safety"}
      /\ OutFits(s) /\ TryFits(s) /\ OursFit(s) /\ s.why = ""
  BY DEF Open, Sound
<1>2. PendFits(u.pend, u.mode, u.expect)
  BY <1>1 DEF PendFits, Running, Active
<1>3. OutFits(u)
  BY <1>1 DEF OutFits
<1>4. TryFits(u)
  BY <1>1 DEF TryFits, Retried, Resent
<1>5. OursFit(u)
  BY <1>1 DEF OursFit, Mistaken, Running, Active
<1> QED
  BY <1>1, <1>2, <1>3, <1>4, <1>5 DEF Open, Sound, Active

\* A run that is ours is the expected one while the session runs.
LEMMA OursExpected ==
    ASSUME NEW s, Open(s), s.mode \in Running, ours
    PROVE  s.expect.run = "run" /\ (IsStart(s.pend) \/ ~fresh \/ frame.run = "run")
  BY DEF Open, Sound, OursFit, Mistaken

\* The heater is taken over as it is seen.
LEMMA TakeOverDoes ==
    ASSUME ThermoInv, NEW s \in Sessions, s.mode \in Running, NEW i \in Inputs,
           NEW w \in {"ADOPT", "WAITING"}, NEW u, u = Ret(TakeOver(s, i), w)
    PROVE  Sound(u) /\ u.done /\ u.mode = s.mode /\ ~IsStart(u.pend)
<1> DEFINE t == [s EXCEPT !.pend = NoPend, !.expect = Seen, !.out = <<>>]
           v == TakeOver(s, i)
<1>1. Seen \in Snaps /\ Seen.run = frame.run /\ frame.level \in AnyLevel /\ i.law.level \in AnyLevel
  BY SeenTyped DEF ThermoInv, ThermoTyped, Frames, Inputs
<1>2. t \in Sessions /\ t.mode = s.mode /\ t.pend = NoPend /\ t.expect.run = frame.run /\ t.out = <<>>
  <2>1. t \in Sessions
    BY <1>1, OutsAre, NothingTyped DEF Sessions
  <2>2. t.mode = s.mode /\ t.pend = NoPend /\ t.expect = Seen /\ t.out = <<>>
    BY DEF Sessions
  <2> QED
    BY <1>1, <2>1, <2>2
<1>3. v = t \/ v = SendLevel(t, i.law.level, frame.level)
  BY DEF TakeOver
<1> HIDE DEF t, v
<1>4. /\ v \in Sessions /\ v.mode = s.mode /\ v.expect.run = frame.run /\ OutFits(v)
      /\ v.pend = NoPend \/ v.pend.what = "level"
  <2>1. CASE v = t
    BY <1>2, <2>1 DEF OutFits
  <2>2. CASE v = SendLevel(t, i.law.level, frame.level)
    BY <1>1, <1>2, <2>2, SendLevelDoes
  <2> QED
    BY <1>3, <2>1, <2>2
<1>5. u = [v EXCEPT !.done = TRUE, !.why = w]
  BY DEF Ret, v
<1>6. /\ u.mode = s.mode /\ u.expect = v.expect /\ u.pend = v.pend /\ u.out = v.out /\ u.sent = v.sent
      /\ u.done /\ u.why = w
  BY <1>4, <1>5 DEF Sessions
<1>7. u \in Sessions
  BY <1>4, <1>5 DEF Sessions, Reasons
<1>8. ~IsStart(u.pend) /\ ~IsStop(u.pend)
  BY <1>4, <1>6, NoneIsNone
<1>9. PendFits(u.pend, u.mode, u.expect) /\ OutFits(u) /\ TryFits(u)
  BY <1>4, <1>6, <1>8 DEF PendFits, OutFits, TryFits
<1>10. OursFit(u)
  BY <1>4, <1>6, <1>8 DEF OursFit, Mistaken, Blind, ThermoInv, OursKept, Running, Active
<1> QED
  BY <1>6, <1>7, <1>8, <1>9, <1>10 DEF Sound, Running, Active

\* Rule (W): the wait is over, or goes on with nothing but a stop to send.
LEMMA WaitingDoes ==
    ASSUME ThermoInv, NEW s0, Open(s0), s0.mode = "WAITING", NEW i \in Inputs, NEW u, u = Waiting(s0, i)
    PROVE  Sound(u) /\ u.done /\ (OwnerOff => u.mode \notin Running) /\ ~IsStart(u.pend)
<1> DEFINE s == IF fresh THEN [s0 EXCEPT !.expect = Seen] ELSE s0
           continuous == fresh /\ frame.run = "cont"
<1>1. s0 \in Sessions /\ Seen \in Snaps /\ Seen.run = frame.run /\ ~IsStart(s0.pend)
  BY SeenTyped, NoneIsNone DEF Open, Sound, ThermoInv, PendFits, Active
<1>2. Open(s) /\ s.mode = "WAITING" /\ s.cont = s0.cont
  <2>1. CASE ~fresh
    BY <2>1
  <2>2. CASE fresh
    <3>1. s = [s0 EXCEPT !.expect = Seen]
      BY <2>2
    <3> HIDE DEF s
    <3>2. /\ s.mode = "WAITING" /\ s.expect = Seen /\ s.pend = s0.pend /\ s.out = s0.out
          /\ s.sent = s0.sent /\ s.done = s0.done /\ s.why = s0.why /\ s.stop = s0.stop /\ s.cont = s0.cont
      BY <1>1, <3>1 DEF Sessions
    <3>3. s \in Sessions
      BY <1>1, <3>1 DEF Sessions
    <3>4. OutFits(s) /\ TryFits(s) /\ PendFits(s.pend, s.mode, s.expect)
      BY <1>1, <3>2 DEF Open, Sound, OutFits, TryFits, PendFits, Active
    <3>5. ours => frame.run = "run"
      BY <1>1, <2>2, OursExpected DEF Running
    <3>6. OursFit(s)
      <4>1. ~IsStop(s.pend)
        BY <3>2, NoneIsNone DEF Open, Sound, PendFits
      <4> QED
        BY <1>1, <3>2, <3>5, <4>1 DEF OursFit
    <3> QED
      BY <3>2, <3>3, <3>4, <3>6 DEF Open, Sound
  <2> QED
    BY <2>1, <2>2
<1>3. ours => s.expect.run = "run"
  BY <1>2, OursExpected DEF Running
<1>4. s \in Sessions /\ ~IsStart(s.pend) /\ (link /\ fresh) \in BOOLEAN /\ OffWhy \in {"owner", "safety"}
  <2>1. s \in Sessions /\ ~IsStart(s.pend)
    BY <1>2, NoneIsNone DEF Open, Sound, PendFits, Active
  <2> QED
    BY <2>1 DEF OffWhy
<1>w. "WAITING" \in Reasons /\ "USER_OFF" \in Reasons /\ "WAITING" # "START"
  BY DEF Reasons
<1> USE DEF Running, Active
<1>5. CASE OwnerOff
  <2>1. u = Ret(Stop(s, link /\ fresh, OffWhy), "USER_OFF")
    BY <1>5 DEF Waiting
  <2> HIDE DEF s
  <2>2. Sound(u) /\ u.done /\ u.mode \in {"OFF", "STOPPING"}
    <3>1. ASSUME NEW can \in BOOLEAN, can = (link /\ fresh)
          PROVE  Sound(u) /\ u.done /\ u.mode \in {"OFF", "STOPPING"}
      <4>1. u = Ret(Stop(s, can, OffWhy), "USER_OFF")
        BY <2>1, <3>1
      <4> QED
        BY <1>3, <1>4, <1>w, <4>1, StopDoes
    <3> QED
      BY <1>4, <3>1
  <2> QED
    BY <2>2, NoneIsNone DEF Sound, PendFits
<1>6. CASE ~OwnerOff /\ (u = Ret(End(s), "FAULT") \/ u = Ret(End(s), "NIGHT_WAIT_ENDED"))
  <2> HIDE DEF s
  <2>1. {"FAULT", "NIGHT_WAIT_ENDED"} \subseteq LetGo \cap Reasons
    BY DEF LetGo, Reasons
  <2>2. Sound(u) /\ u.done /\ u.mode = "OFF"
    BY <1>4, <1>6, <2>1, EndDoes
  <2> QED
    BY <1>6, <2>2, NoneIsNone DEF Sound, PendFits
<1>7. CASE ~OwnerOff /\ \E c \in {"no", "seen"} : u = Ret([s EXCEPT !.cont = c], "WAITING")
  <2> HIDE DEF s
  <2>1. PICK c \in {"no", "seen"} : u = Ret([s EXCEPT !.cont = c], "WAITING")
    BY <1>7
  <2> DEFINE t == [s EXCEPT !.cont = c]
  <2>2. /\ t.mode = s.mode /\ t.expect = s.expect /\ t.pend = s.pend /\ t.out = s.out
        /\ t.sent = s.sent /\ t.done = s.done /\ t.why = s.why /\ t.stop = s.stop
    BY <1>4 DEF Sessions
  <2>3. t \in Sessions
    BY <1>4 DEF Sessions
  <2>4. u = Ret(t, "WAITING")
    BY <2>1
  <2> HIDE DEF t
  <2>5. Open(t)
    BY <1>2, <2>2, <2>3, LikeOpen DEF Open
  <2> QED
    <3>1. Sound(u) /\ u.done /\ u.pend = t.pend
      BY <1>w, <2>4, <2>5, RetDoes
    <3> QED
      BY <1>4, <1>7, <2>2, <3>1
<1>8. CASE ~OwnerOff /\ u = Ret(TakeOver([s EXCEPT !.mode = "AUTO"], i), "ADOPT")
  <2> HIDE DEF s
  <2> DEFINE t == [s EXCEPT !.mode = "AUTO"]
  <2>1. t \in Sessions /\ t.mode = "AUTO"
    BY <1>4 DEF Sessions, Modes
  <2>2. u = Ret(TakeOver(t, i), "ADOPT")
    BY <1>8
  <2> HIDE DEF t
  <2> QED
    BY <1>8, <2>1, <2>2, TakeOverDoes
<1>9. CASE ~OwnerOff /\ u = Ret(s, "WAITING")
  <2> HIDE DEF s
  <2> QED
    <3>1. Sound(u) /\ u.done /\ u.pend = s.pend
      BY <1>2, <1>9, <1>w, RetDoes
    <3> QED
      BY <1>4, <1>9, <3>1
<1>10. ~OwnerOff =>
          \/ u = Ret(End(s), "FAULT") \/ u = Ret(End(s), "NIGHT_WAIT_ENDED")
          \/ \E c \in {"no", "seen"} : u = Ret([s EXCEPT !.cont = c], "WAITING")
          \/ u = Ret(TakeOver([s EXCEPT !.mode = "AUTO"], i), "ADOPT")
          \/ u = Ret(s, "WAITING")
  BY DEF Waiting
<1> QED
  BY <1>5, <1>6, <1>7, <1>8, <1>9, <1>10

\* Rule (2): an AUTO request that is granted starts the heater, takes it over or waits.
LEMMA EnterDoes ==
    ASSUME ThermoInv, on, NEW s0 \in Sessions, NEW i \in Inputs, NEW u, u = Enter(s0, i)
    PROVE  Sound(u) /\ u.done /\ u.mode \in Running /\ (IsStart(u.pend) => u.why = "START")
<1> DEFINE s == [s0 EXCEPT !.mode = "AUTO", !.pend = NoPend, !.out = <<>>, !.sent = FALSE,
                           !.stop = NoStop, !.night = i.night]
           w == [s EXCEPT !.mode = "WAITING", !.cont = "no", !.expect = Seen]
           l == i.law.level
           p == Pending("power", 1, 0, "")
           e == [run |-> "run", level |-> l]
           o == <<Cmd("runtime", 0), Cmd("level", l), Cmd("power", 1)>>
           x == [s EXCEPT !.pend = p, !.sent = TRUE, !.expect = e, !.out = o]
<1>1. /\ Seen \in Snaps /\ Seen.run = frame.run /\ l \in AnyLevel /\ i.night \in BOOLEAN
      /\ frame.run \in Runs
  BY SeenTyped DEF Inputs, ThermoInv, ThermoTyped, Frames
<1>2. s \in Sessions /\ s.mode = "AUTO" /\ s.pend = NoPend /\ s.out = <<>>
  <2>1. s \in Sessions
    BY <1>1, NothingTyped, OutsAre DEF Sessions, Modes, Running, Active
  <2> QED
    BY <2>1 DEF Sessions
<1>3. u = Ret(TakeOver(w, i), "WAITING") \/ u = Ret(w, "WAITING") \/ u = Ret(x, "START")
      \/ u = Ret(TakeOver(s, i), "ADOPT")
  BY DEF Enter
<1>4. p \in Pends /\ p.what = "power" /\ p.value = 1 /\ p.tries = 1 /\ IsStart(p)
  <2>1. p.what = "power" /\ p.value = 1 /\ p.tries = 1
    BY DEF Pending
  <2>2. p \in Pends
    BY DEF Pending, Pends, AnyLevel, Whys
  <2> QED
    BY <2>1, <2>2 DEF IsStart
<1>5. o = Full(l) /\ o \in Outs
  BY <1>1, OutsAre DEF Full
<1>6. e \in Snaps /\ e.run = "run"
  BY <1>1 DEF Snaps, Runs
<1> HIDE DEF s, p, e, o
<1>7. x \in Sessions /\ x.mode = "AUTO" /\ x.pend = p /\ x.sent /\ x.expect = e /\ x.out = o
  <2>1. x \in Sessions
    BY <1>2, <1>4, <1>5, <1>6 DEF Sessions
  <2> QED
    BY <1>2, <2>1 DEF Sessions
<1>8. w \in Sessions /\ w.mode = "WAITING" /\ w.pend = NoPend /\ w.expect = Seen /\ w.out = <<>>
  <2>1. w \in Sessions
    BY <1>1, <1>2 DEF Sessions, Modes, Running
  <2> QED
    BY <1>2, <2>1 DEF Sessions
<1> HIDE DEF w, x
<1>w. {"WAITING", "START"} \subseteq Reasons
  BY DEF Reasons
<1>9. CASE u = Ret(TakeOver(w, i), "WAITING") \/ u = Ret(TakeOver(s, i), "ADOPT")
  BY <1>2, <1>8, <1>9, TakeOverDoes DEF Running, Active
<1>10. CASE u = Ret(w, "WAITING")
  <2>1. u = [w EXCEPT !.done = TRUE, !.why = "WAITING"]
    BY <1>10 DEF Ret
  <2>2. /\ u.mode = "WAITING" /\ u.pend = NoPend /\ u.expect = Seen /\ u.out = <<>>
        /\ u.done /\ u.why = "WAITING"
    BY <1>8, <2>1 DEF Sessions
  <2>3. u \in Sessions
    BY <1>8, <1>w, <2>1 DEF Sessions
  <2>4. PendFits(u.pend, u.mode, u.expect) /\ OutFits(u) /\ TryFits(u)
    BY <2>2, NoneIsNone DEF PendFits, OutFits, TryFits
  <2>5. OursFit(u)
    BY <1>1, <2>2, NoneIsNone DEF OursFit, Mistaken, Blind, ThermoInv, OursKept
  <2> QED
    BY <2>2, <2>3, <2>4, <2>5, NoneIsNone DEF Sound, Running
<1>11. CASE u = Ret(x, "START")
  <2>1. u = [x EXCEPT !.done = TRUE, !.why = "START"]
    BY <1>11 DEF Ret
  <2>2. /\ u.mode = "AUTO" /\ u.pend = p /\ u.expect = e /\ u.out = o /\ u.sent
        /\ u.done /\ u.why = "START"
    BY <1>7, <2>1 DEF Sessions
  <2>3. u \in Sessions
    BY <1>7, <1>w, <2>1 DEF Sessions
  <2>4. PendFits(u.pend, u.mode, u.expect) /\ OutFits(u) /\ TryFits(u)
    BY <1>1, <1>4, <1>5, <1>6, <2>2 DEF PendFits, OutFits, TryFits, Active
  <2>5. OursFit(u)
    BY <1>4, <1>6, <2>2, NoneIsNone DEF OursFit
  <2> QED
    BY <2>2, <2>3, <2>4, <2>5 DEF Sound, Running, Active
<1> QED
  BY <1>3, <1>9, <1>10, <1>11

\* Rule (2): the owner's OFF ends what runs, AUTO is granted or refused.
LEMMA RequestDoes ==
    ASSUME ThermoInv, NEW s, Open(s), s.mode # "WAITING", NEW i \in Inputs, NEW u, u = Request(s, i)
    PROVE  /\ Sound(u)
           /\ u.done /\ IsStart(u.pend) => u.why = "START"
           /\ ~u.done => u = s
           /\ OwnerOff => u.mode \notin Running
           /\ u.mode \in Running => s.mode \in Running \/ req = "AUTO"
<1>1. s \in Sessions /\ s.mode \in Modes /\ ~s.done /\ Sound(s)
  BY DEF Open, Sound, Sessions
<1>w. "REFUSED" \in Reasons /\ "USER_OFF" \in Reasons /\ "REFUSED" # "START"
  BY DEF Reasons
<1>2. CASE s.mode \in Active /\ OwnerOff
  <2>1. u = Ret(Stop(s, link /\ fresh, OffWhy), "USER_OFF")
    BY <1>2 DEF Request
  <2>2. OffWhy \in {"owner", "safety"} /\ (ours => s.expect.run = "run")
    BY <1>2, OursExpected DEF OffWhy, Running
  <2>3. ASSUME NEW can \in BOOLEAN, can = (link /\ fresh)
        PROVE  Sound(u) /\ u.done /\ u.mode \in {"OFF", "STOPPING"}
    <3>1. u = Ret(Stop(s, can, OffWhy), "USER_OFF")
      BY <2>1, <2>3
    <3> QED
      BY <1>1, <1>w, <2>2, <3>1, StopDoes
  <2>4. Sound(u) /\ u.done /\ u.mode \in {"OFF", "STOPPING"}
    BY <2>3
  <2> QED
    BY <2>4, NoneIsNone DEF Sound, PendFits, Running, Active
<1> DEFINE asked == req = "AUTO" /\ s.mode \notin Active /\ HeldWhy(s) # "safety"
<1>3. CASE ~(s.mode \in Active /\ OwnerOff) /\ asked
  <2>1. CASE on /\ link /\ fresh /\ ~Faulty /\ i.fit
    <3>1. u = Enter(s, i)
      BY <1>3, <2>1 DEF Request
    <3>2. ~OwnerOff
      BY <1>3, <2>1 DEF OwnerOff
    <3>3. Sound(u) /\ u.done /\ u.mode \in Running /\ (IsStart(u.pend) => u.why = "START")
      BY <1>1, <2>1, <3>1, EnterDoes
    <3> QED
      BY <1>3, <3>2, <3>3
  <2>2. CASE ~(on /\ link /\ fresh /\ ~Faulty /\ i.fit)
    <3>1. u = Ret(s, "REFUSED")
      BY <1>3, <2>2 DEF Request
    <3>2. Sound(u) /\ u.done /\ u.mode = s.mode /\ u.pend = s.pend
      BY <1>w, <3>1, RetDoes
    <3>3. s.mode \notin Running /\ ~IsStart(s.pend)
      BY <1>1, <1>3, NoneIsNone DEF Sound, PendFits, Running
    <3> QED
      BY <3>2, <3>3
  <2> QED
    BY <2>1, <2>2
<1>4. CASE ~(s.mode \in Active /\ OwnerOff) /\ ~asked
  <2>1. u = s
    BY <1>4 DEF Request
  <2> QED
    BY <1>1, <1>4, <2>1 DEF Running
<1> QED
  BY <1>2, <1>3, <1>4

\* STOPPING: the stop goes out, or there is nothing to stop.
LEMMA StoppingDoes ==
    ASSUME ThermoInv, NEW s, Open(s), s.mode = mode, mode # "WAITING", NEW u, u = Stopping(s)
    PROVE  /\ Sound(u)
           /\ s.mode \in Active => u = s
           /\ s.mode \notin Active => u.done /\ u.mode \in {"OFF", "STOPPING"}
<1> DEFINE t == [s EXCEPT !.mode = "OFF", !.stop = NoStop]
<1>1. s \in Sessions /\ s.mode \in Modes /\ ~s.done /\ Sound(s) /\ s.why = ""
  BY DEF Open, Sound, Sessions
<1>w. /\ {"", "RUN_ENDED", "STOPPING", "STOP_DROPPED"} \subseteq Reasons
      /\ "" # "START" /\ "STOPPING" # "START" /\ "STOP_DROPPED" \in LetGo
  BY DEF Reasons, LetGo
<1>2. CASE s.mode \in Active
  <2>1. u = s
    BY <1>2 DEF Stopping
  <2> QED
    BY <1>1, <1>2, <2>1
<1>3. CASE s.mode = "OFF"
  <2>1. u = Ret(s, "")
    BY <1>3 DEF Stopping, Active
  <2>2. Sound(u) /\ u.done /\ u.mode = s.mode
    BY <1>w, <2>1, RetDoes
  <2> QED
    BY <1>3, <2>2 DEF Active
<1>4. CASE s.mode = "STOPPING" /\ ~(link /\ fresh)
  <2>1. u = Ret(s, "STOPPING")
    BY <1>4 DEF Stopping, Active
  <2>2. Sound(u) /\ u.done /\ u.mode = s.mode
    BY <1>w, <2>1, RetDoes
  <2> QED
    BY <1>4, <2>2 DEF Active
<1>5. CASE s.mode = "STOPPING" /\ link /\ fresh
  <2>1. s.pend = NoPend /\ s.out = <<>>
    <3>1. s.pend = NoPend
      BY <1>1, <1>5 DEF Sound, PendFits, Running, Active
    <3> QED
      BY <1>1, <3>1, NoneIsNone DEF Sound, OutFits
  <2>2. t \in Sessions /\ t.mode = "OFF" /\ t.pend = NoPend /\ t.out = <<>>
    <3>1. t \in Sessions
      BY <1>1, NothingTyped DEF Sessions, Modes
    <3> QED
      BY <1>1, <2>1, <3>1 DEF Sessions
  <2> HIDE DEF t
  <2>3. ASSUME NEW w \in Reasons, u = Ret(t, w), ours => w \in LetGo \/ (Busy /\ Blind)
        PROVE  Sound(u) /\ u.done /\ u.mode = "OFF"
    <3>1. u = [t EXCEPT !.done = TRUE, !.why = w]
      BY <2>3 DEF Ret
    <3>2. u.mode = "OFF" /\ u.pend = NoPend /\ u.out = <<>> /\ u.done /\ u.why = w
      BY <2>2, <3>1 DEF Sessions
    <3>3. u \in Sessions
      BY <2>2, <2>3, <3>1 DEF Sessions
    <3> QED
      BY <2>3, <3>2, <3>3, NoneIsNone DEF Sound, PendFits, OutFits, TryFits, OursFit, Running, Active
  <2>4. CASE ~Heating
    <3>1. u = Ret(t, "RUN_ENDED")
      BY <1>5, <2>4 DEF Stopping, Active, t
    <3>2. ours => Busy /\ Blind
      BY <1>5, <2>4 DEF ThermoInv, OursKept, Busy, Blind, Heating
    <3> QED
      BY <1>5, <1>w, <2>3, <3>1, <3>2 DEF Active
  <2>5. CASE Heating /\ ~Same(Seen, s.stop.snap)
    <3>1. u = Ret(t, "STOP_DROPPED")
      BY <1>5, <2>5 DEF Stopping, Active, t
    <3> QED
      BY <1>5, <1>w, <2>3, <3>1 DEF Active
  <2>6. CASE Heating /\ Same(Seen, s.stop.snap)
    <3> DEFINE x == [t EXCEPT !.expect = s.stop.snap]
    <3>1. u = Ret(Stop(x, TRUE, s.stop.why), "STOPPING")
      BY <1>5, <2>6 DEF Stopping, Active, t
    <3>2. s.stop.snap \in Snaps /\ s.stop.why \in {"owner", "safety"}
      BY <1>1, <1>5 DEF Sound, Sessions, Held
    <3>3. x \in Sessions /\ x.expect = s.stop.snap
      BY <2>2, <3>2 DEF Sessions
    <3>4. ours => s.stop.snap.run = "run"
      BY <1>1, <1>5 DEF Sound, OursFit, Mistaken
    <3> HIDE DEF x
    <3>5. Sound(u) /\ u.done /\ u.mode \in {"OFF", "STOPPING"}
      <4>1. ASSUME NEW can \in BOOLEAN, can = TRUE, NEW r \in {"owner", "safety"}, r = s.stop.why
            PROVE  Sound(u) /\ u.done /\ u.mode \in {"OFF", "STOPPING"}
        <5>1. u = Ret(Stop(x, can, r), "STOPPING") /\ "STOPPING" \in Reasons
          BY <1>w, <3>1, <4>1
        <5>2. ours => x.expect.run = "run"
          BY <3>3, <3>4
        <5> QED
          BY <3>3, <5>1, <5>2, StopDoes
      <4> QED
        BY <3>2, <4>1
    <3> QED
      BY <1>5, <3>5 DEF Active
  <2> QED
    BY <2>4, <2>5, <2>6
<1> QED
  BY <1>1, <1>2, <1>3, <1>4, <1>5 DEF Modes, Running

-----------------------------------------------------------------------------
(* Rules (3) to (8), and the decision as a whole.                           *)

\* A stop of a session that runs, for a safety reason.
LEMMA SafetyStopDoes ==
    ASSUME ThermoInv, NEW s, Open(s), s.mode \in Running, NEW w \in Reasons,
           NEW u, u = Ret(Stop(s, link, "safety"), w)
    PROVE  Sound(u) /\ u.done /\ u.mode \in {"OFF", "STOPPING"}
<1>1. s \in Sessions /\ link \in BOOLEAN /\ (ours => s.expect.run = "run")
  BY OursExpected DEF Open, Sound, ThermoInv, ThermoTyped
<1> QED
  BY <1>1, StopDoes

\* Rules (3) to (6): the session ends, waits for a frame, or goes on with a heater that is
\* seen to be as it should.
LEMMA GuardsDo ==
    ASSUME ThermoInv, NEW s0, Open(s0), s0.mode = mode, mode \in Active, NEW i \in Inputs,
           NEW u, u = Guards(s0, i)
    PROVE  /\ Sound(u) /\ u.mode \in {"OFF", "STOPPING"} \cup Active
           /\ u.done => u.mode \notin Active \/ u.out = <<>>
           /\ ~u.done => Open(u) /\ u.mode \in Active /\ fresh
<1> DEFINE calm == s0.pend = NoPend
           s == IF calm /\ Heating /\ s0.expect.level = 0 THEN [s0 EXCEPT !.expect.level = frame.level] ELSE s0
<1>1. s0 \in Sessions /\ mode \in Running /\ s0.mode \in Running
  BY DEF Open, Sound, Running
<1>2. Open(s) /\ s.mode = mode
  <2>1. CASE s = s0
    BY <2>1
  <2>2. CASE s = [s0 EXCEPT !.expect.level = frame.level]
    <3> DEFINE e == [s0.expect EXCEPT !.level = frame.level]
    <3>1. frame.level \in AnyLevel /\ s0.expect \in Snaps
      BY <1>1 DEF ThermoInv, ThermoTyped, Frames, Sessions
    <3>2. e \in Snaps /\ e.run = s0.expect.run
      BY <3>1 DEF Snaps
    <3>3. s = [s0 EXCEPT !.expect = e]
      BY <1>1, <2>2 DEF Sessions
    <3> HIDE DEF e, s
    <3>4. /\ s.mode = s0.mode /\ s.expect = e /\ s.pend = s0.pend /\ s.out = s0.out
          /\ s.sent = s0.sent /\ s.done = s0.done /\ s.why = s0.why /\ s.stop = s0.stop
      BY <1>1, <3>3 DEF Sessions
    <3>5. s \in Sessions
      BY <1>1, <3>2, <3>3 DEF Sessions
    <3> QED
      BY <3>2, <3>4, <3>5, LikeOpen DEF Open
  <2> QED
    BY <2>1, <2>2
<1>w. /\ {"BATTERY_LOW", "FAULT", "HEATER_UNKNOWN", "FOREIGN_CHANGE", "RUN_ENDED"} \subseteq Reasons
      /\ "FAULT" \in LetGo /\ "FOREIGN_CHANGE" \in LetGo
  BY DEF Reasons, LetGo
<1>3. CASE u = Ret(Stop(s0, link, "safety"), "BATTERY_LOW")
  <2>1. Sound(u) /\ u.done /\ u.mode \in {"OFF", "STOPPING"}
    BY <1>1, <1>3, <1>w, SafetyStopDoes
  <2> QED
    BY <2>1 DEF Active
<1>4. CASE u = Ret(End(s0), "FAULT") \/ u = Ret(End(s0), "FOREIGN_CHANGE")
  <2>1. Sound(u) /\ u.done /\ u.mode = "OFF"
    BY <1>1, <1>4, <1>w, EndDoes
  <2> QED
    BY <2>1 DEF Active
<1>5. CASE u = Ret([s0 EXCEPT !.out = <<>>], "HEATER_UNKNOWN")
  <2>1. u = [[s0 EXCEPT !.out = <<>>] EXCEPT !.done = TRUE, !.why = "HEATER_UNKNOWN"]
    BY <1>5 DEF Ret
  <2>2. /\ u.mode = mode /\ u.pend = s0.pend /\ u.expect = s0.expect /\ u.out = <<>> /\ u.sent = s0.sent
        /\ u.stop = s0.stop /\ u.done /\ u.why = "HEATER_UNKNOWN"
    BY <1>1, <2>1 DEF Sessions
  <2>3. u \in Sessions
    BY <1>1, <1>w, <2>1, OutsAre DEF Sessions
  <2>4. OutFits(u) /\ u.out # <<Cmd("power", 1)>>
    BY <2>2 DEF OutFits
  <2>5. TryFits(u)
    BY <2>2, <2>4 DEF Open, Sound, TryFits, Retried, Resent
  <2>6. OursFit(u)
    BY <1>1, <2>2, NoneIsNone DEF Open, Sound, OursFit, Mistaken, PendFits, Running, Active
  <2> QED
    BY <1>1, <2>2, <2>3, <2>4, <2>5, <2>6 DEF Open, Sound
<1> HIDE DEF s
<1>6. CASE u = Ret(Stop(s, link, "safety"), "BATTERY_LOW")
  <2>1. Sound(u) /\ u.done /\ u.mode \in {"OFF", "STOPPING"}
    BY <1>1, <1>2, <1>6, <1>w, SafetyStopDoes
  <2> QED
    BY <2>1 DEF Active
<1>7. CASE u = Ret(End(s), "RUN_ENDED") /\ fresh /\ ~Faulty /\ ~Heating
  <2>1. s \in Sessions
    BY <1>2 DEF Open, Sound
  <2>2. ours => Busy /\ Blind
    BY <1>1, <1>7 DEF ThermoInv, OursKept, Busy, Blind, Heating, Running, Active
  <2>3. Sound(u) /\ u.done /\ u.mode = "OFF"
    BY <1>7, <1>w, <2>1, <2>2, EndDoes
  <2> QED
    BY <2>3 DEF Active
<1>8. CASE u = s /\ fresh
  BY <1>2, <1>8 DEF Open
<1>9. \/ u = Ret(Stop(s0, link, "safety"), "BATTERY_LOW")
      \/ u = Ret(End(s0), "FAULT") \/ u = Ret(End(s0), "FOREIGN_CHANGE")
      \/ u = Ret([s0 EXCEPT !.out = <<>>], "HEATER_UNKNOWN")
      \/ u = Ret(Stop(s, link, "safety"), "BATTERY_LOW")
      \/ u = Ret(End(s), "RUN_ENDED") /\ fresh /\ ~Faulty /\ ~Heating
      \/ u = s /\ fresh
  BY DEF Guards, s
<1> QED
  BY <1>3, <1>4, <1>5, <1>6, <1>7, <1>8, <1>9

\* Rules (7) and (8).
LEMMA ControlDoes ==
    ASSUME ThermoInv, NEW s, Open(s), s.mode \in Active, NEW i \in Inputs, NEW u, u = Control(s, i)
    PROVE  Sound(u) /\ u.mode \in {"OFF", "STOPPING"} \cup Active
<1> DEFINE calm == s.pend = NoPend
           leveled == IF calm /\ i.law.level # frame.level /\ link THEN SendLevel(s, i.law.level, frame.level) ELSE s
<1>1. s \in Sessions /\ s.mode \in Running /\ ~s.done /\ s.why = ""
  BY DEF Open, Sound, Running
<1>2. Open(leveled) /\ leveled.mode \in Active
  <2>1. CASE leveled = s
    BY <2>1
  <2>2. CASE calm /\ leveled = SendLevel(s, i.law.level, frame.level)
    <3> HIDE DEF leveled
    <3>1. i.law.level \in AnyLevel /\ frame.level \in AnyLevel
      BY DEF Inputs, ThermoInv, ThermoTyped, Frames
    <3>2. /\ leveled \in Sessions /\ leveled.mode = s.mode /\ leveled.pend.what = "level"
          /\ leveled.expect.run = s.expect.run /\ OutFits(leveled) /\ leveled.done = s.done
          /\ leveled.why = s.why /\ leveled.sent
      <4>1. \A l, b \in AnyLevel : \A v : v = SendLevel(s, l, b) =>
                  /\ v \in Sessions /\ v.mode = s.mode /\ v.pend.what = "level"
                  /\ v.expect.run = s.expect.run /\ OutFits(v) /\ v.done = s.done
                  /\ v.why = s.why /\ v.sent
        <5>1. s \in Sessions /\ s.mode \in Running
          BY <1>1
        <5> QED
          BY <5>1, SendLevelDoes
      <4>2. leveled = SendLevel(s, i.law.level, frame.level)
        BY <2>2
      <4> QED
        BY <3>1, <4>1, <4>2
    <3>3. ~IsStart(leveled.pend) /\ ~IsStop(leveled.pend) /\ ~IsStart(s.pend)
      BY <2>2, <3>2, NoneIsNone
    <3>4. ours => s.expect.run = "run" /\ (~fresh \/ frame.run = "run")
      BY <1>1, <3>3, OursExpected
    <3> QED
      BY <1>1, <3>2, <3>3, <3>4 DEF Open, Sound, PendFits, TryFits, OursFit, Running, Active
  <2> QED
    BY <2>1, <2>2
<1>3. ASSUME NEW m \in Active, NEW t, Open(t), t.mode \in Active
      PROVE  Open([t EXCEPT !.mode = m]) /\ [t EXCEPT !.mode = m].mode = m
  <2> DEFINE v == [t EXCEPT !.mode = m]
  <2>1. t \in Sessions
    BY <1>3 DEF Open, Sound
  <2>2. /\ v.mode = m /\ v.expect = t.expect /\ v.pend = t.pend /\ v.out = t.out
        /\ v.sent = t.sent /\ v.done = t.done /\ v.why = t.why /\ v.stop = t.stop
    BY <2>1 DEF Sessions
  <2>3. v \in Sessions
    BY <2>1 DEF Sessions, Modes, Running
  <2> HIDE DEF v
  <2>4. Open(v)
    BY <1>3, <2>2, <2>3, LikeOpen DEF Open
  <2> QED
    BY <2>2, <2>4 DEF v
<1> DEFINE rets == {"SELECTED", "REFERENCE_LOST", "AUTO_ON", "HOLD", "HOLD_AT_MIN_LEVEL", "LEVEL"}
<1>4. rets \subseteq Reasons \ {"START"} /\ "OVERHEAT" \in Reasons
  BY DEF Reasons
<1>5. ASSUME NEW t, Open(t), t.mode \in Active, NEW w \in rets, u = Ret(t, w)
      PROVE  Sound(u) /\ u.mode \in Active
  <2>1. w \in Reasons /\ w # "START"
    BY <1>4
  <2>2. Sound(u) /\ u.mode = t.mode
    BY <1>5, <2>1, RetDoes
  <2> QED
    BY <1>5, <2>2
<1> HIDE DEF leveled
<1>6. \/ u = Ret([s EXCEPT !.mode = "AUTO"], "SELECTED")
      \/ u = Ret([leveled EXCEPT !.mode = "DEGRADED"], "REFERENCE_LOST")
      \/ u = Ret([s EXCEPT !.mode = "AUTO"], "AUTO_ON")
      \/ u = Ret(s, "HOLD")
      \/ u = Ret(Stop(s, link, "safety"), "OVERHEAT")
      \/ u = Ret(leveled, "HOLD_AT_MIN_LEVEL") \/ u = Ret(leveled, "LEVEL")
  BY DEF Control, leveled
<1>7. CASE u = Ret(Stop(s, link, "safety"), "OVERHEAT")
  BY <1>1, <1>4, <1>7, SafetyStopDoes
<1>8. "AUTO" \in Active /\ "DEGRADED" \in Active
  BY DEF Active
<1>9. CASE u = Ret([s EXCEPT !.mode = "AUTO"], "SELECTED") \/ u = Ret([s EXCEPT !.mode = "AUTO"], "AUTO_ON")
  <2> DEFINE t == [s EXCEPT !.mode = "AUTO"]
  <2>1. Open(t) /\ t.mode \in Active
    BY <1>3, <1>8
  <2> HIDE DEF t
  <2> QED
    BY <1>5, <1>9, <2>1 DEF t
<1>10. CASE u = Ret([leveled EXCEPT !.mode = "DEGRADED"], "REFERENCE_LOST")
  <2> DEFINE t == [leveled EXCEPT !.mode = "DEGRADED"]
  <2>1. Open(t) /\ t.mode \in Active
    BY <1>2, <1>3, <1>8
  <2> HIDE DEF t
  <2> QED
    BY <1>5, <1>10, <2>1 DEF t
<1>11. CASE u = Ret(s, "HOLD") \/ u = Ret(leveled, "HOLD_AT_MIN_LEVEL") \/ u = Ret(leveled, "LEVEL")
  BY <1>2, <1>5, <1>11
<1> QED
  BY <1>6, <1>7, <1>9, <1>10, <1>11

\* The end of the step.
LEMMA FinishDoes ==
    ASSUME NEW s, Sound(s), NEW u, u = Finish(s)
    PROVE  /\ Sound(u) /\ u.mode = s.mode /\ u.pend = s.pend /\ u.out = s.out /\ u.why = s.why
           /\ u.sent = s.sent
<1>1. s \in Sessions
  BY DEF Sound
<1> DEFINE n == s.night /\ s.mode # "OFF"
           c == IF s.mode = "WAITING" THEN s.cont ELSE "no"
<1>2. n \in BOOLEAN /\ c \in {"no", "seen", "again"}
  BY <1>1 DEF Sessions
<1>3. u = [s EXCEPT !.night = n, !.cont = c]
  BY DEF Finish
<1> HIDE DEF n, c
<1>4. /\ u.mode = s.mode /\ u.pend = s.pend /\ u.out = s.out /\ u.why = s.why /\ u.sent = s.sent
      /\ u.expect = s.expect /\ u.stop = s.stop
  BY <1>1, <1>3 DEF Sessions
<1>5. u \in Sessions
  BY <1>1, <1>2, <1>3 DEF Sessions
<1>6. OutFits(u)
  BY <1>4 DEF Sound, OutFits
<1>7. TryFits(u)
  BY <1>4 DEF Sound, TryFits, Retried, Resent
<1>8. OursFit(u)
  BY <1>4 DEF Sound, OursFit, Mistaken
<1> QED
  BY <1>4, <1>5, <1>6, <1>7, <1>8 DEF Sound

\* The decision keeps the session sound; it does not run after an OFF; a start is sent
\* again only to a heater that is seen.
LEMMA DecideDoes ==
    ASSUME ThermoInv, NEW i \in Inputs, NEW u, u = Decide(i)
    PROVE  /\ Sound(u)
           /\ OwnerOff => u.mode \notin Running
           /\ u.mode \in Running => mode \in Running \/ req = "AUTO"
           /\ IsStart(u.pend) /\ u.why # "START" /\ u.out # <<>> => fresh
<1> DEFINE a == Bookkeep(Session, i)
           b == IF a.done THEN a ELSE IF a.mode = "WAITING" THEN Waiting(a, i) ELSE Request(a, i)
           c == IF b.done THEN b ELSE Stopping(b)
           d == IF c.done THEN c ELSE Guards(c, i)
           e == IF d.done THEN d ELSE Control(d, i)
           fits(x) == /\ Sound(x)
                      /\ OwnerOff => x.mode \notin Running
                      /\ x.mode \in Running => mode \in Running \/ req = "AUTO"
                      /\ IsStart(x.pend) /\ x.why # "START" /\ x.out # <<>> => fresh
<1>1. u = Finish(e)
  BY DEF Decide
<1>2. /\ Sound(a)
      /\ a.done => a.mode = "OFF"
      /\ ~a.done => a.why = "" /\ a.mode = mode
  BY BookkeepDoes
<1> HIDE DEF a
<1>3. /\ b.done => fits(b)
      /\ ~b.done => b = a /\ Open(a) /\ mode # "WAITING" /\ (OwnerOff => mode \notin Running)
  <2>1. CASE a.done
    BY <1>2, <2>1, NoneIsNone DEF Sound, PendFits, Running, Active
  <2>2. CASE ~a.done /\ a.mode = "WAITING"
    <3>1. b = Waiting(a, i) /\ Open(a)
      BY <1>2, <2>2 DEF Open
    <3>2. Sound(b) /\ b.done /\ (OwnerOff => b.mode \notin Running) /\ ~IsStart(b.pend)
      BY <2>2, <3>1, WaitingDoes
    <3> QED
      BY <1>2, <2>2, <3>2 DEF Running
  <2>3. CASE ~a.done /\ a.mode # "WAITING"
    <3>1. b = Request(a, i) /\ Open(a)
      BY <1>2, <2>3 DEF Open
    <3>2. /\ Sound(b)
          /\ b.done /\ IsStart(b.pend) => b.why = "START"
          /\ ~b.done => b = a
          /\ OwnerOff => b.mode \notin Running
          /\ b.mode \in Running => a.mode \in Running \/ req = "AUTO"
      BY <2>3, <3>1, RequestDoes
    <3> HIDE DEF b
    <3>3. CASE b.done
      BY <1>2, <2>3, <3>2, <3>3
    <3>4. CASE ~b.done
      <4>1. b = a
        BY <3>2, <3>4
      <4> QED
        BY <1>2, <2>3, <3>1, <3>2, <3>4, <4>1
    <3> QED
      BY <3>3, <3>4
  <2> QED
    BY <2>1, <2>2, <2>3
<1> HIDE DEF b
<1>4. /\ c.done => fits(c)
      /\ ~c.done => c = a /\ Open(a) /\ mode \in Active /\ ~OwnerOff
  <2>1. CASE b.done
    BY <1>3, <2>1
  <2>2. CASE ~b.done
    <3>1. c = Stopping(a) /\ Open(a) /\ mode # "WAITING" /\ ~a.done /\ a.mode = mode
      BY <1>2, <1>3, <2>2 DEF Open
    <3>2. /\ Sound(c)
          /\ a.mode \in Active => c = a
          /\ a.mode \notin Active => c.done /\ c.mode \in {"OFF", "STOPPING"}
      BY <3>1, StoppingDoes
    <3>3. CASE mode \in Active
      BY <1>3, <2>2, <3>1, <3>2, <3>3 DEF Running
    <3>4. CASE mode \notin Active
      BY <3>1, <3>2, <3>4, NoneIsNone DEF Sound, PendFits, Running, Active
    <3> QED
      BY <3>3, <3>4
  <2> QED
    BY <2>1, <2>2
<1> HIDE DEF c
<1>5. /\ d.done => fits(d)
      /\ ~d.done => Open(d) /\ d.mode \in Active /\ fresh /\ mode \in Active /\ ~OwnerOff
  <2>1. CASE c.done
    BY <1>4, <2>1
  <2>2. CASE ~c.done
    <3>1. d = Guards(a, i) /\ Open(a) /\ mode \in Active /\ ~OwnerOff /\ a.mode = mode
      BY <1>2, <1>4, <2>2 DEF Open
    <3>2. /\ Sound(d) /\ d.mode \in {"OFF", "STOPPING"} \cup Active
          /\ d.done => d.mode \notin Active \/ d.out = <<>>
          /\ ~d.done => Open(d) /\ d.mode \in Active /\ fresh
      BY <3>1, GuardsDo
    <3>3. IsStart(d.pend) => d.mode \in Active
      BY <3>2, NoneIsNone DEF Sound, PendFits
    <3> QED
      BY <3>1, <3>2, <3>3 DEF Running
  <2> QED
    BY <2>1, <2>2
<1> HIDE DEF d
<1>6. fits(e)
  <2>1. CASE d.done
    BY <1>5, <2>1
  <2>2. CASE ~d.done
    <3>1. e = Control(d, i) /\ Open(d) /\ d.mode \in Active /\ fresh /\ mode \in Active /\ ~OwnerOff
      BY <1>5, <2>2
    <3>2. Sound(e)
      BY <3>1, ControlDoes
    <3> QED
      BY <3>1, <3>2 DEF Running
  <2> QED
    BY <2>1, <2>2
<1> HIDE DEF e
<1> QED
  BY <1>1, <1>6, FinishDoes

-----------------------------------------------------------------------------
(* A tick.                                                                  *)

\* The commands of a step are handed over, or answered at once.
LEMMA SubmitDoes ==
    ASSUME ThermoInv, NEW s, Sound(s), NEW rc \in Answers \cup {"PENDING"}, Submit(s.out, rc),
           batchOn' = (on /\ inFlight')
    PROVE  /\ res' \in Answer /\ inFlight' \in BOOLEAN /\ batchOn' \in BOOLEAN
           /\ \/ /\ batch' = <<>> /\ ~inFlight' /\ PowerOns(s.out, rc) = 0
                 /\ res'.rc \in NotNow => s.out # <<>> /\ res'.what = Head(s.out).what
              \/ /\ s.sent /\ s.pend # NoPend /\ s.out = <<Cmd(s.pend.what, s.pend.value)>>
                 /\ batch' = s.out /\ inFlight' /\ res' = NoResult
                 /\ PowerOns(s.out, rc) = IF IsStart(s.pend) THEN 1 ELSE 0
              \/ /\ s.sent /\ IsStart(s.pend) /\ s.pend.tries = 1
                 /\ \E l \in AnyLevel : s.out = Full(l)
                 /\ batch' = s.out /\ inFlight' /\ batchOn' /\ res' = NoResult
                 /\ PowerOns(s.out, rc) = 0
<1>1. /\ s.out \in Outs /\ s.pend \in Pends
      /\ rc \in {"PENDING", "BUSY", "REFUSED", "NOT_READY"}
  BY DEF Sound, Sessions, Answers
<1>2. NoResult \in Answer /\ NoResult.rc \notin NotNow /\ on \in BOOLEAN
  BY NothingTyped DEF NoResult, NotNow, ThermoInv, ThermoTyped
<1>3. CASE s.out = <<>>
  <2>1. batch' = <<>> /\ inFlight' = FALSE /\ res' = NoResult /\ PowerOns(s.out, rc) = 0
    BY <1>3 DEF Submit, PowerOns
  <2> QED
    BY <1>2, <2>1
<1>4. ASSUME s.out # <<>>, rc # "PENDING", NEW c, c = Head(s.out),
             c.what \in {"runtime", "power", "permanent", "level"}
      PROVE  /\ res' \in Answer /\ inFlight' = FALSE /\ batch' = <<>> /\ PowerOns(s.out, rc) = 0
             /\ res'.what = c.what
  <2>1. batch' = <<>> /\ inFlight' = FALSE /\ res' = [what |-> c.what, rc |-> rc] /\ PowerOns(s.out, rc) = 0
    BY <1>4 DEF Submit, PowerOns
  <2> QED
    BY <1>1, <1>4, <2>1 DEF Answer
<1>5. CASE s.sent /\ s.pend # NoPend /\ s.out = <<Cmd(s.pend.what, s.pend.value)>>
  <2> DEFINE c == Cmd(s.pend.what, s.pend.value)
  <2>1. s.out # <<>> /\ Head(s.out) = c /\ c.what = s.pend.what /\ c.value = s.pend.value
    BY <1>5 DEF Cmd
  <2>2. s.pend.what \in {"power", "permanent", "level"}
    BY <1>1, <1>5, NoneIsNone DEF Sound, PendFits, Pends
  <2>3. c = Cmd("power", 1) <=> IsStart(s.pend)
    BY DEF Cmd, IsStart
  <2> HIDE DEF c
  <2>4. CASE rc = "PENDING"
    <3>1. batch' = s.out /\ inFlight' = TRUE /\ res' = NoResult
      BY <2>1, <2>4 DEF Submit
    <3>2. PowerOns(s.out, rc) = IF IsStart(s.pend) THEN 1 ELSE 0
      BY <2>1, <2>3, <2>4 DEF PowerOns
    <3> QED
      BY <1>2, <1>5, <3>1, <3>2
  <2>5. CASE rc # "PENDING"
    BY <1>2, <1>4, <2>1, <2>2, <2>5
  <2> QED
    BY <2>4, <2>5
<1>6. CASE s.sent /\ on /\ IsStart(s.pend) /\ s.pend.tries = 1 /\ \E l \in AnyLevel : s.out = Full(l)
  <2>1. s.out # <<>> /\ Head(s.out) = Cmd("runtime", 0)
    BY <1>6, FullIsLong
  <2>2. Cmd("runtime", 0).what = "runtime" /\ Cmd("runtime", 0) # Cmd("power", 1)
    BY DEF Cmd
  <2>3. CASE rc = "PENDING"
    <3>1. batch' = s.out /\ inFlight' = TRUE /\ res' = NoResult
      BY <2>1, <2>3 DEF Submit
    <3>2. PowerOns(s.out, rc) = 0
      BY <2>1, <2>2 DEF PowerOns
    <3> QED
      BY <1>2, <1>6, <3>1, <3>2
  <2>4. CASE rc # "PENDING"
    BY <1>2, <1>4, <2>1, <2>2, <2>4
  <2> QED
    BY <2>3, <2>4
<1> QED
  BY <1>3, <1>5, <1>6 DEF Sound, OutFits

\* What a tick does, in the terms of the decision it carries out.
LEMMA TickDoes ==
    ASSUME ThermoInv, Tick
    PROVE  \E s \in Sessions, rc \in Answers \cup {"PENDING"} :
              /\ Step(s, rc) /\ Sound(s)
              /\ OwnerOff => s.mode \notin Running
              /\ s.mode \in Running => mode \in Running \/ req = "AUTO"
              /\ IsStart(s.pend) /\ s.why # "START" /\ s.out # <<>> => fresh
<1>1. Circumstances \subseteq Inputs
  BY CircumstancesTyped DEF ThermoInv
<1>2. PICK i \in Circumstances : \E rc \in Answers \cup {"PENDING"} : Step(Decide(i), rc)
  BY DEF Tick
<1>3. PICK rc \in Answers \cup {"PENDING"} : Step(Decide(i), rc)
  BY <1>2
<1> DEFINE s == Decide(i)
<1>4. /\ Sound(s)
      /\ OwnerOff => s.mode \notin Running
      /\ s.mode \in Running => mode \in Running \/ req = "AUTO"
      /\ IsStart(s.pend) /\ s.why # "START" /\ s.out # <<>> => fresh
  BY <1>1, DecideDoes
<1>5. Step(s, rc)
  BY <1>3
<1> HIDE DEF s
<1> QED
  BY <1>4, <1>5 DEF Sound

\* How often the power on of a start has gone out after a step: it goes out again once,
\* to a heater that is seen and not in the run it asks for.
LEMMA StepStarts ==
    ASSUME ThermoInv, ~inFlight, NEW s, Sound(s), NEW rc \in Answers \cup {"PENDING"}, Step(s, rc),
           IsStart(s.pend) /\ s.why # "START" /\ s.out # <<>> => fresh
    PROVE  /\ StartsKept' /\ BatchKept' /\ starts' \in Nat
           /\ starts' > starts /\ starts > 0 => starts = 1 /\ fresh /\ frame.run # "run"
<1> DEFINE n == IF IsStart(s.pend) /\ s.why # "START" THEN starts ELSE 0
           k == PowerOns(s.out, rc)
<1>1. /\ pend' = s.pend /\ starts' = n + k /\ frame' = frame /\ fresh' = fresh
      /\ post' = (~s.sent /\ (post \/ s.pend = NoPend))
  BY DEF Step
<1>2. /\ starts \in Nat /\ s.pend.tries \in {1, 2} /\ pend.tries \in {1, 2}
      /\ ~IsStart(pend) => starts = 0
      /\ IsStart(pend) => /\ starts <= pend.tries
                          /\ res.rc \in NotNow => starts < pend.tries
                          /\ pend.tries = 2 => /\ res.rc \in NotNow => res.what = "power"
                                               /\ fresh /\ ~post => frame.run # "run"
  BY DEF ThermoInv, ThermoTyped, StartsKept, Sound, Sessions, Pends
<1>3. /\ \/ /\ batch' = <<>> /\ ~inFlight' /\ k = 0
            /\ res'.rc \in NotNow => s.out # <<>> /\ res'.what = Head(s.out).what
         \/ /\ s.sent /\ s.pend # NoPend /\ s.out = <<Cmd(s.pend.what, s.pend.value)>>
            /\ batch' = s.out /\ inFlight' /\ res' = NoResult
            /\ k = IF IsStart(s.pend) THEN 1 ELSE 0
         \/ /\ s.sent /\ IsStart(s.pend) /\ s.pend.tries = 1
            /\ \E l \in AnyLevel : s.out = Full(l)
            /\ batch' = s.out /\ inFlight' /\ batchOn' /\ res' = NoResult
            /\ k = 0
      /\ NoResult.rc \notin NotNow
  BY SubmitDoes DEF Step, NoResult, NotNow
<1> HIDE DEF k
<1>4. /\ s.out # <<>> => s.sent
      /\ \A c : Head(<<c>>) = c
      /\ Cmd("power", 1).what = "power"
  BY DEF Sound, OutFits, Cmd
<1>k. /\ k \in {0, 1} /\ (k = 1 => s.out # <<>>)
      /\ res'.rc \in NotNow => k = 0 /\ s.out # <<>> /\ res'.what = Head(s.out).what
  <2>1. CASE /\ batch' = <<>> /\ ~inFlight' /\ k = 0
             /\ res'.rc \in NotNow => s.out # <<>> /\ res'.what = Head(s.out).what
    BY <2>1
  <2>2. CASE /\ s.out = <<Cmd(s.pend.what, s.pend.value)>> /\ res' = NoResult
             /\ k = IF IsStart(s.pend) THEN 1 ELSE 0
    <3>1. s.out # <<>> /\ k \in {0, 1}
      BY <2>2
    <3> QED
      BY <1>3, <2>2, <3>1
  <2>3. CASE res' = NoResult /\ k = 0
    BY <1>3, <2>3
  <2> QED
    BY <1>3, <2>1, <2>2, <2>3
\* A start of this step, or one of an earlier step left alone, tried again or sent again.
<1>5. CASE ~IsStart(s.pend)
  <2>1. n = 0 /\ k = 0
    BY <1>3, <1>5
  <2>2. starts' = 0
    BY <1>1, <2>1
  <2>3. BatchKept'
    BY <1>1, <1>3, <1>5 DEF BatchKept
  <2> QED
    BY <1>1, <1>2, <1>5, <2>2, <2>3 DEF StartsKept
<1>6. CASE IsStart(s.pend) /\ s.why = "START"
  <2>1. n = 0 /\ s.pend.tries = 1 /\ k \in {0, 1}
    BY <1>3, <1>6 DEF Sound, TryFits
  <2>2. starts' = k
    BY <1>1, <2>1
  <2>3. res'.rc \in NotNow => k = 0
    BY <1>3
  <2>4. BatchKept'
    BY <1>1, <1>3, <1>6, <2>1, <2>2 DEF BatchKept
  <2>5. StartsKept'
    BY <1>1, <1>6, <2>1, <2>2, <2>3 DEF StartsKept
  <2> QED
    BY <1>2, <2>1, <2>2, <2>4, <2>5
<1>7. CASE IsStart(s.pend) /\ s.why # "START" /\ ~s.sent /\ s.pend = pend
  <2>1. n = starts /\ s.out = <<>> /\ s.pend # NoPend
    BY <1>4, <1>7, NoneIsNone
  <2>2. k = 0 /\ batch' = <<>> /\ ~inFlight' /\ res'.rc \notin NotNow
    BY <1>3, <1>7, <2>1
  <2>3. starts' = starts
    BY <1>1, <1>2, <2>1, <2>2
  <2>4. post => post'
    BY <1>1, <1>7
  <2> QED
    BY <1>1, <1>2, <1>7, <2>2, <2>3, <2>4 DEF StartsKept, BatchKept
<1>8. CASE IsStart(s.pend) /\ s.why # "START" /\ Retried(s) /\ IsStart(pend)
  <2>1. /\ n = starts /\ starts <= 1 /\ s.pend.tries = 2 /\ frame.run # "run" /\ ~post'
        /\ s.out \in {<<>>, <<Cmd("power", 1)>>}
    <3>1. pend \in Pends /\ s.pend = [pend EXCEPT !.tries = 2]
      BY <1>8 DEF Retried, ThermoInv, ThermoTyped
    <3>2. s.pend.tries = 2
      BY <3>1 DEF Pends
    <3> QED
      BY <1>1, <1>2, <1>8, <3>2 DEF Retried
  <2>2. \A l : s.out # Full(l)
    BY <2>1, FullIsLong
  <2>3. k \in {0, 1} /\ (k = 1 => s.out # <<>>) /\ (res'.rc \in NotNow => k = 0 /\ res'.what = "power")
    <3>1. res'.rc \in NotNow => s.out = <<Cmd("power", 1)>>
      BY <1>k, <2>1
    <3> QED
      BY <1>4, <1>k, <3>1
  <2>4. starts' = starts + k
    BY <1>1, <2>1
  <2>5. BatchKept'
    BY <1>1, <1>3, <2>2 DEF BatchKept
  <2>6. StartsKept'
    BY <1>1, <1>2, <1>8, <2>1, <2>3, <2>4 DEF StartsKept
  <2>7. starts' > starts /\ starts > 0 => starts = 1 /\ fresh
    BY <1>2, <1>8, <2>1, <2>3, <2>4
  <2> QED
    BY <1>2, <2>1, <2>3, <2>4, <2>5, <2>6, <2>7
<1>9. CASE IsStart(s.pend) /\ s.why # "START" /\ Resent(s) /\ IsStart(pend)
  <2>1. /\ n = starts /\ starts < pend.tries /\ s.pend = pend /\ ~post'
        /\ fresh /\ post => frame.run # "run"
        /\ pend.tries = 2 => res.what = "power" /\ (fresh => frame.run # "run")
        /\ s.out # <<Cmd("power", 1)>> \/ res.what = "power"
    BY <1>1, <1>2, <1>9 DEF Resent
  <2>2. /\ k \in {0, 1} /\ (k = 1 => s.out # <<>>) /\ (res'.rc \in NotNow => k = 0)
        /\ res'.rc \in NotNow /\ pend.tries = 2 => res'.what = "power"
    <3>1. k \in {0, 1} /\ (k = 1 => s.out # <<>>) /\ (res'.rc \in NotNow => k = 0)
      BY <1>k
    <3>2. ASSUME res'.rc \in NotNow, pend.tries = 2 PROVE res'.what = "power"
      <4>1. s.out # <<>> /\ res'.what = Head(s.out).what
        BY <1>k, <3>2
      <4>2. s.out = <<Cmd("power", 1)>>
        BY <1>9, <2>1, <3>2, <4>1, NoneIsNone DEF Sound, OutFits
      <4> QED
        BY <1>4, <4>1, <4>2
    <3> QED
      BY <3>1, <3>2
  <2>3. starts' = starts + k
    BY <1>1, <2>1
  <2>4. StartsKept'
    BY <1>1, <1>2, <1>9, <2>1, <2>2, <2>3 DEF StartsKept
  <2>5. BatchKept'
    <3>1. pend.tries = 1 => starts = 0
      BY <1>2, <2>1
    <3>2. CASE batch' = <<>> /\ ~inFlight'
      BY <3>2 DEF BatchKept
    <3>3. CASE s.pend # NoPend /\ s.out = <<Cmd(s.pend.what, s.pend.value)>> /\ batch' = s.out /\ inFlight'
      BY <1>1, <3>3 DEF BatchKept
    <3>4. CASE /\ IsStart(s.pend) /\ s.pend.tries = 1 /\ batch' = s.out /\ inFlight' /\ batchOn' /\ k = 0
               /\ \E l \in AnyLevel : s.out = Full(l)
      <4>1. starts' = 0
        BY <2>1, <2>3, <3>1, <3>4
      <4> QED
        BY <1>1, <3>4, <4>1 DEF BatchKept
    <3> QED
      BY <1>3, <3>2, <3>3, <3>4
  <2>6. starts' > starts /\ starts > 0 => starts = 1 /\ fresh /\ pend.tries = 2
    BY <1>2, <1>9, <2>1, <2>2, <2>3
  <2> QED
    BY <1>2, <2>1, <2>2, <2>3, <2>4, <2>5, <2>6
<1> QED
  BY <1>5, <1>6, <1>7, <1>8, <1>9 DEF Sound, TryFits

\* A tick keeps the invariant.
LEMMA TickKeeps == ThermoInv /\ Tick => ThermoInv'
<1> SUFFICES ASSUME ThermoInv, Tick
             PROVE  ThermoInv'
  OBVIOUS
<1>1. ~inFlight
  BY DEF Tick
<1>2. PICK s \in Sessions, rc \in Answers \cup {"PENDING"} :
         /\ Step(s, rc) /\ Sound(s)
         /\ OwnerOff => s.mode \notin Running
         /\ s.mode \in Running => mode \in Running \/ req = "AUTO"
         /\ IsStart(s.pend) /\ s.why # "START" /\ s.out # <<>> => fresh
  BY TickDoes
<1> DEFINE busy == s.mode # "OFF" \/ s.pend # NoPend
<1>3. /\ mode' = s.mode /\ pend' = s.pend /\ stop' = s.stop /\ night' = s.night /\ cont' = s.cont
      /\ expect' = (IF busy /\ s.mode # "STOPPING" THEN s.expect ELSE NoSnap)
      /\ held' = busy /\ req' = "NONE"
      /\ post' = (~s.sent /\ (post \/ s.pend = NoPend))
      /\ ended' = (~busy /\ (ended \/ s.why \in LetGo \/ (Busy /\ Blind)))
      /\ ours' = (ours /\ ~Mistaken(s))
      /\ UNCHANGED <<on, link, frame, fresh, heater, wish>>
  BY <1>2 DEF Step, Mistaken
<1>4. /\ s.mode \in Modes /\ s.pend \in Pends /\ s.stop \in Held /\ s.night \in BOOLEAN
      /\ s.cont \in {"no", "seen", "again"} /\ s.expect \in Snaps
  BY DEF Sessions
<1>5. StartsKept' /\ BatchKept' /\ starts' \in Nat
  BY <1>1, <1>2, StepStarts
<1>6. ThermoTyped'
  <2>1. res' \in Answer /\ inFlight' \in BOOLEAN /\ batchOn' \in BOOLEAN
    BY <1>2, SubmitDoes DEF Step
  <2>2. expect' \in Snaps
    BY <1>3, <1>4, NothingTyped
  <2>3. {held', post', ended', ours'} \subseteq BOOLEAN
    BY <1>3
  <2>4. {night', on', link', fresh'} \subseteq BOOLEAN /\ wish' \in {"AUTO", "OFF"} /\ frame' \in Frames
        /\ heater' \in Snaps
    BY <1>3, <1>4 DEF ThermoInv, ThermoTyped
  <2> QED
    BY <1>3, <1>4, <1>5, <2>1, <2>2, <2>3, <2>4 DEF ThermoTyped
<1>7. PendKept'
  <2>1. PendFits(s.pend, s.mode, s.expect) /\ (s.mode = "STOPPING" => s.stop.why \in {"owner", "safety"})
    BY <1>2 DEF Sound
  <2>2. s.mode \in Active => expect' = s.expect
    BY <1>3 DEF Active
  <2> QED
    BY <1>3, <2>1, <2>2 DEF PendKept, PendFits
<1>8. OffDone'
  <2>1. wish = "OFF" => OwnerOff \/ (req # "AUTO" /\ mode \notin Running)
    BY DEF ThermoInv, OffDone, OwnerOff
  <2> QED
    BY <1>2, <1>3, <2>1 DEF OffDone
<1>9. OursKept'
  <2> SUFFICES ASSUME ours'
               PROVE  /\ heater'.run = "run"
                      /\ mode' \in Running => /\ expect'.run = "run"
                                              /\ IsStart(pend') \/ ~fresh' \/ frame'.run = "run"
                      /\ IsStop(pend') => pend'.what = "power" /\ (fresh' /\ post' => frame'.run = "run")
                      /\ mode' = "STOPPING" => stop'.snap.run = "run"
                      /\ Busy' \/ ended'
    BY DEF OursKept
  <2>1. ours /\ ~Mistaken(s)
    BY <1>3
  <2>2. /\ s.mode \in Running => /\ s.expect.run = "run"
                                 /\ IsStart(s.pend) \/ ~fresh \/ frame.run = "run"
        /\ IsStop(s.pend) => /\ s.pend.what = "power"
                             /\ s.sent \/ (fresh /\ post => frame.run = "run")
        /\ s.mode = "STOPPING" => s.stop.snap.run = "run"
        /\ s.mode = "OFF" /\ s.pend = NoPend => ended \/ s.why \in LetGo \/ (Busy /\ Blind)
    BY <1>2, <2>1 DEF Sound, OursFit
  <2>3. heater'.run = "run"
    BY <1>3, <2>1 DEF ThermoInv, OursKept
  <2>4. s.mode \in Running => expect' = s.expect
    BY <1>3 DEF Running, Active
  <2>5. IsStop(pend') => pend'.what = "power" /\ (fresh' /\ post' => frame'.run = "run")
    BY <1>3, <2>2, NoneIsNone
  <2>6. Busy' \/ ended'
    <3>1. CASE busy
      BY <1>3, <3>1 DEF Busy
    <3>2. CASE ~busy
      BY <1>3, <2>2, <3>2
    <3> QED
      BY <3>1, <3>2
  <2> QED
    BY <1>3, <2>2, <2>3, <2>4, <2>5, <2>6
<1> QED
  BY <1>5, <1>6, <1>7, <1>8, <1>9 DEF ThermoInv

\* After an OFF a tick hands over nothing but a stop.
LEMMA TickAfterOff == ThermoInv /\ Tick /\ OffWanted /\ inFlight' => Head(batch') \in StopCommands
<1> SUFFICES ASSUME ThermoInv, Tick, OffWanted, inFlight'
             PROVE  Head(batch') \in StopCommands
  OBVIOUS
<1>1. PICK s \in Sessions, rc \in Answers \cup {"PENDING"} :
         /\ Step(s, rc) /\ Sound(s)
         /\ OwnerOff => s.mode \notin Running
         /\ s.mode \in Running => mode \in Running \/ req = "AUTO"
         /\ IsStart(s.pend) /\ s.why # "START" /\ s.out # <<>> => fresh
  BY TickDoes
<1>2. s.mode \notin Running
  BY <1>1 DEF ThermoInv, OffDone, OwnerOff, OffWanted
<1>3. s.pend = NoPend \/ IsStop(s.pend)
  BY <1>1, <1>2 DEF Sound, PendFits, Running
<1>4. s.pend # NoPend /\ batch' = <<Cmd(s.pend.what, s.pend.value)>>
  <2>1. ~IsStart(s.pend)
    BY <1>3, NoneIsNone
  <2> QED
    BY <1>1, <2>1, SubmitDoes DEF Step
<1> QED
  BY <1>3, <1>4 DEF IsStop, StopCommands, Cmd

-----------------------------------------------------------------------------
(* An OFF while the heater is seen to run as expected.                      *)

\* A heater that is expected to run is stopped now, or when the link is there.
LEMMA StopTakes ==
    ASSUME NEW s \in Sessions, s.expect.run # "off", NEW can \in BOOLEAN, NEW r \in {"owner", "safety"},
           NEW w, NEW u, u = Ret(Stop(s, can, r), w)
    PROVE  u.done /\ (u.mode = "STOPPING" \/ IsStop(u.pend))
<1> DEFINE what == IF s.expect.run = "cont" THEN "permanent" ELSE "power"
           p == Pending(what, 0, 0, r)
           off == [End(s) EXCEPT !.sent = FALSE]
<1>1. off = [s EXCEPT !.mode = "OFF", !.pend = NoPend, !.out = <<>>, !.sent = FALSE]
  BY DEF End, Sessions
<1>2. IsStop(p)
  BY DEF Pending, IsStop
<1> HIDE DEF p
<1>3. CASE can
  <2>1. u = [[off EXCEPT !.pend = p, !.out = <<Cmd(p.what, p.value)>>, !.sent = TRUE]
               EXCEPT !.done = TRUE, !.why = w]
    BY <1>3 DEF Stop, Ret, Send, p
  <2>2. u.pend = p /\ u.done
    BY <1>1, <2>1 DEF Sessions
  <2> QED
    BY <1>2, <2>2
<1>4. CASE ~can
  <2>1. u = [[off EXCEPT !.mode = "STOPPING", !.stop = [snap |-> s.expect, why |-> r]]
               EXCEPT !.done = TRUE, !.why = w]
    BY <1>4 DEF Stop, Ret, Defer
  <2>2. u.mode = "STOPPING" /\ u.done
    BY <1>1, <2>1 DEF Sessions
  <2> QED
    BY <2>2
<1> QED
  BY <1>3, <1>4

\* Rule (1) leaves the stop to rule (2): a level that failed does not end the session.
LEMMA BookkeepOff ==
    ASSUME ThermoInv, OwnerOff, mode \in Active, AsExpected, NEW i \in Inputs,
           NEW u, u = Bookkeep(Session, i)
    PROVE  ~u.done /\ u.mode = mode /\ u.expect.run # "off"
<1> DEFINE s == Session
           p == s.pend
           read == fresh /\ post
           full == res.what # "power"
           moved == /\ p.what = "level" /\ read /\ ~Faulty
                    /\ \/ frame.level \notin {0, p.value, p.before}
                       \/ frame.run # s.expect.run
<1>1. /\ s \in Sessions /\ s.mode = mode /\ p = pend /\ s.expect = expect /\ ~s.done
  BY SessionOpen DEF Open, Sound
<1>2. /\ fresh /\ ~Faulty /\ frame.run # "off" /\ frame.run = expect.run /\ Seen.run = frame.run
      /\ mode # "WAITING"
  BY SeenTyped DEF AsExpected, Heating, Active, ThermoInv, ThermoTyped
<1>3. pend = NoPend \/ (pend.what = "level" /\ ~IsStart(pend) /\ ~IsStop(pend))
  <2>1. ~IsStart(pend)
    BY <1>2 DEF AsExpected
  <2> QED
    BY <2>1, NoneIsNone DEF ThermoInv, PendKept, PendFits, Active
<1>4. ~moved
  <2>1. p.what = "level" => frame.level \in {0, p.value, p.before}
    BY <1>1 DEF AsExpected
  <2> QED
    BY <1>1, <1>2, <2>1
<1>5. pend # NoPend => OffFirst(s)
  BY <1>1, <1>3 DEF OffFirst
<1>6. \/ u = s
      \/ u = [s EXCEPT !.pend = NoPend, !.expect = Seen]
      \/ u = Resend(s, full)
      \/ u = Retry(s)
  <2>1. CASE pend = NoPend
    BY <1>1, <2>1 DEF Bookkeep
  <2>2. CASE pend # NoPend
    <3>1. ~IsStart(p) /\ ~IsStop(p) /\ OffFirst(s) /\ s.mode # "WAITING" /\ p # NoPend
      BY <1>1, <1>2, <1>3, <1>5, <2>2
    <3> QED
      BY <1>2, <1>4, <3>1 DEF Bookkeep
  <2> QED
    BY <2>1, <2>2
<1> HIDE DEF s
<1>7. CASE u = s
  BY <1>1, <1>2, <1>7
<1>8. CASE u = [s EXCEPT !.pend = NoPend, !.expect = Seen]
  BY <1>1, <1>2, <1>8 DEF Sessions
<1>9. CASE u = Resend(s, full) \/ u = Retry(s)
  <2>1. ~u.done /\ u.mode = mode /\ u.expect = expect
    BY <1>1, <1>9 DEF Sessions, Resend, Retry
  <2> QED
    BY <1>2, <2>1
<1> QED
  BY <1>6, <1>7, <1>8, <1>9

\* A tick that takes an OFF leaves a stop on its way, or waiting for the link.
LEMMA TickTakesOff ==
    ThermoInv /\ Tick /\ OwnerOff /\ mode \in Running /\ AsExpected => mode' = "STOPPING" \/ IsStop(pend')
<1> SUFFICES ASSUME ThermoInv, Tick, OwnerOff, mode \in Running, AsExpected
             PROVE  mode' = "STOPPING" \/ IsStop(pend')
  OBVIOUS
<1>1. PICK i \in Inputs, rc \in Answers \cup {"PENDING"} : Step(Decide(i), rc)
  BY CircumstancesTyped DEF ThermoInv, Tick
<1> DEFINE a == Bookkeep(Session, i)
           b == IF a.mode = "WAITING" THEN Waiting(a, i) ELSE Request(a, i)
           s == IF fresh THEN [a EXCEPT !.expect = Seen] ELSE a
           u == Decide(i)
<1>2. OffWhy \in {"owner", "safety"} /\ (link /\ fresh) \in BOOLEAN /\ fresh /\ Seen \in Snaps
      /\ Seen.run = frame.run /\ frame.run # "off"
  <2>1. fresh /\ frame.run # "off"
    BY DEF AsExpected, Heating
  <2>2. link \in BOOLEAN
    BY DEF ThermoInv, ThermoTyped
  <2> QED
    BY <2>1, <2>2, SeenTyped DEF OffWhy, ThermoInv
<1>3. Sound(a) /\ a \in Sessions /\ (~a.done => a.mode = mode) /\ (a.done => a.mode = "OFF")
  BY BookkeepDoes DEF Sound
<1>4. mode = "WAITING" => ~a.done
  <2>1. ASSUME mode = "WAITING" PROVE a \in {Session, [Session EXCEPT !.pend = NoPend]}
    <3>1. Session.mode = "WAITING"
      BY <2>1, SessionOpen
    <3> QED
      BY <3>1 DEF Bookkeep
  <2>2. Session \in Sessions /\ ~Session.done
    BY SessionOpen DEF Open, Sound
  <2>3. ~[Session EXCEPT !.pend = NoPend].done
    BY <2>2 DEF Sessions
  <2> QED
    BY <2>1, <2>2, <2>3
<1>5. mode \in Active => ~a.done /\ a.expect.run # "off"
  BY BookkeepOff
<1>6. ~a.done /\ a.mode = mode
  BY <1>3, <1>4, <1>5 DEF Running
<1> HIDE DEF a
<1>7. \E t \in Sessions : t.expect.run # "off" /\ b = Ret(Stop(t, link /\ fresh, OffWhy), "USER_OFF")
  <2>1. CASE mode = "WAITING"
    <3>1. s = [a EXCEPT !.expect = Seen]
      BY <1>2
    <3>2. b = Ret(Stop(s, link /\ fresh, OffWhy), "USER_OFF")
      BY <1>6, <2>1 DEF Waiting
    <3> HIDE DEF s
    <3>3. s \in Sessions /\ s.expect = Seen
      BY <1>2, <1>3, <3>1 DEF Sessions
    <3> QED
      BY <1>2, <3>2, <3>3
  <2>2. CASE mode # "WAITING"
    <3>1. mode \in Active
      BY <2>2 DEF Running
    <3>2. b = Ret(Stop(a, link /\ fresh, OffWhy), "USER_OFF")
      BY <1>6, <2>2, <3>1 DEF Request
    <3> QED
      BY <1>3, <1>5, <3>1, <3>2
  <2> QED
    BY <2>1, <2>2
<1> HIDE DEF b
<1>8. b.done /\ (b.mode = "STOPPING" \/ IsStop(b.pend))
  <2>1. PICK t \in Sessions : t.expect.run # "off" /\ b = Ret(Stop(t, link /\ fresh, OffWhy), "USER_OFF")
    BY <1>7
  <2>2. ASSUME NEW can \in BOOLEAN, can = (link /\ fresh)
        PROVE  b.done /\ (b.mode = "STOPPING" \/ IsStop(b.pend))
    <3>1. b = Ret(Stop(t, can, OffWhy), "USER_OFF")
      BY <2>1, <2>2
    <3> QED
      BY <1>2, <2>1, <3>1, StopTakes
  <2> QED
    BY <1>2, <2>2
<1>9. u = Finish(b)
  BY <1>6, <1>8 DEF Decide, a, b
<1>10. Sound(u) /\ mode' = u.mode /\ pend' = u.pend
  BY <1>1, DecideDoes DEF Step
<1>11. u.mode = b.mode /\ u.pend = b.pend
  <2> HIDE DEF u
  <2>1. Sound(b)
    <3>1. CASE mode = "WAITING"
      <4>1. b = Waiting(a, i) /\ Open(a)
        BY <1>3, <1>6, <3>1, BookkeepDoes DEF a, b, Open
      <4> QED
        BY <1>6, <3>1, <4>1, WaitingDoes
    <3>2. CASE mode # "WAITING"
      <4>1. b = Request(a, i) /\ Open(a)
        BY <1>3, <1>6, <3>2, BookkeepDoes DEF a, b, Open
      <4> QED
        BY <1>6, <3>2, <4>1, RequestDoes
    <3> QED
      BY <3>1, <3>2
  <2> QED
    BY <1>9, <2>1, FinishDoes
<1> QED
  BY <1>8, <1>10, <1>11

-----------------------------------------------------------------------------
(* The other steps.                                                         *)

\* The step moves nothing but the frame, the link, the batch, the owner or the heater.
Still ==
    /\ UNCHANGED <<mode, pend, expect, stop, night>>
    /\ cont' \in {"no", "seen", "again"}

\* A step of the link or of the frames.
LEMMA SeenKeeps ==
    ASSUME ThermoInv, Still, UNCHANGED <<runner, heater, history>>,
           link' \in BOOLEAN, fresh' \in BOOLEAN, post' \in BOOLEAN, frame' \in Frames,
           \/ fresh' /\ post' /\ frame'.run = heater.run
           \/ ~fresh'
           \/ UNCHANGED <<fresh, post, frame>>
    PROVE  ThermoInv'
<1>1. /\ UNCHANGED <<mode, pend, expect, stop, night, on, req, batch, inFlight, batchOn, res, held>>
      /\ UNCHANGED <<heater, ours, wish, ended, starts>> /\ cont' \in {"no", "seen", "again"}
  BY DEF Still, runner, history
<1>2. ThermoTyped'
  BY <1>1 DEF ThermoInv, ThermoTyped
<1>3. PendKept' /\ BatchKept' /\ OffDone'
  BY <1>1 DEF ThermoInv, PendKept, BatchKept, OffDone
<1>4. StartsKept'
  BY <1>1 DEF ThermoInv, StartsKept
<1>5. OursKept'
  BY <1>1 DEF ThermoInv, OursKept, Busy
<1> QED
  BY <1>2, <1>3, <1>4, <1>5 DEF ThermoInv

\* A new frame shows the heater as it is.
LEMMA ReadsDoes ==
    ASSUME ThermoInv, NEW f \in {"none", "battery", "other"}, NEW l \in AnyLevel, Reads(f, l)
    PROVE  /\ fresh' = TRUE /\ post' = TRUE /\ frame' \in Frames /\ frame'.run = heater.run
           /\ cont' \in {"no", "seen", "again"}
<1>1. heater.run \in Runs
  BY DEF ThermoInv, ThermoTyped, Snaps
<1> QED
  BY <1>1 DEF Reads, Frames, ThermoInv, ThermoTyped

\* The levels that a frame may carry, and its faults.
LEMMA FramesAre ==
    ThermoInv => /\ heater.level \in AnyLevel /\ 0 \in AnyLevel
                 /\ Faults \subseteq {"none", "battery", "other"} /\ "none" \in Faults
  BY FaultsAssumption DEF ThermoInv, ThermoTyped, Snaps, AnyLevel

\* The link comes, with a frame of its read pass or with the one of before.
LEMMA LinkUpKeeps == ASSUME ThermoInv, NEW ok \in BOOLEAN, LinkUp(ok) PROVE ThermoInv'
<1>1. UNCHANGED <<mode, pend, expect, stop, night, runner, heater, history>> /\ link' = TRUE
  BY DEF LinkUp
<1>2. CASE ok
  <2>1. Reads("none", heater.level)
    BY <1>2 DEF LinkUp
  <2>2. /\ fresh' = TRUE /\ post' = TRUE /\ frame' \in Frames /\ frame'.run = heater.run
        /\ cont' \in {"no", "seen", "again"}
    BY <2>1, FramesAre, ReadsDoes
  <2> QED
    BY <1>1, <2>2, SeenKeeps DEF Still
<1>3. CASE ~ok
  <2>1. UNCHANGED <<frame, fresh, post, cont>>
    BY <1>3 DEF LinkUp
  <2>2. Still /\ fresh' \in BOOLEAN /\ post' \in BOOLEAN /\ frame' \in Frames
    BY <1>1, <2>1 DEF Still, ThermoInv, ThermoTyped
  <2> QED
    BY <1>1, <2>1, <2>2, SeenKeeps
<1> QED
  BY <1>2, <1>3

\* The link goes.
LEMMA LinkDownKeeps == ASSUME ThermoInv, LinkDown PROVE ThermoInv'
<1>1. /\ UNCHANGED <<mode, pend, expect, stop, night, runner, heater, history>> /\ link' = FALSE
      /\ UNCHANGED <<frame, fresh, post, cont>>
  BY DEF LinkDown, thermo
<1>2. Still /\ fresh' \in BOOLEAN /\ post' \in BOOLEAN /\ frame' \in Frames
  BY <1>1 DEF Still, ThermoInv, ThermoTyped
<1> QED
  BY <1>1, <1>2, SeenKeeps

\* A frame comes.
LEMMA FrameReadKeeps ==
    ASSUME ThermoInv, NEW f \in Faults, NEW l \in {0, heater.level}, FrameRead(f, l) PROVE ThermoInv'
<1>1. UNCHANGED <<mode, pend, expect, stop, night, runner, link, heater, history>> /\ Reads(f, l)
  BY DEF FrameRead
<1>2. l \in AnyLevel /\ f \in {"none", "battery", "other"}
  BY FramesAre
<1>3. /\ fresh' = TRUE /\ post' = TRUE /\ frame' \in Frames /\ frame'.run = heater.run
      /\ cont' \in {"no", "seen", "again"}
  BY <1>1, <1>2, ReadsDoes
<1>4. link' \in BOOLEAN
  BY <1>1 DEF ThermoInv, ThermoTyped
<1> QED
  BY <1>1, <1>3, <1>4, SeenKeeps DEF Still

\* A frame grows stale.
LEMMA FrameStaleKeeps == ASSUME ThermoInv, FrameStale PROVE ThermoInv'
<1>1. /\ UNCHANGED <<mode, pend, expect, stop, night, cont, runner, link, post, heater, history>>
      /\ fresh' = FALSE /\ frame' = NoFrame
  BY DEF FrameStale, thermo
<1>2. Still /\ link' \in BOOLEAN /\ post' \in BOOLEAN /\ frame' \in Frames
  BY <1>1, NothingTyped DEF Still, ThermoInv, ThermoTyped
<1> QED
  BY <1>1, <1>2, SeenKeeps

\* A step of the heater: a run that stays ours is the pending start's, or goes on.
LEMMA HeaterKeeps ==
    ASSUME ThermoInv, UNCHANGED <<thermo, runner, seen, wish, ended, starts>>,
           heater' \in Snaps, ours' \in BOOLEAN,
           ours' => heater'.run = "run" /\ (ours \/ IsStart(pend))
    PROVE  ThermoInv'
<1>1. /\ UNCHANGED <<mode, pend, expect, stop, night, cont, on, req, batch, inFlight, batchOn, res, held>>
      /\ UNCHANGED <<link, frame, fresh, post, wish, ended, starts>>
  BY DEF thermo, runner, seen
<1>2. ThermoTyped'
  BY <1>1 DEF ThermoInv, ThermoTyped
<1>3. PendKept' /\ BatchKept' /\ OffDone'
  BY <1>1 DEF ThermoInv, PendKept, BatchKept, OffDone
<1>4. StartsKept'
  BY <1>1 DEF ThermoInv, StartsKept
<1>5. OursKept'
  <2>1. CASE ours
    BY <1>1, <2>1 DEF ThermoInv, OursKept, Busy
  <2>2. CASE IsStart(pend)
    <3>1. mode \in Active /\ expect.run = "run" /\ pend # NoPend /\ ~IsStop(pend)
      BY <2>2, NoneIsNone DEF ThermoInv, PendKept, PendFits
    <3> QED
      BY <1>1, <2>2, <3>1 DEF OursKept, Busy, Active
  <2>3. CASE ~ours'
    BY <2>3 DEF OursKept
  <2> QED
    BY <2>1, <2>2, <2>3
<1> QED
  BY <1>2, <1>3, <1>4, <1>5 DEF ThermoInv

\* The unit follows the command in flight.
LEMMA FollowKeeps == ASSUME ThermoInv, Follow PROVE ThermoInv'
<1> DEFINE c == Head(batch)
<1>1. /\ inFlight /\ heater' = Effect(c, heater) /\ heater \in Snaps
      /\ ours' = (heater'.run # "off" /\ (ours \/ heater.run = "off"))
      /\ UNCHANGED <<thermo, runner, seen, wish, ended, starts>>
  BY DEF Follow, ThermoInv, ThermoTyped
<1>2. c.value \in AnyLevel /\ (c = Cmd("power", 1) => IsStart(pend))
  <2>1. CASE batch = <<Cmd(pend.what, pend.value)>>
    <3>1. c = Cmd(pend.what, pend.value) /\ pend.value \in AnyLevel
      BY <2>1 DEF ThermoInv, ThermoTyped, Pends
    <3> QED
      BY <3>1 DEF Cmd, IsStart
  <2>2. CASE IsStart(pend) /\ \E l \in AnyLevel : batch \in {Rest(l), Full(l)}
    <3>1. \A l : Head(Rest(l)) = Cmd("level", l)
      BY DEF Rest
    <3>2. 0 \in AnyLevel
      BY DEF AnyLevel
    <3> QED
      BY <2>2, <3>1, <3>2, FullIsLong DEF Cmd
  <2> QED
    BY <1>1, <2>1, <2>2 DEF ThermoInv, BatchKept
<1> HIDE DEF c
<1>3. heater' \in Snaps
  BY <1>1, <1>2 DEF Effect, Snaps, Runs
<1>4. c # Cmd("power", 1) /\ heater.run # "cont" => heater'.run \in {"off", heater.run}
  BY <1>1 DEF Effect, Snaps
<1>5. c = Cmd("power", 1) => heater'.run = IF heater.run = "off" THEN "run" ELSE heater.run
  <2>1. Cmd("power", 1).what = "power" /\ Cmd("power", 1) # Cmd("power", 0) /\ Cmd("power", 1) # Cmd("permanent", 0)
    BY DEF Cmd
  <2> QED
    BY <1>1, <2>1 DEF Effect, Snaps
<1>6. ours' => heater'.run = "run" /\ (ours \/ IsStart(pend))
  BY <1>1, <1>2, <1>4, <1>5 DEF ThermoInv, OursKept
<1>7. ours' \in BOOLEAN
  BY <1>1
<1> QED
  BY <1>1, <1>3, <1>6, <1>7, HeaterKeeps

\* The heater stops or is used at its panel.
LEMMA HeaterMovesKeeps == ASSUME ThermoInv, NEW h \in Snaps, HeaterMoves(h) PROVE ThermoInv'
  BY HeaterKeeps DEF HeaterMoves

\* An AUTO request waits for the link.
LEMMA AutoWaitsKeeps == ASSUME ThermoInv, AutoWaits PROVE ThermoInv'
<1>1. /\ UNCHANGED <<mode, pend, expect, stop, night, cont, on, req, batch, inFlight, batchOn, res>>
      /\ UNCHANGED <<link, frame, fresh, post, heater, ours, wish, ended, starts>> /\ held' = TRUE
  BY DEF AutoWaits, thermo, seen, history
<1>2. ThermoTyped'
  BY <1>1 DEF ThermoInv, ThermoTyped
<1> QED
  BY <1>1, <1>2 DEF ThermoInv, PendKept, BatchKept, OffDone, StartsKept, OursKept, Busy

\* A body of the owner's.
LEMMA PostsKeeps == ASSUME ThermoInv, Posts PROVE ThermoInv' /\ ~(req = "OFF" /\ req' = "NONE")
<1>1. PICK e \in {"on", "off", "keep"}, a \in {"AUTO", "OFF", "none"}, st \in BOOLEAN : Post(e, a, st)
  BY DEF Posts
<1>2. /\ UNCHANGED <<mode, pend, expect, stop, night, cont, batch, inFlight, batchOn, res, held>>
      /\ UNCHANGED <<link, frame, fresh, post, heater, ours, ended, starts>>
  BY <1>1 DEF Post, thermo, seen
<1>3. \/ req' = a /\ wish' = a /\ a \in {"AUTO", "OFF"}
      \/ req' = req /\ wish' = wish
  BY <1>1 DEF Post
<1>4. on' \in BOOLEAN
  <2>1. on' = CASE e = "on" -> st [] e = "off" -> FALSE [] e = "keep" -> on
    BY <1>1 DEF Post
  <2>2. on \in BOOLEAN
    BY DEF ThermoInv, ThermoTyped
  <2>3. CASE e = "on"
    BY <2>1, <2>3
  <2>4. CASE e = "off"
    BY <2>1, <2>4
  <2>5. CASE e = "keep"
    BY <2>1, <2>2, <2>5
  <2> QED
    BY <2>3, <2>4, <2>5
<1>5. ThermoTyped'
  BY <1>2, <1>3, <1>4 DEF ThermoInv, ThermoTyped
<1>6. PendKept' /\ BatchKept' /\ StartsKept'
  BY <1>2 DEF ThermoInv, PendKept, BatchKept, StartsKept
<1>7. OffDone'
  BY <1>2, <1>3 DEF ThermoInv, OffDone
<1>8. OursKept'
  BY <1>2 DEF ThermoInv, OursKept, Busy
<1> QED
  BY <1>3, <1>5, <1>6, <1>7, <1>8 DEF ThermoInv, ThermoTyped

\* The next command of a start's batch goes out only while nobody said OFF.
LEMMA NextCmdDoes ==
    ASSUME ThermoInv, NextCmd
    PROVE  ThermoInv' /\ starts = 0 /\ ~OffWanted
<1>1. PICK rc \in Answers :
         /\ Submit(Tail(batch), rc) /\ batchOn' = (batchOn /\ inFlight')
         /\ starts' = starts + PowerOns(Tail(batch), rc)
  BY DEF NextCmd
<1>2. /\ inFlight /\ GoesOn
      /\ UNCHANGED <<mode, pend, expect, stop, night, cont, on, req, held>>
      /\ UNCHANGED <<link, frame, fresh, post, heater, ours, wish, ended>>
  BY DEF NextCmd, thermo, seen
<1>3. (\E l \in AnyLevel : batch \in {Rest(l), Full(l)}) /\ batchOn /\ IsStart(pend) /\ pend.tries = 1 /\ starts = 0
  <2>1. batch # <<>>
    <3>1. Len(<<>>) = 0
      OBVIOUS
    <3> QED
      BY <1>2, <3>1 DEF GoesOn
  <2>2. batch # <<Cmd(pend.what, pend.value)>>
    <3> DEFINE c == Cmd(pend.what, pend.value)
    <3> HIDE DEF c
    <3>1. Len(<<c>>) = 1
      OBVIOUS
    <3>2. Len(batch) > 1
      BY <1>2 DEF GoesOn
    <3>3. batch # <<c>>
      BY <3>1, <3>2
    <3> QED
      BY <3>3 DEF c
  <2> QED
    BY <2>1, <2>2 DEF ThermoInv, BatchKept
<1>4. PICK l \in AnyLevel : batch \in {Rest(l), Full(l)}
  BY <1>3
<1>5. ~OffWanted
  <2>1. mode \in Active
    BY <1>3, NoneIsNone DEF ThermoInv, PendKept, PendFits
  <2> QED
    BY <1>2, <1>3, <2>1 DEF OffWanted, GoesOn, ThermoInv, OffDone, Running
<1> DEFINE cmds == Tail(batch)
           k == PowerOns(cmds, rc)
<1>6. \/ cmds = <<Cmd("power", 1)>> /\ Head(cmds) = Cmd("power", 1) /\ cmds # <<>>
      \/ cmds = Rest(l) /\ Head(cmds) = Cmd("level", l) /\ cmds # <<>>
  <2>1. Rest(l) # <<>> /\ Head(Rest(l)) = Cmd("level", l) /\ Tail(Rest(l)) = <<Cmd("power", 1)>>
    BY DEF Rest
  <2>2. Tail(Full(l)) = Rest(l)
    BY FullIsLong
  <2>3. Head(<<Cmd("power", 1)>>) = Cmd("power", 1) /\ <<Cmd("power", 1)>> # <<>>
    OBVIOUS
  <2>4. CASE batch = Rest(l)
    BY <2>1, <2>3, <2>4
  <2>5. CASE batch = Full(l)
    BY <2>1, <2>2, <2>5
  <2> QED
    BY <1>4, <2>4, <2>5
<1>7. /\ Cmd("power", 1).what = "power" /\ Cmd("level", l).what = "level"
      /\ Cmd("level", l) # Cmd("power", 1)
  BY DEF Cmd
<1>8. Submit(cmds, rc) /\ starts' = k /\ k \in {0, 1} /\ rc \in {"PENDING", "BUSY", "REFUSED", "NOT_READY"}
  BY <1>1, <1>3 DEF PowerOns, Answers
<1>9. NoResult \in Answer /\ NoResult.rc \notin NotNow
  BY NothingTyped DEF NoResult, NotNow
<1>10. /\ res' \in Answer /\ inFlight' \in BOOLEAN
       /\ res'.rc \in NotNow => starts' = 0
       /\ \/ batch' = <<>> /\ ~inFlight'
          \/ batch' = cmds /\ inFlight' /\ (cmds = Rest(l) => starts' = 0)
  <2>1. CASE rc = "PENDING"
    <3>1. batch' = cmds /\ inFlight' = TRUE /\ res' = NoResult
      BY <1>6, <1>8, <2>1 DEF Submit
    <3>2. cmds = Rest(l) => k = 0
      <4>1. Head(Rest(l)) = Cmd("level", l)
        BY DEF Rest
      <4> QED
        BY <1>7, <4>1 DEF PowerOns
    <3> QED
      BY <1>8, <1>9, <3>1, <3>2
  <2>2. CASE rc # "PENDING"
    <3> DEFINE w == Head(cmds).what
    <3>1. batch' = <<>> /\ inFlight' = FALSE /\ res' = [what |-> w, rc |-> rc]
      BY <1>6, <1>8, <2>2 DEF Submit
    <3>2. w \in {"power", "level"}
      BY <1>6, <1>7
    <3>3. k = 0
      BY <2>2 DEF PowerOns
    <3> HIDE DEF w, k, cmds
    <3>4. rc \in {"PENDING", "BUSY", "REFUSED", "NOT_READY"}
      BY <1>8
    <3>5. [what |-> w, rc |-> rc] \in Answer
      BY <2>2, <3>2, <3>4 DEF Answer
    <3> QED
      BY <1>8, <3>1, <3>3, <3>5
  <2> QED
    BY <2>1, <2>2
<1> HIDE DEF cmds, k
<1>11. ThermoTyped'
  BY <1>1, <1>2, <1>8, <1>10 DEF ThermoInv, ThermoTyped
<1>12. PendKept' /\ OffDone' /\ OursKept'
  BY <1>2 DEF ThermoInv, PendKept, OffDone, OursKept, Busy
<1>13. BatchKept'
  <2>1. CASE batch' = <<>> /\ ~inFlight'
    BY <2>1 DEF BatchKept
  <2>2. CASE batch' = cmds /\ inFlight' /\ cmds = <<Cmd("power", 1)>>
    BY <1>2, <1>3, <2>2, NoneIsNone DEF BatchKept
  <2>3. CASE batch' = cmds /\ inFlight' /\ cmds = Rest(l) /\ starts' = 0
    <3>1. batchOn'
      BY <1>1, <1>3, <2>3
    <3> QED
      BY <1>2, <1>3, <2>3, <3>1 DEF BatchKept
  <2> QED
    BY <1>6, <1>10, <2>1, <2>2, <2>3
<1>14. StartsKept'
  BY <1>2, <1>3, <1>8, <1>10 DEF StartsKept
<1> QED
  BY <1>3, <1>5, <1>11, <1>12, <1>13, <1>14 DEF ThermoInv

\* The batch is over.
LEMMA CmdDoneKeeps ==
    ASSUME ThermoInv, NEW rc \in Results, CmdDone(rc) PROVE ThermoInv' /\ ~inFlight'
<1>1. /\ inFlight /\ batch' = <<>> /\ inFlight' = FALSE /\ batchOn' = FALSE
      /\ res' = (IF pend = NoPend THEN NoResult ELSE [what |-> Head(batch).what, rc |-> rc])
      /\ UNCHANGED <<mode, pend, expect, stop, night, cont, on, req, held>>
      /\ UNCHANGED <<link, frame, fresh, post, heater, ours, wish, ended, starts>>
  BY DEF CmdDone, thermo, seen, history
<1>2. Head(batch).what \in {"runtime", "power", "permanent", "level"}
  <2>1. CASE pend # NoPend /\ batch = <<Cmd(pend.what, pend.value)>>
    <3>1. Head(batch).what = pend.what
      BY <2>1 DEF Cmd
    <3>2. pend.what \in {"power", "permanent", "level"}
      BY <2>1, NoneIsNone DEF ThermoInv, ThermoTyped, Pends, PendKept, PendFits
    <3> QED
      BY <3>1, <3>2
  <2>2. CASE \E l \in AnyLevel : batch \in {Rest(l), Full(l)}
    <3>1. \A l : Head(Rest(l)) = Cmd("level", l)
      BY DEF Rest
    <3>2. Cmd("runtime", 0).what = "runtime" /\ \A l : Cmd("level", l).what = "level"
      BY DEF Cmd
    <3> QED
      BY <2>2, <3>1, <3>2, FullIsLong
  <2> QED
    BY <1>1, <2>1, <2>2 DEF ThermoInv, BatchKept
<1>3. res' \in Answer /\ res'.rc \notin NotNow
  <2>1. CASE pend = NoPend
    BY <1>1, <2>1, NothingTyped DEF NoResult, NotNow
  <2>2. CASE pend # NoPend
    BY <1>1, <1>2, <2>2 DEF Answer, Results, NotNow
  <2> QED
    BY <2>1, <2>2
<1>4. ThermoTyped'
  BY <1>1, <1>3 DEF ThermoInv, ThermoTyped
<1>5. PendKept' /\ BatchKept' /\ OffDone' /\ OursKept'
  BY <1>1 DEF ThermoInv, PendKept, BatchKept, OffDone, OursKept, Busy
<1>6. StartsKept'
  BY <1>1, <1>3 DEF ThermoInv, StartsKept
<1> QED
  BY <1>1, <1>4, <1>5, <1>6 DEF ThermoInv

\* The thermostat starts at rest, on a heater that is off.
LEMMA ThermoStart == Init => ThermoInv
<1> SUFFICES ASSUME Init PROVE ThermoInv
  OBVIOUS
<1>1. [run |-> "off", level |-> MinLevel] \in Snaps
  BY DEF Snaps, Runs, AnyLevel
<1>2. ThermoTyped
  BY <1>1, NothingTyped DEF Init, ThermoTyped, Modes
<1>3. ~IsStart(pend) /\ ~IsStop(pend) /\ pend = NoPend
  BY NoneIsNone DEF Init
<1> QED
  BY <1>2, <1>3 DEF Init, ThermoInv, PendKept, PendFits, BatchKept, OffDone, StartsKept, OursKept,
     Running, Active

\* Every step keeps the invariant.
LEMMA ThermoStep == ThermoInv /\ [Next]_vars => ThermoInv'
<1> SUFFICES ASSUME ThermoInv, [Next]_vars PROVE ThermoInv'
  OBVIOUS
<1>1. heater \in Snaps /\ Panel \subseteq {"run", "cont"} /\ "none" \in Faults
  BY SwitchAssumption, FaultsAssumption DEF ThermoInv, ThermoTyped
<1>2. CASE Tick
  BY <1>2, TickKeeps
<1>3. CASE AutoWaits
  BY <1>3, AutoWaitsKeeps
<1>4. CASE NextCmd
  BY <1>4, NextCmdDoes
<1>5. CASE \E rc \in Results : CmdDone(rc)
  BY <1>5, CmdDoneKeeps
<1>6. CASE Posts
  BY <1>6, PostsKeeps
<1>7. CASE \E ok \in BOOLEAN : LinkUp(ok)
  BY <1>7, LinkUpKeeps
<1>8. CASE LinkDown
  BY <1>8, LinkDownKeeps
<1>9. CASE FrameRead("none", heater.level) \/ \E f \in Faults : FrameRead(f, 0)
  BY <1>1, <1>9, FrameReadKeeps
<1>10. CASE FrameStale
  BY <1>10, FrameStaleKeeps
<1>11. CASE Follow
  BY <1>11, FollowKeeps
<1>12. CASE \/ HeaterMoves([heater EXCEPT !.run = "off"])
            \/ \E r \in Panel : HeaterMoves([heater EXCEPT !.run = r])
            \/ \E l \in Levels : Panel # {} /\ HeaterMoves([heater EXCEPT !.level = l])
  <2>1. \A r \in {"off", "run", "cont"} : [heater EXCEPT !.run = r] \in Snaps
    BY <1>1 DEF Snaps, Runs
  <2>2. \A l \in Levels : [heater EXCEPT !.level = l] \in Snaps
    BY <1>1 DEF Snaps, AnyLevel
  <2> QED
    BY <1>1, <1>12, <2>1, <2>2, HeaterMovesKeeps
<1>13. CASE UNCHANGED vars
  <2>1. /\ UNCHANGED <<mode, pend, expect, stop, night, cont, on, req, batch, inFlight, batchOn, res, held>>
        /\ UNCHANGED <<link, frame, fresh, post, heater, ours, wish, ended, starts>>
    BY <1>13 DEF vars, thermo, runner, seen, history
  <2>2. ThermoTyped'
    BY <2>1 DEF ThermoInv, ThermoTyped
  <2> QED
    BY <2>1, <2>2 DEF ThermoInv, PendKept, BatchKept, OffDone, StartsKept, OursKept, Busy
<1> QED
  BY <1>2, <1>3, <1>4, <1>5, <1>6, <1>7, <1>8, <1>9, <1>10, <1>11, <1>12, <1>13 DEF Next

\* What is asked of the session outside of the ticks, which alone take a request.
LEMMA AskedStays ==
    ASSUME ThermoInv, [Next]_vars, ~Tick
    PROVE  mode' = mode /\ ~(req = "OFF" /\ req' = "NONE") /\ (starts' = starts \/ NextCmd)
<1>1. CASE AutoWaits
  BY <1>1 DEF AutoWaits, thermo, history
<1>2. CASE NextCmd
  BY <1>2 DEF NextCmd, thermo
<1>3. CASE \E rc \in Results : CmdDone(rc)
  BY <1>3 DEF CmdDone, thermo, history
<1>4. CASE Posts
  <2>1. PICK e \in {"on", "off", "keep"}, a \in {"AUTO", "OFF", "none"}, st \in BOOLEAN : Post(e, a, st)
    BY <1>4 DEF Posts
  <2> QED
    BY <1>4, <2>1, PostsKeeps DEF Post, thermo
<1>5. CASE \E ok \in BOOLEAN : LinkUp(ok)
  BY <1>5 DEF LinkUp, runner, history
<1>6. CASE LinkDown
  BY <1>6 DEF LinkDown, thermo, runner, history
<1>7. CASE FrameRead("none", heater.level) \/ \E f \in Faults : FrameRead(f, 0)
  BY <1>7 DEF FrameRead, runner, history
<1>8. CASE FrameStale
  BY <1>8 DEF FrameStale, thermo, runner, history
<1>9. CASE Follow
  BY <1>9 DEF Follow, thermo, runner
<1>10. CASE \E h : HeaterMoves(h)
  BY <1>10 DEF HeaterMoves, thermo, runner
<1>11. CASE UNCHANGED vars
  BY <1>11 DEF vars, thermo, runner, history
<1> QED
  BY <1>1, <1>2, <1>3, <1>4, <1>5, <1>6, <1>7, <1>8, <1>9, <1>10, <1>11 DEF Next

\* The batch changes by a tick, by its next command, and by its end.
LEMMA BatchStays ==
    ASSUME [Next]_vars, ~Tick, ~NextCmd, ~(\E rc \in Results : CmdDone(rc))
    PROVE  batch' = batch
<1>1. CASE AutoWaits
  BY <1>1 DEF AutoWaits
<1>2. CASE Posts
  <2>1. PICK e \in {"on", "off", "keep"}, a \in {"AUTO", "OFF", "none"}, st \in BOOLEAN : Post(e, a, st)
    BY <1>2 DEF Posts
  <2> QED
    BY <2>1 DEF Post
<1>3. CASE \/ LinkDown \/ FrameStale \/ Follow
           \/ \E ok \in BOOLEAN : LinkUp(ok)
           \/ FrameRead("none", heater.level) \/ \E f \in Faults : FrameRead(f, 0)
           \/ \E h : HeaterMoves(h)
           \/ UNCHANGED vars
  BY <1>3 DEF LinkDown, FrameStale, Follow, LinkUp, FrameRead, HeaterMoves, vars, runner
<1> QED
  BY <1>1, <1>2, <1>3 DEF Next

\* The thermostat always holds what its rules rely on.
THEOREM ThermoSafe == Spec => []ThermoInv
  BY ThermoStart, ThermoStep, PTL DEF Spec

\* At rest after an OFF: the run that is ours is off, or was let go of with a reason, or
\* by a frame that did not show it (the stops of cali_thermo_step, and STOPPING).
THEOREM RestedIsStopped == Spec => []SettledIsStopped
<1>1. ThermoInv => SettledIsStopped
  BY DEF ThermoInv, OursKept, SettledIsStopped, Settled
<1> QED
  BY <1>1, ThermoSafe, PTL

\* After an OFF nothing but a stop is handed to the sequencer, neither by a step nor by
\* the rest of a start's batch (cali_thermo_step and cmd_done).
THEOREM StopsAfterOff == Spec => OnlyStopsAfterOff
<1> DEFINE P == OffWanted /\ inFlight' /\ batch' # batch => Head(batch') \in StopCommands
<1>1. ThermoInv /\ [Next]_vars => [P]_vars
  <2> SUFFICES ASSUME ThermoInv, [Next]_vars, OffWanted, inFlight', batch' # batch
               PROVE  Head(batch') \in StopCommands
    OBVIOUS
  <2>1. CASE Tick
    BY <2>1, TickAfterOff
  <2>2. CASE NextCmd
    BY <2>2, NextCmdDoes
  <2>3. CASE \E rc \in Results : CmdDone(rc)
    BY <2>3, CmdDoneKeeps
  <2> QED
    BY <2>1, <2>2, <2>3, BatchStays
<1> QED
  BY <1>1, ThermoSafe, PTL DEF Spec, OnlyStopsAfterOff

\* A step that takes an OFF while the heater runs as expected leaves a stop, sent or
\* waiting for the link (rules (1), (W) and (2) of cali_thermo_step).
THEOREM TakenIsStopped == Spec => OffIsTaken
<1> DEFINE P == OwnerOff /\ mode \in Active \cup {"WAITING"} /\ AsExpected
                  /\ (mode' # mode \/ (req = "OFF" /\ req' = "NONE"))
                => mode' = "STOPPING" \/ IsStop(pend')
<1>1. ThermoInv /\ [Next]_vars => [P]_vars
  <2> SUFFICES ASSUME ThermoInv, [Next]_vars, OwnerOff, mode \in Active \cup {"WAITING"}, AsExpected,
                      mode' # mode \/ (req = "OFF" /\ req' = "NONE")
               PROVE  mode' = "STOPPING" \/ IsStop(pend')
    OBVIOUS
  <2>1. Tick
    BY AskedStays
  <2> QED
    BY <2>1, TickTakesOff DEF Running
<1> QED
  BY <1>1, ThermoSafe, PTL DEF Spec, OffIsTaken

\* A power on goes out again once at most, and never to a heater that is not seen or is
\* seen in the run it asks for (rule (1): tries, post and start_retry_ok).
THEOREM StartedOnceMore == Spec => StartRetry
<1> DEFINE P == starts' > starts /\ starts > 0 => starts = 1 /\ fresh /\ frame.run # "run"
<1>1. ThermoInv /\ [Next]_vars => [P]_vars
  <2> SUFFICES ASSUME ThermoInv, [Next]_vars, starts' > starts, starts > 0
               PROVE  starts = 1 /\ fresh /\ frame.run # "run"
    OBVIOUS
  <2>1. starts \in Nat
    BY DEF ThermoInv, ThermoTyped
  <2>2. ~NextCmd
    BY <2>1, NextCmdDoes
  <2>3. Tick
    BY <2>1, <2>2, AskedStays
  <2>4. PICK s \in Sessions, rc \in Answers \cup {"PENDING"} :
           /\ Step(s, rc) /\ Sound(s)
           /\ IsStart(s.pend) /\ s.why # "START" /\ s.out # <<>> => fresh
    BY <2>3, TickDoes
  <2>5. ~inFlight
    BY <2>3 DEF Tick
  <2> QED
    BY <2>4, <2>5, StepStarts
<1> QED
  BY <1>1, ThermoSafe, PTL DEF Spec, StartRetry

-----------------------------------------------------------------------------
(* The water guard: what it and the unit hold.                              *)

Contents == [f : Nat, w : Nat]
Reading == [f : Nat, w : Nat, empty : BOOLEAN]
Good == [f : Nat, w : Nat, by : Units, real : BOOLEAN]
Cand == [f : Nat, w : Nat, age : 0..Settle, real : BOOLEAN]

WaterTyped ==
    /\ bond \in Units \cup {None} /\ tank \in Contents /\ reads \in Reading
    /\ phase \in {"idle", "ramp", "steady"} /\ left \in Nat
    /\ {online, heldBack, firm, gap, strayed} \subseteq BOOLEAN
    /\ unit \in Units \cup {None}
    /\ good \in Good \cup {None} /\ goodKv \in Good \cup {None} /\ wpend \in Cand \cup {None}
    /\ due \in 0..Reread /\ heard \in 0..Never

PendHas(water) == wpend # None /\ Alike(wpend, water)

\* A link is the bonded unit's, whom the guard knows, and so is a steady frame it stored.
UnitKept ==
    /\ online => bond # None /\ unit = bond
    /\ heard # Never \/ firm => bond # None /\ unit = bond /\ phase = "steady"

\* The frame a bonded unit reports.
FrameKept ==
    bond # None => /\ phase = "idle" => reads.f = 1
                   /\ phase # "steady" => ~reads.empty
                   /\ phase = "steady" => reads = Measured(tank)

\* A steady frame that was stored is shown, or is a candidate as old as its first store.
ShownInTime ==
    /\ heard # Never /\ reads.empty => Shows(reads)
    /\ heard # Never /\ reads.f > Latch => Shows(reads) \/ (PendHas(reads) /\ wpend.age >= heard)
    /\ firm /\ reads.f > Latch => Shows(reads)

\* Whose the water is, in RAM and in flash.
OwnWater ==
    /\ goodKv # None /\ ~strayed => goodKv.by = bond
    /\ good # None /\ ~strayed => good.by = (IF unit # None THEN unit ELSE bond)
    /\ unit = None => good = None \/ goodKv = good

\* Ticks after which the candidate is adopted if the frame stays.
Due == due + (IF wpend.age + due >= Settle THEN 0 ELSE Reread)

\* While no frame is missed, the guard follows the waste water, on which the latch looks,
\* or is about to, and its candidate is real or gone before it has grown old.
FollowsIdle ==
    phase = "idle" => /\ good # None => good.w = reads.w
                      /\ wpend # None => wpend.real
FollowsRamp ==
    phase = "ramp" => /\ good # None => good.w = reads.w \/ PendHas(reads)
                      /\ wpend # None => wpend.real \/ wpend.age = 0
FollowsSteady ==
    phase = "steady" => /\ good # None => good.w = reads.w \/ (PendHas(reads) /\ left > Due)
                        /\ wpend # None => wpend.real \/ left > due
Follows == FollowsIdle /\ FollowsRamp /\ FollowsSteady

RealWater ==
    ~gap => /\ good # None => good.real /\ good.by = bond
            /\ ~online => good = None /\ wpend = None
            /\ online => Follows

GuardInv == WaterTyped /\ UnitKept /\ FrameKept /\ ShownInTime /\ OwnWater /\ RealWater

-----------------------------------------------------------------------------
(* The store of a frame.                                                    *)

\* It becomes the good one,
Taken(new, steady) ==
    /\ ~IsLatch(new)
    /\ IsBaseline(new) \/ new.empty \/ (PendHas(new) /\ wpend.age >= Settle)
    /\ good' \in Good /\ Alike(good', new) /\ good'.by = bond
    /\ steady => good'.real
    /\ IsBaseline(new) /\ good.real /\ good.by = bond => good'.real
    /\ PendHas(new) /\ wpend.real => good'.real
    /\ heldBack' = FALSE /\ wpend' = None
    /\ goodKv' \in {goodKv, good'}
    /\ gap' \in BOOLEAN /\ (~gap' /\ ~steady => ~gap)

\* is taken for the latch,
Dropped(new) ==
    /\ IsLatch(new)
    /\ heldBack' = TRUE /\ wpend' = None
    /\ good' = good /\ goodKv' = goodKv /\ gap' = gap

\* or is the candidate.
Waits(new, steady) ==
    /\ ~IsLatch(new) /\ ~IsBaseline(new) /\ ~new.empty
    /\ wpend' \in Cand /\ Alike(wpend', new)
    /\ steady => wpend'.real
    /\ PendHas(new) => wpend'.age = wpend.age /\ wpend.age < Settle /\ (wpend.real => wpend'.real)
    /\ ~PendHas(new) => wpend'.age = 0
    /\ heldBack' = TRUE
    /\ good' = good /\ goodKv' = goodKv /\ gap' = gap

Outcome(new, steady) == Taken(new, steady) \/ Dropped(new) \/ Waits(new, steady)

\* What the guard keeps, shows and persists of a frame of the bonded unit.
LEMMA StoreOutcome ==
    ASSUME WaterAssumption, WaterTyped, bond \in Units,
           NEW new \in Reading, NEW steady \in BOOLEAN, Store(new, steady)
    PROVE  Outcome(new, steady)
<1> DEFINE c == Candidate(new)
           r == \/ steady
                \/ IsBaseline(new) /\ good.real /\ good.by = bond
                \/ c.real
<1>1. /\ c \in Cand /\ Alike(c, new)
      /\ PendHas(new) => c = wpend
      /\ ~PendHas(new) => c.age = 0 /\ c.real = FALSE
  <2>1. CASE PendHas(new)
    BY <2>1 DEF PendHas, Candidate, WaterTyped
  <2>2. CASE ~PendHas(new)
    <3>1. c = [f |-> new.f, w |-> new.w, age |-> 0, real |-> FALSE]
      BY <2>2 DEF PendHas, Candidate
    <3>2. 0 \in 0..Settle
      BY DEF WaterAssumption
    <3> QED
      BY <2>2, <3>1, <3>2 DEF Cand, Reading, Alike
  <2> QED
    BY <2>1, <2>2
<1>2. r \in BOOLEAN
  BY <1>1 DEF Cand
<1>3. CASE Adopts(new)
  <2> DEFINE water == [f |-> new.f, w |-> new.w, by |-> bond, real |-> r]
  <2>1. /\ good' = water /\ (goodKv' = water \/ goodKv' = goodKv)
        /\ heldBack' = FALSE /\ wpend' = None /\ gap' = (gap /\ ~steady)
    BY <1>3 DEF Store, Keep
  <2>2. water \in Good /\ Alike(water, new) /\ water.by = bond /\ water.real = r
    BY <1>2 DEF Good, Reading, Alike
  <2> HIDE DEF water
  <2>3. ~IsLatch(new) /\ (IsBaseline(new) \/ new.empty \/ c.age >= Settle)
    BY <1>3 DEF Adopts
  <2>4. c.age >= Settle => PendHas(new) /\ wpend.age >= Settle
    BY <1>1 DEF WaterAssumption
  <2>5. (steady => good'.real) /\ (IsBaseline(new) /\ good.real /\ good.by = bond => good'.real)
        /\ (PendHas(new) /\ wpend.real => good'.real)
    BY <1>1, <2>1, <2>2
  <2>6. gap' \in BOOLEAN /\ (~gap' /\ ~steady => ~gap)
    BY <2>1
  <2>7. good' \in Good /\ Alike(good', new) /\ good'.by = bond /\ goodKv' \in {goodKv, good'}
    BY <2>1, <2>2 DEF Alike
  <2> HIDE DEF c, r
  <2>8. Taken(new, steady)
    BY <2>1, <2>3, <2>4, <2>5, <2>6, <2>7 DEF Taken
  <2> QED
    BY <2>8 DEF Outcome
<1>4. CASE ~Adopts(new)
  <2>1. /\ heldBack' = TRUE /\ good' = good /\ goodKv' = goodKv /\ gap' = gap
        /\ wpend' = IF IsLatch(new) THEN None ELSE [c EXCEPT !.real = r]
    BY <1>4 DEF Store
  <2>2. CASE IsLatch(new)
    BY <2>1, <2>2 DEF Outcome, Dropped
  <2>3. CASE ~IsLatch(new)
    <3>1. wpend' = [c EXCEPT !.real = r]
      BY <2>1, <2>3
    <3>2. ~IsBaseline(new) /\ ~new.empty /\ ~(c.age >= Settle)
      BY <1>4, <2>3 DEF Adopts
    <3>3. /\ wpend' \in Cand /\ wpend'.f = c.f /\ wpend'.w = c.w /\ wpend'.age = c.age
          /\ wpend'.real = r
      BY <1>1, <1>2, <3>1 DEF Cand
    <3>4. c.age < Settle
      BY <1>1, <3>2 DEF Cand, WaterAssumption
    <3>5. Alike(wpend', new)
      BY <1>1, <3>3 DEF Alike
    <3>6. (steady => wpend'.real) /\ (PendHas(new) /\ wpend.real => wpend'.real)
      BY <1>1, <3>3
    <3>7. PendHas(new) => wpend'.age = wpend.age /\ wpend.age < Settle
      BY <1>1, <3>3, <3>4
    <3>8. ~PendHas(new) => wpend'.age = 0
      BY <1>1, <3>3
    <3> HIDE DEF c, r
    <3>9. Waits(new, steady)
      BY <2>1, <2>3, <3>2, <3>3, <3>5, <3>6, <3>7, <3>8 DEF Waits
    <3> QED
      BY <3>9 DEF Outcome
  <2> QED
    BY <2>2, <2>3
<1> QED
  BY <1>3, <1>4

\* How long a report has been the same once a frame is stored.
LEMMA StoreHeard ==
    ASSUME WaterAssumption, WaterTyped, NEW new, NEW steady \in BOOLEAN, Store(new, steady)
    PROVE  /\ heard' \in 0..Never /\ firm' \in BOOLEAN
           /\ heard' # Never =>
                  steady /\ (heard' = 0 \/ (heard # Never /\ heard' = heard /\ Alike(new, reads)))
           /\ firm' => steady /\ heard' # Never /\ heard' >= Settle
           /\ unit' = unit /\ strayed' = strayed
<1>1. /\ heard' = IF ~steady THEN Never
                  ELSE IF heard = Never \/ ~Alike(new, reads) THEN 0 ELSE heard
      /\ firm' = (steady /\ heard' >= Settle /\ Alike(new, reads))
      /\ unit' = unit /\ strayed' = strayed
  BY DEF Store
<1>2. heard \in 0..Never /\ Never = Settle + 1 /\ Settle \in Nat
  BY DEF WaterTyped, WaterAssumption, Never
<1>3. steady => heard' # Never
  BY <1>1, <1>2
<1>4. heard' \in 0..Never
  BY <1>1, <1>2
<1>5. firm' \in BOOLEAN /\ (firm' => steady /\ heard' >= Settle)
  BY <1>1
<1>6. heard' # Never =>
          steady /\ (heard' = 0 \/ (heard # Never /\ heard' = heard /\ Alike(new, reads)))
  BY <1>1
<1> QED
  BY <1>1, <1>3, <1>4, <1>5, <1>6

\* The guard stays of its type.
LEMMA StoreTyped ==
    ASSUME WaterAssumption, WaterTyped, bond \in Units,
           NEW new \in Reading, NEW steady \in BOOLEAN, Store(new, steady)
    PROVE  /\ good' \in Good \cup {None} /\ goodKv' \in Good \cup {None}
           /\ wpend' \in Cand \cup {None} /\ heldBack' \in BOOLEAN /\ gap' \in BOOLEAN
           /\ heard' \in 0..Never /\ firm' \in BOOLEAN /\ unit' = unit /\ strayed' = strayed
<1>1. Outcome(new, steady)
  BY StoreOutcome
<1>2. good \in Good \cup {None} /\ goodKv \in Good \cup {None} /\ gap \in BOOLEAN
  BY DEF WaterTyped
<1>3. /\ good' \in Good \cup {None} /\ goodKv' \in Good \cup {None}
      /\ wpend' \in Cand \cup {None} /\ heldBack' \in BOOLEAN /\ gap' \in BOOLEAN
  BY <1>1, <1>2 DEF Outcome, Taken, Dropped, Waits
<1> QED
  BY <1>3, StoreHeard

\* A frame that was stored in the same measurement is the good one, or the candidate, and
\* then as old as that.
LEMMA StoreShown ==
    ASSUME WaterAssumption, WaterTyped, bond \in Units, ShownInTime,
           NEW new \in Reading, NEW steady \in BOOLEAN, Store(new, steady), reads' = new
    PROVE  ShownInTime'
<1>1. Outcome(new, steady)
  BY StoreOutcome
<1>2. /\ heard' # Never => heard' = 0 \/ (heard # Never /\ heard' = heard /\ Alike(new, reads))
      /\ firm' => heard' # Never /\ heard' >= Settle
      /\ heard' \in 0..Never
  BY StoreHeard
<1>3. None \notin Good /\ None \notin Cand /\ Settle \in Nat /\ Settle > 0 /\ Latch \in Nat
  BY DEF WaterAssumption, Good, Cand
<1>4. new.f \in Nat /\ new.w \in Nat
  BY DEF Reading
<1>5. CASE Taken(new, steady)
  <2>1. Shows(new)'
    BY <1>3, <1>5 DEF Taken, Shows, Alike
  <2> QED
    BY <2>1 DEF ShownInTime, Shows, Alike
<1>6. CASE Dropped(new)
  <2>1. ~(new.f > Latch) /\ ~new.empty
    BY <1>3, <1>4, <1>6 DEF Dropped, IsLatch
  <2> QED
    BY <2>1 DEF ShownInTime
<1>7. CASE Waits(new, steady)
  <2>1. ~new.empty /\ PendHas(new)' /\ wpend'.age \in 0..Settle
    BY <1>3, <1>7 DEF Waits, PendHas, Alike, Cand
  <2>2. ASSUME heard # Never, Alike(new, reads), new.f > Latch
        PROVE  PendHas(new) /\ wpend.age >= heard /\ wpend.age < Settle /\ wpend'.age = wpend.age
    <3>1. reads.f > Latch
      BY <2>2 DEF Alike
    <3>2. Shows(reads) => IsBaseline(new)
      BY <2>2 DEF Shows, IsBaseline, Alike
    <3>3. PendHas(reads) /\ wpend.age >= heard
      BY <2>2, <3>1, <3>2, <1>7 DEF ShownInTime, Waits
    <3>4. PendHas(new)
      BY <2>2, <3>3 DEF PendHas, Alike
    <3> QED
      BY <3>3, <3>4, <1>7 DEF Waits
  <2>3. heard' # Never /\ new.f > Latch => wpend'.age >= heard'
    BY <1>2, <2>1, <2>2
  <2>4. ~(firm' /\ new.f > Latch)
    <3>1. SUFFICES ASSUME firm', new.f > Latch PROVE FALSE
      OBVIOUS
    <3>2. heard' >= Settle /\ heard' = heard /\ heard # Never /\ Alike(new, reads)
      BY <1>2, <1>3, <3>1
    <3>3. wpend.age >= heard /\ wpend.age < Settle
      BY <2>2, <3>1, <3>2
    <3>4. wpend.age \in Int /\ heard \in Int
      <4>1. PendHas(new)
        BY <2>2, <3>1, <3>2
      <4> QED
        BY <4>1, <1>3 DEF WaterTyped, PendHas, Cand, Never
    <3> QED
      BY <1>3, <3>2, <3>3, <3>4
  <2>5. PendHas(reads)'
    BY <2>1 DEF PendHas, Alike
  <2> QED
    BY <2>1, <2>3, <2>4, <2>5 DEF ShownInTime
<1> QED
  BY <1>1, <1>5, <1>6, <1>7 DEF Outcome

\* A frame of the bonded unit leaves only that unit's values in the guard.
LEMMA StoreOwn ==
    ASSUME WaterAssumption, WaterTyped, bond \in Units, unit = bond, OwnWater,
           NEW new \in Reading, NEW steady \in BOOLEAN, Store(new, steady), bond' = bond
    PROVE  OwnWater'
<1>1. Outcome(new, steady)
  BY StoreOutcome
<1>2. unit' = unit /\ strayed' = strayed
  BY StoreHeard
<1>3. bond # None
  BY DEF WaterAssumption
<1>4. /\ good'.by = bond \/ good' = good
      /\ goodKv' = goodKv \/ (goodKv' = good' /\ good'.by = bond)
  BY <1>1 DEF Outcome, Taken, Dropped, Waits
<1> QED
  BY <1>2, <1>3, <1>4 DEF OwnWater

\* How the frame of a linked unit moves on, or stays for its read.
Advance ==
    /\ phase' = "idle" => /\ reads'.f = 1 /\ ~reads'.empty /\ reads'.w = reads.w
                          /\ phase = "idle" \/ (phase = "steady" /\ left = 0)
    /\ phase' = "ramp" => ~reads'.empty /\ phase \in {"idle", "ramp"}
    /\ phase' = "steady" =>
           \/ phase # "idle" /\ left' = StaysFor /\ due' = due
           \/ phase = "steady" /\ reads' = reads /\ left' = left /\ due = 0 /\ due' = Reread

\* A measurement holds longer than two reads and the debounce need.
LEMMA HoldIsLong ==
    ASSUME WaterAssumption, NEW d \in 0..Reread, NEW age \in 0..Settle
    PROVE  /\ StaysFor > d /\ StaysFor > d + (IF age + d >= Settle THEN 0 ELSE Reread)
           /\ age + Reread >= Settle
BY DEF WaterAssumption, StaysFor

\* What is adopted while nothing was missed was measured.
LEMMA TakenIsReal ==
    ASSUME WaterAssumption, WaterTyped, bond \in Units, online, RealWater, ~gap,
           NEW new \in Reading, NEW steady \in BOOLEAN, ~steady, Taken(new, steady),
           reads' = new, steady <=> phase' = "steady",
           phase' \in {"idle", "ramp", "steady"}, Advance
    PROVE  good'.real
<1>1. CASE IsBaseline(new)
  <2>1. good # None /\ good.real /\ good.by = bond
    BY <1>1 DEF IsBaseline, RealWater
  <2> QED
    BY <1>1, <2>1 DEF Taken
<1>2. CASE new.empty
  BY <1>2 DEF Advance
<1>3. CASE PendHas(new) /\ wpend.age >= Settle
  <2>1. wpend # None /\ Follows
    BY <1>3 DEF PendHas, RealWater
  <2>2. wpend.age # 0
    BY <1>3 DEF WaterAssumption
  <2>3. left = 0 => ~(left > due)
    BY DEF WaterTyped, WaterAssumption
  <2>4. wpend.real
    BY <2>1, <2>2, <2>3 DEF Follows, FollowsIdle, FollowsRamp, FollowsSteady, Advance
  <2> QED
    BY <1>3, <2>4 DEF Taken
<1> QED
  BY <1>1, <1>2, <1>3 DEF Taken

\* A frame leaves real values where it leaves any, after the steady one it confirms.
LEMMA StoreReal ==
    ASSUME WaterAssumption, WaterTyped, bond \in Units, online, RealWater,
           NEW new \in Reading, NEW steady \in BOOLEAN, Store(new, steady),
           reads' = new, steady <=> phase' = "steady",
           phase' \in {"idle", "ramp", "steady"}, Advance,
           bond' = bond, online', due' \in 0..Reread
    PROVE  RealWater'
<1> SUFFICES ASSUME ~gap' PROVE (good # None => good.real /\ good.by = bond)' /\ Follows'
  BY DEF RealWater
<1>1. Outcome(new, steady)
  BY StoreOutcome
<1>2. None \notin Good /\ None \notin Cand /\ Settle \in Nat /\ Settle > 0 /\ Latch \in Nat
      /\ Latch >= 1 /\ Reread \in Nat
  BY DEF WaterAssumption, Good, Cand
<1>3. CASE Taken(new, steady)
  <2>1. good' \in Good /\ good'.by = bond /\ good'.w = reads'.w /\ wpend' = None
    BY <1>3 DEF Taken, Alike
  <2>2. CASE steady
    BY <1>3, <2>1, <2>2 DEF Taken, Follows, FollowsIdle, FollowsRamp, FollowsSteady
  <2>3. CASE ~steady
    <3>1. ~gap
      BY <1>3, <2>3 DEF Taken
    <3>2. good'.real
      BY <1>3, <2>3, <3>1, TakenIsReal
    <3> QED
      BY <2>1, <3>2 DEF Follows, FollowsIdle, FollowsRamp, FollowsSteady
  <2> QED
    BY <2>2, <2>3
<1>4. CASE Dropped(new)
  <2>1. /\ good' = good /\ wpend' = None /\ gap' = gap
        /\ good # None => new.w = good.w
    BY <1>4 DEF Dropped, IsLatch
  <2> QED
    BY <2>1 DEF RealWater, Follows, FollowsIdle, FollowsRamp, FollowsSteady
<1>5. CASE Waits(new, steady)
  <2>1. /\ good' = good /\ ~gap /\ Follows /\ (good # None => good.real /\ good.by = bond)
        /\ wpend' \in Cand /\ wpend' # None /\ PendHas(reads)'
    BY <1>2, <1>5 DEF Waits, RealWater, PendHas, Alike
  <2>2. phase' # "idle"
    <3>1. SUFFICES ASSUME phase' = "idle" PROVE FALSE
      OBVIOUS
    <3>2. new.f = 1 /\ ~new.empty /\ new.w = reads.w
      BY <3>1 DEF Advance
    <3>3. good # None /\ ~(new.f # good.f /\ new.w = good.w)
      BY <1>2, <1>5, <3>2 DEF Waits, IsLatch
    <3>4. good.w = reads.w
      <4>1. CASE phase = "idle"
        BY <2>1, <3>3, <4>1 DEF Follows, FollowsIdle
      <4>2. CASE phase = "steady" /\ left = 0
        <5>1. CASE PendHas(reads) /\ left > Due
          <6>1. wpend \in Cand
            BY <5>1 DEF PendHas, WaterTyped
          <6>2. Due >= 0
            BY <1>2, <6>1 DEF Due, Cand, WaterTyped
          <6>3. Due \in Int
            BY <1>2, <6>1 DEF Due, Cand, WaterTyped
          <6> QED
            BY <4>2, <5>1, <6>2, <6>3
        <5> QED
          BY <2>1, <3>3, <4>2, <5>1 DEF Follows, FollowsSteady
      <4> QED
        BY <3>1, <4>1, <4>2 DEF Advance
    <3>5. IsBaseline(new)
      BY <3>2, <3>3, <3>4 DEF IsBaseline, Alike
    <3> QED
      BY <1>5, <3>5 DEF Waits
  <2>3. FollowsRamp'
    <3>1. SUFFICES ASSUME phase' = "ramp" PROVE wpend'.real \/ wpend'.age = 0
      BY <2>1 DEF FollowsRamp
    <3>2. CASE PendHas(new)
      <4>1. wpend # None
        BY <3>2 DEF PendHas
      <4>2. wpend.real \/ wpend.age = 0
        BY <2>1, <3>1, <4>1 DEF Advance, Follows, FollowsIdle, FollowsRamp
      <4> QED
        BY <1>5, <3>2, <4>2 DEF Waits
    <3>3. CASE ~PendHas(new)
      BY <1>5, <3>3 DEF Waits
    <3> QED
      BY <3>2, <3>3
  <2>4. FollowsSteady'
    <3>1. SUFFICES ASSUME phase' = "steady", good # None, good.w # reads'.w
                   PROVE  left' > Due'
      BY <1>5, <2>1 DEF FollowsSteady, Waits
    <3>2. wpend'.age \in 0..Settle
      BY <2>1 DEF Cand
    <3>3. CASE left' = StaysFor
      BY <3>2, <3>3, HoldIsLong DEF Due
    <3>4. CASE phase = "steady" /\ reads' = reads /\ left' = left /\ due = 0 /\ due' = Reread
      <4>1. PendHas(reads) /\ left > Due
        BY <2>1, <3>1, <3>4 DEF Follows, FollowsSteady
      <4>2. wpend.age < Settle /\ wpend.age \in Int /\ left \in Int
        <5>1. wpend \in Cand
          BY <4>1 DEF PendHas, WaterTyped
        <5> QED
          BY <1>5, <3>4, <4>1, <5>1 DEF Waits, Cand, WaterTyped
      <4>3. Due = Reread
        BY <1>2, <3>4, <4>2 DEF Due
      <4>4. wpend'.age + Reread >= Settle
        BY <3>2, HoldIsLong
      <4>5. Due' = Reread
        BY <1>2, <3>4, <4>4 DEF Due
      <4> QED
        BY <3>4, <4>1, <4>3, <4>5
    <3> QED
      BY <3>1, <3>3, <3>4 DEF Advance
  <2> QED
    BY <2>1, <2>2, <2>3, <2>4 DEF Follows, FollowsIdle
<1> QED
  BY <1>1, <1>3, <1>4, <1>5 DEF Outcome

-----------------------------------------------------------------------------
(* The unit's steps.                                                        *)

\* The phase of a frame tells whether it is steady.
LEMMA PhaseIsSteady ==
    ASSUME NEW ph \in {"idle", "ramp", "steady"}
    PROVE  (ph = "steady") \in BOOLEAN
OBVIOUS

\* A report keeps the types.
LEMMA ReportsTyped ==
    ASSUME WaterAssumption, WaterTyped, UnitKept,
           NEW new \in Reading, NEW ph \in {"idle", "ramp", "steady"}, Reports(new, ph),
           left' \in Nat, tank' \in Contents
    PROVE  WaterTyped'
<1>1. /\ reads' = new /\ phase' = ph
      /\ UNCHANGED <<bond, online, pairing, due>>
  BY DEF Reports
<1>2. /\ good' \in Good \cup {None} /\ goodKv' \in Good \cup {None}
      /\ wpend' \in Cand \cup {None} /\ heldBack' \in BOOLEAN /\ gap' \in BOOLEAN
      /\ heard' \in 0..Never /\ firm' \in BOOLEAN /\ unit' = unit /\ strayed' = strayed
  <2>1. CASE online /\ new # reads
    <3>1. Store(new, ph = "steady") /\ bond \in Units
      BY <2>1 DEF Reports, WaterTyped, UnitKept
    <3> QED
      BY <3>1, StoreTyped, PhaseIsSteady
  <2>2. CASE ~(online /\ new # reads)
    <3>1. /\ heard' = (IF ph = "steady" /\ new = reads THEN heard ELSE Never) /\ firm' = FALSE
          /\ UNCHANGED <<unit, good, heldBack, wpend, goodKv, gap, strayed>>
      BY <2>2 DEF Reports, guard
    <3>2. Never \in 0..Never
      BY DEF WaterAssumption, Never
    <3> QED
      BY <3>1, <3>2 DEF WaterTyped
  <2> QED
    BY <2>1, <2>2
<1>3. /\ bond \in Units \cup {None} /\ unit \in Units \cup {None} /\ due \in 0..Reread
      /\ online \in BOOLEAN /\ strayed \in BOOLEAN
  BY DEF WaterTyped
<1>4. {online, heldBack, firm, gap, strayed}' \subseteq BOOLEAN
  BY <1>1, <1>2, <1>3
<1> QED
  BY <1>1, <1>2, <1>3, <1>4 DEF WaterTyped

\* A frame the guard has or cannot get: only the unit moves on.
LEMMA QuietReal ==
    ASSUME WaterAssumption, WaterTyped, RealWater, online => Advance,
           phase' \in {"idle", "ramp", "steady"}, online => reads' = reads,
           UNCHANGED <<bond, online, due, good, wpend, gap>>,
           online /\ phase' = "steady" => phase # "idle" /\ left' = StaysFor
    PROVE  RealWater'
<1> SUFFICES ASSUME ~gap, online PROVE Follows'
  BY DEF RealWater
<1>1. Follows /\ Advance
  BY DEF RealWater
<1>2. left = 0 => ~(left > due)
  BY DEF WaterTyped, WaterAssumption
<1>3. wpend # None => (left = 0 => ~(left > Due)) /\ Due' = Due /\ StaysFor > Due /\ StaysFor > due
  <2>1. SUFFICES ASSUME wpend # None
                 PROVE  (left = 0 => ~(left > Due)) /\ Due' = Due /\ StaysFor > Due /\ StaysFor > due
    OBVIOUS
  <2>2. wpend.age \in 0..Settle /\ due \in 0..Reread
    BY <2>1 DEF WaterTyped, Cand
  <2>3. Due >= 0 /\ Due \in Int
    BY <2>2 DEF Due, WaterAssumption
  <2>4. StaysFor > Due /\ StaysFor > due
    BY <2>2, HoldIsLong DEF Due
  <2>5. Due' = Due
    BY DEF Due
  <2>6. left = 0 => ~(left > Due)
    BY <2>3
  <2> QED
    BY <2>4, <2>5, <2>6
<1>4. FollowsIdle'
  <2>1. SUFFICES ASSUME phase' = "idle" PROVE FollowsIdle'
    BY DEF FollowsIdle
  <2>2. CASE phase = "idle"
    BY <1>1, <2>2 DEF Follows, FollowsIdle
  <2>3. CASE phase = "steady" /\ left = 0
    BY <1>1, <1>2, <1>3, <2>3 DEF Follows, FollowsSteady, FollowsIdle, PendHas
  <2> QED
    BY <1>1, <2>1, <2>2, <2>3 DEF Advance
<1>5. FollowsRamp'
  BY <1>1 DEF Advance, Follows, FollowsIdle, FollowsRamp, PendHas, Alike
<1>6. FollowsSteady'
  <2>1. SUFFICES ASSUME phase' = "steady", phase # "idle", left' = StaysFor PROVE FollowsSteady'
    BY DEF FollowsSteady
  <2>2. good # None => good.w = reads.w \/ PendHas(reads)
    BY <1>1, <2>1 DEF Follows, FollowsRamp, FollowsSteady, WaterTyped
  <2>3. PendHas(reads) => PendHas(reads)' /\ wpend # None
    BY DEF PendHas, Alike
  <2> QED
    BY <1>3, <2>1, <2>2, <2>3 DEF FollowsSteady
<1> QED
  BY <1>4, <1>5, <1>6 DEF Follows

\* A report of the unit keeps the invariant.
LEMMA ReportsKeeps ==
    ASSUME WaterAssumption, GuardInv,
           NEW new \in Reading, NEW ph \in {"idle", "ramp", "steady"}, Reports(new, ph),
           left' \in Nat, tank' \in Contents, FrameKept', online => Advance,
           online /\ ph = "steady" => phase # "idle" /\ left' = StaysFor
    PROVE  GuardInv'
<1>1. /\ reads' = new /\ phase' = ph
      /\ UNCHANGED <<bond, online, pairing, due>>
  BY DEF Reports
<1>2. WaterTyped'
  BY ReportsTyped DEF GuardInv
<1>3. CASE online /\ new # reads
  <2>1. Store(new, ph = "steady") /\ bond \in Units /\ bond # None /\ unit = bond
    BY <1>3 DEF Reports, GuardInv, WaterTyped, UnitKept
  <2>2. (ph = "steady") \in BOOLEAN
    OBVIOUS
  <2>3. ShownInTime'
    BY <1>1, <2>1, <2>2, StoreShown DEF GuardInv
  <2>4. OwnWater'
    BY <1>1, <2>1, <2>2, StoreOwn DEF GuardInv
  <2>5. RealWater'
    <3>1. due' \in 0..Reread /\ online'
      BY <1>1, <1>3, <1>2 DEF WaterTyped
    <3> QED
      BY <1>1, <1>3, <2>1, <2>2, <3>1, StoreReal DEF GuardInv
  <2>6. UnitKept'
    <3>1. unit' = unit /\ (heard' # Never => ph = "steady") /\ (firm' => ph = "steady")
      BY <2>1, <2>2, StoreHeard DEF GuardInv
    <3> QED
      BY <1>1, <2>1, <3>1 DEF UnitKept, Never
  <2> QED
    BY <1>2, <2>3, <2>4, <2>5, <2>6 DEF GuardInv
<1>4. CASE ~(online /\ new # reads)
  <2>1. /\ heard' = (IF ph = "steady" /\ new = reads THEN heard ELSE Never) /\ firm' = FALSE
        /\ UNCHANGED <<unit, good, heldBack, wpend, goodKv, gap, strayed>>
    BY <1>4 DEF Reports, guard
  <2>2. heard' # Never => heard # Never /\ heard' = heard /\ ph = "steady" /\ new = reads
    BY <2>1
  <2>3. UnitKept'
    BY <1>1, <2>1, <2>2 DEF GuardInv, UnitKept, Never
  <2>4. ShownInTime'
    BY <1>1, <2>1, <2>2 DEF GuardInv, ShownInTime, Never, Shows, PendHas, Alike
  <2>5. OwnWater'
    BY <1>1, <2>1 DEF GuardInv, OwnWater
  <2>6. RealWater'
    BY <1>1, <1>4, <2>1, QuietReal DEF GuardInv
  <2> QED
    BY <1>2, <2>3, <2>4, <2>5, <2>6 DEF GuardInv
<1> QED
  BY <1>3, <1>4

\* The start of a measurement keeps the invariant.
LEMMA MeasureBeginsKeeps == ASSUME WaterAssumption, GuardInv, MeasureBegins PROVE GuardInv'
<1>1. PICK w \in {reads.w, tank.w} :
          /\ phase = "idle" /\ bond # None
          /\ Reports(Frame(IF tank.f = 0 THEN 0 ELSE 1, w, FALSE), "ramp")
          /\ UNCHANGED <<tank, left>>
  BY DEF MeasureBegins
<1> DEFINE new == Frame(IF tank.f = 0 THEN 0 ELSE 1, w, FALSE)
<1>2. w \in Nat /\ tank \in Contents /\ left \in Nat
  BY DEF GuardInv, WaterTyped, Reading, Contents
<1>3. new \in Reading /\ ~new.empty
  BY <1>2 DEF Frame, Reading
<1> HIDE DEF new
<1>4. Reports(new, "ramp") /\ reads' = new /\ phase' = "ramp" /\ bond' = bond
  BY <1>1 DEF Reports, new
<1>5. FrameKept' /\ Advance
  BY <1>1, <1>3, <1>4 DEF FrameKept, Advance
<1> QED
  BY <1>1, <1>2, <1>3, <1>4, <1>5, ReportsKeeps

\* A reading on its way up keeps the invariant.
LEMMA ClimbsKeeps == ASSUME WaterAssumption, GuardInv, Climbs PROVE GuardInv'
<1> DEFINE new == [reads EXCEPT !.f = @ + 1]
<1>1. /\ phase = "ramp" /\ Reports(new, "ramp") /\ UNCHANGED <<tank, left>>
  BY DEF Climbs
<1>2. reads \in Reading /\ tank \in Contents /\ left \in Nat
  BY DEF GuardInv, WaterTyped
<1>3. new \in Reading /\ new.empty = reads.empty
  BY <1>2 DEF Reading
<1> HIDE DEF new
<1>4. reads' = new /\ phase' = "ramp" /\ bond' = bond
  BY <1>1 DEF Reports
<1>5. FrameKept'
  BY <1>1, <1>3, <1>4 DEF FrameKept, GuardInv
<1>6. online => Advance
  BY <1>1, <1>3, <1>4 DEF FrameKept, GuardInv, UnitKept, Advance
<1> QED
  BY <1>1, <1>2, <1>3, <1>5, <1>6, ReportsKeeps

\* What the unit measures of a tank is a reading.
LEMMA MeasuredTyped ==
    ASSUME NEW t \in Contents
    PROVE  Measured(t) \in Reading
BY DEF Measured, Frame, Contents, Reading

\* A settled measurement keeps the invariant.
LEMMA SettlesKeeps == ASSUME WaterAssumption, GuardInv, Settles PROVE GuardInv'
<1>1. /\ phase = "ramp" /\ Reports(Measured(tank), "steady") /\ left' = StaysFor /\ tank' = tank
  BY DEF Settles
<1>2. tank \in Contents /\ StaysFor \in Nat
  BY DEF GuardInv, WaterTyped, StaysFor, WaterAssumption
<1>3. reads' = Measured(tank) /\ phase' = "steady" /\ due' = due
  BY <1>1 DEF Reports
<1>4. FrameKept' /\ Advance
  BY <1>1, <1>3 DEF FrameKept, Advance, Measured
<1> QED
  BY <1>1, <1>2, <1>4, MeasuredTyped, ReportsKeeps

\* The end of a measurement keeps the invariant.
LEMMA MeasureEndsKeeps == ASSUME WaterAssumption, GuardInv, MeasureEnds PROVE GuardInv'
<1> DEFINE new == Frame(1, reads.w, FALSE)
<1>1. phase = "steady" /\ left = 0 /\ Reports(new, "idle") /\ UNCHANGED <<tank, left>>
  BY DEF MeasureEnds
<1>2. reads \in Reading /\ tank \in Contents /\ left \in Nat
  BY DEF GuardInv, WaterTyped
<1>3. new \in Reading /\ ~new.empty /\ new.f = 1 /\ new.w = reads.w
  BY <1>2 DEF Reading, Frame
<1> HIDE DEF new
<1>4. reads' = new /\ phase' = "idle"
  BY <1>1 DEF Reports
<1>5. FrameKept' /\ Advance
  BY <1>1, <1>3, <1>4 DEF FrameKept, Advance
<1> QED
  BY <1>1, <1>2, <1>3, <1>5, ReportsKeeps

\* Water filled in or used keeps the invariant.
LEMMA TankChangesKeeps == ASSUME WaterAssumption, GuardInv, TankChanges PROVE GuardInv'
<1>1. PICK t \in Tanks :
          /\ bond # None /\ phase # "ramp" /\ tank' = t
          /\ IF phase = "steady" THEN Reports(Measured(t), "steady") /\ left' = StaysFor
             ELSE UNCHANGED <<bond, phase, reads, left, online, pairing, guard, due, notes>>
  BY DEF TankChanges
<1>2. t \in Contents /\ StaysFor \in Nat
  BY DEF WaterAssumption, Contents, StaysFor
<1>3. CASE phase = "steady"
  <2>1. Reports(Measured(t), "steady") /\ left' = StaysFor
    BY <1>1, <1>3
  <2>2. reads' = Measured(t) /\ phase' = "steady" /\ due' = due
    BY <2>1 DEF Reports
  <2>3. FrameKept' /\ Advance
    BY <1>1, <1>3, <2>1, <2>2 DEF FrameKept, Advance, Measured
  <2> QED
    BY <1>1, <1>2, <1>3, <2>1, <2>3, MeasuredTyped, ReportsKeeps
<1>4. CASE phase # "steady"
  <2>1. UNCHANGED <<bond, phase, reads, left, online, pairing, unit, good, heldBack, wpend, goodKv,
                    due, heard, firm, gap, strayed>>
    BY <1>1, <1>4 DEF guard, notes
  <2>2. WaterTyped'
    BY <1>1, <1>2, <2>1 DEF GuardInv, WaterTyped
  <2>3. UnitKept' /\ FrameKept' /\ ShownInTime' /\ OwnWater'
    BY <1>4, <2>1 DEF GuardInv, UnitKept, FrameKept, ShownInTime, OwnWater, Shows, PendHas, Alike,
                      Never
  <2>4. RealWater'
    BY <2>1 DEF GuardInv, RealWater, Follows, FollowsIdle, FollowsRamp, FollowsSteady, PendHas,
                Alike, Due
  <2> QED
    BY <2>2, <2>3, <2>4 DEF GuardInv
<1> QED
  BY <1>3, <1>4

\* A tick makes the candidate older by what it takes from the time to the read.
LEMMA OlderTyped ==
    ASSUME WaterAssumption, NEW age \in 0..Settle
    PROVE  /\ Older(age) \in 0..Settle /\ Older(age) >= age
           /\ \A h \in 0..Settle : age >= h => Older(age) >= Older(h)
           /\ \A d \in 1..Reread : (age + d >= Settle) <=> (Older(age) + (d - 1) >= Settle)
BY DEF WaterAssumption, Older

\* Time alone keeps what is real real: a candidate's age is within its measurement.
LEMMA TickReal ==
    ASSUME WaterAssumption, WaterTyped, RealWater, phase # "ramp", online => due > 0,
           due' = Less(due), left' = Less(left),
           wpend' = IF wpend = None THEN None ELSE [wpend EXCEPT !.age = Older(@)],
           UNCHANGED <<bond, phase, reads, online, good, gap>>
    PROVE  RealWater'
<1>1. /\ wpend = None => wpend' = None
      /\ wpend # None => /\ wpend' # None /\ wpend'.f = wpend.f /\ wpend'.w = wpend.w
                        /\ wpend'.real = wpend.real /\ wpend'.age = Older(wpend.age)
                        /\ wpend.age \in 0..Settle
  <2>1. CASE wpend = None
    BY <2>1
  <2>2. CASE wpend # None
    <3>1. wpend \in Cand /\ wpend' = [wpend EXCEPT !.age = Older(@)]
      BY <2>2 DEF WaterTyped
    <3>2. wpend' \in Cand
      BY <3>1, OlderTyped DEF Cand
    <3>3. None \notin Cand
      BY DEF WaterAssumption, Cand
    <3> QED
      BY <2>2, <3>1, <3>2, <3>3 DEF Cand
  <2> QED
    BY <2>1, <2>2
<1> SUFFICES ASSUME ~gap, online PROVE Follows'
  BY <1>1 DEF RealWater
<1>2. Follows /\ due \in 1..Reread /\ left \in Nat /\ Settle \in Nat /\ Reread \in Nat
  BY DEF RealWater, WaterTyped, WaterAssumption
<1>3. due' = due - 1 /\ (left > due => left' > due')
  BY <1>2 DEF Less
<1>4. wpend # None /\ left > Due => left' > Due'
  <2>1. SUFFICES ASSUME wpend # None, left > Due PROVE left' > Due'
    OBVIOUS
  <2> DEFINE more == IF wpend.age + due >= Settle THEN 0 ELSE Reread
  <2>2. Due = due + more /\ more \in Nat
    BY <1>2 DEF Due
  <2>3. Due' = (due - 1) + more
    BY <1>1, <1>2, <1>3, <2>1, OlderTyped DEF Due
  <2>4. left > 0 /\ left' = left - 1
    BY <1>2, <2>1, <2>2 DEF Less
  <2> HIDE DEF more
  <2> QED
    BY <1>2, <2>1, <2>2, <2>3, <2>4
<1>5. PendHas(reads) => PendHas(reads)'
  BY <1>1 DEF PendHas, Alike
<1>6. FollowsIdle'
  BY <1>1, <1>2 DEF Follows, FollowsIdle
<1>7. FollowsSteady'
  BY <1>1, <1>2, <1>3, <1>4, <1>5 DEF Follows, FollowsSteady, PendHas
<1> QED
  BY <1>6, <1>7 DEF Follows, FollowsRamp

\* A tick keeps the invariant.
LEMMA WaterTickKeeps == ASSUME WaterAssumption, GuardInv, WaterTick PROVE GuardInv'
<1>1. /\ phase # "ramp" /\ (online => due > 0)
      /\ due' = Less(due) /\ left' = Less(left)
      /\ wpend' = IF wpend = None THEN None ELSE [wpend EXCEPT !.age = Older(@)]
      /\ heard' = Older(heard)
      /\ UNCHANGED <<bond, tank, phase, reads, online, pairing, unit, good, heldBack, goodKv,
                     firm, gap, strayed, faults>>
  BY DEF WaterTick
<1>2. /\ bond \in Units \cup {None} /\ due \in 0..Reread /\ left \in Nat /\ heard \in 0..Never
      /\ Settle \in Nat /\ Reread \in Nat /\ Latch \in Nat
  BY DEF GuardInv, WaterTyped, WaterAssumption
<1>3. due' \in 0..Reread /\ left' \in Nat
  BY <1>1, <1>2 DEF Less
<1>4. heard' \in 0..Never /\ (heard' # Never => heard # Never /\ heard \in 0..Settle)
  BY <1>1, <1>2 DEF Older, Never
<1>5. wpend' \in Cand \cup {None}
  <2>1. CASE wpend # None
    <3>1. wpend \in Cand
      BY <2>1 DEF GuardInv, WaterTyped
    <3>2. Older(wpend.age) \in 0..Settle
      BY <3>1, OlderTyped DEF Cand
    <3> QED
      BY <1>1, <2>1, <3>1, <3>2 DEF Cand
  <2> QED
    BY <1>1, <2>1
<1>6. WaterTyped'
  BY <1>1, <1>3, <1>4, <1>5 DEF GuardInv, WaterTyped
<1>7. UnitKept' /\ FrameKept' /\ OwnWater'
  BY <1>1, <1>4 DEF GuardInv, UnitKept, FrameKept, OwnWater, Never
<1>8. ShownInTime'
  <2>1. PendHas(reads) => /\ PendHas(reads)' /\ wpend.age \in 0..Settle
                          /\ wpend'.age = Older(wpend.age)
    <3>1. SUFFICES ASSUME PendHas(reads)
                   PROVE  PendHas(reads)' /\ wpend.age \in 0..Settle /\ wpend'.age = Older(wpend.age)
      OBVIOUS
    <3>2. wpend \in Cand /\ wpend' = [wpend EXCEPT !.age = Older(@)]
      BY <1>1, <3>1 DEF GuardInv, WaterTyped, PendHas
    <3>3. wpend' # None
      <4>1. wpend' \in Cand
        BY <3>2, OlderTyped DEF Cand
      <4> QED
        BY <4>1 DEF WaterAssumption, Cand
    <3> QED
      BY <1>1, <3>1, <3>2, <3>3 DEF PendHas, Alike, Cand
  <2>2. PendHas(reads) /\ heard' # Never /\ wpend.age >= heard => wpend'.age >= heard'
    BY <1>1, <1>4, <2>1, OlderTyped
  <2>3. Shows(reads)' <=> Shows(reads)
    BY <1>1 DEF Shows, Alike
  <2> QED
    BY <1>1, <1>4, <2>1, <2>2, <2>3 DEF GuardInv, ShownInTime
<1>9. RealWater'
  BY <1>1, TickReal DEF GuardInv
<1> QED
  BY <1>6, <1>7, <1>8, <1>9 DEF GuardInv

-----------------------------------------------------------------------------
(* The session's steps.                                                     *)

\* unit_check() forgets another unit's water, and what is in RAM stays or goes.
LEMMA UnitCheckResult ==
    ASSUME WaterAssumption, WaterTyped, NEW id \in Units \cup {None}, UnitCheck(id)
    PROVE  /\ unit' = id
           /\ \/ good' = None /\ heldBack' = FALSE /\ wpend' = None /\ unit # None /\ unit # id
              \/ good' = good /\ heldBack' = heldBack /\ wpend' = wpend /\ goodKv' = goodKv
                 /\ (unit = None \/ unit = id)
           /\ goodKv' \in {goodKv, None}
           /\ good' \in Good \cup {None} /\ goodKv' \in Good \cup {None}
           /\ wpend' \in Cand \cup {None} /\ heldBack' \in BOOLEAN
<1>1. CASE id # unit /\ unit # None
  BY <1>1 DEF UnitCheck, Keep, WaterTyped
<1>2. CASE ~(id # unit /\ unit # None)
  BY <1>2 DEF UnitCheck, WaterTyped
<1> QED
  BY <1>1, <1>2

\* What was not heard long enough to be shown need not be shown later either.
LEMMA UnknownStays ==
    ASSUME UnitKept, ShownInTime, UNCHANGED <<phase, reads, heard, firm>>,
           heard # Never \/ firm => UNCHANGED <<good, heldBack, wpend>>
    PROVE  ShownInTime'
BY DEF UnitKept, ShownInTime, Shows, PendHas, Alike, Never

\* A link keeps the invariant.
LEMMA WaterLinkUpKeeps == ASSUME WaterAssumption, GuardInv, WaterLinkUp PROVE GuardInv'
<1>1. /\ bond # None /\ ~online /\ online' = TRUE /\ due' = 0 /\ UnitCheck(bond)
      /\ UNCHANGED <<bond, tank, phase, reads, left, heard, firm, gap, strayed>>
  BY DEF WaterLinkUp, unitVars
<1>2. bond \in Units \cup {None} /\ {heldBack, firm, gap, strayed} \subseteq BOOLEAN
      /\ 0 \in 0..Reread
  BY DEF GuardInv, WaterTyped, WaterAssumption
<1>3. /\ unit' = bond
      /\ \/ good' = None /\ heldBack' = FALSE /\ wpend' = None /\ unit # None /\ unit # bond
         \/ good' = good /\ heldBack' = heldBack /\ wpend' = wpend /\ goodKv' = goodKv
            /\ (unit = None \/ unit = bond)
      /\ goodKv' \in {goodKv, None}
      /\ good' \in Good \cup {None} /\ goodKv' \in Good \cup {None}
      /\ wpend' \in Cand \cup {None} /\ heldBack' \in BOOLEAN
  BY <1>1, <1>2, UnitCheckResult DEF GuardInv
<1>4. WaterTyped'
  BY <1>1, <1>2, <1>3 DEF GuardInv, WaterTyped, Never
<1>5. UnitKept' /\ FrameKept'
  BY <1>1, <1>3 DEF GuardInv, UnitKept, FrameKept, Never
<1>6. ShownInTime'
  <2>1. heard # Never \/ firm => UNCHANGED <<good, heldBack, wpend>>
    BY <1>3 DEF GuardInv, UnitKept
  <2> QED
    BY <1>1, <2>1, UnknownStays DEF GuardInv
<1>7. OwnWater'
  BY <1>1, <1>3 DEF GuardInv, OwnWater
<1>8. RealWater'
  <2>1. ~gap => good' = None /\ wpend' = None
    BY <1>1, <1>3 DEF GuardInv, RealWater
  <2> QED
    BY <1>1, <2>1 DEF RealWater, Follows, FollowsIdle, FollowsRamp, FollowsSteady
<1> QED
  BY <1>4, <1>5, <1>6, <1>7, <1>8 DEF GuardInv

\* The loss of the link keeps the invariant.
LEMMA LinkLostKeeps == ASSUME WaterAssumption, GuardInv, LinkLost PROVE GuardInv'
<1>1. /\ online' = FALSE /\ gap' = (gap \/ Missed)
      /\ UNCHANGED <<bond, tank, phase, reads, left, unit, good, heldBack, wpend, goodKv, due,
                     heard, firm, strayed>>
  BY DEF LinkLost, unitVars, guard
<1>2. gap' \in BOOLEAN
  BY <1>1
<1>3. WaterTyped'
  BY <1>1, <1>2 DEF GuardInv, WaterTyped, Never
<1>4. UnitKept' /\ FrameKept' /\ OwnWater'
  BY <1>1 DEF GuardInv, UnitKept, FrameKept, OwnWater, Never
<1>5. ShownInTime'
  BY <1>1, UnknownStays DEF GuardInv
<1>6. RealWater'
  BY <1>1 DEF GuardInv, RealWater, Missed
<1> QED
  BY <1>3, <1>4, <1>5, <1>6 DEF GuardInv

\* A read of the characteristic keeps the invariant.
LEMMA ReadKeeps == ASSUME WaterAssumption, GuardInv, Read PROVE GuardInv'
<1> DEFINE steady == phase = "steady"
<1>1. /\ online /\ due = 0 /\ due' = Reread /\ Store(reads, steady)
      /\ UNCHANGED <<bond, tank, phase, reads, left, online>>
  BY DEF Read, unitVars
<1>2. /\ reads \in Reading /\ steady \in BOOLEAN /\ Reread \in 0..Reread
      /\ bond \in Units /\ bond # None /\ unit = bond /\ phase' \in {"idle", "ramp", "steady"}
  BY <1>1 DEF GuardInv, WaterTyped, UnitKept, WaterAssumption
<1>3. Advance
  BY <1>1, <1>2 DEF Advance, GuardInv, FrameKept, WaterTyped
<1>4. RealWater'
  BY <1>1, <1>2, <1>3, StoreReal DEF GuardInv
<1>5. ShownInTime' /\ OwnWater'
  BY <1>1, <1>2, StoreShown, StoreOwn DEF GuardInv
<1>6. /\ good' \in Good \cup {None} /\ goodKv' \in Good \cup {None}
      /\ wpend' \in Cand \cup {None} /\ heldBack' \in BOOLEAN /\ gap' \in BOOLEAN
      /\ heard' \in 0..Never /\ firm' \in BOOLEAN /\ unit' = unit /\ strayed' = strayed
  BY <1>1, <1>2, StoreTyped DEF GuardInv
<1>7. (heard' # Never => steady) /\ (firm' => steady)
  BY <1>1, <1>2, StoreHeard DEF GuardInv
<1>8. {online, heldBack, firm, gap, strayed}' \subseteq BOOLEAN
  BY <1>1, <1>6 DEF GuardInv, WaterTyped
<1>9. WaterTyped'
  BY <1>1, <1>2, <1>6, <1>8 DEF GuardInv, WaterTyped
<1>10. UnitKept' /\ FrameKept'
  BY <1>1, <1>2, <1>6, <1>7 DEF GuardInv, UnitKept, FrameKept, Never
<1> QED
  BY <1>4, <1>5, <1>9, <1>10 DEF GuardInv

\* A read that fails keeps the invariant.
LEMMA ReadFailsKeeps == ASSUME WaterAssumption, GuardInv, ReadFails PROVE GuardInv'
<1>1. /\ due' = Reread /\ gap' = TRUE
      /\ UNCHANGED <<bond, tank, phase, reads, left, online, unit, good, heldBack, wpend, goodKv,
                     heard, firm, strayed>>
  BY DEF ReadFails, unitVars, guard
<1>2. Reread \in 0..Reread
  BY DEF WaterAssumption
<1>3. WaterTyped'
  BY <1>1, <1>2 DEF GuardInv, WaterTyped, Never
<1>4. UnitKept' /\ FrameKept' /\ OwnWater'
  BY <1>1 DEF GuardInv, UnitKept, FrameKept, OwnWater, Never
<1>5. ShownInTime'
  BY <1>1, UnknownStays DEF GuardInv
<1> QED
  BY <1>1, <1>3, <1>4, <1>5 DEF GuardInv, RealWater

\* The start of a pairing keeps the invariant.
LEMMA FlowStartsKeeps == ASSUME WaterAssumption, GuardInv, FlowStarts PROVE GuardInv'
<1>1. /\ online' = FALSE /\ gap' = (gap \/ (online /\ Missed)) /\ UnitCheck(bond)
      /\ UNCHANGED <<bond, tank, phase, reads, left, due, heard, firm, strayed>>
  BY DEF FlowStarts, unitVars
<1>2. bond \in Units \cup {None} /\ gap' \in BOOLEAN
  BY <1>1 DEF GuardInv, WaterTyped
<1>3. /\ unit' = bond
      /\ \/ good' = None /\ heldBack' = FALSE /\ wpend' = None /\ unit # None /\ unit # bond
         \/ good' = good /\ heldBack' = heldBack /\ wpend' = wpend /\ goodKv' = goodKv
            /\ (unit = None \/ unit = bond)
      /\ goodKv' \in {goodKv, None}
      /\ good' \in Good \cup {None} /\ goodKv' \in Good \cup {None}
      /\ wpend' \in Cand \cup {None} /\ heldBack' \in BOOLEAN
  BY <1>1, <1>2, UnitCheckResult DEF GuardInv
<1>4. WaterTyped'
  BY <1>1, <1>2, <1>3 DEF GuardInv, WaterTyped, Never
<1>5. UnitKept' /\ FrameKept'
  BY <1>1, <1>3 DEF GuardInv, UnitKept, FrameKept, Never
<1>6. ShownInTime'
  <2>1. heard # Never \/ firm => UNCHANGED <<good, heldBack, wpend>>
    BY <1>3 DEF GuardInv, UnitKept
  <2> QED
    BY <1>1, <2>1, UnknownStays DEF GuardInv
<1>7. OwnWater'
  BY <1>1, <1>3 DEF GuardInv, OwnWater
<1>8. RealWater'
  <2>1. ~gap' => ~gap /\ good' = None /\ wpend' = None
    BY <1>1, <1>3 DEF GuardInv, RealWater, Missed
  <2> QED
    BY <1>1, <2>1 DEF RealWater
<1> QED
  BY <1>4, <1>5, <1>6, <1>7, <1>8 DEF GuardInv

\* A bond goes or is made: the guard hears nothing of a measurement, and has missed what
\* it has water of.
LEMMA BondChanges ==
    ASSUME WaterAssumption, GuardInv, NEW id \in Units \cup {None}, UnitCheck(id), Strays,
           bond' = id, phase' = "idle", left' = 0, online' \in BOOLEAN, online' => id # None,
           tank' \in Contents, reads' \in Reading, id # None => reads'.f = 1 /\ ~reads'.empty,
           due' \in 0..Reread, heard' = Never, firm' = FALSE, gap' = (gap \/ Missed)
    PROVE  GuardInv'
<1>1. /\ unit' = id
      /\ \/ good' = None /\ heldBack' = FALSE /\ wpend' = None /\ unit # None /\ unit # id
         \/ good' = good /\ heldBack' = heldBack /\ wpend' = wpend /\ goodKv' = goodKv
            /\ (unit = None \/ unit = id)
      /\ goodKv' \in {goodKv, None}
      /\ good' \in Good \cup {None} /\ goodKv' \in Good \cup {None}
      /\ wpend' \in Cand \cup {None} /\ heldBack' \in BOOLEAN
  BY UnitCheckResult DEF GuardInv
<1>2. Never \in 0..Never /\ 0 \in Nat
  BY DEF WaterAssumption, Never
<1>3. /\ strayed' \in BOOLEAN /\ (~strayed' => ~strayed)
      /\ ~strayed' /\ goodKv' # None => bond' # None /\ goodKv'.by = bond'
  BY DEF Strays, GuardInv, WaterTyped
<1>4. gap' \in BOOLEAN /\ (~gap' => good = None /\ wpend = None)
  BY DEF Missed
<1>5. WaterTyped'
  BY <1>1, <1>2, <1>3, <1>4 DEF WaterTyped, Never
<1>6. UnitKept' /\ FrameKept' /\ ShownInTime'
  BY <1>1 DEF UnitKept, FrameKept, ShownInTime, Never
<1>7. OwnWater'
  <2>1. good' # None /\ ~strayed' => good'.by = id
    <3>1. SUFFICES ASSUME good' # None, ~strayed' PROVE good'.by = id
      OBVIOUS
    <3>2. good' = good /\ goodKv' = goodKv /\ good # None /\ (unit = None \/ unit = id)
      BY <1>1, <3>1
    <3>3. CASE unit = None
      BY <1>3, <3>1, <3>2, <3>3 DEF GuardInv, OwnWater
    <3>4. CASE unit # None
      BY <1>3, <3>1, <3>2, <3>4 DEF GuardInv, OwnWater
    <3> QED
      BY <3>3, <3>4
  <2>2. unit' = None => good' = None \/ goodKv' = good'
    BY <1>1 DEF GuardInv, OwnWater
  <2> QED
    BY <1>1, <1>3, <2>1, <2>2 DEF OwnWater
<1>8. RealWater'
  <2>1. ~gap' => good' = None /\ wpend' = None
    BY <1>1, <1>4
  <2> QED
    BY <2>1 DEF RealWater, Follows, FollowsIdle, FollowsRamp, FollowsSteady
<1> QED
  BY <1>5, <1>6, <1>7, <1>8 DEF GuardInv

\* A bond that is forgotten takes its values along.
LEMMA ForgetKeeps == ASSUME WaterAssumption, GuardInv, Forget PROVE GuardInv'
<1>1. /\ bond' = None /\ phase' = "idle" /\ left' = 0 /\ online' = FALSE
      /\ UNCHANGED <<tank, reads, due>> /\ UnitCheck(None) /\ Strays
      /\ heard' = Never /\ firm' = FALSE /\ gap' = (gap \/ Missed)
  BY DEF Forget
<1>2. tank' \in Contents /\ reads' \in Reading /\ due' \in 0..Reread
  BY <1>1 DEF GuardInv, WaterTyped
<1> QED
  BY <1>1, <1>2, BondChanges

\* A new bond keeps the invariant.
LEMMA BondMadeKeeps ==
    ASSUME WaterAssumption, GuardInv, NEW u \in Units, BondMade(u)
    PROVE  GuardInv'
<1>1. /\ bond' = u /\ online' = TRUE /\ due' = 0 /\ phase' = "idle" /\ left' = 0
      /\ \E t \in Tanks : tank' = t /\ reads' = Frame(1, t.w, FALSE)
      /\ UnitCheck(u) /\ Strays
      /\ heard' = Never /\ firm' = FALSE /\ gap' = (gap \/ Missed)
  BY DEF BondMade
<1>2. PICK t \in Tanks : tank' = t /\ reads' = Frame(1, t.w, FALSE)
  BY <1>1
<1>3. t \in Contents /\ u # None /\ 0 \in 0..Reread
  BY DEF WaterAssumption, Contents
<1>4. reads' \in Reading /\ reads'.f = 1 /\ ~reads'.empty
  BY <1>2, <1>3 DEF Frame, Reading, Contents
<1> QED
  BY <1>1, <1>2, <1>3, <1>4, BondChanges

\* A reboot, which restores the persisted value, keeps the invariant.
LEMMA RebootKeeps == ASSUME WaterAssumption, GuardInv, Reboot PROVE GuardInv'
<1>1. /\ online' = FALSE /\ unit' = None
      /\ good' = goodKv /\ heldBack' = FALSE /\ wpend' = None
      /\ heard' = Never /\ firm' = FALSE /\ gap' = (gap \/ Missed)
      /\ UNCHANGED <<bond, tank, phase, reads, left, goodKv, due, strayed>>
  BY DEF Reboot, unitVars
<1>2. Never \in 0..Never /\ gap' \in BOOLEAN
  BY <1>1 DEF WaterAssumption, Never
<1>3. WaterTyped'
  BY <1>1, <1>2 DEF GuardInv, WaterTyped, Never
<1>4. UnitKept' /\ FrameKept' /\ ShownInTime' /\ OwnWater'
  BY <1>1 DEF GuardInv, UnitKept, FrameKept, ShownInTime, OwnWater, Never
<1>5. RealWater'
  BY <1>1 DEF RealWater, Missed
<1> QED
  BY <1>3, <1>4, <1>5 DEF GuardInv

\* A step that touches nothing of the guard, the unit and the history keeps the invariant.
LEMMA WaterStands ==
    ASSUME GuardInv, UNCHANGED <<unitVars, online, guard, due, notes>>
    PROVE  GuardInv'
<1>1. UNCHANGED <<bond, tank, phase, reads, left, online, unit, good, heldBack, wpend, goodKv, due,
                  heard, firm, gap, strayed>>
  BY DEF unitVars, guard, notes
<1>2. WaterTyped' /\ UnitKept' /\ FrameKept' /\ OwnWater'
  BY <1>1 DEF GuardInv, WaterTyped, UnitKept, FrameKept, OwnWater, Never
<1>3. ShownInTime'
  BY <1>1, UnknownStays DEF GuardInv
<1>4. RealWater'
  BY <1>1 DEF GuardInv, RealWater, Follows, FollowsIdle, FollowsRamp, FollowsSteady, PendHas, Alike,
              Due
<1> QED
  BY <1>2, <1>3, <1>4 DEF GuardInv

\* Every step keeps the invariant.
LEMMA WaterStep ==
    ASSUME WaterAssumption, GuardInv, [WaterNext]_waterVars
    PROVE  GuardInv'
<1>1. CASE Measurement
  BY <1>1, MeasureBeginsKeeps, ClimbsKeeps, SettlesKeeps, MeasureEndsKeeps, TankChangesKeeps
     DEF Measurement
<1>2. CASE Linked
  BY <1>2, WaterLinkUpKeeps, LinkLostKeeps, ReadKeeps, ReadFailsKeeps DEF Linked
<1>3. CASE Bonding
  <2>1. CASE FlowEnds
    BY <2>1, WaterStands DEF FlowEnds
  <2>2. CASE \E u \in Units : BondMade(u)
    BY <2>2, BondMadeKeeps
  <2> QED
    BY <1>3, <2>1, <2>2, FlowStartsKeeps, ForgetKeeps DEF Bonding
<1>4. CASE UNCHANGED waterVars
  BY <1>4, WaterStands DEF waterVars
<1> QED
  BY <1>1, <1>2, <1>3, <1>4, WaterTickKeeps, RebootKeeps DEF WaterNext

\* The invariant implies what the run checks.
LEMMA WaterShown == ASSUME GuardInv PROVE WaterInv
<1>1. MeasuredIsShown
  BY DEF GuardInv, ShownInTime, MeasuredIsShown
<1>2. ShownIsMeasured
  BY DEF GuardInv, RealWater, UnitKept, OwnWater, ShownIsMeasured
<1> QED
  BY <1>1, <1>2 DEF WaterInv

\* The water shown is a measured level of the bonded unit, and a measured level gets shown,
\* for any units and tanks, every latch level and debounce time up to the time between two
\* reads, over any faults and reboots (session.c store, unit_check, ports.c
\* freshness_settle).
THEOREM WaterSafe == ASSUME WaterAssumption PROVE WaterSpec => []WaterInv
<1>1. WaterInit => GuardInv
  <2>1. SUFFICES ASSUME WaterInit PROVE GuardInv
    OBVIOUS
  <2>2. /\ tank \in Contents /\ bond \in Units /\ reads = Frame(1, tank.w, FALSE)
        /\ Never \in 0..Never /\ 0 \in 0..Reread /\ None \notin Units
    BY <2>1 DEF WaterInit, WaterAssumption, Contents, Never
  <2>3. reads \in Reading /\ reads.f = 1 /\ ~reads.empty
    BY <2>2 DEF Frame, Reading, Contents
  <2>4. WaterTyped
    BY <2>1, <2>2, <2>3 DEF WaterInit, WaterTyped
  <2>5. UnitKept /\ FrameKept /\ ShownInTime /\ OwnWater /\ RealWater
    BY <2>1, <2>3 DEF WaterInit, UnitKept, FrameKept, ShownInTime, OwnWater, RealWater
  <2> QED
    BY <2>4, <2>5 DEF GuardInv
<1>2. GuardInv /\ [WaterNext]_waterVars => GuardInv'
  BY WaterStep
<1>3. GuardInv => WaterInv
  BY WaterShown
<1> QED
  BY <1>1, <1>2, <1>3, PTL DEF WaterSpec
=============================================================================
