---------------------------- MODULE OwnerProofs ----------------------------
(***************************************************************************)
(* Proofs about parts that run on the owner task and the BLE host's, for   *)
(* every value of their constants: ControlRun, for any plans, delays and   *)
(* deadlines, and links that may come back between two ticks; PiWake, the  *)
(* wake and halt lines of the Raspberry Pi, for any times; BondStore, for  *)
(* any keys, payloads and number of slots; and Wifi, for any networks and  *)
(* power cuts, with a driver that starts the joins it is asked for.        *)
(***************************************************************************)
EXTENDS ControlRun, PiWake, BondStore, Wifi, WellFoundedInduction, SequenceTheorems, TLAPS

-----------------------------------------------------------------------------
\* What the constants give: the frames of a plan or a pull, never none.
LEMMA PlanFacts ==
    /\ FollowDelay \in Nat /\ Deadline \in Nat /\ PullTime \in Nat
    /\ PullPlan \in Delays /\ Len(PullPlan) = 2
    /\ \A p \in Plans : p \in Delays /\ Len(p) > 0
<1>1. \A p \in Plans : p \in Delays /\ p # <<>>
  BY ControlAssumption
<1>2. \A p \in Delays : p # <<>> => Len(p) > 0
  BY DEF Delays
<1>3. PullPlan \in Delays /\ Len(PullPlan) = 2
  BY ControlAssumption DEF PullPlan, Delays
<1> QED
  BY <1>1, <1>2, <1>3, ControlAssumption

\* The three contents the transport's queue can have.
LEMMA WireFacts ==
    /\ <<>> \in Writes /\ <<"mine">> \in Writes
    /\ <<"old">> \in Writes
    /\ <<"mine">> # <<>> /\ <<"old">> # <<>> /\ <<"mine">> # <<"old">>
    /\ Append(<<>>, "mine") = <<"mine">>
    /\ Tail(<<"mine">>) = <<>> /\ Tail(<<"old">>) = <<>>
    /\ Head(<<"mine">>) = "mine" /\ Head(<<"old">>) = "old"
    /\ Aged(<<>>) = <<>> /\ Aged(<<"mine">>) = <<"old">>
<1>1. <<>> \in Writes /\ <<"mine">> \in Writes
      /\ <<"old">> \in Writes
  BY DEF Writes
<1>2. <<"mine">> # <<>> /\ <<"old">> # <<>>
  OBVIOUS
<1>3. <<"mine">> # <<"old">>
  <2>1. <<"mine">>[1] = "mine" /\ <<"old">>[1] = "old"
    OBVIOUS
  <2> QED
    BY <2>1
<1>4. Append(<<>>, "mine") = <<"mine">>
  OBVIOUS
<1>5. Tail(<<"mine">>) = <<>> /\ Tail(<<"old">>) = <<>>
  OBVIOUS
<1>6. Head(<<"mine">>) = "mine" /\ Head(<<"old">>) = "old"
  OBVIOUS
<1>7. Aged(<<>>) = <<>> /\ Aged(<<"mine">>) = <<"old">>
  BY <1>2 DEF Aged
<1> QED
  BY <1>1, <1>2, <1>3, <1>4, <1>5, <1>6, <1>7

\* A session that never had a command keeps the invariant.
LEMMA InitInv == Init => AnswerInv
<1> SUFFICES ASSUME Init PROVE AnswerInv
  OBVIOUS
<1>1. <<>> \in Delays
  BY DEF Delays
<1>3. FlagsOK
  BY DEF Init, FlagsOK
<1>2. TypeOK
  BY <1>1, <1>3, WireFacts DEF Init, TypeOK, Results
<1> QED
  BY <1>2, WireFacts DEF Init, AnswerInv, OkMeansAcked, DoneOnce, LossIsHonest

\* submit() accepts a command.
LEMMA SubmitInv ==
    ASSUME AnswerInv, Submit
    PROVE  AnswerInv'
<1>1. wire = <<>>
  BY DEF AnswerInv, Submit, Busy
<1>2. PICK pulling \in BOOLEAN, p \in Plans :
        /\ plan' = IF pulling THEN PullPlan ELSE p
        /\ pull' = IF pulling THEN 1 ELSE 0
        /\ deadlineIn' = Deadline + (IF pulling THEN PullTime ELSE 0)
  BY DEF Submit
<1>3. plan' \in Delays /\ Len(plan') > 0 /\ pull' \in {0, 1} /\ deadlineIn' \in Nat
  <2>1. CASE pulling
    BY <1>2, <2>1, PlanFacts
  <2>2. CASE ~pulling
    BY <1>2, <2>2, PlanFacts
  <2> QED
    BY <2>1, <2>2
<1>4. pull' # 2 /\ active' /\ i' = 0 /\ taken' = 0 /\ reached' = FALSE /\ inflight' = FALSE
      /\ answer' = "none" /\ calls' = 0 /\ wire' = wire /\ link' = link /\ ready' = ready
      /\ nextIn' = 0 /\ relinked' = FALSE /\ UNCHANGED <<pullIn, gap>>
  BY <1>3 DEF AnswerInv, TypeOK, Submit, Busy
<1>6. FlagsOK'
  BY <1>4, Zenon DEF AnswerInv, TypeOK, FlagsOK
<1>5. TypeOK'
  BY <1>3, <1>4, <1>6 DEF AnswerInv, TypeOK, Results
<1> QED
  BY <1>1, <1>3, <1>4, <1>5, WireFacts
     DEF AnswerInv, Sent, OkMeansAcked, DoneOnce, LossIsHonest, LinkUp

\* What every tick does to the stamps and the link.
LEMMA ClockFacts ==
    ASSUME TypeOK, Clock
    PROVE  /\ deadlineIn' \in Nat /\ gap' \in Nat
           /\ link' \in {"up", "dying", "lost", "down"} /\ LinkUp' = LinkUp
           /\ link = "up" => link' = "up"
           /\ ready' = ready /\ relinked' = relinked
<1>1. deadlineIn' \in Nat /\ gap' \in Nat
  BY PlanFacts DEF TypeOK, Clock, Down
<1>2. /\ link' \in {"up", "dying", "lost", "down"}
      /\ link = "up" => link' = "up"
      /\ link = "dying" => link' = "dying"
      /\ link = "lost" => link' = "down"
      /\ link = "down" => link' = "down"
  BY DEF TypeOK, Clock
<1>3. LinkUp' = LinkUp
  BY <1>2 DEF TypeOK, LinkUp
<1> QED
  BY <1>1, <1>2, <1>3 DEF Clock

\* finish(): what the invariant asks of a command that has been answered.
LEMMA FinishInv ==
    ASSUME AnswerInv, active, FlagsOK', TypeOK', NEW r \in Results, Finish(r),
           wire' \in {<<>>, <<"old">>}, wire' # <<>> => inflight' /\ link' = "up",
           (ready => LinkUp)',
           r = "ok" => taken' = Len(plan'),
           r = "unconfirmed" => reached', r = "link_lost" => ~reached'
    PROVE  AnswerInv'
<1>1. /\ active' = FALSE /\ pull' = 0 /\ answer' = r /\ calls' = 1
  BY DEF Finish, AnswerInv, DoneOnce, TypeOK
<1>2. wire' # <<"mine">>
  BY WireFacts
<1>3. OkMeansAcked' /\ DoneOnce'
  BY <1>1 DEF OkMeansAcked, DoneOnce
<1>4. LossIsHonest'
  BY <1>1 DEF LossIsHonest, FlagsOK
<1> QED
  BY <1>1, <1>2, <1>3, <1>4, WireFacts DEF AnswerInv

\* A tick without a link ends the command.
LEMMA TickNoLinkInv ==
    ASSUME AnswerInv, TickNoLink
    PROVE  AnswerInv'
<1>1. TypeOK /\ wire = <<>> /\ ~LinkUp
  BY DEF AnswerInv, TickNoLink, LinkUp
<1>2. Clock
  BY DEF TickNoLink
<1>3. CASE active
  <2> DEFINE r == IF Sent THEN "unconfirmed" ELSE "link_lost"
  <2>1. /\ Finish(r) /\ inflight' = FALSE /\ wire' = wire /\ reached' = reached
        /\ UNCHANGED <<i, plan, nextIn, pullIn, taken>>
    BY <1>3 DEF TickNoLink
  <2>2. r \in Results /\ r # "ok" /\ (r = "unconfirmed" <=> Sent) /\ (r = "link_lost" <=> ~Sent)
    BY DEF Results
  <2>3. reached <=> Sent
    BY <1>3 DEF AnswerInv
  <2> HIDE DEF r
  <2>4. active' = FALSE /\ pull' = 0 /\ answer' = r /\ calls' = calls + 1
    BY <2>1 DEF Finish
  <2>5. FlagsOK'
    BY <1>1, <1>2, <2>1, <2>4, ClockFacts, Zenon DEF TypeOK, FlagsOK
  <2>6. TypeOK'
    BY <1>1, <1>2, <2>1, <2>2, <2>4, <2>5, ClockFacts DEF TypeOK
  <2>7. (ready => LinkUp)'
    BY <1>1, <1>2, ClockFacts DEF AnswerInv
  <2> QED
    BY <1>1, <1>3, <2>1, <2>2, <2>3, <2>5, <2>6, <2>7, WireFacts, FinishInv
<1>4. CASE ~active
  <2>1. /\ inflight' = FALSE
        /\ UNCHANGED <<active, i, plan, pull, nextIn, pullIn, wire, taken, reached, answer, calls>>
    BY <1>4 DEF TickNoLink
  <2>2. FlagsOK'
    BY <1>1, <1>2, <2>1, ClockFacts, Zenon DEF TypeOK, FlagsOK
  <2>3. TypeOK'
    BY <1>1, <1>2, <2>1, <2>2, ClockFacts DEF TypeOK
  <2> QED
    BY <1>1, <1>2, <1>4, <2>1, <2>3, ClockFacts, WireFacts
       DEF AnswerInv, OkMeansAcked, DoneOnce, LossIsHonest
<1> QED
  BY <1>3, <1>4

\* A step that leaves the command and the writes alone.
LEMMA KeepInv ==
    ASSUME AnswerInv, TypeOK',
           UNCHANGED <<active, inflight, i, plan, pull, wire, taken, reached, answer, calls>>,
           wire # <<>> => link' = "up", (ready => LinkUp)'
    PROVE  AnswerInv'
<1>1. Sent' = Sent
  BY DEF Sent
<1>2. OkMeansAcked' /\ DoneOnce' /\ LossIsHonest'
  BY DEF AnswerInv, OkMeansAcked, DoneOnce, LossIsHonest
<1> QED
  BY <1>1, <1>2 DEF AnswerInv

\* A tick with nothing to do: no command, or one that waits.
LEMMA TickWaitInv ==
    ASSUME AnswerInv, TickIdle \/ TickWait
    PROVE  AnswerInv'
<1>1. TypeOK /\ Clock /\ nextIn' \in Nat
      /\ UNCHANGED <<active, inflight, i, plan, pull, pullIn, wire, taken, reached, answer, calls>>
  BY DEF AnswerInv, TypeOK, TickIdle, TickWait, Down
<1>2. FlagsOK'
  BY <1>1, ClockFacts, Zenon DEF TypeOK, FlagsOK
<1>3. TypeOK'
  BY <1>1, <1>2, ClockFacts DEF TypeOK
<1>4. (wire # <<>> => link' = "up") /\ (ready => LinkUp)'
  BY <1>1, ClockFacts DEF AnswerInv
<1> QED
  BY <1>1, <1>3, <1>4, KeepInv

\* A tick past the deadline answers the command; its write may still be out.
LEMMA TickExpiredInv ==
    ASSUME AnswerInv, TickExpired
    PROVE  AnswerInv'
<1>1. /\ TypeOK /\ Clock /\ active /\ Finish("timeout") /\ wire' = Aged(wire)
      /\ UNCHANGED <<inflight, i, plan, nextIn, pullIn, taken, reached>>
  BY DEF AnswerInv, TickExpired
<1>2. active' = FALSE /\ pull' = 0 /\ answer' = "timeout" /\ calls' = calls + 1
  BY <1>1 DEF Finish
<1>3. wire' \in {<<>>, <<"old">>} /\ (wire' # <<>> => wire # <<>>)
  BY <1>1 DEF Aged
<1>4. FlagsOK'
  BY <1>1, <1>2, ClockFacts, Zenon DEF TypeOK, FlagsOK
<1>5. TypeOK'
  BY <1>1, <1>2, <1>3, <1>4, WireFacts, ClockFacts DEF TypeOK, Results
<1>6. wire' # <<>> => inflight' /\ link' = "up"
  BY <1>1, <1>3, ClockFacts DEF AnswerInv
<1>7. (ready => LinkUp)'
  BY <1>1, ClockFacts DEF AnswerInv
<1>8. "timeout" \in Results /\ "timeout" # "ok" /\ "timeout" # "unconfirmed" /\ "timeout" # "link_lost"
  BY DEF Results
<1> QED
  BY <1>1, <1>3, <1>4, <1>5, <1>6, <1>7, <1>8, FinishInv

\* The frame of a running command goes out, or the command is answered at once.
LEMMA WriteInv ==
    ASSUME AnswerInv, Clock, LinkUp, active, ~inflight,
           NEW p \in Delays, NEW k \in Nat, k < Len(p),
           IF pull = 2 THEN k = 0 ELSE p = plan /\ k = i,
           Write(p, k)
    PROVE  AnswerInv'
<1>1. TypeOK /\ wire = <<>> /\ taken = i /\ (reached <=> Sent) /\ answer = "none" /\ calls = 0
  BY DEF AnswerInv, DoneOnce, TypeOK
<1>2. plan' = p /\ i' = k /\ UNCHANGED <<nextIn, pullIn>>
      /\ taken' = (IF pull = 2 THEN 0 ELSE taken)
  BY DEF Write
<1>3. taken' = k /\ taken' \in Nat
  BY <1>1, <1>2 DEF TypeOK
<1>4. pull \in {0, 1, 2}
  BY <1>1 DEF TypeOK
<1>7. i' \in Nat /\ plan' \in Delays /\ taken' \in Nat /\ nextIn' \in Nat /\ pullIn' \in Nat
  BY <1>1, <1>2, <1>3 DEF TypeOK
<1>8. pull = 1 => ~reached
  BY <1>1 DEF Sent
<1>5. CASE /\ link = "up" /\ inflight' = TRUE
           /\ wire' = Append(wire, "mine") /\ reached' = (reached \/ pull # 1)
           /\ pull' = (IF pull = 2 THEN 0 ELSE pull)
           /\ UNCHANGED <<active, answer, calls>>
  <2>1. wire' = <<"mine">> /\ link' = "up" /\ pull' \in {0, 1} /\ (pull' = 1 <=> pull = 1)
    BY <1>1, <1>4, <1>5, WireFacts, ClockFacts
  <2>8. pull' = 0 <=> pull # 1
    BY <1>4, <2>1
  <2>9. reached' <=> pull # 1
    BY <1>5, <1>8
  <2>2. reached' \in BOOLEAN /\ (reached' <=> pull' = 0)
    BY <1>5, <2>8, <2>9, Zenon
  <2>3. FlagsOK'
    BY <1>1, <1>5, <2>2, ClockFacts, Zenon DEF TypeOK, FlagsOK
  <2>4. TypeOK'
    <3>1. pull' \in 0..2 /\ wire' \in Writes /\ answer' \in Results /\ calls' \in Nat
      BY <1>1, <1>5, <2>1, WireFacts DEF TypeOK
    <3> QED
      BY <1>1, <1>7, <2>3, <3>1, ClockFacts DEF TypeOK
  <2>5. (ready => LinkUp)'
    BY <1>1, ClockFacts DEF AnswerInv
  <2>6. Sent' <=> pull' = 0
    BY <1>5 DEF Sent
  <2>7. OkMeansAcked' /\ DoneOnce' /\ LossIsHonest'
    BY <1>1, <1>5 DEF OkMeansAcked, DoneOnce, LossIsHonest
  <2> QED
    BY <1>1, <1>2, <1>3, <1>5, <2>1, <2>2, <2>4, <2>5, <2>6, <2>7, WireFacts DEF AnswerInv
<1>6. CASE /\ inflight' = FALSE
           /\ \E result \in {"not_issued", "att_error"} : Finish(result)
           /\ UNCHANGED <<wire, reached>>
  <2>1. PICK r \in {"not_issued", "att_error"} : Finish(r)
    BY <1>6
  <2>2. active' = FALSE /\ pull' = 0 /\ answer' = r /\ calls' = 1
    BY <1>1, <2>1 DEF Finish
  <2>3. r \in Results /\ r # "ok" /\ r # "unconfirmed" /\ r # "link_lost"
    BY DEF Results
  <2>4. FlagsOK'
    BY <1>1, <1>6, <2>2, ClockFacts, Zenon DEF TypeOK, FlagsOK
  <2>5. TypeOK'
    <3>1. pull' \in 0..2 /\ wire' \in Writes /\ answer' \in Results /\ calls' \in Nat
      BY <1>1, <1>6, <2>2, <2>3 DEF TypeOK
    <3> QED
      BY <1>1, <1>7, <2>4, <3>1, ClockFacts DEF TypeOK
  <2>6. (ready => LinkUp)'
    BY <1>1, ClockFacts DEF AnswerInv
  <2> QED
    BY <1>1, <1>6, <2>1, <2>3, <2>4, <2>5, <2>6, FinishInv
<1> QED
  BY <1>5, <1>6 DEF Write

\* A tick writes the next frame, or looks at the unit's reply to the pull.
LEMMA TickWriteInv ==
    ASSUME AnswerInv, TickWrite
    PROVE  AnswerInv'
<1>1. /\ Clock /\ LinkUp /\ active /\ ~inflight /\ pull # 2 /\ Write(plan, i)
      /\ plan \in Delays /\ i \in Nat /\ i < Len(plan)
  BY DEF TickWrite, Running, AnswerInv, TypeOK
<1> QED
  BY <1>1, WriteInv

\* A tick that finds the reply window over writes the next frame or ends the command.
LEMMA TickReplyInv ==
    ASSUME AnswerInv, TickReply
    PROVE  AnswerInv'
<1>1. TypeOK /\ Clock /\ LinkUp /\ active /\ pull = 2 /\ ~inflight
  BY DEF TickReply, Running, AnswerInv
<1>2. CASE /\ pullIn' = Down(pullIn)
           /\ UNCHANGED <<active, inflight, i, plan, pull, nextIn, wire, taken, reached,
                          answer, calls>>
  <2>1. FlagsOK'
    BY <1>1, <1>2, ClockFacts, Zenon DEF TypeOK, FlagsOK
  <2>2. pullIn' \in Nat
    BY <1>1, <1>2 DEF TypeOK, Down
  <2>3. TypeOK'
    BY <1>1, <1>2, <2>1, <2>2, ClockFacts DEF TypeOK
  <2>4. (wire # <<>> => link' = "up") /\ (ready => LinkUp)'
    BY <1>1, ClockFacts DEF AnswerInv
  <2> QED
    BY <1>2, <2>3, <2>4, KeepInv
<1>3. CASE /\ \E result \in {"refused", "bad_value"} : Finish(result)
           /\ UNCHANGED <<inflight, i, plan, nextIn, pullIn, wire, taken, reached>>
  <2>1. PICK r \in {"refused", "bad_value"} : Finish(r)
    BY <1>3
  <2>2. active' = FALSE /\ pull' = 0 /\ answer' = r /\ calls' = calls + 1
    BY <2>1 DEF Finish
  <2>3. r \in Results /\ r # "ok" /\ r # "unconfirmed" /\ r # "link_lost"
    BY DEF Results
  <2>4. FlagsOK'
    BY <1>1, <1>3, <2>2, ClockFacts, Zenon DEF TypeOK, FlagsOK
  <2>5. TypeOK'
    <3>1. pull' \in 0..2 /\ answer' \in Results /\ calls' \in Nat
      BY <1>1, <2>2, <2>3 DEF TypeOK
    <3> QED
      BY <1>1, <1>3, <2>4, <3>1, ClockFacts DEF TypeOK
  <2>6. wire' = <<>>
    BY <1>1, <1>3 DEF AnswerInv
  <2>7. (ready => LinkUp)'
    BY <1>1, ClockFacts DEF AnswerInv
  <2> QED
    BY <1>1, <2>1, <2>3, <2>4, <2>5, <2>6, <2>7, FinishInv
<1>4. ASSUME NEW p \in Plans, Write(p, 0)
      PROVE  AnswerInv'
  <2>1. p \in Delays /\ 0 \in Nat /\ 0 < Len(p)
    BY PlanFacts
  <2> QED
    BY <1>1, <1>4, <2>1, WriteInv
<1> QED
  BY <1>2, <1>3, <1>4 DEF TickReply

\* The delay of the frame after the next.
LEMMA DelayFacts ==
    ASSUME TypeOK, i + 1 < Len(plan)
    PROVE  NextDelay \in Nat
<1>1. plan[i + 2] \in {0, FollowDelay}
  BY DEF TypeOK, Delays
<1> QED
  BY <1>1, PlanFacts DEF NextDelay

\* on_written().
LEMMA WrittenInv ==
    ASSUME AnswerInv, NEW ok \in BOOLEAN, Written(ok)
    PROVE  AnswerInv'
<1>1. /\ TypeOK /\ link = "up" /\ inflight /\ wire \in {<<"mine">>, <<"old">>}
      /\ (wire = <<"mine">>) = active
  BY WireFacts DEF AnswerInv, Written, TypeOK, FlagsOK
<1>2. /\ inflight' = FALSE /\ wire' = <<>>
      /\ UNCHANGED <<plan, deadlineIn, link, ready, relinked>>
      /\ taken' = IF Head(wire) = "mine" /\ ok THEN taken + 1 ELSE taken
      /\ reached' = IF Head(wire) = "mine" /\ ~ok THEN taken > 0 /\ reached ELSE reached
      /\ gap' = IF Head(wire) = "mine" THEN 0 ELSE gap
  BY <1>1, WireFacts DEF Written
<1>3. gap' \in Nat /\ taken' \in Nat
  BY <1>1, <1>2 DEF TypeOK
<1>4. reached' \in BOOLEAN
  BY <1>1, <1>2 DEF TypeOK, FlagsOK
<1>5. (ready => LinkUp)'
  BY <1>2 DEF AnswerInv, LinkUp
<1>6. CASE ~active
  <2>1. UNCHANGED <<active, i, pull, nextIn, pullIn, answer, calls>>
    BY <1>6 DEF Written, Counts
  <2>2. taken' = taken /\ reached' = reached
    BY <1>1, <1>2, <1>6, WireFacts
  <2>3. FlagsOK'
    BY <1>1, <1>2, <2>1, <2>2, Zenon DEF TypeOK, FlagsOK
  <2>4. TypeOK'
    BY <1>1, <1>2, <1>3, <2>1, <2>3, WireFacts DEF TypeOK
  <2> QED
    BY <1>2, <1>5, <1>6, <2>1, <2>2, <2>4, WireFacts
       DEF AnswerInv, OkMeansAcked, DoneOnce, LossIsHonest
<1>7. CASE active
  <2>1. Counts /\ Head(wire) = "mine" /\ pull # 2 /\ taken = i /\ i < Len(plan)
        /\ (reached <=> Sent) /\ answer = "none" /\ calls = 0
    BY <1>1, <1>7, WireFacts DEF Counts, AnswerInv, DoneOnce, TypeOK
  <2>2. i \in Nat /\ Len(plan) \in Nat /\ pull \in {0, 1}
    BY <1>1, <2>1 DEF TypeOK, Delays
  <2>3. CASE ~ok
    <3>1. Finish("att_error") /\ UNCHANGED <<i, nextIn, pullIn>>
      BY <2>1, <2>3 DEF Written
    <3>2. active' = FALSE /\ pull' = 0 /\ answer' = "att_error" /\ calls' = calls + 1
      BY <3>1 DEF Finish
    <3>3. FlagsOK'
      BY <1>1, <1>2, <1>4, <3>2, Zenon DEF TypeOK, FlagsOK
    <3>4. "att_error" \in Results /\ "att_error" # "ok" /\ "att_error" # "unconfirmed"
          /\ "att_error" # "link_lost"
      BY DEF Results
    <3>5. TypeOK'
      BY <1>1, <1>2, <1>3, <3>1, <3>2, <3>3, <3>4, WireFacts DEF TypeOK
    <3> QED
      BY <1>2, <1>5, <1>7, <3>1, <3>3, <3>4, <3>5, FinishInv
  <2>4. CASE ok
    <3>1. taken' = taken + 1 /\ reached' = reached
      BY <1>2, <2>1, <2>4
    <3>2. CASE i + 1 # Len(plan)
      <4>1. i' = i + 1 /\ nextIn' = NextDelay /\ UNCHANGED <<active, pull, pullIn, answer, calls>>
        BY <2>1, <2>4, <3>2 DEF Written
      <4>2. nextIn' \in Nat
        BY <1>1, <2>1, <2>2, <3>2, <4>1, DelayFacts
      <4>3. FlagsOK'
        BY <1>1, <1>2, <1>4, <4>1, Zenon DEF TypeOK, FlagsOK
      <4>4. TypeOK'
        BY <1>1, <1>2, <1>3, <2>2, <4>1, <4>2, <4>3, WireFacts DEF TypeOK
      <4>5. i' < Len(plan') /\ i' > 0 /\ taken' = i'
        BY <1>2, <2>1, <2>2, <3>1, <3>2, <4>1
      <4>6. Sent' <=> Sent
        BY <1>1, <4>1, <4>5 DEF Sent
      <4> QED
        BY <1>2, <1>5, <1>7, <2>1, <3>1, <4>1, <4>4, <4>5, <4>6, WireFacts
           DEF AnswerInv, OkMeansAcked, DoneOnce, LossIsHonest
    <3>3. CASE i + 1 = Len(plan) /\ pull = 1
      <4>1. i' = i + 1 /\ pull' = 2 /\ pullIn' = PullTime /\ UNCHANGED <<active, nextIn, answer, calls>>
        BY <2>1, <2>4, <3>3 DEF Written
      <4>2. FlagsOK'
        BY <1>1, <1>2, <1>4, <4>1, Zenon DEF TypeOK, FlagsOK
      <4>3. TypeOK'
        BY <1>1, <1>2, <1>3, <2>2, <4>1, <4>2, WireFacts, PlanFacts DEF TypeOK
      <4>4. ~Sent' /\ ~Sent
        BY <3>3, <4>1 DEF Sent
      <4> QED
        BY <1>2, <1>5, <1>7, <2>1, <3>1, <4>1, <4>3, <4>4, WireFacts
           DEF AnswerInv, OkMeansAcked, DoneOnce, LossIsHonest
    <3>4. CASE i + 1 = Len(plan) /\ pull # 1
      <4>1. Finish("ok") /\ i' = i + 1 /\ UNCHANGED <<nextIn, pullIn>>
        BY <2>1, <2>4, <3>4 DEF Written
      <4>2. active' = FALSE /\ pull' = 0 /\ answer' = "ok" /\ calls' = calls + 1
        BY <4>1 DEF Finish
      <4>3. FlagsOK'
        BY <1>1, <1>2, <1>4, <4>2, Zenon DEF TypeOK, FlagsOK
      <4>4. "ok" \in Results /\ "ok" # "unconfirmed" /\ "ok" # "link_lost"
        BY DEF Results
      <4>5. TypeOK'
        BY <1>1, <1>2, <1>3, <2>2, <4>1, <4>2, <4>3, <4>4, WireFacts DEF TypeOK
      <4>6. taken' = Len(plan')
        BY <1>2, <2>1, <3>1, <3>4
      <4> QED
        BY <1>2, <1>5, <1>7, <4>1, <4>3, <4>4, <4>5, <4>6, FinishInv
    <3> QED
      BY <3>2, <3>3, <3>4
  <2> QED
    BY <2>3, <2>4
<1> QED
  BY <1>6, <1>7

\* The link goes or comes, or the session's readiness changes.
LEMMA EnvironmentInv ==
    ASSUME AnswerInv, Environment
    PROVE  AnswerInv'
<1>1. TypeOK /\ UNCHANGED <<active, inflight, i, plan, pull, taken, reached, answer, calls>>
      /\ UNCHANGED <<deadlineIn, nextIn, pullIn, gap>>
  BY DEF AnswerInv, Environment, LinkDies, LinkLost, Relink, ReadyChanges, ctl
<1>2. ready' \in BOOLEAN /\ relinked' \in BOOLEAN /\ (ready => LinkUp)'
  <2>1. CASE LinkDies
    BY <1>1, <2>1 DEF LinkDies, LinkUp, TypeOK, FlagsOK
  <2>2. CASE LinkLost
    BY <1>1, <2>2 DEF LinkLost, TypeOK, FlagsOK
  <2>3. CASE Relink
    BY <1>1, <2>3 DEF Relink, LinkUp, TypeOK, FlagsOK
  <2>4. CASE ReadyChanges
    BY <1>1, <2>4 DEF ReadyChanges, LinkUp, TypeOK, FlagsOK
  <2> QED
    BY <2>1, <2>2, <2>3, <2>4 DEF Environment
<1>3. link' \in {"up", "dying", "lost", "down"} /\ (wire' = <<>> \/ (wire' = wire /\ link' = link))
  <2>1. CASE LinkDies \/ LinkLost
    BY <2>1 DEF LinkDies, LinkLost
  <2>2. CASE Relink
    <3>1. wire = <<>>
      BY <2>2 DEF AnswerInv, Relink
    <3> QED
      BY <2>2, <3>1 DEF Relink
  <2>3. CASE ReadyChanges
    BY <1>1, <2>3 DEF ReadyChanges, TypeOK
  <2> QED
    BY <2>1, <2>2, <2>3 DEF Environment
<1>4. FlagsOK'
  BY <1>1, <1>2, Zenon DEF TypeOK, FlagsOK
<1>5. TypeOK'
  BY <1>1, <1>3, <1>4, WireFacts DEF TypeOK
<1>6. Sent' = Sent /\ OkMeansAcked' /\ DoneOnce' /\ LossIsHonest'
  BY <1>1, <1>3 DEF AnswerInv, Sent, OkMeansAcked, DoneOnce, LossIsHonest
<1> QED
  BY <1>1, <1>2, <1>3, <1>5, <1>6, WireFacts DEF AnswerInv

\* A step that changes nothing.
LEMMA StutterInv ==
    ASSUME AnswerInv, UNCHANGED vars
    PROVE  AnswerInv'
<1>1. UNCHANGED <<active, inflight, i, plan, pull, wire, taken, reached, answer, calls>>
      /\ UNCHANGED <<deadlineIn, nextIn, pullIn, link, ready, gap, relinked>>
  BY DEF vars, ctl
<1>2. FlagsOK'
  BY <1>1, Zenon DEF AnswerInv, TypeOK, FlagsOK
<1>3. TypeOK'
  BY <1>1, <1>2 DEF AnswerInv, TypeOK
<1>4. (wire # <<>> => link' = "up") /\ (ready => LinkUp)'
  BY <1>1 DEF AnswerInv, LinkUp
<1> QED
  BY <1>1, <1>3, <1>4, KeepInv

\* Every step keeps the answers true.
LEMMA NextAnswer == ASSUME AnswerInv, [Next]_vars PROVE AnswerInv'
<1>1. CASE Submit
  BY <1>1, SubmitInv
<1>2. CASE Tick
  BY <1>2, TickNoLinkInv, TickWaitInv, TickExpiredInv, TickWriteInv, TickReplyInv DEF Tick
<1>3. CASE \E ok \in BOOLEAN : Written(ok)
  BY <1>3, WrittenInv
<1>4. CASE Environment
  BY <1>4, EnvironmentInv
<1>5. CASE UNCHANGED vars
  BY <1>5, StutterInv
<1> QED
  BY <1>1, <1>2, <1>3, <1>4, <1>5 DEF Next

-----------------------------------------------------------------------------
(* Frames in place.                                                        *)

\* The delay of the frame that is next.
LEMMA NextFrame == ASSUME TypeOK, i < Len(plan) PROVE plan[i + 1] \in {0, FollowDelay}
<1>1. i + 1 \in 1..Len(plan) /\ plan \in Seq({0, FollowDelay})
  BY DEF TypeOK, Delays
<1> QED
  BY <1>1

\* A tick: the command goes on with its wait, ends, or writes.
LEMMA TickPlace == ASSUME AnswerInv, PlaceInv, Tick PROVE PlaceInv'
<1>1. Clock /\ TypeOK
  BY DEF Tick, TickNoLink, TickIdle, TickExpired, TickWait, TickWrite, TickReply, AnswerInv
<1>2. active' => active /\ LinkUp
  BY DEF Tick, TickNoLink, TickIdle, TickExpired, TickWait, TickWrite, TickReply, Write, Finish,
         Running
<1>3. active' => ~relinked' /\ link' # "down"
  BY <1>1, <1>2 DEF PlaceInv, Clock, LinkUp
<1>4. ASSUME active', pull' # 2, i' > 0 PROVE Waited'
  <2>1. CASE pull = 2
    <3>1. i' = 0
      BY <1>2, <1>4, <2>1 DEF Tick, TickNoLink, TickIdle, TickExpired, TickWait, TickWrite, TickReply,
        Write, Finish
    <3> QED
      BY <1>4, <3>1
  <2>2. CASE pull # 2
    <3>1. i' = i /\ plan' = plan /\ nextIn' \in {nextIn, Down(nextIn)}
      BY <1>2, <1>4, <2>2 DEF Tick, TickNoLink, TickIdle, TickExpired, TickWait, TickWrite, TickReply,
        Write, Finish
    <3>2. Waited /\ i < Len(plan)
      BY <1>2, <1>4, <2>2, <3>1 DEF PlaceInv, AnswerInv
    <3>3. plan[i + 1] \in {0, FollowDelay} /\ gap \in Nat /\ nextIn \in Nat /\ FollowDelay \in Nat
      BY <1>1, <3>2, NextFrame, PlanFacts DEF TypeOK
    <3>4. gap' = IF gap < FollowDelay THEN gap + 1 ELSE gap
      BY <1>1 DEF Clock
    <3>5. PICK d \in {0, FollowDelay} : d = plan[i + 1]
      BY <3>3
    <3>6. gap >= d \/ gap + nextIn > d
      BY <3>2, <3>5 DEF Waited
    <3>7. \A g, n : g = (IF gap < FollowDelay THEN gap + 1 ELSE gap) /\ n \in {nextIn, Down(nextIn)}
                     => g >= d \/ g + n > d
      BY <3>3, <3>6 DEF Down
    <3> QED
      BY <3>1, <3>4, <3>5, <3>7 DEF Waited
  <2> QED
    BY <2>1, <2>2
<1> QED
  BY <1>3, <1>4 DEF PlaceInv

\* The ACK starts the wait for the next frame.
LEMMA WrittenPlace ==
    ASSUME AnswerInv, PlaceInv, NEW ok \in BOOLEAN, Written(ok) PROVE PlaceInv'
<1>1. TypeOK /\ UNCHANGED <<plan, link, relinked>> /\ (active' => active)
  BY DEF AnswerInv, Written, Finish
<1>2. active' => ~relinked' /\ link' # "down"
  BY <1>1 DEF PlaceInv
<1>3. ASSUME active', pull' # 2, i' > 0 PROVE Waited'
  <2>1. inflight /\ wire = <<"mine">> /\ Head(wire) = "mine" /\ Counts /\ i < Len(plan) /\ pull # 2
    BY <1>1, <1>3, WireFacts DEF AnswerInv, Written, Counts
  <2>2. i' = i + 1 /\ nextIn' = NextDelay /\ gap' = 0 /\ i + 1 # Len(plan)
    BY <1>1, <1>3, <2>1 DEF Written, Finish
  <2>3. i' < Len(plan) /\ i' \in Nat /\ i \in Nat
    BY <1>1, <2>1, <2>2 DEF TypeOK, Delays
  <2>4. plan'[i' + 1] = plan[i + 2] /\ plan[i + 2] \in {0, FollowDelay}
    <3>1. i + 2 \in 1..Len(plan) /\ plan \in Seq({0, FollowDelay}) /\ i' + 1 = i + 2
      BY <1>1, <2>2, <2>3 DEF TypeOK, Delays
    <3> QED
      BY <1>1, <3>1
  <2> QED
    BY <2>2, <2>4, PlanFacts DEF Waited, NextDelay
<1> QED
  BY <1>2, <1>3 DEF PlaceInv

\* Every step keeps the frames in place: a link is replaced only under a command
\* that no tick has seen without one.
LEMMA NextPlace == ASSUME AnswerInv, PlaceInv, [Next]_vars PROVE PlaceInv'
<1>1. CASE Submit
  BY <1>1 DEF Submit, PlaceInv, AnswerInv, LinkUp
<1>2. CASE Tick
  BY <1>2, TickPlace
<1>3. CASE \E ok \in BOOLEAN : Written(ok)
  BY <1>3, WrittenPlace
<1>4. CASE Environment
  <2>1. UNCHANGED ctl /\ gap' = gap
    BY <1>4 DEF Environment, LinkDies, LinkLost, Relink, ReadyChanges
  <2>2. CASE LinkDies \/ LinkLost \/ ReadyChanges
    <3>1. relinked' = relinked /\ (link' = link \/ link' \in {"dying", "lost"})
      BY <2>2 DEF LinkDies, LinkLost, ReadyChanges
    <3> QED
      BY <2>1, <3>1 DEF PlaceInv, Waited, ctl
  <2>3. CASE Relink
    <3>1. active => ~relinked /\ link # "down"
      BY DEF PlaceInv
    <3>2. link' = "up" /\ (relinked' <=> relinked \/ link = "down")
      BY <2>3 DEF Relink
    <3>3. active' = active /\ (active => ~relinked')
      BY <2>1, <3>1, <3>2, Zenon DEF ctl
    <3> QED
      BY <2>1, <3>2, <3>3 DEF PlaceInv, Waited, ctl
  <2> QED
    BY <1>4, <2>2, <2>3 DEF Environment
<1>5. CASE UNCHANGED vars
  BY <1>5 DEF PlaceInv, Waited, vars, ctl
<1> QED
  BY <1>1, <1>2, <1>3, <1>4, <1>5 DEF Next

\* The invariant holds in every reachable state: whatever plans, delays and deadlines,
\* and however fast a lost link returns (control_run.c).
THEOREM ControlSafe == Spec => []CtlInv
<1>1. Init => CtlInv
  BY InitInv DEF CtlInv, Init, PlaceInv
<1>2. CtlInv /\ [Next]_vars => CtlInv'
  BY NextAnswer, NextPlace DEF CtlInv
<1> QED
  BY <1>1, <1>2, PTL DEF Spec

\* control_run.c's O always has its type.
THEOREM ControlTypeCorrect == Spec => []TypeOK
<1>1. CtlInv => TypeOK
  BY DEF CtlInv, AnswerInv
<1> QED
  BY <1>1, ControlSafe, PTL

\* A command is reported as done only after the unit ACKed each of its frames.
THEOREM ControlOkMeansAcked == Spec => []OkMeansAcked
<1>1. CtlInv => OkMeansAcked
  BY DEF CtlInv, AnswerInv
<1> QED
  BY <1>1, ControlSafe, PTL

\* done() is called at most once per command and never while it runs.
THEOREM ControlDoneOnce == Spec => []DoneOnce
<1>1. CtlInv => DoneOnce
  BY DEF CtlInv, AnswerInv
<1> QED
  BY <1>1, ControlSafe, PTL

\* A command that lost its link is reported as unconfirmed exactly when it may have
\* reached the unit.
THEOREM ControlLossIsHonest == Spec => []LossIsHonest
<1>1. CtlInv => LossIsHonest
  BY DEF CtlInv, AnswerInv
<1> QED
  BY <1>1, ControlSafe, PTL

\* Only a tick of a running command adds a write of its own to the transport's queue.
LEMMA OnlyWrites ==
    ASSUME AnswerInv, [Next]_vars, wire' = Append(wire, "mine"), wire' # wire
    PROVE  Tick /\ active /\ (\/ pull # 2 /\ ~inflight /\ Down(nextIn) = 0 /\ Write(plan, i)
                           \/ \E p \in Plans : Write(p, 0))
<1>1. wire \in Writes /\ Len(wire') = Len(wire) + 1 /\ Len(wire) \in Nat
  BY DEF AnswerInv, TypeOK, Writes
<1>2. ~Submit /\ ~UNCHANGED vars
  BY DEF Submit, vars
<1>3. ~\E ok \in BOOLEAN : Written(ok)
  <2>1. ASSUME NEW ok \in BOOLEAN, Written(ok) PROVE FALSE
    <3>1. wire \in {<<"mine">>, <<"old">>} /\ wire' = <<>>
      BY <2>1, WireFacts DEF Written, AnswerInv
    <3> QED
      BY <1>1, <3>1
  <2> QED
    BY <2>1
<1>4. ~Environment
  <2>1. Environment => wire' \in {<<>>, wire}
    BY DEF Environment, LinkDies, LinkLost, Relink, ReadyChanges
  <2> QED
    BY <1>1, <2>1
<1>5. Tick
  BY <1>2, <1>3, <1>4 DEF Next
<1>6. ~TickExpired
  <2>1. TickExpired => wire' \in {<<>>, <<"old">>} /\ (wire' = <<>> <=> wire = <<>>)
    BY WireFacts DEF TickExpired, Aged
  <2>2. wire' # <<>>
    BY <1>1
  <2> QED
    BY <1>1, <2>1, <2>2
<1> QED
  BY <1>5, <1>6 DEF Tick, TickNoLink, TickIdle, TickWait, TickWrite, TickReply, Running

\* No frame goes out before its delay after the last ACK, nor on a link other than the one
\* its command was accepted on, once a tick saw that link down (tick, on_written's next_at).
THEOREM ControlFrameInPlace == Spec => FrameInPlace
<1> DEFINE InPlace == wire' = Append(wire, "mine") =>
                        /\ i' > 0 => gap >= plan'[i' + 1]
                        /\ ~relinked
<1>1. ASSUME CtlInv, [Next]_vars, wire' = Append(wire, "mine"), wire' # wire
      PROVE  (i' > 0 => gap >= plan'[i' + 1]) /\ ~relinked
  <2>1. AnswerInv /\ PlaceInv /\ TypeOK
    BY <1>1 DEF CtlInv, AnswerInv
  <2>2. Tick /\ active /\ (\/ pull # 2 /\ ~inflight /\ Down(nextIn) = 0 /\ Write(plan, i)
                         \/ \E p \in Plans : Write(p, 0))
    BY <1>1, <2>1, OnlyWrites
  <2>3. ~relinked
    BY <2>1, <2>2 DEF PlaceInv
  <2>4. ASSUME i' > 0 PROVE gap >= plan'[i' + 1]
    <3>1. ASSUME NEW p \in Plans, Write(p, 0) PROVE FALSE
      BY <2>4, <3>1 DEF Write
    <3>2. pull # 2 /\ Down(nextIn) = 0 /\ Write(plan, i)
      BY <2>2, <3>1
    <3>3. pull # 2 /\ Down(nextIn) = 0 /\ plan' = plan /\ i' = i
      BY <3>2 DEF Write
    <3>4. Waited /\ i < Len(plan)
      BY <2>1, <2>2, <2>4, <3>3 DEF PlaceInv, AnswerInv
    <3>5. plan[i + 1] \in {0, FollowDelay} /\ gap \in Nat /\ nextIn \in Nat /\ FollowDelay \in Nat
      BY <2>1, <3>4, NextFrame, PlanFacts DEF TypeOK
    <3> QED
      BY <3>3, <3>4, <3>5 DEF Waited, Down
  <2> QED
    BY <2>3, <2>4
<1>2. CtlInv /\ [Next]_vars => [InPlace]_vars
  <2> SUFFICES ASSUME CtlInv, [Next]_vars, wire' = Append(wire, "mine")
               PROVE  (i' > 0 => gap >= plan'[i' + 1]) /\ ~relinked
    OBVIOUS
  <2>1. wire' # wire
    BY WireFacts DEF CtlInv, AnswerInv
  <2> QED
    BY <1>1, <2>1
<1> QED
  BY <1>2, ControlSafe, PTL DEF Spec, FrameInPlace

-----------------------------------------------------------------------------
(* The sequencer implements ControlPort.                                   *)

\* Every step of the sequencer is a step of the port, or leaves it alone.
LEMMA PortStep ==
    ASSUME AnswerInv, [Next]_vars
    PROVE  [Port!Next]_(Port!portVars)
<1>1. TypeOK /\ Busy \in BOOLEAN /\ LinkUp \in BOOLEAN /\ SeenDown \in BOOLEAN
  BY DEF AnswerInv, TypeOK, FlagsOK, Busy, LinkUp, SeenDown
<1>2. CASE Submit
  <2>1. LinkUp /\ LinkUp' = LinkUp /\ ~Busy /\ Busy' = TRUE
    BY <1>2 DEF AnswerInv, Submit, LinkUp, Busy
  <2>2. SeenDown' = FALSE
    BY <1>2, <2>1 DEF Submit, LinkUp, SeenDown
  <2> QED
    BY <2>1, <2>2 DEF Port!Next, Port!Submit
<1>3. CASE Tick
  <2>1. Clock
    BY <1>3 DEF Tick, TickNoLink, TickIdle, TickExpired, TickWait, TickWrite, TickReply
  <2>2. LinkUp' = LinkUp
    BY <1>1, <2>1, ClockFacts
  <2>3. SeenDown' = (SeenDown \/ ~LinkUp)
    BY <1>1, <2>1 DEF Clock, SeenDown, LinkUp, TypeOK, FlagsOK
  <2>4. CASE TickNoLink
    <3>1. ~LinkUp /\ Busy' = FALSE
      BY <2>4 DEF TickNoLink, Finish, Busy
    <3> QED
      BY <2>2, <2>3, <3>1 DEF Port!Next, Port!Tick
  <2>5. CASE TickIdle
    <3>1. Busy' = Busy /\ LinkUp
      BY <2>5 DEF TickIdle, Busy
    <3>2. SeenDown' = SeenDown
      BY <1>1, <2>3, <3>1
    <3> QED
      BY <2>2, <3>1, <3>2 DEF Port!portVars
  <2>6. CASE TickExpired \/ TickWait \/ TickWrite \/ TickReply
    <3>1. LinkUp /\ Busy
      BY <2>6 DEF TickExpired, TickWait, TickWrite, TickReply, Running, Busy
    <3>2. Busy' \in BOOLEAN
      BY DEF Busy
    <3> QED
      BY <2>2, <2>3, <3>1, <3>2 DEF Port!Next, Port!Tick
  <2> QED
    BY <1>3, <2>4, <2>5, <2>6 DEF Tick
<1>4. CASE \E ok \in BOOLEAN : Written(ok)
  <2>1. PICK ok \in BOOLEAN : Written(ok)
    BY <1>4
  <2>2. LinkUp /\ LinkUp' = LinkUp /\ inflight /\ Busy /\ SeenDown' = SeenDown
    BY <2>1 DEF AnswerInv, Written, LinkUp, Busy, SeenDown
  <2>3. Busy' \in BOOLEAN
    BY DEF Busy
  <2>4. SeenDown' = (SeenDown \/ ~LinkUp)
    BY <1>1, <2>2
  <2> QED
    BY <2>2, <2>3, <2>4 DEF Port!Next, Port!Tick
<1>5. CASE Environment
  <2>1. Busy' = Busy /\ LinkUp' \in BOOLEAN
    BY <1>5 DEF Environment, LinkDies, LinkLost, Relink, ReadyChanges, ctl, Busy, LinkUp
  <2>2. SeenDown' = SeenDown
    BY <1>1, <1>5 DEF Environment, LinkDies, LinkLost, Relink, ReadyChanges, ctl, SeenDown, LinkUp,
       TypeOK, FlagsOK
  <2> QED
    BY <2>1, <2>2 DEF Port!Next, Port!Link
<1>6. CASE UNCHANGED vars
  BY <1>6 DEF vars, ctl, Port!portVars, Busy, LinkUp, SeenDown
<1> QED
  BY <1>2, <1>3, <1>4, <1>5, <1>6 DEF Next

\* The session may treat the sequencer as the port: busy with at most one command, only
\* taken on over a link, and nothing left of it after a tick without one.
THEOREM ControlImplementsPort == Spec => PortSpec
<1>1. Init => Port!Init
  BY DEF Init, Port!Init, Busy, LinkUp, SeenDown
<1>2. CtlInv /\ [Next]_vars => [Port!Next]_(Port!portVars)
  BY PortStep DEF CtlInv
<1> QED
  BY <1>1, <1>2, ControlSafe, PTL DEF Spec, PortSpec, Port!Spec

-----------------------------------------------------------------------------
(* The Raspberry Pi: its wakes and its halts.                               *)

\* The longest parking time that can be set is a time.
LEMMA LongParkIsTime ==
    ASSUME PiAssumption
    PROVE  LongPark \in Nat
BY DEF PiAssumption, LongPark

\* Two times that run on keep their order up to the cap, and stay times.
LEMMA LaterKeepsOrder ==
    ASSUME NEW m \in Nat, NEW n \in Nat, NEW cap \in Nat
    PROVE  /\ Later(m, cap) \in Nat
           /\ m <= n => Later(m, cap) <= Later(n, cap)
BY DEF Later

\* A timer counts down to zero and stays there.
LEMMA LessFalls ==
    ASSUME NEW n \in Nat
    PROVE  Less(n) \in Nat /\ Less(n) <= n /\ (n = 0 => Less(n) = 0)
BY DEF Less

\* What a halt by the timer rests on: the history has not run less than the parking
\* timer, a Pi that is not halted was woken or driven since, and the last known
\* ignition on means driving.
PiInv ==
    /\ reading \in {-1, 0, 1} /\ prevIgn \in {-1, 0, 1}
    /\ {energyLow, wakeSet, guardSet, driving, halted, batt, rearmed} \subseteq BOOLEAN
    /\ {wakeLeft, haltLeft, parked, still} \subseteq Nat
    /\ parkTime \in ParkTimes
    /\ wakeLeft = 0 \/ haltLeft = 0
    /\ ~driving => parked <= still
    /\ ~halted => rearmed
    /\ prevIgn = 1 => driving

\* A tick keeps it.
LEMMA TickKeeps ==
    ASSUME PiAssumption, PiInv, PiTick
    PROVE  PiInv'
<1>1. /\ reading' \in {-1, 0, 1} /\ prevIgn' \in {-1, 0, 1} /\ parkTime' \in ParkTimes
  BY DEF PiInv, PiTick, Prev, settings
<1>2. {energyLow, wakeSet, guardSet, driving, halted, batt, rearmed}' \subseteq BOOLEAN
  <2>1. {energyLow, wakeSet, guardSet, driving, halted, batt, rearmed} \subseteq BOOLEAN
    BY DEF PiInv
  <2>2. {energyLow, wakeSet, guardSet, batt}' \subseteq BOOLEAN
    BY <2>1 DEF PiTick, settings
  <2>3. driving' \in BOOLEAN /\ halted' \in BOOLEAN /\ rearmed' \in BOOLEAN
    BY <2>1 DEF PiTick, Drives, HaltedNow, AutoHalt
  <2> QED
    BY <2>2, <2>3
<1>3. WakeNow \in Nat /\ HaltNow \in Nat /\ (WakeNow = 0 \/ HaltNow = 0)
  BY LessFalls DEF PiInv, WakeNow, HaltNow
<1>4. WakePulse \in Nat /\ HaltPulse \in Nat
  BY DEF PiAssumption
<1>5. ParkedNow \in Nat /\ still' \in Nat
  BY LongParkIsTime, LaterKeepsOrder DEF PiInv, PiTick, ParkedNow
<1>6. {wakeLeft, haltLeft, parked, still}' \subseteq Nat
  BY <1>3, <1>4, <1>5 DEF PiTick
<1>7. wakeLeft' = 0 \/ haltLeft' = 0
  BY <1>3 DEF PiTick, AutoHalt, AutoWake
<1>8. ~driving' => parked' <= still'
  <2>1. SUFFICES ASSUME ~driving' PROVE parked' <= still'
    OBVIOUS
  <2>2. reading # 1 /\ (ParkBegins \/ ~driving)
    BY <2>1 DEF PiTick, Drives, ParkBegins
  <2>3. CASE ParkBegins \/ AutoWake
    BY <2>3 DEF PiTick, ParkedNow
  <2>4. CASE ~(ParkBegins \/ AutoWake)
    <3>1. parked' = Later(parked, LongPark) /\ still' = Later(still, LongPark)
      BY <2>2, <2>4 DEF PiTick, ParkedNow
    <3>2. parked \in Nat /\ still \in Nat /\ parked <= still
      BY <2>2, <2>4 DEF PiInv
    <3> QED
      BY <3>1, <3>2, LongParkIsTime, LaterKeepsOrder
  <2> QED
    BY <2>3, <2>4
<1>9. ~halted' => rearmed'
  BY DEF PiInv, PiTick, HaltedNow
<1>10. prevIgn' = 1 => driving'
  BY DEF PiInv, PiTick, Prev, Drives
<1> QED
  BY <1>1, <1>2, <1>6, <1>7, <1>8, <1>9, <1>10 DEF PiInv

\* So does everything between two ticks.
LEMMA PiStep ==
    ASSUME PiAssumption, PiInv, [PiNext]_piVars
    PROVE  PiInv'
<1>1. CASE PiTick
  BY <1>1, TickKeeps
<1>2. CASE ByHand
  <2>1. WakePulse \in Nat /\ HaltPulse \in Nat /\ HoldMax \in Nat
    BY DEF PiAssumption
  <2>2. ASSUME NEW t \in Nat, ManualWake(t) PROVE PiInv'
    <3>1. driving' \in BOOLEAN /\ {energyLow, wakeSet, guardSet, batt}' \subseteq BOOLEAN
      BY <2>2 DEF PiInv, ManualWake, settings
    <3>2. halted' = FALSE /\ rearmed' = TRUE
      BY <2>2 DEF ManualWake
    <3>3. {energyLow, wakeSet, guardSet, driving, halted, batt, rearmed}' \subseteq BOOLEAN
      BY <3>1, <3>2
    <3>4. {wakeLeft, haltLeft, parked, still}' \subseteq Nat
      BY <2>2 DEF PiInv, ManualWake
    <3>5. wakeLeft' = 0 \/ haltLeft' = 0
      BY <2>2 DEF ManualWake
    <3>6. parked' <= still'
      BY <2>2 DEF ManualWake
    <3>7. /\ reading' \in {-1, 0, 1} /\ prevIgn' \in {-1, 0, 1} /\ parkTime' \in ParkTimes
          /\ prevIgn' = 1 => driving'
      BY <2>2 DEF PiInv, ManualWake, settings
    <3> QED
      BY <3>2, <3>3, <3>4, <3>5, <3>6, <3>7 DEF PiInv
  <2>3. ASSUME NEW t \in Nat, ManualHalt(t) PROVE PiInv'
    BY <2>3 DEF PiInv, ManualHalt, settings
  <2> QED
    BY <1>2, <2>1, <2>2, <2>3 DEF ByHand
<1>3. CASE Set
  BY <1>3 DEF PiInv, Set
<1>4. CASE Ignition
  BY <1>4 DEF PiInv, Ignition, settings
<1>5. CASE Energy
  BY <1>5 DEF PiInv, Energy, settings
<1>6. CASE Reboot
  <2>1. {driving, halted, batt, rearmed, energyLow}' \subseteq BOOLEAN
    BY <1>6 DEF Reboot
  <2>2. {energyLow, wakeSet, guardSet, driving, halted, batt, rearmed}' \subseteq BOOLEAN
    BY <1>6, <2>1 DEF PiInv, Reboot, settings
  <2>3. reading' \in {-1, 0, 1} /\ prevIgn' \in {-1, 0, 1} /\ parkTime' \in ParkTimes
    BY <1>6 DEF PiInv, Reboot, settings
  <2>4. /\ {wakeLeft, haltLeft, parked, still}' \subseteq Nat
        /\ wakeLeft' = 0 /\ parked' <= still' /\ prevIgn' # 1
    BY <1>6 DEF Reboot
  <2>5. rearmed'
    BY <1>6 DEF Reboot
  <2> QED
    BY <2>2, <2>3, <2>4, <2>5 DEF PiInv
<1>7. CASE UNCHANGED piVars
  BY <1>7 DEF PiInv, piVars, settings
<1> QED
  BY <1>1, <1>2, <1>3, <1>4, <1>5, <1>6, <1>7 DEF PiNext

\* A halt the timer starts is earned.
LEMMA TimerEarns ==
    ASSUME PiAssumption, PiInv, PiInv', PiTick, AutoHalt
    PROVE  /\ \/ parkTime > 0 /\ still' >= parkTime
              \/ energyLow /\ guardSet /\ still' >= GuardTime
           /\ rearmed
           /\ prevIgn' # 1
<1>1. GuardTime \in Nat /\ parkTime \in Nat /\ parked' \in Nat /\ still' \in Nat
  BY DEF PiAssumption, PiInv
<1>2. ~driving' /\ parked' <= still' /\ prevIgn' # 1
  BY DEF PiInv, PiTick, AutoHalt
<1>3. Limit(energyLow) # 0 /\ parked' >= Limit(energyLow)
  BY DEF PiTick, AutoHalt
<1>4. \/ Limit(energyLow) = parkTime
      \/ Limit(energyLow) = GuardTime /\ energyLow /\ guardSet
  BY DEF Limit
<1>5. \/ parkTime > 0 /\ still' >= parkTime
      \/ energyLow /\ guardSet /\ still' >= GuardTime
  BY <1>1, <1>2, <1>3, <1>4
<1>6. reading # 1 /\ ~AutoWake /\ ~halted
  BY DEF AutoHalt, HaltedNow, Drives
<1> QED
  BY <1>2, <1>5, <1>6 DEF PiInv

\* The timer halts a Pi only once it was left alone for the parking time, or for the
\* guard's, in force at that tick; once per park; never with the ignition last known
\* on; and the two lines are never low together (cali_pw_tick, cali_pw_pulse,
\* cali_ph_pulse).  For every length of the pulses and every parking time.
THEOREM PiHaltIsEarned == ASSUME PiAssumption
                          PROVE  PiSpec => HaltIsEarned
<1> DEFINE Earned ==
      /\ (haltLeft' > haltLeft /\ ~ByHand) =>
            /\ \/ parkTime > 0 /\ still' >= parkTime
               \/ energyLow /\ guardSet /\ still' >= GuardTime
            /\ rearmed
            /\ prevIgn' # 1
      /\ wakeLeft' = 0 \/ haltLeft' = 0
<1>1. PiInit => PiInv
  <2>1. PiAssumption => LongPark \in ParkTimes
    BY DEF PiAssumption, LongPark
  <2>2. SUFFICES ASSUME PiInit PROVE PiInv
    OBVIOUS
  <2>3. {energyLow, wakeSet, guardSet, driving, halted, batt, rearmed} \subseteq BOOLEAN
    BY <2>2 DEF PiInit
  <2>4. /\ reading \in {-1, 0, 1} /\ prevIgn \in {-1, 0, 1} /\ prevIgn # 1
        /\ {wakeLeft, haltLeft, parked, still} \subseteq Nat
        /\ wakeLeft = 0 /\ parked <= still
    BY <2>2 DEF PiInit
  <2>5. parkTime \in ParkTimes /\ rearmed
    BY <2>1, <2>2 DEF PiInit
  <2> QED
    BY <2>3, <2>4, <2>5 DEF PiInv
<1>2. PiInv /\ [PiNext]_piVars => PiInv'
  BY PiStep
<1>3. PiInv /\ PiInv' /\ [PiNext]_piVars => [Earned]_piVars
  <2>1. SUFFICES ASSUME PiInv, PiInv', [PiNext]_piVars PROVE Earned \/ UNCHANGED piVars
    OBVIOUS
  <2>2. wakeLeft' = 0 \/ haltLeft' = 0
    BY <2>1 DEF PiInv
  <2>3. haltLeft \in Nat
    BY <2>1 DEF PiInv
  <2>4. CASE PiTick
    <3>1. CASE AutoHalt
      BY <2>1, <2>2, <2>4, <3>1, TimerEarns
    <3>2. CASE ~AutoHalt
      <4>1. haltLeft' <= haltLeft
        BY <2>3, <2>4, <3>2, LessFalls DEF PiTick, HaltNow
      <4>2. haltLeft' \in Nat
        BY <2>1 DEF PiInv
      <4>3. ~(haltLeft' > haltLeft)
        BY <2>3, <4>1, <4>2
      <4> QED
        BY <2>2, <4>3
    <3> QED
      BY <3>1, <3>2
  <2>5. CASE ByHand
    BY <2>2, <2>5
  <2>6. CASE Set \/ Ignition \/ Energy \/ Reboot
    <3>1. haltLeft' = haltLeft \/ haltLeft' = 0
      BY <2>6 DEF Set, Ignition, Energy, Reboot, settings
    <3>2. ~(haltLeft' > haltLeft)
      BY <2>3, <3>1
    <3> QED
      BY <2>2, <3>2
  <2> QED
    BY <2>1, <2>4, <2>5, <2>6 DEF PiNext
<1> QED
  BY <1>1, <1>2, <1>3, PTL DEF PiSpec, HaltIsEarned

-----------------------------------------------------------------------------
(* The bond store: two facts about sets of naturals first.                  *)

\* Every set of naturals that is not empty has a least element.
LEMMA LeastNatural ==
    ASSUME NEW T, T \subseteq Nat, T # {}
    PROVE  \E m \in T : \A n \in T : m <= n
<1> DEFINE R == {ss \in Nat \X Nat : ss[1] < ss[2]}
<1>1. IsWellFoundedOn(R, Nat)
  BY NatLessThanWellFounded DEF OpToRel
<1>2. PICK m \in T : \A n \in T : <<n, m>> \notin R
  <2> HIDE DEF R
  <2> QED
    BY <1>1, WFMin
<1>3. \A n \in T : ~(n < m)
  BY <1>2
<1> QED
  BY <1>2, <1>3

\* A set that holds 0 and every successor of its elements holds all naturals.
LEMMA SetInduction ==
    ASSUME NEW S, 0 \in S, \A n \in S \cap Nat : n + 1 \in S
    PROVE  Nat \subseteq S
<1> SUFFICES ASSUME Nat \ S # {} PROVE FALSE
  OBVIOUS
<1>1. PICK m \in Nat \ S : \A n \in Nat \ S : m <= n
  <2> Nat \ S \subseteq Nat
    OBVIOUS
  <2> QED
    BY LeastNatural
<1>2. m # 0 /\ m - 1 \in Nat
  BY <1>1
<1>3. m - 1 \in S \cap Nat
  BY <1>1, <1>2
<1>4. (m - 1) + 1 \in S
  BY <1>3
<1>5. (m - 1) + 1 = m
  BY <1>2
<1> QED
  BY <1>1, <1>4, <1>5

-----------------------------------------------------------------------------
(* What a boot makes of the slots.                                          *)

Entries == Records \cup {Free, Corrupt}
Distinct(t) == \A m, n \in DOMAIN t : t[m].key = t[n].key => m = n
HoldsKey(s, n, k) == s[n].kind = "record" /\ s[n].key = k

\* What the slots and the tables hold.
LEMMA EntryOf ==
    /\ \A r \in Records : r.kind = "record" /\ r.key \in Keys /\ r.payload \in Payloads
    /\ \A r \in Entries : r.kind = "record" <=> r \in Records
    /\ \A r \in Entries : r.kind = "free" <=> r = Free
    /\ Free \in Entries /\ Corrupt \in Entries
BY DEF Entries, Records, Record, Free, Corrupt

\* A slot whose record no slot before it has the key of.
First(s, n) == s[n].kind = "record" /\ \A j \in 1..(n - 1) : ~HoldsKey(s, j, s[n].key)

\* t is what table_load() has after the slots up to n of s.
LoadOf(s, n, t) ==
    /\ t \in Seq(Records) /\ Len(t) <= n /\ Distinct(t)
    /\ \A m \in 1..Len(t) : \E j \in 1..n : m <= j /\ First(s, j) /\ s[j] = t[m]
    /\ \A j \in 1..n : First(s, j) => s[j] \in Range(t)
    /\ \A j \in 1..n : s[j].kind = "record" => s[j].key \in KeysOf(t)

Compacts(s, n, t) == IF Taken(t, s[n]) THEN Append(t, s[n]) ELSE t

\* One slot more.
LEMMA LoadOne ==
    ASSUME NEW s \in [Slots -> Entries], NEW n \in Nat, n + 1 \in Slots,
           NEW t, LoadOf(s, n, t)
    PROVE  LoadOf(s, n + 1, Compacts(s, n + 1, t))
<1> DEFINE r == s[n + 1]
<1> DEFINE u == Compacts(s, n + 1, t)
<1>1. r \in Entries /\ (r.kind = "record" <=> r \in Records)
  BY EntryOf
<1>2. /\ t \in Seq(Records) /\ Len(t) <= n /\ Distinct(t) /\ Len(t) \in Nat
      /\ DOMAIN t = 1..Len(t)
      /\ \A m \in 1..Len(t) : \E j \in 1..n : m <= j /\ First(s, j) /\ s[j] = t[m]
      /\ \A j \in 1..n : First(s, j) => s[j] \in Range(t)
      /\ \A j \in 1..n : s[j].kind = "record" => s[j].key \in KeysOf(t)
  BY DEF LoadOf
<1>3. CASE Taken(t, r)
  <2>1. r \in Records /\ r.kind = "record" /\ r.key \notin KeysOf(t) /\ u = Append(t, r)
    BY <1>1, <1>3 DEF Taken, Compacts
  <2> HIDE DEF r, u
  <2>2. /\ u \in Seq(Records) /\ Len(u) = Len(t) + 1 /\ DOMAIN u = 1..(Len(t) + 1)
        /\ \A m \in 1..Len(t) : u[m] = t[m]
        /\ u[Len(t) + 1] = r
    BY <1>2, <2>1
  <2>3. \A m \in 1..Len(t) : t[m].key \in KeysOf(t)
    BY <1>2 DEF KeysOf
  <2>4. Distinct(u)
    <3> SUFFICES ASSUME NEW m \in DOMAIN u, NEW j \in DOMAIN u, u[m].key = u[j].key PROVE m = j
      BY DEF Distinct
    <3> QED
      BY <1>2, <2>1, <2>2, <2>3 DEF Distinct
  <2>5. First(s, n + 1)
    <3>1. \A j \in 1..n : ~HoldsKey(s, j, r.key)
      BY <1>2, <2>1 DEF HoldsKey
    <3> QED
      BY <2>1, <3>1 DEF First, r
  <2>6. ASSUME NEW m \in 1..Len(u)
        PROVE  \E j \in 1..(n + 1) : m <= j /\ First(s, j) /\ s[j] = u[m]
    <3>1. CASE m \in 1..Len(t)
      <4>1. PICK j \in 1..n : m <= j /\ First(s, j) /\ s[j] = t[m]
        BY <1>2, <3>1
      <4> QED
        BY <2>2, <3>1, <4>1
    <3>2. CASE m = Len(t) + 1
      BY <1>2, <2>2, <2>5, <3>2 DEF r
    <3> QED
      BY <1>2, <2>2, <3>1, <3>2
  <2>7. \A x \in Range(t) : x \in Range(u)
    BY <1>2, <2>2 DEF Range
  <2>8. r \in Range(u) /\ r.key \in KeysOf(u)
    <3>1. Len(t) + 1 \in DOMAIN u /\ u[Len(t) + 1] = r
      BY <1>2, <2>2
    <3> QED
      BY <3>1, Zenon DEF Range, KeysOf
  <2>9. \A k \in KeysOf(t) : k \in KeysOf(u)
    <3> SUFFICES ASSUME NEW m \in DOMAIN t PROVE t[m].key \in KeysOf(u)
      BY DEF KeysOf
    <3>1. m \in DOMAIN u /\ u[m] = t[m]
      BY <1>2, <2>2
    <3> QED
      BY <3>1 DEF KeysOf
  <2>10. \A j \in 1..(n + 1) : j \in 1..n \/ j = n + 1
    OBVIOUS
  <2>11. \A j \in 1..(n + 1) : First(s, j) => s[j] \in Range(u)
    BY <1>2, <2>7, <2>8, <2>10 DEF r
  <2>12. \A j \in 1..(n + 1) : s[j].kind = "record" => s[j].key \in KeysOf(u)
    BY <1>2, <2>8, <2>9, <2>10 DEF r
  <2>13. Len(u) <= n + 1
    BY <1>2, <2>2
  <2>14. LoadOf(s, n + 1, u)
    BY <2>2, <2>4, <2>6, <2>11, <2>12, <2>13 DEF LoadOf
  <2> QED
    BY <2>14 DEF u
<1>4. CASE ~Taken(t, r)
  <2>1. u = t
    BY <1>4 DEF Compacts
  <2>2. r.kind = "record" => r.key \in KeysOf(t)
    BY <1>4 DEF Taken
  <2>3. \A j \in 1..(n + 1) : j \in 1..n \/ j = n + 1
    OBVIOUS
  <2>4. ~First(s, n + 1)
    <3> SUFFICES ASSUME First(s, n + 1) PROVE FALSE
      OBVIOUS
    <3>1. r.kind = "record" /\ \A j \in 1..n : ~HoldsKey(s, j, r.key)
      BY DEF First
    <3>2. PICK m \in 1..Len(t) : t[m].key = r.key
      BY <1>2, <2>2, <3>1 DEF KeysOf
    <3>3. PICK j \in 1..n : First(s, j) /\ s[j] = t[m]
      BY <1>2
    <3>4. HoldsKey(s, j, r.key)
      BY <3>2, <3>3 DEF First, HoldsKey
    <3> QED
      BY <3>1, <3>4
  <2>5. \A j \in 1..(n + 1) : First(s, j) => s[j] \in Range(t)
    BY <1>2, <2>3, <2>4
  <2>6. \A j \in 1..(n + 1) : s[j].kind = "record" => s[j].key \in KeysOf(t)
    BY <1>2, <2>2, <2>3
  <2>7. \A m \in 1..Len(t) : \E j \in 1..(n + 1) : m <= j /\ First(s, j) /\ s[j] = t[m]
    <3> SUFFICES ASSUME NEW m \in 1..Len(t)
                 PROVE  \E j \in 1..(n + 1) : m <= j /\ First(s, j) /\ s[j] = t[m]
      OBVIOUS
    <3>1. PICK j \in 1..n : m <= j /\ First(s, j) /\ s[j] = t[m]
      BY <1>2
    <3> QED
      BY <3>1
  <2>8. Len(t) <= n + 1
    BY <1>2
  <2>9. LoadOf(s, n + 1, t)
    BY <1>2, <2>5, <2>6, <2>7, <2>8 DEF LoadOf
  <2> QED
    BY <2>1, <2>9
<1> QED
  BY <1>3, <1>4

\* What table_load() has after each of the first x slots, as a function.
Loads(s, x) == \E f : f = [n \in 0..x |-> IF n = 0 THEN <<>> ELSE Compacts(s, n, f[n - 1])]

\* It exists.
LEMMA LoadExists ==
    ASSUME NEW s, NEW x \in Nat
    PROVE  Loads(s, x)
<1> DEFINE S == {y \in Nat : Loads(s, y)}
<1>1. 0 \in S
  <2> DEFINE f == [n \in 0..0 |-> <<>>]
  <2>1. f = [n \in 0..0 |-> IF n = 0 THEN <<>> ELSE Compacts(s, n, f[n - 1])]
    OBVIOUS
  <2> QED
    BY <2>1 DEF Loads
<1>2. ASSUME NEW y \in S PROVE y + 1 \in S
  <2>1. PICK f : f = [n \in 0..y |-> IF n = 0 THEN <<>> ELSE Compacts(s, n, f[n - 1])]
    BY DEF Loads
  <2> DEFINE h == [n \in 0..(y + 1) |-> IF n = y + 1 THEN Compacts(s, n, f[y]) ELSE f[n]]
  <2> DEFINE hh == [n \in 0..(y + 1) |-> IF n = 0 THEN <<>> ELSE Compacts(s, n, h[n - 1])]
  <2>2. y \in Nat
    OBVIOUS
  <2>3. \A n \in 0..(y + 1) : h[n] = hh[n]
    <3> SUFFICES ASSUME NEW n \in 0..(y + 1) PROVE h[n] = IF n = 0 THEN <<>> ELSE Compacts(s, n, h[n - 1])
      OBVIOUS
    <3>1. CASE n = y + 1
      <4>1. y \in 0..(y + 1) /\ y # y + 1 /\ n - 1 = y /\ n # 0
        BY <2>2, <3>1
      <4>2. h[n - 1] = f[y]
        BY <4>1
      <4>3. h[n] = Compacts(s, n, f[y])
        BY <3>1
      <4> QED
        BY <4>1, <4>2, <4>3
    <3>2. CASE n \in 0..y
      <4>1. n # y + 1 /\ (n # 0 => n - 1 \in 0..(y + 1) /\ n - 1 # y + 1)
        BY <2>2, <3>2
      <4>2. h[n] = f[n] /\ (n # 0 => h[n - 1] = f[n - 1])
        BY <4>1
      <4>3. f[n] = IF n = 0 THEN <<>> ELSE Compacts(s, n, f[n - 1])
        BY <2>1, <3>2
      <4> QED
        BY <4>2, <4>3
    <3> QED
      BY <2>2, <3>1, <3>2
  <2>4. h = hh
    <3>1. h = [n \in 0..(y + 1) |-> h[n]] /\ hh = [n \in 0..(y + 1) |-> hh[n]]
      OBVIOUS
    <3> HIDE DEF h, hh
    <3> QED
      BY <2>3, <3>1
  <2>5. h = [n \in 0..(y + 1) |-> IF n = 0 THEN <<>> ELSE Compacts(s, n, h[n - 1])]
    BY <2>4
  <2> HIDE DEF h, hh
  <2>6. Loads(s, y + 1)
    BY <2>5, Zenon DEF Loads
  <2> QED
    BY <2>2, <2>6
<1>3. Nat \subseteq S
  <2> HIDE DEF S
  <2> QED
    BY <1>1, <1>2, SetInduction
<1> QED
  BY <1>3

\* A boot finds each record that is the first of its key, and nothing else, none
\* further back than it was.
LEMMA LoadFinds ==
    ASSUME MaxRecords \in Nat, NEW s \in [Slots -> Entries]
    PROVE  LoadOf(s, MaxRecords, TableLoad(s))
<1> DEFINE rec == CHOOSE f : f = [n \in 0..MaxRecords |-> IF n = 0 THEN <<>> ELSE Compacts(s, n, f[n - 1])]
<1>1. TableLoad(s) = rec[MaxRecords]
  BY DEF TableLoad, Compacts
<1>2. rec = [n \in 0..MaxRecords |-> IF n = 0 THEN <<>> ELSE Compacts(s, n, rec[n - 1])]
  BY LoadExists DEF Loads
<1> HIDE DEF rec
<1> DEFINE S == {n \in Nat : n <= MaxRecords => LoadOf(s, n, rec[n])}
<1>3. 0 \in S
  <2>1. rec[0] = <<>>
    BY <1>2
  <2>2. LoadOf(s, 0, <<>>)
    BY DEF LoadOf, Distinct
  <2> QED
    BY <2>1, <2>2
<1>4. ASSUME NEW n \in S PROVE n + 1 \in S
  <2> SUFFICES ASSUME n + 1 <= MaxRecords PROVE LoadOf(s, n + 1, rec[n + 1])
    OBVIOUS
  <2>1. n \in Nat /\ n + 1 \in Slots /\ LoadOf(s, n, rec[n]) /\ n + 1 \in 0..MaxRecords /\ n + 1 # 0 /\ (n + 1) - 1 = n
    BY DEF Slots
  <2>2. rec[n + 1] = Compacts(s, n + 1, rec[n])
    BY <1>2, <2>1
  <2> QED
    BY <2>1, <2>2, LoadOne
<1>5. Nat \subseteq S
  <2> HIDE DEF S
  <2> QED
    BY <1>3, <1>4, SetInduction
<1> QED
  BY <1>1, <1>5

-----------------------------------------------------------------------------
(* The invariant of a rewrite.                                              *)

BondTypes ==
    /\ table \in Seq(Records) /\ Len(table) <= MaxRecords
    /\ slots \in [Slots -> Entries]
    /\ usedSlots \subseteq Slots
    /\ at \in 0..MaxRecords
    /\ failed \in BOOLEAN /\ sound \in BOOLEAN
    /\ before \in Seq(Records)
    /\ deleting \subseteq Keys /\ gone \subseteq Keys

SlotsKnown == NotFree(slots) \subseteq usedSlots

\* What slot n gets.
Wanted(n) == IF n <= Len(table) THEN table[n] ELSE Free

WrittenSoFar == ~failed => \A n \in Slots : n < at => slots[n] = Wanted(n)

FoundYet ==
    (sound /\ ~failed) =>
        /\ \A m \in 1..Len(table) :
              (at <= m /\ table[m] \in Range(before)) =>
                  \E j \in Slots : /\ m <= j /\ slots[j] = table[m]
                                   /\ \A n \in Slots : (at <= n /\ n < j) => ~HoldsKey(slots, n, table[m].key)
        /\ \A n \in Slots : (at <= n /\ slots[n].kind = "record") => slots[n].key \in KeysOf(before)

Resting == at = Idle => before = table /\ deleting = {} /\ (sound => ~failed)

GoneAway ==
    /\ (gone \cup deleting) \cap KeysOf(table) = {}
    /\ \A n \in Slots : slots[n].kind = "record" => slots[n].key \notin gone

StoreInv ==
    BondTypes /\ Distinct(table) /\ SlotsKnown /\ WrittenSoFar /\ FoundYet /\ Resting /\ GoneAway

\* The bond store starts sound.
LEMMA BondInitInv == BondInit => StoreInv
<1> SUFFICES ASSUME BondInit PROVE StoreInv
  OBVIOUS
<1>1. BondTypes
  <2>1. table \in Seq(Records) /\ Len(table) = 0 /\ before \in Seq(Records)
    BY DEF BondInit
  <2>2. slots \in [Slots -> Entries]
    BY EntryOf DEF BondInit
  <2>3. at \in 0..MaxRecords /\ 0 <= MaxRecords
    BY BondAssumption DEF BondInit, Idle
  <2>4. /\ usedSlots \subseteq Slots /\ failed \in BOOLEAN /\ sound \in BOOLEAN
        /\ deleting \subseteq Keys /\ gone \subseteq Keys
    BY DEF BondInit
  <2> QED
    BY <2>1, <2>2, <2>3, <2>4 DEF BondTypes
<1>2. \A n \in Slots : slots[n].kind = "free" /\ slots[n].kind # "record"
  BY EntryOf DEF BondInit, Free
<1>3. Distinct(table) /\ SlotsKnown
  BY <1>2 DEF BondInit, Distinct, SlotsKnown, NotFree
<1>4. WrittenSoFar
  BY DEF BondInit, WrittenSoFar, Idle, Slots
<1>5. FoundYet
  BY <1>2 DEF BondInit, FoundYet
<1>6. Resting /\ GoneAway
  BY <1>2 DEF BondInit, Resting, GoneAway
<1> QED
  BY <1>1, <1>3, <1>4, <1>5, <1>6 DEF StoreInv

\* A call that leaves every record it keeps where it was or further up begins a rewrite.
LEMMA RewriteBegins ==
    ASSUME StoreInv, at = Idle, NEW t \in Seq(Records), NEW del \in SUBSET Keys, Persisting(t, del),
           Len(t) <= MaxRecords, Distinct(t),
           gone' \subseteq gone, (gone' \cup del) \cap KeysOf(t) = {},
           \A m \in 1..Len(t) : t[m] \in Range(table) =>
               \E j \in 1..Len(table) : m <= j /\ table[j] = t[m]
    PROVE  StoreInv'
<1>1. /\ table' = t /\ before' = table /\ deleting' = del /\ at' = 1 /\ failed' = FALSE
      /\ slots' = slots /\ usedSlots' = usedSlots /\ sound' = sound
  BY DEF Persisting
<1>2. BondTypes /\ SlotsKnown /\ FoundYet /\ Resting /\ GoneAway
  BY DEF StoreInv
<1>3. BondTypes'
  <2>1. table' \in Seq(Records) /\ Len(table') <= MaxRecords /\ before' \in Seq(Records)
    BY <1>1, <1>2 DEF BondTypes
  <2>2. slots' \in [Slots -> Entries] /\ usedSlots' \subseteq Slots
    BY <1>1, <1>2 DEF BondTypes
  <2>3. at' \in 0..MaxRecords
    BY <1>1, BondAssumption
  <2>4. failed' \in BOOLEAN /\ sound' \in BOOLEAN /\ deleting' \subseteq Keys /\ gone' \subseteq Keys
    BY <1>1, <1>2 DEF BondTypes
  <2> QED
    BY <2>1, <2>2, <2>3, <2>4 DEF BondTypes, Slots, Entries, Records, Record, Free, Corrupt
<1>4. Distinct(table)' /\ SlotsKnown'
  <2>1. Distinct(table')
    BY <1>1
  <2>2. NotFree(slots') \subseteq usedSlots'
    BY <1>1, <1>2 DEF SlotsKnown
  <2> QED
    BY <2>1, <2>2 DEF SlotsKnown, Distinct, NotFree, Slots
<1>5. WrittenSoFar'
  BY <1>1 DEF WrittenSoFar, Slots
<1>6. FoundYet'
  <2> SUFFICES ASSUME sound
               PROVE  /\ \A m \in 1..Len(t) :
                            t[m] \in Range(table) =>
                               \E j \in Slots : /\ m <= j /\ slots[j] = t[m]
                                                /\ \A n \in Slots : (1 <= n /\ n < j) => ~HoldsKey(slots, n, t[m].key)
                      /\ \A n \in Slots : slots[n].kind = "record" => slots[n].key \in KeysOf(table)
    BY <1>1 DEF FoundYet, Slots, HoldsKey, Range, KeysOf
  <2>1. ~failed /\ before = table /\ at = 0
    BY <1>2 DEF Resting, Idle
  <2>2. /\ \A m \in 1..Len(table) :
              table[m] \in Range(table) =>
                  \E j \in Slots : /\ m <= j /\ slots[j] = table[m]
                                   /\ \A n \in Slots : (0 <= n /\ n < j) => ~HoldsKey(slots, n, table[m].key)
        /\ \A n \in Slots : (0 <= n /\ slots[n].kind = "record") => slots[n].key \in KeysOf(table)
    BY <1>2, <2>1 DEF FoundYet
  <2>3. \A n \in Slots : 0 <= n
    BY DEF Slots
  <2>4. ASSUME NEW m \in 1..Len(t), t[m] \in Range(table)
        PROVE  \E j \in Slots : /\ m <= j /\ slots[j] = t[m]
                                /\ \A n \in Slots : (1 <= n /\ n < j) => ~HoldsKey(slots, n, t[m].key)
    <3>1. PICK x \in 1..Len(table) : m <= x /\ table[x] = t[m]
      BY <2>4
    <3>2. PICK j \in Slots : /\ x <= j /\ slots[j] = table[x]
                             /\ \A n \in Slots : (0 <= n /\ n < j) => ~HoldsKey(slots, n, table[x].key)
      BY <2>2, <2>4, <3>1
    <3>3. m <= j
      BY <3>1, <3>2 DEF Slots
    <3> QED
      BY <2>3, <3>1, <3>2, <3>3
  <2> QED
    BY <2>2, <2>3, <2>4
<1>7. Resting'
  BY <1>1 DEF Resting, Idle
<1>8. GoneAway'
  BY <1>1, <1>2 DEF GoneAway, Slots, KeysOf
<1> QED
  BY <1>3, <1>4, <1>5, <1>6, <1>7, <1>8 DEF StoreInv

\* store_write().
LEMMA StoreWriteKeeps ==
    ASSUME StoreInv, NEW k \in Keys, NEW p \in Payloads, StoreWrite(k, p)
    PROVE  StoreInv'
<1> DEFINE r == Record(k, p)
<1>1. r \in Records /\ r.key = k
  BY DEF Records, Record
<1>2. /\ table \in Seq(Records) /\ Len(table) <= MaxRecords /\ Distinct(table)
      /\ gone \cap KeysOf(table) = {} /\ DOMAIN table = 1..Len(table) /\ Len(table) \in Nat
  BY DEF StoreInv, BondTypes, GoneAway
<1>3. at = Idle /\ gone' = gone \ {k}
  BY DEF StoreWrite
<1> HIDE DEF r
<1>4. CASE k \in KeysOf(table)
  <2> DEFINE x == IndexOf(table, k)
  <2> DEFINE t == [table EXCEPT ![x] = r]
  <2>1. x \in 1..Len(table) /\ table[x].key = k
    BY <1>2, <1>4 DEF IndexOf, KeysOf
  <2>2. Persisting(t, {})
    BY <1>4 DEF StoreWrite, r
  <2> HIDE DEF x
  <2>3. /\ t \in Seq(Records) /\ Len(t) = Len(table) /\ DOMAIN t = 1..Len(table)
        /\ t[x] = r /\ \A m \in 1..Len(table) : m # x => t[m] = table[m]
    BY <1>1, <1>2, <2>1
  <2> HIDE DEF t
  <2>4. \A m \in 1..Len(table) : t[m].key = table[m].key
    BY <1>1, <2>1, <2>3
  <2>5. Distinct(t)
    BY <1>2, <2>3, <2>4 DEF Distinct
  <2>6. (gone' \cup {}) \cap KeysOf(t) = {}
    <3>1. KeysOf(t) = KeysOf(table)
      BY <1>2, <2>3, <2>4 DEF KeysOf
    <3> QED
      BY <1>2, <1>3, <3>1
  <2>7. ASSUME NEW m \in 1..Len(t), t[m] \in Range(table)
        PROVE  \E j \in 1..Len(table) : m <= j /\ table[j] = t[m]
    <3>1. PICK j \in 1..Len(table) : table[j] = t[m]
      BY <1>2, <2>7 DEF Range
    <3>2. table[j].key = table[m].key
      BY <2>3, <2>4, <3>1
    <3>3. j = m
      BY <1>2, <2>3, <3>2 DEF Distinct
    <3> QED
      BY <1>2, <3>1, <3>3
  <2>8. Len(t) <= MaxRecords /\ gone' \subseteq gone /\ {} \in SUBSET Keys
    BY <1>2, <1>3, <2>3
  <2> QED
    BY <1>3, <2>2, <2>3, <2>5, <2>6, <2>7, <2>8, RewriteBegins
<1>5. CASE k \notin KeysOf(table)
  <2> DEFINE t == Append(table, r)
  <2>1. Persisting(t, {}) /\ Len(table) < MaxRecords
    BY <1>5 DEF StoreWrite, r
  <2>2. /\ t \in Seq(Records) /\ Len(t) = Len(table) + 1 /\ DOMAIN t = 1..(Len(table) + 1)
        /\ t[Len(table) + 1] = r /\ \A m \in 1..Len(table) : t[m] = table[m]
    BY <1>1, <1>2
  <2> HIDE DEF t
  <2>3. \A m \in 1..Len(table) : table[m].key # k /\ table[m].key \in KeysOf(table)
    BY <1>2, <1>5 DEF KeysOf
  <2>4. \A m \in 1..(Len(table) + 1) : m \in 1..Len(table) \/ m = Len(table) + 1
    BY <1>2
  <2>5. Distinct(t)
    BY <1>1, <1>2, <2>2, <2>3, <2>4 DEF Distinct
  <2>6. (gone' \cup {}) \cap KeysOf(t) = {}
    <3>1. \A m \in DOMAIN t : t[m].key \in KeysOf(table) \/ t[m].key = k
      BY <1>1, <2>2, <2>3, <2>4
    <3>2. \A y \in KeysOf(t) : y \in KeysOf(table) \/ y = k
      BY <3>1 DEF KeysOf
    <3> QED
      BY <1>2, <1>3, <3>2
  <2>7. ASSUME NEW m \in 1..Len(t), t[m] \in Range(table)
        PROVE  \E j \in 1..Len(table) : m <= j /\ table[j] = t[m]
    <3>1. PICK j \in 1..Len(table) : table[j] = t[m]
      BY <1>2, <2>7 DEF Range
    <3>2. t[m].key # k
      BY <2>3, <3>1
    <3>3. m \in 1..Len(table)
      BY <1>1, <2>2, <2>4, <3>2
    <3> QED
      BY <1>2, <2>2, <3>3
  <2>8. Len(t) <= MaxRecords /\ gone' \subseteq gone /\ {} \in SUBSET Keys
    BY <1>2, <1>3, <2>1, <2>2, BondAssumption
  <2> QED
    BY <1>3, <2>1, <2>2, <2>5, <2>6, <2>7, <2>8, RewriteBegins
<1> QED
  BY <1>4, <1>5

\* RemoveAt() moves what is behind x up by one.
LEMMA RemoveAtOf ==
    ASSUME NEW R, NEW s \in Seq(R), NEW x \in 1..Len(s)
    PROVE  /\ RemoveAt(s, x) \in Seq(R) /\ Len(RemoveAt(s, x)) = Len(s) - 1
           /\ DOMAIN RemoveAt(s, x) = 1..(Len(s) - 1)
           /\ \A m \in 1..(Len(s) - 1) : RemoveAt(s, x)[m] = IF m < x THEN s[m] ELSE s[m + 1]
<1> DEFINE a == SubSeq(s, 1, x - 1)
<1> DEFINE b == SubSeq(s, x + 1, Len(s))
<1>1. Len(s) \in Nat /\ x \in Nat /\ x - 1 \in Nat /\ Len(s) - x \in Nat /\ x <= Len(s)
  OBVIOUS
<1>2. /\ a \in Seq(R) /\ Len(a) = x - 1 /\ \A m \in 1..(x - 1) : a[m] = s[m]
  BY <1>1
<1>3. /\ b \in Seq(R) /\ Len(b) = Len(s) - x /\ \A m \in 1..(Len(s) - x) : b[m] = s[m + x]
  BY <1>1
<1>4. RemoveAt(s, x) = a \o b
  BY DEF RemoveAt
<1> HIDE DEF a, b
<1>5. /\ a \o b \in Seq(R) /\ Len(a \o b) = Len(s) - 1 /\ DOMAIN (a \o b) = 1..(Len(s) - 1)
  <2>1. a \o b \in Seq(R) /\ Len(a \o b) = Len(a) + Len(b)
    BY <1>2, <1>3, ConcatProperties
  <2>2. Len(a) + Len(b) = Len(s) - 1
    BY <1>1, <1>2, <1>3
  <2>3. DOMAIN (a \o b) = 1..Len(a \o b)
    BY <2>1
  <2> QED
    BY <2>1, <2>2, <2>3
<1>6. ASSUME NEW m \in 1..(Len(s) - 1) PROVE (a \o b)[m] = IF m < x THEN s[m] ELSE s[m + 1]
  <2>1. CASE m < x
    <3>1. m \in 1..Len(a) /\ m \in 1..(x - 1)
      BY <1>1, <1>2, <2>1
    <3>2. (a \o b)[m] = a[m]
      BY <1>2, <1>3, <1>5, <3>1
    <3> QED
      BY <1>2, <2>1, <3>1, <3>2
  <2>2. CASE ~(m < x)
    <3>1. m - Len(a) \in 1..(Len(s) - x) /\ (m - Len(a)) + x = m + 1 /\ m > Len(a) /\ m <= Len(a) + Len(b)
      BY <1>1, <1>2, <1>3, <2>2
    <3>2. (a \o b)[m] = b[m - Len(a)]
      BY <1>1, <1>2, <1>3, <1>5, <3>1
    <3> QED
      BY <1>3, <2>2, <3>1, <3>2
  <2> QED
    BY <2>1, <2>2
<1> QED
  BY <1>4, <1>5, <1>6

\* store_delete().
LEMMA StoreDeleteKeeps ==
    ASSUME StoreInv, NEW x \in 1..MaxRecords, StoreDelete(x)
    PROVE  StoreInv'
<1> DEFINE t == RemoveAt(table, x)
<1> DEFINE del == {table[x].key}
<1>1. /\ table \in Seq(Records) /\ Len(table) <= MaxRecords /\ Distinct(table)
      /\ gone \cap KeysOf(table) = {} /\ DOMAIN table = 1..Len(table) /\ Len(table) \in Nat
  BY DEF StoreInv, BondTypes, GoneAway
<1>2. at = Idle /\ gone' = gone /\ x \in 1..Len(table) /\ Persisting(t, del)
  BY <1>1 DEF StoreDelete
<1>3. table[x] \in Records /\ del \in SUBSET Keys
  BY <1>1, <1>2, EntryOf
<1>4. /\ t \in Seq(Records) /\ Len(t) = Len(table) - 1 /\ DOMAIN t = 1..(Len(table) - 1)
      /\ \A m \in 1..(Len(table) - 1) : t[m] = IF m < x THEN table[m] ELSE table[m + 1]
  <2> HIDE DEF del
  <2> QED
    BY <1>1, <1>2, RemoveAtOf
<1> HIDE DEF t
<1> DEFINE was(m) == IF m < x THEN m ELSE m + 1
<1>5. \A m \in 1..Len(t) : /\ was(m) \in 1..Len(table) /\ was(m) # x /\ m <= was(m)
                           /\ t[m] = table[was(m)]
  BY <1>1, <1>2, <1>4
<1>6. \A m, n \in 1..Len(t) : was(m) = was(n) => m = n
  BY <1>1, <1>2, <1>4
<1> HIDE DEF was
<1>7. DOMAIN t = 1..Len(t)
  BY <1>4
<1>8. Distinct(t)
  BY <1>1, <1>5, <1>6, <1>7 DEF Distinct
<1>9. (gone' \cup del) \cap KeysOf(t) = {}
  <2>1. ASSUME NEW m \in 1..Len(t) PROVE t[m].key \in KeysOf(table) /\ t[m].key # table[x].key
    <3>1. table[was(m)].key # table[x].key
      BY <1>1, <1>2, <1>5 DEF Distinct
    <3> QED
      BY <1>1, <1>5, <3>1 DEF KeysOf
  <2>2. \A y \in KeysOf(t) : y \in KeysOf(table) /\ y # table[x].key
    BY <1>7, <2>1 DEF KeysOf
  <2> QED
    BY <1>1, <1>2, <2>2
<1>10. \A m \in 1..Len(t) : t[m] \in Range(table) =>
          \E j \in 1..Len(table) : m <= j /\ table[j] = t[m]
  BY <1>5
<1>11. Len(t) <= MaxRecords /\ gone' \subseteq gone
  BY <1>1, <1>2, <1>4, BondAssumption
<1> HIDE DEF del
<1> QED
  BY <1>2, <1>3, <1>4, <1>8, <1>9, <1>10, <1>11, RewriteBegins

\* A slot of a rewrite: it gets what it should have, or the rewrite has failed.
LEMMA SlotStep ==
    ASSUME StoreInv, at \in Slots, Returns, table' = table,
           \/ failed' = TRUE /\ slots' = slots
           \/ failed' = failed /\ slots' = [slots EXCEPT ![at] = Wanted(at)],
           usedSlots' \subseteq Slots, NotFree(slots') \subseteq usedSlots'
    PROVE  StoreInv'
<1>1. /\ BondTypes /\ Distinct(table) /\ SlotsKnown /\ WrittenSoFar /\ FoundYet /\ Resting /\ GoneAway
      /\ table \in Seq(Records) /\ Len(table) <= MaxRecords /\ Len(table) \in Nat
      /\ DOMAIN table = 1..Len(table) /\ slots \in [Slots -> Entries] /\ at \in Nat /\ at <= MaxRecords /\ 1 <= at
  BY DEF StoreInv, BondTypes, Slots
<1>2. \A n \in 1..Len(table) : table[n] \in Records /\ table[n] \in Entries /\ table[n].kind = "record"
                               /\ table[n].key \in KeysOf(table)
  BY <1>1, EntryOf DEF KeysOf, Entries
<1>3. \A n \in Slots : Wanted(n) \in Entries /\ (Wanted(n).kind = "record" => n \in 1..Len(table) /\ Wanted(n) = table[n])
  BY <1>1, <1>2, EntryOf DEF Wanted, Slots, Free
<1>4. \A n \in Slots : n # at => slots'[n] = slots[n]
  BY <1>1
<1>5. ~failed' => ~failed /\ slots'[at] = Wanted(at)
  BY <1>1
<1>6. slots'[at] = slots[at] \/ slots'[at] = Wanted(at)
  BY <1>1
<1>7. slots' \in [Slots -> Entries]
  BY <1>1, <1>3
<1>8. failed' \in BOOLEAN
  BY <1>1 DEF BondTypes
<1>9. Distinct(table') /\ NotFree(slots') \subseteq usedSlots'
  BY <1>1
<1>10. \A n \in Slots : slots'[n].kind = "record" => slots'[n].key \notin gone
  <2> SUFFICES ASSUME NEW n \in Slots, slots'[n].kind = "record" PROVE slots'[n].key \notin gone
    OBVIOUS
  <2>1. CASE slots'[n] = slots[n]
    BY <1>1, <2>1 DEF GoneAway
  <2>2. CASE slots'[n] = Wanted(n)
    <3>1. slots'[n].key \in KeysOf(table)
      BY <1>2, <1>3, <2>2
    <3> QED
      BY <1>1, <3>1 DEF GoneAway
  <2> QED
    BY <1>4, <1>6, <2>1, <2>2
<1>11. \A n \in Slots : (~failed' /\ n <= at) => slots'[n] = Wanted(n)
  <2> SUFFICES ASSUME NEW n \in Slots, ~failed', n <= at PROVE slots'[n] = Wanted(n)
    OBVIOUS
  <2>1. n = at \/ n < at
    BY <1>1 DEF Slots
  <2> QED
    BY <1>1, <1>4, <1>5, <2>1 DEF WrittenSoFar
<1>12. CASE at < MaxRecords
  <2>1. at' = at + 1 /\ before' = before /\ deleting' = deleting /\ gone' = gone /\ sound' = sound
    BY <1>12 DEF Returns
  <2>2. at' \in 0..MaxRecords /\ at' # Idle
    BY <1>1, <1>12, <2>1, BondAssumption DEF Idle
  <2>3. BondTypes'
    BY <1>1, <1>7, <1>8, <2>1, <2>2 DEF BondTypes, Slots, Entries, Records, Record, Free, Corrupt
  <2>4. WrittenSoFar'
    <3>1. \A n \in Slots : n < at' => n <= at
      BY <1>1, <2>1 DEF Slots
    <3> QED
      BY <1>11, <3>1 DEF WrittenSoFar, Wanted, Slots
  <2>5. FoundYet'
    <3> SUFFICES ASSUME sound, ~failed'
                 PROVE  /\ \A m \in 1..Len(table) :
                              (at + 1 <= m /\ table[m] \in Range(before)) =>
                                 \E j \in Slots : /\ m <= j /\ slots'[j] = table[m]
                                                  /\ \A n \in Slots : (at + 1 <= n /\ n < j) => ~HoldsKey(slots', n, table[m].key)
                        /\ \A n \in Slots : (at + 1 <= n /\ slots'[n].kind = "record") => slots'[n].key \in KeysOf(before)
      BY <2>1 DEF FoundYet, Slots, HoldsKey, Range, KeysOf
    <3>1. \A n \in Slots : at + 1 <= n => at <= n /\ slots'[n] = slots[n]
      BY <1>1, <1>4 DEF Slots
    <3>2. ASSUME NEW m \in 1..Len(table), at + 1 <= m, table[m] \in Range(before)
          PROVE  \E j \in Slots : /\ m <= j /\ slots'[j] = table[m]
                                  /\ \A n \in Slots : (at + 1 <= n /\ n < j) => ~HoldsKey(slots', n, table[m].key)
      <4>1. at <= m
        BY <1>1, <3>2
      <4>2. PICK j \in Slots : /\ m <= j /\ slots[j] = table[m]
                               /\ \A n \in Slots : (at <= n /\ n < j) => ~HoldsKey(slots, n, table[m].key)
        BY <1>1, <1>5, <3>2, <4>1 DEF FoundYet
      <4>3. at + 1 <= j
        BY <1>1, <3>2, <4>2 DEF Slots
      <4> QED
        BY <3>1, <4>2, <4>3 DEF HoldsKey
    <3>3. \A n \in Slots : (at + 1 <= n /\ slots'[n].kind = "record") => slots'[n].key \in KeysOf(before)
      BY <1>1, <1>5, <3>1 DEF FoundYet
    <3> QED
      BY <3>2, <3>3
  <2>6. Resting'
    BY <2>2 DEF Resting
  <2>7. GoneAway'
    BY <1>1, <1>10, <2>1 DEF GoneAway, Slots, KeysOf
  <2> QED
    BY <1>9, <2>3, <2>4, <2>5, <2>6, <2>7 DEF StoreInv, SlotsKnown, Distinct, NotFree, Slots
<1>13. CASE ~(at < MaxRecords)
  <2>1. /\ at' = 0 /\ before' = table /\ deleting' = {} /\ sound' = ~failed'
        /\ gone' = IF failed' THEN gone ELSE gone \cup deleting
    BY <1>13 DEF Returns, Idle
  <2>2. at' \in 0..MaxRecords /\ \A n \in Slots : n <= at
    BY <1>1, <1>13, <2>1, BondAssumption DEF Slots
  <2>3. sound' \in BOOLEAN /\ gone' \subseteq Keys /\ deleting' \subseteq Keys
    BY <1>1, <1>8, <2>1 DEF BondTypes
  <2>4. BondTypes'
    BY <1>1, <1>7, <1>8, <2>1, <2>2, <2>3 DEF BondTypes, Slots, Entries, Records, Record, Free, Corrupt
  <2>5. WrittenSoFar'
    BY <2>1 DEF WrittenSoFar, Slots
  <2>6. ~failed' => \A n \in Slots : slots'[n] = Wanted(n)
    BY <1>11, <2>2
  <2>7. FoundYet'
    <3> SUFFICES ASSUME ~failed'
                 PROVE  /\ \A m \in 1..Len(table) :
                              \E j \in Slots : /\ m <= j /\ slots'[j] = table[m]
                                               /\ \A n \in Slots : n < j => ~HoldsKey(slots', n, table[m].key)
                        /\ \A n \in Slots : slots'[n].kind = "record" => slots'[n].key \in KeysOf(table)
      BY <2>1 DEF FoundYet
    <3>1. ASSUME NEW m \in 1..Len(table)
          PROVE  \E j \in Slots : /\ m <= j /\ slots'[j] = table[m]
                                  /\ \A n \in Slots : n < j => ~HoldsKey(slots', n, table[m].key)
      <4>1. m \in Slots /\ m <= m /\ slots'[m] = table[m]
        BY <1>1, <2>6, BondAssumption DEF Slots, Wanted
      <4>2. ASSUME NEW n \in Slots, n < m PROVE ~HoldsKey(slots', n, table[m].key)
        <5>1. n \in 1..Len(table) /\ n # m /\ slots'[n] = table[n]
          BY <1>1, <2>6, <4>2 DEF Slots, Wanted
        <5> QED
          BY <1>1, <5>1 DEF Distinct, HoldsKey
      <4> QED
        BY <4>1, <4>2
    <3>2. \A n \in Slots : slots'[n].kind = "record" => slots'[n].key \in KeysOf(table)
      BY <1>2, <1>3, <2>6
    <3> QED
      BY <3>1, <3>2
  <2>8. Resting'
    BY <2>1 DEF Resting
  <2>9. GoneAway'
    <3>1. (gone' \cup deleting') \cap KeysOf(table) = {}
      BY <1>1, <2>1 DEF GoneAway
    <3>2. \A n \in Slots : slots'[n].kind = "record" => slots'[n].key \notin gone'
      <4>1. CASE failed'
        BY <1>10, <2>1, <4>1
      <4>2. CASE ~failed'
        BY <1>2, <1>3, <2>6, <3>1, <4>2
      <4> QED
        BY <4>1, <4>2
    <3> QED
      BY <3>1, <3>2 DEF GoneAway, Slots, KeysOf
  <2> QED
    BY <1>9, <2>4, <2>5, <2>7, <2>8, <2>9 DEF StoreInv, SlotsKnown, Distinct, NotFree, Slots
<1> QED
  BY <1>12, <1>13

\* The three ways a slot is dealt with.
LEMMA SlotKeeps ==
    ASSUME StoreInv, NEW ok \in BOOLEAN, PersistRecord(ok) \/ PersistClear(ok) \/ PersistSkip
    PROVE  StoreInv'
<1>1. /\ Len(table) \in Nat /\ at \in 0..MaxRecords /\ usedSlots \subseteq Slots
      /\ slots \in [Slots -> Entries] /\ NotFree(slots) \subseteq usedSlots /\ table' = table
      /\ table \in Seq(Records) /\ Len(table) <= MaxRecords
  BY DEF StoreInv, BondTypes, SlotsKnown, PersistRecord, PersistClear, PersistSkip
<1>2. at \in Slots
  BY <1>1 DEF PersistRecord, PersistClear, PersistSkip, Idle, Slots
<1>3. Returns
  BY DEF PersistRecord, PersistClear, PersistSkip
<1>4. CASE PersistRecord(ok)
  <2>1. at \in 1..Len(table) /\ Wanted(at) = table[at] /\ table[at] \in Entries
    BY <1>1, <1>2, <1>4 DEF PersistRecord, Wanted, Slots, Entries
  <2>2. \/ failed' = TRUE /\ slots' = slots
        \/ failed' = failed /\ slots' = [slots EXCEPT ![at] = Wanted(at)]
    BY <1>4, <2>1 DEF PersistRecord, SetSlot, StoreInv, BondTypes
  <2>3. usedSlots' \subseteq Slots /\ NotFree(slots') \subseteq usedSlots'
    BY <1>1, <1>2, <1>4 DEF PersistRecord, SetSlot, NotFree
  <2> QED
    BY <1>1, <1>2, <1>3, <2>2, <2>3, SlotStep
<1>5. CASE PersistClear(ok)
  <2>1. Wanted(at) = Free
    BY <1>1, <1>5 DEF PersistClear, Wanted
  <2>2. \/ failed' = TRUE /\ slots' = slots
        \/ failed' = failed /\ slots' = [slots EXCEPT ![at] = Wanted(at)]
    BY <1>5, <2>1 DEF PersistClear, SetSlot, StoreInv, BondTypes
  <2>3. usedSlots' \subseteq Slots /\ NotFree(slots') \subseteq usedSlots'
    BY <1>1, <1>2, <1>5 DEF PersistClear, SetSlot, NotFree, Cleared, Free
  <2> QED
    BY <1>1, <1>2, <1>3, <2>2, <2>3, SlotStep
<1>6. CASE PersistSkip
  <2>1. Wanted(at) = Free /\ slots[at] = Free
    <3>1. slots[at].kind = "free"
      BY <1>1, <1>2, <1>6 DEF PersistSkip, NotFree
    <3> QED
      BY <1>1, <1>2, <1>6, <3>1, EntryOf DEF PersistSkip, Wanted
  <2>2. failed' = failed /\ slots' = [slots EXCEPT ![at] = Wanted(at)]
    BY <1>1, <1>2, <1>6, <2>1 DEF PersistSkip
  <2>3. usedSlots' \subseteq Slots /\ NotFree(slots') \subseteq usedSlots'
    BY <1>1, <1>6 DEF PersistSkip
  <2> QED
    BY <1>1, <1>2, <1>3, <2>2, <2>3, SlotStep
<1> QED
  BY <1>4, <1>5, <1>6

\* The power goes, and the board boots.
LEMMA PowerCutKeeps ==
    ASSUME StoreInv, PowerCut
    PROVE  StoreInv'
<1> DEFINE t == TableLoad(slots)
<1>1. /\ table' = t /\ before' = t /\ usedSlots' = NotFree(slots) /\ at' = 0 /\ failed' = FALSE
      /\ deleting' = {} /\ sound' = TRUE /\ slots' = slots /\ gone' = gone
  BY DEF PowerCut, Idle
<1>2. BondTypes /\ GoneAway /\ slots \in [Slots -> Entries] /\ MaxRecords \in Nat
  BY BondAssumption DEF StoreInv, BondTypes
<1>3. LoadOf(slots, MaxRecords, t)
  BY <1>2, LoadFinds
<1> HIDE DEF t
<1>4. /\ t \in Seq(Records) /\ Len(t) <= MaxRecords /\ Distinct(t) /\ DOMAIN t = 1..Len(t)
      /\ \A m \in 1..Len(t) : \E j \in Slots : m <= j /\ First(slots, j) /\ slots[j] = t[m]
      /\ \A j \in Slots : slots[j].kind = "record" => slots[j].key \in KeysOf(t)
  BY <1>3 DEF LoadOf, Slots
<1>5. BondTypes'
  <2>1. at' \in 0..MaxRecords /\ usedSlots' \subseteq Slots
    BY <1>1, <1>2 DEF NotFree
  <2>2. table' \in Seq(Records) /\ Len(table') <= MaxRecords /\ before' \in Seq(Records)
    BY <1>1, <1>4
  <2>3. slots' \in [Slots -> Entries]
    BY <1>1, <1>2
  <2>4. failed' \in BOOLEAN /\ sound' \in BOOLEAN /\ deleting' \subseteq Keys /\ gone' \subseteq Keys
    BY <1>1, <1>2 DEF BondTypes
  <2> QED
    BY <2>1, <2>2, <2>3, <2>4 DEF BondTypes, Slots, Entries, Records, Record, Free, Corrupt
<1>6. Distinct(table') /\ NotFree(slots') \subseteq usedSlots'
  BY <1>1, <1>4
<1>7. WrittenSoFar'
  BY <1>1 DEF WrittenSoFar, Slots
<1>8. FoundYet'
  <2> SUFFICES /\ \A m \in 1..Len(t) :
                     \E j \in Slots : /\ m <= j /\ slots[j] = t[m]
                                      /\ \A n \in Slots : n < j => ~HoldsKey(slots, n, t[m].key)
               /\ \A n \in Slots : slots[n].kind = "record" => slots[n].key \in KeysOf(t)
    BY <1>1 DEF FoundYet, Slots, HoldsKey, Range, KeysOf
  <2>1. ASSUME NEW m \in 1..Len(t)
        PROVE  \E j \in Slots : /\ m <= j /\ slots[j] = t[m]
                                /\ \A n \in Slots : n < j => ~HoldsKey(slots, n, t[m].key)
    <3>1. PICK j \in Slots : m <= j /\ First(slots, j) /\ slots[j] = t[m]
      BY <1>4
    <3>2. \A n \in Slots : n < j => n \in 1..(j - 1)
      BY DEF Slots
    <3>3. \A n \in 1..(j - 1) : ~HoldsKey(slots, n, t[m].key)
      BY <3>1 DEF First
    <3> QED
      BY <3>1, <3>2, <3>3
  <2> QED
    BY <1>4, <2>1
<1>9. Resting'
  BY <1>1 DEF Resting
<1>10. GoneAway'
  <2>1. ASSUME NEW m \in 1..Len(t) PROVE t[m].key \notin gone
    <3>1. PICK j \in Slots : First(slots, j) /\ slots[j] = t[m]
      BY <1>4
    <3> QED
      BY <1>2, <3>1 DEF First, GoneAway
  <2>2. (gone \cup {}) \cap KeysOf(t) = {}
    BY <1>4, <2>1 DEF KeysOf
  <2> QED
    BY <1>1, <1>2, <2>2 DEF GoneAway, Slots, KeysOf
<1> QED
  BY <1>5, <1>6, <1>7, <1>8, <1>9, <1>10 DEF StoreInv, SlotsKnown, Distinct, NotFree, Slots

\* A stored record rots.
LEMMA RotKeeps ==
    ASSUME StoreInv, NEW x \in Slots, Rot(x)
    PROVE  StoreInv'
<1>1. /\ table' = table /\ before' = before /\ usedSlots' = usedSlots /\ at' = at /\ failed' = failed
      /\ deleting' = deleting /\ gone' = gone /\ sound' = FALSE /\ at = 0
      /\ slots' = [slots EXCEPT ![x] = Corrupt] /\ slots[x].kind = "record"
  BY DEF Rot, Idle
<1>2. /\ BondTypes /\ GoneAway /\ Resting /\ Distinct(table) /\ NotFree(slots) \subseteq usedSlots
      /\ slots \in [Slots -> Entries]
  BY DEF StoreInv, BondTypes, SlotsKnown
<1>3. slots' \in [Slots -> Entries] /\ Corrupt.kind = "corrupt"
  BY <1>1, <1>2, EntryOf DEF Corrupt
<1>4. BondTypes'
  <2>1. /\ table' \in Seq(Records) /\ Len(table') <= MaxRecords /\ before' \in Seq(Records)
        /\ at' \in 0..MaxRecords /\ usedSlots' \subseteq Slots
        /\ failed' \in BOOLEAN /\ sound' \in BOOLEAN /\ deleting' \subseteq Keys /\ gone' \subseteq Keys
    BY <1>1, <1>2 DEF BondTypes
  <2> QED
    BY <1>3, <2>1 DEF BondTypes, Slots, Entries, Records, Record, Free, Corrupt
<1>5. NotFree(slots') \subseteq usedSlots'
  BY <1>1, <1>2 DEF NotFree
<1>6. WrittenSoFar' /\ FoundYet'
  BY <1>1 DEF WrittenSoFar, FoundYet, Slots
<1>7. Resting'
  BY <1>1, <1>2 DEF Resting
<1>8. GoneAway'
  <2>1. \A n \in Slots : slots'[n].kind = "record" => slots'[n] = slots[n]
    BY <1>1, <1>2, <1>3
  <2> QED
    BY <1>1, <1>2, <2>1 DEF GoneAway, Slots, KeysOf
<1> QED
  BY <1>1, <1>2, <1>4, <1>5, <1>6, <1>7, <1>8 DEF StoreInv, SlotsKnown, Distinct, NotFree, Slots

\* Every step of the store keeps it sound.
LEMMA StoreInvNext == StoreInv /\ [BondNext]_bondVars => StoreInv'
<1> SUFFICES ASSUME StoreInv, [BondNext]_bondVars PROVE StoreInv'
  OBVIOUS
<1>1. ASSUME NEW k \in Keys, NEW p \in Payloads, StoreWrite(k, p) PROVE StoreInv'
  BY <1>1, StoreWriteKeeps
<1>2. ASSUME NEW x \in 1..MaxRecords, StoreDelete(x) PROVE StoreInv'
  BY <1>2, StoreDeleteKeeps
<1>3. ASSUME NEW ok \in BOOLEAN, PersistRecord(ok) \/ PersistClear(ok) \/ PersistSkip PROVE StoreInv'
  BY <1>3, SlotKeeps
<1>4. CASE PowerCut
  BY <1>4, PowerCutKeeps
<1>5. ASSUME NEW x \in Slots, Rot(x) PROVE StoreInv'
  BY <1>5, RotKeeps
<1>6. CASE UNCHANGED bondVars
  BY <1>6 DEF bondVars, StoreInv, BondTypes, Distinct, SlotsKnown, NotFree, WrittenSoFar, Wanted, FoundYet,
     HoldsKey, Range, KeysOf, Resting, GoneAway, Slots, Entries, Records, Record, Free, Corrupt, Idle
<1> QED
  BY <1>1, <1>2, <1>3, <1>4, <1>5, <1>6 DEF BondNext

\* A record that stays is found by a boot now.
LEMMA StoreInvImplies == StoreInv => BondInv
<1> SUFFICES ASSUME StoreInv PROVE BondInv
  OBVIOUS
<1> DEFINE t == TableLoad(slots)
<1>1. /\ BondTypes /\ GoneAway /\ FoundYet /\ WrittenSoFar /\ Distinct(table) /\ MaxRecords \in Nat
      /\ slots \in [Slots -> Entries] /\ DOMAIN table = 1..Len(table) /\ Len(table) \in Nat
      /\ Len(table) <= MaxRecords /\ at \in Nat
  BY BondAssumption DEF StoreInv, BondTypes
<1>2. LoadOf(slots, MaxRecords, t)
  BY <1>1, LoadFinds
<1> HIDE DEF t
<1>3. /\ DOMAIN t = 1..Len(t)
      /\ \A m \in 1..Len(t) : \E j \in Slots : First(slots, j) /\ slots[j] = t[m]
      /\ \A j \in Slots : First(slots, j) => slots[j] \in Range(t)
  BY <1>2 DEF LoadOf, Slots
<1>4. \A k \in KeysOf(t) : \E j \in Slots : slots[j].kind = "record" /\ slots[j].key = k
  <2> SUFFICES ASSUME NEW m \in 1..Len(t)
               PROVE  \E j \in Slots : slots[j].kind = "record" /\ slots[j].key = t[m].key
    BY <1>3 DEF KeysOf
  <2> QED
    BY <1>3 DEF First
<1>5. gone \cap KeysOf(table) = {} /\ gone \cap KeysOf(t) = {}
  BY <1>1, <1>4 DEF GoneAway
<1>6. ASSUME sound, ~failed, NEW m \in 1..Len(table), table[m] \in Range(before)
      PROVE  table[m] \in Range(t)
  <2>1. \A n \in Slots : (n < at /\ n <= Len(table)) => slots[n] = table[n]
    BY <1>1, <1>6 DEF WrittenSoFar, Wanted
  <2>2. table[m] \in Records /\ table[m].kind = "record"
    BY <1>1, EntryOf DEF BondTypes
  <2>3. ASSUME NEW n \in Slots, n < at, n < m PROVE ~HoldsKey(slots, n, table[m].key)
    <3>1. n \in 1..Len(table) /\ n # m /\ slots[n] = table[n]
      BY <1>1, <2>1, <2>3 DEF Slots
    <3> QED
      BY <1>1, <3>1 DEF Distinct, HoldsKey
  <2>4. CASE m < at
    <3>1. m \in Slots /\ slots[m] = table[m]
      BY <1>1, <2>1, <2>4 DEF Slots
    <3>2. \A n \in 1..(m - 1) : n \in Slots /\ n < at /\ n < m
      BY <1>1, <2>4 DEF Slots
    <3>3. First(slots, m)
      BY <2>2, <2>3, <3>1, <3>2 DEF First
    <3> QED
      BY <1>3, <3>1, <3>3
  <2>5. CASE at <= m
    <3>1. PICK j \in Slots : /\ m <= j /\ slots[j] = table[m]
                             /\ \A n \in Slots : (at <= n /\ n < j) => ~HoldsKey(slots, n, table[m].key)
      BY <1>1, <1>6, <2>5 DEF FoundYet
    <3>2. \A n \in 1..(j - 1) : n \in Slots /\ n < j /\ (n < at => n < m) /\ (n < at \/ at <= n)
      BY <1>1, <2>5, <3>1 DEF Slots
    <3>3. First(slots, j)
      BY <2>2, <2>3, <3>1, <3>2 DEF First
    <3> QED
      BY <1>3, <3>1, <3>3
  <2> QED
    BY <1>1, <2>4, <2>5
<1>7. (sound /\ ~failed) => Range(before) \cap Range(table) \subseteq Range(t)
  <2>1. \A r \in Range(table) : \E m \in 1..Len(table) : r = table[m]
    BY <1>1 DEF Range
  <2> QED
    BY <1>6, <2>1
<1>8. (sound /\ ~failed) => KeysOf(t) \subseteq KeysOf(before) \cup KeysOf(table)
  <2> SUFFICES ASSUME sound, ~failed, NEW j \in Slots, slots[j].kind = "record"
               PROVE  slots[j].key \in KeysOf(before) \cup KeysOf(table)
    BY <1>4
  <2>1. CASE at <= j
    BY <1>1, <2>1 DEF FoundYet
  <2>2. CASE j < at
    <3>1. j \in 1..Len(table) /\ slots[j] = table[j]
      BY <1>1, <2>2, EntryOf DEF WrittenSoFar, Wanted, Slots, Free
    <3> QED
      BY <1>1, <3>1 DEF KeysOf
  <2> QED
    BY <1>1, <2>1, <2>2 DEF Slots
<1> QED
  BY <1>5, <1>7, <1>8 DEF BondInv, BondsKept, DeletedStaysGone, t

\* A boot finds the bonds that stay, as they are now, and none that was deleted, wherever the
\* rewrite of the table was cut off (ble_store_kv.c table_persist, table_load).
THEOREM BondsSafe == BondSpec => []BondInv
<1>1. BondInit => StoreInv
  BY BondInitInv
<1>2. StoreInv /\ [BondNext]_bondVars => StoreInv'
  BY StoreInvNext
<1>3. StoreInv => BondInv
  BY StoreInvImplies
<1> QED
  BY <1>1, <1>2, <1>3, PTL DEF BondSpec

-----------------------------------------------------------------------------
(* The WiFi machine (Wifi), for any networks and any number of power cuts.  *)

\* The types of the state.
Named == Nets \cup {"none"}
Creds == [ssid : Named, psk : Named]
WifiStates == {"UNPROVISIONED", "SETUP_AP", "CONNECTING", "ONLINE", "RETRYING", "SETUP_AP_RETRYING"}
Machines == [st : WifiStates, ap : BOOLEAN, joined : {0, 1, 2}, since : BOOLEAN]
Rams == [creds : Creds, prev : Creds, credsOk : BOOLEAN, joinFailed : BOOLEAN, apRun : BOOLEAN,
         join : Creds, phase : {"idle", "joining", "up"}]
KvWrites == [key : {"ssid", "psk"}, val : Named] \cup {Put("ok", "0"), Put("ok", "1"), Put("joined", "1")}

WifiTypes ==
    /\ sm \in Machines /\ w \in Rams
    /\ kv \in [ssid : Named, psk : Named, ok : {"none", "0", "1"}]
    /\ todo \in Seq(KvWrites)
    /\ web \in Creds /\ proven \in Creds
    /\ cuts \in Nat /\ cutShort \in BOOLEAN /\ stale \in SUBSET {"ssid", "psk", "ok"}

\* Credentials have a name and a password, or are none.
Whole(c) == c = NoCreds \/ (c.ssid # "none" /\ c.psk # "none")
CredsWhole == Whole(w.creds) /\ Whole(w.prev) /\ Whole(web) /\ Whole(proven)

\* A board that has not booted holds nothing and runs nothing.
OffState ==
    ~Booted => /\ sm = Sm("UNPROVISIONED", FALSE, 0) /\ w = OffRam
               /\ todo = <<>> /\ web = NoCreds /\ stale = {}

\* The states of the machine agree with what joined and with what to fall back on.
Joining == {"CONNECTING", "ONLINE", "RETRYING", "SETUP_AP_RETRYING"}
MachineInv ==
    Booted => /\ sm.joined = 2 => sm.st = "CONNECTING" /\ w.prev # NoCreds
              /\ sm.joined = 0 => sm.st \in {"SETUP_AP", "CONNECTING"} /\ w.prev = NoCreds
              /\ sm.st = "SETUP_AP" => sm.joined = 0
              /\ sm.st \in Joining => w.creds # NoCreds
              /\ ~w.joinFailed

\* The driver is up exactly when the machine is online, with the credentials in use.
DriverInv ==
    Booted => /\ sm.st = "SETUP_AP" => w.phase = "idle"
              /\ sm.st = "ONLINE" <=> w.phase = "up"
              /\ w.phase # "idle" => w.join = w.creds

\* Credentials that joined, and that no cut found unsettled, are in use, or the fallback
\* of a replacement, or in the store of a board that is off.
ProvenInv ==
    proven # NoCreds /\ ~cutShort =>
        IF Booted
        THEN \/ sm.joined = 1 /\ w.creds = proven
             \/ sm.joined = 2 /\ w.prev = proven
        ELSE Stored = proven /\ kv.ok # "0"

\* No key is written twice.
OneEach(d) == \A m, n \in DOMAIN d : d[m].key = d[n].key => m = n
OnePerKey == OneEach(todo)

\* What the key holds when the running handler has done its writes.
HasIn(d, k) == \E m \in DOMAIN d : d[m].key = k
EndsIn(d, s, k, x) ==
    /\ \A m \in DOMAIN d : d[m].key = k => d[m].val = x
    /\ ~HasIn(d, k) => s[k] = x
Has(k) == HasIn(todo, k)
Ends(k, x) == EndsIn(todo, kv, k, x)

\* The credentials the store ends up with, and the wifi_ok of those in use, where no
\* failed write has left a key behind or the running handler still writes it.  No wifi_ok
\* is written in a POST, and credentials that count as joined are marked so in RAM.
Target == IF web = NoCreds THEN w.creds ELSE web
Follows(k) == k \notin stale \/ Has(k)
NameFollows ==
    Booted => /\ ("ssid" \notin stale /\ Target # NoCreds) \/ Has("ssid") => Ends("ssid", Target.ssid)
              /\ ("psk" \notin stale /\ Target # NoCreds) \/ Has("psk") => Ends("psk", Target.psk)
              /\ Target = NoCreds /\ "ssid" \notin stale /\ "psk" \notin stale =>
                    Ends("ssid", "none") \/ Ends("psk", "none")
OkFollows ==
    Booted => /\ web # NoCreds => ~Has("joined") /\ ~Has("ok")
              /\ w.creds # NoCreds =>
                    /\ Has("joined") => ~w.credsOk /\ ~Has("ok")
                    /\ Follows("ok") => IF w.credsOk THEN Ends("ok", "1") \/ Ends("ok", "none")
                                        ELSE Ends("ok", "0")
                    /\ sm.joined = 1 /\ ~Has("joined") /\ Follows("ok") => w.credsOk

\* The inductive invariant.
WifiSafe ==
    /\ WifiTypes
    /\ CredsWhole
    /\ OffState
    /\ MachineInv
    /\ DriverInv
    /\ ProvenInv
    /\ OnePerKey
    /\ NameFollows
    /\ OkFollows
    /\ SetupHasHotspot

-----------------------------------------------------------------------------
\* A step of the state machine with its actions: one that is there is run, unless it is
\* to be skipped.
LEMMA NthOut ==
    ASSUME NEW y, NEW x, NEW q, NEW skip, NEW n, n > Len(q)
    PROVE  RunNth(x, q, n, y, skip) = x
BY Zenon DEF RunNth

\* An action that is to be skipped is not run (set_creds skips CLEAR_CREDS).
LEMMA NthSkip ==
    ASSUME NEW y, NEW x, NEW q, NEW skip, NEW n, q[n] = skip
    PROVE  RunNth(x, q, n, y, skip) = x
BY Zenon DEF RunNth

\* Any other action is run.
LEMMA NthRun ==
    ASSUME NEW y, NEW x, NEW q, NEW skip, NEW n, ~(n > Len(q)), q[n] # skip
    PROVE  RunNth(x, q, n, y, skip) = RunAction(x, q[n], y)
BY Zenon DEF RunNth

RanAll(x, q, y, skip) == RunNth(RunNth(RunNth(x, q, 1, y, skip), q, 2, y, skip), q, 3, y, skip)

\* A list of none, one, two or three actions.
LEMMA RanNone == ASSUME NEW y, NEW x, NEW skip PROVE RanAll(x, <<>>, y, skip) = x
<1> DEFINE q == <<>>
<1>1. 1 > Len(q) /\ 2 > Len(q) /\ 3 > Len(q)
  OBVIOUS
<1> HIDE DEF q
<1>2. \A z : RunNth(z, q, 1, y, skip) = z
  BY <1>1, NthOut
<1>3. \A z : RunNth(z, q, 2, y, skip) = z
  BY <1>1, NthOut
<1>4. \A z : RunNth(z, q, 3, y, skip) = z
  BY <1>1, NthOut
<1> QED
  BY <1>2, <1>3, <1>4 DEF q, RanAll

\* A list of one action.
LEMMA RanOne ==
    ASSUME NEW y, NEW x, NEW skip, NEW a, a # skip
    PROVE  RanAll(x, <<a>>, y, skip) = RunAction(x, a, y)
<1> DEFINE q == <<a>>
<1>1. ~(1 > Len(q)) /\ 2 > Len(q) /\ 3 > Len(q) /\ q[1] = a
  OBVIOUS
<1> HIDE DEF q
<1>2. \A z : RunNth(z, q, 1, y, skip) = RunAction(z, a, y)
  BY <1>1, NthRun
<1>3. \A z : RunNth(z, q, 2, y, skip) = z
  BY <1>1, NthOut
<1>4. \A z : RunNth(z, q, 3, y, skip) = z
  BY <1>1, NthOut
<1> QED
  BY <1>2, <1>3, <1>4 DEF q, RanAll

\* A list of two.
LEMMA RanTwo ==
    ASSUME NEW y, NEW x, NEW skip, NEW a, NEW b, a # skip, b # skip
    PROVE  RanAll(x, <<a, b>>, y, skip) = RunAction(RunAction(x, a, y), b, y)
<1> DEFINE q == <<a, b>>
<1>1. ~(1 > Len(q)) /\ ~(2 > Len(q)) /\ 3 > Len(q) /\ q[1] = a /\ q[2] = b
  OBVIOUS
<1> HIDE DEF q
<1>2. \A z : RunNth(z, q, 1, y, skip) = RunAction(z, a, y)
  BY <1>1, NthRun
<1>3. \A z : RunNth(z, q, 2, y, skip) = RunAction(z, b, y)
  BY <1>1, NthRun
<1>4. \A z : RunNth(z, q, 3, y, skip) = z
  BY <1>1, NthOut
<1> QED
  BY <1>2, <1>3, <1>4 DEF q, RanAll

\* A list of three, the second of which may be skipped.
LEMMA RanThree ==
    ASSUME NEW y, NEW x, NEW skip, NEW a, NEW b, NEW c, a # skip, c # skip
    PROVE  /\ b # skip => RanAll(x, <<a, b, c>>, y, skip) = RunAction(RunAction(RunAction(x, a, y), b, y), c, y)
           /\ b = skip => RanAll(x, <<a, b, c>>, y, skip) = RunAction(RunAction(x, a, y), c, y)
<1> DEFINE q == <<a, b, c>>
<1>1. /\ ~(1 > Len(q)) /\ ~(2 > Len(q)) /\ ~(3 > Len(q))
      /\ q[1] = a /\ q[2] = b /\ q[3] = c
  OBVIOUS
<1> HIDE DEF q
<1>2. \A z : RunNth(z, q, 1, y, skip) = RunAction(z, a, y)
  BY <1>1, NthRun
<1>3. \A z : RunNth(z, q, 3, y, skip) = RunAction(z, c, y)
  BY <1>1, NthRun
<1>4. CASE b # skip
  <2>1. \A z : RunNth(z, q, 2, y, skip) = RunAction(z, b, y)
    BY <1>1, <1>4, NthRun
  <2> QED
    BY <1>2, <1>3, <1>4, <2>1 DEF q, RanAll
<1>5. CASE b = skip
  <2>0. q[2] = skip
    BY <1>1, <1>5
  <2>1. \A z : RunNth(z, q, 2, y, skip) = z
    BY <2>0, NthSkip
  <2> QED
    BY <1>2, <1>3, <1>5, <2>1 DEF q, RanAll
<1> QED
  BY <1>4, <1>5

\* cali_wifi_run_feed(): the step of the machine, then its actions in order.
LEMMA FeedRuns ==
    ASSUME NEW y, NEW m, NEW v, NEW d, NEW ev, NEW t, NEW skip, NEW n, NEW q,
           SmStep(m, ev, t) = Does(n, q)
    PROVE  FeedSkip(St(m, v, d), ev, t, y, skip) = RanAll(St(n, v, d), q, y, skip)
<1>1. St(m, v, d).sm = m /\ St(m, v, d).w = v /\ St(m, v, d).todo = d
  BY DEF St
<1>2. Does(n, q).sm = n /\ Does(n, q).acts = q
  BY DEF Does
<1> QED
  BY <1>1, <1>2, Zenon DEF FeedSkip, RanAll

\* The writes a handler asks for.
UnjoinedWrites == <<Put("ok", "0")>>
ClearWrites == <<Put("ssid", "none"), Put("psk", "none"), Put("ok", "0")>>
RestoreWrites(c) == <<Put("ssid", c.ssid), Put("psk", c.psk), Put("ok", "1")>>

-----------------------------------------------------------------------------
(* The handlers: the state each leaves behind.                              *)

\* The machine in setup, and in a replacement.
SmSetup == Sm("SETUP_AP", TRUE, 0)
SmReplacing == Sm("CONNECTING", TRUE, 2)

\* Their fields.
LEMMA SmKnown ==
    /\ SmSetup \in Machines /\ SmSetup.st = "SETUP_AP" /\ SmSetup.joined = 0
    /\ SmReplacing \in Machines /\ SmReplacing.st = "CONNECTING" /\ SmReplacing.joined = 2
BY DEF SmSetup, SmReplacing, Sm, Machines, WifiStates

\* The rows of the state machine.
LEMMA StepForget ==
    ASSUME NEW s, NEW t
    PROVE  SmStep(s, "FORGET", t) = Does(SmSetup, <<"STA_STOP", "CLEAR_CREDS", "AP_START">>)
BY DEF SmStep, SmSetup

\* The states in which credentials that joined are replaced.
Replaces(s) == s.st \in {"CONNECTING", "ONLINE", "RETRYING"} /\ s.joined # 0

\* REPLACE of credentials that joined.
LEMMA StepReplace ==
    ASSUME NEW s, NEW t, Replaces(s)
    PROVE  SmStep(s, "REPLACE", t) = Does(SmReplacing, <<"STA_STOP", "AP_START", "STA_START">>)
BY DEF SmStep, Replaces, SmReplacing

\* The two events of a boot.
LEMMA StepBoot ==
    ASSUME NEW s, NEW t, s.st = "UNPROVISIONED"
    PROVE  /\ SmStep(s, "BOOT_NO_CREDS", t) = Does(SmSetup, <<"AP_START">>)
           /\ SmStep(s, "BOOT_WITH_CREDS", t) = Does(Sm("CONNECTING", s.ap, 1), <<"STA_START">>)
BY DEF SmStep, SmSetup

\* CREDS_SET in setup.
LEMMA StepCredsSet ==
    ASSUME NEW s, NEW t
    PROVE  /\ s.st = "SETUP_AP" =>
                 SmStep(s, "CREDS_SET", t) = Does([s EXCEPT !.st = "CONNECTING"], <<"STA_START">>)
           /\ s.st = "SETUP_AP_RETRYING" =>
                 SmStep(s, "CREDS_SET", t) = Does(Sm("CONNECTING", s.ap, 0), <<"STA_START">>)
BY DEF SmStep

\* GOT_IP while something is being joined.
LEMMA StepGotIp ==
    ASSUME NEW s, NEW t, s.st \in {"CONNECTING", "RETRYING", "SETUP_AP_RETRYING"}
    PROVE  SmStep(s, "GOT_IP", t) = Does(Sm("ONLINE", s.ap, 1), <<>>)
BY DEF SmStep

\* LOST while online.
LEMMA StepLost ==
    ASSUME NEW s, NEW t, s.st = "ONLINE"
    PROVE  SmStep(s, "LOST", t) = Does(Sm("RETRYING", s.ap, s.joined), <<"STA_STOP">>)
BY DEF SmStep

\* FAILED: only a join that is waited for fails, and what follows is up to what joined before.
LEMMA StepFails ==
    ASSUME NEW s, NEW t
    PROVE  /\ s.st # "CONNECTING" => SmStep(s, "FAILED", t) = Does(s, <<>>)
           /\ s.st = "CONNECTING" /\ s.joined = 0 =>
                 SmStep(s, "FAILED", t) = Does(SmSetup, <<"CLEAR_CREDS">>)
           /\ s.st = "CONNECTING" /\ s.joined = 2 =>
                 SmStep(s, "FAILED", t) = Does(Sm("RETRYING", s.ap, 1), <<"RESTORE_PREV">>)
           /\ s.st = "CONNECTING" /\ s.joined # 0 /\ s.joined # 2 =>
                 SmStep(s, "FAILED", t) = Does(Sm("RETRYING", s.ap, 1), <<>>)
<1>1. s.st # "CONNECTING" => SmStep(s, "FAILED", t) = Does(s, <<>>)
  BY DEF SmStep
<1>2. s.st = "CONNECTING" => SmStep(s, "FAILED", t) = StepFailed(s)
  BY DEF SmStep
<1>3. /\ s.joined = 0 => StepFailed(s) = Does(SmSetup, <<"CLEAR_CREDS">>)
      /\ s.joined = 2 => StepFailed(s) = Does(Sm("RETRYING", s.ap, 1), <<"RESTORE_PREV">>)
      /\ s.joined # 0 /\ s.joined # 2 => StepFailed(s) = Does(Sm("RETRYING", s.ap, 1), <<>>)
  <2>1. ASSUME s.joined = 0 PROVE StepFailed(s) = Does(SmSetup, <<"CLEAR_CREDS">>)
    BY <2>1, Zenon DEF StepFailed, SmSetup
  <2>2. ASSUME s.joined = 2 PROVE StepFailed(s) = Does(Sm("RETRYING", s.ap, 1), <<"RESTORE_PREV">>)
    <3>1. s.joined # 0
      BY <2>2
    <3> QED
      BY <2>2, <3>1, Zenon DEF StepFailed, SmSetup
  <2>3. ASSUME s.joined # 0, s.joined # 2 PROVE StepFailed(s) = Does(Sm("RETRYING", s.ap, 1), <<>>)
    BY <2>3, Zenon DEF StepFailed, SmSetup
  <2> QED
    BY <2>1, <2>2, <2>3
<1> QED
  BY <1>1, <1>2, <1>3

\* A tick: nothing, a stamp, a retry, and the hotspot opened or closed.
Stamped(s) == [s EXCEPT !.since = TRUE]
Opened(s) == [s EXCEPT !.st = "SETUP_AP_RETRYING", !.ap = TRUE]

\* The outcomes of a tick, whatever timers have run out.
LEMMA StepTicks ==
    ASSUME NEW s, NEW t
    PROVE  /\ s.st \notin {"ONLINE", "RETRYING", "SETUP_AP_RETRYING"} => SmStep(s, "TICK", t) = Does(s, <<>>)
           /\ s.st = "ONLINE" => SmStep(s, "TICK", t) \in
                 {Does(s, <<>>), Does(Stamped(s), <<>>), Does([s EXCEPT !.ap = FALSE], <<"AP_STOP">>)}
           /\ s.st = "SETUP_AP_RETRYING" => SmStep(s, "TICK", t) \in
                 {Does(s, <<>>), Does(Stamped(s), <<>>), Does(s, <<"STA_START">>)}
           /\ s.st = "RETRYING" => SmStep(s, "TICK", t) \in
                 {Does(s, <<>>), Does(Stamped(s), <<>>), Does(s, <<"STA_START">>),
                  Does(Opened(s), <<"AP_START">>), Does(Opened(s), <<"STA_START", "AP_START">>)}
<1>1. s.st \notin {"ONLINE", "RETRYING", "SETUP_AP_RETRYING"} => SmStep(s, "TICK", t) = Does(s, <<>>)
  BY DEF SmStep
<1>2. s.st = "ONLINE" => SmStep(s, "TICK", t) = TickOnline(s, t)
  BY DEF SmStep
<1>3. s.st \in {"RETRYING", "SETUP_AP_RETRYING"} => SmStep(s, "TICK", t) = TickRetrying(s, t)
  BY DEF SmStep
<1>4. TickOnline(s, t) \in
          {Does(s, <<>>), Does(Stamped(s), <<>>), Does([s EXCEPT !.ap = FALSE], <<"AP_STOP">>)}
  BY DEF TickOnline, Stamped
<1>5. <<>> \o <<>> = <<>> /\ <<"STA_START">> \o <<>> = <<"STA_START">> /\ <<>> \o <<"AP_START">> = <<"AP_START">>
      /\ <<"STA_START">> \o <<"AP_START">> = <<"STA_START", "AP_START">>
  <2> DEFINE T == {"STA_START", "AP_START"}
             one == <<"STA_START">>
             other == <<"AP_START">>
             both == <<"STA_START", "AP_START">>
  <2>1. /\ one \in Seq(T) /\ Len(one) = 1 /\ one[1] = "STA_START"
        /\ other \in Seq(T) /\ Len(other) = 1 /\ other[1] = "AP_START"
        /\ both \in Seq(T) /\ Len(both) = 2 /\ both[1] = "STA_START" /\ both[2] = "AP_START"
    OBVIOUS
  <2> HIDE DEF T, one, other, both
  <2>2. one \o <<>> = one /\ <<>> \o other = other
    BY <2>1, ConcatEmptySeq
  <2>3. /\ one \o other \in Seq(T) /\ Len(one \o other) = 2
        /\ \A m \in 1..2 : (one \o other)[m] = IF m <= 1 THEN one[m] ELSE other[m - 1]
    BY <2>1, ConcatProperties
  <2>4. \A m \in 1..2 : (one \o other)[m] = both[m]
    BY <2>1, <2>3
  <2>5. one \o other = both
    BY <2>1, <2>3, <2>4, SeqEqual
  <2> QED
    BY <2>2, <2>5 DEF one, other, both
<1>6. TickRetrying(s, t) \in
          {Does(s, <<>>), Does(Stamped(s), <<>>), Does(s, <<"STA_START">>)} \cup
          (IF s.st = "RETRYING" THEN {Does(Opened(s), <<"AP_START">>), Does(Opened(s), <<"STA_START", "AP_START">>)} ELSE {})
  BY <1>5 DEF TickRetrying, Stamped, Opened
<1> QED
  BY <1>1, <1>2, <1>3, <1>4, <1>6

\* The driver takes the join that a step starts.
Takes(y) == y = TRUE

\* What each action does to the runtime's RAM, field by field.
LEMMA ApStarts ==
    ASSUME NEW y, NEW m, NEW v \in Rams, NEW d
    PROVE  \E u \in Rams : /\ RunAction(St(m, v, d), "AP_START", y) = St(m, u, d)
                           /\ u.creds = v.creds /\ u.prev = v.prev /\ u.credsOk = v.credsOk /\ u.joinFailed = v.joinFailed
                           /\ u.apRun /\ u.join = v.join /\ u.phase = v.phase
<1> DEFINE u == [v EXCEPT !.apRun = TRUE]
<1>1. u \in Rams
  BY DEF Rams
<1>2. /\ u.creds = v.creds /\ u.prev = v.prev /\ u.credsOk = v.credsOk /\ u.joinFailed = v.joinFailed
      /\ u.apRun /\ u.join = v.join /\ u.phase = v.phase
  BY DEF Rams
<1>3. RunAction(St(m, v, d), "AP_START", y) = St(m, u, d)
  BY DEF RunAction, With, St
<1> HIDE DEF u
<1> QED
  BY <1>1, <1>2, <1>3

\* The hotspot goes down.
LEMMA ApStops ==
    ASSUME NEW y, NEW m, NEW v \in Rams, NEW d
    PROVE  \E u \in Rams : /\ RunAction(St(m, v, d), "AP_STOP", y) = St(m, u, d)
                           /\ u.creds = v.creds /\ u.prev = v.prev /\ u.credsOk = v.credsOk /\ u.joinFailed = v.joinFailed
                           /\ ~u.apRun /\ u.join = v.join /\ u.phase = v.phase
<1> DEFINE u == [v EXCEPT !.apRun = FALSE]
<1>1. u \in Rams
  BY DEF Rams
<1>2. /\ u.creds = v.creds /\ u.prev = v.prev /\ u.credsOk = v.credsOk /\ u.joinFailed = v.joinFailed
      /\ ~u.apRun /\ u.join = v.join /\ u.phase = v.phase
  BY DEF Rams
<1>3. RunAction(St(m, v, d), "AP_STOP", y) = St(m, u, d)
  BY DEF RunAction, With, St
<1> HIDE DEF u
<1> QED
  BY <1>1, <1>2, <1>3

\* The station and its join are dropped.
LEMMA StaStops ==
    ASSUME NEW y, NEW m, NEW v \in Rams, NEW d
    PROVE  \E u \in Rams : /\ RunAction(St(m, v, d), "STA_STOP", y) = St(m, u, d)
                           /\ u.creds = v.creds /\ u.prev = v.prev /\ u.credsOk = v.credsOk /\ u.joinFailed = v.joinFailed
                           /\ u.apRun = v.apRun /\ u.join = NoCreds /\ u.phase = "idle"
<1> DEFINE u == [v EXCEPT !.join = NoCreds, !.phase = "idle"]
<1> NoCreds \in Creds
  BY DEF NoCreds, Creds, Named
<1>1. u \in Rams
  BY DEF Rams
<1>2. /\ u.creds = v.creds /\ u.prev = v.prev /\ u.credsOk = v.credsOk /\ u.joinFailed = v.joinFailed
      /\ u.apRun = v.apRun /\ u.join = NoCreds /\ u.phase = "idle"
  BY DEF Rams
<1>3. RunAction(St(m, v, d), "STA_STOP", y) = St(m, u, d)
  BY DEF RunAction, With, St
<1> HIDE DEF u
<1> QED
  BY <1>1, <1>2, <1>3

\* A join of the credentials in use is in flight, the same as before or a new one.
LEMMA StaStarts ==
    ASSUME NEW y, Takes(y), NEW m, NEW v \in Rams, NEW d, v.creds # NoCreds
    PROVE  \E u \in Rams : /\ RunAction(St(m, v, d), "STA_START", y) = St(m, u, d)
                           /\ u.creds = v.creds /\ u.prev = v.prev /\ u.credsOk = v.credsOk /\ u.joinFailed = v.joinFailed
                           /\ u.apRun = v.apRun /\ u.join = v.creds /\ u.phase = "joining"
<1> DEFINE u == [v EXCEPT !.join = v.creds, !.phase = "joining"]
<1>1. u \in Rams
  BY DEF Rams
<1>2. /\ u.creds = v.creds /\ u.prev = v.prev /\ u.credsOk = v.credsOk /\ u.joinFailed = v.joinFailed
      /\ u.apRun = v.apRun /\ u.join = v.creds /\ u.phase = "joining"
  BY DEF Rams
<1>3. RunAction(St(m, v, d), "STA_START", y) = St(m, u, d)
  <2>1. RunAction(St(m, v, d), "STA_START", y) = StaStart(St(m, v, d), y)
    BY DEF RunAction
  <2>2. CASE v.phase = "joining" /\ v.join = v.creds
    <3>1. StaStart(St(m, v, d), y) = St(m, v, d)
      BY <2>2 DEF StaStart, St
    <3>2. v = u
      BY <2>2 DEF Rams
    <3> QED
      BY <2>1, <3>1, <3>2
  <2>3. CASE ~(v.phase = "joining" /\ v.join = v.creds)
    <3>1. StaStart(St(m, v, d), y) = St(m, u, d)
      BY <2>3 DEF StaStart, With, St, Takes
    <3> QED
      BY <2>1, <3>1
  <2> QED
    BY <2>2, <2>3
<1> HIDE DEF u
<1> QED
  BY <1>1, <1>2, <1>3

\* The credentials are marked as never joined, in RAM and in the store.
LEMMA Unjoins ==
    ASSUME NEW m, NEW v \in Rams
    PROVE  \E u \in Rams : /\ MarkUnjoined(St(m, v, <<>>)) = St(m, u, UnjoinedWrites)
                           /\ u.creds = v.creds /\ u.prev = v.prev /\ ~u.credsOk /\ u.joinFailed = v.joinFailed
                           /\ u.apRun = v.apRun /\ u.join = v.join /\ u.phase = v.phase
<1> DEFINE u == [v EXCEPT !.credsOk = FALSE]
<1>1. u \in Rams
  BY DEF Rams
<1>2. /\ u.creds = v.creds /\ u.prev = v.prev /\ ~u.credsOk /\ u.joinFailed = v.joinFailed
      /\ u.apRun = v.apRun /\ u.join = v.join /\ u.phase = v.phase
  BY DEF Rams
<1>3. MarkUnjoined(St(m, v, <<>>)) = St(m, u, UnjoinedWrites)
  <2>1. <<>> \o UnjoinedWrites = UnjoinedWrites
    BY DEF UnjoinedWrites
  <2>2. St(m, v, <<>>).sm = m /\ St(m, v, <<>>).w = v /\ St(m, v, <<>>).todo = <<>>
    BY DEF St
  <2>3. MarkUnjoined(St(m, v, <<>>)) = St(m, u, <<>> \o UnjoinedWrites)
    BY <2>2, Zenon DEF MarkUnjoined, UnjoinedWrites
  <2> QED
    BY <2>1, <2>3
<1> HIDE DEF u
<1> QED
  BY <1>1, <1>2, <1>3

\* The credentials are cleared, in RAM and in the store.
LEMMA Clears ==
    ASSUME NEW y, NEW m, NEW v \in Rams
    PROVE  \E u \in Rams : /\ RunAction(St(m, v, <<>>), "CLEAR_CREDS", y) = St(m, u, ClearWrites)
                           /\ u.creds = NoCreds /\ u.prev = v.prev /\ ~u.credsOk /\ u.joinFailed = v.joinFailed
                           /\ u.apRun = v.apRun /\ u.join = v.join /\ u.phase = v.phase
<1> DEFINE u == [v EXCEPT !.creds = NoCreds, !.credsOk = FALSE]
<1> NoCreds \in Creds
  BY DEF NoCreds, Creds, Named
<1>1. u \in Rams
  BY DEF Rams
<1>2. /\ u.creds = NoCreds /\ u.prev = v.prev /\ ~u.credsOk /\ u.joinFailed = v.joinFailed
      /\ u.apRun = v.apRun /\ u.join = v.join /\ u.phase = v.phase
  BY DEF Rams
<1>3. RunAction(St(m, v, <<>>), "CLEAR_CREDS", y) = St(m, u, ClearWrites)
  <2>1. <<>> \o ClearWrites = ClearWrites
    BY DEF ClearWrites
  <2>2. St(m, v, <<>>).sm = m /\ St(m, v, <<>>).w = v /\ St(m, v, <<>>).todo = <<>>
    BY DEF St
  <2>3. ClearCreds(St(m, v, <<>>)) = St(m, u, <<>> \o ClearWrites)
    BY <2>2, Zenon DEF ClearCreds, ClearWrites
  <2>4. RunAction(St(m, v, <<>>), "CLEAR_CREDS", y) = ClearCreds(St(m, v, <<>>))
    BY DEF RunAction
  <2> QED
    BY <2>1, <2>3, <2>4
<1> HIDE DEF u
<1> QED
  BY <1>1, <1>2, <1>3

\* The fallback is in use again, in RAM and in the store.
LEMMA Restores ==
    ASSUME NEW y, NEW m, NEW v \in Rams, v.prev # NoCreds
    PROVE  \E u \in Rams : /\ RunAction(St(m, v, <<>>), "RESTORE_PREV", y) = St(m, u, RestoreWrites(v.prev))
                           /\ u.creds = v.prev /\ u.prev = NoCreds /\ u.credsOk /\ u.joinFailed = v.joinFailed
                           /\ u.apRun = v.apRun /\ u.join = v.join /\ u.phase = v.phase
<1> DEFINE u == [v EXCEPT !.creds = v.prev, !.prev = NoCreds, !.credsOk = TRUE]
<1> NoCreds \in Creds
  BY DEF NoCreds, Creds, Named
<1>1. u \in Rams
  BY DEF Rams
<1>2. /\ u.creds = v.prev /\ u.prev = NoCreds /\ u.credsOk /\ u.joinFailed = v.joinFailed
      /\ u.apRun = v.apRun /\ u.join = v.join /\ u.phase = v.phase
  BY DEF Rams
<1>3. RunAction(St(m, v, <<>>), "RESTORE_PREV", y) = St(m, u, RestoreWrites(v.prev))
  <2>1. <<>> \o RestoreWrites(v.prev) = RestoreWrites(v.prev)
    BY DEF RestoreWrites
  <2>2. St(m, v, <<>>).sm = m /\ St(m, v, <<>>).w = v /\ St(m, v, <<>>).todo = <<>>
    BY DEF St
  <2>3. RestorePrev(St(m, v, <<>>)) = St(m, u, <<>> \o RestoreWrites(v.prev))
    BY <2>2, Zenon DEF RestorePrev, RestoreWrites
  <2>4. RunAction(St(m, v, <<>>), "RESTORE_PREV", y) = RestorePrev(St(m, v, <<>>))
    BY DEF RunAction
  <2> QED
    BY <2>1, <2>3, <2>4
<1> HIDE DEF u
<1> QED
  BY <1>1, <1>2, <1>3

\* What a step of the state machine with its actions leaves behind.
LEMMA FedForget ==
    ASSUME NEW y, NEW m, NEW v \in Rams
    PROVE  \E u \in Rams : /\ Feed(St(m, v, <<>>), "FORGET", y) = St(SmSetup, u, ClearWrites)
                           /\ u.creds = NoCreds /\ u.prev = v.prev /\ ~u.credsOk /\ u.joinFailed = v.joinFailed
                           /\ u.apRun /\ u.join = NoCreds /\ u.phase = "idle"
<1> DEFINE n == SmSetup
           q == <<"STA_STOP", "CLEAR_CREDS", "AP_START">>
<1>1. SmStep(m, "FORGET", NoTimer) = Does(n, q)
  BY StepForget
<1>2. q = <<"STA_STOP", "CLEAR_CREDS", "AP_START">>
  OBVIOUS
<1>3. n = SmSetup
  OBVIOUS
<1> HIDE DEF n, q
<1>4. Feed(St(m, v, <<>>), "FORGET", y) = RanAll(St(n, v, <<>>), q, y, "nothing")
  <2>1. FeedSkip(St(m, v, <<>>), "FORGET", NoTimer, y, "nothing") = RanAll(St(n, v, <<>>), q, y, "nothing")
    BY <1>1, FeedRuns
  <2> QED
    BY <2>1 DEF Feed
<1>5. RanAll(St(n, v, <<>>), q, y, "nothing") =
          RunAction(RunAction(RunAction(St(n, v, <<>>), "STA_STOP", y), "CLEAR_CREDS", y), "AP_START", y)
  <2> DEFINE x == St(n, v, <<>>)
  <2> HIDE DEF x
  <2>1. RanAll(x, q, y, "nothing") = RunAction(RunAction(RunAction(x, "STA_STOP", y), "CLEAR_CREDS", y), "AP_START", y)
    BY <1>2, RanThree
  <2> QED
    BY <2>1 DEF x
<1>6. PICK u1 \in Rams : /\ RunAction(St(n, v, <<>>), "STA_STOP", y) = St(n, u1, <<>>)
                           /\ u1.creds = v.creds /\ u1.prev = v.prev /\ u1.credsOk = v.credsOk /\ u1.joinFailed = v.joinFailed
                           /\ u1.apRun = v.apRun /\ u1.join = NoCreds /\ u1.phase = "idle"
  BY StaStops
<1>7. PICK u2 \in Rams : /\ RunAction(St(n, u1, <<>>), "CLEAR_CREDS", y) = St(n, u2, ClearWrites)
                           /\ u2.creds = NoCreds /\ u2.prev = u1.prev /\ ~u2.credsOk /\ u2.joinFailed = u1.joinFailed
                           /\ u2.apRun = u1.apRun /\ u2.join = u1.join /\ u2.phase = u1.phase
  BY Clears
<1>8. PICK u3 \in Rams : /\ RunAction(St(n, u2, ClearWrites), "AP_START", y) = St(n, u3, ClearWrites)
                           /\ u3.creds = u2.creds /\ u3.prev = u2.prev /\ u3.credsOk = u2.credsOk /\ u3.joinFailed = u2.joinFailed
                           /\ u3.apRun /\ u3.join = u2.join /\ u3.phase = u2.phase
  BY ApStarts
<1>9. Feed(St(m, v, <<>>), "FORGET", y) = St(n, u3, ClearWrites)
  BY <1>4, <1>5, <1>6, <1>7, <1>8
<1>10. /\ u3.creds = NoCreds /\ u3.prev = v.prev /\ ~u3.credsOk /\ u3.joinFailed = v.joinFailed
      /\ u3.apRun /\ u3.join = NoCreds /\ u3.phase = "idle"
  BY <1>6, <1>7, <1>8
<1> QED
  BY <1>3, <1>9, <1>10

\* set_creds of credentials that replace none goes through the setup flow and keeps them.
LEMMA FedSetup ==
    ASSUME NEW y, NEW m, NEW v \in Rams, NEW d
    PROVE  \E u \in Rams : /\ FeedSkip(St(m, v, d), "FORGET", NoTimer, y, "CLEAR_CREDS") = St(SmSetup, u, d)
                           /\ u.creds = v.creds /\ u.prev = v.prev /\ u.credsOk = v.credsOk /\ u.joinFailed = v.joinFailed
                           /\ u.apRun /\ u.join = NoCreds /\ u.phase = "idle"
<1> DEFINE n == SmSetup
           q == <<"STA_STOP", "CLEAR_CREDS", "AP_START">>
<1>1. SmStep(m, "FORGET", NoTimer) = Does(n, q)
  BY StepForget
<1>2. q = <<"STA_STOP", "CLEAR_CREDS", "AP_START">>
  OBVIOUS
<1>3. n = SmSetup
  OBVIOUS
<1> HIDE DEF n, q
<1>4. FeedSkip(St(m, v, d), "FORGET", NoTimer, y, "CLEAR_CREDS") = RanAll(St(n, v, d), q, y, "CLEAR_CREDS")
  BY <1>1, FeedRuns
<1>5. RanAll(St(n, v, d), q, y, "CLEAR_CREDS") =
          RunAction(RunAction(St(n, v, d), "STA_STOP", y), "AP_START", y)
  <2> DEFINE x == St(n, v, d)
  <2> HIDE DEF x
  <2>1. RanAll(x, q, y, "CLEAR_CREDS") = RunAction(RunAction(x, "STA_STOP", y), "AP_START", y)
    BY <1>2, RanThree
  <2> QED
    BY <2>1 DEF x
<1>6. PICK u1 \in Rams : /\ RunAction(St(n, v, d), "STA_STOP", y) = St(n, u1, d)
                           /\ u1.creds = v.creds /\ u1.prev = v.prev /\ u1.credsOk = v.credsOk /\ u1.joinFailed = v.joinFailed
                           /\ u1.apRun = v.apRun /\ u1.join = NoCreds /\ u1.phase = "idle"
  BY StaStops
<1>7. PICK u2 \in Rams : /\ RunAction(St(n, u1, d), "AP_START", y) = St(n, u2, d)
                           /\ u2.creds = u1.creds /\ u2.prev = u1.prev /\ u2.credsOk = u1.credsOk /\ u2.joinFailed = u1.joinFailed
                           /\ u2.apRun /\ u2.join = u1.join /\ u2.phase = u1.phase
  BY ApStarts
<1>8. FeedSkip(St(m, v, d), "FORGET", NoTimer, y, "CLEAR_CREDS") = St(n, u2, d)
  BY <1>4, <1>5, <1>6, <1>7
<1>9. /\ u2.creds = v.creds /\ u2.prev = v.prev /\ u2.credsOk = v.credsOk /\ u2.joinFailed = v.joinFailed
      /\ u2.apRun /\ u2.join = NoCreds /\ u2.phase = "idle"
  BY <1>6, <1>7
<1> QED
  BY <1>3, <1>8, <1>9

\* A replacement is tried with the hotspot up.
LEMMA FedReplace ==
    ASSUME NEW y, Takes(y), NEW m, NEW v \in Rams, NEW d, v.creds # NoCreds, Replaces(m)
    PROVE  \E u \in Rams : /\ Feed(St(m, v, d), "REPLACE", y) = St(SmReplacing, u, d)
                           /\ u.creds = v.creds /\ u.prev = v.prev /\ u.credsOk = v.credsOk /\ u.joinFailed = v.joinFailed
                           /\ u.apRun /\ u.join = v.creds /\ u.phase = "joining"
<1> DEFINE n == SmReplacing
           q == <<"STA_STOP", "AP_START", "STA_START">>
<1>1. SmStep(m, "REPLACE", NoTimer) = Does(n, q)
  BY StepReplace
<1>2. q = <<"STA_STOP", "AP_START", "STA_START">>
  OBVIOUS
<1>3. n = SmReplacing
  OBVIOUS
<1> HIDE DEF n, q
<1>4. Feed(St(m, v, d), "REPLACE", y) = RanAll(St(n, v, d), q, y, "nothing")
  <2>1. FeedSkip(St(m, v, d), "REPLACE", NoTimer, y, "nothing") = RanAll(St(n, v, d), q, y, "nothing")
    BY <1>1, FeedRuns
  <2> QED
    BY <2>1 DEF Feed
<1>5. RanAll(St(n, v, d), q, y, "nothing") =
          RunAction(RunAction(RunAction(St(n, v, d), "STA_STOP", y), "AP_START", y), "STA_START", y)
  <2> DEFINE x == St(n, v, d)
  <2> HIDE DEF x
  <2>1. RanAll(x, q, y, "nothing") = RunAction(RunAction(RunAction(x, "STA_STOP", y), "AP_START", y), "STA_START", y)
    BY <1>2, RanThree
  <2> QED
    BY <2>1 DEF x
<1>6. PICK u1 \in Rams : /\ RunAction(St(n, v, d), "STA_STOP", y) = St(n, u1, d)
                           /\ u1.creds = v.creds /\ u1.prev = v.prev /\ u1.credsOk = v.credsOk /\ u1.joinFailed = v.joinFailed
                           /\ u1.apRun = v.apRun /\ u1.join = NoCreds /\ u1.phase = "idle"
  BY StaStops
<1>7. PICK u2 \in Rams : /\ RunAction(St(n, u1, d), "AP_START", y) = St(n, u2, d)
                           /\ u2.creds = u1.creds /\ u2.prev = u1.prev /\ u2.credsOk = u1.credsOk /\ u2.joinFailed = u1.joinFailed
                           /\ u2.apRun /\ u2.join = u1.join /\ u2.phase = u1.phase
  BY ApStarts
<1>8. PICK u3 \in Rams : /\ RunAction(St(n, u2, d), "STA_START", y) = St(n, u3, d)
                           /\ u3.creds = u2.creds /\ u3.prev = u2.prev /\ u3.credsOk = u2.credsOk /\ u3.joinFailed = u2.joinFailed
                           /\ u3.apRun = u2.apRun /\ u3.join = u2.creds /\ u3.phase = "joining"
  <2>1. u2.creds # NoCreds
    BY <1>6, <1>7
  <2> QED
    BY <2>1, StaStarts
<1>9. Feed(St(m, v, d), "REPLACE", y) = St(n, u3, d)
  BY <1>4, <1>5, <1>6, <1>7, <1>8
<1>10. /\ u3.creds = v.creds /\ u3.prev = v.prev /\ u3.credsOk = v.credsOk /\ u3.joinFailed = v.joinFailed
      /\ u3.apRun /\ u3.join = v.creds /\ u3.phase = "joining"
  BY <1>6, <1>7, <1>8
<1> QED
  BY <1>3, <1>9, <1>10

\* A boot with no credentials opens the hotspot.
LEMMA FedBootEmpty ==
    ASSUME NEW y, NEW m, NEW v \in Rams, NEW d, m.st = "UNPROVISIONED"
    PROVE  \E u \in Rams : /\ Feed(St(m, v, d), "BOOT_NO_CREDS", y) = St(SmSetup, u, d)
                           /\ u.creds = v.creds /\ u.prev = v.prev /\ u.credsOk = v.credsOk /\ u.joinFailed = v.joinFailed
                           /\ u.apRun /\ u.join = v.join /\ u.phase = v.phase
<1> DEFINE n == SmSetup
           q == <<"AP_START">>
<1>1. SmStep(m, "BOOT_NO_CREDS", NoTimer) = Does(n, q)
  BY StepBoot
<1>2. q = <<"AP_START">>
  OBVIOUS
<1>3. n = SmSetup
  OBVIOUS
<1> HIDE DEF n, q
<1>4. Feed(St(m, v, d), "BOOT_NO_CREDS", y) = RanAll(St(n, v, d), q, y, "nothing")
  <2>1. FeedSkip(St(m, v, d), "BOOT_NO_CREDS", NoTimer, y, "nothing") = RanAll(St(n, v, d), q, y, "nothing")
    BY <1>1, FeedRuns
  <2> QED
    BY <2>1 DEF Feed
<1>5. RanAll(St(n, v, d), q, y, "nothing") =
          RunAction(St(n, v, d), "AP_START", y)
  <2> DEFINE x == St(n, v, d)
  <2> HIDE DEF x
  <2>1. RanAll(x, q, y, "nothing") = RunAction(x, "AP_START", y)
    BY <1>2, RanOne
  <2> QED
    BY <2>1 DEF x
<1>6. PICK u1 \in Rams : /\ RunAction(St(n, v, d), "AP_START", y) = St(n, u1, d)
                           /\ u1.creds = v.creds /\ u1.prev = v.prev /\ u1.credsOk = v.credsOk /\ u1.joinFailed = v.joinFailed
                           /\ u1.apRun /\ u1.join = v.join /\ u1.phase = v.phase
  BY ApStarts
<1>7. Feed(St(m, v, d), "BOOT_NO_CREDS", y) = St(n, u1, d)
  BY <1>4, <1>5, <1>6
<1>8. /\ u1.creds = v.creds /\ u1.prev = v.prev /\ u1.credsOk = v.credsOk /\ u1.joinFailed = v.joinFailed
      /\ u1.apRun /\ u1.join = v.join /\ u1.phase = v.phase
  BY <1>6
<1> QED
  BY <1>3, <1>7, <1>8

\* A boot with credentials joins them.
LEMMA FedBoot ==
    ASSUME NEW y, Takes(y), NEW m, NEW v \in Rams, NEW d, m.st = "UNPROVISIONED", v.creds # NoCreds
    PROVE  \E u \in Rams : /\ Feed(St(m, v, d), "BOOT_WITH_CREDS", y) = St(Sm("CONNECTING", m.ap, 1), u, d)
                           /\ u.creds = v.creds /\ u.prev = v.prev /\ u.credsOk = v.credsOk /\ u.joinFailed = v.joinFailed
                           /\ u.apRun = v.apRun /\ u.join = v.creds /\ u.phase = "joining"
<1> DEFINE n == Sm("CONNECTING", m.ap, 1)
           q == <<"STA_START">>
<1>1. SmStep(m, "BOOT_WITH_CREDS", NoTimer) = Does(n, q)
  BY StepBoot
<1>2. q = <<"STA_START">>
  OBVIOUS
<1>3. n = Sm("CONNECTING", m.ap, 1)
  OBVIOUS
<1> HIDE DEF n, q
<1>4. Feed(St(m, v, d), "BOOT_WITH_CREDS", y) = RanAll(St(n, v, d), q, y, "nothing")
  <2>1. FeedSkip(St(m, v, d), "BOOT_WITH_CREDS", NoTimer, y, "nothing") = RanAll(St(n, v, d), q, y, "nothing")
    BY <1>1, FeedRuns
  <2> QED
    BY <2>1 DEF Feed
<1>5. RanAll(St(n, v, d), q, y, "nothing") =
          RunAction(St(n, v, d), "STA_START", y)
  <2> DEFINE x == St(n, v, d)
  <2> HIDE DEF x
  <2>1. RanAll(x, q, y, "nothing") = RunAction(x, "STA_START", y)
    BY <1>2, RanOne
  <2> QED
    BY <2>1 DEF x
<1>6. PICK u1 \in Rams : /\ RunAction(St(n, v, d), "STA_START", y) = St(n, u1, d)
                           /\ u1.creds = v.creds /\ u1.prev = v.prev /\ u1.credsOk = v.credsOk /\ u1.joinFailed = v.joinFailed
                           /\ u1.apRun = v.apRun /\ u1.join = v.creds /\ u1.phase = "joining"
  BY StaStarts
<1>7. Feed(St(m, v, d), "BOOT_WITH_CREDS", y) = St(n, u1, d)
  BY <1>4, <1>5, <1>6
<1>8. /\ u1.creds = v.creds /\ u1.prev = v.prev /\ u1.credsOk = v.credsOk /\ u1.joinFailed = v.joinFailed
      /\ u1.apRun = v.apRun /\ u1.join = v.creds /\ u1.phase = "joining"
  BY <1>6
<1> QED
  BY <1>3, <1>7, <1>8

\* A lost network is retried.
LEMMA FedLost ==
    ASSUME NEW y, NEW m, NEW v \in Rams, NEW d, m.st = "ONLINE"
    PROVE  \E u \in Rams : /\ Feed(St(m, v, d), "LOST", y) = St(Sm("RETRYING", m.ap, m.joined), u, d)
                           /\ u.creds = v.creds /\ u.prev = v.prev /\ u.credsOk = v.credsOk /\ u.joinFailed = v.joinFailed
                           /\ u.apRun = v.apRun /\ u.join = NoCreds /\ u.phase = "idle"
<1> DEFINE n == Sm("RETRYING", m.ap, m.joined)
           q == <<"STA_STOP">>
<1>1. SmStep(m, "LOST", NoTimer) = Does(n, q)
  BY StepLost
<1>2. q = <<"STA_STOP">>
  OBVIOUS
<1>3. n = Sm("RETRYING", m.ap, m.joined)
  OBVIOUS
<1> HIDE DEF n, q
<1>4. Feed(St(m, v, d), "LOST", y) = RanAll(St(n, v, d), q, y, "nothing")
  <2>1. FeedSkip(St(m, v, d), "LOST", NoTimer, y, "nothing") = RanAll(St(n, v, d), q, y, "nothing")
    BY <1>1, FeedRuns
  <2> QED
    BY <2>1 DEF Feed
<1>5. RanAll(St(n, v, d), q, y, "nothing") =
          RunAction(St(n, v, d), "STA_STOP", y)
  <2> DEFINE x == St(n, v, d)
  <2> HIDE DEF x
  <2>1. RanAll(x, q, y, "nothing") = RunAction(x, "STA_STOP", y)
    BY <1>2, RanOne
  <2> QED
    BY <2>1 DEF x
<1>6. PICK u1 \in Rams : /\ RunAction(St(n, v, d), "STA_STOP", y) = St(n, u1, d)
                           /\ u1.creds = v.creds /\ u1.prev = v.prev /\ u1.credsOk = v.credsOk /\ u1.joinFailed = v.joinFailed
                           /\ u1.apRun = v.apRun /\ u1.join = NoCreds /\ u1.phase = "idle"
  BY StaStops
<1>7. Feed(St(m, v, d), "LOST", y) = St(n, u1, d)
  BY <1>4, <1>5, <1>6
<1>8. /\ u1.creds = v.creds /\ u1.prev = v.prev /\ u1.credsOk = v.credsOk /\ u1.joinFailed = v.joinFailed
      /\ u1.apRun = v.apRun /\ u1.join = NoCreds /\ u1.phase = "idle"
  BY <1>6
<1> QED
  BY <1>3, <1>7, <1>8

\* Connecting to credentials that never joined.
FirstTried(m) == m.st = "CONNECTING" /\ m.joined = 0

\* Credentials that never joined are cleared and setup goes on.
LEMMA FedFailsNew ==
    ASSUME NEW y, NEW m, NEW v \in Rams, FirstTried(m)
    PROVE  \E u \in Rams : /\ Feed(St(m, v, <<>>), "FAILED", y) = St(SmSetup, u, ClearWrites)
                           /\ u.creds = NoCreds /\ u.prev = v.prev /\ ~u.credsOk /\ u.joinFailed = v.joinFailed
                           /\ u.apRun = v.apRun /\ u.join = v.join /\ u.phase = v.phase
<1> DEFINE n == SmSetup
           q == <<"CLEAR_CREDS">>
<1>1. SmStep(m, "FAILED", NoTimer) = Does(n, q)
  BY StepFails DEF FirstTried
<1>2. q = <<"CLEAR_CREDS">>
  OBVIOUS
<1>3. n = SmSetup
  OBVIOUS
<1> HIDE DEF n, q
<1>4. Feed(St(m, v, <<>>), "FAILED", y) = RanAll(St(n, v, <<>>), q, y, "nothing")
  <2>1. FeedSkip(St(m, v, <<>>), "FAILED", NoTimer, y, "nothing") = RanAll(St(n, v, <<>>), q, y, "nothing")
    BY <1>1, FeedRuns
  <2> QED
    BY <2>1 DEF Feed
<1>5. RanAll(St(n, v, <<>>), q, y, "nothing") =
          RunAction(St(n, v, <<>>), "CLEAR_CREDS", y)
  <2> DEFINE x == St(n, v, <<>>)
  <2> HIDE DEF x
  <2>1. RanAll(x, q, y, "nothing") = RunAction(x, "CLEAR_CREDS", y)
    BY <1>2, RanOne
  <2> QED
    BY <2>1 DEF x
<1>6. PICK u1 \in Rams : /\ RunAction(St(n, v, <<>>), "CLEAR_CREDS", y) = St(n, u1, ClearWrites)
                           /\ u1.creds = NoCreds /\ u1.prev = v.prev /\ ~u1.credsOk /\ u1.joinFailed = v.joinFailed
                           /\ u1.apRun = v.apRun /\ u1.join = v.join /\ u1.phase = v.phase
  BY Clears
<1>7. Feed(St(m, v, <<>>), "FAILED", y) = St(n, u1, ClearWrites)
  BY <1>4, <1>5, <1>6
<1>8. /\ u1.creds = NoCreds /\ u1.prev = v.prev /\ ~u1.credsOk /\ u1.joinFailed = v.joinFailed
      /\ u1.apRun = v.apRun /\ u1.join = v.join /\ u1.phase = v.phase
  BY <1>6
<1> QED
  BY <1>3, <1>7, <1>8

\* Connecting to a replacement.
Replacing(m) == m.st = "CONNECTING" /\ m.joined = 2
SmGoesBack(m) == Sm("RETRYING", m.ap, 1)

\* A replacement that fails goes back to the credentials that joined.
LEMMA FedFailsReplaced ==
    ASSUME NEW y, NEW m, NEW v \in Rams, v.prev # NoCreds, Replacing(m)
    PROVE  \E u \in Rams : /\ Feed(St(m, v, <<>>), "FAILED", y) = St(SmGoesBack(m), u, RestoreWrites(v.prev))
                           /\ u.creds = v.prev /\ u.prev = NoCreds /\ u.credsOk /\ u.joinFailed = v.joinFailed
                           /\ u.apRun = v.apRun /\ u.join = v.join /\ u.phase = v.phase
<1> DEFINE n == SmGoesBack(m)
           q == <<"RESTORE_PREV">>
<1>1. SmStep(m, "FAILED", NoTimer) = Does(n, q)
  BY StepFails DEF Replacing, SmGoesBack
<1>2. q = <<"RESTORE_PREV">>
  OBVIOUS
<1>3. n = SmGoesBack(m)
  OBVIOUS
<1> HIDE DEF n, q
<1>4. Feed(St(m, v, <<>>), "FAILED", y) = RanAll(St(n, v, <<>>), q, y, "nothing")
  <2>1. FeedSkip(St(m, v, <<>>), "FAILED", NoTimer, y, "nothing") = RanAll(St(n, v, <<>>), q, y, "nothing")
    BY <1>1, FeedRuns
  <2> QED
    BY <2>1 DEF Feed
<1>5. RanAll(St(n, v, <<>>), q, y, "nothing") =
          RunAction(St(n, v, <<>>), "RESTORE_PREV", y)
  <2> DEFINE x == St(n, v, <<>>)
  <2> HIDE DEF x
  <2>1. RanAll(x, q, y, "nothing") = RunAction(x, "RESTORE_PREV", y)
    BY <1>2, RanOne
  <2> QED
    BY <2>1 DEF x
<1>6. PICK u1 \in Rams : /\ RunAction(St(n, v, <<>>), "RESTORE_PREV", y) = St(n, u1, RestoreWrites(v.prev))
                           /\ u1.creds = v.prev /\ u1.prev = NoCreds /\ u1.credsOk /\ u1.joinFailed = v.joinFailed
                           /\ u1.apRun = v.apRun /\ u1.join = v.join /\ u1.phase = v.phase
  BY Restores
<1>7. Feed(St(m, v, <<>>), "FAILED", y) = St(n, u1, RestoreWrites(v.prev))
  BY <1>4, <1>5, <1>6
<1>8. /\ u1.creds = v.prev /\ u1.prev = NoCreds /\ u1.credsOk /\ u1.joinFailed = v.joinFailed
      /\ u1.apRun = v.apRun /\ u1.join = v.join /\ u1.phase = v.phase
  BY <1>6
<1> QED
  BY <1>3, <1>7, <1>8

\* CREDS_SET drops the fallback and joins.
\* The machine in setup, and after CREDS_SET.
TriesCreds(m, n) ==
    \/ m.st = "SETUP_AP" /\ n = [m EXCEPT !.st = "CONNECTING"]
    \/ m.st = "SETUP_AP_RETRYING" /\ n = Sm("CONNECTING", m.ap, 0)

\* Credentials set in setup are tried.
LEMMA FedCredsSet ==
    ASSUME NEW y, Takes(y), NEW m, NEW v \in Rams, NEW d, NEW n, v.creds # NoCreds, TriesCreds(m, n)
    PROVE  \E u \in Rams : /\ FeedCredsSet(St(m, v, d), y) = St(n, u, d)
                           /\ u.creds = v.creds /\ u.prev = NoCreds /\ u.credsOk = v.credsOk /\ u.joinFailed = v.joinFailed
                           /\ u.apRun = v.apRun /\ u.join = v.creds /\ u.phase = "joining"
<1> DEFINE u1 == [v EXCEPT !.prev = NoCreds]
           q == <<"STA_START">>
<1> NoCreds \in Creds
  BY DEF NoCreds, Creds, Named
<1>1. u1 \in Rams
  BY DEF Rams
<1>2. /\ u1.creds = v.creds /\ u1.prev = NoCreds /\ u1.credsOk = v.credsOk /\ u1.joinFailed = v.joinFailed
      /\ u1.apRun = v.apRun /\ u1.join = v.join /\ u1.phase = v.phase
  BY DEF Rams
<1>3. With(St(m, v, d), [St(m, v, d).w EXCEPT !.prev = NoCreds]) = St(m, u1, d)
  BY DEF With, St
<1>4. SmStep(m, "CREDS_SET", NoTimer) = Does(n, q)
  BY StepCredsSet, Zenon DEF TriesCreds
<1>5. q = <<"STA_START">>
  OBVIOUS
<1> HIDE DEF u1, q
<1>6. FeedSkip(St(m, u1, d), "CREDS_SET", NoTimer, y, "nothing") = RanAll(St(n, u1, d), q, y, "nothing")
  BY <1>4, FeedRuns
<1>7. RanAll(St(n, u1, d), q, y, "nothing") = RunAction(St(n, u1, d), "STA_START", y)
  <2> DEFINE x == St(n, u1, d)
  <2> HIDE DEF x
  <2>1. RanAll(x, q, y, "nothing") = RunAction(x, "STA_START", y)
    BY <1>5, RanOne
  <2> QED
    BY <2>1 DEF x
<1>8. FeedCredsSet(St(m, v, d), y) = RunAction(St(n, u1, d), "STA_START", y)
  BY <1>3, <1>6, <1>7, Zenon DEF FeedCredsSet, Feed
<1>9. PICK u \in Rams : /\ RunAction(St(n, u1, d), "STA_START", y) = St(n, u, d)
                        /\ u.creds = u1.creds /\ u.prev = u1.prev /\ u.credsOk = u1.credsOk /\ u.joinFailed = u1.joinFailed
                        /\ u.apRun = u1.apRun /\ u.join = u1.creds /\ u.phase = "joining"
  <2>1. u1.creds # NoCreds
    BY <1>2
  <2> QED
    BY <1>1, <2>1, StaStarts
<1>10. FeedCredsSet(St(m, v, d), y) = St(n, u, d)
  BY <1>8, <1>9
<1>11. /\ u.creds = v.creds /\ u.prev = NoCreds /\ u.credsOk = v.credsOk /\ u.joinFailed = v.joinFailed
       /\ u.apRun = v.apRun /\ u.join = v.creds /\ u.phase = "joining"
  BY <1>2, <1>9
<1> QED
  BY <1>10, <1>11

\* A step without an action.
LEMMA FedNone ==
    ASSUME NEW y, NEW m, NEW v, NEW d, NEW ev, NEW t, NEW n, SmStep(m, ev, t) = Does(n, <<>>)
    PROVE  FeedSkip(St(m, v, d), ev, t, y, "nothing") = St(n, v, d)
<1> DEFINE q == <<>>
<1>1. SmStep(m, ev, t) = Does(n, q) /\ q = <<>>
  OBVIOUS
<1> HIDE DEF q
<1>2. FeedSkip(St(m, v, d), ev, t, y, "nothing") = RanAll(St(n, v, d), q, y, "nothing")
  BY <1>1, FeedRuns
<1> DEFINE x == St(n, v, d)
<1> HIDE DEF x
<1>3. RanAll(x, q, y, "nothing") = x
  BY <1>1, RanNone
<1> QED
  BY <1>2, <1>3 DEF x

\* GOT_IP of what was being joined is online.
LEMMA FedGotIp ==
    ASSUME NEW y, NEW m, NEW v, NEW d, m.st \in {"CONNECTING", "RETRYING", "SETUP_AP_RETRYING"}
    PROVE  Feed(St(m, v, d), "GOT_IP", y) = St(Sm("ONLINE", m.ap, 1), v, d)
<1> DEFINE n == Sm("ONLINE", m.ap, 1)
<1>1. SmStep(m, "GOT_IP", NoTimer) = Does(n, <<>>)
  BY StepGotIp
<1> HIDE DEF n
<1>2. FeedSkip(St(m, v, d), "GOT_IP", NoTimer, y, "nothing") = St(n, v, d)
  BY <1>1, FedNone
<1> QED
  BY <1>2 DEF Feed, n

\* FAILED of nothing waited for is nothing, and of credentials that joined a retry.
LEMMA FedFailsOnce ==
    ASSUME NEW y, NEW m, NEW v, NEW d
    PROVE  /\ m.st # "CONNECTING" => Feed(St(m, v, d), "FAILED", y) = St(m, v, d)
           /\ m.st = "CONNECTING" /\ m.joined # 0 /\ m.joined # 2 =>
                  Feed(St(m, v, d), "FAILED", y) = St(Sm("RETRYING", m.ap, 1), v, d)
<1>1. ASSUME m.st # "CONNECTING" PROVE Feed(St(m, v, d), "FAILED", y) = St(m, v, d)
  <2>1. SmStep(m, "FAILED", NoTimer) = Does(m, <<>>)
    BY <1>1, StepFails
  <2>2. FeedSkip(St(m, v, d), "FAILED", NoTimer, y, "nothing") = St(m, v, d)
    BY <2>1, FedNone
  <2> QED
    BY <2>2 DEF Feed
<1>2. ASSUME m.st = "CONNECTING", m.joined # 0, m.joined # 2
      PROVE  Feed(St(m, v, d), "FAILED", y) = St(Sm("RETRYING", m.ap, 1), v, d)
  <2> DEFINE n == Sm("RETRYING", m.ap, 1)
  <2>1. SmStep(m, "FAILED", NoTimer) = Does(n, <<>>)
    BY <1>2, StepFails
  <2> HIDE DEF n
  <2>2. FeedSkip(St(m, v, d), "FAILED", NoTimer, y, "nothing") = St(n, v, d)
    BY <2>1, FedNone
  <2> QED
    BY <2>2 DEF Feed, n
<1> QED
  BY <1>1, <1>2

\* A step with one action, and the one of a tick with two.
LEMMA FedOne ==
    ASSUME NEW y, NEW m, NEW v, NEW d, NEW ev, NEW t, NEW n, NEW a, a # "nothing",
           SmStep(m, ev, t) = Does(n, <<a>>)
    PROVE  FeedSkip(St(m, v, d), ev, t, y, "nothing") = RunAction(St(n, v, d), a, y)
<1> DEFINE q == <<a>>
<1>1. SmStep(m, ev, t) = Does(n, q) /\ q = <<a>>
  OBVIOUS
<1> HIDE DEF q
<1>2. FeedSkip(St(m, v, d), ev, t, y, "nothing") = RanAll(St(n, v, d), q, y, "nothing")
  BY <1>1, FeedRuns
<1> DEFINE x == St(n, v, d)
<1> HIDE DEF x
<1>3. RanAll(x, q, y, "nothing") = RunAction(x, a, y)
  BY <1>1, RanOne
<1> QED
  BY <1>2, <1>3 DEF x

\* A step with two actions.
LEMMA FedTwo ==
    ASSUME NEW y, NEW m, NEW v, NEW d, NEW ev, NEW t, NEW n, NEW a, NEW b, a # "nothing", b # "nothing",
           SmStep(m, ev, t) = Does(n, <<a, b>>)
    PROVE  FeedSkip(St(m, v, d), ev, t, y, "nothing") = RunAction(RunAction(St(n, v, d), a, y), b, y)
<1> DEFINE q == <<a, b>>
<1>1. SmStep(m, ev, t) = Does(n, q) /\ q = <<a, b>>
  OBVIOUS
<1> HIDE DEF q
<1>2. FeedSkip(St(m, v, d), ev, t, y, "nothing") = RanAll(St(n, v, d), q, y, "nothing")
  BY <1>1, FeedRuns
<1> DEFINE x == St(n, v, d)
<1> HIDE DEF x
<1>3. RanAll(x, q, y, "nothing") = RunAction(RunAction(x, a, y), b, y)
  BY <1>1, RanTwo
<1> QED
  BY <1>2, <1>3 DEF x

\* What a tick may change.
Retrying == {"RETRYING", "SETUP_AP_RETRYING"}
Ticked(m, v, n, u) ==
    /\ n.joined = m.joined /\ n \in Machines /\ u \in Rams
    /\ n.st = m.st \/ (m.st = "RETRYING" /\ n.st = "SETUP_AP_RETRYING" /\ u.apRun)
    /\ u.creds = v.creds /\ u.prev = v.prev /\ u.credsOk = v.credsOk /\ u.joinFailed = v.joinFailed
    /\ \/ u.join = v.join /\ u.phase = v.phase
       \/ m.st \in Retrying /\ u.join = v.creds /\ u.phase = "joining"
    /\ u.apRun = v.apRun \/ u.apRun \/ m.st = "ONLINE"

\* A tick keeps the credentials, and starts at most a join of those in use.
LEMMA FedTick ==
    ASSUME NEW y, Takes(y), NEW m \in Machines, NEW v \in Rams, NEW d, NEW t,
           m.st \in Retrying => v.creds # NoCreds
    PROVE  \E n, u : FeedSkip(St(m, v, d), "TICK", t, y, "nothing") = St(n, u, d) /\ Ticked(m, v, n, u)
<1> DEFINE F == FeedSkip(St(m, v, d), "TICK", t, y, "nothing")
           S == SmStep(m, "TICK", t)
           Goal == \E n, u : F = St(n, u, d) /\ Ticked(m, v, n, u)
<1>1. CASE S = Does(m, <<>>)
  <2>1. F = St(m, v, d)
    BY <1>1, FedNone
  <2>2. Ticked(m, v, m, v)
    BY DEF Ticked
  <2> QED
    BY <2>1, <2>2
<1>2. CASE S = Does(Stamped(m), <<>>)
  <2> DEFINE n == Stamped(m)
  <2>1. n.joined = m.joined /\ n \in Machines /\ n.st = m.st
    BY DEF Stamped, Machines
  <2> HIDE DEF n
  <2>2. F = St(n, v, d)
    BY <1>2, FedNone DEF n
  <2>3. Ticked(m, v, n, v)
    BY <2>1 DEF Ticked
  <2> QED
    BY <2>2, <2>3
<1>3. CASE S = Does(m, <<"STA_START">>) /\ m.st \in Retrying
  <2>1. F = RunAction(St(m, v, d), "STA_START", y)
    BY <1>3, FedOne
  <2>2. PICK u \in Rams : /\ RunAction(St(m, v, d), "STA_START", y) = St(m, u, d)
                        /\ u.creds = v.creds /\ u.prev = v.prev /\ u.credsOk = v.credsOk /\ u.joinFailed = v.joinFailed
                        /\ u.apRun = v.apRun /\ u.join = v.creds /\ u.phase = "joining"
    BY <1>3, StaStarts
  <2>3. Ticked(m, v, m, u)
    BY <1>3, <2>2 DEF Ticked
  <2> QED
    BY <2>1, <2>2, <2>3
<1>4. CASE S = Does([m EXCEPT !.ap = FALSE], <<"AP_STOP">>) /\ m.st = "ONLINE"
  <2> DEFINE n == [m EXCEPT !.ap = FALSE]
  <2>1. n.joined = m.joined /\ n \in Machines /\ n.st = m.st
    BY DEF Machines
  <2>2. S = Does(n, <<"AP_STOP">>)
    BY <1>4
  <2> HIDE DEF n
  <2>3. F = RunAction(St(n, v, d), "AP_STOP", y)
    BY <2>2, FedOne
  <2>4. PICK u \in Rams : /\ RunAction(St(n, v, d), "AP_STOP", y) = St(n, u, d)
                        /\ u.creds = v.creds /\ u.prev = v.prev /\ u.credsOk = v.credsOk /\ u.joinFailed = v.joinFailed
                        /\ ~u.apRun /\ u.join = v.join /\ u.phase = v.phase
    BY ApStops
  <2>5. Ticked(m, v, n, u)
    BY <1>4, <2>1, <2>4 DEF Ticked
  <2> QED
    BY <2>3, <2>4, <2>5
<1>5. /\ Opened(m).joined = m.joined /\ Opened(m) \in Machines /\ Opened(m).st = "SETUP_AP_RETRYING"
  BY DEF Opened, Machines, WifiStates
<1>6. CASE S = Does(Opened(m), <<"AP_START">>) /\ m.st = "RETRYING"
  <2> DEFINE n == Opened(m)
  <2>1. S = Does(n, <<"AP_START">>)
    BY <1>6
  <2>2. n.joined = m.joined /\ n \in Machines /\ n.st = "SETUP_AP_RETRYING"
    BY <1>5
  <2> HIDE DEF n
  <2>3. F = RunAction(St(n, v, d), "AP_START", y)
    BY <2>1, FedOne
  <2>4. PICK u \in Rams : /\ RunAction(St(n, v, d), "AP_START", y) = St(n, u, d)
                        /\ u.creds = v.creds /\ u.prev = v.prev /\ u.credsOk = v.credsOk /\ u.joinFailed = v.joinFailed
                        /\ u.apRun /\ u.join = v.join /\ u.phase = v.phase
    BY ApStarts
  <2>5. Ticked(m, v, n, u)
    BY <1>6, <2>2, <2>4 DEF Ticked
  <2> QED
    BY <2>3, <2>4, <2>5
<1>7. CASE S = Does(Opened(m), <<"STA_START", "AP_START">>) /\ m.st = "RETRYING"
  <2> DEFINE n == Opened(m)
  <2>1. S = Does(n, <<"STA_START", "AP_START">>)
    BY <1>7
  <2>2. n.joined = m.joined /\ n \in Machines /\ n.st = "SETUP_AP_RETRYING"
    BY <1>5
  <2> HIDE DEF n
  <2>3. F = RunAction(RunAction(St(n, v, d), "STA_START", y), "AP_START", y)
    BY <2>1, FedTwo
  <2>4. m.st \in Retrying
    BY <1>7 DEF Retrying
  <2>5. PICK u1 \in Rams : /\ RunAction(St(n, v, d), "STA_START", y) = St(n, u1, d)
                        /\ u1.creds = v.creds /\ u1.prev = v.prev /\ u1.credsOk = v.credsOk /\ u1.joinFailed = v.joinFailed
                        /\ u1.apRun = v.apRun /\ u1.join = v.creds /\ u1.phase = "joining"
    BY <2>4, StaStarts
  <2>6. PICK u2 \in Rams : /\ RunAction(St(n, u1, d), "AP_START", y) = St(n, u2, d)
                        /\ u2.creds = u1.creds /\ u2.prev = u1.prev /\ u2.credsOk = u1.credsOk /\ u2.joinFailed = u1.joinFailed
                        /\ u2.apRun /\ u2.join = u1.join /\ u2.phase = u1.phase
    BY ApStarts
  <2>7. Ticked(m, v, n, u2)
    BY <1>7, <2>2, <2>4, <2>5, <2>6 DEF Ticked
  <2>8. F = St(n, u2, d)
    BY <2>3, <2>5, <2>6
  <2> QED
    BY <2>7, <2>8
<1>8. \/ S = Does(m, <<>>) \/ S = Does(Stamped(m), <<>>)
      \/ S = Does(m, <<"STA_START">>) /\ m.st \in Retrying
      \/ S = Does([m EXCEPT !.ap = FALSE], <<"AP_STOP">>) /\ m.st = "ONLINE"
      \/ S = Does(Opened(m), <<"AP_START">>) /\ m.st = "RETRYING"
      \/ S = Does(Opened(m), <<"STA_START", "AP_START">>) /\ m.st = "RETRYING"
  BY StepTicks DEF Retrying
<1> HIDE DEF S, F
<1> QED
  BY <1>1, <1>2, <1>3, <1>4, <1>6, <1>7, <1>8

-----------------------------------------------------------------------------
(* The writes of the handlers.                                              *)

PostWrites(c) == <<Put("ssid", c.ssid), Put("psk", c.psk)>>
JoinedWrites == <<Put("joined", "1")>>

\* No writes: each key ends as what it is.
LEMMA NoWrites ==
    /\ <<>> \in Seq(KvWrites) /\ OneEach(<<>>)
    /\ \A k : ~HasIn(<<>>, k)
    /\ \A s, k, x : EndsIn(<<>>, s, k, x) <=> s[k] = x
<1>1. DOMAIN <<>> = {} /\ <<>> \in Seq(KvWrites)
  OBVIOUS
<1> QED
  BY <1>1 DEF OneEach, HasIn, EndsIn

\* One write, of wifi_ok: name and password end as they are.
LEMMA UnjoinedDo ==
    /\ UnjoinedWrites \in Seq(KvWrites) /\ OneEach(UnjoinedWrites)
    /\ ~HasIn(UnjoinedWrites, "joined") /\ ~HasIn(UnjoinedWrites, "ssid") /\ ~HasIn(UnjoinedWrites, "psk")
    /\ \A s : EndsIn(UnjoinedWrites, s, "ok", "0")
    /\ \A s, x : EndsIn(UnjoinedWrites, s, "ssid", x) <=> s.ssid = x
    /\ \A s, x : EndsIn(UnjoinedWrites, s, "psk", x) <=> s.psk = x
<1> DEFINE q == UnjoinedWrites
           r == Put("ok", "0")
<1>1. r.key = "ok" /\ r.val = "0" /\ r \in KvWrites
  BY DEF Put, KvWrites
<1> HIDE DEF r
<1>2. q \in Seq(KvWrites) /\ DOMAIN q = {1} /\ q[1] = r
  BY <1>1 DEF UnjoinedWrites, r
<1> HIDE DEF q
<1>3. OneEach(q)
  BY <1>2 DEF OneEach
<1>4. HasIn(q, "ok") /\ ~HasIn(q, "joined") /\ ~HasIn(q, "ssid") /\ ~HasIn(q, "psk")
  BY <1>1, <1>2 DEF HasIn
<1>5. \A m \in DOMAIN q : q[m].key = "ok" /\ q[m].val = "0"
  BY <1>1, <1>2
<1>6. /\ \A s : EndsIn(q, s, "ok", "0")
      /\ \A s, x : EndsIn(q, s, "ssid", x) <=> s.ssid = x
      /\ \A s, x : EndsIn(q, s, "psk", x) <=> s.psk = x
  BY <1>4, <1>5 DEF EndsIn
<1> QED
  BY <1>2, <1>3, <1>4, <1>6 DEF q

\* One write, of GOT_IP.
LEMMA JoinedDo ==
    /\ JoinedWrites \in Seq(KvWrites) /\ OneEach(JoinedWrites)
    /\ HasIn(JoinedWrites, "joined") /\ ~HasIn(JoinedWrites, "ok")
    /\ ~HasIn(JoinedWrites, "ssid") /\ ~HasIn(JoinedWrites, "psk")
    /\ \A s, x : EndsIn(JoinedWrites, s, "ok", x) <=> s.ok = x
    /\ \A s, x : EndsIn(JoinedWrites, s, "ssid", x) <=> s.ssid = x
    /\ \A s, x : EndsIn(JoinedWrites, s, "psk", x) <=> s.psk = x
<1> DEFINE q == JoinedWrites
           r == Put("joined", "1")
<1>1. r.key = "joined" /\ r.val = "1" /\ r \in KvWrites
  BY DEF Put, KvWrites
<1> HIDE DEF r
<1>2. q \in Seq(KvWrites) /\ DOMAIN q = {1} /\ q[1] = r
  BY <1>1 DEF JoinedWrites, r
<1> HIDE DEF q
<1>3. OneEach(q)
  BY <1>2 DEF OneEach
<1>4. HasIn(q, "joined") /\ ~HasIn(q, "ok") /\ ~HasIn(q, "ssid") /\ ~HasIn(q, "psk")
  BY <1>1, <1>2 DEF HasIn
<1>5. \A m \in DOMAIN q : q[m].key = "joined"
  BY <1>1, <1>2
<1>6. /\ \A s, x : EndsIn(q, s, "ssid", x) <=> s.ssid = x
      /\ \A s, x : EndsIn(q, s, "psk", x) <=> s.psk = x
  BY <1>4, <1>5 DEF EndsIn
<1>7. \A s, x : EndsIn(q, s, "ok", x) <=> s.ok = x
  BY <1>4, <1>5 DEF EndsIn
<1> QED
  BY <1>2, <1>3, <1>4, <1>6, <1>7 DEF q

\* Two writes: a name and a password, wifi_ok ends as it is.
LEMMA PostDo ==
    ASSUME NEW c \in Creds
    PROVE  /\ PostWrites(c) \in Seq(KvWrites) /\ OneEach(PostWrites(c))
           /\ ~HasIn(PostWrites(c), "joined") /\ ~HasIn(PostWrites(c), "ok")
           /\ \A s, x : EndsIn(PostWrites(c), s, "ok", x) <=> s.ok = x
           /\ \A s : EndsIn(PostWrites(c), s, "ssid", c.ssid)
           /\ \A s : EndsIn(PostWrites(c), s, "psk", c.psk)
<1> DEFINE q == PostWrites(c)
           r1 == Put("ssid", c.ssid)
           r2 == Put("psk", c.psk)
<1>1. c.ssid \in Named /\ c.psk \in Named
  BY DEF Creds
<1>2. r1.key = "ssid" /\ r1.val = c.ssid /\ r1 \in KvWrites
  BY <1>1 DEF Put, KvWrites
<1>3. r2.key = "psk" /\ r2.val = c.psk /\ r2 \in KvWrites
  BY <1>1 DEF Put, KvWrites
<1> HIDE DEF r1, r2
<1>4. q \in Seq(KvWrites) /\ DOMAIN q = {1, 2} /\ q[1] = r1 /\ q[2] = r2
  BY <1>2, <1>3 DEF PostWrites, r1, r2
<1> HIDE DEF q
<1>5. OneEach(q)
  BY <1>2, <1>3, <1>4 DEF OneEach
<1>6. HasIn(q, "ssid") /\ HasIn(q, "psk") /\ ~HasIn(q, "ok") /\ ~HasIn(q, "joined")
  BY <1>2, <1>3, <1>4 DEF HasIn
<1>7. \A m \in DOMAIN q : q[m] = r1 \/ q[m] = r2
  BY <1>4
<1>8. \A s, x : EndsIn(q, s, "ok", x) <=> s.ok = x
  BY <1>2, <1>3, <1>6, <1>7 DEF EndsIn
<1>9. \A s : EndsIn(q, s, "ssid", c.ssid)
  BY <1>2, <1>3, <1>6, <1>7 DEF EndsIn
<1>10. \A s : EndsIn(q, s, "psk", c.psk)
  BY <1>2, <1>3, <1>6, <1>7 DEF EndsIn
<1> QED
  BY <1>4, <1>5, <1>6, <1>8, <1>9, <1>10 DEF q

\* Three writes: a name, a password and wifi_ok.
LEMMA ThreeDo ==
    ASSUME NEW q, NEW a \in Named, NEW b \in Named, NEW f \in {"0", "1"},
           q = <<Put("ssid", a), Put("psk", b), Put("ok", f)>>
    PROVE  /\ q \in Seq(KvWrites) /\ OneEach(q)
           /\ ~HasIn(q, "joined")
           /\ \A s : EndsIn(q, s, "ssid", a) /\ EndsIn(q, s, "psk", b) /\ EndsIn(q, s, "ok", f)
<1> DEFINE r1 == Put("ssid", a)
           r2 == Put("psk", b)
           r3 == Put("ok", f)
<1>1. r1.key = "ssid" /\ r1.val = a /\ r1 \in KvWrites
  BY DEF Put, KvWrites
<1>2. r2.key = "psk" /\ r2.val = b /\ r2 \in KvWrites
  BY DEF Put, KvWrites
<1>3. r3.key = "ok" /\ r3.val = f /\ r3 \in KvWrites
  BY DEF Put, KvWrites
<1>4. q = <<r1, r2, r3>>
  OBVIOUS
<1> HIDE DEF r1, r2, r3
<1>5. q \in Seq(KvWrites) /\ DOMAIN q = {1, 2, 3} /\ q[1] = r1 /\ q[2] = r2 /\ q[3] = r3
  BY <1>1, <1>2, <1>3, <1>4
<1>6. OneEach(q)
  BY <1>1, <1>2, <1>3, <1>5 DEF OneEach
<1>7. HasIn(q, "ssid") /\ HasIn(q, "psk") /\ HasIn(q, "ok") /\ ~HasIn(q, "joined")
  BY <1>1, <1>2, <1>3, <1>5 DEF HasIn
<1>8. \A m \in DOMAIN q : q[m] = r1 \/ q[m] = r2 \/ q[m] = r3
  BY <1>5
<1>9. \A s : EndsIn(q, s, "ssid", a) /\ EndsIn(q, s, "psk", b) /\ EndsIn(q, s, "ok", f)
  BY <1>1, <1>2, <1>3, <1>7, <1>8 DEF EndsIn
<1> QED
  BY <1>5, <1>6, <1>7, <1>9

\* A handler's outcome is what becomes of the three variables.
LEMMA Became ==
    ASSUME NEW x, NEW n, NEW u, NEW q, x = St(n, u, q), Becomes(x)
    PROVE  sm' = n /\ w' = u /\ todo' = q
BY DEF Becomes, St

\* A boot takes over what the store holds.
LEMMA BootKeeps ==
    ASSUME WifiSafe, NEW y, Takes(y), Boot(y)
    PROVE  WifiSafe'
<1>1. /\ WifiTypes /\ CredsWhole /\ OffState /\ MachineInv /\ DriverInv /\ ProvenInv
      /\ OnePerKey /\ NameFollows /\ OkFollows /\ SetupHasHotspot
  BY DEF WifiSafe
<1>2. /\ ~Booted /\ sm = Sm("UNPROVISIONED", FALSE, 0) /\ w = OffRam
      /\ todo = <<>> /\ web = NoCreds /\ stale = {}
  BY <1>1 DEF Boot, OffState
<1>3. UNCHANGED <<kv, web, cuts, proven, cutShort, stale>>
  BY DEF Boot
<1> DEFINE c == Stored
           ok == c # NoCreds /\ kv.ok # "0"
           u0 == [w EXCEPT !.creds = c, !.credsOk = ok]
           x == With(State, u0)
<1>4. /\ kv \in [ssid : Named, psk : Named, ok : {"none", "0", "1"}] /\ w \in Rams /\ NoCreds \in Creds
      /\ c \in Creds /\ Whole(c)
  BY <1>1 DEF WifiTypes, Stored, Whole, Creds, NoCreds, Named
<1>5. /\ c = NoCreds => kv.ssid = "none" \/ kv.psk = "none"
      /\ c # NoCreds => kv.ssid = c.ssid /\ kv.psk = c.psk
      /\ proven # NoCreds /\ ~cutShort => c = proven /\ kv.ok # "0"
  <2>1. CASE "none" \in {kv.ssid, kv.psk}
    <3>1. c = NoCreds
      BY <2>1 DEF Stored
    <3> QED
      BY <1>1, <1>2, <2>1, <3>1 DEF ProvenInv
  <2>2. CASE ~("none" \in {kv.ssid, kv.psk})
    <3>1. c = [ssid |-> kv.ssid, psk |-> kv.psk]
      BY <2>2 DEF Stored
    <3>2. c.ssid = kv.ssid /\ c.psk = kv.psk
      BY <3>1
    <3>3. c # NoCreds
      BY <2>2, <3>2 DEF NoCreds
    <3> QED
      BY <1>1, <1>2, <3>2, <3>3 DEF ProvenInv
  <2> QED
    BY <2>1, <2>2
<1>6. Becomes(CASE ok                     -> Feed(x, "BOOT_WITH_CREDS", y)
                [] ~ok /\ c = NoCreds     -> Feed(x, "BOOT_NO_CREDS", y)
                [] ~ok /\ c # NoCreds     -> FeedCredsSet(Feed(x, "BOOT_NO_CREDS", y), y))
  BY Zenon DEF Boot
<1>7. sm.st = "UNPROVISIONED" /\ sm.ap = FALSE /\ sm \in Machines
  BY <1>2 DEF Sm, Machines, WifiStates
<1> HIDE DEF c
<1>8. ok \in BOOLEAN
  OBVIOUS
<1> HIDE DEF ok
<1>9. u0 \in Rams
  BY <1>4, <1>8 DEF Rams
<1>10. /\ u0.creds = c /\ u0.prev = w.prev /\ u0.credsOk = ok /\ u0.joinFailed = w.joinFailed
       /\ u0.apRun = w.apRun /\ u0.join = w.join /\ u0.phase = w.phase
  BY <1>4 DEF Rams
<1>11. w.prev = NoCreds /\ ~w.joinFailed /\ ~w.apRun /\ w.join = NoCreds /\ w.phase = "idle"
  BY <1>2 DEF OffRam
<1> HIDE DEF u0
<1>12. x = St(sm, u0, <<>>)
  BY <1>2 DEF With, State, St
<1> HIDE DEF x
<1>13. CASE ok
  <2>1. c # NoCreds /\ kv.ok # "0"
    BY <1>13 DEF ok
  <2>2. Becomes(Feed(x, "BOOT_WITH_CREDS", y))
    BY <1>6, <1>13
  <2>3. PICK u \in Rams : /\ Feed(St(sm, u0, <<>>), "BOOT_WITH_CREDS", y) = St(Sm("CONNECTING", sm.ap, 1), u, <<>>)
                           /\ u.creds = u0.creds /\ u.prev = u0.prev /\ u.credsOk = u0.credsOk /\ u.joinFailed = u0.joinFailed
                           /\ u.apRun = u0.apRun /\ u.join = u0.creds /\ u.phase = "joining"
    BY <1>7, <1>9, <1>10, <2>1, FedBoot
  <2>4. sm' = Sm("CONNECTING", sm.ap, 1) /\ w' = u /\ todo' = <<>>
    BY <1>12, <2>2, <2>3, Became
  <2>5. sm' \in Machines /\ sm'.st = "CONNECTING" /\ sm'.joined = 1
    BY <1>7, <2>4 DEF Sm, Machines, WifiStates
  <2>6. /\ w' \in Rams /\ w'.creds = c /\ w'.prev = NoCreds /\ w'.credsOk /\ ~w'.joinFailed
        /\ w'.join = c /\ w'.phase = "joining"
    BY <1>10, <1>11, <1>13, <2>3, <2>4
  <2>7. /\ todo' = <<>> /\ kv' = kv /\ web' = NoCreds /\ proven' = proven /\ cuts' = cuts /\ cutShort' = cutShort /\ stale' = stale
    BY <1>2, <1>3, <2>4
  <2>8. WifiTypes'
    BY <2>1, <2>5, <2>6, <2>7, <1>1, <1>4, NoWrites DEF WifiTypes
  <2>9. CredsWhole'
    BY <2>1, <2>5, <2>6, <2>7, <1>1, <1>4 DEF CredsWhole, Whole
  <2>10. OffState'
    BY <2>1, <2>5, <2>6, <2>7 DEF OffState, Booted
  <2>11. MachineInv'
    BY <2>1, <2>5, <2>6, <2>7 DEF MachineInv, Booted, Joining
  <2>12. DriverInv'
    BY <2>1, <2>5, <2>6, <2>7 DEF DriverInv, Booted
  <2>13. ProvenInv'
    BY <2>1, <2>5, <2>6, <2>7, <1>5 DEF ProvenInv, Booted, Stored
  <2>14. OnePerKey'
    BY <2>1, <2>5, <2>6, <2>7, NoWrites DEF OnePerKey
  <2>15. NameFollows'
    BY <2>1, <2>5, <2>6, <2>7, <1>5, NoWrites DEF NameFollows, Booted, Target, Ends, Has
  <2>16. OkFollows'
    BY <2>1, <2>5, <2>6, <2>7, <1>4, NoWrites DEF OkFollows, Booted, Has, Ends, Follows
  <2>17. SetupHasHotspot'
    BY <2>1, <2>5, <2>6, <2>7 DEF SetupHasHotspot, Booted
  <2> QED
    BY <2>8, <2>9, <2>10, <2>11, <2>12, <2>13, <2>14, <2>15, <2>16, <2>17 DEF WifiSafe
<1>14. CASE ~ok /\ c = NoCreds
  <2>1. Becomes(Feed(x, "BOOT_NO_CREDS", y))
    BY <1>6, <1>14
  <2>2. PICK u \in Rams : /\ Feed(St(sm, u0, <<>>), "BOOT_NO_CREDS", y) = St(SmSetup, u, <<>>)
                           /\ u.creds = u0.creds /\ u.prev = u0.prev /\ u.credsOk = u0.credsOk /\ u.joinFailed = u0.joinFailed
                           /\ u.apRun /\ u.join = u0.join /\ u.phase = u0.phase
    BY <1>7, <1>9, FedBootEmpty
  <2>3. sm' = SmSetup /\ w' = u /\ todo' = <<>>
    BY <1>12, <2>1, <2>2, Became
  <2>4. sm' \in Machines /\ sm'.st = "SETUP_AP" /\ sm'.joined = 0
    BY <2>3, SmKnown
  <2>5. /\ w' \in Rams /\ w'.creds = NoCreds /\ w'.prev = NoCreds /\ ~w'.joinFailed
        /\ w'.join = NoCreds /\ w'.phase = "idle" /\ w'.apRun
    BY <1>10, <1>11, <1>14, <2>2, <2>3
  <2>6. /\ todo' = <<>> /\ kv' = kv /\ web' = NoCreds /\ proven' = proven /\ cuts' = cuts /\ cutShort' = cutShort /\ stale' = stale
    BY <1>2, <1>3, <2>3
  <2>7. WifiTypes'
    BY <2>4, <2>5, <2>6, <1>1, <1>4, NoWrites DEF WifiTypes
  <2>8. CredsWhole'
    BY <2>4, <2>5, <2>6, <1>1, <1>4 DEF CredsWhole, Whole
  <2>9. OffState'
    BY <2>4, <2>5, <2>6 DEF OffState, Booted
  <2>10. MachineInv'
    BY <2>4, <2>5, <2>6 DEF MachineInv, Booted, Joining
  <2>11. DriverInv'
    BY <2>4, <2>5, <2>6 DEF DriverInv, Booted
  <2>12. ProvenInv'
    BY <2>4, <2>5, <2>6, <1>5, <1>14 DEF ProvenInv, Booted, Stored
  <2>13. OnePerKey'
    BY <2>4, <2>5, <2>6, NoWrites DEF OnePerKey
  <2>14. NameFollows'
    BY <2>4, <2>5, <2>6, <1>5, <1>14, NoWrites DEF NameFollows, Booted, Target, Ends, Has
  <2>15. OkFollows'
    BY <2>4, <2>5, <2>6, <1>4, NoWrites DEF OkFollows, Booted, Has, Ends, Follows
  <2>16. SetupHasHotspot'
    BY <2>4, <2>5, <2>6 DEF SetupHasHotspot, Booted
  <2> QED
    BY <2>7, <2>8, <2>9, <2>10, <2>11, <2>12, <2>13, <2>14, <2>15, <2>16 DEF WifiSafe
<1>15. CASE ~ok /\ c # NoCreds
  <2> DEFINE n == [SmSetup EXCEPT !.st = "CONNECTING"]
  <2>1. kv.ok = "0"
    BY <1>15 DEF ok
  <2>2. Becomes(FeedCredsSet(Feed(x, "BOOT_NO_CREDS", y), y))
    BY <1>6, <1>15
  <2>3. PICK u1 \in Rams : /\ Feed(St(sm, u0, <<>>), "BOOT_NO_CREDS", y) = St(SmSetup, u1, <<>>)
                           /\ u1.creds = u0.creds /\ u1.prev = u0.prev /\ u1.credsOk = u0.credsOk /\ u1.joinFailed = u0.joinFailed
                           /\ u1.apRun /\ u1.join = u0.join /\ u1.phase = u0.phase
    BY <1>7, <1>9, FedBootEmpty
  <2>4. SmSetup.st = "SETUP_AP"
    BY SmKnown
  <2>5. n \in Machines /\ n.st = "CONNECTING" /\ n.joined = 0
    BY SmKnown DEF Machines, WifiStates
  <2>6. n = [SmSetup EXCEPT !.st = "CONNECTING"]
    OBVIOUS
  <2> HIDE DEF n
  <2>7. PICK u \in Rams : /\ FeedCredsSet(St(SmSetup, u1, <<>>), y) = St(n, u, <<>>)
                           /\ u.creds = u1.creds /\ u.prev = NoCreds /\ u.credsOk = u1.credsOk /\ u.joinFailed = u1.joinFailed
                           /\ u.apRun = u1.apRun /\ u.join = u1.creds /\ u.phase = "joining"
    <3>1. u1.creds # NoCreds
      BY <1>10, <1>15, <2>3
    <3>2. TriesCreds(SmSetup, n)
      BY <2>4, <2>6 DEF TriesCreds
    <3> QED
      BY <3>1, <3>2, FedCredsSet
  <2>8. sm' = n /\ w' = u /\ todo' = <<>>
    BY <1>12, <2>2, <2>3, <2>7, Became
  <2>9. sm' \in Machines /\ sm'.st = "CONNECTING" /\ sm'.joined = 0
    BY <2>5, <2>8
  <2>10. /\ w' \in Rams /\ w'.creds = c /\ w'.prev = NoCreds /\ ~w'.joinFailed /\ w'.credsOk = ok
         /\ w'.join = c /\ w'.phase = "joining" /\ w'.apRun
    BY <1>10, <1>11, <1>15, <2>3, <2>7, <2>8
  <2>11. /\ todo' = <<>> /\ kv' = kv /\ web' = NoCreds /\ proven' = proven /\ cuts' = cuts /\ cutShort' = cutShort /\ stale' = stale
    BY <1>2, <1>3, <2>8
  <2>12. WifiTypes'
    BY <2>9, <2>10, <2>11, <1>1, <1>4, NoWrites DEF WifiTypes
  <2>13. CredsWhole'
    BY <2>9, <2>10, <2>11, <1>1, <1>4 DEF CredsWhole, Whole
  <2>14. OffState'
    BY <2>9, <2>10, <2>11 DEF OffState, Booted
  <2>15. MachineInv'
    BY <2>9, <2>10, <2>11, <1>15 DEF MachineInv, Booted, Joining
  <2>16. DriverInv'
    BY <2>9, <2>10, <2>11 DEF DriverInv, Booted
  <2>17. ProvenInv'
    BY <2>9, <2>10, <2>11, <1>5, <2>1 DEF ProvenInv, Booted, Stored
  <2>18. OnePerKey'
    BY <2>9, <2>10, <2>11, NoWrites DEF OnePerKey
  <2>19. NameFollows'
    BY <2>9, <2>10, <2>11, <1>5, NoWrites, <1>15 DEF NameFollows, Booted, Target, Ends, Has
  <2>20. OkFollows'
    BY <2>9, <2>10, <2>11, <1>4, <2>1, NoWrites, <1>15 DEF OkFollows, Booted, Has, Ends, Follows
  <2>21. SetupHasHotspot'
    BY <2>9, <2>10, <2>11 DEF SetupHasHotspot, Booted
  <2> QED
    BY <2>12, <2>13, <2>14, <2>15, <2>16, <2>17, <2>18, <2>19, <2>20, <2>21 DEF WifiSafe
<1> QED
  BY <1>13, <1>14, <1>15, Zenon

\* Between two handlers the store holds the credentials in use, unless a write failed.
KvFollows ==
    /\ w.creds = NoCreds /\ "ssid" \notin stale /\ "psk" \notin stale => kv.ssid = "none" \/ kv.psk = "none"
    /\ w.creds # NoCreds =>
        /\ "ssid" \notin stale => kv.ssid = w.creds.ssid
        /\ "psk" \notin stale => kv.psk = w.creds.psk
        /\ "ok" \notin stale => /\ w.credsOk => kv.ok \in {"1", "none"}
                                /\ ~w.credsOk => kv.ok = "0"
                                /\ sm.joined = 1 => w.credsOk

\* What the invariant gives a handler that starts with no write under way.
LEMMA QuietNow ==
    ASSUME WifiSafe, Quiet
    PROVE  /\ Booted /\ todo = <<>> /\ web = NoCreds /\ State = St(sm, w, <<>>) /\ KvFollows
           /\ sm \in Machines /\ w \in Rams /\ NoCreds \in Creds
<1>1. Booted /\ todo = <<>> /\ web = NoCreds
  BY DEF Quiet
<1>2. State = St(sm, w, <<>>)
  BY <1>1 DEF State
<1>3. sm \in Machines /\ w \in Rams /\ NoCreds \in Creds
  BY DEF WifiSafe, WifiTypes, NoCreds, Creds, Named
<1>4. /\ w.creds = NoCreds /\ "ssid" \notin stale /\ "psk" \notin stale => kv.ssid = "none" \/ kv.psk = "none"
      /\ w.creds # NoCreds /\ "ssid" \notin stale => kv.ssid = w.creds.ssid
      /\ w.creds # NoCreds /\ "psk" \notin stale => kv.psk = w.creds.psk
  BY <1>1, NoWrites DEF WifiSafe, NameFollows, Target, Ends
<1>5. w.creds # NoCreds /\ "ok" \notin stale =>
        /\ IF w.credsOk THEN kv.ok = "1" \/ kv.ok = "none" ELSE kv.ok = "0"
        /\ sm.joined = 1 => w.credsOk
  BY <1>1, NoWrites DEF WifiSafe, OkFollows, Follows, Has, Ends
<1>6. KvFollows
  BY <1>4, <1>5 DEF KvFollows
<1> QED
  BY <1>1, <1>2, <1>3, <1>6

\* A handler that leaves the credentials and the store as they are keeps the names.
LEMMA NamesStay ==
    ASSUME KvFollows, todo' = <<>>, web' = NoCreds, w'.creds = w.creds, kv' = kv, stale' = stale
    PROVE  NameFollows'
<1>1. /\ w'.creds = NoCreds /\ "ssid" \notin stale' /\ "psk" \notin stale' => kv'.ssid = "none" \/ kv'.psk = "none"
      /\ w'.creds # NoCreds /\ "ssid" \notin stale' => kv'.ssid = w'.creds.ssid
      /\ w'.creds # NoCreds /\ "psk" \notin stale' => kv'.psk = w'.creds.psk
  BY DEF KvFollows
<1>2. Target' = w'.creds
  BY DEF Target
<1>3. \A k, x : (Ends(k, x)' <=> kv'[k] = x) /\ ~Has(k)'
  BY NoWrites DEF Ends, Has
<1> QED
  BY <1>1, <1>2, <1>3 DEF NameFollows

\* With the join and the verdict as they were it keeps wifi_ok as well.
LEMMA OkStays ==
    ASSUME KvFollows, todo' = <<>>, web' = NoCreds, w'.creds = w.creds, w'.credsOk = w.credsOk,
           kv' = kv, stale' = stale, sm'.joined = sm.joined
    PROVE  OkFollows'
<1>1. w'.creds # NoCreds /\ "ok" \notin stale' =>
         /\ IF w'.credsOk THEN kv'.ok = "1" \/ kv'.ok = "none" ELSE kv'.ok = "0"
         /\ sm'.joined = 1 => w'.credsOk
  BY DEF KvFollows
<1>2. \A k, x : (Ends(k, x)' <=> kv'[k] = x) /\ ~Has(k)'
  BY NoWrites DEF Ends, Has
<1> QED
  BY <1>1, <1>2 DEF OkFollows, Follows

\* A handler that erases the credentials has both names end as none.
LEMMA NamesErased ==
    ASSUME w'.creds = NoCreds, web' = NoCreds,
           \A s : EndsIn(todo', s, "ssid", "none") /\ EndsIn(todo', s, "psk", "none")
    PROVE  NameFollows'
<1>1. Ends("ssid", "none")' /\ Ends("psk", "none")'
  BY DEF Ends
<1>2. Target' = NoCreds /\ NoCreds.ssid = "none" /\ NoCreds.psk = "none"
  BY DEF Target, NoCreds
<1> QED
  BY <1>1, <1>2 DEF NameFollows

\* A POST of credentials only writes to the store so far.
LEMMA PostCredsKeeps ==
    ASSUME WifiSafe, NEW net \in Nets, PostCreds(CredsOf(net))
    PROVE  WifiSafe'
<1>1. /\ WifiTypes /\ CredsWhole /\ OffState /\ MachineInv /\ DriverInv /\ ProvenInv
      /\ OnePerKey /\ NameFollows /\ OkFollows /\ SetupHasHotspot
  BY DEF WifiSafe
<1> DEFINE c == CredsOf(net)
<1>2. c \in Creds /\ c.ssid # "none" /\ c.psk # "none" /\ c # NoCreds
  BY WifiAssumption DEF CredsOf, Creds, Named, NoCreds
<1>3. Quiet /\ todo' = PostWrites(c) /\ web' = c /\ UNCHANGED <<sm, w, kv, cuts, proven, cutShort, stale>>
  BY DEF PostCreds, PostWrites
<1> HIDE DEF c
<1>4. Booted /\ KvFollows
  BY <1>3, QuietNow
<1>5. Booted'
  BY <1>3, <1>4 DEF Booted
<1>6. WifiTypes'
  BY <1>1, <1>3, <1>4, <1>5, <1>2, PostDo DEF WifiTypes
<1>7. CredsWhole'
  BY <1>1, <1>3, <1>4, <1>5, <1>2 DEF CredsWhole, Whole
<1>8. OffState'
  BY <1>1, <1>3, <1>4, <1>5 DEF OffState
<1>9. MachineInv'
  BY <1>1, <1>3, <1>4, <1>5 DEF MachineInv, Booted, Joining
<1>10. DriverInv'
  BY <1>1, <1>3, <1>4, <1>5 DEF DriverInv, Booted
<1>11. ProvenInv'
  BY <1>1, <1>3, <1>4, <1>5 DEF ProvenInv, Booted
<1>12. OnePerKey'
  BY <1>1, <1>3, <1>4, <1>5, <1>2, PostDo DEF OnePerKey
<1>13. NameFollows'
  BY <1>1, <1>3, <1>4, <1>5, <1>2, PostDo DEF NameFollows, Target, Ends, Has
<1>14. OkFollows'
  BY <1>1, <1>3, <1>4, <1>5, <1>2, PostDo DEF OkFollows, Has, Ends, KvFollows, Follows
<1>15. SetupHasHotspot'
  BY <1>1, <1>3, <1>4, <1>5 DEF SetupHasHotspot, Booted
<1> QED
  BY <1>6, <1>7, <1>8, <1>9, <1>10, <1>11, <1>12, <1>13, <1>14, <1>15 DEF WifiSafe

\* Forgetting clears everything.
LEMMA ForgetKeeps ==
    ASSUME WifiSafe, Forget
    PROVE  WifiSafe'
<1>1. /\ WifiTypes /\ CredsWhole /\ OffState /\ MachineInv /\ DriverInv /\ ProvenInv
      /\ OnePerKey /\ NameFollows /\ OkFollows /\ SetupHasHotspot
  BY DEF WifiSafe
<1>2. Quiet /\ proven' = NoCreds /\ UNCHANGED <<kv, web, cuts, cutShort, stale>>
  BY DEF Forget
<1>3. /\ web = NoCreds /\ State = St(sm, w, <<>>) /\ NoCreds \in Creds /\ w \in Rams
  BY <1>2, QuietNow
<1> DEFINE v == [w EXCEPT !.prev = NoCreds]
<1>4. v \in Rams /\ v.prev = NoCreds /\ v.joinFailed = w.joinFailed
  BY <1>3 DEF Rams
<1>5. With(State, v) = St(sm, v, <<>>)
  BY <1>3 DEF With, St
<1>6. Becomes(Feed(With(State, v), "FORGET", NoStart))
  BY Zenon DEF Forget
<1> HIDE DEF v
<1>7. PICK u \in Rams : /\ Feed(St(sm, v, <<>>), "FORGET", NoStart) = St(SmSetup, u, ClearWrites)
                        /\ u.creds = NoCreds /\ u.prev = v.prev /\ ~u.credsOk /\ u.joinFailed = v.joinFailed
                        /\ u.apRun /\ u.join = NoCreds /\ u.phase = "idle"
  BY <1>4, FedForget
<1>8. sm' = SmSetup /\ w' = u /\ todo' = ClearWrites
  BY <1>5, <1>6, <1>7, Became
<1>9. sm' \in Machines /\ sm'.st = "SETUP_AP" /\ sm'.joined = 0
  BY <1>8, SmKnown
<1>10. /\ w' \in Rams /\ w'.creds = NoCreds /\ w'.prev = NoCreds /\ w'.joinFailed = w.joinFailed
       /\ w'.apRun /\ w'.join = NoCreds /\ w'.phase = "idle"
  BY <1>4, <1>7, <1>8
<1>11. /\ kv' = kv /\ web' = NoCreds /\ proven' = NoCreds /\ cuts' = cuts /\ cutShort' = cutShort /\ stale' = stale
  BY <1>2, <1>3
<1>12. /\ todo' \in Seq(KvWrites) /\ OneEach(todo')
       /\ \A s : EndsIn(todo', s, "ssid", "none") /\ EndsIn(todo', s, "psk", "none")
  <2>1. "none" \in Named /\ ClearWrites = <<Put("ssid", "none"), Put("psk", "none"), Put("ok", "0")>>
    BY DEF Named, ClearWrites
  <2> QED
    BY <1>8, <2>1, ThreeDo
<1>13. ~w.joinFailed
  BY <1>1, <1>2 DEF Quiet, MachineInv
<1>14. WifiTypes'
  BY <1>9, <1>10, <1>11, <1>1, <1>3, <1>12 DEF WifiTypes
<1>15. CredsWhole'
  BY <1>9, <1>10, <1>11, <1>1 DEF CredsWhole, Whole
<1>16. OffState'
  BY <1>9, <1>10, <1>11 DEF OffState, Booted
<1>17. MachineInv'
  BY <1>9, <1>10, <1>11, <1>13 DEF MachineInv, Booted, Joining
<1>18. DriverInv'
  BY <1>9, <1>10, <1>11 DEF DriverInv, Booted
<1>19. ProvenInv'
  BY <1>9, <1>10, <1>11 DEF ProvenInv, Booted, Stored
<1>20. OnePerKey'
  BY <1>9, <1>10, <1>11, <1>12 DEF OnePerKey
<1>21. NameFollows'
  BY <1>10, <1>11, <1>12, NamesErased
<1>22. OkFollows'
  BY <1>9, <1>10, <1>11 DEF OkFollows, Booted, Has, Ends, Follows
<1>23. SetupHasHotspot'
  BY <1>9, <1>10, <1>11 DEF SetupHasHotspot, Booted
<1> QED
  BY <1>14, <1>15, <1>16, <1>17, <1>18, <1>19, <1>20, <1>21, <1>22, <1>23 DEF WifiSafe

\* A lost network leaves the credentials as they are.
LEMMA LostKeeps ==
    ASSUME WifiSafe, Lost
    PROVE  WifiSafe'
<1>1. /\ WifiTypes /\ CredsWhole /\ OffState /\ MachineInv /\ DriverInv /\ ProvenInv
      /\ OnePerKey /\ NameFollows /\ OkFollows /\ SetupHasHotspot
  BY DEF WifiSafe
<1>2. Quiet /\ w.phase = "up" /\ UNCHANGED <<kv, web, cuts, proven, cutShort, stale>>
  BY DEF Lost
<1>3. /\ Booted /\ web = NoCreds /\ todo = <<>> /\ State = St(sm, w, <<>>) /\ KvFollows
      /\ NoCreds \in Creds /\ w \in Rams /\ sm \in Machines
  BY <1>2, QuietNow
<1> DEFINE v == [w EXCEPT !.join = NoCreds, !.phase = "idle"]
<1>4. /\ v \in Rams /\ v.creds = w.creds /\ v.prev = w.prev /\ v.credsOk = w.credsOk /\ v.joinFailed = w.joinFailed
      /\ v.apRun = w.apRun /\ v.join = NoCreds /\ v.phase = "idle"
  BY <1>3 DEF Rams
<1>5. With(State, v) = St(sm, v, <<>>)
  BY <1>3 DEF With, St
<1>6. ~w.joinFailed
  BY <1>1, <1>3 DEF MachineInv
<1>7. Becomes(Feed(With(State, v), "LOST", NoStart))
  BY Zenon DEF Lost
<1> HIDE DEF v
<1>8. sm.st = "ONLINE"
  BY <1>1, <1>2, <1>3 DEF DriverInv
<1>9. sm.joined = 1 /\ w.creds # NoCreds
  BY <1>1, <1>3, <1>8 DEF MachineInv, Machines, Joining
<1>10. PICK u \in Rams : /\ Feed(St(sm, v, <<>>), "LOST", NoStart) = St(Sm("RETRYING", sm.ap, sm.joined), u, <<>>)
                         /\ u.creds = v.creds /\ u.prev = v.prev /\ u.credsOk = v.credsOk /\ u.joinFailed = v.joinFailed
                         /\ u.apRun = v.apRun /\ u.join = NoCreds /\ u.phase = "idle"
  BY <1>4, <1>8, FedLost
<1>11. sm' = Sm("RETRYING", sm.ap, sm.joined) /\ w' = u /\ todo' = <<>>
  BY <1>5, <1>7, <1>10, Became
<1>12. sm' \in Machines /\ sm'.st = "RETRYING" /\ sm'.joined = 1
  BY <1>3, <1>9, <1>11 DEF Sm, Machines, WifiStates
<1>13. /\ w' \in Rams /\ w'.creds = w.creds /\ w'.prev = w.prev /\ w'.credsOk = w.credsOk /\ ~w'.joinFailed
       /\ w'.join = NoCreds /\ w'.phase = "idle"
  BY <1>4, <1>6, <1>10, <1>11
<1>14. /\ todo' = <<>> /\ kv' = kv /\ web' = NoCreds /\ proven' = proven /\ cuts' = cuts /\ cutShort' = cutShort /\ stale' = stale
  BY <1>2, <1>3, <1>11
<1>15. WifiTypes'
  BY <1>12, <1>13, <1>14, <1>1, <1>3, NoWrites DEF WifiTypes
<1>16. CredsWhole'
  BY <1>12, <1>13, <1>14, <1>1 DEF CredsWhole, Whole
<1>17. OffState'
  BY <1>12, <1>13, <1>14 DEF OffState, Booted
<1>18. MachineInv'
  BY <1>12, <1>13, <1>14, <1>9 DEF MachineInv, Booted, Joining
<1>19. DriverInv'
  BY <1>12, <1>13, <1>14, <1>9 DEF DriverInv, Booted
<1>20. ProvenInv'
  BY <1>12, <1>13, <1>14, <1>1, <1>3, <1>9 DEF ProvenInv, Booted
<1>21. OnePerKey'
  BY <1>12, <1>13, <1>14, NoWrites DEF OnePerKey
<1>22. NameFollows'
  BY <1>3, <1>13, <1>14, NamesStay
<1>23. OkFollows'
  BY <1>3, <1>9, <1>12, <1>13, <1>14, OkStays
<1>24. SetupHasHotspot'
  BY <1>12, <1>13, <1>14 DEF SetupHasHotspot, Booted
<1> QED
  BY <1>15, <1>16, <1>17, <1>18, <1>19, <1>20, <1>21, <1>22, <1>23, <1>24 DEF WifiSafe

\* A failed join, from each of the states that wait for one.
LEMMA JoinFailsKeeps ==
    ASSUME WifiSafe, JoinFails
    PROVE  WifiSafe'
<1>1. /\ WifiTypes /\ CredsWhole /\ OffState /\ MachineInv /\ DriverInv /\ ProvenInv
      /\ OnePerKey /\ NameFollows /\ OkFollows /\ SetupHasHotspot
  BY DEF WifiSafe
<1>2. Quiet /\ w.phase = "joining" /\ UNCHANGED <<kv, web, cuts, proven, cutShort, stale>>
  BY DEF JoinFails
<1>3. /\ Booted /\ web = NoCreds /\ todo = <<>> /\ State = St(sm, w, <<>>) /\ KvFollows
      /\ NoCreds \in Creds /\ w \in Rams /\ sm \in Machines
  BY <1>2, QuietNow
<1> DEFINE v == [w EXCEPT !.join = NoCreds, !.phase = "idle"]
<1>4. /\ v \in Rams /\ v.creds = w.creds /\ v.prev = w.prev /\ v.credsOk = w.credsOk /\ v.joinFailed = w.joinFailed
      /\ v.apRun = w.apRun /\ v.join = NoCreds /\ v.phase = "idle"
  BY <1>3 DEF Rams
<1>5. With(State, v) = St(sm, v, <<>>)
  BY <1>3 DEF With, St
<1>6. ~w.joinFailed
  BY <1>1, <1>3 DEF MachineInv
<1>7. Becomes(Feed(With(State, v), "FAILED", NoStart))
  BY Zenon DEF JoinFails
<1> HIDE DEF v
<1>8. sm.st \in {"CONNECTING", "RETRYING", "SETUP_AP_RETRYING"}
  BY <1>1, <1>2, <1>3 DEF DriverInv, Machines, WifiStates, Booted
<1>9. w.creds # NoCreds
  BY <1>1, <1>3, <1>8 DEF MachineInv, Joining
<1>10. /\ kv' = kv /\ web' = NoCreds /\ proven' = proven /\ cuts' = cuts /\ cutShort' = cutShort /\ stale' = stale
  BY <1>2, <1>3
<1>11. CASE sm.st # "CONNECTING"
  <2>1. Feed(St(sm, v, <<>>), "FAILED", NoStart) = St(sm, v, <<>>)
    BY <1>11, FedFailsOnce
  <2>2. sm' = sm /\ w' = v /\ todo' = <<>>
    BY <1>5, <1>7, <2>1, Became
  <2>3. /\ w' \in Rams /\ w'.creds = w.creds /\ w'.prev = w.prev /\ w'.credsOk = w.credsOk /\ ~w'.joinFailed
        /\ w'.apRun = w.apRun /\ w'.join = NoCreds /\ w'.phase = "idle"
    BY <1>4, <1>6, <2>2
  <2>4. WifiTypes'
    BY <1>10, <1>11, <2>2, <2>3, <1>1, <1>3, NoWrites DEF WifiTypes
  <2>5. CredsWhole'
    BY <1>10, <1>11, <2>2, <2>3, <1>1 DEF CredsWhole, Whole
  <2>6. OffState'
    BY <1>10, <1>11, <2>2, <2>3, <1>3 DEF OffState, Booted
  <2>7. MachineInv'
    BY <1>10, <1>11, <2>2, <2>3, <1>1, <1>3, <1>8, <1>9 DEF MachineInv, Booted, Joining
  <2>8. DriverInv'
    BY <1>10, <1>11, <2>2, <2>3, <1>8, <1>9 DEF DriverInv, Booted
  <2>9. ProvenInv'
    BY <1>10, <1>11, <2>2, <2>3, <1>1, <1>3 DEF ProvenInv, Booted
  <2>10. OnePerKey'
    BY <1>10, <1>11, <2>2, <2>3, NoWrites DEF OnePerKey
  <2>11. NameFollows'
    BY <1>10, <1>11, <2>2, <2>3, <1>3, <1>9, NoWrites DEF NameFollows, Booted, Target, Ends, KvFollows, Has
  <2>12. OkFollows'
    BY <1>10, <1>11, <2>2, <2>3, <1>3, NoWrites DEF OkFollows, Booted, Has, Ends, KvFollows, Follows
  <2>13. SetupHasHotspot'
    BY <1>10, <1>11, <2>2, <2>3, <1>1, <1>3 DEF SetupHasHotspot, Booted
  <2> QED
    BY <2>4, <2>5, <2>6, <2>7, <2>8, <2>9, <2>10, <2>11, <2>12, <2>13 DEF WifiSafe
<1>12. CASE sm.st = "CONNECTING" /\ sm.joined = 1
  <2>1. Feed(St(sm, v, <<>>), "FAILED", NoStart) = St(Sm("RETRYING", sm.ap, 1), v, <<>>)
    BY <1>12, FedFailsOnce
  <2>2. sm' = Sm("RETRYING", sm.ap, 1) /\ w' = v /\ todo' = <<>>
    BY <1>5, <1>7, <2>1, Became
  <2>3. /\ w' \in Rams /\ w'.creds = w.creds /\ w'.prev = w.prev /\ w'.credsOk = w.credsOk /\ ~w'.joinFailed
        /\ w'.apRun = w.apRun /\ w'.join = NoCreds /\ w'.phase = "idle"
    BY <1>4, <1>6, <2>2
  <2>4. sm' \in Machines /\ sm'.st = "RETRYING" /\ sm'.joined = 1
    BY <1>3, <2>2 DEF Sm, Machines, WifiStates
  <2>5. WifiTypes'
    BY <1>10, <1>12, <2>2, <2>3, <2>4, <1>1, <1>3, NoWrites DEF WifiTypes
  <2>6. CredsWhole'
    BY <1>10, <1>12, <2>2, <2>3, <2>4, <1>1 DEF CredsWhole, Whole
  <2>7. OffState'
    BY <1>10, <1>12, <2>2, <2>3, <2>4, <1>3 DEF OffState, Booted
  <2>8. MachineInv'
    BY <1>10, <1>12, <2>2, <2>3, <2>4, <1>1, <1>9 DEF MachineInv, Booted, Joining
  <2>9. DriverInv'
    BY <1>10, <1>12, <2>2, <2>3, <2>4, <1>8, <1>9 DEF DriverInv, Booted
  <2>10. ProvenInv'
    BY <1>10, <1>12, <2>2, <2>3, <2>4, <1>1, <1>3 DEF ProvenInv, Booted
  <2>11. OnePerKey'
    BY <1>10, <1>12, <2>2, <2>3, <2>4, NoWrites DEF OnePerKey
  <2>12. NameFollows'
    BY <1>10, <1>12, <2>2, <2>3, <2>4, <1>3, <1>9, NoWrites DEF NameFollows, Booted, Target, Ends, KvFollows, Has
  <2>13. OkFollows'
    BY <1>10, <1>12, <2>2, <2>3, <2>4, <1>3, NoWrites DEF OkFollows, Booted, Has, Ends, KvFollows, Follows
  <2>14. SetupHasHotspot'
    BY <1>10, <1>12, <2>2, <2>3, <2>4 DEF SetupHasHotspot, Booted
  <2> QED
    BY <2>5, <2>6, <2>7, <2>8, <2>9, <2>10, <2>11, <2>12, <2>13, <2>14 DEF WifiSafe
<1>13. CASE sm.st = "CONNECTING" /\ sm.joined = 2
  <2>1. w.prev # NoCreds
    BY <1>1, <1>3, <1>13 DEF MachineInv
  <2>2. PICK u \in Rams : /\ Feed(St(sm, v, <<>>), "FAILED", NoStart) = St(SmGoesBack(sm), u, RestoreWrites(v.prev))
                          /\ u.creds = v.prev /\ u.prev = NoCreds /\ u.credsOk /\ u.joinFailed = v.joinFailed
                          /\ u.apRun = v.apRun /\ u.join = v.join /\ u.phase = v.phase
    <3>1. v.prev # NoCreds /\ v \in Rams
      BY <1>4, <2>1
    <3>2. Replacing(sm)
      BY <1>13 DEF Replacing
    <3> QED
      BY <3>1, <3>2, FedFailsReplaced
  <2>3. sm' = SmGoesBack(sm) /\ w' = u /\ todo' = RestoreWrites(w.prev)
    BY <1>4, <1>5, <1>7, <2>2, Became
  <2>4. /\ w' \in Rams /\ w'.creds = w.prev /\ w'.prev = NoCreds /\ w'.credsOk /\ ~w'.joinFailed
        /\ w'.apRun = w.apRun /\ w'.join = NoCreds /\ w'.phase = "idle"
    BY <1>4, <1>6, <2>2, <2>3
  <2>5. sm' \in Machines /\ sm'.st = "RETRYING" /\ sm'.joined = 1
    BY <1>3, <2>3 DEF SmGoesBack, Sm, Machines, WifiStates
  <2>6. /\ todo' \in Seq(KvWrites) /\ OneEach(todo') /\ ~HasIn(todo', "joined")
        /\ \A s : EndsIn(todo', s, "ssid", w'.creds.ssid) /\ EndsIn(todo', s, "psk", w'.creds.psk) /\ EndsIn(todo', s, "ok", "1")
    <3>1. w.prev.ssid \in Named /\ w.prev.psk \in Named
      BY <1>3 DEF Rams, Creds
    <3>2. todo' = <<Put("ssid", w.prev.ssid), Put("psk", w.prev.psk), Put("ok", "1")>>
      BY <2>3 DEF RestoreWrites
    <3>3. "1" \in {"0", "1"}
      OBVIOUS
    <3> QED
      BY <2>4, <3>1, <3>2, <3>3, ThreeDo
  <2>7. WifiTypes'
    BY <1>10, <1>13, <2>4, <2>5, <1>1, <1>3, <2>6 DEF WifiTypes
  <2>8. CredsWhole'
    BY <1>10, <1>13, <2>4, <2>5, <1>1 DEF CredsWhole, Whole
  <2>9. OffState'
    BY <1>10, <1>13, <2>4, <2>5 DEF OffState, Booted
  <2>10. MachineInv'
    BY <1>10, <1>13, <2>4, <2>5, <2>1 DEF MachineInv, Booted, Joining
  <2>11. DriverInv'
    BY <1>10, <1>13, <2>4, <2>5 DEF DriverInv, Booted
  <2>12. ProvenInv'
    BY <1>10, <1>13, <2>4, <2>5, <1>1, <1>3 DEF ProvenInv, Booted
  <2>13. OnePerKey'
    BY <1>10, <1>13, <2>4, <2>5, <2>6 DEF OnePerKey
  <2>14. NameFollows'
    BY <1>10, <1>13, <2>4, <2>5, <2>1, <2>6 DEF NameFollows, Booted, Target, Ends, Has
  <2>15. OkFollows'
    BY <1>10, <1>13, <2>4, <2>5, <2>6 DEF OkFollows, Booted, Has, Ends, Follows
  <2>16. SetupHasHotspot'
    BY <1>10, <1>13, <2>4, <2>5 DEF SetupHasHotspot, Booted
  <2> QED
    BY <2>7, <2>8, <2>9, <2>10, <2>11, <2>12, <2>13, <2>14, <2>15, <2>16 DEF WifiSafe
<1>14. CASE sm.st = "CONNECTING" /\ sm.joined = 0
  <2>1. w.prev = NoCreds /\ w.apRun
    BY <1>1, <1>3, <1>14 DEF MachineInv, SetupHasHotspot
  <2>2. PICK u \in Rams : /\ Feed(St(sm, v, <<>>), "FAILED", NoStart) = St(SmSetup, u, ClearWrites)
                          /\ u.creds = NoCreds /\ u.prev = v.prev /\ ~u.credsOk /\ u.joinFailed = v.joinFailed
                          /\ u.apRun = v.apRun /\ u.join = v.join /\ u.phase = v.phase
    <3>1. v \in Rams
      BY <1>4
    <3>2. FirstTried(sm)
      BY <1>14 DEF FirstTried
    <3> QED
      BY <3>1, <3>2, FedFailsNew
  <2>3. sm' = SmSetup /\ w' = u /\ todo' = ClearWrites
    BY <1>5, <1>7, <2>2, Became
  <2>4. /\ w' \in Rams /\ w'.creds = NoCreds /\ w'.prev = NoCreds /\ ~w'.credsOk /\ ~w'.joinFailed
        /\ w'.apRun /\ w'.join = NoCreds /\ w'.phase = "idle"
    BY <1>4, <1>6, <2>1, <2>2, <2>3
  <2>5. sm' \in Machines /\ sm'.st = "SETUP_AP" /\ sm'.joined = 0
    BY <2>3, SmKnown
  <2>6. /\ todo' \in Seq(KvWrites) /\ OneEach(todo')
        /\ \A s : EndsIn(todo', s, "ssid", "none") /\ EndsIn(todo', s, "psk", "none")
    <3>1. "none" \in Named /\ ClearWrites = <<Put("ssid", "none"), Put("psk", "none"), Put("ok", "0")>>
      BY DEF Named, ClearWrites
    <3> QED
      BY <2>3, <3>1, ThreeDo
  <2>7. WifiTypes'
    BY <1>10, <1>14, <2>4, <2>5, <1>1, <1>3, <2>6 DEF WifiTypes
  <2>8. CredsWhole'
    BY <1>10, <1>14, <2>4, <2>5, <1>1 DEF CredsWhole, Whole
  <2>9. OffState'
    BY <1>10, <1>14, <2>4, <2>5 DEF OffState, Booted
  <2>10. MachineInv'
    BY <1>10, <1>14, <2>4, <2>5 DEF MachineInv, Booted, Joining
  <2>11. DriverInv'
    BY <1>10, <1>14, <2>4, <2>5 DEF DriverInv, Booted
  <2>12. ProvenInv'
    BY <1>10, <1>14, <2>4, <2>5, <1>1, <1>3 DEF ProvenInv, Booted
  <2>13. OnePerKey'
    BY <1>10, <1>14, <2>4, <2>5, <2>6 DEF OnePerKey
  <2>14. NameFollows'
    BY <1>10, <2>4, <2>6, NamesErased
  <2>15. OkFollows'
    BY <1>10, <1>14, <2>4, <2>5 DEF OkFollows, Booted, Has, Ends, Follows
  <2>16. SetupHasHotspot'
    BY <1>10, <1>14, <2>4, <2>5 DEF SetupHasHotspot, Booted
  <2> QED
    BY <2>7, <2>8, <2>9, <2>10, <2>11, <2>12, <2>13, <2>14, <2>15, <2>16 DEF WifiSafe
<1>15. sm.joined \in {0, 1, 2}
  BY <1>3 DEF Machines
<1> QED
  BY <1>8, <1>11, <1>12, <1>13, <1>14, <1>15, Zenon

\* Online: the credentials in use are those that joined.
LEMMA GotIpKeeps ==
    ASSUME WifiSafe, GotIp
    PROVE  WifiSafe'
<1>1. /\ WifiTypes /\ CredsWhole /\ OffState /\ MachineInv /\ DriverInv /\ ProvenInv
      /\ OnePerKey /\ NameFollows /\ OkFollows /\ SetupHasHotspot
  BY DEF WifiSafe
<1>2. Quiet /\ w.phase = "joining" /\ UNCHANGED <<kv, web, cuts, stale>> /\ cutShort' \in BOOLEAN
  <2>1. cutShort \in BOOLEAN
    BY <1>1 DEF WifiTypes
  <2> QED
    BY <2>1 DEF GotIp
<1>3. /\ Booted /\ web = NoCreds /\ todo = <<>> /\ State = St(sm, w, <<>>) /\ KvFollows
      /\ NoCreds \in Creds /\ w \in Rams /\ sm \in Machines
  BY <1>2, QuietNow
<1>4. sm.st \in {"CONNECTING", "RETRYING", "SETUP_AP_RETRYING"}
  BY <1>1, <1>2, <1>3 DEF DriverInv, Machines, WifiStates, Booted
<1>5. w.creds # NoCreds /\ ~w.joinFailed /\ w.join = w.creds /\ w.creds \in Creds
  BY <1>1, <1>2, <1>3, <1>4 DEF MachineInv, Joining, DriverInv, Rams
<1> DEFINE n == Sm("ONLINE", sm.ap, 1)
           v == [w EXCEPT !.phase = "up"]
           u == [v EXCEPT !.prev = NoCreds]
           x == Feed(With(State, v), "GOT_IP", NoStart)
           z == With(x, [x.w EXCEPT !.prev = NoCreds])
<1>6. /\ Becomes(IF x.sm.st # "ONLINE" THEN x ELSE IF z.w.credsOk THEN z ELSE St(z.sm, z.w, JoinedWrites))
      /\ proven' = IF x.sm.st = "ONLINE" THEN w.join ELSE proven
  BY Zenon DEF GotIp, JoinedWrites
<1>7. With(State, v) = St(sm, v, <<>>)
  BY <1>3 DEF With, St
<1>8. n \in Machines /\ n.st = "ONLINE" /\ n.joined = 1
  BY <1>3 DEF Sm, Machines, WifiStates
<1>9. /\ u \in Rams /\ u.creds = w.creds /\ u.prev = NoCreds /\ u.credsOk = w.credsOk /\ ~u.joinFailed
      /\ u.join = w.creds /\ u.phase = "up"
  BY <1>3, <1>5 DEF Rams
<1>10. x = St(n, v, <<>>)
  <2>1. Feed(St(sm, v, <<>>), "GOT_IP", NoStart) = St(Sm("ONLINE", sm.ap, 1), v, <<>>)
    BY <1>4, FedGotIp
  <2> QED
    BY <1>7, <2>1
<1> HIDE DEF n, x
<1>11. x.sm.st = "ONLINE" /\ z = St(n, u, <<>>)
  BY <1>8, <1>10 DEF St, With
<1> HIDE DEF u, v, z
<1>12. z.sm = n /\ z.w = u
  BY <1>11 DEF St
<1>13. Becomes(IF u.credsOk THEN St(n, u, <<>>) ELSE St(n, u, JoinedWrites)) /\ proven' = w.creds
  BY <1>5, <1>6, <1>11, <1>12
<1>14. sm' = n /\ w' = u /\ todo' = IF w.credsOk THEN <<>> ELSE JoinedWrites
  <2>1. CASE w.credsOk
    <3>1. Becomes(St(n, u, <<>>))
      BY <1>9, <1>13, <2>1
    <3> QED
      BY <2>1, <3>1, Became
  <2>2. CASE ~w.credsOk
    <3>1. Becomes(St(n, u, JoinedWrites))
      BY <1>9, <1>13, <2>2
    <3> QED
      BY <2>2, <3>1, Became
  <2> QED
    BY <2>1, <2>2
<1>15. sm' \in Machines /\ sm'.st = "ONLINE" /\ sm'.joined = 1
  BY <1>8, <1>14
<1>16. /\ w' \in Rams /\ w'.creds = w.creds /\ w'.prev = NoCreds /\ w'.credsOk = w.credsOk /\ ~w'.joinFailed
       /\ w'.join = w.creds /\ w'.phase = "up"
  BY <1>9, <1>14
<1>17. /\ kv' = kv /\ web' = NoCreds /\ proven' = w.creds /\ cuts' = cuts /\ cutShort' \in BOOLEAN /\ stale' = stale
  BY <1>2, <1>3, <1>13
<1>18. /\ todo' \in Seq(KvWrites) /\ OneEach(todo')
       /\ ~HasIn(todo', "ok") /\ ~HasIn(todo', "ssid") /\ ~HasIn(todo', "psk")
       /\ w.credsOk = ~HasIn(todo', "joined")
       /\ \A s, val : EndsIn(todo', s, "ssid", val) <=> s.ssid = val
       /\ \A s, val : EndsIn(todo', s, "psk", val) <=> s.psk = val
  <2>1. CASE w.credsOk
    <3>1. todo' = <<>>
      BY <1>14, <2>1
    <3> QED
      BY <2>1, <3>1, NoWrites
  <2>2. CASE ~w.credsOk
    <3>1. todo' = JoinedWrites
      BY <1>14, <2>2
    <3>2. w.credsOk = FALSE
      BY <1>3, <2>2 DEF Rams
    <3> QED
      BY <3>1, <3>2, JoinedDo
  <2> QED
    BY <2>1, <2>2
<1>19. OkFollows'
  <2>1. CASE w.credsOk
    <3>1. todo' = <<>> /\ w'.credsOk
      BY <1>14, <1>16, <2>1
    <3>2. "ok" \notin stale' => kv'.ok = "1" \/ kv'.ok = "none"
      BY <1>3, <1>5, <1>17, <2>1 DEF KvFollows
    <3>3. /\ ~HasIn(todo', "joined") /\ ~HasIn(todo', "ok")
          /\ "ok" \notin stale' => EndsIn(todo', kv', "ok", "1") \/ EndsIn(todo', kv', "ok", "none")
      BY <3>1, <3>2, NoWrites
    <3> QED
      BY <1>17, <3>1, <3>3 DEF OkFollows, Follows, Has, Ends
  <2>2. CASE ~w.credsOk
    <3>1. HasIn(todo', "joined") /\ ~HasIn(todo', "ok")
      BY <1>18, <2>2
    <3>2. ~w'.credsOk
      BY <1>16, <2>2
    <3>3. "ok" \notin stale' => EndsIn(todo', kv', "ok", "0")
      <4>1. todo' = JoinedWrites
        BY <1>14, <2>2
      <4>2. "ok" \notin stale' => kv'.ok = "0"
        BY <1>3, <1>5, <1>17, <2>2 DEF KvFollows
      <4> QED
        BY <4>1, <4>2, JoinedDo
    <3> QED
      BY <1>17, <3>1, <3>2, <3>3 DEF OkFollows, Follows, Has, Ends
  <2> QED
    BY <2>1, <2>2
<1>20. WifiTypes'
  BY <1>15, <1>16, <1>17, <1>1, <1>3, <1>5, <1>18 DEF WifiTypes
<1>21. CredsWhole'
  BY <1>15, <1>16, <1>17, <1>1 DEF CredsWhole, Whole
<1>22. OffState'
  BY <1>15, <1>16, <1>17 DEF OffState, Booted
<1>23. MachineInv'
  BY <1>15, <1>16, <1>17, <1>5 DEF MachineInv, Booted, Joining
<1>24. DriverInv'
  BY <1>15, <1>16, <1>17 DEF DriverInv, Booted
<1>25. ProvenInv'
  BY <1>15, <1>16, <1>17 DEF ProvenInv, Booted, Stored
<1>26. OnePerKey'
  BY <1>15, <1>16, <1>17, <1>18 DEF OnePerKey
<1>27. NameFollows'
  BY <1>15, <1>16, <1>17, <1>3, <1>5, <1>18 DEF NameFollows, Target, Ends, KvFollows, Has
<1>29. SetupHasHotspot'
  BY <1>15, <1>16, <1>17 DEF SetupHasHotspot, Booted
<1> QED
  BY <1>20, <1>21, <1>22, <1>23, <1>24, <1>25, <1>26, <1>27, <1>19, <1>29 DEF WifiSafe

\* A tick, with no failed start to report.
LEMMA WifiTickKeeps ==
    ASSUME WifiSafe, NEW t, NEW y, Takes(y), WifiTick(t, y)
    PROVE  WifiSafe'
<1>1. /\ WifiTypes /\ CredsWhole /\ OffState /\ MachineInv /\ DriverInv /\ ProvenInv
      /\ OnePerKey /\ NameFollows /\ OkFollows /\ SetupHasHotspot
  BY DEF WifiSafe
<1>2. Quiet /\ UNCHANGED <<kv, web, cuts, proven, cutShort, stale>>
  BY DEF WifiTick
<1>3. /\ Booted /\ web = NoCreds /\ todo = <<>> /\ State = St(sm, w, <<>>) /\ KvFollows
      /\ NoCreds \in Creds /\ w \in Rams /\ sm \in Machines
  BY <1>2, QuietNow
<1>4. ~w.joinFailed /\ (sm.st \in Joining => w.creds # NoCreds)
  BY <1>1, <1>3 DEF MachineInv
<1>5. Becomes(FeedSkip(State, "TICK", t, y, "nothing"))
  <2>1. Becomes(FeedSkip(IF w.joinFailed THEN Feed(With(State, [w EXCEPT !.joinFailed = FALSE]), "FAILED", y) ELSE State,
                         "TICK", t, y, "nothing"))
    BY Zenon DEF WifiTick
  <2> QED
    BY <1>4, <2>1, Zenon
<1>6. PICK n, u : FeedSkip(St(sm, w, <<>>), "TICK", t, y, "nothing") = St(n, u, <<>>) /\ Ticked(sm, w, n, u)
  <2>1. sm.st \in Retrying => w.creds # NoCreds
    BY <1>4 DEF Retrying, Joining
  <2> QED
    BY <1>3, <2>1, FedTick
<1>7. sm' = n /\ w' = u /\ todo' = <<>>
  BY <1>3, <1>5, <1>6, Became
<1>8. /\ sm' \in Machines /\ w' \in Rams /\ sm'.joined = sm.joined
      /\ sm'.st = sm.st \/ (sm.st = "RETRYING" /\ sm'.st = "SETUP_AP_RETRYING" /\ w'.apRun)
  BY <1>6, <1>7 DEF Ticked
<1>9. /\ w'.creds = w.creds /\ w'.prev = w.prev /\ w'.credsOk = w.credsOk /\ w'.joinFailed = w.joinFailed
      /\ \/ w'.join = w.join /\ w'.phase = w.phase
         \/ sm.st \in {"RETRYING", "SETUP_AP_RETRYING"} /\ w'.join = w.creds /\ w'.phase = "joining"
  BY <1>6, <1>7 DEF Ticked, Retrying
<1>10. w.apRun /\ sm.st # "ONLINE" => w'.apRun
  BY <1>6, <1>7 DEF Ticked
<1>11. /\ kv' = kv /\ web' = NoCreds /\ proven' = proven /\ cuts' = cuts /\ cutShort' = cutShort /\ stale' = stale /\ todo' = <<>>
  BY <1>2, <1>3, <1>7
<1>12. Booted' /\ sm.st # "UNPROVISIONED"
  BY <1>3, <1>8 DEF Booted
<1>13. WifiTypes'
  BY <1>8, <1>9, <1>11, <1>12, <1>1, <1>3, NoWrites DEF WifiTypes
<1>14. CredsWhole'
  BY <1>8, <1>9, <1>11, <1>12, <1>1 DEF CredsWhole, Whole
<1>15. OffState'
  BY <1>8, <1>9, <1>11, <1>12 DEF OffState
<1>16. MachineInv'
  BY <1>8, <1>9, <1>11, <1>12, <1>1, <1>4 DEF MachineInv, Booted, Joining
<1>17. DriverInv'
  BY <1>8, <1>9, <1>11, <1>12, <1>1 DEF DriverInv, Booted
<1>18. ProvenInv'
  BY <1>8, <1>9, <1>11, <1>12, <1>1 DEF ProvenInv, Booted
<1>19. OnePerKey'
  BY <1>8, <1>9, <1>11, <1>12, NoWrites DEF OnePerKey
<1>20. NameFollows'
  BY <1>3, <1>9, <1>11, NamesStay
<1>21. OkFollows'
  BY <1>3, <1>8, <1>9, <1>11, OkStays
<1>22. SetupHasHotspot'
  BY <1>8, <1>9, <1>11, <1>12, <1>1, <1>10 DEF SetupHasHotspot, Booted
<1> QED
  BY <1>13, <1>14, <1>15, <1>16, <1>17, <1>18, <1>19, <1>20, <1>21, <1>22 DEF WifiSafe

\* Credentials typed in are tried: as a first join, or as a replacement with the way back.
LEMMA CredsTried ==
    ASSUME WifiSafe, web # NoCreds, todo = <<>>,
           sm' \in Machines, sm'.st = "CONNECTING", w' \in Rams, w'.creds = web, ~w'.credsOk, ~w'.joinFailed,
           w'.join = web, w'.phase = "joining", w'.apRun, todo' = UnjoinedWrites,
           web' = NoCreds, UNCHANGED <<kv, cuts, cutShort, stale>>,
           \/ /\ sm'.joined = 0 /\ w'.prev = NoCreds /\ proven' \in {proven, NoCreds}
              /\ proven' = NoCreds \/ cutShort
           \/ /\ sm'.joined = 2 /\ w'.prev # NoCreds /\ Whole(w'.prev) /\ proven' = proven
              /\ proven # NoCreds /\ ~cutShort => w'.prev = proven
    PROVE  WifiSafe'
<1>1. /\ WifiTypes /\ CredsWhole /\ OffState /\ MachineInv /\ DriverInv /\ ProvenInv
      /\ OnePerKey /\ NameFollows /\ OkFollows /\ SetupHasHotspot
  BY DEF WifiSafe
<1>2. Booted /\ web \in Creds /\ NoCreds \in Creds
  BY <1>1 DEF OffState, WifiTypes, NoCreds, Creds, Named
<1>3. ("ssid" \notin stale => kv.ssid = web.ssid) /\ ("psk" \notin stale => kv.psk = web.psk)
  BY <1>1, <1>2, NoWrites DEF NameFollows, Target, Ends, Has
<1>4. /\ kv' = kv /\ cuts' = cuts /\ cutShort' = cutShort /\ stale' = stale
  OBVIOUS
<1>5. /\ todo' \in Seq(KvWrites) /\ OneEach(todo')
      /\ ~HasIn(todo', "joined") /\ ~HasIn(todo', "ssid") /\ ~HasIn(todo', "psk")
      /\ \A s : EndsIn(todo', s, "ok", "0")
      /\ \A s, x : EndsIn(todo', s, "ssid", x) <=> s.ssid = x
      /\ \A s, x : EndsIn(todo', s, "psk", x) <=> s.psk = x
  BY UnjoinedDo
<1>6. WifiTypes'
  <2>1. proven' \in Creds /\ web' \in Creds
    BY <1>1, <1>2 DEF WifiTypes
  <2> QED
    BY <1>4, <1>1, <1>5, <2>1 DEF WifiTypes
<1>7. CredsWhole'
  <2>1. Whole(w.prev) /\ Whole(web) /\ Whole(proven) /\ Whole(NoCreds)
    BY <1>1 DEF CredsWhole, Whole
  <2>2. w'.creds = web /\ (w'.prev = NoCreds \/ Whole(w'.prev)) /\ web' = NoCreds
    OBVIOUS
  <2>3. proven' = NoCreds \/ proven' = proven \/ Whole(proven')
    OBVIOUS
  <2> QED
    BY <2>1, <2>2, <2>3, Zenon DEF CredsWhole
<1>8. OffState'
  BY <1>4 DEF OffState, Booted
<1>9. MachineInv'
  BY <1>4 DEF MachineInv, Booted, Joining
<1>10. DriverInv'
  BY <1>4 DEF DriverInv, Booted
<1>11. ProvenInv'
  BY <1>4 DEF ProvenInv, Booted
<1>12. OnePerKey'
  BY <1>4, <1>5 DEF OnePerKey
<1>13. NameFollows'
  BY <1>4, <1>3, <1>5 DEF NameFollows, Booted, Target, Ends, Has
<1>14. OkFollows'
  BY <1>4, <1>5 DEF OkFollows, Booted, Has, Ends, Follows
<1>15. SetupHasHotspot'
  BY <1>4 DEF SetupHasHotspot, Booted
<1> QED
  BY <1>6, <1>7, <1>8, <1>9, <1>10, <1>11, <1>12, <1>13, <1>14, <1>15 DEF WifiSafe

\* Handing over posted credentials: the same ones, setup, a replacement, or setup anew.
LEMMA TakeCredsKeeps ==
    ASSUME WifiSafe, NEW y, Takes(y), TakeCreds(y)
    PROVE  WifiSafe'
<1>1. /\ WifiTypes /\ CredsWhole /\ OffState /\ MachineInv /\ DriverInv /\ ProvenInv
      /\ OnePerKey /\ NameFollows /\ OkFollows /\ SetupHasHotspot
  BY DEF WifiSafe
<1>2. /\ web # NoCreds /\ todo = <<>> /\ web' = NoCreds
      /\ Becomes(SetCreds(web, y))
      /\ proven' = IF sm.st = "SETUP_AP_RETRYING" THEN NoCreds ELSE proven
      /\ UNCHANGED <<kv, cuts, cutShort, stale>>
  BY DEF TakeCreds
<1>3. /\ Booted /\ State = St(sm, w, <<>>) /\ NoCreds \in Creds /\ w \in Rams /\ sm \in Machines
      /\ web \in Creds /\ w.creds \in Creds /\ w.prev \in Creds
  BY <1>1, <1>2 DEF OffState, State, WifiTypes, NoCreds, Creds, Named, Rams
<1>4. /\ sm.joined = 2 => sm.st = "CONNECTING" /\ w.prev # NoCreds
      /\ sm.joined = 0 => sm.st \in {"SETUP_AP", "CONNECTING"} /\ w.prev = NoCreds
      /\ sm.st = "SETUP_AP" => sm.joined = 0
      /\ sm.st \in Joining => w.creds # NoCreds
      /\ ~w.joinFailed
  BY <1>1, <1>3 DEF MachineInv
<1>5. proven # NoCreds /\ ~cutShort => \/ sm.joined = 1 /\ w.creds = proven
                                       \/ sm.joined = 2 /\ w.prev = proven
  BY <1>1, <1>3 DEF ProvenInv
<1> DEFINE f == Fallback
           v0 == [w EXCEPT !.prev = f, !.creds = web]
           x == MarkUnjoined(With(State, v0))
<1>6. Becomes(IF Same(web) THEN State
              ELSE IF sm.st \in {"SETUP_AP", "SETUP_AP_RETRYING"} THEN FeedCredsSet(x, y)
              ELSE IF x.w.prev # NoCreds /\ sm.joined # 0 THEN Feed(x, "REPLACE", y)
              ELSE FeedCredsSet(FeedSkip(x, "FORGET", NoTimer, y, "CLEAR_CREDS"), y))
  BY <1>2, Zenon DEF SetCreds
<1>7. f \in {w.creds, w.prev}
  BY DEF Fallback
<1>8. /\ sm.joined = 1 /\ sm.st \in {"CONNECTING", "ONLINE", "RETRYING"} => f = w.creds /\ w.creds # NoCreds
      /\ sm.joined # 1 => f = w.prev
  BY <1>4 DEF Fallback, Joining
<1> HIDE DEF f
<1>9. v0 \in Rams /\ v0.creds = web /\ v0.prev = f /\ v0.joinFailed = w.joinFailed /\ v0.apRun = w.apRun
  BY <1>3, <1>7 DEF Rams
<1>10. With(State, v0) = St(sm, v0, <<>>)
  BY <1>3 DEF With, St
<1> HIDE DEF v0
<1>11. PICK v \in Rams : /\ MarkUnjoined(St(sm, v0, <<>>)) = St(sm, v, UnjoinedWrites)
                         /\ v.creds = v0.creds /\ v.prev = v0.prev /\ ~v.credsOk /\ v.joinFailed = v0.joinFailed
                         /\ v.apRun = v0.apRun /\ v.join = v0.join /\ v.phase = v0.phase
  BY <1>9, Unjoins
<1>12. x = St(sm, v, UnjoinedWrites)
  BY <1>10, <1>11
<1> HIDE DEF x
<1>13. /\ v.creds = web /\ v.prev = f /\ ~v.credsOk /\ ~v.joinFailed /\ v.apRun = w.apRun
  BY <1>4, <1>9, <1>11
<1>14. x.w.prev = f
  BY <1>12, <1>13 DEF St
<1>15. CASE Same(web)
  <2>1. Becomes(St(sm, w, <<>>))
    BY <1>3, <1>6, <1>15
  <2>2. sm' = sm /\ w' = w /\ todo' = <<>>
    BY <2>1, Became
  <2>3. w.creds = web /\ sm.st \in {"CONNECTING", "ONLINE"}
    BY <1>15 DEF Same
  <2>4. kv' = kv /\ web' = NoCreds /\ cuts' = cuts /\ cutShort' = cutShort /\ stale' = stale /\ proven' = proven
    BY <1>2, <2>3
  <2>5. WifiTypes'
    BY <1>1, <1>2, <1>3, <2>2, <2>3, <2>4 DEF WifiTypes
  <2>6. CredsWhole'
    BY <1>1, <1>2, <1>3, <2>2, <2>3, <2>4 DEF CredsWhole, Whole
  <2>7. OffState'
    BY <1>1, <1>2, <1>3, <2>2, <2>3, <2>4 DEF OffState, Booted
  <2>8. MachineInv'
    BY <1>1, <1>2, <1>3, <2>2, <2>3, <2>4 DEF MachineInv, Booted, Joining
  <2>9. DriverInv'
    BY <1>1, <1>2, <1>3, <2>2, <2>3, <2>4 DEF DriverInv, Booted
  <2>10. ProvenInv'
    BY <1>1, <1>2, <1>3, <2>2, <2>3, <2>4 DEF ProvenInv, Booted, Stored
  <2>11. OnePerKey'
    BY <1>1, <1>2, <1>3, <2>2, <2>3, <2>4 DEF OnePerKey
  <2>12. NameFollows'
    BY <1>1, <1>2, <1>3, <2>2, <2>3, <2>4, NoWrites DEF NameFollows, Booted, Target, Ends, Has
  <2>13. OkFollows'
    BY <1>1, <1>2, <1>3, <2>2, <2>3, <2>4 DEF OkFollows, Booted, Has, Ends, Follows
  <2>14. SetupHasHotspot'
    BY <1>1, <1>2, <1>3, <2>2, <2>3, <2>4 DEF SetupHasHotspot, Booted
  <2> QED
    BY <2>5, <2>6, <2>7, <2>8, <2>9, <2>10, <2>11, <2>12, <2>13, <2>14 DEF WifiSafe
<1>16. CASE ~Same(web) /\ sm.st \in {"SETUP_AP", "SETUP_AP_RETRYING"}
  <2> DEFINE n == IF sm.st = "SETUP_AP" THEN [sm EXCEPT !.st = "CONNECTING"] ELSE Sm("CONNECTING", sm.ap, 0)
  <2>1. TriesCreds(sm, n)
    BY <1>16 DEF TriesCreds
  <2>2. n \in Machines /\ n.st = "CONNECTING" /\ n.joined = 0
    BY <1>3, <1>4, <1>16 DEF Machines, WifiStates, Sm
  <2> HIDE DEF n
  <2>3. v.creds # NoCreds
    BY <1>2, <1>13
  <2>4. PICK u \in Rams : /\ FeedCredsSet(St(sm, v, UnjoinedWrites), y) = St(n, u, UnjoinedWrites)
                          /\ u.creds = v.creds /\ u.prev = NoCreds /\ u.credsOk = v.credsOk /\ u.joinFailed = v.joinFailed
                          /\ u.apRun = v.apRun /\ u.join = v.creds /\ u.phase = "joining"
    BY <2>1, <2>3, FedCredsSet
  <2>5. Becomes(FeedCredsSet(x, y))
    BY <1>6, <1>16
  <2>6. sm' = n /\ w' = u /\ todo' = UnjoinedWrites
    BY <1>12, <2>4, <2>5, Became
  <2>7. w.apRun
    BY <1>1, <1>3, <1>16 DEF SetupHasHotspot
  <2>8. proven' \in {proven, NoCreds} /\ (proven' = NoCreds \/ cutShort)
    BY <1>2, <1>4, <1>5, <1>16
  <2>9. /\ sm' \in Machines /\ sm'.st = "CONNECTING" /\ sm'.joined = 0
        /\ w' \in Rams /\ w'.creds = web /\ w'.prev = NoCreds /\ ~w'.credsOk /\ ~w'.joinFailed
        /\ w'.join = web /\ w'.phase = "joining" /\ w'.apRun
    BY <1>13, <2>2, <2>4, <2>6, <2>7
  <2> QED
    BY <1>2, <2>6, <2>8, <2>9, CredsTried
<1>17. sm.st \notin {"SETUP_AP", "SETUP_AP_RETRYING"} => sm.st \in {"CONNECTING", "ONLINE", "RETRYING"}
  BY <1>3 DEF Booted, Machines, WifiStates
<1>18. CASE ~Same(web) /\ sm.st \notin {"SETUP_AP", "SETUP_AP_RETRYING"} /\ f # NoCreds /\ sm.joined # 0
  <2>1. Becomes(Feed(x, "REPLACE", y))
    BY <1>6, <1>14, <1>18
  <2>2. Replaces(sm)
    BY <1>17, <1>18 DEF Replaces
  <2>3. v.creds # NoCreds
    BY <1>2, <1>13
  <2>4. PICK u \in Rams : /\ Feed(St(sm, v, UnjoinedWrites), "REPLACE", y) = St(SmReplacing, u, UnjoinedWrites)
                          /\ u.creds = v.creds /\ u.prev = v.prev /\ u.credsOk = v.credsOk /\ u.joinFailed = v.joinFailed
                          /\ u.apRun /\ u.join = v.creds /\ u.phase = "joining"
    BY <2>2, <2>3, FedReplace
  <2>5. sm' = SmReplacing /\ w' = u /\ todo' = UnjoinedWrites
    BY <1>12, <2>1, <2>4, Became
  <2>6. /\ sm' \in Machines /\ sm'.st = "CONNECTING" /\ sm'.joined = 2
        /\ w' \in Rams /\ w'.creds = web /\ w'.prev = f /\ ~w'.credsOk /\ ~w'.joinFailed
        /\ w'.join = web /\ w'.phase = "joining" /\ w'.apRun
    BY <1>13, <2>4, <2>5, SmKnown
  <2>7. w'.prev # NoCreds /\ Whole(w'.prev) /\ proven' = proven /\ (proven # NoCreds /\ ~cutShort => w'.prev = proven)
    <3>1. Whole(f)
      BY <1>1, <1>7 DEF CredsWhole
    <3>2. proven' = proven
      BY <1>2, <1>18
    <3>3. proven # NoCreds /\ ~cutShort => f = proven
      BY <1>5, <1>8, <1>17, <1>18
    <3> QED
      BY <1>18, <2>6, <3>1, <3>2, <3>3
  <2> QED
    BY <1>2, <2>5, <2>6, <2>7, CredsTried
<1>19. CASE ~Same(web) /\ sm.st \notin {"SETUP_AP", "SETUP_AP_RETRYING"} /\ ~(f # NoCreds /\ sm.joined # 0)
  <2> DEFINE n == [SmSetup EXCEPT !.st = "CONNECTING"]
  <2>1. Becomes(FeedCredsSet(FeedSkip(x, "FORGET", NoTimer, y, "CLEAR_CREDS"), y))
    BY <1>6, <1>14, <1>19
  <2>2. n \in Machines /\ n.st = "CONNECTING" /\ n.joined = 0
    BY SmKnown DEF Machines, WifiStates
  <2>3. TriesCreds(SmSetup, n)
    BY SmKnown DEF TriesCreds
  <2> HIDE DEF n
  <2>4. PICK v1 \in Rams : /\ FeedSkip(St(sm, v, UnjoinedWrites), "FORGET", NoTimer, y, "CLEAR_CREDS") = St(SmSetup, v1, UnjoinedWrites)
                           /\ v1.creds = v.creds /\ v1.prev = v.prev /\ v1.credsOk = v.credsOk /\ v1.joinFailed = v.joinFailed
                           /\ v1.apRun /\ v1.join = NoCreds /\ v1.phase = "idle"
    BY FedSetup
  <2>5. v1.creds # NoCreds
    BY <1>2, <1>13, <2>4
  <2>6. PICK u \in Rams : /\ FeedCredsSet(St(SmSetup, v1, UnjoinedWrites), y) = St(n, u, UnjoinedWrites)
                          /\ u.creds = v1.creds /\ u.prev = NoCreds /\ u.credsOk = v1.credsOk /\ u.joinFailed = v1.joinFailed
                          /\ u.apRun = v1.apRun /\ u.join = v1.creds /\ u.phase = "joining"
    BY <2>3, <2>5, FedCredsSet
  <2>7. sm' = n /\ w' = u /\ todo' = UnjoinedWrites
    BY <1>12, <2>1, <2>4, <2>6, Became
  <2>8. /\ sm' \in Machines /\ sm'.st = "CONNECTING" /\ sm'.joined = 0
        /\ w' \in Rams /\ w'.creds = web /\ w'.prev = NoCreds /\ ~w'.credsOk /\ ~w'.joinFailed
        /\ w'.join = web /\ w'.phase = "joining" /\ w'.apRun
    BY <1>13, <2>2, <2>4, <2>6, <2>7
  <2>9. sm.joined = 0
    <3>1. sm.joined \in {0, 1, 2}
      BY <1>3 DEF Machines
    <3> QED
      BY <1>4, <1>8, <1>17, <1>19, <3>1
  <2>10. proven' \in {proven, NoCreds} /\ (proven' = NoCreds \/ cutShort)
    BY <1>2, <1>5, <1>19, <2>9
  <2> QED
    BY <1>2, <2>7, <2>8, <2>10, CredsTried
<1> QED
  BY <1>15, <1>16, <1>18, <1>19, Zenon

\* One write less to do: what each key ends as stays the same.
LEMMA OneWritten ==
    ASSUME NEW q \in Seq(KvWrites), q # <<>>, OneEach(q)
    PROVE  /\ Tail(q) \in Seq(KvWrites) /\ OneEach(Tail(q)) /\ Head(q) \in KvWrites
           /\ \A k : HasIn(Tail(q), k) <=> HasIn(q, k) /\ Head(q).key # k
           /\ HasIn(q, Head(q).key)
           /\ \A k, s, s2, x : /\ EndsIn(q, s, k, x)
                               /\ s2[k] = IF Head(q).key = k THEN Head(q).val ELSE s[k]
                               => EndsIn(Tail(q), s2, k, x)
<1> DEFINE r == Tail(q)
           h == Head(q)
<1>1. /\ r \in Seq(KvWrites) /\ Len(q) \in Nat \ {0} /\ Len(r) = Len(q) - 1 /\ h = q[1] /\ h \in KvWrites
      /\ \A m \in 1..Len(r) : r[m] = q[m + 1]
      /\ DOMAIN q = 1..Len(q) /\ DOMAIN r = 1..Len(r)
  OBVIOUS
<1> HIDE DEF r, h
<1>2. /\ 1 \in DOMAIN q
      /\ \A m \in DOMAIN r : m + 1 \in DOMAIN q /\ m + 1 # 1 /\ r[m] = q[m + 1]
      /\ \A m \in DOMAIN q : m = 1 \/ (m - 1 \in DOMAIN r /\ r[m - 1] = q[m])
      /\ \A m, n \in DOMAIN r : m + 1 = n + 1 => m = n
  BY <1>1
<1>3. OneEach(r)
  BY <1>2 DEF OneEach
<1>4. \A m \in DOMAIN r : r[m].key # h.key
  BY <1>1, <1>2 DEF OneEach
<1>5. \A k : HasIn(r, k) <=> HasIn(q, k) /\ h.key # k
  <2>1. ASSUME NEW k, HasIn(r, k) PROVE HasIn(q, k) /\ h.key # k
    BY <1>2, <1>4, <2>1 DEF HasIn
  <2>2. ASSUME NEW k, HasIn(q, k), h.key # k PROVE HasIn(r, k)
    BY <1>1, <1>2, <2>2 DEF HasIn
  <2> QED
    BY <2>1, <2>2
<1>6. HasIn(q, h.key)
  BY <1>1, <1>2 DEF HasIn
<1>7. ASSUME NEW k, NEW s, NEW s2, NEW x, EndsIn(q, s, k, x), s2[k] = IF h.key = k THEN h.val ELSE s[k]
      PROVE  EndsIn(r, s2, k, x)
  <2>1. \A m \in DOMAIN r : r[m].key = k => r[m].val = x
    BY <1>2, <1>7 DEF EndsIn
  <2>2. ASSUME ~HasIn(r, k) PROVE s2[k] = x
    <3>1. CASE h.key = k
      BY <1>1, <1>2, <1>7, <3>1 DEF EndsIn
    <3>2. CASE h.key # k
      <4>1. ~HasIn(q, k)
        BY <1>5, <2>2, <3>2
      <4> QED
        BY <1>7, <3>2, <4>1 DEF EndsIn
    <3> QED
      BY <3>1, <3>2
  <2> QED
    BY <2>1, <2>2 DEF EndsIn
<1> QED
  BY <1>1, <1>3, <1>5, <1>6, <1>7 DEF r, h

\* A write of a handler, and the key it is for.
LEMMA WriteKeys ==
    ASSUME NEW d \in KvWrites
    PROVE  /\ \/ d.key \in {"ssid", "psk"} /\ d.val \in Named /\ Key(d) = d.key
              \/ d.key = "ok" /\ d.val \in {"0", "1"} /\ Key(d) = "ok"
              \/ d.key = "joined" /\ d.val = "1" /\ Key(d) = "ok"
BY DEF KvWrites, Put, Key

\* One write of a handler.
LEMMA StoreKeeps ==
    ASSUME WifiSafe, Store
    PROVE  WifiSafe'
<1>1. /\ WifiTypes /\ CredsWhole /\ OffState /\ MachineInv /\ DriverInv /\ ProvenInv
      /\ OnePerKey /\ NameFollows /\ OkFollows /\ SetupHasHotspot
  BY DEF WifiSafe
<1> DEFINE d == Head(todo)
           joined == d.key = "joined"
           k == Key(d)
<1>2. /\ todo # <<>> /\ todo' = Tail(todo)
      /\ kv' = [kv EXCEPT ![k] = d.val]
      /\ w' = [w EXCEPT !.credsOk = w.credsOk \/ joined]
      /\ stale' = stale \ {k}
      /\ UNCHANGED <<sm, web, cuts, proven, cutShort>>
  BY DEF Store
<1>3. /\ Booted /\ w \in Rams /\ todo \in Seq(KvWrites) /\ OneEach(todo)
      /\ kv \in [ssid : Named, psk : Named, ok : {"none", "0", "1"}]
      /\ stale \in SUBSET {"ssid", "psk", "ok"}
  BY <1>1, <1>2 DEF OffState, WifiTypes, OnePerKey
<1>4. /\ todo' \in Seq(KvWrites) /\ OneEach(todo') /\ d \in KvWrites
      /\ \A x : HasIn(todo', x) <=> Has(x) /\ d.key # x
      /\ Has(d.key)
  BY <1>2, <1>3, OneWritten DEF Has
<1>5. \A n, s2, x : /\ Ends(n, x)
                    /\ s2[n] = IF d.key = n THEN d.val ELSE kv[n]
                    => EndsIn(todo', s2, n, x)
  BY <1>2, <1>3, OneWritten DEF Ends
<1>6. \/ d.key \in {"ssid", "psk"} /\ d.val \in Named /\ k = d.key
      \/ d.key = "ok" /\ d.val \in {"0", "1"} /\ k = "ok"
      \/ d.key = "joined" /\ d.val = "1" /\ k = "ok"
  BY <1>4, WriteKeys
<1> HIDE DEF d, k
<1>7. /\ kv' \in [ssid : Named, psk : Named, ok : {"none", "0", "1"}]
      /\ kv'["ssid"] = IF d.key = "ssid" THEN d.val ELSE kv["ssid"]
      /\ kv'["psk"] = IF d.key = "psk" THEN d.val ELSE kv["psk"]
      /\ d.key # "joined" => kv'["ok"] = IF d.key = "ok" THEN d.val ELSE kv["ok"]
      /\ d.key = "joined" => kv'["ok"] = "1"
  BY <1>2, <1>3, <1>6
<1>8. /\ w' \in Rams /\ w'.creds = w.creds /\ w'.prev = w.prev /\ w'.joinFailed = w.joinFailed
      /\ w'.apRun = w.apRun /\ w'.join = w.join /\ w'.phase = w.phase
  BY <1>2, <1>3 DEF Rams
<1>9. /\ d.key = "joined" => w'.credsOk
      /\ d.key # "joined" => (w'.credsOk <=> w.credsOk)
  <2>1. w.credsOk \in BOOLEAN /\ w'.credsOk = (w.credsOk \/ joined)
    BY <1>2, <1>3 DEF Rams
  <2> QED
    BY <2>1
<1>10. \A x : /\ Ends("ssid", x) => EndsIn(todo', kv', "ssid", x)
              /\ Ends("psk", x) => EndsIn(todo', kv', "psk", x)
              /\ d.key # "joined" /\ Ends("ok", x) => EndsIn(todo', kv', "ok", x)
  BY <1>5, <1>7
<1>11. /\ sm' = sm /\ web' = web /\ cuts' = cuts /\ proven' = proven /\ cutShort' = cutShort /\ Booted'
       /\ stale' \in SUBSET {"ssid", "psk", "ok"} /\ Target' = Target
  BY <1>2, <1>3, <1>8 DEF Booted, Target
<1>12. /\ "ssid" \notin stale' => "ssid" \notin stale \/ Has("ssid")
       /\ "psk" \notin stale' => "psk" \notin stale \/ Has("psk")
       /\ "ok" \notin stale' /\ d.key # "joined" => Follows("ok")
  BY <1>2, <1>4, <1>6 DEF Follows
<1>13. OkFollows'
  <2>1. web' # NoCreds => ~HasIn(todo', "joined") /\ ~HasIn(todo', "ok")
    BY <1>1, <1>3, <1>4, <1>11 DEF OkFollows
  <2>2. ASSUME w.creds # NoCreds
        PROVE  /\ HasIn(todo', "joined") => ~w'.credsOk /\ ~HasIn(todo', "ok")
               /\ "ok" \notin stale' \/ HasIn(todo', "ok") =>
                     IF w'.credsOk THEN EndsIn(todo', kv', "ok", "1") \/ EndsIn(todo', kv', "ok", "none")
                     ELSE EndsIn(todo', kv', "ok", "0")
               /\ sm.joined = 1 /\ ~HasIn(todo', "joined") /\ ("ok" \notin stale' \/ HasIn(todo', "ok"))
                     => w'.credsOk
    <3>1. /\ Has("joined") => ~w.credsOk /\ ~Has("ok")
          /\ Follows("ok") => IF w.credsOk THEN Ends("ok", "1") \/ Ends("ok", "none") ELSE Ends("ok", "0")
          /\ sm.joined = 1 /\ ~Has("joined") /\ Follows("ok") => w.credsOk
      BY <1>1, <1>3, <2>2 DEF OkFollows
    <3>2. CASE d.key = "joined"
      <4>1. ~HasIn(todo', "joined") /\ ~HasIn(todo', "ok") /\ w'.credsOk
        BY <1>4, <1>9, <3>1, <3>2
      <4>2. EndsIn(todo', kv', "ok", "1")
        BY <1>7, <3>2, <4>1 DEF EndsIn, HasIn
      <4> QED
        BY <4>1, <4>2
    <3>3. CASE d.key # "joined"
      <4>1. /\ HasIn(todo', "joined") <=> Has("joined")
            /\ HasIn(todo', "ok") => Has("ok")
        BY <1>4, <3>3
      <4>2. "ok" \notin stale' \/ HasIn(todo', "ok") => Follows("ok")
        BY <1>12, <3>3, <4>1 DEF Follows
      <4> QED
        BY <1>9, <1>10, <3>1, <3>3, <4>1, <4>2
    <3> QED
      BY <3>2, <3>3
  <2> QED
    BY <1>8, <1>11, <2>1, <2>2 DEF OkFollows, Follows, Has, Ends
<1>14. NameFollows'
  <2>1. /\ ("ssid" \notin stale /\ Target # NoCreds) \/ Has("ssid") => Ends("ssid", Target.ssid)
        /\ ("psk" \notin stale /\ Target # NoCreds) \/ Has("psk") => Ends("psk", Target.psk)
        /\ Target = NoCreds /\ "ssid" \notin stale /\ "psk" \notin stale =>
              Ends("ssid", "none") \/ Ends("psk", "none")
    BY <1>1, <1>3 DEF NameFollows
  <2>2. ("ssid" \notin stale' /\ Target # NoCreds) \/ HasIn(todo', "ssid") => EndsIn(todo', kv', "ssid", Target.ssid)
    BY <1>4, <1>10, <1>12, <2>1
  <2>3. ("psk" \notin stale' /\ Target # NoCreds) \/ HasIn(todo', "psk") => EndsIn(todo', kv', "psk", Target.psk)
    BY <1>4, <1>10, <1>12, <2>1
  <2>4. ASSUME Target = NoCreds, "ssid" \notin stale', "psk" \notin stale'
        PROVE  EndsIn(todo', kv', "ssid", "none") \/ EndsIn(todo', kv', "psk", "none")
    <3>1. Target.ssid = "none" /\ Target.psk = "none"
      BY <2>4 DEF NoCreds
    <3>2. Ends("ssid", "none") \/ Ends("psk", "none")
      BY <1>12, <2>1, <2>4, <3>1
    <3> QED
      BY <1>10, <3>2
  <2> QED
    BY <1>11, <2>2, <2>3, <2>4 DEF NameFollows, Has, Ends
<1>15. WifiTypes'
  BY <1>1, <1>3, <1>8, <1>11, <1>4, <1>7 DEF WifiTypes
<1>16. CredsWhole'
  BY <1>1, <1>3, <1>8, <1>11 DEF CredsWhole, Whole
<1>17. OffState'
  BY <1>1, <1>3, <1>8, <1>11 DEF OffState
<1>18. MachineInv'
  BY <1>1, <1>3, <1>8, <1>11 DEF MachineInv, Booted, Joining
<1>19. DriverInv'
  BY <1>1, <1>3, <1>8, <1>11 DEF DriverInv, Booted
<1>20. ProvenInv'
  BY <1>1, <1>3, <1>8, <1>11 DEF ProvenInv, Booted
<1>21. OnePerKey'
  BY <1>1, <1>3, <1>8, <1>11, <1>4 DEF OnePerKey
<1>22. SetupHasHotspot'
  BY <1>1, <1>3, <1>8, <1>11 DEF SetupHasHotspot, Booted
<1> QED
  BY <1>13, <1>14, <1>15, <1>16, <1>17, <1>18, <1>19, <1>20, <1>21, <1>22 DEF WifiSafe

\* A write that fails: its key is behind, and after a POST the name and the password are.
LEMMA StoreFailsKeeps ==
    ASSUME WifiSafe, StoreFails
    PROVE  WifiSafe'
<1>1. /\ WifiTypes /\ CredsWhole /\ OffState /\ MachineInv /\ DriverInv /\ ProvenInv
      /\ OnePerKey /\ NameFollows /\ OkFollows /\ SetupHasHotspot
  BY DEF WifiSafe
<1> DEFINE d == Head(todo)
           k == Key(d)
<1>2. /\ todo # <<>> /\ todo' = IF web # NoCreds THEN <<>> ELSE Tail(todo)
      /\ web' = NoCreds /\ UNCHANGED <<sm, w, kv, cuts, proven, cutShort>>
      /\ stale' = stale \cup (IF web # NoCreds THEN {"ssid", "psk"} ELSE {k})
  BY DEF StoreFails
<1>3. /\ Booted /\ todo \in Seq(KvWrites) /\ OneEach(todo) /\ NoCreds \in Creds
      /\ stale \in SUBSET {"ssid", "psk", "ok"}
  BY <1>1, <1>2 DEF OffState, WifiTypes, OnePerKey, NoCreds, Creds, Named
<1>4. /\ Tail(todo) \in Seq(KvWrites) /\ OneEach(Tail(todo)) /\ d \in KvWrites
      /\ \A x : HasIn(Tail(todo), x) <=> Has(x) /\ d.key # x
      /\ Has(d.key)
  BY <1>2, <1>3, OneWritten DEF Has
<1>5. \A n, x : Ends(n, x) /\ d.key # n => EndsIn(Tail(todo), kv, n, x)
  BY <1>2, <1>3, OneWritten DEF Ends
<1>6. \/ d.key \in {"ssid", "psk"} /\ k = d.key
      \/ d.key = "ok" /\ k = "ok"
      \/ d.key = "joined" /\ k = "ok"
  BY <1>4, WriteKeys
<1> HIDE DEF d, k
<1>7. todo' \in Seq(KvWrites) /\ OneEach(todo') /\ stale' \in SUBSET {"ssid", "psk", "ok"}
  BY <1>2, <1>3, <1>4, <1>6, NoWrites
<1>8. Booted' /\ cuts' = cuts /\ cutShort' = cutShort
  BY <1>2, <1>3 DEF Booted
<1>9. NameFollows' /\ OkFollows'
  <2>1. CASE web # NoCreds
    <3>1. todo' = <<>> /\ "ssid" \in stale' /\ "psk" \in stale' /\ ("ok" \in stale' <=> "ok" \in stale) /\ Target' = w.creds
      BY <1>2, <2>1 DEF Target
    <3>2. NameFollows'
      BY <3>1, NoWrites DEF NameFollows, Has
    <3>3. ~Has("joined") /\ ~Has("ok")
      BY <1>1, <1>3, <2>1 DEF OkFollows
    <3>4. \A x : Ends("ok", x) <=> kv["ok"] = x
      BY <3>3 DEF Ends, EndsIn, Has, HasIn
    <3>5. OkFollows'
      <4>1. web' = NoCreds /\ w' = w /\ sm' = sm /\ kv' = kv
        BY <1>2
      <4>2. \A n, x : ~Has(n)' /\ (Ends(n, x)' <=> kv'[n] = x)
        BY <3>1, NoWrites DEF Has, Ends
      <4>3. w.creds # NoCreds /\ "ok" \notin stale =>
               /\ IF w.credsOk THEN kv["ok"] = "1" \/ kv["ok"] = "none" ELSE kv["ok"] = "0"
               /\ sm.joined = 1 => w.credsOk
        BY <1>1, <1>3, <3>3, <3>4 DEF OkFollows, Follows
      <4> QED
        BY <3>1, <4>1, <4>2, <4>3 DEF OkFollows, Follows
    <3> QED
      BY <3>2, <3>5
  <2>2. CASE web = NoCreds
    <3>1. /\ todo' = Tail(todo) /\ stale' = stale \cup {k} /\ Target' = Target /\ Target = w.creds
          /\ w' = w /\ kv' = kv /\ sm' = sm /\ web' = NoCreds
      BY <1>2, <2>2 DEF Target
    <3>2. /\ ("ssid" \notin stale /\ Target # NoCreds) \/ Has("ssid") => Ends("ssid", Target.ssid)
          /\ ("psk" \notin stale /\ Target # NoCreds) \/ Has("psk") => Ends("psk", Target.psk)
          /\ Target = NoCreds /\ "ssid" \notin stale /\ "psk" \notin stale =>
                Ends("ssid", "none") \/ Ends("psk", "none")
      BY <1>1, <1>3 DEF NameFollows
    <3>3. /\ ("ssid" \notin stale' /\ Target # NoCreds) \/ HasIn(todo', "ssid") => EndsIn(todo', kv, "ssid", Target.ssid)
          /\ ("psk" \notin stale' /\ Target # NoCreds) \/ HasIn(todo', "psk") => EndsIn(todo', kv, "psk", Target.psk)
      BY <1>4, <1>5, <1>6, <3>1, <3>2
    <3>4. Target = NoCreds /\ "ssid" \notin stale' /\ "psk" \notin stale' =>
             EndsIn(todo', kv, "ssid", "none") \/ EndsIn(todo', kv, "psk", "none")
      BY <1>5, <1>6, <3>1, <3>2
    <3>5. NameFollows'
      BY <3>1, <3>3, <3>4 DEF NameFollows, Has, Ends
    <3>6. ASSUME w.creds # NoCreds
          PROVE  /\ HasIn(todo', "joined") => ~w.credsOk /\ ~HasIn(todo', "ok")
                 /\ "ok" \notin stale' \/ HasIn(todo', "ok") =>
                       IF w.credsOk THEN EndsIn(todo', kv, "ok", "1") \/ EndsIn(todo', kv, "ok", "none")
                       ELSE EndsIn(todo', kv, "ok", "0")
                 /\ sm.joined = 1 /\ ~HasIn(todo', "joined") /\ ("ok" \notin stale' \/ HasIn(todo', "ok"))
                       => w.credsOk
      <4>1. /\ Has("joined") => ~w.credsOk /\ ~Has("ok")
            /\ Follows("ok") => IF w.credsOk THEN Ends("ok", "1") \/ Ends("ok", "none") ELSE Ends("ok", "0")
            /\ sm.joined = 1 /\ ~Has("joined") /\ Follows("ok") => w.credsOk
        BY <1>1, <1>3, <3>6 DEF OkFollows
      <4>2. CASE k = "ok"
        <5>1. "ok" \in stale' /\ ~HasIn(todo', "ok")
          BY <1>4, <1>6, <3>1, <4>1, <4>2
        <5> QED
          BY <1>4, <3>1, <4>1, <5>1
      <4>3. CASE k # "ok"
        <5>1. d.key \in {"ssid", "psk"} /\ ("ok" \in stale' <=> "ok" \in stale)
          BY <1>6, <3>1, <4>3
        <5>2. (HasIn(todo', "ok") <=> Has("ok")) /\ (HasIn(todo', "joined") <=> Has("joined"))
          BY <1>4, <3>1, <5>1
        <5> QED
          BY <1>5, <3>1, <4>1, <5>1, <5>2 DEF Follows
      <4> QED
        BY <4>2, <4>3
    <3>7. OkFollows'
      BY <3>1, <3>6 DEF OkFollows, Follows, Has, Ends
    <3> QED
      BY <3>5, <3>7
  <2> QED
    BY <2>1, <2>2
<1>10. WifiTypes'
  BY <1>1, <1>2, <1>8, <1>3, <1>7 DEF WifiTypes
<1>11. CredsWhole'
  BY <1>1, <1>2, <1>8 DEF CredsWhole, Whole
<1>12. OffState'
  BY <1>1, <1>2, <1>8 DEF OffState
<1>13. MachineInv'
  BY <1>1, <1>2, <1>8 DEF MachineInv, Booted, Joining
<1>14. DriverInv'
  BY <1>1, <1>2, <1>8 DEF DriverInv, Booted
<1>15. ProvenInv'
  BY <1>1, <1>2, <1>8 DEF ProvenInv, Booted, Stored
<1>16. OnePerKey'
  BY <1>1, <1>2, <1>8, <1>7 DEF OnePerKey
<1>17. SetupHasHotspot'
  BY <1>1, <1>2, <1>8 DEF SetupHasHotspot, Booted
<1> QED
  BY <1>9, <1>10, <1>11, <1>12, <1>13, <1>14, <1>15, <1>16, <1>17 DEF WifiSafe

\* A board without power.
LEMMA OffFields ==
    /\ NoCreds \in Creds /\ OffRam \in Rams /\ Whole(NoCreds)
    /\ OffRam.creds = NoCreds /\ OffRam.prev = NoCreds
    /\ Sm("UNPROVISIONED", FALSE, 0) \in Machines /\ Sm("UNPROVISIONED", FALSE, 0).st = "UNPROVISIONED"
BY DEF OffRam, Rams, NoCreds, Creds, Named, Whole, Sm, Machines, WifiStates

\* Credentials that joined are in the store, marked as joined, whenever they are settled.
LEMMA SettledStored ==
    ASSUME WifiSafe, Booted, ~Unsettled, proven # NoCreds, ~cutShort
    PROVE  Stored = proven /\ kv.ok # "0"
<1>1. /\ todo = <<>> /\ web = NoCreds /\ stale = {} /\ sm.joined # 2
  BY DEF Unsettled
<1>2. KvFollows /\ w \in Rams
  BY <1>1, QuietNow DEF Quiet
<1>3. sm.joined = 1 /\ w.creds = proven
  BY <1>1 DEF WifiSafe, ProvenInv
<1>4. w.creds.ssid # "none" /\ w.creds.psk # "none"
  BY <1>3 DEF WifiSafe, CredsWhole, Whole
<1>5. kv.ssid = w.creds.ssid /\ kv.psk = w.creds.psk /\ kv.ok \in {"1", "none"}
  BY <1>1, <1>2, <1>3 DEF KvFollows
<1>6. w.creds = [ssid |-> kv.ssid, psk |-> kv.psk]
  BY <1>2, <1>5 DEF Rams, Creds
<1> QED
  BY <1>3, <1>4, <1>5, <1>6 DEF Stored

\* A power cut leaves what is in the store: joined credentials, if they were settled.
LEMMA WifiCutKeeps ==
    ASSUME WifiSafe, WifiCut
    PROVE  WifiSafe'
<1>1. /\ WifiTypes /\ CredsWhole /\ OffState /\ MachineInv /\ DriverInv /\ ProvenInv
      /\ OnePerKey /\ NameFollows /\ OkFollows /\ SetupHasHotspot
  BY DEF WifiSafe
<1>2. /\ cuts' = cuts + 1 /\ sm' = Sm("UNPROVISIONED", FALSE, 0) /\ w' = OffRam
      /\ todo' = <<>> /\ web' = NoCreds /\ kv' = kv /\ stale' = {} /\ proven' = proven
      /\ cutShort' = (cutShort \/ Unsettled) /\ cutShort' \in BOOLEAN
  BY <1>1 DEF WifiCut, Unsettled, WifiTypes
<1>3. sm' \in Machines /\ ~Booted' /\ w' \in Rams
  BY <1>2, OffFields DEF Booted
<1>4. proven' # NoCreds /\ ~cutShort' => Stored = proven' /\ kv.ok # "0"
  BY <1>2, SettledStored DEF WifiCut
<1>5. Stored' = Stored
  BY <1>2 DEF Stored
<1>6. cuts' \in Nat /\ proven' \in Creds /\ kv' \in [ssid : Named, psk : Named, ok : {"none", "0", "1"}]
  BY <1>1, <1>2, OffFields DEF WifiTypes
<1>7. WifiTypes'
  BY <1>2, <1>3, <1>6, OffFields, NoWrites DEF WifiTypes
<1>8. CredsWhole'
  BY <1>2, <1>3, <1>1, OffFields DEF CredsWhole, Whole
<1>9. OffState'
  BY <1>2, <1>3 DEF OffState
<1>10. MachineInv'
  BY <1>2, <1>3 DEF MachineInv
<1>11. DriverInv'
  BY <1>2, <1>3 DEF DriverInv
<1>12. ProvenInv'
  BY <1>2, <1>3, <1>4, <1>5 DEF ProvenInv
<1>13. OnePerKey'
  BY <1>2, <1>3, NoWrites DEF OnePerKey
<1>14. NameFollows'
  BY <1>2, <1>3 DEF NameFollows
<1>15. OkFollows'
  BY <1>2, <1>3 DEF OkFollows
<1>16. SetupHasHotspot'
  BY <1>2, <1>3 DEF SetupHasHotspot
<1> QED
  BY <1>7, <1>8, <1>9, <1>10, <1>11, <1>12, <1>13, <1>14, <1>15, <1>16 DEF WifiSafe

\* The invariant holds at first.
LEMMA WifiStarts ==
    ASSUME WifiInit
    PROVE  WifiSafe
<1>1. /\ cuts = 0 /\ sm = Sm("UNPROVISIONED", FALSE, 0) /\ w = OffRam
      /\ todo = <<>> /\ web = NoCreds /\ cutShort = FALSE /\ stale = {} /\ proven = NoCreds
      /\ kv = [ssid |-> "none", psk |-> "none", ok |-> "none"]
  BY DEF WifiInit
<1>2. sm \in Machines /\ ~Booted /\ w \in Rams
  BY <1>1, OffFields DEF Booted
<1>3. WifiTypes
  BY <1>1, <1>2, OffFields, NoWrites DEF WifiTypes, Named
<1>4. CredsWhole
  BY <1>1, <1>2, OffFields DEF CredsWhole, Whole
<1>5. OffState
  BY <1>1, <1>2 DEF OffState
<1>6. MachineInv
  BY <1>1, <1>2 DEF MachineInv
<1>7. DriverInv
  BY <1>1, <1>2 DEF DriverInv
<1>8. ProvenInv
  BY <1>1, <1>2 DEF ProvenInv
<1>9. OnePerKey
  BY <1>1, <1>2, NoWrites DEF OnePerKey
<1>10. NameFollows
  BY <1>1, <1>2 DEF NameFollows
<1>11. OkFollows
  BY <1>1, <1>2 DEF OkFollows
<1>12. SetupHasHotspot
  BY <1>1, <1>2 DEF SetupHasHotspot
<1> QED
  BY <1>3, <1>4, <1>5, <1>6, <1>7, <1>8, <1>9, <1>10, <1>11, <1>12 DEF WifiSafe

\* A step of other parts keeps it.
LEMMA WifiStays ==
    ASSUME WifiSafe, UNCHANGED wifiVars
    PROVE  WifiSafe'
<1>1. /\ WifiTypes /\ CredsWhole /\ OffState /\ MachineInv /\ DriverInv /\ ProvenInv
      /\ OnePerKey /\ NameFollows /\ OkFollows /\ SetupHasHotspot
  BY DEF WifiSafe
<1>2. sm' = sm /\ w' = w /\ kv' = kv /\ todo' = todo /\ web' = web /\ cuts' = cuts /\ proven' = proven /\ cutShort' = cutShort /\ stale' = stale
  BY DEF wifiVars
<1>3. WifiTypes'
  BY <1>1, <1>2 DEF WifiTypes
<1>4. CredsWhole'
  BY <1>1, <1>2 DEF CredsWhole, Whole
<1>5. OffState'
  BY <1>1, <1>2 DEF OffState, Booted
<1>6. MachineInv'
  BY <1>1, <1>2 DEF MachineInv, Booted, Joining
<1>7. DriverInv'
  BY <1>1, <1>2 DEF DriverInv, Booted
<1>8. ProvenInv'
  BY <1>1, <1>2 DEF ProvenInv, Booted, Stored
<1>9. OnePerKey'
  BY <1>1, <1>2 DEF OnePerKey
<1>10. NameFollows'
  BY <1>1, <1>2 DEF NameFollows, Booted, Target, Ends, Has
<1>11. OkFollows'
  BY <1>1, <1>2 DEF OkFollows, Booted, Has, Ends, Follows
<1>12. SetupHasHotspot'
  BY <1>1, <1>2 DEF SetupHasHotspot, Booted
<1> QED
  BY <1>3, <1>4, <1>5, <1>6, <1>7, <1>8, <1>9, <1>10, <1>11, <1>12 DEF WifiSafe

\* Every step keeps it, if every join that is asked for starts.
LEMMA WifiStep ==
    ASSUME StartFails = FALSE, WifiSafe, [WifiNext]_wifiVars
    PROVE  WifiSafe'
<1>1. Starts = {TRUE}
  BY DEF Starts
<1>2. \A y \in Starts : Takes(y)
  BY <1>1 DEF Takes
<1>3. ASSUME NEW y \in Starts, Boot(y) PROVE WifiSafe'
  BY <1>2, <1>3, BootKeeps
<1>4. ASSUME NEW net \in Nets, PostCreds(CredsOf(net)) PROVE WifiSafe'
  BY <1>4, PostCredsKeeps
<1>5. ASSUME NEW y \in Starts, TakeCreds(y) PROVE WifiSafe'
  BY <1>2, <1>5, TakeCredsKeeps
<1>6. ASSUME NEW t, NEW y \in Starts, WifiTick(t, y) PROVE WifiSafe'
  BY <1>2, <1>6, WifiTickKeeps
<1> QED
  BY <1>3, <1>4, <1>5, <1>6, ForgetKeeps, GotIpKeeps, JoinFailsKeeps, LostKeeps, StoreKeeps,
     StoreFailsKeeps, WifiCutKeeps, WifiStays DEF WifiNext

\* What the inductive invariant says between two handlers.
LEMMA WifiSafeHolds ==
    ASSUME WifiSafe
    PROVE  WifiInv
<1>1. /\ WifiTypes /\ CredsWhole /\ OffState /\ MachineInv /\ DriverInv /\ ProvenInv
      /\ OnePerKey /\ NameFollows /\ OkFollows /\ SetupHasHotspot
  BY DEF WifiSafe
<1>2. JoinedKept
  BY <1>1 DEF ProvenInv, JoinedKept
<1>3. OnlineIsCreds
  BY <1>1 DEF DriverInv, OnlineIsCreds, Booted
<1>4. ASSUME Quiet
      PROVE  /\ {"ssid", "psk"} \cap stale = {} => Stored = w.creds
             /\ "ok" \notin stale /\ w.creds # NoCreds => ((kv.ok # "0") <=> w.credsOk)
  <2>1. KvFollows /\ w \in Rams
    BY <1>4, QuietNow
  <2>2. CASE w.creds = NoCreds
    BY <2>1, <2>2 DEF KvFollows, Stored
  <2>3. CASE w.creds # NoCreds
    <3>1. w.creds.ssid # "none" /\ w.creds.psk # "none"
      BY <1>1, <2>3 DEF CredsWhole, Whole
    <3>2. ASSUME {"ssid", "psk"} \cap stale = {} PROVE Stored = w.creds
      <4>1. kv.ssid = w.creds.ssid /\ kv.psk = w.creds.psk
        BY <2>1, <2>3, <3>2 DEF KvFollows
      <4>2. w.creds = [ssid |-> kv.ssid, psk |-> kv.psk]
        BY <2>1, <4>1 DEF Rams, Creds
      <4> QED
        BY <3>1, <4>1, <4>2 DEF Stored
    <3> QED
      BY <2>1, <2>3, <3>2 DEF KvFollows
  <2> QED
    BY <2>2, <2>3
<1> QED
  BY <1>1, <1>2, <1>3, <1>4 DEF WifiInv, CredsAgree, StoreFollows

\* The way back of the WiFi (wifi_sm.c, wifi_run.c): the hotspot runs in setup, credentials
\* that joined are kept unless a power cut found them unsettled, and store, RAM and network
\* agree on those in use except for keys a failed write has left behind, over any number of
\* networks, replacements, failed writes and power cuts, as long as the driver starts the
\* joins it is asked for.
THEOREM WifiKeeps ==
    ASSUME StartFails = FALSE
    PROVE  WifiSpec => []WifiInv
<1>1. WifiInit => WifiSafe
  BY WifiStarts
<1>2. WifiSafe /\ [WifiNext]_wifiVars => WifiSafe'
  BY WifiStep
<1>3. WifiSafe => WifiInv
  BY WifiSafeHolds
<1> QED
  BY <1>1, <1>2, <1>3, PTL DEF WifiSpec
=============================================================================
