--------------------------- MODULE SessionProofs ---------------------------
(***************************************************************************)
(* Proofs about Session, for every value of its constants: first its       *)
(* invariant, then on top of it what is sent over its link (LinkInOrder).  *)
(***************************************************************************)
EXTENDS Session, TLAPS

-----------------------------------------------------------------------------
(* The constants, and the small numbers the functions assign.              *)

\* The times are naturals in the order session.h gives them.
LEMMA Bounds ==
    /\ BackoffMin \in Nat \ {0} /\ BackoffMax \in Nat /\ BackoffMin <= BackoffMax
    /\ Cooldown \in Nat /\ StableTime \in Nat \ {0} /\ ArmDelay \in Nat \ {0}
    /\ ConnectTimeout \in Nat \ {0} /\ EncTimeout \in Nat \ {0}
    /\ ViewerTime \in Nat /\ InputTime \in Nat /\ RestPolls \subseteq Nat
    /\ MaxAge \in Nat /\ MaxDelay \in Nat /\ BackoffMax <= MaxDelay /\ Cooldown <= MaxDelay
    /\ Len(Order) \in Nat
BY TimesAssumption, OrderAssumption DEF MaxAge, MaxDelay, Larger, Tracked

\* The values assigned without looking at the session have their field's type.
LEMMA Fresh ==
    /\ JustNow \in Nat /\ JustNow \in 0..MaxAge /\ JustNow \in 0..ArmDelay
    /\ JustNow \in 0..Cooldown /\ NoPass \in 0..Len(Order)
    /\ ViewerTime \in 0..ViewerTime /\ InputTime \in 0..InputTime
    /\ BackoffMin \in BackoffMin..BackoffMax
    /\ NoFrames \in [Tracked -> {"unknown", "off", "on"}]
BY Bounds DEF JustNow, NoPass, NoFrames

\* What schedule_reconnect() and reconnect_soon() compute: a delay that fits its
\* field and, with the time since the last link, covers the cooldown.
LEMMA Delays ==
    ASSUME NEW b \in BackoffMin..BackoffMax, NEW d \in 0..Cooldown
    PROVE  /\ Larger(b, Cooldown - d) \in 0..MaxDelay
           /\ Larger(b, Cooldown - d) + d >= Cooldown
           /\ Cooldown - d \in 0..MaxDelay
           /\ (Cooldown - d) + d >= Cooldown
           /\ Smaller(2 * b, BackoffMax) \in BackoffMin..BackoffMax
BY Bounds DEF Larger, Smaller

\* The clock's steps stay within their field.
LEMMA Steps ==
    ASSUME NEW m \in Nat, NEW n \in 0..m
    PROVE  Up(n, m) \in 0..m /\ Down(n) \in 0..m
BY DEF Up, Down

\* A tick takes from the time left what it adds to the time passed.
LEMMA StepsKeepSum ==
    ASSUME NEW a \in 0..MaxDelay, NEW b \in 0..Cooldown, a + b >= Cooldown
    PROVE  Down(a) + Up(b, Cooldown) >= Cooldown
<1>1. Cooldown \in Nat /\ MaxDelay \in Nat
  BY Bounds
<1>2. CASE a = 0
  <2>1. b = Cooldown
    BY <1>1, <1>2
  <2> QED
    BY <1>1, <1>2, <2>1 DEF Down, Up
<1>3. CASE a # 0 /\ b < Cooldown
  BY <1>1, <1>3 DEF Down, Up
<1>4. CASE a # 0 /\ b = Cooldown
  BY <1>1, <1>4 DEF Down, Up
<1> QED
  BY <1>1, <1>2, <1>3, <1>4

-----------------------------------------------------------------------------
(* Assignments: a session whose fields take values of their type is one.   *)

\* One flag takes a Boolean.
LEMMA SetFlag ==
    ASSUME NEW t \in Session, NEW a \in BOOLEAN
    PROVE  /\ [t EXCEPT !.active = a] \in Session
           /\ [t EXCEPT !.pending = a] \in Session
           /\ [t EXCEPT !.probe = a] \in Session
           /\ [t EXCEPT !.redial = a] \in Session
           /\ [t EXCEPT !.hold = a] \in Session
           /\ [t EXCEPT !.warming = a] \in Session
           /\ [t EXCEPT !.rereading = a] \in Session
           /\ [t EXCEPT !.heaterReading = a] \in Session
           /\ [t EXCEPT !.variantPending = a] \in Session
<1>1. [t EXCEPT !.active = a] \in Session
  BY DEF Session
<1>2. [t EXCEPT !.pending = a] \in Session
  BY DEF Session
<1>3. [t EXCEPT !.probe = a] \in Session
  BY DEF Session
<1>4. [t EXCEPT !.redial = a] \in Session
  BY DEF Session
<1>5. [t EXCEPT !.hold = a] \in Session
  BY DEF Session
<1>6. [t EXCEPT !.warming = a] \in Session
  BY DEF Session
<1>7. [t EXCEPT !.rereading = a] \in Session
  BY DEF Session
<1>8. [t EXCEPT !.heaterReading = a] \in Session
  BY DEF Session
<1>9. [t EXCEPT !.variantPending = a] \in Session
  BY DEF Session
<1> QED
  BY <1>1, <1>2, <1>3, <1>4, <1>5, <1>6, <1>7, <1>8, <1>9

\* Two flags at once.
LEMMA SetFlags ==
    ASSUME NEW t \in Session, NEW a \in BOOLEAN, NEW b \in BOOLEAN
    PROVE  /\ [t EXCEPT !.redial = a, !.restLeft = b] \in Session
           /\ [t EXCEPT !.pending = a, !.redial = b] \in Session
           /\ [t EXCEPT !.active = a, !.redial = b] \in Session
           /\ [t EXCEPT !.variantPending = a, !.vehiclePre = b] \in Session
<1>1. [t EXCEPT !.redial = a, !.restLeft = b] \in Session
  BY DEF Session
<1>2. [t EXCEPT !.pending = a, !.redial = b] \in Session
  BY DEF Session
<1>3. [t EXCEPT !.active = a, !.redial = b] \in Session
  BY DEF Session
<1>4. [t EXCEPT !.variantPending = a, !.vehiclePre = b] \in Session
  BY DEF Session
<1> QED
  BY <1>1, <1>2, <1>3, <1>4

\* The fields rest_set() writes on the way into the rest.
LEMMA SetRest ==
    ASSUME NEW t \in Session, NEW a \in BOOLEAN, NEW n \in Nat
    PROVE  /\ [t EXCEPT !.redial = FALSE, !.restLeft = FALSE, !.rest = TRUE, !.restIn = n] \in Session
           /\ [t EXCEPT !.restLeft = a, !.rest = FALSE, !.restIn = n] \in Session
           /\ [t EXCEPT !.probe = FALSE, !.restIn = n] \in Session
<1>1. [t EXCEPT !.redial = FALSE, !.restLeft = FALSE, !.rest = TRUE, !.restIn = n] \in Session
  BY DEF Session
<1>2. [t EXCEPT !.restLeft = a, !.rest = FALSE, !.restIn = n] \in Session
  BY DEF Session
<1>3. [t EXCEPT !.probe = FALSE, !.restIn = n] \in Session
  BY DEF Session
<1> QED
  BY <1>1, <1>2, <1>3

\* The rest poll setting takes one of its values.
LEMMA SetPoll ==
    ASSUME NEW t \in Session, NEW p \in RestPolls
    PROVE  [t EXCEPT !.restPoll = p, !.restIn = p] \in Session
BY Bounds DEF Session

\* The backoff stays between its minimum and its cap.
LEMMA SetBackoff ==
    ASSUME NEW t \in Session, NEW a \in BOOLEAN, NEW b \in BackoffMin..BackoffMax
    PROVE  /\ [t EXCEPT !.backoff = b] \in Session
           /\ [t EXCEPT !.redial = a, !.backoff = b] \in Session
<1>1. [t EXCEPT !.backoff = b] \in Session
  BY DEF Session
<1>2. [t EXCEPT !.redial = a, !.backoff = b] \in Session
  BY DEF Session
<1> QED
  BY <1>1, <1>2

\* The fields cali_session_stop() clears.
LEMMA SetStopped ==
    ASSUME NEW t \in Session, NEW b \in BackoffMin..BackoffMax
    PROVE  [t EXCEPT !.redial = FALSE, !.active = FALSE, !.pending = FALSE,
                     !.backoff = b] \in Session
BY DEF Session

\* A planned reconnect with its delay.
LEMMA SetDelay ==
    ASSUME NEW t \in Session, NEW b \in BackoffMin..BackoffMax, NEW d \in 0..MaxDelay
    PROVE  /\ [t EXCEPT !.reconnectIn = d] \in Session
           /\ [t EXCEPT !.pending = TRUE, !.reconnectIn = d, !.backoff = b] \in Session
<1>1. [t EXCEPT !.reconnectIn = d] \in Session
  BY DEF Session
<1>2. [t EXCEPT !.pending = TRUE, !.reconnectIn = d, !.backoff = b] \in Session
  BY DEF Session
<1> QED
  BY <1>1, <1>2

\* The link takes one of its states.
LEMMA SetLinkState ==
    ASSUME NEW t \in Session, NEW n \in 0..MaxAge, NEW h \in 0..ArmDelay, NEW z \in 0..Len(Order)
    PROVE  /\ [t EXCEPT !.warming = FALSE, !.reading = z, !.snapped = FALSE,
                        !.rereading = FALSE, !.heaterReading = FALSE,
                        !.variantPending = FALSE, !.vehiclePre = FALSE] \in Session
           /\ [t EXCEPT !.restLeft = FALSE, !.link = "up", !.age = n,
                        !.pending = FALSE, !.hbAge = h] \in Session
<1>1. [t EXCEPT !.warming = FALSE, !.reading = z, !.snapped = FALSE,
                !.rereading = FALSE, !.heaterReading = FALSE,
                !.variantPending = FALSE, !.vehiclePre = FALSE] \in Session
  BY DEF Session
<1>2. [t EXCEPT !.restLeft = FALSE, !.link = "up", !.age = n,
                !.pending = FALSE, !.hbAge = h] \in Session
  BY DEF Session
<1> QED
  BY <1>1, <1>2

\* A link that is down with its counters cleared.
LEMMA SetDown ==
    ASSUME NEW t \in Session, NEW b \in BackoffMin..BackoffMax, NEW d \in 0..Cooldown
    PROVE  [t EXCEPT !.backoff = b, !.sinceDown = d, !.link = "down"] \in Session
BY DEF Session

\* A link that comes up with its counters started.
LEMMA SetLink ==
    ASSUME NEW t \in Session, NEW n \in 0..MaxAge
    PROVE  /\ [t EXCEPT !.link = "connecting", !.age = n] \in Session
           /\ [t EXCEPT !.link = "connected", !.age = n] \in Session
<1>1. [t EXCEPT !.link = "connecting", !.age = n] \in Session
  BY DEF Session
<1>2. [t EXCEPT !.link = "connected", !.age = n] \in Session
  BY DEF Session
<1> QED
  BY <1>1, <1>2

\* The place of the read pass.
LEMMA SetReading ==
    ASSUME NEW t \in Session, NEW z \in 0..Len(Order)
    PROVE  /\ [t EXCEPT !.reading = z] \in Session
           /\ [t EXCEPT !.reading = z, !.vehiclePre = FALSE, !.snapped = TRUE] \in Session
<1>1. [t EXCEPT !.reading = z] \in Session
  BY DEF Session
<1>2. [t EXCEPT !.reading = z, !.vehiclePre = FALSE, !.snapped = TRUE] \in Session
  BY DEF Session
<1> QED
  BY <1>1, <1>2

\* A mode and the stamp the arm delay counts from.
LEMMA SetModeStamp ==
    ASSUME NEW t \in Session, NEW m \in {"hold", "quiet", "off"}, NEW h \in 0..ArmDelay
    PROVE  [t EXCEPT !.mode = m, !.hbAge = h] \in Session
BY DEF Session

\* The viewer's stamp.
LEMMA SetViewer ==
    ASSUME NEW t \in Session, NEW v \in 0..ViewerTime
    PROVE  [t EXCEPT !.viewerLeft = v] \in Session
BY DEF Session

\* The input's stamp.
LEMMA SetInput ==
    ASSUME NEW t \in Session, NEW i \in 0..InputTime
    PROVE  [t EXCEPT !.inputLeft = i] \in Session
BY DEF Session

\* The frames held take values of theirs.
LEMMA SetFrames ==
    ASSUME NEW t \in Session, NEW f \in [Tracked -> {"unknown", "off", "on"}],
           NEW l \in SUBSET {"campingmode", "energy"}, NEW u \in Units \cup {NoUnit}
    PROVE  /\ [t EXCEPT !.live = l] \in Session
           /\ [t EXCEPT !.frame = f, !.live = l] \in Session
           /\ [t EXCEPT !.unit = u, !.frame = f, !.live = l] \in Session
<1>1. [t EXCEPT !.live = l] \in Session
  BY DEF Session
<1>2. [t EXCEPT !.frame = f, !.live = l] \in Session
  BY DEF Session
<1>3. [t EXCEPT !.unit = u, !.frame = f, !.live = l] \in Session
  BY DEF Session
<1> QED
  BY <1>1, <1>2, <1>3

\* All stamps at once, as the clock moves them.
LEMMA SetClock ==
    ASSUME NEW t \in Session, NEW n \in 0..MaxAge, NEW h \in 0..ArmDelay, NEW r \in 0..MaxDelay,
           NEW d \in 0..Cooldown, NEW p \in Nat, NEW v \in 0..ViewerTime, NEW i \in 0..InputTime
    PROVE  [t EXCEPT !.age = n, !.hbAge = h, !.reconnectIn = r, !.sinceDown = d,
                     !.restIn = p, !.viewerLeft = v, !.inputLeft = i] \in Session
BY DEF Session

-----------------------------------------------------------------------------
(* The invariant of one session, apart from the world around it.           *)

\* The fields the invariant looks at are the same in both sessions.
SameControl(u, t) ==
    /\ u.active = t.active /\ u.link = t.link /\ u.mode = t.mode
    /\ u.pending = t.pending /\ u.reconnectIn = t.reconnectIn /\ u.sinceDown = t.sinceDown
    /\ u.probe = t.probe /\ u.rest = t.rest /\ u.hold = t.hold /\ u.snapped = t.snapped

\* A session whose plan, link, probe and rest fit together.
Sound(t) ==
    /\ t.pending => t.active /\ t.link = "down" /\ t.mode # "off" /\ ~t.rest
    /\ t.pending => t.reconnectIn + t.sinceDown >= Cooldown
    /\ t.probe => t.link # "down"
    /\ t.snapped => t.link = "up"
    /\ t.rest => t.active /\ ~t.snapped
    /\ t.active /\ t.mode # "off" /\ ~t.rest /\ t.link = "down" => t.pending
    /\ t.link # "down" => t.active /\ (t.mode = "off" \/ t.rest => t.probe)

\* Nobody waits for a session at rest.
Quiet(t) == t.rest => ~busy /\ ~t.hold

\* The part of a session's soundness a connect attempt starts from: the plan is
\* taken, the link is down and somebody wants it.
Dials(t) ==
    /\ t \in Session /\ t.active /\ ~t.pending /\ t.link = "down"
    /\ ~t.snapped
    /\ t.mode = "off" \/ t.rest => t.probe

\* Soundness speaks of a few fields only: sessions that agree on them are sound together.
LEMMA SoundSame ==
    ASSUME NEW t, NEW u, SameControl(u, t)
    PROVE  (Sound(t) => Sound(u)) /\ (Quiet(t) => Quiet(u))
BY DEF SameControl, Sound, Quiet

-----------------------------------------------------------------------------
(* What each function of session.c returns.                                *)

\* Ending the reads of a link keeps a session a sound one (link_clear).
LEMMA NoReadsResult ==
    ASSUME NEW t \in Session, NEW u, u = NoReads(t)
    PROVE  /\ u \in Session /\ ~u.snapped
           /\ u.active = t.active /\ u.link = t.link /\ u.mode = t.mode
           /\ u.pending = t.pending /\ u.reconnectIn = t.reconnectIn
           /\ u.sinceDown = t.sinceDown /\ u.backoff = t.backoff
           /\ u.probe = t.probe /\ u.rest = t.rest /\ u.hold = t.hold
<1>1. u \in Session
  BY Fresh, SetLinkState DEF NoReads
<1>2. /\ ~u.snapped
      /\ u.active = t.active /\ u.link = t.link /\ u.mode = t.mode
      /\ u.pending = t.pending /\ u.reconnectIn = t.reconnectIn
      /\ u.sinceDown = t.sinceDown /\ u.backoff = t.backoff
      /\ u.probe = t.probe /\ u.rest = t.rest /\ u.hold = t.hold
  BY DEF NoReads, Session
<1> QED
  BY <1>1, <1>2

\* What link_clear() leaves: no link, no read, no plan of its own.
LEMMA LinkClearResult ==
    ASSUME NEW t \in Session, NEW u, u = LinkClear(t)
    PROVE  /\ u \in Session /\ u.link = "down" /\ ~u.snapped
           /\ u.active = t.active /\ u.mode = t.mode
           /\ u.pending = t.pending /\ u.reconnectIn = t.reconnectIn
           /\ t.link # "up" => u.sinceDown = t.sinceDown
           /\ u.probe = t.probe /\ u.rest = t.rest /\ u.hold = t.hold
<1> DEFINE v == NoReads(t)
           b == IF t.link = "up" /\ t.age >= StableTime THEN BackoffMin ELSE v.backoff
           d == IF t.link = "up" THEN JustNow ELSE v.sinceDown
<1>1. /\ v \in Session /\ ~v.snapped
      /\ v.active = t.active /\ v.link = t.link /\ v.mode = t.mode
      /\ v.pending = t.pending /\ v.reconnectIn = t.reconnectIn
      /\ v.sinceDown = t.sinceDown /\ v.backoff = t.backoff
      /\ v.probe = t.probe /\ v.rest = t.rest /\ v.hold = t.hold
  BY NoReadsResult
<1>2. u = [v EXCEPT !.backoff = b, !.sinceDown = d, !.link = "down"]
  BY DEF LinkClear
<1> HIDE DEF v
<1>3. b \in BackoffMin..BackoffMax /\ d \in 0..Cooldown
  BY <1>1, Fresh DEF Session
<1>4. t.link # "up" => d = t.sinceDown
  BY <1>1
<1> HIDE DEF b, d
<1>5. u \in Session
  <2>1. [v EXCEPT !.backoff = b, !.sinceDown = d, !.link = "down"] \in Session
    BY <1>1, <1>3, SetDown
  <2> QED
    BY <1>2, <2>1, Zenon
<1>6. /\ u.link = "down" /\ u.sinceDown = d /\ u.snapped = v.snapped
      /\ u.active = v.active /\ u.mode = v.mode
      /\ u.pending = v.pending /\ u.reconnectIn = v.reconnectIn
      /\ u.probe = v.probe /\ u.rest = v.rest /\ u.hold = v.hold
  BY <1>1, <1>2 DEF Session
<1> QED
  BY <1>1, <1>4, <1>5, <1>6

\* What rest_set(1) leaves of a session.
LEMMA RestOnResult ==
    ASSUME NEW t \in Session, NEW u, u = RestOn(t)
    PROVE  /\ u \in Session /\ u.rest
           /\ u.active = t.active /\ u.link = t.link /\ u.mode = t.mode
           /\ u.pending = t.pending /\ u.reconnectIn = t.reconnectIn
           /\ u.sinceDown = t.sinceDown /\ u.probe = t.probe /\ u.hold = t.hold
           /\ u.snapped = t.snapped
<1> DEFINE n == IF t.rest THEN t.restIn ELSE t.restPoll
<1>1. n \in Nat
  BY Bounds DEF Session
<1>2. u = [t EXCEPT !.redial = FALSE, !.restLeft = FALSE, !.rest = TRUE, !.restIn = n]
  BY DEF RestOn
<1> HIDE DEF n
<1>3. u \in Session
  <2>1. [t EXCEPT !.redial = FALSE, !.restLeft = FALSE, !.rest = TRUE, !.restIn = n] \in Session
    BY <1>1, SetRest
  <2> QED
    BY <1>2, <2>1, Zenon
<1>4. /\ u.rest
      /\ u.active = t.active /\ u.link = t.link /\ u.mode = t.mode
      /\ u.pending = t.pending /\ u.reconnectIn = t.reconnectIn
      /\ u.sinceDown = t.sinceDown /\ u.probe = t.probe /\ u.hold = t.hold
      /\ u.snapped = t.snapped
  BY <1>2 DEF Session
<1> QED
  BY <1>3, <1>4

\* What rest_set(0) leaves of a session.
LEMMA RestOffResult ==
    ASSUME NEW t \in Session, NEW u, u = RestOff(t)
    PROVE  /\ u \in Session /\ ~u.rest
           /\ u.active = t.active /\ u.link = t.link /\ u.mode = t.mode
           /\ u.pending = t.pending /\ u.reconnectIn = t.reconnectIn
           /\ u.sinceDown = t.sinceDown /\ u.probe = t.probe /\ u.hold = t.hold
           /\ u.snapped = t.snapped
<1> DEFINE n == IF t.rest THEN t.restPoll ELSE t.restIn
<1>1. n \in Nat
  BY Bounds DEF Session
<1>2. u = [t EXCEPT !.restLeft = t.rest /\ t.link # "up", !.rest = FALSE, !.restIn = n]
  BY DEF RestOff
<1> HIDE DEF n
<1>3. u \in Session
  <2>1. [t EXCEPT !.restLeft = t.rest /\ t.link # "up", !.rest = FALSE, !.restIn = n] \in Session
    BY <1>1, SetRest, (t.rest /\ t.link # "up") \in BOOLEAN, Zenon
  <2> QED
    BY <1>2, <2>1, Zenon
<1>4. /\ ~u.rest
      /\ u.active = t.active /\ u.link = t.link /\ u.mode = t.mode
      /\ u.pending = t.pending /\ u.reconnectIn = t.reconnectIn
      /\ u.sinceDown = t.sinceDown /\ u.probe = t.probe /\ u.hold = t.hold
      /\ u.snapped = t.snapped
  BY <1>2 DEF Session
<1> QED
  BY <1>3, <1>4

\* unit_check() keeps everything but the frames of another unit.
LEMMA UnitCheckResult ==
    ASSUME bonded \in Units \cup {NoUnit}, NEW t \in Session, NEW u, u = UnitCheck(t)
    PROVE  u \in Session /\ SameControl(u, t)
<1>1. u \in Session
  BY Fresh, SetFrames DEF UnitCheck
<1>2. SameControl(u, t)
  BY DEF UnitCheck, SameControl, Session
<1> QED
  BY <1>1, <1>2

\* A probe that failed only stops being one.
LEMMA DropProbeResult ==
    ASSUME NEW t \in Session, NEW u, u = DropProbe(t)
    PROVE  /\ u \in Session /\ ~u.probe
           /\ u.active = t.active /\ u.link = t.link /\ u.mode = t.mode
           /\ u.pending = t.pending /\ u.reconnectIn = t.reconnectIn
           /\ u.sinceDown = t.sinceDown /\ u.rest = t.rest /\ u.hold = t.hold
           /\ u.snapped = t.snapped
<1> DEFINE n == IF t.probe /\ t.rest THEN t.restPoll ELSE t.restIn
<1>1. n \in Nat
  BY Bounds DEF Session
<1>2. u = [t EXCEPT !.probe = FALSE, !.restIn = n]
  BY DEF DropProbe
<1> HIDE DEF n
<1>3. u \in Session
  <2>1. [t EXCEPT !.probe = FALSE, !.restIn = n] \in Session
    BY <1>1, SetRest
  <2> QED
    BY <1>2, <2>1, Zenon
<1>4. /\ ~u.probe
      /\ u.active = t.active /\ u.link = t.link /\ u.mode = t.mode
      /\ u.pending = t.pending /\ u.reconnectIn = t.reconnectIn
      /\ u.sinceDown = t.sinceDown /\ u.rest = t.rest /\ u.hold = t.hold
      /\ u.snapped = t.snapped
  BY <1>2 DEF Session
<1> QED
  BY <1>3, <1>4

\* A probe that read everything leaves a link only to a session that keeps one.
LEMMA ProbeReadResult ==
    ASSUME NEW t \in Session, NEW ac, NEW u, u = ProbeRead(t, ac)
    PROVE  /\ u \in Session /\ ~u.probe
           /\ u.active = t.active /\ u.mode = t.mode /\ u.pending = t.pending /\ u.hold = t.hold
           /\ u.rest => t.rest
           /\ u.link \in {"down", t.link}
           /\ u.link # "down" => ~u.rest /\ u.mode # "off"
           /\ u.link = "down" /\ t.link # "down" => ~u.snapped /\ (u.rest \/ u.mode = "off")
<1> DEFINE a == DropProbe(t)
           b == RestOff(a)
           v == IF a.rest /\ ~RestConditions(a, ac) THEN b ELSE a
           w == LinkClear(v)
<1>1. u = IF (v.rest \/ v.mode = "off") /\ v.link # "down" THEN w ELSE v
  BY DEF ProbeRead
<1>2. /\ a \in Session /\ ~a.probe /\ a.active = t.active /\ a.mode = t.mode
      /\ a.pending = t.pending /\ a.hold = t.hold /\ a.rest = t.rest /\ a.link = t.link
  BY DropProbeResult
<1> HIDE DEF a
<1>3. /\ b \in Session /\ ~b.probe /\ b.active = t.active /\ b.mode = t.mode
      /\ b.pending = t.pending /\ b.hold = t.hold /\ ~b.rest /\ b.link = t.link
  BY <1>2, RestOffResult
<1> HIDE DEF b
<1>4. /\ v \in Session /\ ~v.probe /\ v.active = t.active /\ v.mode = t.mode
      /\ v.pending = t.pending /\ v.hold = t.hold /\ v.link = t.link
      /\ v.rest => t.rest
  BY <1>2, <1>3
<1> HIDE DEF v
<1>5. /\ w \in Session /\ ~w.probe /\ w.active = t.active /\ w.mode = t.mode
      /\ w.pending = t.pending /\ w.hold = t.hold /\ w.link = "down" /\ ~w.snapped
      /\ w.rest = v.rest
  BY <1>4, LinkClearResult
<1> HIDE DEF w
<1> QED
  BY <1>1, <1>4, <1>5

\* schedule_reconnect() on a session that is down: a reconnect is planned unless
\* the session is stopped, off or at rest, or the bond is gone, which stops it.
LEMMA ScheduleResult ==
    ASSUME NEW t \in Session, ~t.pending, t.link = "down", ~t.probe, ~t.snapped,
           t.rest => t.active, NEW u, u = ScheduleReconnect(t)
    PROVE  /\ u \in Session /\ Sound(u)
           /\ u.link = "down" /\ u.rest = t.rest /\ u.hold = t.hold
<1> DEFINE d == Larger(t.backoff, CooldownLeft(t))
           b == Smaller(2 * t.backoff, BackoffMax)
           v == [t EXCEPT !.pending = TRUE, !.reconnectIn = d, !.backoff = b]
           w == [t EXCEPT !.active = FALSE]
<1>1. /\ d \in 0..MaxDelay /\ b \in BackoffMin..BackoffMax /\ d + t.sinceDown >= Cooldown
  <2>1. t.backoff \in BackoffMin..BackoffMax /\ t.sinceDown \in 0..Cooldown
    BY DEF Session
  <2> QED
    BY <2>1, Delays DEF CooldownLeft
<1>2. u = IF ~t.active \/ t.mode = "off" \/ t.rest THEN t ELSE IF bonded = NoUnit THEN w ELSE v
  BY DEF ScheduleReconnect
<1> HIDE DEF d, b
<1>3. /\ w \in Session /\ ~w.active /\ w.pending = t.pending /\ w.link = t.link
      /\ w.rest = t.rest /\ w.hold = t.hold /\ w.probe = t.probe /\ w.snapped = t.snapped
  <2>1. w \in Session
    BY SetFlag, FALSE \in BOOLEAN
  <2>2. /\ ~w.active /\ w.pending = t.pending /\ w.link = t.link
        /\ w.rest = t.rest /\ w.hold = t.hold /\ w.probe = t.probe /\ w.snapped = t.snapped
    BY DEF Session
  <2> QED
    BY <2>1, <2>2
<1>4. /\ v \in Session /\ v.active = t.active /\ v.pending /\ v.link = t.link
      /\ v.rest = t.rest /\ v.hold = t.hold /\ v.probe = t.probe /\ v.mode = t.mode
      /\ v.reconnectIn = d /\ v.sinceDown = t.sinceDown /\ v.snapped = t.snapped
  <2>1. v \in Session
    BY <1>1, SetDelay
  <2>2. /\ v.active = t.active /\ v.pending /\ v.link = t.link
        /\ v.rest = t.rest /\ v.hold = t.hold /\ v.probe = t.probe /\ v.mode = t.mode
        /\ v.reconnectIn = d /\ v.sinceDown = t.sinceDown /\ v.snapped = t.snapped
    BY DEF Session
  <2> QED
    BY <2>1, <2>2
<1> HIDE DEF v, w
<1>5. CASE ~t.active \/ t.mode = "off" \/ t.rest
  BY <1>2, <1>5 DEF Sound
<1>6. CASE ~(~t.active \/ t.mode = "off" \/ t.rest) /\ bonded = NoUnit
  BY <1>2, <1>3, <1>6 DEF Sound
<1>7. CASE ~(~t.active \/ t.mode = "off" \/ t.rest) /\ bonded # NoUnit
  BY <1>1, <1>2, <1>4, <1>7 DEF Sound
<1> QED
  BY <1>5, <1>6, <1>7

\* link_lost() on any link of a running session.
LEMMA LinkLostResult ==
    ASSUME NEW t \in Session, t.active, ~t.pending, Quiet(t),
           NEW hungUp, NEW ac, NEW u, u = LinkLost(t, hungUp, ac)
    PROVE  u \in Session /\ Sound(u) /\ Quiet(u) /\ u.link = "down"
<1> DEFINE a == [t EXCEPT !.redial = FALSE]
           b == DropProbe(a)
           c == IF b.rest /\ LiveUnitAwake(b) THEN RestOff(b) ELSE b
           d == LinkClear(c)
           powerSave == /\ d.active /\ d.mode # "off" /\ hungUp
                        /\ ~busy /\ RestConditions(d, ac)
           redialled == [d EXCEPT !.redial = TRUE, !.backoff = BackoffMin]
           rested == RestOn(d)
           e == CASE CanRestAgain(d, ac) -> rested
                  [] ~CanRestAgain(d, ac) /\ powerSave /\ ViewerActive(d) -> redialled
                  [] ~CanRestAgain(d, ac) /\ powerSave /\ ~ViewerActive(d) -> rested
                  [] OTHER -> d
<1>1. a \in Session /\ a.active /\ ~a.pending /\ a.rest = t.rest /\ a.hold = t.hold
  <2>1. a \in Session
    BY SetFlag, FALSE \in BOOLEAN
  <2>2. a.active = t.active /\ a.pending = t.pending /\ a.rest = t.rest /\ a.hold = t.hold
    BY DEF Session
  <2> QED
    BY <2>1, <2>2
<1> HIDE DEF a
<1>2. b \in Session /\ b.active /\ ~b.pending /\ b.rest = t.rest /\ b.hold = t.hold /\ ~b.probe
  BY <1>1, DropProbeResult
<1> HIDE DEF b
<1>3. /\ c \in Session /\ c.active /\ ~c.pending /\ c.hold = t.hold /\ ~c.probe
      /\ c.rest => t.rest
  BY <1>2, RestOffResult
<1> HIDE DEF c
<1>4. /\ d \in Session /\ d.active /\ ~d.pending /\ d.hold = t.hold /\ ~d.probe
      /\ d.rest => t.rest
      /\ d.link = "down" /\ ~d.snapped
  BY <1>3, LinkClearResult
<1> HIDE DEF d
<1>5. Quiet(d)
  BY <1>4 DEF Quiet
<1>6. /\ redialled \in Session /\ redialled.active /\ ~redialled.pending
      /\ redialled.hold = d.hold /\ ~redialled.probe /\ redialled.rest = d.rest
      /\ redialled.link = "down" /\ ~redialled.snapped
  <2>1. redialled \in Session
    BY <1>4, SetBackoff, Fresh, TRUE \in BOOLEAN
  <2>2. /\ redialled.active = d.active /\ redialled.pending = d.pending
        /\ redialled.hold = d.hold /\ redialled.probe = d.probe /\ redialled.rest = d.rest
        /\ redialled.link = d.link /\ redialled.snapped = d.snapped
    BY <1>4 DEF Session
  <2> QED
    BY <1>4, <2>1, <2>2
<1>7. /\ rested \in Session /\ rested.active /\ ~rested.pending
      /\ rested.hold = d.hold /\ ~rested.probe
      /\ rested.link = "down" /\ ~rested.snapped
  BY <1>4, RestOnResult
<1> HIDE DEF redialled, rested
<1>8. /\ e \in Session /\ e.active /\ ~e.pending /\ ~e.probe
      /\ e.link = "down" /\ ~e.snapped /\ Quiet(e)
  <2>1. CanRestAgain(d, ac) \/ powerSave => ~busy /\ ~d.hold
    BY DEF CanRestAgain, RestConditions
  <2>2. Quiet(redialled)
    BY <1>5, <1>6 DEF Quiet
  <2>3. CanRestAgain(d, ac) \/ powerSave => Quiet(rested)
    BY <1>7, <2>1 DEF Quiet
  <2> HIDE DEF powerSave
  <2> QED
    BY <1>4, <1>5, <1>6, <1>7, <2>2, <2>3
<1>9. u = ScheduleReconnect(e)
  BY DEF LinkLost, a, b, c, d, redialled, rested
<1> HIDE DEF e
<1> QED
  BY <1>8, <1>9, ScheduleResult DEF Quiet

\* connect_now(): the transport takes the connect, or the next one is planned.
LEMMA ConnectNowResult ==
    ASSUME NEW t, Dials(t), Quiet(t), NEW accepted, NEW ac, NEW u, u = ConnectNow(t, accepted, ac)
    PROVE  u \in Session /\ Sound(u) /\ Quiet(u)
<1> DEFINE dialled == [t EXCEPT !.link = "connecting", !.age = JustNow]
           a == [t EXCEPT !.redial = FALSE]
           b == DropProbe(a)
           c == IF CanRestAgain(b, ac) THEN RestOn(b) ELSE b
<1>1. /\ t \in Session /\ t.active /\ ~t.pending /\ t.link = "down" /\ ~t.snapped
      /\ t.mode = "off" \/ t.rest => t.probe
  BY DEF Dials
<1>2. CASE accepted
  <2>1. dialled \in Session
    BY <1>1, Fresh, SetLink
  <2>2. /\ dialled.link = "connecting" /\ dialled.active = t.active /\ dialled.mode = t.mode
        /\ dialled.pending = t.pending /\ dialled.probe = t.probe /\ dialled.rest = t.rest
        /\ dialled.hold = t.hold /\ dialled.snapped = t.snapped
    BY <1>1 DEF Session
  <2>3. u = dialled
    BY <1>2 DEF ConnectNow
  <2> HIDE DEF dialled
  <2> QED
    BY <1>1, <2>1, <2>2, <2>3 DEF Sound, Quiet
<1>3. CASE ~accepted
  <2>1. u = ScheduleReconnect(c)
    BY <1>3 DEF ConnectNow, RestAgain
  <2>2. /\ a \in Session /\ a.active /\ ~a.pending /\ a.link = "down" /\ a.rest = t.rest
        /\ a.hold = t.hold /\ ~a.snapped
    <3>1. a \in Session
      BY <1>1, SetFlag, FALSE \in BOOLEAN
    <3>2. /\ a.active = t.active /\ a.pending = t.pending /\ a.link = t.link /\ a.rest = t.rest
          /\ a.hold = t.hold /\ a.snapped = t.snapped
      BY <1>1 DEF Session
    <3> QED
      BY <1>1, <3>1, <3>2
  <2> HIDE DEF a
  <2>3. /\ b \in Session /\ b.active /\ ~b.pending /\ b.link = "down" /\ b.rest = t.rest
        /\ b.hold = t.hold /\ ~b.snapped /\ ~b.probe
    BY <2>2, DropProbeResult
  <2> HIDE DEF b
  <2>4. /\ c \in Session /\ c.active /\ ~c.pending /\ c.link = "down" /\ ~c.snapped /\ ~c.probe
        /\ c.rest => t.rest \/ (~busy /\ ~c.hold)
        /\ c.hold = t.hold
    BY <2>3, RestOnResult DEF CanRestAgain, RestConditions
  <2> HIDE DEF c
  <2> QED
    BY <2>1, <2>4, ScheduleResult DEF Quiet
<1> QED
  BY <1>2, <1>3

\* link_up(): whoever wants the link keeps it, or it is lost again at once.
LEMMA LinkUpResult ==
    ASSUME bonded \in Units \cup {NoUnit}, NEW t \in Session, t.active, Quiet(t),
           t.mode = "off" \/ t.rest => t.probe,
           NEW discovers, NEW ac, NEW u, u = LinkUp(t, discovers, ac)
    PROVE  u \in Session /\ Sound(u) /\ Quiet(u)
<1> DEFINE r == NoReads(t)
           a == [r EXCEPT !.restLeft = FALSE, !.link = "up", !.age = JustNow,
                          !.pending = FALSE, !.hbAge = JustNow]
           c == UnitCheck(a)
           b == [c EXCEPT !.live = {}]
<1>1. /\ r \in Session /\ ~r.snapped /\ r.active = t.active /\ r.mode = t.mode
      /\ r.probe = t.probe /\ r.rest = t.rest /\ r.hold = t.hold
  BY NoReadsResult
<1> HIDE DEF r
<1>2. a \in Session
  BY <1>1, Fresh, SetLinkState
<1>3. /\ a.link = "up" /\ ~a.pending /\ a.snapped = r.snapped /\ a.active = r.active
      /\ a.mode = r.mode /\ a.probe = r.probe /\ a.rest = r.rest /\ a.hold = r.hold
  BY <1>1 DEF Session
<1> HIDE DEF a
<1>4. c \in Session /\ SameControl(c, a)
  BY <1>2, UnitCheckResult
<1> HIDE DEF c
<1>5. b \in Session
  BY <1>4, SetFrames, Fresh
<1>6. SameControl(b, c)
  BY <1>4 DEF SameControl, Session
<1>7. u = IF discovers THEN b ELSE LinkLost(b, FALSE, ac)
  BY DEF LinkUp, b, c, a, r
<1> HIDE DEF b
<1>8. /\ b.link = "up" /\ ~b.pending /\ ~b.snapped /\ b.active /\ b.mode = t.mode
      /\ b.probe = t.probe /\ b.rest = t.rest /\ b.hold = t.hold
  BY <1>1, <1>3, <1>4, <1>6 DEF SameControl
<1>9. Sound(b) /\ Quiet(b)
  BY <1>8 DEF Sound, Quiet
<1>10. CASE discovers
  BY <1>5, <1>7, <1>9, <1>10
<1>11. CASE ~discovers
  <2>1. u = LinkLost(b, FALSE, ac)
    BY <1>7, <1>11
  <2> QED
    BY <1>5, <1>8, <1>9, <2>1, LinkLostResult
<1> QED
  BY <1>10, <1>11

\* read_next(): a pass goes on, or its end serves the probe that waits for it.
LEMMA ReadNextResult ==
    ASSUME NEW t \in Session, Sound(t), Quiet(t), t.link = "up",
           NEW k \in 1..(Len(Order) + 1), NEW ac, NEW u, u = ReadNext(t, k, ac)
    PROVE  u \in Session /\ Sound(u) /\ Quiet(u)
<1> DEFINE a == [t EXCEPT !.reading = k]
           b == [t EXCEPT !.reading = NoPass, !.vehiclePre = FALSE, !.snapped = TRUE]
           c == ProbeRead(b, ac)
<1>1. CASE k <= Len(Order)
  <2>1. k \in 0..Len(Order)
    BY <1>1, Bounds
  <2>2. a \in Session
    BY <2>1, SetReading
  <2>3. SameControl(a, t)
    BY DEF SameControl, Session
  <2>4. u = a
    BY <1>1 DEF ReadNext
  <2> QED
    BY <2>2, <2>3, <2>4, SoundSame
<1>2. CASE ~(k <= Len(Order))
  <2>1. b \in Session
    BY Fresh, SetReading
  <2>2. /\ b.link = t.link /\ b.active = t.active /\ b.mode = t.mode /\ b.pending = t.pending
        /\ b.probe = t.probe /\ b.rest = t.rest /\ b.hold = t.hold /\ b.snapped
    BY DEF Session
  <2>3. u = IF b.probe THEN c ELSE b
    BY <1>2 DEF ReadNext
  <2> HIDE DEF b
  <2>4. CASE ~b.probe
    BY <2>1, <2>2, <2>3, <2>4 DEF Sound, Quiet
  <2>5. CASE b.probe
    <3>1. /\ c \in Session /\ ~c.probe
          /\ c.active = b.active /\ c.mode = b.mode /\ c.pending = b.pending /\ c.hold = b.hold
          /\ c.rest => b.rest
          /\ c.link \in {"down", b.link}
          /\ c.link # "down" => ~c.rest /\ c.mode # "off"
          /\ c.link = "down" /\ b.link # "down" => ~c.snapped /\ (c.rest \/ c.mode = "off")
      BY <2>1, ProbeReadResult
    <3> HIDE DEF c
    <3> QED
      BY <2>2, <2>3, <2>5, <3>1 DEF Sound, Quiet
  <2> QED
    BY <2>4, <2>5
<1> QED
  BY <1>1, <1>2

\* cali_session_set_mode().
LEMMA SetModeResult ==
    ASSUME NEW t \in Session, Sound(t), NEW m \in {"hold", "quiet", "off"},
           NEW accepted, NEW ac, NEW u, u = SetMode(t, m, accepted, ac)
    PROVE  /\ u \in Session /\ Sound(u)
           /\ Quiet(t) => Quiet(u)
           /\ ~t.active => ~u.active
<1> DEFINE h == IF t.active /\ m = "hold" THEN JustNow ELSE t.hbAge
           a == [t EXCEPT !.mode = m, !.hbAge = h]
           b == [a EXCEPT !.pending = FALSE, !.redial = FALSE]
           c == [a EXCEPT !.backoff = BackoffMin]
           cleared == LinkClear(b)
<1>1. CASE m = t.mode
  BY <1>1 DEF SetMode
<1>2. CASE m # t.mode
  <2>1. h \in 0..ArmDelay
    BY Fresh DEF Session
  <2>2. u = CASE ~t.active -> a
              [] t.active /\ m = "off" -> IF b.link # "down" /\ ~b.probe THEN cleared ELSE b
              [] t.active /\ m # "off" ->
                   IF a.link = "down" /\ ~a.pending /\ ~a.rest
                   THEN ConnectNow(c, accepted, ac) ELSE a
    BY <1>2 DEF SetMode
  <2> HIDE DEF h
  <2>3. a \in Session
    BY <2>1, SetModeStamp, Fresh
  <2>4. /\ a.mode = m /\ a.active = t.active /\ a.link = t.link /\ a.pending = t.pending
        /\ a.reconnectIn = t.reconnectIn /\ a.sinceDown = t.sinceDown /\ a.probe = t.probe
        /\ a.rest = t.rest /\ a.hold = t.hold /\ a.snapped = t.snapped
    BY DEF Session
  <2> HIDE DEF a
  <2>5. b \in Session
    BY <2>3, SetFlags, FALSE \in BOOLEAN
  <2>6. /\ b.mode = a.mode /\ b.active = a.active /\ b.link = a.link /\ ~b.pending
        /\ b.probe = a.probe /\ b.rest = a.rest /\ b.hold = a.hold /\ b.snapped = a.snapped
    BY <2>3 DEF Session
  <2> HIDE DEF b
  <2>7. CASE ~t.active
    BY <2>2, <2>3, <2>4, <2>7 DEF Sound, Quiet
  <2>8. CASE t.active /\ m = "off"
    <3>1. /\ cleared \in Session /\ cleared.link = "down" /\ ~cleared.snapped
          /\ cleared.active = b.active /\ cleared.mode = b.mode /\ cleared.pending = b.pending
          /\ cleared.probe = b.probe /\ cleared.rest = b.rest /\ cleared.hold = b.hold
      BY <2>5, LinkClearResult
    <3> HIDE DEF cleared
    <3>2. u = IF b.link # "down" /\ ~b.probe THEN cleared ELSE b
      BY <2>2, <2>8
    <3>3. CASE b.link # "down" /\ ~b.probe
      BY <2>4, <2>6, <2>8, <3>1, <3>2, <3>3 DEF Sound, Quiet
    <3>4. CASE ~(b.link # "down" /\ ~b.probe)
      BY <2>4, <2>5, <2>6, <2>8, <3>2, <3>4 DEF Sound, Quiet
    <3> QED
      BY <3>3, <3>4
  <2>9. CASE t.active /\ m # "off"
    <3>1. c \in Session
      BY <2>3, SetBackoff, Fresh, TRUE \in BOOLEAN
    <3>2. /\ c.mode = a.mode /\ c.active = a.active /\ c.link = a.link /\ c.pending = a.pending
          /\ c.probe = a.probe /\ c.rest = a.rest /\ c.hold = a.hold /\ c.snapped = a.snapped
      BY <2>3 DEF Session
    <3> HIDE DEF c
    <3>3. CASE a.link = "down" /\ ~a.pending /\ ~a.rest
      <4>1. Dials(c) /\ Quiet(c)
        BY <2>4, <2>9, <3>1, <3>2, <3>3 DEF Dials, Quiet, Sound
      <4>2. u = ConnectNow(c, accepted, ac)
        BY <2>2, <2>9, <3>3
      <4> QED
        BY <2>9, <4>1, <4>2, ConnectNowResult
    <3>4. CASE ~(a.link = "down" /\ ~a.pending /\ ~a.rest)
      <4>1. u = a
        BY <2>2, <2>9, <3>4
      <4> QED
        BY <2>3, <2>4, <2>9, <3>4, <4>1 DEF Sound, Quiet
    <3> QED
      BY <3>3, <3>4
  <2> QED
    BY <2>7, <2>8, <2>9
<1> QED
  BY <1>1, <1>2

\* reconnect_soon(): out of rest, the reconnect as soon as the cooldown allows.
LEMMA ReconnectSoonResult ==
    ASSUME NEW t \in Session, Sound(t), NEW u, u = ReconnectSoon(t)
    PROVE  u \in Session /\ Sound(u) /\ Quiet(u) /\ (~t.active => ~u.active)
<1> DEFINE a == RestOff(t)
           c == [a EXCEPT !.backoff = BackoffMin]
           p == ScheduleReconnect(c)
           b == IF ~t.rest THEN t
                ELSE IF a.active /\ a.link = "down" /\ ~a.pending /\ ~a.probe THEN p ELSE a
           r == CooldownLeft(b)
           f == [b EXCEPT !.reconnectIn = r]
<1>1. u = IF b.active /\ b.link = "down" /\ b.pending THEN f ELSE b
  BY DEF ReconnectSoon
<1>2. b \in Session /\ Sound(b) /\ ~b.rest /\ (~t.active => ~b.active)
  <2>1. CASE ~t.rest
    BY <2>1
  <2>2. CASE t.rest
    <3>1. /\ a \in Session /\ ~a.rest
          /\ a.active = t.active /\ a.link = t.link /\ a.mode = t.mode /\ a.pending = t.pending
          /\ a.probe = t.probe /\ a.hold = t.hold /\ a.snapped = t.snapped
      BY RestOffResult
    <3> HIDE DEF a
    <3>2. CASE a.active /\ a.link = "down" /\ ~a.pending /\ ~a.probe
      <4>1. c \in Session
        BY <3>1, SetBackoff, Fresh, TRUE \in BOOLEAN
      <4>2. /\ c.active = a.active /\ c.link = a.link /\ c.pending = a.pending
            /\ c.probe = a.probe /\ c.rest = a.rest /\ c.snapped = a.snapped
        BY <3>1 DEF Session
      <4> HIDE DEF c
      <4>3. p \in Session /\ Sound(p) /\ ~p.rest
        BY <2>2, <3>1, <3>2, <4>1, <4>2, ScheduleResult DEF Sound
      <4>4. b = p
        BY <2>2, <3>2
      <4> QED
        BY <3>1, <3>2, <4>3, <4>4
    <3>3. CASE ~(a.active /\ a.link = "down" /\ ~a.pending /\ ~a.probe)
      <4>1. b = a
        BY <2>2, <3>3
      <4> QED
        BY <2>2, <3>1, <3>3, <4>1 DEF Sound
    <3> QED
      BY <3>2, <3>3
  <2> QED
    BY <2>1, <2>2
<1> HIDE DEF b
<1>3. r \in 0..MaxDelay /\ r + b.sinceDown >= Cooldown
  <2>1. b.backoff \in BackoffMin..BackoffMax /\ b.sinceDown \in 0..Cooldown
    BY <1>2 DEF Session
  <2> QED
    BY <2>1, Delays DEF CooldownLeft
<1> HIDE DEF r
<1>4. f \in Session
  BY <1>2, <1>3, SetDelay, Fresh
<1>5. /\ f.reconnectIn = r /\ f.sinceDown = b.sinceDown
      /\ f.active = b.active /\ f.link = b.link /\ f.mode = b.mode /\ f.pending = b.pending
      /\ f.probe = b.probe /\ f.rest = b.rest /\ f.snapped = b.snapped
  BY <1>2 DEF Session
<1> HIDE DEF f
<1>6. Sound(f)
  BY <1>2, <1>3, <1>5 DEF Sound
<1> QED
  BY <1>1, <1>2, <1>4, <1>5, <1>6 DEF Quiet

\* cali_session_probe(), on a session that runs and does not probe yet.
LEMMA ProbeResult ==
    ASSUME NEW t \in Session, Sound(t), Quiet(t), t.active, ~t.probe,
           NEW accepted, NEW ac, NEW u, u = Probe(t, accepted, ac)
    PROVE  u \in Session /\ Sound(u) /\ Quiet(u)
<1> DEFINE a == [t EXCEPT !.probe = TRUE]
           b == [a EXCEPT !.pending = FALSE]
           c == [a EXCEPT !.warming = TRUE]
<1>1. a \in Session
  BY SetFlag, TRUE \in BOOLEAN
<1>2. /\ a.active = t.active /\ a.link = t.link /\ a.mode = t.mode /\ a.pending = t.pending
      /\ a.probe /\ a.rest = t.rest /\ a.hold = t.hold /\ a.snapped = t.snapped
  BY DEF Session
<1>3. u = IF a.link = "down" THEN ConnectNow(b, accepted, ac)
          ELSE IF a.link = "up" /\ a.snapped /\ a.reading = NoPass /\ ~a.warming THEN c ELSE a
  BY DEF Probe
<1> HIDE DEF a
<1>4. b \in Session
  BY <1>1, SetFlag, FALSE \in BOOLEAN
<1>5. /\ b.active = a.active /\ b.link = a.link /\ b.mode = a.mode /\ ~b.pending
      /\ b.probe = a.probe /\ b.rest = a.rest /\ b.hold = a.hold /\ b.snapped = a.snapped
  BY <1>1 DEF Session
<1>6. c \in Session
  BY <1>1, SetFlag, TRUE \in BOOLEAN
<1>7. SameControl(c, a)
  BY <1>1 DEF SameControl, Session
<1> HIDE DEF b, c
<1>8. CASE a.link = "down"
  <2>1. Dials(b) /\ Quiet(b)
    BY <1>2, <1>4, <1>5, <1>8 DEF Dials, Quiet, Sound
  <2> QED
    BY <1>3, <1>8, <2>1, ConnectNowResult
<1>9. CASE a.link # "down"
  <2>1. Sound(a) /\ Quiet(a)
    BY <1>2, <1>9 DEF Sound, Quiet
  <2> QED
    BY <1>1, <1>3, <1>6, <1>7, <1>9, <2>1, SoundSame
<1> QED
  BY <1>8, <1>9

\* wake(): hold, out of rest, the reconnect as soon as allowed.
LEMMA WakeResult ==
    ASSUME NEW t \in Session, Sound(t), NEW accepted, NEW ac, NEW u, u = Wake(t, accepted, ac)
    PROVE  u \in Session /\ Sound(u) /\ Quiet(u) /\ (~t.active => ~u.active)
<1> DEFINE a == [t EXCEPT !.inputLeft = InputTime]
           b == SetMode(a, "hold", accepted, ac)
<1>1. a \in Session
  BY SetInput, Fresh
<1>2. SameControl(a, t)
  BY DEF SameControl, Session
<1>3. u = ReconnectSoon(b)
  BY DEF Wake
<1> HIDE DEF a
<1>4. b \in Session /\ Sound(b) /\ (~t.active => ~b.active)
  BY <1>1, <1>2, SoundSame, SetModeResult DEF SameControl
<1> HIDE DEF b
<1> QED
  BY <1>3, <1>4, ReconnectSoonResult

\* cali_session_hold(1).
LEMMA HoldResult ==
    ASSUME NEW t \in Session, Sound(t), NEW accepted, NEW ac,
           NEW u, u = ReconnectSoon(SetMode([t EXCEPT !.hold = TRUE], "hold", accepted, ac))
    PROVE  u \in Session /\ Sound(u) /\ Quiet(u) /\ (~t.active => ~u.active)
<1> DEFINE a == [t EXCEPT !.hold = TRUE]
           b == SetMode(a, "hold", accepted, ac)
<1>1. a \in Session
  BY SetFlag, TRUE \in BOOLEAN
<1>2. Sound(a) /\ a.active = t.active
  <2>1. /\ a.active = t.active /\ a.link = t.link /\ a.mode = t.mode /\ a.pending = t.pending
        /\ a.reconnectIn = t.reconnectIn /\ a.sinceDown = t.sinceDown
        /\ a.probe = t.probe /\ a.rest = t.rest /\ a.snapped = t.snapped
    BY DEF Session
  <2> HIDE DEF a
  <2> QED
    BY <2>1 DEF Sound
<1> HIDE DEF a
<1>3. b \in Session /\ Sound(b) /\ (~t.active => ~b.active)
  BY <1>1, <1>2, SetModeResult
<1>4. u = ReconnectSoon(b)
  BY DEF a
<1> HIDE DEF b
<1> QED
  BY <1>3, <1>4, ReconnectSoonResult

\* cali_session_boot(), of a session that does not run.
LEMMA BootResult ==
    ASSUME NEW t \in Session, Sound(t), ~t.active,
           NEW accepted, NEW ac, NEW u, u = Boot(t, accepted, ac)
    PROVE  u \in Session /\ Sound(u) /\ Quiet(u)
<1> DEFINE a == [t EXCEPT !.active = TRUE]
<1>1. a \in Session
  BY SetFlag, TRUE \in BOOLEAN
<1>2. /\ a.active /\ a.link = t.link /\ a.mode = t.mode /\ a.pending = t.pending
      /\ a.probe = t.probe /\ a.rest = t.rest /\ a.hold = t.hold /\ a.snapped = t.snapped
  BY DEF Session
<1>3. u = IF bonded = NoUnit THEN t ELSE IF a.mode # "off" THEN ConnectNow(a, accepted, ac) ELSE a
  BY DEF Boot
<1> HIDE DEF a
<1>4. Quiet(t) /\ Quiet(a)
  BY <1>2 DEF Sound, Quiet
<1>5. CASE a.mode # "off" /\ bonded # NoUnit
  <2>1. Dials(a)
    BY <1>1, <1>2, <1>5 DEF Dials, Sound
  <2> QED
    BY <1>3, <1>4, <1>5, <2>1, ConnectNowResult
<1>6. CASE a.mode = "off" /\ bonded # NoUnit
  BY <1>1, <1>2, <1>3, <1>4, <1>6 DEF Sound
<1>7. CASE bonded = NoUnit
  BY <1>3, <1>4, <1>7
<1> QED
  BY <1>5, <1>6, <1>7

\* cali_session_stop(): nothing is left running, planned or resting.
LEMMA StopResult ==
    ASSUME bonded \in Units \cup {NoUnit}, NEW t \in Session, NEW u, u = Stop(t)
    PROVE  u \in Session /\ Sound(u) /\ Quiet(u) /\ ~u.active /\ u.link = "down"
<1> DEFINE a == RestOff(t)
           b == DropProbe(a)
           c == [b EXCEPT !.redial = FALSE, !.active = FALSE, !.pending = FALSE,
                          !.backoff = BackoffMin]
           d == LinkClear(c)
<1>1. a \in Session /\ ~a.rest
  BY RestOffResult
<1> HIDE DEF a
<1>2. b \in Session /\ ~b.rest /\ ~b.probe
  BY <1>1, DropProbeResult
<1> HIDE DEF b
<1>3. c \in Session
  BY <1>2, SetStopped, Fresh
<1>4. ~c.active /\ ~c.pending /\ c.rest = b.rest /\ c.probe = b.probe
  BY <1>2 DEF Session
<1> HIDE DEF c
<1>5. d \in Session /\ d.link = "down" /\ ~d.snapped /\ ~d.active /\ ~d.pending /\ ~d.rest /\ ~d.probe
  BY <1>2, <1>3, <1>4, LinkClearResult
<1>6. u = UnitCheck(d)
  BY DEF Stop, a, b, c, d
<1> HIDE DEF d
<1>7. u \in Session /\ SameControl(u, d)
  BY <1>5, <1>6, UnitCheckResult
<1> QED
  BY <1>5, <1>7 DEF SameControl, Sound, Quiet

\* cali_session_viewer().
LEMMA ViewerResult ==
    ASSUME NEW t \in Session, Sound(t), Quiet(t), NEW u, u = Viewer(t)
    PROVE  u \in Session /\ Sound(u) /\ Quiet(u) /\ (~t.active => ~u.active)
<1> DEFINE a == [t EXCEPT !.viewerLeft = ViewerTime]
           b == ReconnectSoon(a)
           r == b.link = "down" /\ b.pending
           c == [b EXCEPT !.redial = r]
<1>1. a \in Session
  BY SetViewer, Fresh
<1>2. SameControl(a, t)
  BY DEF SameControl, Session
<1>3. u = IF a.rest /\ a.active /\ a.mode # "off" /\ ViewerActive(a) THEN c ELSE a
  BY DEF Viewer
<1> HIDE DEF a
<1>4. Sound(a) /\ Quiet(a)
  BY <1>2, SoundSame
<1>5. b \in Session /\ Sound(b) /\ Quiet(b)
  BY <1>1, <1>4, ReconnectSoonResult
<1> HIDE DEF b
<1>6. r \in BOOLEAN
  OBVIOUS
<1> HIDE DEF r
<1>7. c \in Session
  BY <1>5, <1>6, SetFlag
<1>8. SameControl(c, b)
  BY <1>5 DEF SameControl, Session
<1> HIDE DEF c
<1> QED
  BY <1>1, <1>2, <1>3, <1>4, <1>5, <1>7, <1>8, SoundSame DEF SameControl

\* store(): the frames are not part of the control state.
LEMMA StoreResult ==
    ASSUME NEW t \in Session, NEW c, NEW v \in {"unknown", "off", "on"}, NEW u, u = Store(t, c, v)
    PROVE  /\ u \in Session /\ SameControl(u, t) /\ u.reading = t.reading
           /\ u.vehiclePre = t.vehiclePre
<1> DEFINE f == [t.frame EXCEPT ![c] = v]
           l == t.live \cup ({c} \ {"vehicle"})
<1>1. CASE c \in Tracked
  <2>1. f \in [Tracked -> {"unknown", "off", "on"}]
    BY DEF Session
  <2>2. l \in SUBSET {"campingmode", "energy"}
    BY <1>1 DEF Session, Tracked
  <2>3. u = [t EXCEPT !.frame = f, !.live = l]
    BY <1>1 DEF Store
  <2> HIDE DEF f, l
  <2>4. u \in Session
    <3>1. [t EXCEPT !.frame = f, !.live = l] \in Session
      BY <2>1, <2>2, SetFrames
    <3> QED
      BY <2>3, <3>1, Zenon
  <2>5. SameControl(u, t) /\ u.reading = t.reading /\ u.vehiclePre = t.vehiclePre
    BY <2>3 DEF SameControl, Session
  <2> QED
    BY <2>4, <2>5
<1>2. CASE c \notin Tracked
  BY <1>2 DEF Store, SameControl
<1> QED
  BY <1>1, <1>2

-----------------------------------------------------------------------------
(* The invariant, one step per action.                                     *)

\* The state around the session has its type.
World ==
    /\ bonded \in Units \cup {NoUnit}
    /\ busy \in BOOLEAN /\ flow \in BOOLEAN /\ ticking \in BOOLEAN
    /\ wire \in Seq(Requests)
    /\ beats \in 0..ArmDelay

\* The invariant in terms of what the functions' lemmas speak of.
LEMMA InvForm ==
    SessionInv <=> s \in Session /\ World /\ Sound(s) /\ Quiet(s) /\ (flow => ~s.active)
<1>1. ASSUME SessionInv
      PROVE  s \in Session /\ World /\ Sound(s) /\ Quiet(s) /\ (flow => ~s.active)
  <2> USE DEF SessionInv, TypeOK, ControlState, NeverStranded, LinkOnlyWhenWanted,
          PlanKeepsCooldown, NobodyWaitsInRest
  <2>1. s \in Session /\ World /\ (flow => ~s.active)
    BY <1>1 DEF World
  <2>2. Sound(s)
    BY <1>1 DEF Sound
  <2>3. Quiet(s)
    BY <1>1 DEF Quiet
  <2> QED
    BY <2>1, <2>2, <2>3
<1>2. ASSUME s \in Session, World, Sound(s), Quiet(s), flow => ~s.active
      PROVE  SessionInv
  <2>1. TypeOK
    BY <1>2 DEF TypeOK, World
  <2>2. ControlState
    BY <1>2 DEF ControlState, Sound
  <2>3. NeverStranded /\ LinkOnlyWhenWanted /\ PlanKeepsCooldown
    BY <1>2 DEF NeverStranded, LinkOnlyWhenWanted, PlanKeepsCooldown, Sound
  <2>4. NobodyWaitsInRest
    BY <1>2 DEF NobodyWaitsInRest, Sound, Quiet
  <2> QED
    BY <2>1, <2>2, <2>3, <2>4 DEF SessionInv
<1> QED
  BY <1>1, <1>2

\* A handler that leaves a sound session behind preserves the invariant.
LEMMA BecomesInv ==
    ASSUME World, NEW u \in Session, Sound(u), Quiet(u), NEW requests \in Seq(Requests),
           Becomes(u, requests), bonded' \in Units \cup {NoUnit}, busy' \in BOOLEAN, busy' => busy,
           flow' \in BOOLEAN, flow' => ~u.active, ticking' \in BOOLEAN
    PROVE  SessionInv'
<1>1. s' = u
  BY DEF Becomes
<1>2. World'
  <2>1. wire' \in Seq(Requests)
    BY DEF Becomes
  <2>2. beats' \in 0..ArmDelay
    BY Bounds DEF Becomes, World
  <2> QED
    BY <2>1, <2>2 DEF World
<1>3. Quiet(s)'
  BY <1>1 DEF Quiet
<1>4. Sound(s)'
  BY <1>1 DEF Sound
<1>5. (s \in Session /\ World /\ Sound(s) /\ Quiet(s) /\ (flow => ~s.active))' => SessionInv'
  BY InvForm, PTL
<1> QED
  BY <1>1, <1>2, <1>3, <1>4, <1>5

\* The same for the handlers that leave the world alone.
LEMMA HandlerInv ==
    ASSUME World, NEW u \in Session, Sound(u), Quiet(u), NEW requests \in Seq(Requests),
           Becomes(u, requests), UNCHANGED <<bonded, busy, flow>>, ticking' \in BOOLEAN,
           flow => ~u.active
    PROVE  SessionInv'
<1>1. /\ bonded' \in Units \cup {NoUnit} /\ busy' \in BOOLEAN /\ (busy' => busy)
      /\ flow' \in BOOLEAN /\ (flow' => ~u.active)
  BY DEF World
<1> QED
  BY <1>1, BecomesInv

\* What the read pass asks for are requests.
LEMMA OrderRequests ==
    ASSUME NEW k \in 1..Len(Order)
    PROVE  Order[k] \in Requests
BY OrderAssumption DEF Requests, Tracked

\* Requests answered or added leave a sequence of requests.
LEMMA WireRequests ==
    ASSUME World
    PROVE  /\ <<>> \in Seq(Requests) /\ <<"discover">> \in Seq(Requests)
           /\ wire \in Seq(Requests)
           /\ wire # <<>> => /\ Tail(wire) \in Seq(Requests) /\ Head(wire) \in Requests
                             /\ \A r \in Requests : Append(Tail(wire), r) \in Seq(Requests)
           /\ \A r \in Requests : <<r>> \in Seq(Requests) /\ wire \o <<r>> \in Seq(Requests)
BY DEF World, Requests

\* A step that keeps the session, and starts no command in rest, keeps the invariant.
LEMMA InvKept ==
    ASSUME s \in Session, Sound(s), World', s' = s, s.rest => ~busy' /\ ~s.hold, flow' => ~s.active
    PROVE  SessionInv'
<1>1. (s \in Session /\ World /\ Sound(s) /\ Quiet(s) /\ (flow => ~s.active))' => SessionInv'
  BY InvForm, PTL
<1>2. Sound(s)'
  BY DEF Sound
<1>3. Quiet(s)'
  BY DEF Quiet
<1> QED
  BY <1>1, <1>2, <1>3

\* The READ event, whichever reader it belongs to (on_read).
LEMMA ReadInv ==
    ASSUME SessionInv, EvRead
    PROVE  SessionInv'
<1>1. s \in Session /\ World /\ Sound(s) /\ Quiet(s) /\ (flow => ~s.active)
  BY InvForm
<1>2. Handler /\ s.active /\ s.link = "up" /\ wire # <<>>
  BY DEF EvRead
<1>3. UNCHANGED <<bonded, busy, flow>> /\ ticking' \in BOOLEAN /\ ~flow
  BY <1>1, <1>2 DEF Handler, World
<1> DEFINE c == Head(wire)
<1>4. PICK ok \in BOOLEAN, ac \in BOOLEAN, v \in Reported(c) :
        LET t == IF ok THEN Store(s, c, v) ELSE s
        IN  CASE s.variantPending /\ c = "vehicle" ->
                    Becomes(SubscribeAndWarm([t EXCEPT !.variantPending = FALSE,
                                                       !.vehiclePre = ok \/ @]), Tail(wire))
              [] s.heaterReading /\ c = "airheater" ->
                    Becomes([t EXCEPT !.heaterReading = FALSE], Tail(wire))
              [] s.rereading /\ c = "water" ->
                    Becomes([t EXCEPT !.rereading = FALSE], Tail(wire))
              [] s.reading # NoPass /\ c = Order[s.reading] ->
                    \E k \in NextReads(t, s.reading + 1) :
                        Becomes(ReadNext(t, k, ac),
                                IF k <= Len(Order) THEN Append(Tail(wire), Order[k]) ELSE Tail(wire))
              [] OTHER -> Becomes(s, Tail(wire))
  BY Zenon DEF EvRead
<1> DEFINE t == IF ok THEN Store(s, c, v) ELSE s
           warmed == [t EXCEPT !.variantPending = FALSE, !.vehiclePre = ok \/ t.vehiclePre]
<1>5. \/ Becomes(SubscribeAndWarm(warmed), Tail(wire))
      \/ Becomes([t EXCEPT !.heaterReading = FALSE], Tail(wire))
      \/ Becomes([t EXCEPT !.rereading = FALSE], Tail(wire))
      \/ \E k \in NextReads(t, s.reading + 1) :
            Becomes(ReadNext(t, k, ac),
                    IF k <= Len(Order) THEN Append(Tail(wire), Order[k]) ELSE Tail(wire))
      \/ Becomes(s, Tail(wire))
  BY <1>4, Zenon
<1>6. t \in Session /\ SameControl(t, s) /\ t.reading = s.reading
  <2>1. v \in {"unknown", "off", "on"}
    BY <1>4, SetsAssumption DEF Reported, Tracked
  <2>2. SameControl(s, s)
    BY DEF SameControl
  <2> QED
    BY <1>1, <2>1, <2>2, StoreResult
<1> HIDE DEF t
<1>7. Sound(t) /\ Quiet(t) /\ t.active = s.active /\ t.link = "up"
  BY <1>1, <1>2, <1>6, SoundSame DEF SameControl
<1>8. Tail(wire) \in Seq(Requests) /\ \A r \in Requests : Append(Tail(wire), r) \in Seq(Requests)
  BY <1>1, <1>2, WireRequests
<1>9. CASE Becomes(SubscribeAndWarm(warmed), Tail(wire))
  <2> DEFINE u == [warmed EXCEPT !.warming = TRUE]
  <2>1. warmed \in Session
    <3>1. (ok \/ t.vehiclePre) \in BOOLEAN
      OBVIOUS
    <3> QED
      BY <1>6, <3>1, SetFlags, FALSE \in BOOLEAN, Zenon
  <2>2. SameControl(warmed, t)
    BY <1>6 DEF SameControl, Session
  <2>3. Becomes(u, Tail(wire))
    BY <1>9 DEF SubscribeAndWarm
  <2> HIDE DEF warmed
  <2>4. u \in Session
    BY <2>1, SetFlag, TRUE \in BOOLEAN
  <2>5. SameControl(u, warmed)
    BY <2>1 DEF SameControl, Session
  <2> HIDE DEF u
  <2> QED
    BY <1>1, <1>3, <1>7, <1>8, <2>2, <2>3, <2>4, <2>5, SoundSame, HandlerInv
<1>10. CASE Becomes([t EXCEPT !.heaterReading = FALSE], Tail(wire))
  <2> DEFINE u == [t EXCEPT !.heaterReading = FALSE]
  <2>1. u \in Session
    BY <1>6, SetFlag, FALSE \in BOOLEAN
  <2>2. SameControl(u, t)
    BY <1>6 DEF SameControl, Session
  <2> HIDE DEF u
  <2> QED
    BY <1>1, <1>3, <1>7, <1>8, <1>10, <2>1, <2>2, SoundSame, HandlerInv DEF u
<1>11. CASE Becomes([t EXCEPT !.rereading = FALSE], Tail(wire))
  <2> DEFINE u == [t EXCEPT !.rereading = FALSE]
  <2>1. u \in Session
    BY <1>6, SetFlag, FALSE \in BOOLEAN
  <2>2. SameControl(u, t)
    BY <1>6 DEF SameControl, Session
  <2> HIDE DEF u
  <2> QED
    BY <1>1, <1>3, <1>7, <1>8, <1>11, <2>1, <2>2, SoundSame, HandlerInv DEF u
<1>12. CASE \E k \in NextReads(t, s.reading + 1) :
            Becomes(ReadNext(t, k, ac),
                    IF k <= Len(Order) THEN Append(Tail(wire), Order[k]) ELSE Tail(wire))
  <2>1. PICK k \in NextReads(t, s.reading + 1) :
            Becomes(ReadNext(t, k, ac),
                    IF k <= Len(Order) THEN Append(Tail(wire), Order[k]) ELSE Tail(wire))
    BY <1>12
  <2>2. k \in 1..(Len(Order) + 1)
    <3>1. s.reading \in 0..Len(Order)
      BY <1>1 DEF Session
    <3> QED
      BY <2>1, <3>1, Bounds DEF NextReads
  <2> DEFINE u == ReadNext(t, k, ac)
             r == IF k <= Len(Order) THEN Append(Tail(wire), Order[k]) ELSE Tail(wire)
  <2>3. u \in Session /\ Sound(u) /\ Quiet(u)
    BY <1>6, <1>7, <2>2, ReadNextResult
  <2>4. r \in Seq(Requests)
    BY <1>8, <2>2, Bounds, OrderRequests
  <2> HIDE DEF u, r
  <2>5. Becomes(u, r)
    BY <2>1 DEF u, r
  <2> QED
    BY <1>1, <1>3, <2>3, <2>4, <2>5, HandlerInv
<1>13. CASE Becomes(s, Tail(wire))
  BY <1>1, <1>3, <1>8, <1>13, HandlerInv
<1> QED
  BY <1>5, <1>9, <1>10, <1>11, <1>12, <1>13

\* Every transport event keeps the invariant (cali_session_on_event).
LEMMA EventsInv ==
    ASSUME SessionInv, Event
    PROVE  SessionInv'
<1>1. s \in Session /\ World /\ Sound(s) /\ Quiet(s) /\ (flow => ~s.active)
  BY InvForm
<1>2. <<>> \in Seq(Requests) /\ <<"discover">> \in Seq(Requests) /\ wire \in Seq(Requests)
  BY <1>1, WireRequests
<1>3. ASSUME Handler PROVE UNCHANGED <<bonded, busy, flow>> /\ ticking' \in BOOLEAN
  BY <1>1, <1>3 DEF Handler, World
<1>4. CASE EvConnected
  <2> DEFINE u == [s EXCEPT !.link = "connected", !.age = JustNow]
  <2>1. Handler /\ s.active /\ s.link = "connecting" /\ Becomes(u, <<>>)
    BY <1>4 DEF EvConnected
  <2>2. u \in Session
    BY <1>1, Fresh, SetLink
  <2>3. /\ u.link = "connected" /\ u.active = s.active /\ u.mode = s.mode /\ u.pending = s.pending
        /\ u.probe = s.probe /\ u.rest = s.rest /\ u.hold = s.hold /\ u.snapped = s.snapped
    BY <1>1 DEF Session
  <2> HIDE DEF u
  <2>4. Sound(u) /\ Quiet(u)
    BY <1>1, <2>1, <2>3 DEF Sound, Quiet
  <2> QED
    BY <1>1, <1>2, <1>3, <2>1, <2>2, <2>4, HandlerInv
<1>5. CASE EvEncOk
  <2>1. PICK discovers \in BOOLEAN, ac \in BOOLEAN : Becomes(LinkUp(s, discovers, ac), <<"discover">>)
    BY <1>5 DEF EvEncOk
  <2>2. Handler /\ s.active /\ s.link = "connected"
    BY <1>5 DEF EvEncOk
  <2> DEFINE u == LinkUp(s, discovers, ac)
  <2>3. u \in Session /\ Sound(u) /\ Quiet(u)
    <3>1. s.mode = "off" \/ s.rest => s.probe
      BY <1>1, <2>2 DEF Sound
    <3> QED
      BY <1>1, <2>2, <3>1, LinkUpResult DEF World
  <2> HIDE DEF u
  <2> QED
    BY <1>1, <1>2, <1>3, <2>1, <2>2, <2>3, HandlerInv DEF u
<1>6. CASE EvDisconnected
  <2>1. PICK hungUp \in BOOLEAN, ac \in BOOLEAN : Becomes(LinkLost(LinkClear(s), hungUp, ac), <<>>)
    BY <1>6 DEF EvDisconnected
  <2>2. Handler /\ s.active /\ s.link # "down"
    BY <1>6 DEF EvDisconnected
  <2> DEFINE c == LinkClear(s)
             u == LinkLost(c, hungUp, ac)
  <2>3. c \in Session /\ c.active = s.active /\ c.pending = s.pending /\ c.rest = s.rest /\ c.hold = s.hold
    BY <1>1, LinkClearResult
  <2> HIDE DEF c
  <2>4. u \in Session /\ Sound(u) /\ Quiet(u)
    BY <1>1, <2>2, <2>3, LinkLostResult DEF Sound, Quiet
  <2> QED
    BY <1>1, <1>2, <1>3, <2>1, <2>2, <2>4, HandlerInv DEF c
<1>7. CASE EvLinkBad
  <2>1. PICK ac \in BOOLEAN : Becomes(LinkLost(s, FALSE, ac), <<>>)
    BY <1>7 DEF EvLinkBad
  <2>2. Handler /\ s.active /\ s.link # "down"
    BY <1>7 DEF EvLinkBad
  <2> DEFINE u == LinkLost(s, FALSE, ac)
  <2>3. u \in Session /\ Sound(u) /\ Quiet(u)
    BY <1>1, <2>2, LinkLostResult DEF Sound
  <2> QED
    BY <1>1, <1>2, <1>3, <2>1, <2>2, <2>3, HandlerInv
<1>8. CASE EvDiscovered
  <2>1. Handler /\ s.active /\ s.link = "up" /\ wire # <<>>
    BY <1>8 DEF EvDiscovered
  <2>2. Tail(wire) \in Seq(Requests) /\ Append(Tail(wire), "vehicle") \in Seq(Requests)
    BY <1>1, <2>1, WireRequests DEF Requests
  <2>3. CASE \E ac \in BOOLEAN : Becomes(LinkLost(s, FALSE, ac), <<>>)
    <3>1. PICK ac \in BOOLEAN : Becomes(LinkLost(s, FALSE, ac), <<>>)
      BY <2>3
    <3> DEFINE u == LinkLost(s, FALSE, ac)
    <3>2. u \in Session /\ Sound(u) /\ Quiet(u)
      BY <1>1, <2>1, LinkLostResult DEF Sound
    <3> QED
      BY <1>1, <1>2, <1>3, <2>1, <3>1, <3>2, HandlerInv
  <2>4. CASE Becomes([s EXCEPT !.variantPending = TRUE], Append(Tail(wire), "vehicle"))
    <3> DEFINE u == [s EXCEPT !.variantPending = TRUE]
    <3>1. u \in Session
      BY <1>1, SetFlag, TRUE \in BOOLEAN
    <3>2. SameControl(u, s)
      BY <1>1 DEF SameControl, Session
    <3> HIDE DEF u
    <3> QED
      BY <1>1, <1>3, <2>1, <2>2, <2>4, <3>1, <3>2, SoundSame, HandlerInv DEF SameControl, u
  <2>5. CASE Becomes(SubscribeAndWarm(s), Tail(wire))
    <3> DEFINE u == [s EXCEPT !.warming = TRUE]
    <3>1. u \in Session
      BY <1>1, SetFlag, TRUE \in BOOLEAN
    <3>2. SameControl(u, s)
      BY <1>1 DEF SameControl, Session
    <3>3. Becomes(u, Tail(wire))
      BY <2>5 DEF SubscribeAndWarm
    <3> HIDE DEF u
    <3> QED
      BY <1>1, <1>3, <2>1, <2>2, <3>1, <3>2, <3>3, SoundSame, HandlerInv DEF SameControl
  <2> QED
    BY <1>8, <2>3, <2>4, <2>5 DEF EvDiscovered
<1>9. CASE EvRead
  BY <1>9, ReadInv
<1>10. CASE EvNotify
  <2>1. PICK c \in Tracked : \E v \in Values[c] : Becomes(Store(s, c, v), wire)
    BY <1>10 DEF EvNotify
  <2>2. PICK v \in Values[c] : Becomes(Store(s, c, v), wire)
    BY <2>1
  <2>3. Handler /\ s.active
    BY <1>10 DEF EvNotify
  <2>4. v \in {"unknown", "off", "on"}
    BY <2>1, <2>2, SetsAssumption DEF Tracked
  <2> DEFINE u == Store(s, c, v)
  <2>5. u \in Session /\ SameControl(u, s)
    BY <1>1, <2>4, StoreResult
  <2> HIDE DEF u
  <2> QED
    BY <1>1, <1>2, <1>3, <2>2, <2>3, <2>5, SoundSame, HandlerInv DEF SameControl, u
<1>11. CASE EvWritten
  <2>1. World' /\ s' = s /\ flow' = flow /\ busy' = FALSE
    BY <1>1, <1>11 DEF EvWritten, World
  <2> QED
    BY <1>1, <2>1, InvKept DEF Quiet
<1> QED
  BY <1>4, <1>5, <1>6, <1>7, <1>8, <1>9, <1>10, <1>11 DEF Event

\* The first half of a tick: time passes, the sequencer steps.
LEMMA ClockInv ==
    ASSUME SessionInv, Clock
    PROVE  SessionInv'
<1>1. s \in Session /\ World /\ Sound(s) /\ Quiet(s) /\ (flow => ~s.active)
  BY InvForm
<1> DEFINE n == IF s.link = "down" THEN JustNow ELSE Up(s.age, MaxAge)
           h == IF s.link = "up" THEN Up(s.hbAge, ArmDelay) ELSE JustNow
           r == Down(s.reconnectIn)
           d == Up(s.sinceDown, Cooldown)
           p == IF s.rest THEN Down(s.restIn) ELSE JustNow
           v == Down(s.viewerLeft)
           i == Down(s.inputLeft)
           u == [s EXCEPT !.age = n, !.hbAge = h, !.reconnectIn = r, !.sinceDown = d,
                          !.restIn = p, !.viewerLeft = v, !.inputLeft = i]
<1>2. s' = u
  BY DEF Clock
<1>3. /\ s.age \in 0..MaxAge /\ s.hbAge \in 0..ArmDelay /\ s.reconnectIn \in 0..MaxDelay
      /\ s.sinceDown \in 0..Cooldown /\ s.restIn \in Nat
      /\ s.viewerLeft \in 0..ViewerTime /\ s.inputLeft \in 0..InputTime
  BY <1>1 DEF Session
<1>4. n \in 0..MaxAge /\ h \in 0..ArmDelay
  BY <1>3, Bounds, Fresh, Steps
<1>5. r \in 0..MaxDelay /\ d \in 0..Cooldown /\ v \in 0..ViewerTime /\ i \in 0..InputTime
  BY <1>3, Bounds, Steps
<1>6. p \in Nat
  BY <1>3, Fresh DEF Down
<1>7. s.reconnectIn + s.sinceDown >= Cooldown => r + d >= Cooldown
  BY <1>3, StepsKeepSum
<1> HIDE DEF n, h, r, d, p, v, i
<1>8. u \in Session
  BY <1>1, <1>4, <1>5, <1>6, SetClock
<1>9. /\ u.active = s.active /\ u.link = s.link /\ u.mode = s.mode /\ u.pending = s.pending
      /\ u.reconnectIn = r /\ u.sinceDown = d
      /\ u.probe = s.probe /\ u.rest = s.rest /\ u.hold = s.hold /\ u.snapped = s.snapped
  BY <1>1 DEF Session
<1> HIDE DEF u
<1>10. Sound(u)
  BY <1>1, <1>7, <1>9 DEF Sound
<1>11. busy' \in BOOLEAN /\ (busy' => busy) /\ flow' = flow /\ ticking' = TRUE
       /\ bonded' = bonded /\ wire' = wire /\ beats' = beats
  BY <1>1 DEF Clock, World
<1>12. World'
  BY <1>1, <1>11 DEF World
<1>13. Quiet(s)' /\ Sound(s)'
  BY <1>1, <1>2, <1>9, <1>10, <1>11 DEF Quiet, Sound
<1>14. (s \in Session /\ World /\ Sound(s) /\ Quiet(s) /\ (flow => ~s.active))' => SessionInv'
  BY InvForm, PTL
<1> QED
  BY <1>1, <1>2, <1>8, <1>9, <1>11, <1>12, <1>13, <1>14

\* The tick of an up link: heartbeat, arming, idle reads.
LEMMA TickUpInv ==
    ASSUME SessionInv, TickUp
    PROVE  SessionInv'
<1>1. s \in Session /\ World /\ Sound(s) /\ Quiet(s) /\ (flow => ~s.active)
  BY InvForm
<1>2. TickEnds /\ s.active /\ s.link = "up"
  BY DEF TickUp
<1>3. PICK ac \in BOOLEAN, water \in BOOLEAN, heater \in BOOLEAN, k \in NextReads(s, 1) :
        LET a == IF StartsReads(s) THEN ReadNext([s EXCEPT !.warming = FALSE], k, ac) ELSE s
            b == EndRedial(a)
            c == IF water /\ ~StartsReads(s) /\ IdleReads(b)
                 THEN [b EXCEPT !.rereading = TRUE] ELSE b
            d == IF heater /\ c.hold /\ IdleReads(c) THEN [c EXCEPT !.heaterReading = TRUE] ELSE c
            issued == IF StartsReads(s) /\ k <= Len(Order) THEN <<Order[k]>>
                      ELSE IF d.rereading /\ ~s.rereading THEN <<"water">>
                      ELSE IF d.heaterReading /\ ~s.heaterReading THEN <<"airheater">>
                      ELSE <<>>
        IN  /\ s' = d
            /\ wire' = IF d.link = "up" THEN wire \o issued ELSE <<>>
            /\ beats' = IF d.link = "up" /\ HbWanted(s) THEN Up(beats, ArmDelay) ELSE 0
  BY Zenon DEF TickUp
<1> DEFINE w == [s EXCEPT !.warming = FALSE]
           a == IF StartsReads(s) THEN ReadNext(w, k, ac) ELSE s
           e == a.redial /\ ~(a.link = "up" /\ a.snapped /\ (a.mode # "hold" \/ Ready(a)))
           b == [a EXCEPT !.redial = e]
           bw == [b EXCEPT !.rereading = TRUE]
           c == IF water /\ ~StartsReads(s) /\ IdleReads(b) THEN bw ELSE b
           ch == [c EXCEPT !.heaterReading = TRUE]
           d == IF heater /\ c.hold /\ IdleReads(c) THEN ch ELSE c
           issued == IF StartsReads(s) /\ k <= Len(Order) THEN <<Order[k]>>
                     ELSE IF d.rereading /\ ~s.rereading THEN <<"water">>
                     ELSE IF d.heaterReading /\ ~s.heaterReading THEN <<"airheater">>
                     ELSE <<>>
<1>4. /\ s' = d
      /\ wire' = IF d.link = "up" THEN wire \o issued ELSE <<>>
      /\ beats' = IF d.link = "up" /\ HbWanted(s) THEN Up(beats, ArmDelay) ELSE 0
  BY <1>3, Zenon DEF EndRedial
<1>5. k \in 1..(Len(Order) + 1)
  BY Bounds DEF NextReads
<1>6. w \in Session /\ Sound(w) /\ Quiet(w) /\ w.link = "up"
  <2>1. w \in Session
    BY <1>1, SetFlag, FALSE \in BOOLEAN
  <2>2. SameControl(w, s)
    BY <1>1 DEF SameControl, Session
  <2> HIDE DEF w
  <2> QED
    BY <1>1, <1>2, <2>1, <2>2, SoundSame DEF SameControl
<1> HIDE DEF w
<1>7. a \in Session /\ Sound(a) /\ Quiet(a)
  <2>1. ReadNext(w, k, ac) \in Session /\ Sound(ReadNext(w, k, ac)) /\ Quiet(ReadNext(w, k, ac))
    BY <1>5, <1>6, ReadNextResult
  <2> QED
    BY <1>1, <2>1
<1> HIDE DEF a
<1>8. b \in Session /\ Sound(b) /\ Quiet(b)
  <2>1. e \in BOOLEAN
    OBVIOUS
  <2> HIDE DEF e
  <2>2. b \in Session
    BY <1>7, <2>1, SetFlag
  <2>3. SameControl(b, a)
    BY <1>7 DEF SameControl, Session
  <2> HIDE DEF b
  <2> QED
    BY <1>7, <2>2, <2>3, SoundSame
<1> HIDE DEF b
<1>9. c \in Session /\ Sound(c) /\ Quiet(c)
  <2>1. bw \in Session
    BY <1>8, SetFlag, TRUE \in BOOLEAN
  <2>2. SameControl(bw, b)
    BY <1>8 DEF SameControl, Session
  <2> HIDE DEF bw
  <2> QED
    BY <1>8, <2>1, <2>2, SoundSame
<1> HIDE DEF c
<1>10. d \in Session /\ Sound(d) /\ Quiet(d)
  <2>1. ch \in Session
    BY <1>9, SetFlag, TRUE \in BOOLEAN
  <2>2. SameControl(ch, c)
    BY <1>9 DEF SameControl, Session
  <2> HIDE DEF ch
  <2> QED
    BY <1>9, <2>1, <2>2, SoundSame
<1> HIDE DEF d
<1>11. wire' \in Seq(Requests)
  <2>1. CASE StartsReads(s) /\ k <= Len(Order)
    <3>1. Order[k] \in Requests
      BY <1>5, <2>1, OrderRequests, Bounds
    <3>2. issued = <<Order[k]>>
      BY <2>1
    <3> HIDE DEF issued
    <3> QED
      BY <1>1, <1>4, <3>1, <3>2, WireRequests
  <2>2. CASE ~(StartsReads(s) /\ k <= Len(Order))
    <3>1. issued \in {<<"water">>, <<"airheater">>, <<>>}
      BY <2>2
    <3> HIDE DEF issued
    <3>2. wire \o issued \in Seq(Requests)
      <4>1. "water" \in Requests /\ "airheater" \in Requests
        BY DEF Requests
      <4>2. wire \o <<"water">> \in Seq(Requests) /\ wire \o <<"airheater">> \in Seq(Requests)
        BY <1>1, <4>1, WireRequests
      <4>3. wire \o <<>> \in Seq(Requests)
        BY <1>1 DEF World
      <4> QED
        BY <3>1, <4>2, <4>3
    <3> QED
      BY <1>1, <1>4, <3>2, WireRequests
  <2> QED
    BY <2>1, <2>2
<1>12. beats' \in 0..ArmDelay
  BY <1>1, <1>4, Bounds, Steps DEF World
<1>13. World' /\ busy' = busy /\ ~flow'
  BY <1>1, <1>2, <1>11, <1>12 DEF World, TickEnds
<1>14. Sound(s)' /\ Quiet(s)'
  BY <1>4, <1>10, <1>13 DEF Sound, Quiet
<1>15. (s \in Session /\ World /\ Sound(s) /\ Quiet(s) /\ (flow => ~s.active))' => SessionInv'
  BY InvForm, PTL
<1> QED
  BY <1>4, <1>10, <1>13, <1>14, <1>15

\* The second half of a tick in any state of the link (cali_session_tick).
LEMMA TickInv ==
    ASSUME SessionInv, Tick
    PROVE  SessionInv'
<1>1. s \in Session /\ World /\ Sound(s) /\ Quiet(s) /\ (flow => ~s.active)
  BY InvForm
<1>2. <<>> \in Seq(Requests)
  OBVIOUS
<1>3. ASSUME TickEnds PROVE UNCHANGED <<bonded, busy, flow>> /\ ticking' \in BOOLEAN
  BY <1>3 DEF TickEnds
<1>4. CASE TickInactive
  <2>1. World' /\ s' = s /\ flow' = flow /\ busy' = busy
    BY <1>1, <1>4 DEF TickInactive, TickEnds, World
  <2> QED
    BY <1>1, <2>1, InvKept DEF Quiet
<1>5. CASE TickBeatFails
  <2>1. PICK ac \in BOOLEAN : Becomes(LinkLost(s, FALSE, ac), <<>>)
    BY <1>5 DEF TickBeatFails
  <2>2. TickEnds /\ s.active /\ s.link = "up"
    BY <1>5 DEF TickBeatFails
  <2> DEFINE u == LinkLost(s, FALSE, ac)
  <2>3. u \in Session /\ Sound(u) /\ Quiet(u)
    BY <1>1, <2>2, LinkLostResult DEF Sound
  <2> QED
    BY <1>1, <1>2, <1>3, <2>1, <2>2, <2>3, HandlerInv
<1>6. CASE TickUp
  BY <1>6, TickUpInv
<1>7. CASE TickConnecting
  <2>1. TickEnds /\ s.active /\ s.link # "down"
    BY <1>7 DEF TickConnecting
  <2>2. (\E ac \in BOOLEAN : Becomes(LinkLost(s, FALSE, ac), <<>>)) \/ Becomes(s, <<>>)
    BY <1>7 DEF TickConnecting
  <2>3. CASE \E ac \in BOOLEAN : Becomes(LinkLost(s, FALSE, ac), <<>>)
    <3>1. PICK ac \in BOOLEAN : Becomes(LinkLost(s, FALSE, ac), <<>>)
      BY <2>3
    <3> DEFINE u == LinkLost(s, FALSE, ac)
    <3>2. u \in Session /\ Sound(u) /\ Quiet(u)
      BY <1>1, <2>1, LinkLostResult DEF Sound
    <3> QED
      BY <1>1, <1>2, <1>3, <2>1, <3>1, <3>2, HandlerInv
  <2>4. CASE Becomes(s, <<>>)
    BY <1>1, <1>2, <1>3, <2>1, <2>4, HandlerInv
  <2> QED
    BY <2>2, <2>3, <2>4
<1>8. CASE TickDown
  <2> DEFINE t == [s EXCEPT !.pending = FALSE]
             x == [t EXCEPT !.active = FALSE, !.redial = FALSE]
  <2>1. TickEnds /\ s.active /\ s.link = "down"
    BY <1>8 DEF TickDown
  <2>2. PICK accepted \in BOOLEAN, ac \in BOOLEAN :
          Becomes(CASE RestPollDue(s) -> Probe(s, accepted, ac)
                    [] ~RestPollDue(s) /\ ReconnectDue(s) /\ bonded = NoUnit -> x
                    [] ~RestPollDue(s) /\ ReconnectDue(s) /\ bonded # NoUnit ->
                         ConnectNow(t, accepted, ac)
                    [] OTHER -> s, <<>>)
    BY <1>8, Zenon DEF TickDown
  <2>3. ~flow
    BY <1>1, <2>1
  <2>4. t \in Session
    BY <1>1, SetFlag, FALSE \in BOOLEAN
  <2>5. /\ t.active = s.active /\ t.link = s.link /\ t.mode = s.mode /\ ~t.pending
        /\ t.probe = s.probe /\ t.rest = s.rest /\ t.hold = s.hold /\ t.snapped = s.snapped
    BY <1>1 DEF Session
  <2> HIDE DEF t
  <2>6. x \in Session
    BY <2>4, SetFlags, FALSE \in BOOLEAN
  <2>7. /\ ~x.active /\ x.link = t.link /\ x.pending = t.pending /\ x.probe = t.probe
        /\ x.rest = t.rest /\ x.snapped = t.snapped
    BY <2>4 DEF Session
  <2> HIDE DEF x
  <2>8. CASE RestPollDue(s)
    <3> DEFINE u == Probe(s, accepted, ac)
    <3>1. u \in Session /\ Sound(u) /\ Quiet(u)
      BY <1>1, <2>1, <2>8, ProbeResult DEF RestPollDue
    <3>2. Becomes(u, <<>>)
      BY <2>2, <2>8
    <3> QED
      BY <1>1, <1>2, <1>3, <2>1, <2>3, <3>1, <3>2, HandlerInv
  <2>9. CASE ~RestPollDue(s) /\ ReconnectDue(s) /\ bonded = NoUnit
    <3>1. Sound(x) /\ Quiet(x)
      BY <1>1, <2>1, <2>5, <2>7, <2>9 DEF Sound, Quiet, ReconnectDue
    <3>2. Becomes(x, <<>>)
      BY <2>2, <2>9
    <3> QED
      BY <1>1, <1>2, <1>3, <2>1, <2>3, <2>6, <3>1, <3>2, HandlerInv
  <2>10. CASE ~RestPollDue(s) /\ ReconnectDue(s) /\ bonded # NoUnit
    <3> DEFINE u == ConnectNow(t, accepted, ac)
    <3>1. Dials(t) /\ Quiet(t)
      BY <1>1, <2>1, <2>4, <2>5, <2>10 DEF Dials, Sound, Quiet, ReconnectDue
    <3>2. u \in Session /\ Sound(u) /\ Quiet(u)
      BY <3>1, ConnectNowResult
    <3>3. Becomes(u, <<>>)
      BY <2>2, <2>10
    <3> QED
      BY <1>1, <1>2, <1>3, <2>1, <2>3, <3>2, <3>3, HandlerInv
  <2>11. CASE ~RestPollDue(s) /\ ~ReconnectDue(s)
    <3>1. Becomes(s, <<>>)
      BY <2>2, <2>11
    <3> QED
      BY <1>1, <1>2, <1>3, <2>1, <2>3, <3>1, HandlerInv
  <2> QED
    BY <2>8, <2>9, <2>10, <2>11
<1> QED
  BY <1>4, <1>5, <1>6, <1>7, <1>8 DEF Tick

\* Every call of the owner's side keeps the invariant.
LEMMA CallInv ==
    ASSUME SessionInv, Call
    PROVE  SessionInv'
<1>1. s \in Session /\ World /\ Sound(s) /\ Quiet(s) /\ (flow => ~s.active)
  BY InvForm
<1>2. wire \in Seq(Requests)
  BY <1>1 DEF World
<1>3. ASSUME Handler PROVE UNCHANGED <<bonded, busy, flow>> /\ ticking' \in BOOLEAN
  BY <1>1, <1>3 DEF Handler, World
<1>4. CASE CallSetMode
  <2>1. PICK m \in Modes, accepted \in BOOLEAN, ac \in BOOLEAN :
          Becomes(SetMode(s, m, accepted, ac), wire)
    BY <1>4 DEF CallSetMode
  <2>2. Handler /\ m \in {"hold", "quiet", "off"}
    BY <1>4, SetsAssumption DEF CallSetMode
  <2> DEFINE u == SetMode(s, m, accepted, ac)
  <2>3. u \in Session /\ Sound(u) /\ Quiet(u) /\ (~s.active => ~u.active)
    BY <1>1, <2>2, SetModeResult
  <2> QED
    BY <1>1, <1>2, <1>3, <2>1, <2>2, <2>3, HandlerInv
<1>5. CASE CallProbe
  <2>1. PICK accepted \in BOOLEAN, ac \in BOOLEAN : Becomes(Probe(s, accepted, ac), wire)
    BY <1>5 DEF CallProbe
  <2>2. Handler /\ s.active /\ ~s.probe
    BY <1>5 DEF CallProbe
  <2> DEFINE u == Probe(s, accepted, ac)
  <2>3. u \in Session /\ Sound(u) /\ Quiet(u)
    BY <1>1, <2>2, ProbeResult
  <2> QED
    BY <1>1, <1>2, <1>3, <2>1, <2>2, <2>3, HandlerInv
<1>6. CASE CallWake
  <2>1. PICK accepted \in BOOLEAN, ac \in BOOLEAN : Becomes(Wake(s, accepted, ac), wire)
    BY <1>6 DEF CallWake
  <2>2. Handler
    BY <1>6 DEF CallWake
  <2> DEFINE u == Wake(s, accepted, ac)
  <2>3. u \in Session /\ Sound(u) /\ Quiet(u) /\ (~s.active => ~u.active)
    BY <1>1, WakeResult
  <2> QED
    BY <1>1, <1>2, <1>3, <2>1, <2>2, <2>3, HandlerInv
<1>7. CASE CallSubmit
  <2>1. World' /\ s' = s /\ flow' = flow /\ s.link = "up" /\ s.snapped
    BY <1>1, <1>7 DEF CallSubmit, Ready, World
  <2>2. ~s.rest
    BY <1>1, <2>1 DEF Sound
  <2> QED
    BY <1>1, <2>1, <2>2, InvKept
<1>8. CASE CallHold
  <2>1. Handler
    BY <1>8 DEF CallHold
  <2>2. CASE s.hold /\ Becomes([s EXCEPT !.hold = FALSE], wire)
    <3> DEFINE u == [s EXCEPT !.hold = FALSE]
    <3>1. u \in Session
      BY <1>1, SetFlag, FALSE \in BOOLEAN
    <3>2. /\ u.active = s.active /\ u.link = s.link /\ u.mode = s.mode /\ u.pending = s.pending
          /\ u.reconnectIn = s.reconnectIn /\ u.sinceDown = s.sinceDown
          /\ u.probe = s.probe /\ u.rest = s.rest /\ u.snapped = s.snapped
      BY <1>1 DEF Session
    <3> HIDE DEF u
    <3>3. Sound(u) /\ Quiet(u)
      BY <1>1, <2>2, <3>2 DEF Sound, Quiet
    <3> QED
      BY <1>1, <1>2, <1>3, <2>1, <2>2, <3>1, <3>2, <3>3, HandlerInv DEF u
  <2>3. CASE \E accepted, ac \in BOOLEAN :
          Becomes(ReconnectSoon(SetMode([s EXCEPT !.hold = TRUE], "hold", accepted, ac)), wire)
    <3>1. PICK accepted \in BOOLEAN, ac \in BOOLEAN :
            Becomes(ReconnectSoon(SetMode([s EXCEPT !.hold = TRUE], "hold", accepted, ac)), wire)
      BY <2>3
    <3> DEFINE u == ReconnectSoon(SetMode([s EXCEPT !.hold = TRUE], "hold", accepted, ac))
    <3>2. u \in Session /\ Sound(u) /\ Quiet(u) /\ (~s.active => ~u.active)
      BY <1>1, HoldResult
    <3>3. Becomes(u, wire)
      BY <3>1
    <3> HIDE DEF u
    <3> QED
      BY <1>1, <1>2, <1>3, <2>1, <3>2, <3>3, HandlerInv
  <2> QED
    BY <1>8, <2>2, <2>3 DEF CallHold
<1>9. CASE CallViewer
  <2> DEFINE u == Viewer(s)
  <2>1. u \in Session /\ Sound(u) /\ Quiet(u) /\ (~s.active => ~u.active)
    BY <1>1, ViewerResult
  <2>2. Handler /\ Becomes(u, wire)
    BY <1>9 DEF CallViewer
  <2> QED
    BY <1>1, <1>2, <1>3, <2>1, <2>2, HandlerInv
<1>10. CASE CallInput
  <2> DEFINE t == [s EXCEPT !.inputLeft = InputTime]
             u == Viewer(t)
  <2>1. t \in Session
    BY <1>1, SetInput, Fresh
  <2>2. SameControl(t, s)
    BY <1>1 DEF SameControl, Session
  <2>3. Handler /\ Becomes(u, wire)
    BY <1>10 DEF CallInput
  <2> HIDE DEF t
  <2>4. u \in Session /\ Sound(u) /\ Quiet(u) /\ (~t.active => ~u.active)
    BY <1>1, <2>1, <2>2, SoundSame, ViewerResult
  <2> HIDE DEF u
  <2> QED
    BY <1>1, <1>2, <1>3, <2>2, <2>3, <2>4, HandlerInv DEF SameControl
<1>11. CASE CallSetRestPoll
  <2>1. PICK p \in RestPolls : Becomes([s EXCEPT !.restPoll = p, !.restIn = p], wire)
    BY <1>11 DEF CallSetRestPoll
  <2>2. Handler
    BY <1>11 DEF CallSetRestPoll
  <2> DEFINE u == [s EXCEPT !.restPoll = p, !.restIn = p]
  <2>3. u \in Session
    BY <1>1, SetPoll
  <2>4. SameControl(u, s)
    BY <1>1 DEF SameControl, Session
  <2> HIDE DEF u
  <2> QED
    BY <1>1, <1>2, <1>3, <2>1, <2>2, <2>3, <2>4, SoundSame, HandlerInv DEF SameControl, u
<1> QED
  BY <1>4, <1>5, <1>6, <1>7, <1>8, <1>9, <1>10, <1>11 DEF Call

\* What the pairing runner does to the session keeps the invariant.
LEMMA RunnerInv ==
    ASSUME ~Resyncs, SessionInv, Runner
    PROVE  SessionInv'
<1>1. s \in Session /\ World /\ Sound(s) /\ Quiet(s) /\ (flow => ~s.active)
  BY InvForm
<1>2. <<>> \in Seq(Requests) /\ <<"discover">> \in Seq(Requests) /\ wire \in Seq(Requests)
  BY <1>1, WireRequests
<1>3. /\ bonded \in Units \cup {NoUnit} /\ busy \in BOOLEAN
      /\ flow \in BOOLEAN /\ ticking \in BOOLEAN
  BY <1>1 DEF World
<1> DEFINE stopped == Stop(s)
<1>4. stopped \in Session /\ Sound(stopped) /\ Quiet(stopped) /\ ~stopped.active /\ stopped.link = "down"
  BY <1>1, <1>3, StopResult
<1> HIDE DEF stopped
<1>5. CASE OnSync
  <2>1. PICK accepted \in BOOLEAN, ac \in BOOLEAN : Becomes(Boot(s, accepted, ac), wire)
    BY <1>5 DEF OnSync
  <2>2. Handler /\ ~flow /\ ~s.active
    BY <1>5 DEF OnSync
  <2> DEFINE u == Boot(s, accepted, ac)
  <2>3. u \in Session /\ Sound(u) /\ Quiet(u)
    BY <1>1, <2>2, BootResult
  <2>4. UNCHANGED <<bonded, busy, flow>> /\ ticking' \in BOOLEAN
    BY <1>3, <2>2 DEF Handler
  <2> QED
    BY <1>1, <1>2, <2>1, <2>2, <2>3, <2>4, HandlerInv
<1>6. CASE FlowStart
  <2>1. Becomes(stopped, <<>>)
    BY <1>6 DEF FlowStart, stopped
  <2>2. bonded' = bonded /\ busy' = busy /\ ticking' = ticking /\ flow' = TRUE
    BY <1>6 DEF FlowStart
  <2> QED
    BY <1>1, <1>2, <1>3, <1>4, <2>1, <2>2, BecomesInv
<1>7. CASE FlowEnd
  <2>1. PICK accepted \in BOOLEAN, ac \in BOOLEAN : Becomes(Boot(stopped, accepted, ac), <<>>)
    BY <1>7 DEF FlowEnd, stopped
  <2>2. bonded' = bonded /\ busy' = busy /\ ticking' = ticking /\ flow' = FALSE
    BY <1>7 DEF FlowEnd
  <2> DEFINE u == Boot(stopped, accepted, ac)
  <2>3. u \in Session /\ Sound(u) /\ Quiet(u)
    BY <1>4, BootResult
  <2> QED
    BY <1>1, <1>2, <1>3, <2>1, <2>2, <2>3, BecomesInv
<1>8. CASE FlowBond
  <2>1. World' /\ s' = s /\ flow' = flow /\ busy' = busy
    BY <1>1, <1>8 DEF FlowBond, World
  <2> QED
    BY <1>1, <2>1, InvKept DEF Quiet
<1>9. CASE OnBonded
  <2>1. PICK discovers \in BOOLEAN, accepted \in BOOLEAN, ac \in BOOLEAN :
          LET a == RestOff(SetMode(s, "hold", accepted, ac))
          IN  Becomes(LinkUp([a EXCEPT !.active = TRUE], discovers, ac), <<"discover">>)
    BY <1>9, Zenon DEF OnBonded
  <2>2. bonded' = bonded /\ busy' = busy /\ ticking' = ticking /\ flow' = FALSE /\ flow
    BY <1>9 DEF OnBonded
  <2> DEFINE m == SetMode(s, "hold", accepted, ac)
             a == RestOff(m)
             b == [a EXCEPT !.active = TRUE]
             u == LinkUp(b, discovers, ac)
  <2>3. m \in Session /\ ~m.active
    BY <1>1, <2>2, SetModeResult
  <2>4. m.mode = "hold"
    <3>1. s.mode \in {"hold", "quiet", "off"} /\ ~s.active
      BY <1>1, <2>2 DEF Session
    <3>2. CASE s.mode = "hold"
      BY <3>2 DEF SetMode
    <3>3. CASE s.mode # "hold"
      <4>1. m = [s EXCEPT !.mode = "hold", !.hbAge = s.hbAge]
        BY <3>1, <3>3 DEF SetMode
      <4> QED
        BY <1>1, <4>1 DEF Session
    <3> QED
      BY <3>2, <3>3
  <2> HIDE DEF m
  <2>5. a \in Session /\ ~a.rest /\ a.mode = "hold"
    BY <2>3, <2>4, RestOffResult
  <2> HIDE DEF a
  <2>6. b \in Session
    BY <2>5, SetFlag, TRUE \in BOOLEAN
  <2>7. b.active /\ b.rest = a.rest /\ b.mode = a.mode
    BY <2>5 DEF Session
  <2>8. Becomes(u, <<"discover">>)
    BY <2>1, Zenon DEF m, a
  <2> HIDE DEF b
  <2>9. u \in Session /\ Sound(u) /\ Quiet(u)
    BY <1>3, <2>5, <2>6, <2>7, LinkUpResult DEF Quiet
  <2> QED
    BY <1>1, <1>2, <1>3, <2>2, <2>8, <2>9, BecomesInv
<1>10. CASE Forget
  <2> DEFINE u == [stopped EXCEPT !.unit = NoUnit, !.frame = NoFrames, !.live = {}]
  <2>1. Becomes(u, <<>>)
    BY <1>10 DEF Forget, stopped
  <2>2. bonded' = NoUnit /\ busy' = busy /\ ticking' = ticking /\ flow' = flow
    BY <1>10 DEF Forget
  <2>3. u \in Session
    BY <1>4, Fresh, SetFrames
  <2>4. SameControl(u, stopped)
    BY <1>4 DEF SameControl, Session
  <2> HIDE DEF u
  <2>5. Sound(u) /\ Quiet(u) /\ ~u.active
    BY <1>4, <2>4, SoundSame DEF SameControl
  <2> QED
    BY <1>1, <1>2, <1>3, <2>1, <2>2, <2>3, <2>5, BecomesInv
<1>11. CASE BondLost
  <2>1. World' /\ s' = s /\ flow' = flow /\ busy' = busy
    BY <1>1, <1>11 DEF BondLost, World
  <2> QED
    BY <1>1, <2>1, InvKept DEF Quiet
<1> QED
  BY <1>5, <1>6, <1>7, <1>8, <1>9, <1>10, <1>11 DEF Runner

\* The session starts inactive, with no link and nothing planned.
LEMMA InitInv == Init => SessionInv
<1> SUFFICES ASSUME Init PROVE SessionInv
  OBVIOUS
<1>1. PICK p \in RestPolls :
        s = [active |-> FALSE, link |-> "down", mode |-> "hold", age |-> 0, hbAge |-> 0,
             pending |-> FALSE, reconnectIn |-> 0, backoff |-> BackoffMin,
             sinceDown |-> Cooldown, warming |-> FALSE, reading |-> 0, snapped |-> FALSE,
             rereading |-> FALSE, heaterReading |-> FALSE, variantPending |-> FALSE,
             vehiclePre |-> FALSE, probe |-> FALSE, rest |-> FALSE, restLeft |-> FALSE,
             restPoll |-> p, restIn |-> p, redial |-> FALSE, hold |-> FALSE,
             viewerLeft |-> 0, inputLeft |-> 0, unit |-> NoUnit,
             frame |-> NoFrames, live |-> {}]
  BY DEF Init
<1>2. s \in Session
  BY <1>1, Bounds, Fresh DEF Session
<1>3. World
  <2>1. /\ bonded \in Units \cup {NoUnit} /\ busy = FALSE /\ flow = FALSE
        /\ wire = <<>> /\ beats = 0 /\ ticking = FALSE
    BY Zenon DEF Init
  <2>2. beats \in 0..ArmDelay
    BY <2>1, Bounds
  <2>3. wire \in Seq(Requests)
    BY <2>1
  <2> QED
    BY <2>1, <2>2, <2>3 DEF World
<1>4. Sound(s) /\ Quiet(s) /\ ~s.active
  BY <1>1 DEF Sound, Quiet
<1> QED
  BY <1>2, <1>3, <1>4, InvForm

-----------------------------------------------------------------------------
(* The theorems.                                                           *)

\* The session's control state fits together in every reachable state, for every
\* choice of times, read order, units and modes: no order of events, ticks, calls
\* and pairing flows leads out of it, as long as the controller does not reset
\* under the session.
THEOREM SessionSafe == ASSUME ~Resyncs PROVE Spec => []SessionInv
<1>1. SessionInv /\ [Next]_vars => SessionInv'
  <2> SUFFICES ASSUME SessionInv, [Next]_vars PROVE SessionInv'
    OBVIOUS
  <2>1. CASE Event
    BY <2>1, EventsInv
  <2>2. CASE Clock
    BY <2>2, ClockInv
  <2>3. CASE Tick
    BY <2>3, TickInv
  <2>4. CASE Call
    BY <2>4, CallInv
  <2>5. CASE Runner
    BY <2>5, RunnerInv
  <2>6. CASE UNCHANGED vars
    <3>1. s \in Session /\ World /\ Sound(s) /\ Quiet(s) /\ (flow => ~s.active)
      BY InvForm
    <3>2. World' /\ s' = s /\ flow' = flow /\ busy' = busy
      BY <2>6, <3>1 DEF vars, World
    <3> QED
      BY <3>1, <3>2, InvKept DEF Quiet
  <2> QED
    BY <2>1, <2>2, <2>3, <2>4, <2>5, <2>6 DEF Next
<1> QED
  BY <1>1, InitInv, PTL DEF Spec

\* Every static of session.c keeps its type.
THEOREM TypeCorrect == ASSUME ~Resyncs PROVE Spec => []TypeOK
<1>1. SessionInv => TypeOK
  BY DEF SessionInv
<1> QED
  BY <1>1, SessionSafe, PTL

\* The session is never left down without a plan to come back.
THEOREM SessionNeverStranded == ASSUME ~Resyncs PROVE Spec => []NeverStranded
<1>1. SessionInv => NeverStranded
  BY DEF SessionInv
<1> QED
  BY <1>1, SessionSafe, PTL

\* Nobody who does not want a link is given one.
THEOREM SessionLinkWanted == ASSUME ~Resyncs PROVE Spec => []LinkOnlyWhenWanted
<1>1. SessionInv => LinkOnlyWhenWanted
  BY DEF SessionInv
<1> QED
  BY <1>1, SessionSafe, PTL

\* No planned reconnect falls inside the unit's cooldown.
THEOREM SessionKeepsCooldown == ASSUME ~Resyncs PROVE Spec => []PlanKeepsCooldown
<1>1. SessionInv => PlanKeepsCooldown
  BY DEF SessionInv
<1> QED
  BY <1>1, SessionSafe, PTL

\* Nobody waits for a session at rest.
THEOREM SessionRestIsFree == ASSUME ~Resyncs PROVE Spec => []NobodyWaitsInRest
<1>1. SessionInv => NobodyWaitsInRest
  BY DEF SessionInv
<1> QED
  BY <1>1, SessionSafe, PTL

-----------------------------------------------------------------------------
(* How a session's link and reads follow from those of the one before.     *)

\* The same link, with the same reads and the same heartbeat.
SameLink(u, t) ==
    /\ u.link = t.link /\ u.mode = t.mode /\ u.hbAge = t.hbAge
    /\ u.warming = t.warming /\ u.snapped = t.snapped
    /\ u.variantPending = t.variantPending /\ u.reading = t.reading
    /\ u.rereading = t.rereading /\ u.heaterReading = t.heaterReading

\* The same waits; a pass is asked for only between two passes.
SameWaits(u, t) ==
    /\ Waits(u, t.variantPending, t.reading, t.rereading, t.heaterReading)
    /\ u.snapped = t.snapped
    /\ u.warming => t.warming \/ (t.snapped /\ t.reading = NoPass)

\* Holding starts the arm delay again, or was on already.
ArmFollows(u, t) == u.mode = "hold" => u.hbAge = 0 \/ (u.hbAge = t.hbAge /\ t.mode = "hold")

\* No link leaves a read behind.
Tidy(t) == t.link # "up" => Clean(t)

\* The link is gone, or it is the one of before and nothing was asked.
Follows(u, t) ==
    /\ Tidy(u)
    /\ u.link = "up" => t.link = "up" /\ SameWaits(u, t) /\ ArmFollows(u, t)

\* A session that left its link alone follows from itself.
LEMMA SameFollows ==
    ASSUME NEW t, NEW u, Tidy(t), SameLink(u, t)
    PROVE  Follows(u, t)
BY DEF Follows, SameLink, SameWaits, ArmFollows, Tidy, Clean, Waits

\* Two functions that leave the link alone, one after the other.
LEMMA FollowsChain ==
    ASSUME NEW t, NEW u, NEW v, Follows(u, t), Follows(v, u)
    PROVE  Follows(v, t)
<1>1. CASE v.link # "up"
  BY <1>1 DEF Follows
<1>2. CASE v.link = "up"
  <2>1. u.link = "up" /\ t.link = "up" /\ Tidy(v)
    BY <1>2 DEF Follows
  <2>2. SameWaits(v, t)
    BY <1>2, <2>1 DEF Follows, SameWaits, Waits
  <2>3. ArmFollows(v, t)
    BY <1>2, <2>1 DEF Follows, ArmFollows
  <2> QED
    BY <2>1, <2>2, <2>3 DEF Follows
<1> QED
  BY <1>1, <1>2

-----------------------------------------------------------------------------
(* What each function of session.c leaves of the link.                     *)

\* The functions that only plan, rest or look at the unit's identity.
LEMMA PlansOnly ==
    ASSUME NEW t \in Session
    PROVE  /\ SameLink(RestOn(t), t) /\ SameLink(RestOff(t), t)
           /\ SameLink(UnitCheck(t), t) /\ SameLink(DropProbe(t), t)
           /\ SameLink(ScheduleReconnect(t), t)
<1>1. SameLink(RestOn(t), t)
  BY DEF RestOn, SameLink, Session
<1>2. SameLink(RestOff(t), t)
  BY DEF RestOff, SameLink, Session
<1>3. SameLink(UnitCheck(t), t)
  BY DEF UnitCheck, SameLink, Session
<1>4. SameLink(DropProbe(t), t)
  BY DEF DropProbe, SameLink, Session
<1>5. SameLink(ScheduleReconnect(t), t)
  BY DEF ScheduleReconnect, SameLink, Session
<1> QED
  BY <1>1, <1>2, <1>3, <1>4, <1>5

\* One after the other.
LEMMA SameLinkChain ==
    ASSUME NEW t, NEW u, NEW v, SameLink(u, t), SameLink(v, u)
    PROVE  SameLink(v, t)
BY DEF SameLink

\* link_clear() takes the reads with the link.
LEMMA ClearLeaves ==
    ASSUME NEW t \in Session
    PROVE  LinkClear(t).link = "down" /\ Clean(LinkClear(t))
BY DEF LinkClear, NoReads, Clean, Waits, Session

\* The same link is as tidy.
LEMMA SameTidy ==
    ASSUME NEW t, NEW u, SameLink(u, t)
    PROVE  (Tidy(t) => Tidy(u)) /\ (Clean(t) => Clean(u)) /\ u.link = t.link
BY DEF SameLink, Tidy, Clean, Waits

\* link_lost() leaves no link and no read.
LEMMA LostLeaves ==
    ASSUME NEW t \in Session, NEW hungUp, NEW ac, NEW u, u = LinkLost(t, hungUp, ac)
    PROVE  u.link = "down" /\ Clean(u)
<1> DEFINE a == [t EXCEPT !.redial = FALSE]
           b == DropProbe(a)
           c == IF b.rest /\ LiveUnitAwake(b) THEN RestOff(b) ELSE b
           d == LinkClear(c)
           powerSave == /\ d.active /\ d.mode # "off" /\ hungUp
                        /\ ~busy /\ RestConditions(d, ac)
           redialled == [d EXCEPT !.redial = TRUE, !.backoff = BackoffMin]
           rested == RestOn(d)
           e == CASE CanRestAgain(d, ac) -> rested
                  [] ~CanRestAgain(d, ac) /\ powerSave /\ ViewerActive(d) -> redialled
                  [] ~CanRestAgain(d, ac) /\ powerSave /\ ~ViewerActive(d) -> rested
                  [] OTHER -> d
<1>1. a \in Session
  BY SetFlag, FALSE \in BOOLEAN
<1> HIDE DEF a
<1>2. b \in Session
  BY <1>1, DropProbeResult
<1> HIDE DEF b
<1>3. c \in Session
  BY <1>2, RestOffResult
<1> HIDE DEF c
<1>4. d \in Session /\ d.link = "down" /\ Clean(d)
  BY <1>3, LinkClearResult, ClearLeaves
<1> HIDE DEF d
<1>5. redialled \in Session /\ SameLink(redialled, d)
  <2>1. redialled \in Session
    BY <1>4, SetBackoff, Fresh, TRUE \in BOOLEAN
  <2>2. SameLink(redialled, d)
    BY <1>4 DEF SameLink, Session
  <2> QED
    BY <2>1, <2>2
<1>6. rested \in Session /\ SameLink(rested, d)
  BY <1>4, RestOnResult, PlansOnly
<1>7. SameLink(d, d)
  BY DEF SameLink
<1> HIDE DEF redialled, rested, powerSave
<1>8. e \in Session /\ SameLink(e, d)
  BY <1>4, <1>5, <1>6, <1>7
<1>9. u = ScheduleReconnect(e)
  BY DEF LinkLost, a, b, c, d, powerSave, redialled, rested
<1> HIDE DEF e
<1>10. SameLink(u, e)
  BY <1>8, <1>9, PlansOnly
<1> QED
  BY <1>4, <1>8, <1>10, SameTidy

\* connect_now() on a session without a link and without reads.
LEMMA ConnectLeaves ==
    ASSUME NEW t \in Session, t.link = "down", Clean(t),
           NEW accepted, NEW ac, NEW u, u = ConnectNow(t, accepted, ac)
    PROVE  u.link # "up" /\ Clean(u)
<1> DEFINE dialled == [t EXCEPT !.link = "connecting", !.age = JustNow]
           a == [t EXCEPT !.redial = FALSE]
           b == DropProbe(a)
           c == IF CanRestAgain(b, ac) THEN RestOn(b) ELSE b
<1>1. CASE accepted
  <2>1. u = dialled
    BY <1>1 DEF ConnectNow
  <2> QED
    BY <2>1 DEF Clean, Waits, Session
<1>2. CASE ~accepted
  <2>1. u = ScheduleReconnect(c)
    BY <1>2 DEF ConnectNow, RestAgain
  <2>2. a \in Session /\ SameLink(a, t)
    <3>1. a \in Session
      BY SetFlag, FALSE \in BOOLEAN
    <3>2. SameLink(a, t)
      BY DEF SameLink, Session
    <3> QED
      BY <3>1, <3>2
  <2> HIDE DEF a
  <2>3. b \in Session /\ SameLink(b, a)
    BY <2>2, DropProbeResult, PlansOnly
  <2> HIDE DEF b
  <2>4. c \in Session /\ SameLink(c, b)
    <3>1. SameLink(b, b)
      BY DEF SameLink
    <3> QED
      BY <2>3, <3>1, RestOnResult, PlansOnly
  <2> HIDE DEF c
  <2>5. SameLink(u, c)
    BY <2>1, <2>4, PlansOnly
  <2> QED
    BY <2>2, <2>3, <2>4, <2>5, SameTidy
<1> QED
  BY <1>1, <1>2

\* link_up(): a new link has its reads before it, or is lost at once.
LEMMA UpLeaves ==
    ASSUME bonded \in Units \cup {NoUnit}, NEW t \in Session,
           NEW discovers, NEW ac, NEW u, u = LinkUp(t, discovers, ac)
    PROVE  Clean(u) /\ (u.link = "up" => u.hbAge = 0)
<1> DEFINE r == NoReads(t)
           a == [r EXCEPT !.restLeft = FALSE, !.link = "up", !.age = JustNow,
                          !.pending = FALSE, !.hbAge = JustNow]
           c == UnitCheck(a)
           b == [c EXCEPT !.live = {}]
<1>1. r \in Session /\ Clean(r)
  <2>1. Clean(r)
    BY DEF NoReads, Clean, Waits, Session
  <2> QED
    BY <2>1, NoReadsResult
<1> HIDE DEF r
<1>2. a \in Session /\ Clean(a) /\ a.hbAge = 0
  <2>1. a \in Session
    BY <1>1, Fresh, SetLinkState
  <2>2. Clean(a) /\ a.hbAge = 0
    BY <1>1 DEF Clean, Waits, Session, JustNow
  <2> QED
    BY <2>1, <2>2
<1> HIDE DEF a
<1>3. c \in Session /\ SameLink(c, a)
  BY <1>2, UnitCheckResult, PlansOnly
<1> HIDE DEF c
<1>4. b \in Session /\ SameLink(b, c)
  <2>1. b \in Session
    BY <1>3, SetFrames, Fresh
  <2>2. SameLink(b, c)
    BY <1>3 DEF SameLink, Session
  <2> QED
    BY <2>1, <2>2
<1>5. u = IF discovers THEN b ELSE LinkLost(b, FALSE, ac)
  BY DEF LinkUp, b, c, a, r
<1> HIDE DEF b
<1>6. Clean(b) /\ b.hbAge = 0
  BY <1>2, <1>3, <1>4, SameTidy DEF SameLink
<1>7. CASE discovers
  BY <1>5, <1>6, <1>7
<1>8. CASE ~discovers
  <2>1. u = LinkLost(b, FALSE, ac)
    BY <1>5, <1>8
  <2>2. u.link = "down" /\ Clean(u)
    BY <1>4, <2>1, LostLeaves
  <2> QED
    BY <2>2
<1> QED
  BY <1>7, <1>8

\* read_next() after the request before it was answered: the next one is out, or
\* the pass is over, which may have been a probe's.
LEMMA ReadNextLeaves ==
    ASSUME NEW t \in Session, t.link = "up",
           ~t.warming, ~t.variantPending, ~t.rereading, ~t.heaterReading,
           NEW k \in 1..(Len(Order) + 1), NEW ac, NEW u, u = ReadNext(t, k, ac)
    PROVE  \/ u.link = "down" /\ Clean(u)
           \/ /\ u.link = "up" /\ u.mode = t.mode /\ u.hbAge = t.hbAge
              /\ k <= Len(Order) => Asked(u, <<Order[k]>>)
              /\ ~(k <= Len(Order)) => Asked(u, <<>>)
<1> DEFINE a == [t EXCEPT !.reading = k]
           b == [t EXCEPT !.reading = NoPass, !.vehiclePre = FALSE, !.snapped = TRUE]
<1>1. CASE k <= Len(Order)
  <2>1. u = a
    BY <1>1 DEF ReadNext
  <2>2. /\ a.link = "up" /\ a.mode = t.mode /\ a.hbAge = t.hbAge /\ ~a.warming
        /\ a.reading = k /\ Waits(a, FALSE, k, FALSE, FALSE)
    BY DEF Waits, Session
  <2>3. k # NoPass
    BY Bounds DEF NoPass
  <2> HIDE DEF a
  <2>4. Asked(a, <<Order[k]>>)
    BY <2>2, <2>3 DEF Asked
  <2> QED
    BY <1>1, <2>1, <2>2, <2>4
<1>2. CASE ~(k <= Len(Order))
  <2>1. b \in Session
    BY Fresh, SetReading
  <2>2. /\ b.link = "up" /\ b.mode = t.mode /\ b.hbAge = t.hbAge /\ ~b.warming
        /\ b.reading = NoPass /\ Waits(b, FALSE, NoPass, FALSE, FALSE)
    BY DEF Waits, Session
  <2>3. u = IF b.probe THEN ProbeRead(b, ac) ELSE b
    BY <1>2 DEF ReadNext
  <2> HIDE DEF b
  <2> DEFINE c == DropProbe(b)
             d == RestOff(c)
             v == IF c.rest /\ ~RestConditions(c, ac) THEN d ELSE c
  <2>4. c \in Session /\ SameLink(c, b)
    BY <2>1, DropProbeResult, PlansOnly
  <2> HIDE DEF c
  <2>5. d \in Session /\ SameLink(d, c)
    BY <2>4, RestOffResult, PlansOnly
  <2> HIDE DEF d
  <2>6. v \in Session /\ SameLink(v, c)
    <3>1. SameLink(c, c)
      BY DEF SameLink
    <3> QED
      BY <2>4, <2>5, <3>1
  <2>7. ProbeRead(b, ac) = IF (v.rest \/ v.mode = "off") /\ v.link # "down" THEN LinkClear(v) ELSE v
    BY DEF ProbeRead, c, d
  <2> HIDE DEF v
  <2>8. u \in {b, v} \/ (u.link = "down" /\ Clean(u))
    BY <2>3, <2>6, <2>7, ClearLeaves
  <2>9. SameLink(v, b) /\ SameLink(b, b)
    BY <2>4, <2>6, SameLinkChain DEF SameLink
  <2>10. CASE SameLink(u, b)
    <3>1. /\ u.link = "up" /\ u.mode = t.mode /\ u.hbAge = t.hbAge /\ ~u.warming
          /\ u.reading = NoPass /\ Waits(u, FALSE, NoPass, FALSE, FALSE)
      BY <2>2, <2>10 DEF SameLink, Waits
    <3>2. Asked(u, <<>>)
      BY <3>1 DEF Asked
    <3> QED
      BY <1>2, <3>1, <3>2
  <2> QED
    BY <2>8, <2>9, <2>10
<1> QED
  BY <1>1, <1>2

\* store() only changes what was heard.
LEMMA StoreLeaves ==
    ASSUME NEW t \in Session, NEW c, NEW v
    PROVE  SameLink(Store(t, c, v), t)
BY DEF Store, SameLink, Session

\* cali_session_set_mode(): holding starts the arm delay, off gives the link up.
LEMMA SetModeLeaves ==
    ASSUME NEW t \in Session, Tidy(t), t.link # "down" => t.active,
           NEW m \in {"hold", "quiet", "off"},
           NEW accepted, NEW ac, NEW u, u = SetMode(t, m, accepted, ac)
    PROVE  Follows(u, t)
<1> DEFINE h == IF t.active /\ m = "hold" THEN JustNow ELSE t.hbAge
           a == [t EXCEPT !.mode = m, !.hbAge = h]
           b == [a EXCEPT !.pending = FALSE, !.redial = FALSE]
           c == [a EXCEPT !.backoff = BackoffMin]
           cleared == LinkClear(b)
<1>1. CASE m = t.mode
  <2>1. u = t
    BY <1>1 DEF SetMode
  <2> QED
    BY <2>1, SameFollows DEF SameLink
<1>2. CASE m # t.mode
  <2>1. h \in 0..ArmDelay
    BY Fresh DEF Session
  <2>2. u = CASE ~t.active -> a
              [] t.active /\ m = "off" -> IF b.link # "down" /\ ~b.probe THEN cleared ELSE b
              [] t.active /\ m # "off" ->
                   IF a.link = "down" /\ ~a.pending /\ ~a.rest
                   THEN ConnectNow(c, accepted, ac) ELSE a
    BY <1>2 DEF SetMode
  <2>3. t.active => (m = "hold" => h = 0)
    BY DEF JustNow
  <2> HIDE DEF h
  <2>4. a \in Session
    BY <2>1, SetModeStamp, Fresh
  <2>5. /\ a.link = t.link /\ a.mode = m /\ a.hbAge = h /\ Tidy(a)
        /\ SameWaits(a, t)
    BY DEF Session, SameWaits, Waits, Tidy, Clean
  <2> HIDE DEF a
  <2>6. Follows(a, t)
    BY <2>3, <2>5 DEF Follows, ArmFollows
  <2>7. b \in Session /\ SameLink(b, a)
    <3>1. b \in Session
      BY <2>4, SetFlags, FALSE \in BOOLEAN
    <3>2. SameLink(b, a)
      BY <2>4 DEF SameLink, Session
    <3> QED
      BY <3>1, <3>2
  <2> HIDE DEF b
  <2>8. c \in Session /\ SameLink(c, a)
    <3>1. c \in Session
      BY <2>4, SetBackoff, Fresh, TRUE \in BOOLEAN
    <3>2. SameLink(c, a)
      BY <2>4 DEF SameLink, Session
    <3> QED
      BY <3>1, <3>2
  <2> HIDE DEF c
  <2>9. Follows(b, t)
    BY <2>5, <2>6, <2>7, SameFollows, FollowsChain
  <2>10. cleared.link = "down" /\ Clean(cleared)
    BY <2>7, ClearLeaves
  <2> HIDE DEF cleared
  <2>11. Follows(cleared, t)
    BY <2>10 DEF Follows, Tidy
  <2>12. a.link = "down" => Follows(ConnectNow(c, accepted, ac), t)
    <3> HAVE a.link = "down"
    <3>1. c.link = "down" /\ Clean(c)
      BY <2>5, <2>8 DEF SameLink, Tidy, Clean, Waits
    <3> DEFINE x == ConnectNow(c, accepted, ac)
    <3>2. x.link # "up" /\ Clean(x)
      BY <2>8, <3>1, ConnectLeaves
    <3> HIDE DEF x
    <3>3. Follows(x, t)
      BY <3>2 DEF Follows, Tidy
    <3> QED
      BY <3>3 DEF x
  <2> QED
    BY <2>2, <2>6, <2>9, <2>11, <2>12
<1> QED
  BY <1>1, <1>2

\* cali_session_probe() dials, or asks for a pass between two.
LEMMA ProbeLeaves ==
    ASSUME NEW t \in Session, Tidy(t), NEW accepted, NEW ac, NEW u, u = Probe(t, accepted, ac)
    PROVE  Follows(u, t)
<1> DEFINE a == [t EXCEPT !.probe = TRUE]
           b == [a EXCEPT !.pending = FALSE]
           w == [a EXCEPT !.warming = TRUE]
<1>1. u = IF a.link = "down" THEN ConnectNow(b, accepted, ac)
          ELSE IF a.link = "up" /\ a.snapped /\ a.reading = NoPass /\ ~a.warming
          THEN w ELSE a
  BY DEF Probe
<1>2. a \in Session /\ SameLink(a, t)
  <2>1. a \in Session
    BY SetFlag, TRUE \in BOOLEAN
  <2>2. SameLink(a, t)
    BY DEF SameLink, Session
  <2> QED
    BY <2>1, <2>2
<1> HIDE DEF a
<1>3. Tidy(a)
  BY <1>2, SameTidy
<1>4. b \in Session /\ SameLink(b, a)
  <2>1. b \in Session
    BY <1>2, SetFlag, FALSE \in BOOLEAN
  <2>2. SameLink(b, a)
    BY <1>2 DEF SameLink, Session
  <2> QED
    BY <2>1, <2>2
<1> HIDE DEF b
<1>5. CASE a.link = "down"
  <2>1. b.link = "down" /\ Clean(b)
    BY <1>3, <1>4, <1>5, SameTidy DEF Tidy
  <2>2. u = ConnectNow(b, accepted, ac)
    BY <1>1, <1>5
  <2>3. u.link # "up" /\ Clean(u)
    BY <1>4, <2>1, <2>2, ConnectLeaves
  <2> QED
    BY <2>3 DEF Follows, Tidy
<1>6. CASE a.link = "up" /\ a.snapped /\ a.reading = NoPass /\ ~a.warming
  <2>1. u = w
    BY <1>1, <1>6
  <2>2. w.link = "up" /\ SameWaits(w, a) /\ ArmFollows(w, a)
    BY <1>2, <1>6 DEF SameWaits, Waits, ArmFollows, Session
  <2>3. Follows(w, a)
    BY <1>6, <2>2 DEF Follows, Tidy
  <2>4. Follows(a, t)
    BY <1>2, SameFollows
  <2> HIDE DEF w
  <2> QED
    BY <2>1, <2>3, <2>4, FollowsChain
<1>7. CASE a.link # "down" /\ ~(a.link = "up" /\ a.snapped /\ a.reading = NoPass /\ ~a.warming)
  <2>1. u = a
    BY <1>1, <1>7
  <2> QED
    BY <1>2, <2>1, SameFollows
<1> QED
  BY <1>5, <1>6, <1>7

\* reconnect_soon() only plans.
LEMMA ReconnectSoonLeaves ==
    ASSUME NEW t \in Session, NEW u, u = ReconnectSoon(t)
    PROVE  SameLink(u, t)
<1> DEFINE a == RestOff(t)
           c == [a EXCEPT !.backoff = BackoffMin]
           d == ScheduleReconnect(c)
           b == IF ~t.rest THEN t
                ELSE IF a.active /\ a.link = "down" /\ ~a.pending /\ ~a.probe THEN d ELSE a
           e == [b EXCEPT !.reconnectIn = CooldownLeft(b)]
<1>1. a \in Session /\ SameLink(a, t)
  BY RestOffResult, PlansOnly
<1> HIDE DEF a
<1>2. c \in Session /\ SameLink(c, a)
  <2>1. c \in Session
    BY <1>1, SetBackoff, Fresh, TRUE \in BOOLEAN
  <2>2. SameLink(c, a)
    BY <1>1 DEF SameLink, Session
  <2> QED
    BY <2>1, <2>2
<1> HIDE DEF c
<1>3. d \in Session /\ SameLink(d, c)
  <2>1. c.backoff \in BackoffMin..BackoffMax /\ c.sinceDown \in 0..Cooldown
    BY <1>2 DEF Session
  <2>2. d \in Session
    BY <1>2, <2>1, SetFlag, SetDelay, Delays, FALSE \in BOOLEAN DEF ScheduleReconnect, CooldownLeft
  <2> QED
    BY <1>2, <2>2, PlansOnly
<1> HIDE DEF d
<1>4. b \in Session /\ SameLink(b, t)
  BY <1>1, <1>2, <1>3 DEF SameLink
<1>5. u = IF b.active /\ b.link = "down" /\ b.pending THEN e ELSE b
  BY DEF ReconnectSoon, a, c, d
<1> HIDE DEF b
<1>6. SameLink(e, b)
  BY <1>4 DEF SameLink, Session
<1> HIDE DEF e
<1> QED
  BY <1>4, <1>5, <1>6, SameLinkChain

\* viewer_seen() too.
LEMMA ViewerLeaves ==
    ASSUME NEW t \in Session, NEW u, u = Viewer(t)
    PROVE  SameLink(u, t)
<1> DEFINE a == [t EXCEPT !.viewerLeft = ViewerTime]
           b == ReconnectSoon(a)
           c == [b EXCEPT !.redial = b.link = "down" /\ b.pending]
<1>1. a \in Session /\ SameLink(a, t)
  <2>1. a \in Session
    BY SetViewer, Fresh
  <2>2. SameLink(a, t)
    BY DEF SameLink, Session
  <2> QED
    BY <2>1, <2>2
<1>2. u = IF a.rest /\ a.active /\ a.mode # "off" /\ ViewerActive(a) THEN c ELSE a
  BY DEF Viewer
<1> HIDE DEF a
<1>3. SameLink(b, a)
  BY <1>1, ReconnectSoonLeaves
<1>4. SameLink(c, b)
  BY DEF SameLink, ReconnectSoon, RestOff, ScheduleReconnect
<1> HIDE DEF b, c
<1> QED
  BY <1>1, <1>2, <1>3, <1>4, SameLinkChain

-----------------------------------------------------------------------------
(* Steps.                                                                  *)

\* A link that is gone takes its requests and its heartbeats with it.
LEMMA GoneKeeps ==
    ASSUME NEW u, u.link # "up", Clean(u), NEW r, Becomes(u, r)
    PROVE  LinkState'
<1>1. s' = u /\ wire' = <<>>
  BY DEF Becomes
<1>2. Clean(s)'
  BY <1>1 DEF Clean, Waits
<1>3. s'.link # "up"
  BY <1>1
<1> QED
  BY <1>1, <1>2, <1>3 DEF LinkState, ArmKept

\* A handler that leaves a link with its requests and its heartbeats in order.
LEMMA UpKeeps ==
    ASSUME World, LinkState, ~ticking, ~ticking', NEW u, u.link = "up", NEW r, Becomes(u, r),
           Asked(u, r),
           u.mode = "hold" => u.hbAge = 0 \/ (s.link = "up" /\ s.mode = "hold" /\ u.hbAge = s.hbAge)
    PROVE  LinkState'
<1>1. s' = u /\ wire' = r /\ beats' = IF s.link = "up" THEN beats ELSE 0
  BY DEF Becomes
<1>2. Asked(s, wire)'
  BY <1>1 DEF Asked, Clean, Waits
<1>3. ArmKept'
  <2>1. beats \in Nat /\ (s.link = "up" /\ s.mode = "hold" => beats >= s.hbAge)
    BY Bounds DEF World, LinkState, ArmKept
  <2> QED
    BY <1>1, <2>1 DEF ArmKept
<1> QED
  BY <1>1, <1>2, <1>3 DEF LinkState

\* A handler that asks nothing of the link.
LEMMA FollowsKeeps ==
    ASSUME World, LinkState, ~ticking, ~ticking', NEW u, Follows(u, s), Becomes(u, wire)
    PROVE  LinkState'
<1>1. CASE u.link # "up"
  BY <1>1, GoneKeeps DEF Follows, Tidy
<1>2. CASE u.link = "up"
  <2>1. s.link = "up" /\ SameWaits(u, s) /\ ArmFollows(u, s)
    BY <1>2 DEF Follows
  <2>2. Asked(s, wire)
    BY <2>1 DEF LinkState
  <2>3. Asked(u, wire)
    BY <2>1, <2>2 DEF Asked, SameWaits, Waits, Clean
  <2>4. u.mode = "hold" => u.hbAge = 0 \/ (s.link = "up" /\ s.mode = "hold" /\ u.hbAge = s.hbAge)
    BY <2>1 DEF ArmFollows
  <2> QED
    BY <1>2, <2>3, <2>4, UpKeeps
<1> QED
  BY <1>1, <1>2

\* What stands in the queue of requests while one waits for its answer.
LEMMA AskedOnce ==
    ASSUME NEW t, NEW w, Asked(t, w), w # <<>>
    PROVE  Tail(w) = <<>> /\ \A x : Append(Tail(w), x) = <<x>>
<1>1. PICK x : w = <<x>>
  BY DEF Asked
<1> QED
  BY <1>1

\* on_read() credits the answer to the one that waits for it.
LEMMA ReadKeeps ==
    ASSUME SessionInv, LinkState, EvRead
    PROVE  LinkState'
<1>1. s \in Session /\ World
  BY InvForm
<1>2. s.link = "up" /\ wire # <<>> /\ Head(wire) # "discover" /\ ~ticking /\ ~ticking'
  BY DEF EvRead, Handler
<1>3. Asked(s, wire) /\ Tail(wire) = <<>> /\ \A x : Append(Tail(wire), x) = <<x>>
  BY <1>2, AskedOnce DEF LinkState
<1> DEFINE c == Head(wire)
<1>4. PICK ok \in BOOLEAN, ac \in BOOLEAN, v \in Reported(c) :
        LET t == IF ok THEN Store(s, c, v) ELSE s
        IN  CASE s.variantPending /\ c = "vehicle" ->
                    Becomes(SubscribeAndWarm([t EXCEPT !.variantPending = FALSE,
                                                       !.vehiclePre = ok \/ @]), Tail(wire))
              [] s.heaterReading /\ c = "airheater" ->
                    Becomes([t EXCEPT !.heaterReading = FALSE], Tail(wire))
              [] s.rereading /\ c = "water" ->
                    Becomes([t EXCEPT !.rereading = FALSE], Tail(wire))
              [] s.reading # NoPass /\ c = Order[s.reading] ->
                    \E k \in NextReads(t, s.reading + 1) :
                        Becomes(ReadNext(t, k, ac),
                                IF k <= Len(Order) THEN Append(Tail(wire), Order[k]) ELSE Tail(wire))
              [] OTHER -> Becomes(s, Tail(wire))
  BY Zenon DEF EvRead
<1> DEFINE t == IF ok THEN Store(s, c, v) ELSE s
           warmed == [t EXCEPT !.variantPending = FALSE, !.vehiclePre = ok \/ t.vehiclePre]
           mine == s.reading # NoPass /\ c = Order[s.reading]
<1>5. \/ s.variantPending /\ c = "vehicle" /\ Becomes(SubscribeAndWarm(warmed), Tail(wire))
      \/ s.heaterReading /\ c = "airheater" /\ Becomes([t EXCEPT !.heaterReading = FALSE], Tail(wire))
      \/ s.rereading /\ c = "water" /\ Becomes([t EXCEPT !.rereading = FALSE], Tail(wire))
      \/ /\ mine
         /\ \E k \in NextReads(t, s.reading + 1) :
              Becomes(ReadNext(t, k, ac),
                      IF k <= Len(Order) THEN Append(Tail(wire), Order[k]) ELSE Tail(wire))
      \/ /\ ~(s.variantPending /\ c = "vehicle") /\ ~(s.heaterReading /\ c = "airheater")
         /\ ~(s.rereading /\ c = "water") /\ ~mine
         /\ Becomes(s, Tail(wire))
  BY <1>4, Zenon
<1>6. t \in Session /\ SameLink(t, s)
  <2>1. v \in {"unknown", "off", "on"}
    BY <1>4, SetsAssumption DEF Reported, Tracked
  <2> QED
    BY <1>1, <2>1, StoreResult, StoreLeaves DEF SameLink
<1> HIDE DEF t
<1>7. t.link = "up" /\ t.mode = s.mode /\ t.hbAge = s.hbAge /\ t.reading = s.reading
  BY <1>2, <1>6 DEF SameLink
<1>8. Waits(t, s.variantPending, s.reading, s.rereading, s.heaterReading) /\ t.warming = s.warming
  BY <1>6 DEF SameLink, Waits
<1>9. ASSUME NEW u, u.link = "up", u.mode = s.mode, u.hbAge = s.hbAge,
             Waits(u, FALSE, NoPass, FALSE, FALSE), Becomes(u, Tail(wire))
      PROVE  LinkState'
  <2>1. Asked(u, Tail(wire))
    BY <1>3, <1>9 DEF Asked
  <2> QED
    BY <1>1, <1>2, <1>9, <2>1, UpKeeps
<1>10. CASE s.variantPending /\ c = "vehicle" /\ Becomes(SubscribeAndWarm(warmed), Tail(wire))
  <2> DEFINE u == SubscribeAndWarm(warmed)
  <2>1. Waits(s, TRUE, NoPass, FALSE, FALSE)
    BY <1>3, <1>10 DEF Asked, Clean, Waits
  <2>2. u.link = "up" /\ u.mode = s.mode /\ u.hbAge = s.hbAge /\ Waits(u, FALSE, NoPass, FALSE, FALSE)
    BY <1>6, <1>7, <1>8, <2>1 DEF SubscribeAndWarm, Waits, Session
  <2>3. Becomes(u, Tail(wire))
    BY <1>10
  <2> HIDE DEF u
  <2> QED
    BY <1>9, <2>2, <2>3
<1>11. CASE s.heaterReading /\ c = "airheater" /\ Becomes([t EXCEPT !.heaterReading = FALSE], Tail(wire))
  <2> DEFINE u == [t EXCEPT !.heaterReading = FALSE]
  <2>1. Waits(s, FALSE, NoPass, FALSE, TRUE)
    BY <1>3, <1>11 DEF Asked, Clean, Waits
  <2>2. u.link = "up" /\ u.mode = s.mode /\ u.hbAge = s.hbAge /\ Waits(u, FALSE, NoPass, FALSE, FALSE)
    BY <1>6, <1>7, <1>8, <2>1 DEF Waits, Session
  <2>3. Becomes(u, Tail(wire))
    BY <1>11
  <2> HIDE DEF u
  <2> QED
    BY <1>9, <2>2, <2>3
<1>12. CASE s.rereading /\ c = "water" /\ Becomes([t EXCEPT !.rereading = FALSE], Tail(wire))
  <2> DEFINE u == [t EXCEPT !.rereading = FALSE]
  <2>1. Waits(s, FALSE, NoPass, TRUE, FALSE)
    BY <1>3, <1>12 DEF Asked, Clean, Waits
  <2>2. u.link = "up" /\ u.mode = s.mode /\ u.hbAge = s.hbAge /\ Waits(u, FALSE, NoPass, FALSE, FALSE)
    BY <1>6, <1>7, <1>8, <2>1 DEF Waits, Session
  <2>3. Becomes(u, Tail(wire))
    BY <1>12
  <2> HIDE DEF u
  <2> QED
    BY <1>9, <2>2, <2>3
<1>13. CASE /\ mine
            /\ \E k \in NextReads(t, s.reading + 1) :
                 Becomes(ReadNext(t, k, ac),
                         IF k <= Len(Order) THEN Append(Tail(wire), Order[k]) ELSE Tail(wire))
  <2>1. Waits(s, FALSE, s.reading, FALSE, FALSE) /\ ~s.warming
    BY <1>3, <1>13 DEF Asked, Clean, Waits
  <2>2. ~t.warming /\ ~t.variantPending /\ ~t.rereading /\ ~t.heaterReading
    BY <1>7, <1>8, <2>1 DEF Waits
  <2>3. PICK k \in NextReads(t, s.reading + 1) :
          Becomes(ReadNext(t, k, ac),
                  IF k <= Len(Order) THEN Append(Tail(wire), Order[k]) ELSE Tail(wire))
    BY <1>13
  <2>4. k \in 1..(Len(Order) + 1)
    <3>1. s.reading \in 0..Len(Order)
      BY <1>1 DEF Session
    <3> QED
      BY <2>3, <3>1, Bounds DEF NextReads
  <2> DEFINE u == ReadNext(t, k, ac)
             r == IF k <= Len(Order) THEN Append(Tail(wire), Order[k]) ELSE Tail(wire)
  <2>5. Becomes(u, r)
    BY <2>3
  <2>6. r = IF k <= Len(Order) THEN <<Order[k]>> ELSE <<>>
    BY <1>3
  <2>7. u = ReadNext(t, k, ac)
    OBVIOUS
  <2> HIDE DEF r, u
  <2>8. \/ u.link = "down" /\ Clean(u)
        \/ /\ u.link = "up" /\ u.mode = t.mode /\ u.hbAge = t.hbAge
           /\ k <= Len(Order) => Asked(u, <<Order[k]>>)
           /\ ~(k <= Len(Order)) => Asked(u, <<>>)
    BY <1>6, <1>7, <2>2, <2>4, <2>7, ReadNextLeaves
  <2>9. CASE u.link = "down" /\ Clean(u)
    BY <2>5, <2>9, GoneKeeps
  <2>10. CASE /\ u.link = "up" /\ u.mode = t.mode /\ u.hbAge = t.hbAge
              /\ k <= Len(Order) => Asked(u, <<Order[k]>>)
              /\ ~(k <= Len(Order)) => Asked(u, <<>>)
    <3>1. Asked(u, r)
      BY <2>6, <2>10
    <3> QED
      BY <1>1, <1>2, <1>7, <2>5, <2>10, <3>1, UpKeeps
  <2> QED
    BY <2>8, <2>9, <2>10
<1>14. ~(/\ ~(s.variantPending /\ c = "vehicle") /\ ~(s.heaterReading /\ c = "airheater")
         /\ ~(s.rereading /\ c = "water") /\ ~mine)
  BY <1>2, <1>3 DEF Asked, Clean, Waits
<1> QED
  BY <1>5, <1>10, <1>11, <1>12, <1>13, <1>14

\* What LinkState says of a link that is not up, and of one that is.
LEMMA StateTidy ==
    ASSUME LinkState
    PROVE  Tidy(s) /\ (s.link = "up" => Asked(s, wire))
BY DEF LinkState, Tidy

\* A step that touches neither the session nor its link.
LEMMA StillKeeps ==
    ASSUME LinkState, s' = s, wire' = wire, beats' = beats, ticking' = ticking
    PROVE  LinkState'
<1>1. Asked(s, wire) => Asked(s, wire)'
  BY DEF Asked, Waits, Clean
<1>2. Clean(s) => Clean(s)'
  BY DEF Waits, Clean
<1>3. ArmKept'
  BY DEF LinkState, ArmKept
<1> QED
  BY <1>1, <1>2, <1>3 DEF LinkState

\* The answer to the discovery is nobody else's.
LEMMA DiscoveredFirst ==
    ASSUME s \in Session, Asked(s, wire), wire # <<>>, Head(wire) = "discover"
    PROVE  Clean(s)
<1>1. s.reading # NoPass => Order[s.reading] # "discover"
  <2> HAVE s.reading # NoPass
  <2>1. s.reading \in 1..Len(Order)
    BY Bounds DEF Session, NoPass
  <2>2. Order[s.reading] \in Tracked \cup {"water", "airheater"}
    BY <2>1, OrderAssumption
  <2> QED
    BY <2>2 DEF Tracked
<1> QED
  BY <1>1 DEF Asked, Clean, Waits

\* Every transport event keeps the link in order (cali_session_on_event).
LEMMA EventKeeps ==
    ASSUME SessionInv, LinkState, Event
    PROVE  LinkState'
<1>1. s \in Session /\ World /\ Tidy(s) /\ bonded \in Units \cup {NoUnit}
  BY InvForm, StateTidy DEF World
<1>2. ASSUME Handler PROVE ~ticking /\ ~ticking'
  BY <1>2 DEF Handler
<1>3. CASE EvConnected
  <2> DEFINE u == [s EXCEPT !.link = "connected", !.age = JustNow]
  <2>1. s.link = "connecting" /\ Becomes(u, <<>>)
    BY <1>3 DEF EvConnected
  <2>2. u.link # "up" /\ Clean(u)
    BY <1>1, <2>1 DEF Tidy, Clean, Waits, Session
  <2> HIDE DEF u
  <2> QED
    BY <2>1, <2>2, GoneKeeps
<1>4. CASE EvEncOk
  <2>1. PICK discovers \in BOOLEAN, ac \in BOOLEAN : Becomes(LinkUp(s, discovers, ac), <<"discover">>)
    BY <1>4 DEF EvEncOk
  <2>2. Handler
    BY <1>4 DEF EvEncOk
  <2> DEFINE u == LinkUp(s, discovers, ac)
  <2>3. Clean(u) /\ (u.link = "up" => u.hbAge = 0)
    BY <1>1, UpLeaves
  <2> HIDE DEF u
  <2>4. Asked(u, <<"discover">>)
    BY <2>3 DEF Asked
  <2>5. CASE u.link = "up"
    BY <1>1, <1>2, <2>1, <2>2, <2>3, <2>4, <2>5, UpKeeps DEF u
  <2>6. CASE u.link # "up"
    BY <2>1, <2>3, <2>6, GoneKeeps DEF u
  <2> QED
    BY <2>5, <2>6
<1>5. CASE EvDisconnected
  <2>1. PICK hungUp \in BOOLEAN, ac \in BOOLEAN : Becomes(LinkLost(LinkClear(s), hungUp, ac), <<>>)
    BY <1>5 DEF EvDisconnected
  <2> DEFINE c == LinkClear(s)
             u == LinkLost(c, hungUp, ac)
  <2>2. c \in Session
    BY <1>1, LinkClearResult
  <2> HIDE DEF c
  <2>3. u.link = "down" /\ Clean(u)
    BY <2>2, LostLeaves
  <2> HIDE DEF u
  <2>4. Becomes(u, <<>>)
    BY <2>1 DEF u, c
  <2> QED
    BY <2>3, <2>4, GoneKeeps
<1>6. ASSUME NEW ac, Becomes(LinkLost(s, FALSE, ac), <<>>)
      PROVE  LinkState'
  <2> DEFINE u == LinkLost(s, FALSE, ac)
  <2>1. u.link = "down" /\ Clean(u)
    BY <1>1, LostLeaves
  <2> HIDE DEF u
  <2> QED
    BY <1>6, <2>1, GoneKeeps DEF u
<1>7. CASE EvLinkBad
  BY <1>6, <1>7 DEF EvLinkBad
<1>8. CASE EvDiscovered
  <2>1. Handler /\ s.link = "up" /\ wire # <<>> /\ Head(wire) = "discover"
    BY <1>8 DEF EvDiscovered
  <2>2. /\ Tail(wire) = <<>> /\ Append(Tail(wire), "vehicle") = <<"vehicle">>
        /\ Asked(s, wire)
    BY <2>1, StateTidy, AskedOnce
  <2>3. CASE \E ac \in BOOLEAN : Becomes(LinkLost(s, FALSE, ac), <<>>)
    BY <1>6, <2>3
  <2>4. CASE Becomes([s EXCEPT !.variantPending = TRUE], Append(Tail(wire), "vehicle"))
    <3> DEFINE u == [s EXCEPT !.variantPending = TRUE]
    <3>1. Clean(s)
      BY <1>1, <2>1, <2>2, DiscoveredFirst
    <3>2. u.link = "up" /\ u.mode = s.mode /\ u.hbAge = s.hbAge /\ Asked(u, <<"vehicle">>)
      BY <1>1, <2>1, <3>1 DEF Asked, Clean, Waits, Session
    <3>3. Becomes(u, <<"vehicle">>)
      BY <2>2, <2>4
    <3> HIDE DEF u
    <3> QED
      BY <1>1, <1>2, <2>1, <3>2, <3>3, UpKeeps
  <2>5. CASE Becomes(SubscribeAndWarm(s), Tail(wire))
    <3> DEFINE u == SubscribeAndWarm(s)
    <3>1. Clean(s)
      BY <1>1, <2>1, <2>2, DiscoveredFirst
    <3>2. u.link = "up" /\ u.mode = s.mode /\ u.hbAge = s.hbAge /\ Asked(u, <<>>)
      BY <1>1, <2>1, <3>1 DEF SubscribeAndWarm, Asked, Clean, Waits, Session
    <3>3. Becomes(u, <<>>)
      BY <2>2, <2>5
    <3> HIDE DEF u
    <3> QED
      BY <1>1, <1>2, <2>1, <3>2, <3>3, UpKeeps
  <2> QED
    BY <1>8, <2>3, <2>4, <2>5 DEF EvDiscovered
<1>9. CASE EvRead
  BY <1>9, ReadKeeps
<1>10. CASE EvNotify
  <2>1. PICK c \in Tracked : \E v \in Values[c] : Becomes(Store(s, c, v), wire)
    BY <1>10 DEF EvNotify
  <2>2. PICK v \in Values[c] : Becomes(Store(s, c, v), wire)
    BY <2>1
  <2>3. Handler
    BY <1>10 DEF EvNotify
  <2> DEFINE u == Store(s, c, v)
  <2>4. Follows(u, s)
    BY <1>1, StoreLeaves, SameFollows
  <2> HIDE DEF u
  <2> QED
    BY <1>1, <1>2, <2>2, <2>3, <2>4, FollowsKeeps DEF u
<1>11. CASE EvWritten
  BY <1>11, StillKeeps DEF EvWritten
<1> QED
  BY <1>3, <1>4, <1>5, <1>7, <1>8, <1>9, <1>10, <1>11 DEF Event

\* The clock adds a tick to the arm delay; the heartbeat of that tick comes next.
LEMMA ClockKeeps ==
    ASSUME SessionInv, LinkState, Clock
    PROVE  LinkState'
<1>1. s \in Session /\ s.hbAge \in Nat /\ beats \in Nat
  <2>1. s \in Session /\ World
    BY InvForm
  <2>2. s.hbAge \in 0..ArmDelay /\ beats \in 0..ArmDelay
    BY <2>1 DEF Session, World
  <2> QED
    BY <2>1, <2>2, Bounds
<1>2. /\ s'.link = s.link /\ s'.mode = s.mode /\ s'.snapped = s.snapped /\ s'.warming = s.warming
      /\ s'.variantPending = s.variantPending /\ s'.reading = s.reading
      /\ s'.rereading = s.rereading /\ s'.heaterReading = s.heaterReading
      /\ s'.hbAge = IF s.link = "up" THEN Up(s.hbAge, ArmDelay) ELSE JustNow
  BY <1>1 DEF Clock, Session
<1>3. ~ticking /\ ticking' = TRUE /\ wire' = wire /\ beats' = beats
  BY DEF Clock
<1>4. (Asked(s, wire) => Asked(s, wire)') /\ (Clean(s) => Clean(s)')
  BY <1>2, <1>3 DEF Asked, Clean, Waits
<1>5. ArmKept'
  <2>1. s.link = "up" /\ s.mode = "hold" => beats >= s.hbAge
    BY <1>3 DEF LinkState, ArmKept
  <2>2. s.link = "up" => s'.hbAge \in Nat /\ s'.hbAge <= s.hbAge + 1
    BY <1>1, <1>2, Bounds DEF Up
  <2> QED
    BY <1>1, <1>2, <1>3, <2>1, <2>2 DEF ArmKept
<1> QED
  BY <1>2, <1>3, <1>4, <1>5 DEF LinkState

\* A link on which nothing happens has no request out.
LEMMA IdleAsks ==
    ASSUME NEW t, NEW w, Asked(t, w), IdleReads(t)
    PROVE  /\ w = <<>> /\ t.snapped /\ t.reading = NoPass
           /\ ~t.variantPending /\ ~t.rereading /\ ~t.heaterReading
BY DEF Asked, IdleReads, Clean, Waits

\* The tick of an up link: its heartbeat, the pass that starts, the re-read that is due.
LEMMA TickUpKeeps ==
    ASSUME SessionInv, LinkState, TickUp
    PROVE  LinkState'
<1>1. s \in Session /\ World /\ Tidy(s)
  BY InvForm, StateTidy
<1>2. TickEnds /\ s.active /\ s.link = "up" /\ Asked(s, wire)
  BY StateTidy DEF TickUp
<1>3. PICK ac \in BOOLEAN, water \in BOOLEAN, heater \in BOOLEAN, k \in NextReads(s, 1) :
        LET a == IF StartsReads(s) THEN ReadNext([s EXCEPT !.warming = FALSE], k, ac) ELSE s
            b == EndRedial(a)
            c == IF water /\ ~StartsReads(s) /\ IdleReads(b)
                 THEN [b EXCEPT !.rereading = TRUE] ELSE b
            d == IF heater /\ c.hold /\ IdleReads(c) THEN [c EXCEPT !.heaterReading = TRUE] ELSE c
            issued == IF StartsReads(s) /\ k <= Len(Order) THEN <<Order[k]>>
                      ELSE IF d.rereading /\ ~s.rereading THEN <<"water">>
                      ELSE IF d.heaterReading /\ ~s.heaterReading THEN <<"airheater">>
                      ELSE <<>>
        IN  /\ s' = d
            /\ wire' = IF d.link = "up" THEN wire \o issued ELSE <<>>
            /\ beats' = IF d.link = "up" /\ HbWanted(s) THEN Up(beats, ArmDelay) ELSE 0
  BY Zenon DEF TickUp
<1> DEFINE w == [s EXCEPT !.warming = FALSE]
           a == IF StartsReads(s) THEN ReadNext(w, k, ac) ELSE s
           b == EndRedial(a)
           bw == [b EXCEPT !.rereading = TRUE]
           c == IF water /\ ~StartsReads(s) /\ IdleReads(b) THEN bw ELSE b
           ch == [c EXCEPT !.heaterReading = TRUE]
           d == IF heater /\ c.hold /\ IdleReads(c) THEN ch ELSE c
           issued == IF StartsReads(s) /\ k <= Len(Order) THEN <<Order[k]>>
                     ELSE IF d.rereading /\ ~s.rereading THEN <<"water">>
                     ELSE IF d.heaterReading /\ ~s.heaterReading THEN <<"airheater">>
                     ELSE <<>>
           passed == IF StartsReads(s) /\ k <= Len(Order) THEN <<Order[k]>> ELSE wire
<1>4. /\ s' = d
      /\ wire' = IF d.link = "up" THEN wire \o issued ELSE <<>>
      /\ beats' = IF d.link = "up" /\ HbWanted(s) THEN Up(beats, ArmDelay) ELSE 0
  BY <1>3, Zenon
<1>5. k \in 1..(Len(Order) + 1) /\ wire \o <<>> = wire
  BY <1>1, Bounds DEF NextReads, World
<1>6. StartsReads(s) => wire = <<>> /\ ~s.variantPending /\ ~s.rereading /\ ~s.heaterReading
  BY <1>1, <1>2 DEF StartsReads, Asked, Clean, Waits
<1>7. /\ a \in Session
      /\ \/ a.link = "down" /\ Clean(a)
         \/ a.link = "up" /\ a.mode = s.mode /\ a.hbAge = s.hbAge /\ Asked(a, passed)
  <2>1. CASE ~StartsReads(s)
    BY <1>1, <1>2, <2>1
  <2>2. CASE StartsReads(s)
    <3>1. w \in Session
      BY <1>1, SetFlag, FALSE \in BOOLEAN
    <3>2. /\ w.link = "up" /\ ~w.warming /\ ~w.variantPending /\ ~w.rereading /\ ~w.heaterReading
          /\ w.mode = s.mode /\ w.hbAge = s.hbAge
      BY <1>1, <1>2, <1>6, <2>2 DEF Session
    <3>3. SameControl(w, s)
      BY <1>1 DEF SameControl, Session
    <3> HIDE DEF w
    <3> DEFINE u == ReadNext(w, k, ac)
    <3>4. u \in Session
      <4>1. Sound(s) /\ Quiet(s)
        BY InvForm
      <4> QED
        BY <1>5, <3>1, <3>2, <3>3, <4>1, SoundSame, ReadNextResult
    <3>5. u = ReadNext(w, k, ac)
      OBVIOUS
    <3> HIDE DEF u
    <3>6. \/ u.link = "down" /\ Clean(u)
          \/ /\ u.link = "up" /\ u.mode = w.mode /\ u.hbAge = w.hbAge
             /\ k <= Len(Order) => Asked(u, <<Order[k]>>)
             /\ ~(k <= Len(Order)) => Asked(u, <<>>)
      BY <1>5, <3>1, <3>2, <3>5, ReadNextLeaves
    <3>7. a = u
      BY <2>2 DEF u
    <3> HIDE DEF a
    <3> QED
      BY <1>6, <2>2, <3>2, <3>4, <3>6, <3>7
  <2> QED
    BY <2>1, <2>2
<1>8. ~StartsReads(s) => a = s
  OBVIOUS
<1> HIDE DEF w, a
<1>9. b \in Session /\ SameLink(b, a)
  <2> DEFINE e == a.redial /\ ~(a.link = "up" /\ a.snapped /\ (a.mode # "hold" \/ Ready(a)))
  <2>1. b = [a EXCEPT !.redial = e]
    BY DEF EndRedial
  <2>2. e \in BOOLEAN
    OBVIOUS
  <2> HIDE DEF b, e
  <2>3. [a EXCEPT !.redial = e] \in Session
    BY <1>7, <2>2, SetFlag
  <2>4. SameLink(b, a)
    BY <1>7, <2>1 DEF SameLink, Session
  <2> QED
    BY <2>1, <2>3, <2>4
<1> HIDE DEF b
<1>10. \/ b.link = "down" /\ Clean(b)
       \/ b.link = "up" /\ b.mode = s.mode /\ b.hbAge = s.hbAge /\ Asked(b, passed)
  BY <1>7, <1>9 DEF SameLink, Asked, Clean, Waits
<1>11. ~StartsReads(s) => b.rereading = s.rereading /\ b.heaterReading = s.heaterReading
  BY <1>8, <1>9 DEF SameLink
<1>12. ticking /\ ~ticking'
  BY <1>2 DEF TickEnds
<1>13. ASSUME d.link = "up", d.mode = s.mode, d.hbAge = s.hbAge, Asked(d, wire \o issued)
       PROVE  LinkState'
  <2>1. s' = d /\ wire' = wire \o issued
    BY <1>4, <1>13
  <2>2. beats' = IF HbWanted(s) THEN Up(beats, ArmDelay) ELSE 0
    BY <1>4, <1>13
  <2> HIDE DEF d, issued
  <2>3. Asked(s, wire)'
    BY <1>13, <2>1 DEF Asked, Clean, Waits
  <2>4. s'.link = "up" /\ s'.mode = s.mode /\ s'.hbAge = s.hbAge
    BY <1>13, <2>1
  <2>5. ArmKept'
    <3>1. s.mode = "hold" => HbWanted(s) /\ beats + 1 >= s.hbAge
      BY <1>2, <1>12 DEF HbWanted, LinkState, ArmKept
    <3>2. s.hbAge \in 0..ArmDelay /\ beats \in 0..ArmDelay
      BY <1>1 DEF Session, World
    <3>3. beats + 1 >= s.hbAge => Up(beats, ArmDelay) >= s.hbAge
      BY <3>2, Bounds DEF Up
    <3> QED
      BY <1>12, <2>2, <2>4, <3>1, <3>3 DEF ArmKept
  <2> QED
    BY <2>3, <2>4, <2>5 DEF LinkState
<1>14. CASE b.link = "down" /\ Clean(b)
  <2>1. d = b
    BY <1>14 DEF IdleReads
  <2> HIDE DEF c, d
  <2>2. s' = b /\ wire' = <<>>
    BY <1>4, <1>14, <2>1
  <2>3. Clean(s)'
    BY <1>14, <2>2 DEF Clean, Waits
  <2> QED
    BY <1>14, <2>2, <2>3 DEF LinkState, ArmKept
<1>15. CASE b.link = "up" /\ b.mode = s.mode /\ b.hbAge = s.hbAge /\ Asked(b, passed)
  <2>1. CASE water /\ ~StartsReads(s) /\ IdleReads(b)
    <3>1. passed = wire
      BY <2>1
    <3>2. /\ wire = <<>> /\ b.snapped /\ b.reading = NoPass
          /\ ~b.variantPending /\ ~b.rereading /\ ~b.heaterReading
      BY <1>15, <2>1, <3>1, IdleAsks
    <3>3. bw.link = "up" /\ bw.mode = s.mode /\ bw.hbAge = s.hbAge /\ bw.rereading
      BY <1>9, <1>15 DEF Session
    <3>4. Asked(bw, <<"water">>)
      BY <1>9, <3>2 DEF Asked, Waits, Session
    <3>5. c = bw
      BY <2>1
    <3> HIDE DEF bw, c
    <3>6. d = bw
      BY <3>3, <3>5 DEF IdleReads
    <3> HIDE DEF d
    <3>7. issued = <<"water">>
      BY <1>11, <2>1, <3>2, <3>3, <3>6
    <3> HIDE DEF issued
    <3>8. wire \o issued = <<"water">>
      BY <3>2, <3>7
    <3> QED
      BY <1>13, <3>3, <3>4, <3>6, <3>8
  <2>2. CASE ~(water /\ ~StartsReads(s) /\ IdleReads(b))
    <3>1. c = b
      BY <2>2
    <3> HIDE DEF c
    <3>2. CASE heater /\ c.hold /\ IdleReads(c)
      <4>1. /\ passed = <<>> /\ b.snapped /\ b.reading = NoPass
            /\ ~b.variantPending /\ ~b.rereading /\ ~b.heaterReading
        BY <1>15, <3>1, <3>2, IdleAsks
      <4>2. ~(StartsReads(s) /\ k <= Len(Order)) /\ wire = <<>>
        BY <4>1
      <4>3. /\ ch.link = "up" /\ ch.mode = s.mode /\ ch.hbAge = s.hbAge /\ ch.heaterReading
            /\ ch.rereading = b.rereading
        BY <1>9, <1>15, <3>1 DEF Session
      <4>4. Asked(ch, <<"airheater">>)
        BY <1>9, <3>1, <4>1 DEF Asked, Waits, Session
      <4>5. ~s.heaterReading
        BY <1>6, <1>11, <4>1
      <4>6. d = ch
        BY <3>2
      <4> HIDE DEF ch, d
      <4>7. issued = <<"airheater">>
        BY <4>1, <4>2, <4>3, <4>5, <4>6
      <4> HIDE DEF issued
      <4>8. wire \o issued = <<"airheater">>
        BY <4>2, <4>7
      <4> QED
        BY <1>13, <4>3, <4>4, <4>6, <4>8
    <3>3. CASE ~(heater /\ c.hold /\ IdleReads(c))
      <4>1. d = b
        BY <3>1, <3>3
      <4> HIDE DEF d
      <4>2. wire \o issued = passed
        <5>1. CASE StartsReads(s) /\ k <= Len(Order)
          <6>1. issued = <<Order[k]>> /\ passed = <<Order[k]>> /\ wire = <<>>
            BY <1>6, <5>1
          <6> QED
            BY <6>1
        <5>2. CASE ~(StartsReads(s) /\ k <= Len(Order))
          <6>1. StartsReads(s) => Asked(b, <<>>)
            BY <1>6, <1>15, <5>2
          <6>2. StartsReads(s) => ~b.rereading /\ ~b.heaterReading
            BY <1>9, <6>1 DEF Asked, Waits, Clean, Session
          <6>3. issued = <<>>
            BY <1>11, <4>1, <5>2, <6>2
          <6>4. passed = wire
            BY <5>2
          <6> HIDE DEF issued, passed
          <6> QED
            BY <1>5, <6>3, <6>4
        <5> QED
          BY <5>1, <5>2
      <4> HIDE DEF issued, passed
      <4> QED
        BY <1>13, <1>15, <4>1, <4>2
    <3> QED
      BY <3>2, <3>3
  <2> QED
    BY <2>1, <2>2
<1> QED
  BY <1>10, <1>14, <1>15

\* The second half of a tick in any state of the link (cali_session_tick).
LEMMA TickKeeps ==
    ASSUME SessionInv, LinkState, Tick
    PROVE  LinkState'
<1>1. s \in Session /\ Sound(s) /\ Tidy(s)
  BY InvForm, StateTidy
<1>2. CASE TickInactive
  <2>1. s' = s /\ wire' = wire /\ s.link = "down"
    BY <1>1, <1>2 DEF TickInactive, Sound
  <2>2. Clean(s)' /\ wire' = <<>>
    BY <2>1 DEF LinkState, Clean, Waits
  <2> QED
    BY <2>1, <2>2 DEF LinkState, ArmKept
<1>3. CASE TickBeatFails
  <2>1. PICK ac \in BOOLEAN : Becomes(LinkLost(s, FALSE, ac), <<>>)
    BY <1>3 DEF TickBeatFails
  <2> DEFINE u == LinkLost(s, FALSE, ac)
  <2>2. u.link = "down" /\ Clean(u)
    BY <1>1, LostLeaves
  <2> HIDE DEF u
  <2> QED
    BY <2>1, <2>2, GoneKeeps DEF u
<1>4. CASE TickUp
  BY <1>4, TickUpKeeps
<1>5. CASE TickConnecting
  <2>1. PICK ac \in BOOLEAN :
          Becomes(IF s.age >= (IF s.link = "connecting" THEN ConnectTimeout ELSE EncTimeout)
                  THEN LinkLost(s, FALSE, ac) ELSE s, <<>>)
    BY <1>5 DEF TickConnecting
  <2>2. s.link # "up" /\ Clean(s)
    BY <1>1, <1>5 DEF TickConnecting, Tidy
  <2> DEFINE u == LinkLost(s, FALSE, ac)
  <2>3. u.link = "down" /\ Clean(u)
    BY <1>1, LostLeaves
  <2>4. Becomes(u, <<>>) \/ Becomes(s, <<>>)
    BY <2>1
  <2> HIDE DEF u
  <2> QED
    BY <2>2, <2>3, <2>4, GoneKeeps
<1>6. CASE TickDown
  <2> DEFINE t == [s EXCEPT !.pending = FALSE]
             x == [t EXCEPT !.active = FALSE, !.redial = FALSE]
  <2>1. s.link = "down" /\ Clean(s)
    BY <1>1, <1>6 DEF TickDown, Tidy
  <2>2. PICK accepted \in BOOLEAN, ac \in BOOLEAN :
          Becomes(CASE RestPollDue(s) -> Probe(s, accepted, ac)
                    [] ~RestPollDue(s) /\ ReconnectDue(s) /\ bonded = NoUnit -> x
                    [] ~RestPollDue(s) /\ ReconnectDue(s) /\ bonded # NoUnit ->
                         ConnectNow(t, accepted, ac)
                    [] OTHER -> s, <<>>)
    BY <1>6, Zenon DEF TickDown
  <2>3. t \in Session /\ t.link = "down" /\ Clean(t)
    <3>1. t \in Session
      BY <1>1, SetFlag, FALSE \in BOOLEAN
    <3> QED
      BY <1>1, <2>1, <3>1 DEF Clean, Waits, Session
  <2> HIDE DEF t
  <2>4. x.link = "down" /\ Clean(x)
    BY <2>3 DEF Clean, Waits, Session
  <2> HIDE DEF x
  <2> DEFINE p == Probe(s, accepted, ac)
             n == ConnectNow(t, accepted, ac)
  <2>5. p.link # "up" /\ Clean(p)
    <3>1. Follows(p, s)
      BY <1>1, ProbeLeaves
    <3> HIDE DEF p
    <3> QED
      BY <2>1, <3>1 DEF Follows, Tidy
  <2>6. n.link # "up" /\ Clean(n)
    BY <2>3, ConnectLeaves
  <2>7. Becomes(p, <<>>) \/ Becomes(x, <<>>) \/ Becomes(n, <<>>) \/ Becomes(s, <<>>)
    BY <2>2
  <2> HIDE DEF p, n
  <2> QED
    BY <2>1, <2>4, <2>5, <2>6, <2>7, GoneKeeps
<1> QED
  BY <1>2, <1>3, <1>4, <1>5, <1>6 DEF Tick

\* set_mode(), then reconnect_soon(), as cali_session_connect() and a hold have it.
LEMMA ConnectSoonLeaves ==
    ASSUME NEW t \in Session, Sound(t), Tidy(t), NEW accepted, NEW ac,
           NEW u, u = ReconnectSoon(SetMode(t, "hold", accepted, ac))
    PROVE  Follows(u, t)
<1> DEFINE m == SetMode(t, "hold", accepted, ac)
<1>1. m \in Session
  BY SetModeResult
<1>2. Follows(m, t)
  BY SetModeLeaves DEF Sound
<1> HIDE DEF m
<1>3. SameLink(u, m)
  BY <1>1, ReconnectSoonLeaves DEF m
<1>4. Follows(u, m)
  BY <1>2, <1>3, SameFollows DEF Follows
<1> QED
  BY <1>2, <1>4, FollowsChain

\* Every call of the owner's side keeps the link in order.
LEMMA CallKeeps ==
    ASSUME SessionInv, LinkState, Call
    PROVE  LinkState'
<1>1. s \in Session /\ World /\ Sound(s) /\ Tidy(s)
  BY InvForm, StateTidy
<1>2. ASSUME Handler, NEW u, Becomes(u, wire), Follows(u, s)
      PROVE  LinkState'
  BY <1>1, <1>2, FollowsKeeps DEF Handler
<1>3. CASE CallSetMode
  <2>1. PICK m \in Modes, accepted \in BOOLEAN, ac \in BOOLEAN :
          Becomes(SetMode(s, m, accepted, ac), wire)
    BY <1>3 DEF CallSetMode
  <2>2. Handler /\ m \in {"hold", "quiet", "off"}
    BY <1>3, SetsAssumption DEF CallSetMode
  <2> DEFINE u == SetMode(s, m, accepted, ac)
  <2>3. Follows(u, s)
    BY <1>1, <2>2, SetModeLeaves DEF Sound
  <2> QED
    BY <1>2, <2>1, <2>2, <2>3
<1>4. CASE CallProbe
  <2>1. PICK accepted \in BOOLEAN, ac \in BOOLEAN : Becomes(Probe(s, accepted, ac), wire)
    BY <1>4 DEF CallProbe
  <2>2. Handler
    BY <1>4 DEF CallProbe
  <2> DEFINE u == Probe(s, accepted, ac)
  <2>3. Follows(u, s)
    BY <1>1, ProbeLeaves
  <2> QED
    BY <1>2, <2>1, <2>2, <2>3
<1>5. CASE CallWake
  <2>1. PICK accepted \in BOOLEAN, ac \in BOOLEAN : Becomes(Wake(s, accepted, ac), wire)
    BY <1>5 DEF CallWake
  <2>2. Handler
    BY <1>5 DEF CallWake
  <2> DEFINE t == [s EXCEPT !.inputLeft = InputTime]
             u == ReconnectSoon(SetMode(t, "hold", accepted, ac))
  <2>3. t \in Session
    BY <1>1, SetInput, Fresh
  <2>4. SameLink(t, s) /\ SameControl(t, s)
    BY <1>1 DEF SameLink, SameControl, Session
  <2>5. Becomes(u, wire)
    BY <2>1 DEF Wake
  <2> HIDE DEF t
  <2>6. Sound(t) /\ Tidy(t) /\ Follows(t, s)
    BY <1>1, <2>4, SoundSame, SameTidy, SameFollows
  <2>7. Follows(u, t)
    BY <2>3, <2>6, ConnectSoonLeaves
  <2> HIDE DEF u
  <2> QED
    BY <1>2, <2>2, <2>5, <2>6, <2>7, FollowsChain
<1>6. CASE CallSubmit
  BY <1>6, StillKeeps DEF CallSubmit
<1>7. CASE CallHold
  <2>1. Handler
    BY <1>7 DEF CallHold
  <2>2. CASE s.hold /\ Becomes([s EXCEPT !.hold = FALSE], wire)
    <3> DEFINE u == [s EXCEPT !.hold = FALSE]
    <3>1. SameLink(u, s)
      BY <1>1 DEF SameLink, Session
    <3> HIDE DEF u
    <3>2. Follows(u, s)
      BY <1>1, <3>1, SameFollows
    <3> QED
      BY <1>2, <2>1, <2>2, <3>2 DEF u
  <2>3. CASE \E accepted, ac \in BOOLEAN :
          Becomes(ReconnectSoon(SetMode([s EXCEPT !.hold = TRUE], "hold", accepted, ac)), wire)
    <3>1. PICK accepted \in BOOLEAN, ac \in BOOLEAN :
            Becomes(ReconnectSoon(SetMode([s EXCEPT !.hold = TRUE], "hold", accepted, ac)), wire)
      BY <2>3
    <3> DEFINE t == [s EXCEPT !.hold = TRUE]
               u == ReconnectSoon(SetMode(t, "hold", accepted, ac))
    <3>2. t \in Session
      BY <1>1, SetFlag, TRUE \in BOOLEAN
    <3>3. /\ SameLink(t, s) /\ t.active = s.active /\ t.pending = s.pending
          /\ t.reconnectIn = s.reconnectIn /\ t.sinceDown = s.sinceDown
          /\ t.probe = s.probe /\ t.rest = s.rest
      BY <1>1 DEF SameLink, Session
    <3>4. Becomes(u, wire)
      BY <3>1
    <3> HIDE DEF t
    <3>5. Sound(t) /\ Tidy(t) /\ Follows(t, s)
      <4>1. Sound(t)
        BY <1>1, <3>3 DEF Sound, SameLink
      <4> QED
        BY <1>1, <3>3, <4>1, SameTidy, SameFollows
    <3>6. Follows(u, t)
      BY <3>2, <3>5, ConnectSoonLeaves
    <3> HIDE DEF u
    <3> QED
      BY <1>2, <2>1, <3>4, <3>5, <3>6, FollowsChain
  <2> QED
    BY <1>7, <2>2, <2>3 DEF CallHold
<1>8. CASE CallViewer
  <2> DEFINE u == Viewer(s)
  <2>1. SameLink(u, s)
    BY <1>1, ViewerLeaves
  <2>2. Handler /\ Becomes(u, wire)
    BY <1>8 DEF CallViewer
  <2> HIDE DEF u
  <2>3. Follows(u, s)
    BY <1>1, <2>1, SameFollows
  <2> QED
    BY <1>2, <2>2, <2>3
<1>9. CASE CallInput
  <2> DEFINE t == [s EXCEPT !.inputLeft = InputTime]
             u == Viewer(t)
  <2>1. t \in Session
    BY <1>1, SetInput, Fresh
  <2>2. SameLink(t, s)
    BY <1>1 DEF SameLink, Session
  <2>3. Handler /\ Becomes(u, wire)
    BY <1>9 DEF CallInput
  <2> HIDE DEF t
  <2>4. SameLink(u, t)
    BY <2>1, ViewerLeaves
  <2> HIDE DEF u
  <2>5. Follows(u, s)
    BY <1>1, <2>2, <2>4, SameLinkChain, SameFollows
  <2> QED
    BY <1>2, <2>3, <2>5
<1>10. CASE CallSetRestPoll
  <2>1. PICK p \in RestPolls : Becomes([s EXCEPT !.restPoll = p, !.restIn = p], wire)
    BY <1>10 DEF CallSetRestPoll
  <2>2. Handler
    BY <1>10 DEF CallSetRestPoll
  <2> DEFINE u == [s EXCEPT !.restPoll = p, !.restIn = p]
  <2>3. SameLink(u, s)
    BY <1>1 DEF SameLink, Session
  <2> HIDE DEF u
  <2>4. Follows(u, s)
    BY <1>1, <2>3, SameFollows
  <2> QED
    BY <1>2, <2>1, <2>2, <2>4 DEF u
<1> QED
  BY <1>3, <1>4, <1>5, <1>6, <1>7, <1>8, <1>9, <1>10 DEF Call

\* cali_session_stop() leaves no link and no read.
LEMMA StopLeaves ==
    ASSUME bonded \in Units \cup {NoUnit}, NEW t \in Session, NEW u, u = Stop(t)
    PROVE  u \in Session /\ u.link = "down" /\ Clean(u)
<1> DEFINE a == RestOff(t)
           b == DropProbe(a)
           c == [b EXCEPT !.redial = FALSE, !.active = FALSE, !.pending = FALSE,
                          !.backoff = BackoffMin]
           d == LinkClear(c)
<1>1. a \in Session
  BY RestOffResult
<1> HIDE DEF a
<1>2. b \in Session
  BY <1>1, DropProbeResult
<1> HIDE DEF b
<1>3. c \in Session
  BY <1>2, SetStopped, Fresh
<1> HIDE DEF c
<1>4. d \in Session /\ d.link = "down" /\ Clean(d)
  BY <1>3, LinkClearResult, ClearLeaves
<1>5. u = UnitCheck(d)
  BY DEF Stop, a, b, c
<1> HIDE DEF d
<1>6. u \in Session /\ SameLink(u, d)
  BY <1>4, <1>5, UnitCheckResult, PlansOnly
<1> QED
  BY <1>4, <1>6, SameTidy

\* cali_session_boot() on a session without a link.
LEMMA BootLeaves ==
    ASSUME NEW t \in Session, t.link = "down", Clean(t),
           NEW accepted, NEW ac, NEW u, u = Boot(t, accepted, ac)
    PROVE  u.link # "up" /\ Clean(u)
<1> DEFINE a == [t EXCEPT !.active = TRUE]
           n == ConnectNow(a, accepted, ac)
<1>1. u \in {t, a, n}
  BY DEF Boot
<1>2. a \in Session
  BY SetFlag, TRUE \in BOOLEAN
<1>3. SameLink(a, t)
  BY DEF SameLink, Session
<1> HIDE DEF a
<1>4. a.link = "down" /\ Clean(a)
  BY <1>3, SameTidy
<1>5. n.link # "up" /\ Clean(n)
  BY <1>2, <1>4, ConnectLeaves
<1> HIDE DEF n
<1> QED
  BY <1>1, <1>4, <1>5

\* What the pairing runner does to the session keeps the link in order.
LEMMA RunnerKeeps ==
    ASSUME ~Resyncs, SessionInv, LinkState, Runner
    PROVE  LinkState'
<1>1. s \in Session /\ World /\ Sound(s) /\ Tidy(s) /\ bonded \in Units \cup {NoUnit}
  BY InvForm, StateTidy DEF World
<1> DEFINE stopped == Stop(s)
<1>2. stopped \in Session /\ stopped.link = "down" /\ Clean(stopped)
  BY <1>1, StopLeaves
<1> HIDE DEF stopped
<1>3. CASE OnSync
  <2>1. PICK accepted \in BOOLEAN, ac \in BOOLEAN : Becomes(Boot(s, accepted, ac), wire)
    BY <1>3 DEF OnSync
  <2>2. s.link = "down" /\ Clean(s)
    BY <1>1, <1>3 DEF OnSync, Sound, Tidy
  <2> DEFINE u == Boot(s, accepted, ac)
  <2>3. u.link # "up" /\ Clean(u)
    BY <1>1, <2>2, BootLeaves
  <2> HIDE DEF u
  <2> QED
    BY <2>1, <2>3, GoneKeeps DEF u
<1>4. CASE FlowStart
  <2>1. Becomes(stopped, <<>>)
    BY <1>4 DEF FlowStart, stopped
  <2> QED
    BY <1>2, <2>1, GoneKeeps
<1>5. CASE FlowEnd
  <2>1. PICK accepted \in BOOLEAN, ac \in BOOLEAN : Becomes(Boot(stopped, accepted, ac), <<>>)
    BY <1>5 DEF FlowEnd, stopped
  <2> DEFINE u == Boot(stopped, accepted, ac)
  <2>2. u.link # "up" /\ Clean(u)
    BY <1>2, BootLeaves
  <2> HIDE DEF u
  <2> QED
    BY <2>1, <2>2, GoneKeeps DEF u
<1>6. CASE FlowBond
  BY <1>6, StillKeeps DEF FlowBond
<1>7. CASE OnBonded
  <2>1. PICK discovers \in BOOLEAN, accepted \in BOOLEAN, ac \in BOOLEAN :
          LET a == RestOff(SetMode(s, "hold", accepted, ac))
          IN  Becomes(LinkUp([a EXCEPT !.active = TRUE], discovers, ac), <<"discover">>)
    BY <1>7, Zenon DEF OnBonded
  <2>2. ~ticking /\ ~ticking'
    BY <1>7 DEF OnBonded
  <2> DEFINE m == SetMode(s, "hold", accepted, ac)
             a == RestOff(m)
             b == [a EXCEPT !.active = TRUE]
             u == LinkUp(b, discovers, ac)
  <2>3. m \in Session
    BY <1>1, SetModeResult
  <2> HIDE DEF m
  <2>4. a \in Session
    BY <2>3, RestOffResult
  <2> HIDE DEF a
  <2>5. b \in Session
    BY <2>4, SetFlag, TRUE \in BOOLEAN
  <2>6. Becomes(u, <<"discover">>)
    BY <2>1, Zenon DEF m, a
  <2> HIDE DEF b
  <2>7. Clean(u) /\ (u.link = "up" => u.hbAge = 0)
    BY <1>1, <2>5, UpLeaves
  <2> HIDE DEF u
  <2>8. Asked(u, <<"discover">>)
    BY <2>7 DEF Asked
  <2>9. CASE u.link = "up"
    BY <1>1, <2>2, <2>6, <2>7, <2>8, <2>9, UpKeeps
  <2>10. CASE u.link # "up"
    BY <2>6, <2>7, <2>10, GoneKeeps
  <2> QED
    BY <2>9, <2>10
<1>8. CASE Forget
  <2> DEFINE u == [stopped EXCEPT !.unit = NoUnit, !.frame = NoFrames, !.live = {}]
  <2>1. Becomes(u, <<>>)
    BY <1>8 DEF Forget, stopped
  <2>2. u.link # "up" /\ Clean(u)
    BY <1>2 DEF Clean, Waits, Session
  <2> HIDE DEF u
  <2> QED
    BY <2>1, <2>2, GoneKeeps
<1>9. CASE BondLost
  BY <1>9, StillKeeps DEF BondLost
<1> QED
  BY <1>3, <1>4, <1>5, <1>6, <1>7, <1>8, <1>9 DEF Runner

-----------------------------------------------------------------------------
(* The theorem.                                                            *)

\* What is sent and what is waited for say that one request is out, for the one
\* that waits, and that a session that takes commands is armed.
LEMMA StateInOrder ==
    ASSUME SessionInv, LinkState
    PROVE  LinkInOrder
<1>1. s \in Session /\ World
  BY InvForm
<1>2. OneRequestOut
  <2>1. CASE s.link = "up"
    <3>1. Asked(s, wire)
      BY <2>1 DEF LinkState
    <3>2. Len(wire) <= 1
      <4>1. wire = <<>> \/ \E x : wire = <<x>>
        BY <3>1 DEF Asked
      <4>2. CASE wire = <<>>
        BY <4>2
      <4>3. CASE \E x : wire = <<x>>
        <5>1. PICK x : wire = <<x>>
          BY <4>3
        <5> QED
          BY <5>1
      <4> QED
        BY <4>1, <4>2, <4>3
    <3> QED
      BY <3>1, <3>2 DEF OneRequestOut, Asked, Clean, Waits
  <2>2. CASE s.link # "up"
    BY <2>2 DEF LinkState, OneRequestOut, Clean, Waits
  <2> QED
    BY <2>1, <2>2
<1>3. ArmedWhenReady
  <2> SUFFICES ASSUME Ready(s), ~ticking PROVE beats >= ArmDelay
    BY DEF ArmedWhenReady
  <2>1. s.hbAge \in 0..ArmDelay /\ beats \in 0..ArmDelay
    BY <1>1 DEF Session, World
  <2>2. s.hbAge >= ArmDelay /\ beats >= s.hbAge
    BY DEF Ready, LinkState, ArmKept
  <2> QED
    BY <2>1, <2>2, Bounds
<1> QED
  BY <1>2, <1>3 DEF LinkInOrder

\* One request is out at a time, for the one part of the session that waits for it,
\* and a session takes commands only after the heartbeats of the whole arm delay:
\* whatever answers, link losses, mode switches and probes come in between, and for
\* every read order and every arm delay.
THEOREM SessionLinkInOrder == ASSUME ~Resyncs PROVE Spec => []LinkInOrder
<1>1. Init => LinkState
  <2> SUFFICES ASSUME Init PROVE LinkState
    OBVIOUS
  <2>1. wire = <<>> /\ s.link = "down"
    BY DEF Init
  <2>2. Clean(s)
    BY DEF Init, Clean, Waits, NoPass
  <2> QED
    BY <2>1, <2>2 DEF LinkState, ArmKept
<1>2. SessionInv /\ LinkState /\ [Next]_vars => LinkState'
  <2> SUFFICES ASSUME SessionInv, LinkState, [Next]_vars PROVE LinkState'
    OBVIOUS
  <2>1. CASE Event
    BY <2>1, EventKeeps
  <2>2. CASE Clock
    BY <2>2, ClockKeeps
  <2>3. CASE Tick
    BY <2>3, TickKeeps
  <2>4. CASE Call
    BY <2>4, CallKeeps
  <2>5. CASE Runner
    BY <2>5, RunnerKeeps
  <2>6. CASE UNCHANGED vars
    BY <2>6, StillKeeps DEF vars
  <2> QED
    BY <2>1, <2>2, <2>3, <2>4, <2>5, <2>6 DEF Next
<1>3. SessionInv /\ LinkState => LinkInOrder
  BY StateInOrder
<1> QED
  BY <1>1, <1>2, <1>3, SessionSafe, PTL DEF Spec

=============================================================================
