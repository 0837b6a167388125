-------------------------------- MODULE Lora --------------------------------
(***************************************************************************)
(* LoRaWAN telemetry (lora.c, lora_esp.c): the LoRa task drives a radio    *)
(* module by AT commands, joins, sends the energy picture at the pace the  *)
(* airtime budget allows, then what changed, then the daily packet, from   *)
(* the snapshot the owner task hands over.  The module may answer, refuse, *)
(* say nothing although it obeyed, report a transmission late, or hang     *)
(* until it is reset; the satellite may reboot.                            *)
(*                                                                         *)
(* Airtime is counted in units: a packet costs what the spreading factor   *)
(* of the moment makes it, whatever its port.  One function of the unit is *)
(* tracked, its frame a value; time is counted in ticks, a rolling day is  *)
(* a few of them.                                                          *)
(***************************************************************************)
EXTENDS Naturals, Sequences, SequencesExt

CONSTANTS
    Frames,        \* values of the tracked frame
    Costs,         \* airtime of a packet, by spreading factor
    Budget,        \* CALI_LORA_UPLINK_MS
    Share,         \* what of it the energy packets may use
    Day,           \* CALI_LORA_DAY_S
    Base,          \* CALI_LORA_BASE_S
    RingSize,      \* CALI_LORA_UP_RING
    Downlinks,     \* CALI_LORA_DOWNLINKS
    SilentMax,     \* CALI_LORA_SILENT_MAX
    MaxHangs,      \* bound: times the module hangs or lapses, and reboots
    MaxChanges     \* bound: changes of the frame and the switch, faults

VARIABLES
    frame,         \* the session's frame
    switch,        \* exp_lora, and with the post of every tick s_on
    snapQ, snap,   \* the posted snapshot, not yet taken; the task's copy
    pc,            \* where the task is
    ready, silent, joined,       \* ready, s_silent, s_st.joined
    sf,            \* s_st.sf, as the cost of a packet
    ring,          \* the charged uplinks: age and cost
    downs,         \* ages of the downlinks
    nextEnergy,    \* ticks until next_energy
    dailyDue,
    last, unsent, \* the tracker of the function
    sent,          \* a send is out: what it carries, and the status it got
    alive, modJoined, modSf,     \* the module: it answers; it is joined; its rate
    txDone,        \* events of the module waiting: +EVT:TX_DONE, +EVT:JOINED
    evJoined,
    owed,          \* and the module has yet to report a packet it sent
    air,           \* history: the packets on air in the rolling day, with
                   \* what of their airtime nothing is charged for (free)
    onAir,         \* history: the frame the send that is out brought on air
    stray,         \* history: an earlier send may be taken as its TX_DONE
    hangs, changes

told == <<frame, switch, snapQ>>
worker == <<snap, pc, ready, silent, joined, sf, ring, downs, nextEnergy, dailyDue, last, unsent,
          sent>>
module == <<alive, modJoined, modSf, txDone, evJoined, owed>>
history == <<air, onAir, stray>>
loraVars == <<told, worker, module, history, hangs, changes>>

\* A packet takes some time, one rate is the slowest, the ring has room for
\* a packet.
ASSUME LoraAssumption ==
    /\ Costs \subseteq Nat \ {0} /\ \E c \in Costs : \A d \in Costs : d <= c
    /\ Budget \in Nat /\ RingSize \in Nat \ {0} /\ Day \in Nat \ {0}
    /\ "none" \notin Frames

-----------------------------------------------------------------------------
(* Airtime and budget (lora.c).                                             *)

Nothing == "none"
Older(s) == [i \in DOMAIN s |-> [s[i] EXCEPT !.age = @ + 1]]

\* up_expire(), dl_expire(): what a day has passed over goes, from the head on.
Expired(s) == {k \in 0..Len(s) : \A j \in 1..k : s[j].age >= Day}
Young(s) == SubSeq(s, Max(Expired(s)) + 1, Len(s))

Airtime(s) ==
    LET sum[i \in 0..Len(s)] == IF i = 0 THEN 0 ELSE sum[i - 1] + s[i].cost
    IN  sum[Len(s)]
Packet(c) == [age |-> 0, cost |-> c, free |-> 0]

\* A slip: the airtime counts, a full ring does not.
RejectedRoom == IF Airtime(ring) >= Budget THEN 0 ELSE Budget - Airtime(ring)

\* cali_lora_uplink_room_ms(): a full ring has no room.
Room == IF Len(ring) = RingSize \/ Airtime(ring) >= Budget THEN 0 ELSE Budget - Airtime(ring)

\* cali_lora_uplink_add().
Charged(c) == Append(IF Len(ring) = RingSize THEN Tail(ring) ELSE ring, Packet(c))

\* cali_lora_downlink_take().
Downlinked == IF Len(downs) >= Downlinks THEN downs ELSE Append(downs, Packet(0))

\* cali_lora_next_interval_s(): the pace of the energy packets, and never
\* before enough old uplinks have aged out.
PerDay == IF Share \div sf = 0 THEN 1 ELSE Share \div sf
Pace == Max({Base, (Day + PerDay - 1) \div PerDay})
AgesOut(r) ==
    LET over == {k \in 0..Len(r) : k = Len(r) \/ Airtime(SubSeq(r, k + 1, Len(r))) + sf <= Budget}
        k == CHOOSE j \in over : \A i \in over : j <= i
    IN  IF k = 0 THEN 0 ELSE Day - r[k].age
NextInterval(r) == Max({AgesOut(r), Pace})

-----------------------------------------------------------------------------

\* s_st.sf of a task that has not heard the module's rate yet: SF12.
Slowest == CHOOSE c \in Costs : \A d \in Costs : d <= c

LoraInit ==
    /\ frame = CHOOSE f \in Frames : TRUE
    /\ switch \in BOOLEAN                       \* the stored setting
    /\ snapQ = <<>> /\ snap = [on |-> FALSE, frame |-> Nothing]
    /\ pc = "top"
    /\ ready = FALSE /\ silent = 0 /\ joined = FALSE
    /\ modSf \in Costs /\ sf = Slowest
    /\ ring = <<>> /\ downs = <<>> /\ nextEnergy = 0 /\ dailyDue = TRUE
    /\ last = Nothing /\ unsent = FALSE
    /\ sent = Nothing
    /\ alive = TRUE /\ modJoined = FALSE /\ txDone = FALSE /\ evJoined = FALSE /\ owed = FALSE
    /\ air = <<>> /\ onAir = Nothing /\ stray = FALSE
    /\ hangs = 0 /\ changes = 0

\* The owner task: cali_exp_lora_set(), a new frame of the unit, and
\* cali_lora_tick(), whose snapshot replaces an older one in the queue.
Switch ==
    /\ changes < MaxChanges
    /\ switch' = ~switch
    /\ changes' = changes + 1
    /\ UNCHANGED <<frame, snapQ, worker, module, history, hangs>>

NewFrame ==
    /\ changes < MaxChanges
    /\ frame' \in Frames \ {frame}
    /\ changes' = changes + 1
    /\ UNCHANGED <<switch, snapQ, worker, module, history, hangs>>

Post ==
    /\ snapQ' = <<[on |-> switch, frame |-> frame]>>
    /\ snapQ' # snapQ
    /\ UNCHANGED <<frame, switch, worker, module, history, hangs, changes>>

\* s_on: the switch of the newest snapshot posted.
SOn == IF snapQ = <<>> THEN snap.on ELSE snapQ[1].on

\* Time passes: uplinks age out, the energy packet comes due.
Passes ==
    /\ ring' = Young(Older(ring))
    /\ downs' = Young(Older(downs))
    /\ air' = Young(Older(air))
    /\ nextEnergy' = IF nextEnergy > 0 THEN nextEnergy - 1 ELSE 0
    /\ <<ring', downs', air', nextEnergy'>> # <<ring, downs, air, nextEnergy>>
    /\ UNCHANGED <<told, snap, pc, ready, silent, joined, sf, dailyDue, last, unsent, sent,
                   module, onAir, stray, hangs, changes>>

\* The satellite reboots: the budget, the tracker and the task are RAM, and
\* nothing is charged any more for what went on air before.
Reboot ==
    /\ hangs < MaxHangs
    /\ hangs' = hangs + 1
    /\ snapQ' = <<>> /\ snap' = [on |-> FALSE, frame |-> Nothing]
    /\ pc' = "top"
    /\ ready' = FALSE /\ silent' = 0 /\ joined' = FALSE /\ sf' = Slowest
    /\ ring' = <<>> /\ downs' = <<>> /\ nextEnergy' = 0 /\ dailyDue' = TRUE
    /\ last' = Nothing /\ unsent' = FALSE /\ sent' = Nothing
    /\ txDone' = FALSE /\ evJoined' = FALSE /\ owed' = FALSE
    /\ air' = [i \in DOMAIN air |-> [air[i] EXCEPT !.free = air[i].cost]]
    /\ onAir' = Nothing /\ stray' = FALSE
    /\ UNCHANGED <<frame, switch, alive, modJoined, modSf, changes>>

-----------------------------------------------------------------------------
(* The module (external), and one AT command.                               *)

Hang ==
    /\ alive /\ hangs < MaxHangs
    /\ alive' = FALSE
    /\ hangs' = hangs + 1
    /\ UNCHANGED <<told, worker, modJoined, modSf, txDone, evJoined, owed, history, changes>>

\* The module restarts by itself, or its session lapses: it is not joined.
Lapse ==
    /\ modJoined /\ hangs < MaxHangs
    /\ modJoined' = FALSE
    /\ hangs' = hangs + 1
    /\ UNCHANGED <<told, worker, alive, modSf, txDone, evJoined, owed, history, changes>>

\* A +EVT:TX_DONE that comes after the wait and the receive windows of its
\* send: whoever reads the events next finds it.
LateDone ==
    /\ owed /\ alive
    /\ owed' = FALSE /\ txDone' = TRUE
    /\ UNCHANGED <<told, worker, alive, modJoined, modSf, evJoined, history, hangs, changes>>

\* An answer of a module that obeyed gets lost, or the network says no.
Faulty(b) == changes' = (IF b THEN changes + 1 ELSE changes) /\ (b => changes < MaxChanges)

\* One more command without an answer.
Quieter(n) == IF n < SilentMax THEN n + 1 ELSE n

\* read_sf(): a rate, an answer that is none, or one more silent command;
\* without a rate the one of before stays.
Answers == IF alive THEN {"rate", "none", "lost"} ELSE {"lost"}
QuietAfter(n, a) == IF a = "lost" THEN Quieter(n) ELSE 0
SfNow(a) == IF a = "rate" THEN modSf ELSE sf

\* A packet on air, for which this much airtime is charged.
OnAir(charge) ==
    LET rest == IF modSf > charge THEN modSf - charge ELSE 0
    IN  air' = Append(air, [Packet(modSf) EXCEPT !.free = rest])

-----------------------------------------------------------------------------
(* The LoRa task.                                                           *)

\* The top of the loop: the newest snapshot, or the last one again; with the
\* switch off that is the whole pass.
Receive ==
    /\ pc = "top"
    /\ snap' = IF snapQ = <<>> THEN snap ELSE snapQ[1]
    /\ snapQ' = <<>>
    /\ pc' = IF snap'.on THEN "pass" ELSE "top"
    /\ UNCHANGED <<frame, switch, ready, silent, joined, sf, ring, downs, nextEnergy, dailyDue, last,
                   unsent, sent, module, history, hangs, changes>>

\* A slip: a module that stopped answering is not reset.
RejectedNeedsReset == ~ready
NeedsReset == ~ready \/ silent >= SilentMax

\* rak_reset() and module_setup(): the module starts anew, if it is there,
\* and the events of before are dropped.
Setup(there) ==
    /\ pc = "pass" /\ NeedsReset
    /\ pc' = IF there THEN "join" ELSE "top"
    /\ ready' = there
    /\ alive' = there
    /\ silent' = IF there THEN 0 ELSE SilentMax
    /\ joined' = FALSE
    /\ modJoined' = FALSE /\ txDone' = FALSE /\ evJoined' = FALSE /\ owed' = FALSE
    /\ there \/ (hangs < MaxHangs)
    /\ hangs' = IF there THEN hangs ELSE hangs + 1
    /\ modSf' \in IF there THEN Costs ELSE {modSf}           \* the rate it starts with
    /\ UNCHANGED <<told, snap, sf, ring, downs, nextEnergy, dailyDue, last, unsent, sent,
                   history, changes>>

ToJoin ==
    /\ pc = "pass" /\ ~NeedsReset /\ ~joined
    /\ pc' = "join"
    /\ UNCHANGED <<told, snap, ready, silent, joined, sf, ring, downs, nextEnergy, dailyDue, last,
                   unsent, sent, module, history, hangs, changes>>

\* Back from join(): the daily packet is due.
JoinLeft == pc' = "top" /\ dailyDue' = TRUE

\* The head of join()'s loop.
JoinTries == ~joined /\ SOn /\ silent < SilentMax
JoinEnds ==
    /\ pc = "join" /\ ~JoinTries
    /\ JoinLeft
    /\ UNCHANGED <<told, snap, ready, silent, joined, sf, ring, downs, nextEnergy, last, unsent, sent,
                   module, history, hangs, changes>>

\* A try without a verdict to wait for: the module gets its reset, or the
\* join its backoff.
NoRequest == IF silent' >= SilentMax THEN JoinLeft ELSE pc' = "backoff" /\ UNCHANGED dailyDue

\* A hung module is silent for all the keys.
JoinUnheard ==
    /\ pc = "join" /\ JoinTries /\ ~alive
    /\ silent' = SilentMax
    /\ NoRequest
    /\ UNCHANGED <<told, snap, ready, joined, sf, ring, downs, nextEnergy, last, unsent, sent, module,
                   history, hangs, changes>>

\* The keys, the rate and AT+JOIN, if the budget allows.  The request may
\* stay without an event, the module may refuse it, and a request whose OK
\* is lost is on air, charged by nobody.
Join(answer, to) ==
    /\ pc = "join" /\ JoinTries /\ alive
    /\ (to = "noRoom") <=> (Room < SfNow(answer))
    /\ sf' = SfNow(answer)
    /\ silent' = IF to \in {"noRoom", "lost"}
                 THEN QuietAfter(QuietAfter(0, answer), IF to = "lost" THEN "lost" ELSE answer)
                 ELSE 0
    /\ Faulty(answer # "rate" \/ to \in {"denied", "refused", "lost"})
    /\ evJoined' = (evJoined \/ to \in {"accepted", "lost"})
    /\ modJoined' = (modJoined \/ to \in {"accepted", "lost"})
    /\ IF to \in {"accepted", "denied"}
       THEN ring' = Charged(sf') /\ OnAir(sf')
       ELSE UNCHANGED ring /\ IF to = "lost" THEN OnAir(0) ELSE UNCHANGED air
    /\ IF to \in {"accepted", "denied"} THEN pc' = "joinWait" /\ UNCHANGED dailyDue ELSE NoRequest
    /\ UNCHANGED <<told, snap, ready, joined, downs, nextEnergy, last, unsent, sent, alive,
                   modSf, txDone, owed, onAir, stray, hangs>>

\* +EVT:JOINED, +EVT:JOIN_FAILED, no event in time, or the switch is off;
\* the events before it are taken too.
JoinVerdict ==
    /\ pc = "joinWait"
    /\ joined' = (joined \/ evJoined) /\ evJoined' = FALSE
    /\ txDone' \in {FALSE, txDone}
    /\ downs' = IF joined' THEN Downlinked ELSE downs      \* the join-accept
    /\ IF joined' \/ silent >= SilentMax THEN JoinLeft ELSE pc' = "backoff" /\ UNCHANGED dailyDue
    /\ UNCHANGED <<told, snap, ready, silent, sf, ring, nextEnergy, last, unsent, sent, alive,
                   modJoined, modSf, owed, history, hangs, changes>>

\* cali_lora_join_backoff_s(), taking each new snapshot.
Backoff ==
    /\ pc = "backoff"
    /\ pc' = "join"
    /\ snap' = IF snapQ = <<>> THEN snap ELSE snapQ[1]
    /\ snapQ' = <<>>
    /\ UNCHANGED <<frame, switch, ready, silent, joined, sf, ring, downs, nextEnergy, dailyDue, last,
                   unsent, sent, module, history, hangs, changes>>

\* The end of a pass: the events are taken.
TakeEvents ==
    /\ pc' = "top"
    /\ txDone' = FALSE /\ evJoined' = FALSE
    /\ joined' = (joined \/ evJoined)

\* The energy packet is due, or nothing is.
PassBegins ==
    /\ pc = "pass" /\ ~NeedsReset /\ joined
    /\ IF nextEnergy = 0 THEN pc' = "energy" /\ UNCHANGED <<txDone, evJoined, joined>> ELSE TakeEvents
    /\ UNCHANGED <<told, snap, ready, silent, sf, ring, downs, nextEnergy, dailyDue, last,
                   unsent, sent, alive, modJoined, modSf, owed, history, hangs, changes>>

Ports == {"energy", "changed", "daily"}

\* cali_lora_tracker_update() and cali_lora_pack_changed().
Changed == unsent \/ snap.frame # last

\* Is there anything to send at this port?
Due(p) == CASE p = "energy" -> TRUE [] p = "changed" -> Changed [] p = "daily" -> dailyDue
After(p) == CASE p = "energy" -> "changed" [] p = "changed" -> "daily" [] p = "daily" -> "paced"

Packed(p) == unsent' = IF p = "changed" THEN Changed ELSE unsent

\* Room for a packet at the rate of now, and downlinks left for its windows.
Fits(answer) == Room >= SfNow(answer) /\ Len(downs) < Downlinks

\* send() gives up: nothing to send or the switch is off, no room, or the
\* module refuses, for it is not joined or busy.  A late refusal of AT+DR=?
\* is taken for one of AT+SEND, which is on air all the same.
NoSend(p, answer) ==
    /\ pc = p
    /\ \/ /\ ~Due(p) \/ ~SOn
          /\ answer = "lost"
          /\ UNCHANGED <<silent, sf, joined, owed, air, changes>>
       \/ /\ Due(p) /\ SOn /\ ~Fits(answer)
          /\ silent' = QuietAfter(silent, answer) /\ sf' = SfNow(answer)
          /\ Faulty(alive /\ answer # "rate")
          /\ UNCHANGED <<joined, owed, air>>
       \/ /\ Due(p) /\ SOn /\ Fits(answer) /\ alive
          /\ silent' = 0 /\ sf' = SfNow(answer)
          /\ \/ ~modJoined /\ joined' = FALSE /\ Faulty(answer # "rate") /\ UNCHANGED <<owed, air>>
             \/ modJoined /\ Faulty(TRUE) /\ UNCHANGED <<joined, owed, air>>
             \/ modJoined /\ answer = "lost" /\ Faulty(TRUE) /\ owed' = TRUE /\ OnAir(0) /\ UNCHANGED joined
    /\ Packed(p)
    /\ pc' = After(p)
    /\ UNCHANGED <<told, snap, ready, ring, downs, nextEnergy, dailyDue, last, sent, alive, modJoined,
                   modSf, txDone, evJoined, onAir, stray, hangs>>

\* AT+SEND goes out: on air if the module is there, whether or not its OK
\* gets through, and its TX_DONE comes soon, late or never.  The events of
\* before are still in the queue: with one of another send among them, the
\* wait is over before its own.
Send(p, answer, ok, done) ==
    /\ pc = p /\ Due(p) /\ SOn /\ Fits(answer)
    /\ alive => modJoined
    /\ ~alive => ~ok /\ done = "never"
    /\ Faulty(alive /\ \/ answer # "rate" \/ ~ok \/ done = "never"
                       \/ done = "late" /\ ~txDone)
    /\ silent' = IF ok THEN 0 ELSE Quieter(QuietAfter(silent, answer))
    /\ sf' = SfNow(answer)
    /\ Packed(p)
    /\ txDone' = (txDone \/ done = "soon")
    /\ owed' = (owed \/ done = "late")
    /\ IF alive THEN OnAir(sf') ELSE UNCHANGED air
    /\ onAir' = IF alive /\ p = "changed" THEN snap.frame ELSE Nothing
    /\ stray' = (txDone \/ owed)
    /\ sent' = p
    /\ pc' = "txWait"
    /\ UNCHANGED <<told, snap, ready, joined, ring, downs, nextEnergy, dailyDue, last, alive,
                   modJoined, modSf, evJoined, hangs>>

\* A slip: what was sent counts as delivered, confirmed or not.
RejectedCommits(p) == sent = p

\* Only a confirmed send is marked as sent.
Commits(p) == sent = p /\ txDone

\* TX_DONE or its timeout: the send is charged either way, and the events
\* of its receive windows are taken.
\* A downlink in its receive windows costs one of the day's, and may bring
\* an ADR command.
Sent(down) ==
    /\ pc = "txWait"
    /\ Faulty(down # {})
    /\ IF down = {} THEN UNCHANGED <<downs, modSf>>
       ELSE downs' = Downlinked /\ modSf' \in down
    /\ ring' = Charged(sf)
    /\ last' = IF Commits("changed") THEN snap.frame ELSE last
    /\ unsent' = (unsent /\ ~Commits("changed"))
    /\ dailyDue' = (dailyDue /\ ~Commits("daily"))
    /\ txDone' = FALSE
    /\ joined' = (joined \/ evJoined) /\ evJoined' = FALSE
    /\ pc' = After(sent)
    /\ sent' = Nothing
    /\ onAir' = Nothing /\ stray' = FALSE
    /\ UNCHANGED <<told, snap, ready, silent, sf, nextEnergy, alive, modJoined, owed, air, hangs>>

Paced ==
    /\ pc = "paced"
    /\ nextEnergy' = NextInterval(ring)
    /\ TakeEvents
    /\ UNCHANGED <<told, snap, ready, silent, sf, ring, downs, dailyDue, last, unsent, sent,
                   alive, modJoined, modSf, owed, history, hangs, changes>>

\* After a day the daily packet is due again, and what was sent long ago.
DailyDue ==
    /\ ~dailyDue /\ pc = "top"
    /\ dailyDue' = TRUE
    /\ UNCHANGED <<told, snap, pc, ready, silent, joined, sf, ring, downs, nextEnergy, last, unsent,
                   sent, module, history, hangs, changes>>

Refresh ==
    /\ ~unsent /\ last # Nothing
    /\ unsent' = TRUE
    /\ UNCHANGED <<told, snap, pc, ready, silent, joined, sf, ring, downs, nextEnergy, dailyDue, last,
                   sent, module, history, hangs, changes>>

JoinStep ==
    \/ ToJoin \/ JoinEnds \/ JoinUnheard \/ JoinVerdict \/ Backoff
    \/ \E answer \in Answers, to \in {"noRoom", "accepted", "denied", "refused", "lost"} : Join(answer, to)
SendStep ==
    \/ \E p \in Ports, answer \in Answers :
          \/ NoSend(p, answer)
          \/ \E ok \in BOOLEAN, done \in {"soon", "late", "never"} : Send(p, answer, ok, done)
    \/ \E down \in {{}} \cup (IF alive THEN {{c} : c \in Costs} ELSE {}) : Sent(down)
TaskStep == Receive \/ Setup(TRUE) \/ JoinStep \/ PassBegins \/ SendStep \/ Paced

\* The switch is on, and nothing changes and nothing fails any more: the
\* module, once reset, answers.
calm == switch /\ hangs = MaxHangs /\ changes = MaxChanges

\* What failed so far may have been the last of it.
Settle ==
    /\ switch
    /\ hangs' = MaxHangs /\ changes' = MaxChanges
    /\ UNCHANGED <<told, worker, module, history>>

LoraNext ==
    \/ TaskStep \/ Setup(FALSE) \/ Switch \/ NewFrame \/ Post \/ Passes \/ Reboot
    \/ Hang \/ Lapse \/ LateDone \/ DailyDue \/ Refresh \/ Settle

LoraSpec == LoraInit /\ [][LoraNext]_loraVars

\* The LoRa task runs, the owner task ticks, and time passes.
LoraFairness ==
    /\ WF_loraVars(calm /\ TaskStep)
    /\ WF_loraVars(calm /\ Post)
    /\ WF_loraVars(calm /\ Passes)
    /\ WF_loraVars(calm /\ Refresh)
LoraFairSpec == LoraSpec /\ LoraFairness

-----------------------------------------------------------------------------

\* What of their airtime nothing is charged for.
Free(s) == [i \in DOMAIN s |-> [s[i] EXCEPT !.cost = s[i].free]]

\* The packets on air in any rolling day stay within the airtime budget but
\* for what nothing is charged for: the rest of a packet sent at a rate that
\* was not heard, a request whose OK was lost or taken for a refusal, and
\* all of before a reboot.  Neither a full ring nor a charge that comes late,
\* no lost TX_DONE and no hung module lets more of it out.
AirtimeKept == Airtime(air) <= Budget + Airtime(Free(air))

\* What the tracker marks as sent, this very send brought on air with that
\* content, unless a TX_DONE of an earlier send was waiting or still to come
\* when it began: such a one is taken for its own.
Marks == unsent /\ ~unsent' /\ last' # Nothing
MarkedWasOnAir == [][Marks => stray \/ onAir = last']_loraVars

\* With the switch left on and no more faults, what the unit says is marked
\* as sent and, at the latest with the refresh, on air: no full budget or
\* ring, no lost answer, no join that failed, no TX_DONE taken for another
\* and no module that hangs while it looks joined holds it up for ever.
NewsGetsOut == [](calm => <>(last = frame /\ onAir = frame))
=============================================================================
