# TLA+ models of the open-california satellite

The firmware under `firmware/` turns an ESP32 into a satellite of a camper's control unit: it keeps
one encrypted BLE link to the unit, reads its functions, sends commands, pairs with it, and serves
a web page, a log and a LoRa uplink from what it knows. `calictl/` is the Python original of the
same logic on a Pi. This directory holds TLA+ models of the parts that are hardest to test on a
desk: the life of the one BLE link and everybody who uses it, the policies that act without their
owner, and whatever must survive a power cut. The models are checked with TLC on small instances,
and the most important invariants are proved with TLAPS for every value of the constants.

## 1. The system

| component | state | operations | works with |
|---|---|---|---|
| NimBLE transport, `ble_nimble.c` | scan, connect, cancel, dropped link, bond probe; GATT queue, table and cache | the table of `cali_transport.h`; `gap_cb`, GATT callbacks, `on_reset` | NimBLE below, the runner's sink above |
| bond store, `ble_store_kv.c` | three tables in RAM, one record per slot in flash | read, write, delete, rewrite, load | NimBLE's security manager |
| pairing runner, `runner.c`, `pairing_sm.c` | state, attempts, error, event queue | start, passkey, forget, cancel, tick, sink | transport; `on_state` of `console.c` |
| session, `session.c` | link, mode, rest, probe, read pass, backoff, cooldown, viewer, hold; the water guard | events, tick, set_mode, probe, wake, hold, viewer, boot, stop | transport, runner, control, thermostat, web |
| command sequencer, `control_run.c` | the running command, its plan, the write in flight | submit, tick, WRITTEN | session (ready, link up), transport (write) |
| command builders, `control.c` | none | frames of a command | sequencer |
| cabin thermostat, `thermostat.c`, `thermostat_run.c` | mode, pending command, batch, requests, hold | tick, request, switch, command results | session (hold, frames), sequencer |
| auto camper, `auto_camper.c`, `auto_camper_run.c` | the debt (persisted), tries, chain of commands | tick, toggle, command results | session (frames), sequencer |
| BLE experiment and idle policy, `ble_exp.c`, `ble_exp_run.c` | phase, window, last activity | tick, start, stop, settings, adverts | session (set_mode, probe) |
| Pi wake and halt, `pi_wake.c` | two pulses, parking timer, settings | tick, by hand, settings | two GPIO lines, session (ignition), energy |
| WiFi, `wifi_sm.c`, `wifi_run.c` | state, credentials, fallback, timers; four keys in flash | setup, join, retry, forget, driver events | platform driver, web API |
| OTA, `ota.c`, `ota_esp.c` | request, state, channel, hash; two slots and their marks | request, channel, worker, mark valid | a task of its own, boot loader |
| SD log, `sdlog.c`, `sdcard_esp.c` | queue, segment, sequence number, page | log, mount, sync, recover, prune, page | a task of its own, web task, `esp_ingest.py` |
| LoRa, `lora.c`, `lora_esp.c` | ring of charged uplinks, tracker, join, rate | the LoRa task; the snapshot | a task of its own, the radio module |
| HTTP core, `http_core.c`, `web.c` | requests, one held answer | routes | all of the above |
| `calictl` daemon (Python), `serve.py`, `session.py`, `device.py` | the lock on the radio, the session, the roof's stop token and streams | poll, commands, pairing starts and cancels, held roof moves | BlueZ, MQTT, the web page |
| `calictl` ingest (Python), `esp_ingest.py` | a cursor | fetch, resolve | the satellite's log |

The BLE core and the policies run on one task (NimBLE's host task): ticks, transport events and calls
from the console and the web page are handled one after another. What is hard there is not
preemption but order and nesting:

* events of the controller come in any order relative to calls: a connect completes after its
  cancel, a callback of an old link arrives on the new one, a link dies before it is reported dead;
* a transport call may report its outcome inside itself, so handlers nest (`feed` in a step,
  `op_finish` in `op_begin`, the sink in `gap_cb`);
* session, pairing flow and sensor windows share one radio, one link and one sink;
* the unit ends links on its own schedule, so reconnects, cooldown, rest, probes and viewers overlap;
* verdicts may be missing, and watchdogs, deadlines and attempts have to make up for them;
* what a policy sees is a frame of some age, pushed one by one; what it does is a command whose effect
  shows later, or never; meanwhile its owner acts by hand.

The OTA, SD log and LoRa tasks run beside it and share a few variables with it, mostly without a lock.
Several parts keep a promise over a reboot with a store that writes one key at a time. The Python daemon is
one asyncio loop: its tasks interleave at every `await`, and what keeps them off each other's radio is one
FIFO lock, which a pairing flow and the release of a roof button deliberately do not take.

What makes each part correct:

* transport: its flags agree with the host, the one connection slot is never lost, a verdict is
  reported once and only of something still wanted, a GATT answer goes to its own operation, handles
  to their own peer, and a working bond survives a failed pairing;
* bond store: bonds stay and deleted bonds stay away, wherever a rewrite is cut off;
* runner: a flow ends, waits only for what can come, takes the radio from the session and gives it
  back, and leaves one bond;
* session: it is never down with nothing planned, never has a link it should not have, keeps the
  cooldown, rests only when nobody waits, takes commands only when armed; the water shown is real;
* sequencer: OK means ACKed, a lost link is answered honestly, one answer per command, frames keep
  their distance, every command ends;
* thermostat: an OFF ends in a stopped heater or a reported reason; a start is not sent twice blindly;
* auto camper: a drive is remembered, an off stays off, tries are bounded, the debt settles;
* experiment and idle policy: a link is let go only when nobody was there, and the schedule goes on;
* Pi: halted only after the parking time, and always then;
* WiFi: credentials that joined are kept, but for a power cut while they are being changed; store and RAM
  agree, the board stays reachable;
* OTA: there is always a good image to boot, one request at a time, what was started ends;
* SD log: a sequence number names one record for ever, the follower skips nothing and catches up;
* LoRa: the day's airtime is kept but for what is not charged, what counts as sent was on air, news gets out;
* daemon: one connection at a time, no poll into a pairing flow, commands end, and a roof that moves is held
  by somebody or gets its STOP.

`PROJECT.json` lists all components with their status, the lines each definition translates, and the
hazards with the properties that cover them.

## 2. The modules

```
LinkContract <--implements-- Transport <--EXTENDS-- Pairing
                             Transport + Gatt + Ota <-- MCNimble

ControlPort <--implements-- ControlRun
                            ControlRun + Wifi + PiWake + BondStore <-- MCOwnerTick

Session <- MCSession     Thermostat + Water <- MCHouse     AutoCamper     BleExp
Daemon <- Roof <- MCDaemon     SdLog     Lora

SessionProofs      Session                    OwnerProofs     ControlRun, ControlPort, PiWake, BondStore, Wifi
RadioProofs        Gatt, BleExp, Roof, Daemon PairingProofs   Pairing, Transport, LinkContract
AutoCamperProofs   AutoCamper                 HouseProofs     Thermostat, Water
TaskProofs         Ota, Lora                  SdLogProofs     SdLog
```

A handler of the code is an action, a function of the code an operator of the same name where the
name fits. Three modules (`MCOwnerTick`, `MCNimble`, `MCHouse`) put parts that share no state into one
run: each behaviour is of one part, named by `part`, while the others stand still. That is a sum, not
a product, of state spaces; it loses nothing, because the parts have no variable in common, and a
property of one part is stated of that part's behaviours only.

`MCDaemon` is one system looked at in three instances, since all of it at once is too large.

Operators named `Rejected...` stand before the definition they vary. They are not part of a
specification: each puts one plausible slip into that definition, and with it the property named for
it in `PROJECT.json` ("mutants") is violated.

### The link

**Session** models `session.c`. The statics are the fields of one record `s`; each C function is an
operator from a session to a session with the same name, composed as the C code composes them, and
each handler is one action. A tick is two steps, `Clock` (time and `cali_ctl_tick`) and `Tick*` (the
rest), with `ticking` keeping every other handler out in between. Stamps are held as the ticks left
to them or since them, saturating at the only threshold the code compares them with. `wire` is the
GATT requests the transport has not answered, `beats` the heartbeats written in a row. `ac` stands
for the auto camper's answers, `accepted` for the return value of `connect_bonded()`. A command is
only `busy`, as ControlPort describes it.

**Water** is the water guard of the session (`store`, `unit_check`, `freshness_settle` of
`csrc/ports.c`) against the unit's own way of measuring: 1 litre while it does not, a climb when it
begins, the real level after it. A tank level may change, reads and pushes fail, links come and go, the
bond changes to another unit, flash writes and erases fail, and the board reboots. Whether a frame was
measured, and of which unit, is history; `gap` marks that frames may have been missed since the last
real one, `strayed` that water of a bond that went stayed in the store.

**ControlRun** models `control_run.c`. A plan is the sequence of its frames' delays. The link may die
without notice, be lost, and be up again before the sequencer's next tick; `WRITTEN` may come late,
inside `write()`, or never. `taken`, `reached`, `gap`, `relinked`, `answer` and `calls` record history
for the properties.

**ControlPort** is what the session sees of the sequencer: busy, and the link; `seen`, whether a tick has found
no link since the last command was accepted, makes such a tick a step of its own, so that a command that
outlives it shows. ControlRun is shown to implement it, so Session may use its view.

**Transport** models the GAP side of `ble_nimble.c`: scans, scan windows, the connect and its cancel,
the dropped link (`s_dying_conn`), the deferred connect and scan, security and the bond probe. `g`
holds the statics and, from the field `master` on, what the code uses of NimBLE: one GAP procedure at
a time, one link. The caller is arbitrary. `resume` marks the rest of `gap_cb` after its nested
`emit(CONNECTED)`, during which the caller may do anything.

**LinkContract** is the link part of `cali_transport.h`, seen by a caller: idle, connecting or up; one
verdict per connect; nothing about a link that was given up. Transport implements it.

**Gatt** models the GATT side of `ble_nimble.c`: the operation queue, the generation `s_gen`, the dying
link and the cached table. A table is the set of peers whose handles it holds, so that a mix-up is
visible. The host ends each procedure once, at any time, on a later link too.

**Pairing** extends Transport, without host resets (`Resets = FALSE`), with `pairing_sm.c`, `runner.c` and the
hand-over in `console.c`. The nesting of the code is kept by small steps in a fixed order: route the event just
reported, run the step's remaining actions, call `on_state`, take the next queued event, resume
`gap_cb`. Only when nothing of that is left may the environment act. The session is reduced to
off, down, connecting and up, with any reconnect and any drop at any time.

**BondStore** models one table of `ble_store_kv.c`. `at` walks through the slots of a rewrite, one
atomic write or clear per step; the power may go, a write may fail and a slot may rot between any two.
`TableLoad` is what the next boot makes of the slots. `before`, `gone` and `sound` are history.

### The policies

**Thermostat** models `cali_thermo_step` rule by rule (`Bookkeep`, `Waiting`, `Request`, `Stopping`,
`Guards`, `Control`, in the code's order) and the runner around it with its batch of commands.
The heater follows a command or ignores it, its run ends, and somebody uses its panel. `ours` says that
the thermostat started what is running. The clocks are nondeterministic: a window may have run out at
any step; the control law may ask for any level.

**AutoCamper** models the decision every 30 s, the debt and the toggle in flash, and the chain of
restore commands. The vehicle starts and parks, the unit sheds camping mode before or after its frames
say so, pushes its two frames in any order, and the owner switches by hand. `saw`, `due`, `offAck`,
`ownerOff` and `tries` are history.

**BleExp** models both schedulers of the connection mode: the experiment and the idle policy, with
viewers, ignition, hold, adverts, commands and modes set from outside. `Leave` marks the point after
which nobody disturbs them, so that the liveness property has a premise without a formula for it.

**PiWake** models `pi_wake.c` with its pulses, the edge detection, the parking timer and the battery
guard, by hand and by itself, over reboots.

### The daemon

**Daemon** models who has the radio of the Pi: the supervisor of the session, the poll loop, commands, and
the start and cancel of a pairing flow, under serve's FIFO lock `_ble`. An action is what a task does between
two awaits. Every delay may end at any step; a pairing flow is running or not (what it does is Pairing's).

**Roof** extends it with the pop-up roof: presses and releases as two requests in any order, the stop token,
the view stream of the open page and a press's own stream, the STOP and the ticks of `SETTLE_S` after it, with
writes that fail. `drive` is the last direction the unit heard on this link.

### The stores and tasks

**Wifi** models `wifi_sm.c` and `wifi_run.c`. A handler's writes to the four keys are steps of
their own (`todo`); only a power cut or a failure comes between them. `proven` is the last credentials
that joined, `stale` the keys a failed write has left behind RAM, `cutShort` that the power went while the
credentials were not settled (`Unsettled`): the store was being changed or behind RAM, or held a replacement
that had not joined.

**SdLog** models the record queue, the SD task with its segments, fsync, recovery, mounting and pruning,
the hand-off of one page between web and SD task, the held HTTP request, and the follower's cursor in
`esp_ingest.py`. Of what was written since the last fsync a power cut keeps any prefix.

**Ota** models the owner's calls and the OTA task step by step, the two slots with the boot loader's
marks, and releases whose manifest and image may be replaced between two fetches. A channel may be
switched at any step of the task.

**Lora** models the LoRa task step by step over a module that answers, refuses, says nothing although it
obeyed, reports a transmission late, or hangs, and over reboots of the satellite; the queue of the module's events;
the ring of charged uplinks and both budgets; the tracker; the owner's snapshot. `air` is history: what really
was on air, at the module's rate, and how much of it nothing in the ring is charged for (`free`). `onAir` is the
frame the send that is out brought on air, `stray` that a TX_DONE of an earlier one was about when it began.

## 3. The runs

| run | instance | shows |
|---|---|---|
| session | hold, quiet, off, holds, probes, rest, pairing flows; two reads per pass; arm delay 2 | `SessionInv`: never stranded, a link only when wanted, plans keep the cooldown, nobody waits in the rest. `LinkInOrder`: one request out and credited to its reader; ready means armed |
| session_live | hold, fairness | `SessionGoesOn`: connects get a verdict, probes end, a link is sought |
| nimble | two units, host resets, terminates that may be refused; two units, three names, queue of 2, four generations; Ota: three builds, two channels | Transport: `RadioKnown`, `ContractSpec`, `WorkingBondKept`, `DeferredEnds`. Gatt: `GattInv`, `NoRequestOnDying`, `OpEnds`. Ota: `OtaInv`, `UpdateEnds` |
| pairing | two units, two attempts, timeout of one tick, queue of 8 | `FlowIsClean`: one owner of the radio, no wait without a cause, one unit's bond. `FlowEnds` |
| owner_tick | see below, four parts | ControlRun: `CtlInv`, `FrameInPlace`, `PortSpec`, `BusyEnds`. Wifi: `WifiInv`, `WifiReached` (`Reachable` while the WiFi is the one being run). PiWake: `HaltIsEarned`, `ParkedHalts` (`ParkedPiHalts` while the Pi is the one being run). BondStore: `BondInv` |
| house | Water: two units, three tanks, one fault, one reboot. Thermostat: two levels, day and night, a battery fault, the panel | `WaterInv`: what is shown was measured and is the unit's own; what was measured twice is shown. `SettledIsStopped`, `OnlyStopsAfterOff`, `OffIsTaken`, `StartRetry` |
| auto_camper | two drives, two tries, one reboot, one lost write, one switch by hand | `CamperInv` (tries bounded, a drive remembered, off means off), `DebtSettles` |
| ble_exp | idle time 3, phases of 1 | `QuietIsEarned`, `ScheduleGoesOn` |
| sdlog | two records, segments and pages of one, a queue of one, one cut, two faults, one browser | `LogInv`: the log is whole, a page is its reader's own; `CatchesUp` |
| lora | two spreading factors, budget 4, share 3, ring 3, a day of 2 | `AirtimeKept`, `MarkedWasOnAir`, `NewsGetsOut` |
| daemon | one command, two pairing starts; two presses, one failed write, one tick of settling | `RoofInv`: one connection, no poll into a flow, releases reach their press, the last word is STOP. `RadioGoesOn`, `MovesEnd` |
| camper_manual_off | one drive, one switch by hand, no faults | violated: section 5 |

### Bounds

Times of one or two ticks separate before, at and after each threshold; stamps saturate, so no larger
instance tells more states apart.

* Session: every time is one tick, so a stamp of viewer or input counts in its own tick only, and the arm
  delay is two, so that it has a middle. A read pass of two characteristics, one of them gated, has a first and
  a last read. `Resyncs = FALSE`: controller resets under a live session are not in the runs (section 5).
* ControlRun: a deadline of 6, a follow-up delay and a pull of 2; plans of one, two and four frames, the
  longest `control.c` builds (preface, commit, frame, commit).
* Transport, Gatt, Pairing: two units are needed for a second bond, another peer's cache and a deferred
  connect to someone else; a third plays no other part, the host having one link. Two attempts have a
  retry and a last failure. Four generations are two links of which the first dies under a request (1: up,
  2: dying, 3: down, 4: up again); three names give a stale procedure, a running and a waiting operation.
* Wifi: two networks (the old and the new credentials) and two power cuts, the second at the boot that
  mends the first. PiWake: pulses 1, 2 and by hand 3, a gap of 3, parking times none, short and longer than the
  guard's. BondStore: three keys for two slots, so that a bond has to make room, two payloads (an old copy
  and a new one), one rotten slot.
* Water: the re-read is longer than the debounce, as in the code. The tanks are empty, at the latch's level,
  and at a level to climb to, with two levels of waste water. The two units differ by name only, so they are a symmetry set.
  A fault is one failed read, write or erase.
* Thermostat has no counters; levels, night and faults are one or two values each.
* AutoCamper: the second drive meets what is left of the first. A reboot, a lost write, a toggle and a
  switch by hand may come at any point of both.
* SdLog: two records in segments of one, so that a prune takes one and leaves one; queue and page of one; one
  cut and two faults, of which one may hit the remount after the other; one request of a browser beside
  the follower's.
* Ota: the stable release moves from `v1` to `v2`, the latest one holds `v2` and a build that does not stay
  healthy; more channels or builds add no new case. Lora: costs of one and two units against a budget of four and a
  telemetry share of three; a ring of three is full before the budget is used up when every packet is cheap, and
  is not when they are not; one hang, lapse or reboot; one fault (an answer lost or refused, a TX_DONE lost or late, a
  downlink) or change of the unit's frame or the switch, at any point. With one fault the run already has a send
  charged at too low a rate, a join nobody charges and a stale TX_DONE under a send that was never on air.
* BleExp: phases of one tick, a probe interval of none or two, and an idle time of three, which a phase and its
  probe together do not cover: with two the idle time is always over when they are.
* Daemon and Roof: two starts, so that a cancel meets an older and a newer one; two presses, the second started over
  the first. With a second command, a second failed write or a longer settle nothing new meets. The part
  "presses" leaves out failed writes, a sleeping unit and a web UI that lapses, which "page" has with one press.

Deadlock is checked in every run.

### Fairness

No run assumes that the unit is reachable, that pairing or a join succeeds or that a link lasts.

| module | assumed | because |
|---|---|---|
| Session | the tick and its handler (weak); requests are answered, a connect tried again and again is accepted once (strong, since links come and go in between) | esp_timer; NimBLE ends each request with its ATT timeout |
| ControlRun | the tick; an ACK or the end of the link; a link that died is reported | NimBLE's ATT timeout and its disconnect event |
| Transport | a link we terminate ends or its terminate is refused; a cancelled connect completes; `gap_cb` returns | the controller reports each |
| Gatt | `op_kick`; each procedure ends | it runs inside its caller; ATT timeout |
| Pairing | the task finishes the step it is at; ticks come although other work keeps coming (strong) | one task, one timer |
| Wifi | boot, tick with its timers run out (strong), the rest of a handler, a verdict of each join (strong) | the driver's watchdog (`net_esp.c`) |
| PiWake | the tick | as above |
| BleExp, Lora | tick or task, probes, time (in Lora the daily refresh with it); only after the point from which nobody interferes | the premise of the property |
| Ota | the task's next call; a healthy image reaches its 60 s, another one is reset | the HTTP client's timeout; tick and watchdog |
| AutoCamper | the 30 s step, submitting, the end of a command | `BusyEnds` of ControlRun |
| SdLog | the SD task's loop, the web task, the follower's timer; faults end, being bounded | three loops for ever |
| Daemon | every task that is not waiting for the lock takes its next step | sleeps, timeouts of BlueZ's connects, three tries of a read |
| Roof | also the press's and the STOP's next step, the ticks of the streams | asyncio's loop; the 30 s cap of a move |
| Thermostat, Water, BondStore | none | safety only |

## 4. What is proved

Eight modules hold TLAPS proofs for every value of the constants that meets the named assumptions:

| assumption | says |
|---|---|
| `TimesAssumption`, `SetsAssumption`, `OrderAssumption` (Session) | times are naturals, timeouts, first backoff and arm delay positive, the backoff's cap no less than its first; the sets are those of the code; NoUnit is no unit |
| `ControlAssumption` | a positive deadline, natural delays, plans that are not empty |
| `GattAssumption`, `UnitsAssumption` (Gatt, Transport) | NoPeer is no peer, None no unit; the queue has room for one operation |
| `ImagesAssumption` | builds and the marks for "none" differ, the shipped build is healthy |
| `PairingAssumption` | at least one attempt, a timeout of at least one tick, a queue of at least one event |
| `BondAssumption`, `WifiAssumption`, `LoraAssumption` | a table has room for one record; "none" is no network and no frame; packets cost something, one rate is the slowest, the ring has room for one charge, a day is not empty |
| `PiAssumption` | pulses and parking times are naturals, and there is a longest parking time |
| `ExpAssumption` | idle time, phase and probe intervals are naturals |
| `LevelsAssumption`, `FaultsAssumption`, `SwitchAssumption` (Thermostat) | levels are positive numbers and there is one; a frame may show no fault; a night is a night or not, and the panel switches on a run or continuous heating |
| `WaterAssumption` | positive latch level and debounce time, and a read comes no sooner than the debounce time (`FRESH_LATCH_MAX_L`, `FRESH_SETTLE_MS`, `CALI_SESSION_WATER_REREAD_MS`); None is no frame |
| `BoundsAssumption` (SdLog) | records, segments, pages and queue hold at least one; cuts, faults and requests are naturals |
| `RoofAssumption` | "none" is no press; ticks and faults are naturals |

AutoCamper's proofs need none.

**Session.** `SessionSafe`: `SessionInv` is an invariant as long as the controller does not reset (`~Resyncs`; with
resets it does not hold, section 5). From it `TypeCorrect`, `SessionNeverStranded`, `SessionLinkWanted`,
`SessionKeepsCooldown` and `SessionRestIsFree`. None of these is inductive alone: that a stopped plan leaves
nobody stranded needs to know that a probe has a link, that the rest belongs to an active session, that a
finished read pass means a live link, and that a flow keeps the session stopped (`ControlState`). The proof has a
lemma per C function saying what it preserves of a session (`LinkLostResult`, `ScheduleResult`, ...), built on
lemmas that set single fields, and then one lemma per group of handlers. `SessionLinkInOrder` rests on it and
on `LinkState`, which says what of read pass, heartbeat and readiness goes with each state of the link.

**ControlRun.** `ControlSafe`: `CtlInv` is inductive, fast relinks included. It ties the sequencer's index to
the ACKs the unit really gave, and the in-flight flag to the write in the transport: that is what
makes `ControlOkMeansAcked` true although late ACKs of earlier commands arrive. Its part `PlaceInv` says that
while a command waits between two frames, the gap so far and the time left cover the frame's delay; with it the
action property `ControlFrameInPlace`. Also `ControlTypeCorrect`, `ControlDoneOnce`, `ControlLossIsHonest`, and
`ControlImplementsPort`: every step of ControlRun is a step of ControlPort or a stutter.

**Transport.** `TransportKnowsRadio`: `RadioKnown` is inductive (`TypeOK`, `FlagsTrue`, `SlotKnown`): the flags make
sense only together with where the host's one procedure and one link are, and the reverse. Its proof has one
lemma for each helper of the code that changes flags, and one for each call and each event of the host. From it
`TransportKeepsContract`, that every step is one of LinkContract or a stutter, and the action property
`TransportKeepsBonds`.

**Pairing.** `PairingFlowIsClean`: `FlowIsClean` for any units, attempts, timeouts and length of the queue. That
bonded means the bond of the verified unit, and no other, depends on the whole way there: in each state of a
flow, what the flow waits for is still under way at the radio, reported and not yet taken, or among the actions
left of the step. The inductive invariant `PInv` says this state by state: `RadioKnown` for the transport, `OwnInv`
for who owns the radio and what a flow waits for, `UnitInv` for the unit and its bond. TLC checked it on the
instance of the run before it was proved. The proof has a lemma for what each call of the flow does to the transport
(`...Does`), what each event and timeout does to the state machine, and one lemma for each group of actions
(`...Keeps`). The session is on the radio only outside a flow, because the hand-over is complete before the flow
scans. On the way it turned out that the runner's queue never holds more than one event (`PairingQueueFits`):
nothing the runner drops when it is full is ever dropped.

**Gatt.** `GattSafe`: `GattInv` is inductive. `OneProc` needs that no procedure is of a generation to come, so
that a new generation has none of its own, and that operations wait only on a live link. `CacheIsPeers`
needs `TableInv`: `on_dsc` copies the table into a cache whose peer it does not compare, which is right
only because descriptors are searched in a complete table, and a complete table leaves no other peer's
cache valid. The proof splits the invariant into the queue (`QueueOK`) and the tables (`TablesOK`),
has one lemma for each way the queue changes, and then one per handler. From it `GattTypeCorrect`,
`GattOneProc`, `GattTableIsPeers`, `GattCacheIsPeers` and `GattNoRequestOnDying`.

**Ota.** `OtaSafe`: `OtaInv` is inductive for any builds, channels and releases. That the board always boots a
whole image (`OtaAlwaysBoots`) needs `BootInv`, what the marks of the two slots say of each other and of the
running program, and `TaskInv`, that the task writes only the other slot, only from a proven build, and
commits only what it compared. Also `OtaTypeCorrect`, `OtaOneRequest`, `OtaOfferOfChannel`, and the action
property `OtaSelectsVerified`.

**Lora.** `LoraAirtimeKept`: the packets on air in a day take no more than the budget and what is free, although the
task charges them apart from the module's answer. Free is what nothing is charged for (section 5): the rest of a
packet sent at a rate that was not heard, a request whose OK was lost or taken for a refusal, and all of before
a reboot. The invariant gives each other packet on air, in order, a charge of its own (`Paid`), in the ring or
about to be made, that pays for what is not free of it and ages no faster; so the sum on air is at most the charges
that count, which the task compares with the budget before each uplink, and what is free. Airtime is a
recursive function; the few facts about it (its values grow, a match costs no more than what it matches) are proved
by induction over the naturals, itself from the library's theorem on least elements, which takes no operator.
`LoraMarkedWasOnAir`, an action property, rests on `MarkInv`: a TX_DONE that is there or to come while the function's
frame is out is of that send, which was on air, unless one of an earlier send was about when it began.

**AutoCamper.** `CamperSafe`: `CamperInv` is inductive for every bound. `CamperOffMeansOff` and
`CamperDriveIsRemembered` speak of RAM only; a reboot takes RAM from flash, so `OffInv` and `DriveInv` say what flash
holds as well, and for a drive not yet seen also what the step will compare the frames with.
`CamperTriesBounded` counts what RAM and flash still allow together with what was begun.

**PiWake.** `PiHaltIsEarned`, an action property, rests on `PiInv`: the history has not run for less than the
parking timer, a Pi that may be halted was woken or driven since the last halt, a known ignition that is on means
driving, and the two pulses exclude each other.

**Thermostat.** `RestedIsStopped`, and the action properties `StopsAfterOff`, `TakenIsStopped` and `StartedOnceMore`.
They rest on one inductive invariant, `ThermoInv`, checked by TLC on the run's instance before it was proved:

* what is pending fits the mode and the heater that is expected (`PendKept`), and what is in flight is the pending
  command or the batch of a start's first try (`BatchKept`), so that the rest of a batch is never a second power on;
* once the owner's OFF has been taken, no session runs (`OffDone`): from then on only a stop is pending;
* the power ons that went out never outnumber the tries, and are one fewer while an answer says that the last one
  was not taken (`StartsKept`): only so is a start that is sent again after BUSY not a third one;
* a run that is the thermostat's own is the run it expects, has been seen since or is still being started, a stop
  that waits for the link knows it, and when nothing is left of the session a reason has been given (`OursKept`).

The decision is a chain of rules, each of which may return. A lemma per rule (`BookkeepDoes`, `WaitingDoes`,
`RequestDoes`, `StoppingDoes`, `GuardsDo`, `ControlDoes`) says what it leaves of a session that is `Sound`, and
`DecideDoes` composes them; `TickTakesOff` looks at the rules before the owner's OFF a second time, for an OFF that
meets a level command which has just failed.

**BondStore.** `BondsSafe`: `BondInv` for any keys, payloads and number of slots. `StoreInv` says how far a
rewrite has come: the slots it has passed hold what the table wants there, unless a write failed; a record it has
still to write stands, if the table had it before, at its place or further down, with no other of its key before it
among the slots not reached. So the record is found whether the rewrite goes on or is cut off. What that
boot makes of the slots, a recursive function in the model, is characterised as the set of slots with no earlier
one of the same key (`LoadOf`), by induction on the set of slots. `StoreInv` was checked by TLC for one, two and three
slots first.

**Wifi.** `WifiKeeps`: `WifiInv` for any networks and number of power cuts, with writes that fail, if
the driver starts the joins it is asked for (`StartFails = FALSE`, section 5). What joined is kept until a cut
finds it unsettled; everything else holds over those cuts too. The inductive invariant
`WifiSafe` says what each stored key ends as when the running handler has done its writes (`NameFollows`,
`OkFollows`): this makes RAM and store agree between two handlers, although they do not in between. For the way
back it relates the machine's `joined` to the credentials and the fallback (`MachineInv`), the driver to the
machine (`DriverInv`), and what joined to RAM or, on a board without power, to the store (`ProvenInv`). A handler
is a chain of at most three actions; one lemma per event says what the chain leaves behind (`Fed...`), one per list of
writes what the keys end as (`...Do`), and one per handler that it keeps the invariant (`...Keeps`).

**SdLog.** `LogIsSafe`: `LogInv` for any number of records, size of segments, pages and queue, and any number of
power cuts, faults and readers. The inductive invariant `OneLog` says that there is one log, the sequence of all
records that ever became durable, no record of a later boot than its successors; the card, the page buffer and the
follower each hold a part of it (`LogIs`). The segments hold its end without a gap and a mounted card buffers what
comes behind it (`CardIs`), so a flush, whole or cut off, only makes the log longer, and `recover()` finds its length
again, also when a cut took the name of the newest segment. A page covers all from its start to its next, sent or
lost (`PageIs`), and a run's buffer all from the cursor to its next page, but for what is gone (`RunIs`): so nothing is
skipped. That a record is given up rightly needs both: its boot is over, either because a later boot's record
follows it in the follower's hands or because the page said so, and all of its boot still on the card are in those
hands. That a page is its reader's rests on the request that is being read being the one that is held (`HttpIs`).
The invariant was first checked by TLC in a form without the quantifier over logs, the parts compared with each
other. The proof has a lemma for what a flush, a mount, a prune and a page do to the log, and one per action.

**BleExp.** `ExpQuietIsEarned`, an action property: a tick lets the link go only when nobody was there for the idle
time. The invariant `ExpInv` says that what each scheduler has left to wait, added to the time somebody was last
there, covers the idle time (`ExperimentWaits`, `PolicyWaits`), with the hours of the window in between
(`WindowKept`). The property was first checked with an idle time of two, where it held for a reason of its own;
the attempt to prove it showed that the history counted a mode set from outside and taken back between two ticks as
somebody there, which no tick can see (section 5). The history now counts what the code could see.

**Water.** `WaterSafe`: `WaterInv` follows from `GuardInv`. A real level is shown because it is the good frame or a
candidate at least as old as its first store (`ShownInTime`), so that the store after the debounce time adopts it.
Nothing unreal is shown because, while no frame is missed, the guard's waste water, by which the latch is told from
a change, is the unit's or about to be before the measurement ends (`Follows`), and an unreal candidate is of the
climb, which takes no time. Whose the water is (`OwnWater`) must be said of RAM and flash and of a board that does
not know its unit yet.

**Roof and Daemon.** `DaemonSafe`: one connection and no poll into a flow, because who uses the radio holds the lock.
`RoofStopReaches` and `RoofHeldOrStopped` need no bound on faults. `RoofSafe`, all of `RoofInv`, assumes
`MaxFaults <= SettleTicks`: a STOP is written once and then once per tick of `SETTLE_S`, so that with more
failures on a live link all of its tries can fail, in the code too. `DriveKept` carries the count: a roof that
moves on after its STOP has seen more failures than ticks.

Only model-checked is everything about liveness and fairness (`SessionGoesOn`, `BusyEnds`, `WifiReached`,
`ParkedHalts`, `DeferredEnds`, `OpEnds`, `FlowEnds`, `CatchesUp`, `UpdateEnds`, `NewsGetsOut`, `DebtSettles`,
`ScheduleGoesOn`, `RadioGoesOn`, `MovesEnd`): out of the prover's reach. Every other property of a passing run is a
theorem, some under an assumption a run does not need, named above.

## 5. Where code and documents disagree

One run is expected to be violated. `camper_manual_off`: `docs/business-logic/auto-camper-mode.md` says that
switching camper mode off yourself with the ignition steady off sticks. The step sees the vehicle every
30 s; when the owner switches it off between a restore and the next step, the step finds a debt and no
camping mode, takes it for a restore that has not worked, and switches it on again.

Met while modelling, without a run:

* `cali_session.h` says no reconnect comes inside the cooldown, a command's nudge included; `set_mode`
  connects at once when the session is down with nothing planned, so a nudge of a session in mode off does.
* `session.c` says that in rest only its poll connects; `on_sync` (`app_main.c`) runs after every controller
  reset and boots the session, rest or not, over a pairing flow, with a reconnect planned.
* The evidence ledger keeps `write_failed` for nothing sent; a refused later frame of a plan gives "write not
  issued" after an earlier one was ACKed (`control_run.c`).
* A write that goes with a link which was lost and is up again between two ticks stays in flight for ever in
  the sequencer: nothing answers it and no tick sees the loss. `BusyEnds` excepts it (`Orphaned`).
* A test says a redial that is not planned is never reported, but `link_lost` sets the flag before
  `schedule_reconnect` declines. `cali_control.h` lists the results `done()` may get, to which a configuration
  pull adds BAD_VALUE.
* Water: `unit_check` drops the stored water of another unit when it knew one. A forget between a reboot
  and the first link finds no unit known, so the old unit's water stays in flash and the next unit's first link
  shows it, against the comments at `session.c:87` and `:332`; likewise after an erase that failed
  (`strayed`). The candidate of the debounce outlives the link: two reads in two climbs may adopt a level that
  never was, and a change of the waste water missed while the link was down makes the latch look live (`gap`).
* `ble_store_kv.c` says moved records are identical copies, so that it does not matter which one wins at a boot;
  after a clear that failed or was cut off, a rewrite of the record and a cut delete they are not.
* `wifi_run.c` keeps `join_failed` of a start that failed until the next tick, although credentials were
  replaced in between: the failure is then counted for the new ones. The run has no failing starts
  (`StartFails = FALSE`).
* The thermostat sends a failed start once more when the heater is not seen in the run it asked for, where its Python
  original looks for "off".
* `sdcard_esp.c` calls a card an error whose information cannot be read after a mount, but remounts only what is not
  mounted: it stays refused until it is taken out. `CatchesUp` excepts it (`Refusing`).
* `pi_wake.c` consumes an ignition edge although the wake is refused while the halt line is low; no wake follows.
* `ble_exp`: a mode set to hold from outside between two phases is not taken for activity, nor is one that was set
  and set back between two ticks or before a phase's probe ended, although `cali_ble_exp.h`
  calls every mode change from outside activity.
* LoRa airtime: `cali_lora.h:45-46` has uplink airtime stay within 25 s per rolling 24 h, and no uplink go out once
  it is used up. Four cases go beyond it, and TLC finds each within a dozen steps when nothing is excepted: a rate that
  gets no answer leaves the last one in force, so a packet may be charged at less than it takes
  (`lora_esp.c:162-165`); a join request whose OK is lost is on air and not charged (`:234-235`); AT+SEND is refused by
  a late answer to AT+DR=? and goes out all the same; and the ring is RAM, empty after a reboot (`:310`).
  `AirtimeKept` counts that airtime as `free` and bounds the rest. Joins do not ask the downlink budget.
* `lora_esp.c:262-263` has `send` true only when +EVT:TX_DONE confirmed it. The event queue is not emptied
  before AT+SEND, so a TX_DONE of an earlier send that comes after its wait and receive windows confirms the next send,
  which may never have been on air; the tracker then counts its frame as sent until the daily refresh.
  `MarkedWasOnAir` excepts a send that begins with such a TX_DONE about (`stray`); `NewsGetsOut` does not.
* WiFi: `cali_wifi_run.h:82-88` says that a typo saved just before a power cut never boots as validated, and
  `firmware.md:428-431` that such credentials boot through setup. A cut between the POST's writes of name and password
  and `mark_unjoined` (`wifi_run.c:328-331`) boots the new credentials, or half of them, as joined, and the old ones are
  lost. Credentials that joined are also lost by a cut while their replacement tries to join, which `firmware.md:445-448`
  accepts (the fallback is in RAM only), inside RESTORE_PREV (`:166-168`), before the first `wifi_ok = 1`, and after a
  failed write. `JoinedKept` excepts a cut at such a moment (`Unsettled`, `cutShort`); `WifiReached` excepts none.
* Daemon: while a pairing flow runs, only the poll is kept away; the session may stay up or come up.
  A cancel that races a second start: the first task's `finally` clears the second's `_pairing_pending`.
* Roof: `device.py` says a press switches the stream of the page; a page opened during a press starts a stream of STOP
  frames beside the press's own. An early release that finds another's move ends that one, and its own press, when it
  comes, runs to its limit (`spent`). A STOP whose write fails just when the page's stream closes is not repeated
  (`unheard`).

## 6. Abstractions

* Frames are reduced to the fields a decision reads; commands to their frames' delays or their effect;
  bonds to sequences of units; handles to the peer they belong to; credentials to a network and a password.
  Text, JSON and logs are left out.
* In Session every periodic re-read may be due at any tick, and the auto camper answers anything. Its water guard
  is apart: in Water a link is up or not, and its read pass is one read.
* In Water the climb takes less than a tick; a real level up to the latch without the unit's alarm is beyond
  what the guard can tell, as `value-freshness.md` says, and beyond the property.
* In Pairing every state of a flow has the same timeout, the host does not reset, and deleting the
  other units' bonds succeeds. In `remove_bond` either all bonds go or none.
* A link that came up after its cancel is terminated without a look at the return value, in the code
  and in the model: there the terminate may be refused later (TERM_FAILURE) but not at once.
* In Gatt `link_peer()` finds the link as long as there is one, and `s_gen` is bounded, not wrapped.
* NimBLE's repeat-pairing event is assumed only of a unit that has forgotten us, as its handler's
  comment has it.
* One of the bond store's three tables stands for all; a flash write of one key or slot is atomic.
* In Wifi, Thermostat and BleExp a timer may have run out at any tick; back-off, hours and temperatures are
  choices. In AutoCamper one extra (USB) stands for both.
* In Ota a build stands for its commit, bytes and hash. In Lora airtime is in units, one function of the unit
  is tracked.

## 7. Not modelled

The lines the models cover are those with state and order in them. Of what is left out, about half is
generated (fonts, the web bundle, host configuration) and holds no behaviour. The rest, with the reason:

* `web.c`, `snapshot.c`, `status.c`, `json.c`, `diag.c`, `console.c` but for `on_state`: parsing and formatting of
  state kept elsewhere; the routes are thin calls into the components, which are modelled there. Of the HTTP
  core only the held answer has state (SdLog).
* `control.c`, `codec.c`, `sensors.c`: tables and bit fields, checked by golden vectors against their Python twins;
  a model would repeat the table.
* display, captive portal, access point identity: drawing and packet layout. Energy, battery, time: numeric integration.
* `net_esp.c`, `platform_esp.c`, `sntp_esp.c` and the host ports: thin ports of ESP-IDF and POSIX; the promises the
  models rest on are the fairness table's.
* In `session.c` the lighting configuration latch; in `ble_nimble.c` private address resolution, sensor
  adverts, MTU and RSSI; in `thermostat.c` the control law, the time to arrival and the heater's own timer; in
  `wifi_run.c` scans, the reverted flag and a hotspot that fails to start.
* of the Python daemon MQTT, the web server's threads, frames and the gates of a command; its policies are the
  firmware's (the C code is their port), and its pairing state machine is `pairing_sm.c`'s.

## 8. Plan

Done: the link (Session, Water, ControlRun, Transport, Gatt, Pairing, BondStore), the policies (Thermostat,
AutoCamper, BleExp, PiWake), the stores and tasks (Wifi, SdLog, Ota, Lora), the daemon (Daemon, Roof); proofs of
every safety property the passing runs check. Next, in this order:

1. host resets in Session and Pairing, once the code says what a reset under a live session should do;
2. Wifi with starts that fail; the hand-over between the thermostat's hold and the BLE schedulers as one
   composition instead of two views.

Liveness under fairness is out of the proof system's reach here and left to TLC.
