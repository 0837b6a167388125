------------------------------- MODULE Water -------------------------------
(***************************************************************************)
(* The water guard of the session (session.c, csrc/ports.c): what the unit *)
(* reports of its tanks, and what the satellite shows and stores of it.    *)
(*                                                                         *)
(* The unit measures now and then.  While it does not, its frame says 1    *)
(* litre of fresh water and the waste water of the last measurement; when  *)
(* it begins, the fresh level climbs to the real one within less than the  *)
(* debounce time, and the real one stays longer than the time between two  *)
(* reads.  Every change is pushed over a live link.  The guard holds the   *)
(* last plausible frame, in RAM and in flash, and adopts another only when *)
(* it was seen again after the debounce time.                              *)
(*                                                                         *)
(* A frame always carries both levels.  by and real are history: the unit  *)
(* it came from, and whether its levels were measured.  The frame shown is *)
(* always the good one: store, seed_water_frame and unit_check keep them   *)
(* together.                                                               *)
(***************************************************************************)
EXTENDS Naturals

CONSTANTS
    Units, None,       \* camper units; none
    Tanks,             \* contents of the two tanks: f fresh, w waste
    Latch,             \* FRESH_LATCH_MAX_L
    Settle,            \* FRESH_SETTLE_MS
    Reread,            \* CALI_SESSION_WATER_REREAD_MS
    MaxFaults,         \* bound: failed reads, writes and erases
    MaxReboots         \* bound: reboots

StaysFor == Settle + Reread   \* the real level stays at least this long

\* Of the constants: the latch shows a litre or more, a read comes no sooner than the
\* debounce time, and None is neither a unit nor a frame.
WaterAssumption ==
    /\ Latch \in Nat \ {0} /\ Settle \in Nat \ {0} /\ Reread \in Nat /\ Settle <= Reread
    /\ Tanks \subseteq [f : Nat, w : Nat]
    /\ None \notin Units
    /\ None \notin [f : Nat, w : Nat, by : Units, real : BOOLEAN]
    /\ None \notin [f : Nat, w : Nat, age : 0..Settle, real : BOOLEAN]

VARIABLES
    bond,        \* the unit of the stored bond
    tank,        \* what is in its tanks
    phase,       \* it is "idle", in the "ramp" or "steady"
    reads,       \* the frame it reports
    left,        \* ticks the steady level still stays
    online,      \* the session's link is up
    pairing,        \* a pairing flow has the radio
    unit,        \* s_unit; None is ""
    good,        \* s_wg; None without a baseline
    heldBack,    \* s_water_held
    wpend,       \* s_wpend; None without a candidate
    goodKv,      \* the stored water_good
    due,         \* ticks to the next read
    heard,       \* history: ticks since the steady frame was first stored
    firm,        \* history: and it was stored again after Settle
    gap,         \* history: frames may have been missed since the last real one
    strayed,     \* history: water was stored of a unit whose bond went, because no
                 \* link since the boot had told whose it is or the erase failed
    faults, reboots

unitVars == <<bond, tank, phase, reads, left>>
guard == <<unit, good, heldBack, wpend, goodKv>>
notes == <<heard, firm, gap, strayed, faults>>
waterVars == <<unitVars, online, pairing, guard, due, notes, reboots>>

-----------------------------------------------------------------------------

Never == Settle + 1                       \* for heard: not stored yet
Older(t) == IF t < Settle THEN t + 1 ELSE t
Less(t) == IF t > 0 THEN t - 1 ELSE 0

Frame(f, w, empty) == [f |-> f, w |-> w, empty |-> empty]
Measured(t) == Frame(t.f, t.w, t.f = 0)
Alike(a, b) == a.f = b.f /\ a.w = b.w

WaterInit ==
    /\ bond \in Units /\ tank \in Tanks /\ phase = "idle"
    /\ reads = Frame(1, tank.w, FALSE) /\ left = 0
    /\ online = FALSE /\ pairing = FALSE
    /\ unit = None /\ good = None /\ heldBack = FALSE /\ wpend = None /\ goodKv = None
    /\ due = 0 /\ heard = Never /\ firm = FALSE /\ gap = FALSE /\ strayed = FALSE
    /\ faults = 0 /\ reboots = 0

WaterFault == faults < MaxFaults /\ faults' = faults + 1

\* cali_kv_set() and cali_kv_erase(), whose result nobody looks at.  A failure
\* only shows at a reboot, so none is counted after the last one.
Keep(v) ==
    \/ goodKv' = v /\ UNCHANGED faults
    \/ UNCHANGED goodKv /\ reboots < MaxReboots /\ WaterFault

-----------------------------------------------------------------------------
(* The decision (freshness_settle).                                         *)

\* A drop alone is the latch: the level of a unit that stops measuring an
\* empty tank is taken for a refill.
RejectedIsLatch(new) ==
    ~new.empty /\ new.f <= Latch /\ (good # None => new.f < good.f /\ new.w = good.w)

\* freshness_implausible_drop(), and the cold start on the latch.
IsLatch(new) ==
    ~new.empty /\ new.f <= Latch /\ (good # None => new.f # good.f /\ new.w = good.w)

IsBaseline(new) == good # None /\ Alike(new, good)

Candidate(new) ==
    IF wpend # None /\ Alike(wpend, new) THEN wpend
    ELSE [f |-> new.f, w |-> new.w, age |-> 0, real |-> FALSE]

Adopts(new) ==
    /\ ~IsLatch(new)
    /\ IsBaseline(new) \/ new.empty \/ Candidate(new).age >= Settle

\* store(), of a frame of 1302.
Store(new, steady) ==
    LET wasReal == \/ steady
                   \/ IsBaseline(new) /\ good.real /\ good.by = bond
                   \/ Candidate(new).real
    IN  /\ heard' = IF ~steady THEN Never
                    ELSE IF heard = Never \/ ~Alike(new, reads) THEN 0 ELSE heard
        /\ firm' = (steady /\ heard' >= Settle /\ Alike(new, reads))
        /\ IF Adopts(new)
           THEN LET water == [f |-> new.f, w |-> new.w, by |-> bond, real |-> wasReal]
                IN  /\ good' = water /\ Keep(water)
                    /\ heldBack' = FALSE /\ wpend' = None
                    /\ gap' = (gap /\ ~steady)
           ELSE /\ heldBack' = TRUE
                /\ wpend' = IF IsLatch(new) THEN None
                           ELSE [Candidate(new) EXCEPT !.real = wasReal]
                /\ UNCHANGED <<good, goodKv, gap, faults>>
        /\ UNCHANGED <<unit, strayed>>

-----------------------------------------------------------------------------
(* The unit.  A change of its frame is pushed while the link is up.         *)

Reports(new, ph) ==
    /\ reads' = new /\ phase' = ph
    /\ IF online /\ new # reads THEN Store(new, ph = "steady")
       ELSE heard' = (IF ph = "steady" /\ new = reads THEN heard ELSE Never) /\ firm' = FALSE
            /\ UNCHANGED <<guard, gap, strayed, faults>>
    /\ UNCHANGED <<bond, online, pairing, due>>

MeasureBegins ==
    /\ phase = "idle" /\ bond # None
    /\ \E w \in {reads.w, tank.w} :
           Reports(Frame(IF tank.f = 0 THEN 0 ELSE 1, w, FALSE), "ramp")
    /\ UNCHANGED <<tank, left>>

Climbs ==
    /\ phase = "ramp" /\ reads.f < tank.f
    /\ Reports([reads EXCEPT !.f = @ + 1], "ramp")
    /\ UNCHANGED <<tank, left>>

Settles ==
    /\ phase = "ramp" /\ reads.f = tank.f
    /\ Reports(Measured(tank), "steady")
    /\ left' = StaysFor /\ UNCHANGED tank

MeasureEnds ==
    /\ phase = "steady" /\ left = 0
    /\ Reports(Frame(1, reads.w, FALSE), "idle")
    /\ UNCHANGED <<tank, left>>

\* Water is used, filled or drained.
TankChanges ==
    \E t \in Tanks \ {tank} :
        /\ bond # None /\ phase # "ramp" /\ tank' = t
        /\ IF phase = "steady" THEN Reports(Measured(t), "steady") /\ left' = StaysFor
           ELSE UNCHANGED <<bond, phase, reads, left, online, pairing, guard, due, notes>>

\* The climb takes less than a tick; a read that is due is not put off.
WaterTick ==
    /\ phase # "ramp" /\ (online => due > 0)
    /\ due' = Less(due) /\ left' = Less(left)
    /\ wpend' = IF wpend = None THEN None ELSE [wpend EXCEPT !.age = Older(@)]
    /\ heard' = Older(heard)
    /\ UNCHANGED <<bond, tank, phase, reads, online, pairing, unit, good, heldBack, goodKv,
                   firm, gap, strayed, faults>>

-----------------------------------------------------------------------------
(* The session.                                                             *)

Missed == good # None \/ wpend # None \/ goodKv # None

\* unit_check(), before seed_water_frame().
UnitCheck(id) ==
    /\ unit' = id
    /\ IF id # unit /\ unit # None
       THEN /\ good' = None /\ heldBack' = FALSE /\ wpend' = None
            /\ Keep(None)
       ELSE UNCHANGED <<good, heldBack, wpend, goodKv, faults>>

\* Is the stored water another unit's?
Strays == strayed' = (strayed \/ (goodKv' # None /\ (bond' = None \/ goodKv'.by # bond')))

\* link_up(); the read pass reads the water.
WaterLinkUp ==
    /\ bond # None /\ ~online /\ ~pairing
    /\ online' = TRUE /\ due' = 0 /\ UnitCheck(bond)
    /\ UNCHANGED <<unitVars, pairing, heard, firm, gap, strayed>>

LinkLost ==
    /\ online /\ online' = FALSE
    /\ gap' = (gap \/ Missed)
    /\ UNCHANGED <<unitVars, pairing, guard, due, heard, firm, strayed, faults>>

\* The read pass, and the re-read of cali_session_tick() after it.
Read ==
    /\ online /\ due = 0 /\ due' = Reread
    /\ Store(reads, phase = "steady")
    /\ UNCHANGED <<unitVars, online, pairing>>

ReadFails ==
    /\ online /\ due = 0 /\ due' = Reread
    /\ WaterFault /\ gap' = TRUE
    /\ UNCHANGED <<unitVars, online, pairing, guard, heard, firm, strayed>>

\* cali_session_stop(), the bond kept: a pairing flow starts, or goes on.
FlowStarts ==
    /\ ~pairing /\ pairing' = TRUE /\ online' = FALSE
    /\ gap' = (gap \/ (online /\ Missed))
    /\ UnitCheck(bond)
    /\ UNCHANGED <<unitVars, due, heard, firm, strayed>>

FlowEnds == pairing /\ pairing' = FALSE /\ UNCHANGED <<unitVars, online, guard, due, notes>>

\* remove_bond(), then cali_session_stop() (runner.c, step).
Forget ==
    /\ bond # None /\ ~pairing
    /\ bond' = None /\ phase' = "idle" /\ left' = 0 /\ online' = FALSE
    /\ UNCHANGED <<tank, reads, pairing, due>>
    /\ UnitCheck(None) /\ Strays
    /\ heard' = Never /\ firm' = FALSE /\ gap' = (gap \/ Missed)

\* cali_session_on_bonded(): the flow's link is the session's.
BondMade(u) ==
    /\ pairing /\ bond' = u /\ pairing' = FALSE /\ online' = TRUE /\ due' = 0
    /\ \E t \in Tanks : tank' = t /\ reads' = Frame(1, t.w, FALSE)
    /\ phase' = "idle" /\ left' = 0
    /\ UnitCheck(u) /\ Strays
    /\ heard' = Never /\ firm' = FALSE /\ gap' = (gap \/ Missed)

\* cali_session_init().
Reboot ==
    /\ reboots < MaxReboots /\ reboots' = reboots + 1
    /\ online' = FALSE /\ pairing' = FALSE /\ unit' = None
    /\ good' = goodKv /\ heldBack' = FALSE /\ wpend' = None
    /\ heard' = Never /\ firm' = FALSE /\ gap' = (gap \/ Missed)
    /\ UNCHANGED <<unitVars, goodKv, due, strayed, faults>>

Measurement == MeasureBegins \/ Climbs \/ Settles \/ MeasureEnds \/ TankChanges
Linked == WaterLinkUp \/ LinkLost \/ Read \/ ReadFails
Bonding == FlowStarts \/ FlowEnds \/ Forget \/ (\E u \in Units : BondMade(u))

WaterNext ==
    \/ (Measurement \/ WaterTick \/ Linked \/ Bonding) /\ UNCHANGED reboots
    \/ Reboot

WaterSpec == WaterInit /\ [][WaterNext]_waterVars

-----------------------------------------------------------------------------

Shows(water) == good # None /\ Alike(good, water) /\ ~heldBack

\* A level the unit measures is shown once it was read twice the debounce
\* time apart in one measurement, and an empty tank at its first read: the
\* guard never holds a real level for good.  (A real level up to the latch
\* without the alarm is beyond it, docs/business-logic/value-freshness.md.)
MeasuredIsShown ==
    /\ firm /\ reads.f > Latch => Shows(reads)
    /\ heard # Never /\ online /\ reads.empty => Shows(reads)

\* Nothing but a measured level is shown as long as no frame was missed
\* since the last one that was real: neither the latch nor a step of the
\* climb.  And it is the bonded unit's own, unless the water of a bond that
\* went stayed in the store.
ShownIsMeasured ==
    /\ good # None /\ ~gap => good.real
    /\ good # None /\ online /\ ~strayed => good.by = bond

\* The two together: the level shown is the bonded unit's real one, and a
\* real one gets shown (session.c store, unit_check, ports.c freshness_settle).
WaterInv == MeasuredIsShown /\ ShownIsMeasured
=============================================================================
