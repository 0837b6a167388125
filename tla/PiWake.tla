------------------------------- MODULE PiWake -------------------------------
(***************************************************************************)
(* Waking and halting the Raspberry Pi (pi_wake.c): one pulse on the wake  *)
(* line at the ignition's rising edge, one on the halt line after parking, *)
(* both also by hand from the page and the console, on one task's tick.    *)
(*                                                                         *)
(* Time is counted in ticks; a pulse, the gap between two wakes and the    *)
(* parking time are a few of them, in the order they have in the code.     *)
(* The settings are stored before they are taken over, so RAM and flash    *)
(* agree and a reboot keeps them.  The energy frame is what the guard      *)
(* makes of it: low or not.                                                *)
(***************************************************************************)
EXTENDS Integers

CONSTANTS
    WakePulse,     \* CALI_PW_PULSE_MS
    HaltPulse,     \* CALI_PH_PULSE_MS
    HoldMax,       \* CALI_PW_HOLD_MAX_MS
    MinGap,        \* CALI_PW_MIN_GAP_MS
    GuardTime,     \* CALI_PH_GUARD_MIN
    ParkTimes      \* settings of ph_min; 0 is off

VARIABLES
    reading,       \* the ignition of the tick: 1, 0, or -1 unknown
    energyLow,     \* what the energy frame held by the session says
    wakeSet, parkTime, guardSet,      \* s_on, s_ph_min, s_ph_soc # 0
    wakeLeft, haltLeft,               \* ticks until the line is released; 0 is released
    prevIgn, driving, halted, batt,   \* s_prev, s_driving, s_halted, s_batt
    parked,        \* ticks since s_parked_at
    sinceWake,     \* ticks since s_auto_at; MinGap is long ago or never
    still,         \* history: ticks since the boot, the last sign of driving,
                   \* the park or a wake
    rearmed        \* history: a boot, a wake or an ignition 1 since the halt

settings == <<wakeSet, parkTime, guardSet>>
piVars == <<reading, energyLow, settings, wakeLeft, haltLeft, prevIgn, driving, halted,
            batt, parked, sinceWake, still, rearmed>>

\* Of the constants.
PiAssumption ==
    /\ ParkTimes \subseteq Nat /\ \E t \in ParkTimes : \A u \in ParkTimes : u <= t
    /\ {WakePulse, HaltPulse, HoldMax, GuardTime} \subseteq Nat

-----------------------------------------------------------------------------

LongPark == CHOOSE t \in ParkTimes : \A u \in ParkTimes : u <= t
Later(t, cap) == IF t < cap THEN t + 1 ELSE cap
Less(t) == IF t > 0 THEN t - 1 ELSE 0

\* limit_min(): the parking time, shortened while the battery is low.
Limit(low) ==
    IF low /\ guardSet /\ (parkTime = 0 \/ parkTime > GuardTime) THEN GuardTime ELSE parkTime

PiInit ==
    /\ reading = -1
    /\ energyLow = FALSE
    /\ wakeSet = TRUE /\ parkTime = LongPark /\ guardSet = TRUE
    /\ wakeLeft = 0 /\ haltLeft = 0
    /\ prevIgn = -1 /\ driving = FALSE /\ halted = FALSE /\ batt = FALSE
    /\ parked = 0 /\ sinceWake = MinGap
    /\ still = 0 /\ rearmed = TRUE

-----------------------------------------------------------------------------
(* cali_pw_tick().                                                          *)

\* The lines at the tick, pulses that are due released.
WakeNow == Less(wakeLeft)
HaltNow == Less(haltLeft)

\* A slip: an unknown reading is remembered like any other.
RejectedPrev == reading
\* An unknown reading leaves the last one standing.
Prev == IF reading >= 0 THEN reading ELSE prevIgn

Drives == IF reading = 1 THEN TRUE
          ELSE IF reading = 0 /\ prevIgn # 0 THEN FALSE ELSE driving

ParkBegins == reading = 0 /\ prevIgn # 0
Edge == reading = 1 /\ prevIgn # 1

\* cali_pw_wake("ignition"): not within the gap, and not over a pulse.
AutoWake ==
    /\ Edge /\ wakeSet
    /\ Later(sinceWake, MinGap) = MinGap
    /\ WakeNow = 0 /\ HaltNow = 0

\* A wake, like a park, gives the Pi the whole parking time.
ParkedNow == IF ParkBegins \/ AutoWake THEN 0 ELSE Later(parked, LongPark)

HaltedNow == halted /\ reading # 1 /\ ~AutoWake

\* A slip: the halt goes by the last known reading, not by driving.
RejectedAutoHalt ==
    /\ reading # 1 /\ ~HaltedNow
    /\ Limit(energyLow) # 0
    /\ ParkedNow >= Limit(energyLow)
    /\ WakeNow = 0 /\ HaltNow = 0 /\ ~AutoWake

\* The parking timer; busy lines put it off to the next tick.
AutoHalt ==
    /\ ~Drives /\ ~HaltedNow
    /\ Limit(energyLow) # 0
    /\ ParkedNow >= Limit(energyLow)
    /\ WakeNow = 0 /\ HaltNow = 0 /\ ~AutoWake

PiTick ==
    /\ prevIgn' = Prev
    /\ driving' = Drives
    /\ batt' = energyLow
    /\ wakeLeft' = IF AutoWake THEN WakePulse ELSE WakeNow
    /\ sinceWake' = IF AutoWake THEN 0 ELSE Later(sinceWake, MinGap)
    /\ parked' = ParkedNow
    /\ haltLeft' = IF AutoHalt THEN HaltPulse ELSE HaltNow
    /\ halted' = (HaltedNow \/ AutoHalt)
    /\ still' = IF reading = 1 \/ ParkBegins \/ AutoWake THEN 0 ELSE Later(still, LongPark)
    /\ rearmed' = ((rearmed \/ reading = 1 \/ AutoWake) /\ ~AutoHalt)
    /\ UNCHANGED <<reading, energyLow, settings>>

-----------------------------------------------------------------------------
(* Calls between two ticks, and the world.                                  *)

\* cali_pw_pulse() by hand: the page's wake, the console's wake or hold.
ManualWake(t) ==
    /\ wakeLeft = 0 /\ haltLeft = 0
    /\ wakeLeft' = t
    /\ parked' = 0
    /\ halted' = FALSE
    /\ still' = 0
    /\ rearmed' = TRUE
    /\ UNCHANGED <<reading, energyLow, settings, haltLeft, prevIgn, driving, batt, sinceWake>>

\* cali_ph_pulse() by hand.
ManualHalt(t) ==
    /\ wakeLeft = 0 /\ haltLeft = 0
    /\ haltLeft' = t
    /\ halted' = TRUE
    /\ rearmed' = FALSE
    /\ UNCHANGED <<reading, energyLow, settings, wakeLeft, prevIgn, driving, batt, parked,
                   sinceWake, still>>

\* cali_pw_set_enabled(), cali_ph_set_min(), cali_ph_set_soc(), one at a time.
Set ==
    /\ \/ wakeSet' = ~wakeSet /\ UNCHANGED <<parkTime, guardSet>>
       \/ parkTime' \in ParkTimes \ {parkTime} /\ UNCHANGED <<wakeSet, guardSet>>
       \/ guardSet' = ~guardSet /\ UNCHANGED <<wakeSet, parkTime>>
    /\ UNCHANGED <<reading, energyLow, wakeLeft, haltLeft, prevIgn, driving, halted, batt,
                   parked, sinceWake, still, rearmed>>

\* What the session holds: read, changed, lost with the link.
Ignition ==
    /\ reading' \in {-1, 0, 1} \ {reading}
    /\ UNCHANGED <<energyLow, settings, wakeLeft, haltLeft, prevIgn, driving, halted, batt,
                   parked, sinceWake, still, rearmed>>

Energy ==
    /\ energyLow' = ~energyLow
    /\ UNCHANGED <<reading, settings, wakeLeft, haltLeft, prevIgn, driving, halted, batt,
                   parked, sinceWake, still, rearmed>>

\* cali_pw_init(): lines released, the parking timer started.
Reboot ==
    /\ reading' = -1 /\ energyLow' = FALSE
    /\ wakeLeft' = 0 /\ haltLeft' = 0
    /\ prevIgn' = -1 /\ driving' = FALSE /\ halted' = FALSE /\ batt' = FALSE
    /\ parked' = 0 /\ sinceWake' = MinGap
    /\ still' = 0 /\ rearmed' = TRUE
    /\ UNCHANGED settings

ByHand == \/ \E t \in {WakePulse, HoldMax} : ManualWake(t)
          \/ \E t \in {HaltPulse, HoldMax} : ManualHalt(t)

PiNext == PiTick \/ ByHand \/ Set \/ Ignition \/ Energy \/ Reboot

PiSpec == PiInit /\ [][PiNext]_piVars
PiFairSpec == PiSpec /\ WF_piVars(PiTick)

-----------------------------------------------------------------------------

\* The parking timer halts a Pi only once it was left alone for the parking
\* time in force, or for the guard's while the battery is low: since the
\* boot, the last sign of driving, the park and the last wake, by whatever
\* hand; once per park; and never while the last known ignition is on, the
\* link up or down.  The two lines are never low together.
HaltIsEarned ==
    [][/\ (haltLeft' > haltLeft /\ ~ByHand) =>
            /\ \/ parkTime > 0 /\ still' >= parkTime
               \/ energyLow /\ guardSet /\ still' >= GuardTime
            /\ rearmed
            /\ prevIgn' # 1
       /\ wakeLeft' = 0 \/ haltLeft' = 0]_piVars

\* A van that stays parked with a parking time set has its Pi halted, once
\* nobody wakes it any more: no pulse in the way, no setting and no lost
\* link keeps the timer from it for ever.
ParkedPiHalts ==
    (/\ <>[](~driving /\ reading # 1 /\ parkTime > 0)
     /\ <>[][~Reboot /\ ~ByHand]_piVars)
        => <>[]halted
=============================================================================
