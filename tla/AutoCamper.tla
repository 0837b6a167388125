----------------------------- MODULE AutoCamper -----------------------------
(***************************************************************************)
(* The auto camper (auto_camper.c, auto_camper_run.c): the unit sheds      *)
(* camping mode when the engine starts, and the satellite owes its owner a *)
(* restore after the park.  Every 30 s, while the link is ready, one       *)
(* decision over the frames of this link; a restore goes out through the   *)
(* control sequencer, one command at a time.  The debt and the toggle are  *)
(* in flash, the rest is lost at a reboot.                                 *)
(*                                                                         *)
(* Frames are pushed by the unit one by one: the vehicle frame carries the *)
(* ignition, the camping frame the camping state and the unit's own mirror *)
(* of the ignition, so a step may see one of them old.                     *)
(***************************************************************************)
EXTENDS Naturals, Sequences

CONSTANTS
  MaxFails,      \* CALI_AC_MAX_FAILS
  MaxDrives,     \* engine starts
  MaxOwner,      \* switches of camping by the owner
  MaxToggles,    \* switches of the feature
  MaxReboots,
  MaxLostSaves   \* writes of the debt that fail

ASSUME BoundsAssumption ==
  {MaxFails, MaxDrives, MaxOwner, MaxToggles, MaxReboots, MaxLostSaves} \subseteq Nat

VARIABLES
  ign, camp, usb,      \* the vehicle: ignition, camping master, USB charger
  ready,               \* the session is ready
  fv,                  \* the live vehicle frame: <<>> or <<ignition>>
  fc,                  \* the live camping frame: <<>> or <<record>>
  owe, pre, until, fails, pIgn, pCamp, pUsb,   \* cali_ac_state_t
  on, resume,          \* s_on, s_resume
  chain, wait,         \* the restore going out; a command is in the sequencer
  nvDebt, nvOn,        \* flash: the ten bytes, the toggle
  tries,               \* history: restores begun
  due, saw,            \* history: the engine started with camping seen on, and
                       \* a step has seen the ignition of this drive
  offAck,              \* history: the owner's "off" was acknowledged
  ownerOff,            \* history: the owner's last word is camping off
  used                 \* how often each bounded event happened

vehicle == <<ign, camp, usb>>
link == <<ready, fv, fc>>
debt == <<owe, pre, until, fails, pIgn, pCamp, pUsb>>
ram == <<debt, on, resume, chain, wait>>
flash == <<nvDebt, nvOn>>
hist == <<tries, due, saw, offAck, ownerOff>>
vars == <<vehicle, link, ram, flash, hist, used>>

Bounds == [drive |-> MaxDrives, owner |-> MaxOwner, toggle |-> MaxToggles,
           reboot |-> MaxReboots, lost |-> MaxLostSaves]
Count(es) == /\ \A e \in es : used[e] < Bounds[e]
             /\ used' = [e \in DOMAIN used |-> used[e] + IF e \in es THEN 1 ELSE 0]

NoDebt == [owe |-> FALSE, pre |-> FALSE, open |-> FALSE, fails |-> 0,
           ign |-> FALSE, camp |-> FALSE, usb |-> FALSE]

Init ==
  /\ ign = FALSE /\ camp = TRUE /\ usb \in BOOLEAN
  /\ ready = FALSE /\ fv = <<>> /\ fc = <<>>
  /\ owe = FALSE /\ pre = FALSE /\ until = "none" /\ fails = 0
  /\ pIgn = FALSE /\ pCamp = FALSE /\ pUsb = FALSE
  /\ on = TRUE /\ resume = FALSE /\ chain = <<>> /\ wait = "none"
  /\ nvDebt = NoDebt /\ nvOn = TRUE
  /\ tries = 0 /\ due = FALSE /\ saw = FALSE /\ offAck = FALSE /\ ownerOff = FALSE
  /\ used = [e \in DOMAIN Bounds |-> 0]

----------------------------------------------------------------------------
\* cali_ac_ignition: the vehicle's terminal 15 or the unit's mirror of it.
Ignition == \/ fv # <<>> /\ fv[1]
            \/ fc # <<>> /\ fc[1].ign
Gap == fc = <<>>

----------------------------------------------------------------------------
\* The vehicle, its owner and the link (external).
CampFrame == [camp |-> camp, usb |-> usb, ign |-> ign]

EngineStarts ==
  /\ ~ign /\ ign' = TRUE /\ Count({"drive"})
  /\ saw' = FALSE /\ ownerOff' = FALSE
  /\ due' = (/\ on /\ nvOn /\ camp /\ pCamp /\ ~pIgn /\ nvDebt.camp /\ ~nvDebt.ign
              /\ fc \in {<<>>, <<CampFrame>>})
  /\ UNCHANGED <<camp, usb, link, ram, flash, tries, offAck>>

Shed ==
  /\ ign /\ camp /\ camp' = FALSE /\ usb' = FALSE
  /\ UNCHANGED <<ign, link, ram, flash, hist, used>>

Parks ==
  /\ ign /\ ign' = FALSE
  /\ UNCHANGED <<camp, usb, link, ram, flash, hist, used>>

\* The owner's switch.  Off counts as the last word when the ignition is
\* steady off, in the frames and for the last step, and no restore is in the air.
OwnerSwitches ==
  /\ ~ign /\ Count({"owner"})
  /\ camp' = ~camp /\ usb' = FALSE
  /\ ownerOff' = (camp /\ ~Ignition /\ ~pIgn /\ chain = <<>> /\ wait = "none")
  /\ UNCHANGED <<ign, link, ram, flash, tries, due, saw, offAck>>

Push ==
  /\ ready
  /\ \/ fv' = <<ign>> /\ UNCHANGED fc
     \/ fc' = <<CampFrame>> /\ UNCHANGED fv
  /\ UNCHANGED <<ready, vehicle, ram, flash, hist, used>>

\* The read pass of a new link may miss a frame.
LinkUp ==
  /\ ~ready /\ ready' = TRUE
  /\ fv' \in {<<>>, <<ign>>} /\ fc' \in {<<>>, <<CampFrame>>}
  /\ UNCHANGED <<vehicle, ram, flash, hist, used>>

LinkDown ==
  /\ ready /\ ready' = FALSE /\ fv' = <<>> /\ fc' = <<>>
  /\ UNCHANGED <<vehicle, ram, flash, hist, used>>

----------------------------------------------------------------------------
\* save(): the ten bytes, when they changed; the write may fail.
Packed == [owe |-> owe', pre |-> pre', open |-> until' # "none" \/ resume',
           fails |-> fails', ign |-> pIgn', camp |-> pCamp', usb |-> pUsb']
Saved == nvDebt' = Packed
NotSaved == nvDebt # Packed /\ UNCHANGED nvDebt

\* cali_ac_decide, one branch after the other over the same step.
Known == ~Gap
Arms == Ignition /\ ~pIgn /\ pCamp /\ ~owe
Cancels == ~Ignition /\ ~pIgn /\ pCamp /\ ~fc[1].camp
ParkSeen == ~Ignition /\ pIgn /\ owe
Window == IF ParkSeen \/ (resume /\ owe) THEN "open" ELSE until
Tried == IF ParkSeen THEN 0 ELSE fails

Settle(restart) == /\ owe' = FALSE /\ until' = "none"
                   /\ fails' = IF restart THEN 0 ELSE Tried
                   /\ UNCHANGED <<pre, chain, wait, tries>>

Restore ==
  /\ owe' = TRUE /\ until' = Window /\ fails' = Tried + 1
  /\ chain' = IF pre THEN <<"master", "usb">> ELSE <<"master">>
  /\ wait' = "none" /\ tries' = tries + 1
  /\ UNCHANGED pre

\* The state of charge is below the limit, or the unit warns.
Restoring(low) ==
  IF Window = "expired" \/ fc[1].camp \/ low \/ Tried >= MaxFails
  THEN Settle(Window # "expired" /\ fc[1].camp)
  ELSE Restore

Decide(low) ==
  IF Arms
  THEN /\ owe' = TRUE /\ pre' = pUsb /\ until' = "none" /\ fails' = 0
       /\ UNCHANGED <<chain, wait, tries>>
  ELSE IF Cancels THEN Settle(TRUE)
  ELSE IF owe /\ Window # "none" /\ ~Ignition THEN Restoring(low)
  ELSE /\ until' = Window /\ fails' = Tried
       /\ UNCHANGED <<owe, pre, chain, wait, tries>>

Track == /\ pIgn' = Ignition
         /\ pCamp' = fc[1].camp /\ pUsb' = fc[1].usb

\* step(): the frames are read, the decision taken, the state saved.  A
\* command ends within 4 s and steps are 30 s apart, so none is left over
\* from an earlier chain.
Step(low) ==
  LET ignSeen == Known /\ (fc[1].ign \/ (fv # <<>> /\ fv[1])) IN
  /\ ready /\ chain = <<>> /\ wait = "none"
  /\ \/ /\ on /\ Known /\ Decide(low) /\ Track
     \/ /\ on /\ Gap
        /\ until' = IF resume /\ owe THEN "open" ELSE until
        /\ UNCHANGED <<owe, pre, fails, pIgn, pCamp, pUsb, chain, wait, tries>>
     \/ /\ ~on
        /\ pIgn' = IF fv = <<>> /\ Gap THEN pIgn ELSE Ignition
        /\ pCamp' = IF Gap THEN pCamp ELSE fc[1].camp
        /\ pUsb' = IF Gap THEN pUsb ELSE fc[1].usb
        /\ UNCHANGED <<owe, pre, until, fails, chain, wait, tries>>
  /\ resume' = (resume /\ ~on)
  /\ \/ Saved /\ UNCHANGED used
        /\ due' = due
     \/ NotSaved /\ Count({"lost"})
        /\ due' = FALSE
  /\ saw' = (saw \/ ignSeen)
  /\ UNCHANGED <<vehicle, link, on, nvOn, offAck, ownerOff>>

\* The window's 120 s pass.
WindowEnds ==
  /\ until = "open" /\ until' = "expired"
  /\ UNCHANGED <<vehicle, link, owe, pre, fails, pIgn, pCamp, pUsb, on, resume,
                 chain, wait, flash, hist, used>>

----------------------------------------------------------------------------
\* chain_tick and chain_done: the next command is submitted, or refused
\* until its time is over; a result other than OK ends the restore.
Submit ==
  /\ ready /\ chain # <<>> /\ wait = "none" /\ wait' = Head(chain)
  /\ UNCHANGED <<vehicle, link, debt, on, resume, chain, flash, hist, used>>

NotSent ==
  /\ chain # <<>> /\ wait = "none" /\ chain' = <<>>
  /\ UNCHANGED <<vehicle, link, debt, on, resume, wait, flash, hist, used>>

Applied ==
  /\ ~ign /\ ready
  /\ \/ wait = "master" /\ camp' = TRUE /\ UNCHANGED usb
     \/ wait = "usb" /\ camp /\ usb' = TRUE /\ UNCHANGED camp

Unapplied == UNCHANGED <<camp, usb>>

CommandEnds ==
  /\ wait # "none" /\ wait' = "none"
  /\ \/ Applied /\ chain' = IF chain = <<>> THEN <<>> ELSE Tail(chain)
     \/ (Applied \/ Unapplied) /\ chain' = <<>>
  /\ UNCHANGED <<ign, link, debt, on, resume, flash, hist, used>>

----------------------------------------------------------------------------
\* A slip: the toggle is stored first, whatever happens to the debt.
RejectedStored(b) ==
  /\ nvOn' = b /\ offAck' = ~b
  /\ \/ Saved /\ Count({"toggle"})
     \/ NotSaved /\ Count({"toggle", "lost"})

\* cali_ac_set_enabled: off clears the debt, and so does off -> on; the
\* toggle is stored only after the debt was.
Stored(b) ==
  \/ Saved /\ nvOn' = b /\ offAck' = ~b /\ Count({"toggle"})
  \/ /\ Saved \/ NotSaved
     /\ UNCHANGED nvOn /\ offAck' = FALSE /\ Count({"toggle", "lost"})

SetEnabled(b) ==
  /\ on' = b /\ due' = FALSE
  /\ IF ~b \/ ~on
     THEN owe' = FALSE /\ until' = "none" /\ fails' = 0 /\ resume' = FALSE /\ chain' = <<>>
     ELSE UNCHANGED <<owe, until, fails, resume, chain>>
  /\ UNCHANGED <<pre, pIgn, pCamp, pUsb, wait, vehicle, link, tries, saw, ownerOff>>
  /\ Stored(b)

\* A reboot: cali_ac_init takes the debt from flash, and a window that was
\* open is opened afresh by the first step; the tries made are kept.
TriesKept == nvDebt.fails

\* A slip: an open window is forgotten.
RejectedResumes == FALSE

Resumes == nvDebt.open /\ nvDebt.owe

Reboot ==
  /\ Count({"reboot"})
  /\ on' = nvOn
  /\ owe' = nvDebt.owe /\ pre' = nvDebt.pre /\ until' = "none"
  /\ fails' = TriesKept /\ resume' = Resumes
  /\ pIgn' = nvDebt.ign /\ pCamp' = nvDebt.camp /\ pUsb' = nvDebt.usb
  /\ chain' = <<>> /\ wait' = "none"
  /\ ready' = FALSE /\ fv' = <<>> /\ fc' = <<>>
  /\ UNCHANGED <<vehicle, flash, hist>>

Steps == \E low \in BOOLEAN : Step(low)
Next == \/ EngineStarts \/ Shed \/ Parks \/ OwnerSwitches
        \/ Push \/ LinkUp \/ LinkDown \/ WindowEnds
        \/ Steps \/ Submit \/ NotSent \/ CommandEnds
        \/ \E b \in BOOLEAN : SetEnabled(b)
        \/ Reboot

Spec == Init /\ [][Next]_vars

\* The owner task ticks for ever; a command ends by its deadline.
FairSpec == Spec /\ WF_vars(Steps) /\ WF_vars(Submit \/ NotSent) /\ WF_vars(CommandEnds)

----------------------------------------------------------------------------
\* Properties.

\* The tries are bounded (CALI_AC_MAX_FAILS): over any number of reboots,
\* links and switches, no more restores are begun than MaxFails per engine
\* start, plus one for every write of the debt that flash lost.
Budget == MaxFails * used.drive + used.lost
TriesBounded == tries <= Budget

\* A drive seen is a debt owed: when the engine started with camping on and
\* a step saw its ignition in either frame, the debt is held until the park,
\* in whatever order the frames came and over a reboot or a lost link.
DriveIsRemembered == ign /\ due /\ saw => owe

\* An acknowledged "off" stays off: no debt, no restore going out, and no
\* reboot brings either back (cali_ac_set_enabled stores the debt first).
OffMeansOff == offAck => ~on /\ ~owe /\ chain = <<>>

\* What these rest on.  An acknowledged "off" is off in flash as well.  A drive
\* that is due finds camping on and the ignition off at the last step, in RAM and
\* in flash, until a step sees it; from then on the debt and the ignition are in
\* both.  A camping frame of before the drive still shows it on.
OffInv == offAck => ~on /\ ~nvOn /\ ~owe /\ ~nvDebt.owe /\ chain = <<>>
DriveInv ==
  ign /\ due =>
    /\ on /\ nvOn
    /\ ~saw => /\ pCamp /\ ~pIgn /\ nvDebt.camp /\ ~nvDebt.ign
               /\ fc # <<>> /\ ~fc[1].ign => fc[1].camp
    /\ saw => /\ owe /\ pIgn /\ nvDebt.owe /\ nvDebt.ign
              /\ fc # <<>> => Ignition

\* The tries a debt may still cost, were it this one: those left of it; all of them
\* once its park is seen; and all of a drive that no step has seen the ignition of.
Coming == ign /\ (fv # <<>> \/ fc # <<>>) /\ ~Ignition
Here == ign \/ Ignition
Owing(owes, failed, ignSeen) ==
  (IF owes THEN (IF ignSeen THEN MaxFails ELSE MaxFails - failed) ELSE 0)
    + (IF (IF ignSeen THEN Coming ELSE Here) THEN MaxFails ELSE 0)

\* The tries made and those still to come, of the debt in RAM or of the one a reboot
\* finds in flash, are within the budget.
TriesInv ==
  /\ {fails, nvDebt.fails} \subseteq 0..MaxFails /\ tries \in Nat
  /\ used \in [DOMAIN Bounds -> Nat]
  /\ tries + Owing(owe, fails, pIgn) <= Budget
  /\ tries + Owing(nvDebt.owe, nvDebt.fails, nvDebt.ign) <= Budget

\* The inductive invariant: a drive seen is remembered, an acknowledged "off" is off and
\* the tries are bounded, in RAM and in what a reboot will read (auto_camper_run.c save,
\* set_enabled).
CamperInv == OffInv /\ DriveInv /\ TriesInv

Quiet == /\ ~ign /\ ready /\ on
         /\ fv = <<ign>> /\ fc = <<CampFrame>>
\* A vehicle that stays parked with a ready link and fresh frames ends up
\* owing nothing: the debt is paid, refused or given up, a window that was
\* open at a reboot included (auto_camper.c cali_ac_decide).
DebtSettles == <>[]Quiet => <>[]~owe

\* "Manual off is respected ... switching camper mode off yourself sticks"
\* (docs/business-logic/auto-camper-mode.md): once the owner switched it off
\* with no restore in the air, it is off until they switch it on or drive.
ManualOffSticks == ownerOff => ~camp

============================================================================
