-------------------------- MODULE AutoCamperProofs --------------------------
(***************************************************************************)
(* What the auto camper promises, for every bound: an acknowledged "off"   *)
(* stays off, and a drive that a step saw stays a debt until the park.     *)
(* Neither is inductive as it stands: a reboot takes the state from flash, *)
(* so CamperInv says what flash holds as well.                             *)
(*                                                                         *)
(* The restores are bounded because every one is paid for: the debt in RAM *)
(* and the one in flash each carry what they may still cost (Owing), and   *)
(* only an engine start or a lost write of the debt raises what may be     *)
(* spent.                                                                  *)
(***************************************************************************)
EXTENDS AutoCamper, TLAPS

\* The two promises, without the count of the restores.
HeldInv == OffInv /\ DriveInv

\* A first boot with an empty flash owes nothing (cali_ac_init).
LEMMA InitCamper == Init => HeldInv
  BY DEF Init, HeldInv, OffInv, DriveInv

----------------------------------------------------------------------------
\* The vehicle, the owner and the link.
LEMMA EngineStartsKeeps == HeldInv /\ EngineStarts => HeldInv'
<1> SUFFICES ASSUME HeldInv, EngineStarts PROVE HeldInv'
  OBVIOUS
<1>1. OffInv'
  BY DEF EngineStarts, HeldInv, OffInv, link, ram, debt, flash
<1>2. UNCHANGED <<fc, on, nvOn, pCamp, pIgn, nvDebt>> /\ ~saw'
  BY DEF EngineStarts, link, ram, debt, flash
<1>3. due' => /\ on /\ nvOn /\ camp /\ pCamp /\ ~pIgn /\ nvDebt.camp /\ ~nvDebt.ign
              /\ fc \in {<<>>, <<CampFrame>>}
  BY DEF EngineStarts
<1>4. ASSUME due', fc # <<>> PROVE fc[1].camp
  <2>1. fc = <<CampFrame>> /\ camp
    BY <1>3, <1>4
  <2>2. fc[1] = CampFrame
    BY <2>1
  <2> QED
    BY <2>1, <2>2 DEF CampFrame
<1>5. DriveInv'
  BY <1>2, <1>3, <1>4 DEF DriveInv
<1> QED
  BY <1>1, <1>5 DEF HeldInv

\* What the vehicle and its owner do touches neither RAM nor flash.
LEMMA VehicleKeeps == HeldInv /\ (Shed \/ Parks \/ OwnerSwitches) => HeldInv'
<1> SUFFICES ASSUME HeldInv, Shed \/ Parks \/ OwnerSwitches PROVE HeldInv'
  OBVIOUS
<1>1. OffInv'
  BY DEF Shed, Parks, OwnerSwitches, HeldInv, OffInv, link, ram, debt, flash, hist
<1>2. DriveInv'
  BY DEF Shed, Parks, OwnerSwitches, HeldInv, DriveInv, Ignition, link, ram, debt, flash, hist
<1> QED
  BY <1>1, <1>2 DEF HeldInv

\* Frames and the link: a frame the satellite has not stepped on changes no debt.
LEMMA LinkKeeps == HeldInv /\ (Push \/ LinkUp \/ LinkDown) => HeldInv'
<1> SUFFICES ASSUME HeldInv, Push \/ LinkUp \/ LinkDown PROVE HeldInv'
  OBVIOUS
<1>1. OffInv'
  BY DEF Push, LinkUp, LinkDown, HeldInv, OffInv, ram, debt, flash, hist
<1>2. UNCHANGED <<ign, camp, on, nvOn, owe, pCamp, pIgn, nvDebt, due, saw>>
  BY DEF Push, LinkUp, LinkDown, vehicle, ram, debt, flash, hist
<1>3. /\ fc' = fc \/ fc' = <<>> \/ fc' = <<CampFrame>>
      /\ fv' = fv \/ fv' = <<>> \/ fv' = <<ign>>
      /\ fv' = <<>> => fv = <<>> \/ fc' \in {<<>>, <<CampFrame>>}
      /\ fc' = fc => fc = <<>> \/ fc = <<CampFrame>> \/ fv' \in {fv, <<ign>>}
  BY DEF Push, LinkUp, LinkDown
<1>4. ASSUME ign, due PROVE DriveInv'
  <2>1. CASE fc' = <<CampFrame>>
    <3>1. fc' # <<>> /\ fc'[1].ign
      BY <1>4, <2>1 DEF CampFrame
    <3> QED
      BY <1>2, <1>4, <3>1 DEF HeldInv, DriveInv, Ignition
  <2>2. CASE fc' = <<>>
    BY <1>2, <1>4, <2>2 DEF HeldInv, DriveInv
  <2>3. CASE fc' = fc /\ fv' = fv
    BY <1>2, <1>4, <2>3 DEF HeldInv, DriveInv, Ignition
  <2>4. CASE fc' = fc /\ fv' = <<ign>>
    <3>1. fv' # <<>> /\ fv'[1]
      BY <1>4, <2>4
    <3> QED
      BY <1>2, <1>4, <2>4, <3>1 DEF HeldInv, DriveInv, Ignition
  <2> QED
    BY <1>3, <2>1, <2>2, <2>3, <2>4
<1>5. DriveInv'
  BY <1>2, <1>4 DEF DriveInv
<1> QED
  BY <1>1, <1>5 DEF HeldInv

----------------------------------------------------------------------------
\* A step: the debt is armed by the first sight of a drive that is due, and
\* kept while the ignition is seen; a step that could not save ends "due".
LEMMA StepKeeps == HeldInv /\ Steps => HeldInv'
<1> SUFFICES ASSUME HeldInv, NEW low \in BOOLEAN, Step(low) PROVE HeldInv'
  BY DEF Steps
<1> DEFINE ignSeen == Known /\ (fc[1].ign \/ (fv # <<>> /\ fv[1]))
<1>1. UNCHANGED <<ign, fv, fc, on, nvOn, offAck>>
  BY DEF Step, vehicle, link
<1>2. offAck => UNCHANGED <<owe, chain>>
  BY DEF Step, HeldInv, OffInv
<1>3. nvDebt' = Packed \/ (due' = FALSE /\ nvDebt' = nvDebt)
  BY DEF Step, Saved, NotSaved
<1>4. OffInv'
  BY <1>1, <1>2, <1>3 DEF HeldInv, OffInv, Packed
<1>5. ASSUME ign, due, due' PROVE DriveInv'
  <2>1. on /\ nvOn /\ nvDebt' = Packed /\ saw' = (saw \/ ignSeen)
    BY <1>3, <1>5 DEF HeldInv, DriveInv, Step, Saved, NotSaved
  <2>2. CASE Gap
    <3>1. UNCHANGED <<owe, pIgn, pCamp>>
      BY <2>1, <2>2 DEF Step, Known, Gap
    <3>2. (saw' <=> saw) /\ fc' = <<>>
      BY <1>1, <2>1, <2>2 DEF Known, Gap
    <3> QED
      BY <1>1, <1>5, <2>1, <3>1, <3>2 DEF HeldInv, DriveInv, Packed
  <2>3. CASE ~Gap
    <3>1. Decide(low) /\ Track
      BY <2>1, <2>3 DEF Step, Gap
    <3>2. CASE saw
      <4>1. owe' /\ pIgn'
        BY <1>5, <2>3, <3>1, <3>2 DEF HeldInv, DriveInv, Decide, Arms, Cancels, Track, Gap
      <4> QED
        BY <1>1, <1>5, <2>1, <2>3, <3>2, <4>1 DEF HeldInv, DriveInv, Packed, Ignition, Gap
    <3>3. CASE ~saw /\ Ignition
      <4>1. owe' /\ pIgn'
        BY <1>5, <3>1, <3>3 DEF HeldInv, DriveInv, Decide, Arms, Cancels, Track
      <4> QED
        <5>1. saw'
          <6>1. ignSeen
            BY <2>3, <3>3 DEF Ignition, Gap, Known
          <6> HIDE DEF ignSeen
          <6> QED
            BY <2>1, <6>1
        <5>2. nvDebt'.owe /\ nvDebt'.ign
          BY <2>1, <4>1 DEF Packed
        <5> QED
          BY <1>1, <2>1, <3>3, <4>1, <5>1, <5>2 DEF DriveInv, Ignition
    <3>4. CASE ~saw /\ ~Ignition
      <4>1. pCamp' /\ ~pIgn'
        BY <1>5, <2>3, <3>1, <3>4 DEF HeldInv, DriveInv, Track, Ignition, Gap
      <4> QED
        BY <1>1, <1>5, <2>1, <2>3, <3>4, <4>1 DEF HeldInv, DriveInv, Packed, Ignition, Gap, Known
    <3> QED
      BY <3>2, <3>3, <3>4
  <2> QED
    BY <2>2, <2>3
<1>6. DriveInv'
  BY <1>1, <1>5 DEF Step, DriveInv
<1> QED
  BY <1>4, <1>6 DEF HeldInv

\* The restore chain and the end of its window (chain_tick, chain_done).
LEMMA ChainKeeps == HeldInv /\ (WindowEnds \/ Submit \/ NotSent \/ CommandEnds) => HeldInv'
<1> SUFFICES ASSUME HeldInv, WindowEnds \/ Submit \/ NotSent \/ CommandEnds PROVE HeldInv'
  OBVIOUS
<1>1. UNCHANGED <<ign, fv, fc, owe, pIgn, pCamp, on, nvDebt, nvOn, due, saw, offAck>>
  BY DEF WindowEnds, Submit, NotSent, CommandEnds, vehicle, link, debt, flash, hist
<1>2. offAck => chain' = <<>>
  BY DEF WindowEnds, Submit, NotSent, CommandEnds, HeldInv, OffInv
<1> QED
  BY <1>1, <1>2 DEF HeldInv, OffInv, DriveInv, Ignition

----------------------------------------------------------------------------
\* The toggle: "off" is acknowledged only with the cleared debt in flash.
LEMMA SetEnabledKeeps ==
  ASSUME HeldInv, NEW b \in BOOLEAN, SetEnabled(b) PROVE HeldInv'
<1>1. OffInv'
  <2>1. offAck' => ~b /\ nvDebt' = Packed /\ nvOn' = b
    BY DEF SetEnabled, Stored, Saved
  <2>2. on' = b /\ (~b => owe' = FALSE /\ chain' = <<>>)
    BY DEF SetEnabled
  <2> QED
    BY <2>1, <2>2 DEF OffInv, Packed
<1>2. DriveInv'
  BY DEF SetEnabled, DriveInv
<1> QED
  BY <1>1, <1>2 DEF HeldInv

\* A reboot takes the debt from flash, of which HeldInv knows the same as of RAM.
LEMMA RebootKeeps == HeldInv /\ Reboot => HeldInv'
  BY DEF Reboot, HeldInv, OffInv, DriveInv, vehicle, flash, hist

----------------------------------------------------------------------------
(* The restores are bounded.                                                *)

\* One more time m is m more.
LEMMA Times == ASSUME NEW m \in Nat, NEW d \in Nat
               PROVE m * d \in Nat /\ m * (d + 1) = m * d + m
  OBVIOUS

\* What a bounded event adds to its count.
LEMMA CountAdds ==
  ASSUME NEW es, used \in [DOMAIN Bounds -> Nat], Count(es)
  PROVE  /\ used' \in [DOMAIN Bounds -> Nat]
         /\ used'.drive = IF "drive" \in es THEN used.drive + 1 ELSE used.drive
         /\ used'.lost = IF "lost" \in es THEN used.lost + 1 ELSE used.lost
  BY DEF Count, Bounds

\* An engine start raises the budget by a round of tries, a lost write by one.
LEMMA BudgetGrows ==
  ASSUME NEW es, used \in [DOMAIN Bounds -> Nat], Count(es)
  PROVE  /\ Budget \in Nat /\ Budget' \in Nat /\ used' \in [DOMAIN Bounds -> Nat]
         /\ Budget' >= Budget
         /\ "drive" \in es => Budget' >= Budget + MaxFails
         /\ "lost" \in es => Budget' >= Budget + 1
<1> DEFINE d == used.drive
           l == used.lost
<1>1. MaxFails \in Nat /\ d \in Nat /\ l \in Nat
  BY BoundsAssumption DEF Bounds
<1>2. /\ used' \in [DOMAIN Bounds -> Nat]
      /\ used'.drive \in {d, d + 1} /\ used'.lost \in {l, l + 1}
      /\ "drive" \in es => used'.drive = d + 1
      /\ "lost" \in es => used'.lost = l + 1
  BY CountAdds
<1>3. Budget = MaxFails * d + l /\ Budget' = MaxFails * used'.drive + used'.lost
  BY DEF Budget
<1> HIDE DEF d, l
<1>4. MaxFails * d \in Nat /\ MaxFails * (d + 1) = MaxFails * d + MaxFails
  BY <1>1, Times
<1> DEFINE p == MaxFails * d
<1>5. MaxFails * used'.drive \in {p, p + MaxFails}
      /\ ("drive" \in es => MaxFails * used'.drive = p + MaxFails)
  BY <1>2, <1>4
<1> DEFINE q == MaxFails * used'.drive
<1>6. p \in Nat /\ q \in {p, p + MaxFails} /\ ("drive" \in es => q = p + MaxFails)
      /\ Budget = p + l /\ Budget' = q + used'.lost
  BY <1>3, <1>4, <1>5
<1> HIDE DEF p, q
<1> QED
  BY <1>1, <1>2, <1>6

\* The budget and the cap of failures are numbers.
LEMMA BudgetType ==
  ASSUME used \in [DOMAIN Bounds -> Nat] PROVE Budget \in Nat /\ MaxFails \in Nat
<1>1. MaxFails \in Nat /\ used.drive \in Nat /\ used.lost \in Nat
  BY BoundsAssumption DEF Bounds
<1>2. MaxFails * used.drive \in Nat
  BY <1>1, Times
<1> QED
  BY <1>1, <1>2 DEF Budget

\* Owing, of the Booleans it is made of.
Cost(owes, failed, ignSeen, coming, here) ==
  (IF owes THEN (IF ignSeen THEN MaxFails ELSE MaxFails - failed) ELSE 0)
    + (IF (IF ignSeen THEN coming ELSE here) THEN MaxFails ELSE 0)

\* It is a number, and without the ignition ahead it costs no more.
LEMMA CostFalls ==
  ASSUME MaxFails \in Nat, NEW owes, NEW failed \in 0..MaxFails, NEW ignSeen,
         NEW coming, NEW here, NEW coming2, NEW here2,
         coming2 => coming, here2 => here
  PROVE  /\ Cost(owes, failed, ignSeen, coming, here) \in Nat
         /\ Cost(owes, failed, ignSeen, coming2, here2) \in Nat
         /\ Cost(owes, failed, ignSeen, coming2, here2)
              <= Cost(owes, failed, ignSeen, coming, here)
  BY DEF Cost

\* A debt and a budget that are left as they are: enough that no drive came.
LEMMA NoDrive ==
  ASSUME TriesInv, Coming' => Coming, Here' => Here,
         UNCHANGED <<owe, fails, pIgn, nvDebt, tries>>,
         UNCHANGED used \/ \E es \in SUBSET DOMAIN Bounds : Count(es)
  PROVE  TriesInv'
<1>1. Budget \in Nat /\ Budget' \in Nat /\ Budget' >= Budget
      /\ used' \in [DOMAIN Bounds -> Nat]
  <2>1. CASE UNCHANGED used
    BY <2>1, BudgetType DEF TriesInv, Budget
  <2>2. CASE \E es \in SUBSET DOMAIN Bounds : Count(es)
    BY <2>2, BudgetGrows DEF TriesInv
  <2> QED
    BY <2>1, <2>2
<1>2. MaxFails \in Nat /\ fails \in 0..MaxFails /\ nvDebt.fails \in 0..MaxFails /\ tries \in Nat
  BY BudgetType DEF TriesInv
<1> DEFINE r == Cost(owe, fails, pIgn, Coming, Here)
           r2 == Cost(owe, fails, pIgn, Coming', Here')
           f == Cost(nvDebt.owe, nvDebt.fails, nvDebt.ign, Coming, Here)
           f2 == Cost(nvDebt.owe, nvDebt.fails, nvDebt.ign, Coming', Here')
<1>3. r \in Nat /\ r2 \in Nat /\ r2 <= r /\ f \in Nat /\ f2 \in Nat /\ f2 <= f
  BY <1>2, CostFalls
<1>4. tries + r <= Budget /\ tries + f <= Budget
  BY DEF TriesInv, Owing, Cost
<1> HIDE DEF r, r2, f, f2
<1>5. tries + r2 <= Budget' /\ tries + f2 <= Budget'
  BY <1>1, <1>2, <1>3, <1>4
<1>6. Owing(owe, fails, pIgn)' = r2
      /\ Owing(nvDebt.owe, nvDebt.fails, nvDebt.ign)' = f2
  BY DEF Owing, Cost, r2, f2
<1> QED
  BY <1>1, <1>2, <1>5, <1>6 DEF TriesInv

\* An engine start brings a round of tries, and the budget for it.
LEMMA EngineStartsPays == ASSUME TriesInv, EngineStarts PROVE TriesInv'
<1>1. /\ ~Coming /\ UNCHANGED <<owe, fails, pIgn, nvDebt, tries, fv, fc>> /\ Count({"drive"})
  BY DEF EngineStarts, Coming, link, ram, debt, flash
<1>2. Budget \in Nat /\ Budget' \in Nat /\ Budget' >= Budget + MaxFails
      /\ used' \in [DOMAIN Bounds -> Nat]
  BY <1>1, BudgetGrows DEF TriesInv
<1>3. MaxFails \in Nat /\ fails \in 0..MaxFails /\ nvDebt.fails \in 0..MaxFails /\ tries \in Nat
  BY BudgetType DEF TriesInv
<1>4. ASSUME NEW owes, NEW failed \in 0..MaxFails, NEW seen, tries + Owing(owes, failed, seen) <= Budget
      PROVE  tries + Cost(owes, failed, seen, Coming', Here') <= Budget'
  <2> DEFINE c == Owing(owes, failed, seen)
             c2 == Cost(owes, failed, seen, Coming', Here')
  <2>1. c \in Nat /\ c2 \in Nat /\ c2 <= c + MaxFails
    BY <1>1, <1>3 DEF Cost, Owing
  <2>2. tries + c <= Budget
    BY <1>4
  <2> HIDE DEF c, c2
  <2>3. tries + c2 <= Budget'
    BY <1>2, <1>3, <2>1, <2>2
  <2> QED
    BY <2>3 DEF c2
<1>5. tries + Owing(owe, fails, pIgn) <= Budget
      /\ tries + Owing(nvDebt.owe, nvDebt.fails, nvDebt.ign) <= Budget
  BY DEF TriesInv
<1>6. tries + Cost(owe, fails, pIgn, Coming', Here') <= Budget'
      /\ tries + Cost(nvDebt.owe, nvDebt.fails, nvDebt.ign, Coming', Here') <= Budget'
  BY <1>3, <1>4, <1>5
<1> QED
  BY <1>1, <1>2, <1>3, <1>6 DEF TriesInv, Owing, Cost

\* What else the vehicle, its owner and the link do brings no drive: a frame
\* shows the ignition as it is.
LEMMA VehiclePays ==
  ASSUME TriesInv, Shed \/ Parks \/ OwnerSwitches PROVE TriesInv'
<1>1. UNCHANGED <<owe, fails, pIgn, nvDebt, tries, fv, fc>> /\ (ign' => ign)
  BY DEF Shed, Parks, OwnerSwitches, link, ram, debt, flash, hist
<1>2. (Coming' => Coming) /\ (Here' => Here)
  BY <1>1 DEF Coming, Here, Ignition
<1>3. UNCHANGED used \/ \E es \in SUBSET DOMAIN Bounds : Count(es)
  BY DEF Shed, Parks, OwnerSwitches, Bounds
<1> QED
  BY <1>1, <1>2, <1>3, NoDrive

\* A frame pushed by the unit and the link's coming and going stay within the budget.
LEMMA LinkPays == ASSUME TriesInv, Push \/ LinkUp \/ LinkDown PROVE TriesInv'
<1>1. UNCHANGED <<owe, fails, pIgn, nvDebt, tries, ign, used>>
  BY DEF Push, LinkUp, LinkDown, vehicle, ram, debt, flash, hist
<1>2. /\ fv' # <<>> => fv' = fv \/ fv' = <<ign>>
      /\ fc' # <<>> => fc' = fc \/ (fc' = <<CampFrame>> /\ fc'[1].ign = ign)
      /\ \/ fv' = <<>> /\ fc' = <<>>
         \/ fv' = <<ign>>
         \/ fc' = <<CampFrame>> /\ fc'[1].ign = ign
  BY DEF Push, LinkUp, LinkDown, CampFrame
<1>3. ~Coming' /\ (Here' => Here)
  BY <1>1, <1>2 DEF Coming, Here, Ignition
<1> QED
  BY <1>1, <1>3, NoDrive

\* A step of a command stays within the budget.
LEMMA ChainPays ==
  ASSUME TriesInv, WindowEnds \/ Submit \/ NotSent \/ CommandEnds PROVE TriesInv'
<1>1. UNCHANGED <<owe, fails, pIgn, nvDebt, tries, ign, fv, fc, used>>
  BY DEF WindowEnds, Submit, NotSent, CommandEnds, vehicle, link, debt, flash, hist
<1>2. (Coming' => Coming) /\ (Here' => Here)
  BY <1>1 DEF Coming, Here, Ignition
<1> QED
  BY <1>1, <1>2, NoDrive

\* A decision takes its try out of what the debt may still cost.
LEMMA DecidePays ==
  ASSUME MaxFails \in Nat, fails \in 0..MaxFails, tries \in Nat, NEW low \in BOOLEAN,
         Known, Decide(low), Track
  PROVE  /\ fails' \in 0..MaxFails /\ tries' \in {tries, tries + 1}
         /\ tries' + Cost(owe', fails', pIgn', Coming, Here)
              <= tries + Cost(owe, fails, pIgn, Coming, Here)
<1>1. (pIgn' <=> Ignition) /\ (Ignition => Here /\ ~Coming) /\ (~Ignition => (Coming <=> Here))
  BY DEF Track, Known, Gap, Coming, Here
<1>2. Tried \in 0..MaxFails
  BY DEF Tried
<1>3. CASE Arms
  <2>1. owe' /\ fails' = 0 /\ tries' = tries
    BY <1>3 DEF Decide
  <2> QED
    BY <1>1, <1>3, <2>1 DEF Cost, Arms
<1>4. CASE ~Arms /\ Cancels
  <2>1. ~owe' /\ fails' = 0 /\ tries' = tries
    BY <1>4 DEF Decide, Settle
  <2> QED
    BY <1>1, <1>4, <2>1 DEF Cost, Cancels
<1>5. CASE ~Arms /\ ~Cancels /\ owe /\ Window # "none" /\ ~Ignition
  <2>1. Restoring(low)
    BY <1>5 DEF Decide
  <2>2. CASE Tried < MaxFails /\ Restore
    <3>1. owe' /\ fails' = Tried + 1 /\ tries' = tries + 1
      BY <2>2 DEF Restore
    <3>2. Tried = IF pIgn THEN 0 ELSE fails
      BY <1>5 DEF Tried, ParkSeen
    <3> QED
      BY <1>1, <1>2, <1>5, <2>2, <3>1, <3>2 DEF Cost
  <2>3. CASE Settle(Window # "expired" /\ fc[1].camp)
    <3>1. ~owe' /\ fails' \in {0, Tried} /\ tries' = tries
      BY <2>3 DEF Settle
    <3> QED
      BY <1>1, <1>2, <1>5, <3>1 DEF Cost
  <2> QED
    <3>1. Tried >= MaxFails \/ Tried < MaxFails
      BY <1>2
    <3> QED
      BY <2>1, <2>2, <2>3, <3>1 DEF Restoring
<1>6. CASE ~Arms /\ ~Cancels /\ ~(owe /\ Window # "none" /\ ~Ignition)
  <2>1. fails' = Tried /\ UNCHANGED <<owe, tries>>
    BY <1>6 DEF Decide
  <2>2. owe => ~ParkSeen
    BY <1>6 DEF ParkSeen, Window
  <2> QED
    BY <1>1, <1>2, <1>6, <2>1, <2>2 DEF Cost, Tried, Arms
<1> QED
  BY <1>3, <1>4, <1>5, <1>6

\* So does every step; one that decides nothing may see the park.
LEMMA StepCosts ==
  ASSUME MaxFails \in Nat, fails \in 0..MaxFails, tries \in Nat, NEW low \in BOOLEAN, Step(low)
  PROVE  /\ fails' \in 0..MaxFails /\ tries' \in {tries, tries + 1}
         /\ tries' + Cost(owe', fails', pIgn', Coming, Here)
              <= tries + Cost(owe, fails, pIgn, Coming, Here)
<1>1. CASE on /\ Known /\ Decide(low) /\ Track
  BY <1>1, DecidePays
<1>2. CASE on /\ Gap /\ UNCHANGED <<owe, fails, pIgn, tries>>
  BY <1>2 DEF Cost
<1>3. CASE /\ pIgn' = IF fv = <<>> /\ Gap THEN pIgn ELSE Ignition
           /\ UNCHANGED <<owe, fails, tries>>
  <2>1. Ignition => Here /\ ~Coming
    BY DEF Coming, Here
  <2>2. ~Ignition /\ ~(fv = <<>> /\ Gap) => (Coming <=> Here)
    BY DEF Coming, Here, Gap
  <2>3. fv = <<>> /\ Gap => ~Coming /\ ~Ignition
    BY DEF Coming, Gap, Ignition
  <2> QED
    BY <1>3, <2>1, <2>2, <2>3 DEF Cost
<1> QED
  BY <1>1, <1>2, <1>3 DEF Step

\* A step that saves puts the same in flash; one that cannot leaves flash a
\* try short, which the budget has for every lost write.
LEMMA StepPays == ASSUME TriesInv, Steps PROVE TriesInv'
<1>1. PICK low \in BOOLEAN : Step(low)
  BY DEF Steps
<1>2. /\ MaxFails \in Nat /\ Budget \in Nat /\ tries \in Nat
      /\ fails \in 0..MaxFails /\ nvDebt.fails \in 0..MaxFails
  BY BudgetType DEF TriesInv
<1> DEFINE r == Cost(owe, fails, pIgn, Coming, Here)
           r2 == Cost(owe', fails', pIgn', Coming, Here)
           f == Cost(nvDebt.owe, nvDebt.fails, nvDebt.ign, Coming, Here)
           f2 == Cost(nvDebt'.owe, nvDebt'.fails, nvDebt'.ign, Coming, Here)
<1>3. fails' \in 0..MaxFails /\ tries' \in {tries, tries + 1} /\ tries' + r2 <= tries + r
  BY <1>1, <1>2, StepCosts
<1>4. r \in Nat /\ r2 \in Nat /\ f \in Nat
  BY <1>2, <1>3, CostFalls
<1>5. tries + r <= Budget /\ tries + f <= Budget
  BY DEF TriesInv, Owing, Cost
<1>6. /\ Owing(owe, fails, pIgn)' = r2
      /\ Owing(nvDebt.owe, nvDebt.fails, nvDebt.ign)' = f2
  <2>1. UNCHANGED <<ign, fv, fc>>
    BY <1>1 DEF Step, vehicle, link
  <2> QED
    BY <2>1 DEF Owing, Cost, Coming, Here, Ignition
<1> HIDE DEF r, r2, f, f2
<1>7. tries' \in Nat /\ tries' <= tries + 1
  BY <1>2, <1>3
<1>8. tries' + r2 <= tries + r
  BY <1>3
<1>9. CASE Saved /\ UNCHANGED used
  <2>1. Budget' = Budget /\ used' \in [DOMAIN Bounds -> Nat]
    BY <1>9 DEF Budget, TriesInv
  <2>2. nvDebt'.owe = owe' /\ nvDebt'.fails = fails' /\ nvDebt'.ign = pIgn'
    BY <1>9 DEF Saved, Packed
  <2>3. f2 = r2
    BY <2>2 DEF f2, r2
  <2>4. tries' + r2 <= Budget'
    <3>1. \A t \in Nat : t + r2 <= tries + r => t + r2 <= Budget
      BY <1>2, <1>4, <1>5
    <3> QED
      BY <1>7, <1>8, <2>1, <3>1
  <2> QED
    BY <1>3, <1>6, <1>7, <2>1, <2>2, <2>3, <2>4 DEF TriesInv
<1>10. CASE NotSaved /\ Count({"lost"})
  <2>1. Budget' \in Nat /\ Budget' >= Budget + 1 /\ used' \in [DOMAIN Bounds -> Nat]
    BY <1>10, BudgetGrows DEF TriesInv
  <2>2. f2 = f /\ nvDebt' = nvDebt
    BY <1>10 DEF NotSaved, f, f2
  <2>3. tries' + r2 <= Budget' /\ tries' + f2 <= Budget'
    <3>1. /\ \A t \in Nat : t + r2 <= tries + r => t + r2 <= Budget'
          /\ \A t \in Nat : t <= tries + 1 => t + f <= Budget'
      BY <1>2, <1>4, <1>5, <2>1
    <3> QED
      BY <1>7, <1>8, <2>2, <3>1
  <2> QED
    BY <1>2, <1>3, <1>6, <1>7, <2>1, <2>2, <2>3 DEF TriesInv
<1> QED
  BY <1>1, <1>9, <1>10 DEF Step

\* The toggle clears the debt in RAM, and in flash when the write is not lost.
LEMMA SetEnabledPays == ASSUME TriesInv, NEW b \in BOOLEAN, SetEnabled(b) PROVE TriesInv'
<1>1. UNCHANGED <<tries, ign, fv, fc, pIgn>>
  BY DEF SetEnabled, vehicle, link
<1>2. \/ owe' = FALSE /\ fails' = 0
      \/ owe' = owe /\ fails' = fails
  BY DEF SetEnabled
<1>3. \/ UNCHANGED nvDebt
      \/ nvDebt'.owe = owe' /\ nvDebt'.fails = fails' /\ nvDebt'.ign = pIgn'
  BY DEF SetEnabled, Stored, Saved, NotSaved, Packed
<1>4. \E es \in SUBSET DOMAIN Bounds : Count(es)
  BY DEF SetEnabled, Stored, Bounds
<1>5. Budget \in Nat /\ Budget' \in Nat /\ Budget' >= Budget /\ used' \in [DOMAIN Bounds -> Nat]
  BY <1>4, BudgetGrows DEF TriesInv
<1>6. /\ MaxFails \in Nat /\ tries \in Nat
      /\ fails \in 0..MaxFails /\ nvDebt.fails \in 0..MaxFails
  BY BudgetType DEF TriesInv
<1> DEFINE r == Owing(owe, fails, pIgn)
           f == Owing(nvDebt.owe, nvDebt.fails, nvDebt.ign)
           r2 == Owing(owe, fails, pIgn)'
           f2 == Owing(nvDebt.owe, nvDebt.fails, nvDebt.ign)'
<1>7. (Coming' <=> Coming) /\ (Here' <=> Here)
  BY <1>1 DEF Coming, Here, Ignition
<1>8. r \in Nat /\ f \in Nat /\ r2 \in Nat /\ r2 <= r /\ (f2 = f \/ f2 = r2)
  <2>1. r \in Nat /\ f \in Nat
    BY <1>6 DEF Owing
  <2>2. r2 \in Nat /\ r2 <= r
    <3>1. CASE owe' = FALSE /\ fails' = 0
      BY <1>1, <1>6, <1>7, <3>1 DEF Owing
    <3>2. CASE owe' = owe /\ fails' = fails
      <4>1. r2 = r
        BY <1>1, <1>7, <3>2 DEF Owing
      <4> QED
        BY <2>1, <4>1
    <3> QED
      BY <1>2, <3>1, <3>2
  <2>3. f2 = f \/ f2 = r2
    <3>1. CASE UNCHANGED nvDebt
      BY <1>7, <3>1 DEF Owing
    <3>2. CASE nvDebt'.owe = owe' /\ nvDebt'.fails = fails' /\ nvDebt'.ign = pIgn'
      BY <3>2
    <3> QED
      BY <1>3, <3>1, <3>2
  <2> QED
    BY <2>1, <2>2, <2>3
<1>9. tries + r <= Budget /\ tries + f <= Budget
  BY DEF TriesInv
<1> HIDE DEF r, f, r2, f2
<1>10. tries' + r2 <= Budget' /\ tries' + f2 <= Budget'
  BY <1>1, <1>5, <1>6, <1>8, <1>9
<1>11. fails' \in 0..MaxFails /\ nvDebt'.fails \in 0..MaxFails
  BY <1>2, <1>3, <1>6
<1> QED
  BY <1>1, <1>5, <1>6, <1>10, <1>11 DEF TriesInv, r2, f2

\* A reboot owes what flash does.
LEMMA RebootPays == ASSUME TriesInv, Reboot PROVE TriesInv'
<1>1. /\ owe' = nvDebt.owe /\ fails' = nvDebt.fails /\ pIgn' = nvDebt.ign
      /\ UNCHANGED <<ign, nvDebt, tries>> /\ fv' = <<>> /\ fc' = <<>>
  BY DEF Reboot, TriesKept, vehicle, flash, hist
<1>2. Budget \in Nat /\ Budget' \in Nat /\ Budget' >= Budget /\ used' \in [DOMAIN Bounds -> Nat]
  BY BudgetGrows DEF TriesInv, Reboot, Bounds
<1>3. MaxFails \in Nat /\ tries \in Nat /\ nvDebt.fails \in 0..MaxFails
  BY BudgetType DEF TriesInv
<1> DEFINE f == Cost(nvDebt.owe, nvDebt.fails, nvDebt.ign, Coming, Here)
           f2 == Cost(nvDebt.owe, nvDebt.fails, nvDebt.ign, Coming', Here')
<1>4. ~Coming' /\ (Here' => Here)
  BY <1>1 DEF Coming, Here, Ignition
<1>5. f \in Nat /\ f2 \in Nat /\ f2 <= f
  BY <1>3, <1>4, CostFalls
<1>6. tries + f <= Budget
  BY DEF TriesInv, Owing, Cost
<1> HIDE DEF f, f2
<1>7. tries' + f2 <= Budget'
  BY <1>1, <1>2, <1>3, <1>5, <1>6
<1>8. /\ Owing(owe, fails, pIgn)' = f2
      /\ Owing(nvDebt.owe, nvDebt.fails, nvDebt.ign)' = f2
  BY <1>1 DEF Owing, Cost, f2
<1> QED
  BY <1>1, <1>2, <1>3, <1>7, <1>8 DEF TriesInv

\* At the start nothing has been tried.
LEMMA InitPays == Init => TriesInv
<1> SUFFICES ASSUME Init PROVE TriesInv
  OBVIOUS
<1>1. used \in [DOMAIN Bounds -> Nat]
  BY DEF Init, Bounds
<1>2. Budget \in Nat /\ MaxFails \in Nat
  BY <1>1, BudgetType
<1>3. ~Coming /\ ~Here /\ ~owe /\ ~nvDebt.owe /\ fails = 0 /\ nvDebt.fails = 0 /\ tries = 0
      /\ ~pIgn /\ ~nvDebt.ign
  BY DEF Init, Coming, Here, Ignition, NoDebt
<1> QED
  BY <1>1, <1>2, <1>3 DEF TriesInv, Owing

----------------------------------------------------------------------------
\* Every step keeps the invariant: one case per group of actions.
LEMMA NextCamper == CamperInv /\ [Next]_vars => CamperInv'
<1> SUFFICES ASSUME HeldInv, TriesInv, [Next]_vars PROVE HeldInv' /\ TriesInv'
  BY DEF CamperInv, HeldInv
<1>1. CASE UNCHANGED vars
  <2>1. HeldInv'
    BY <1>1 DEF vars, vehicle, link, ram, debt, flash, hist, HeldInv, OffInv, DriveInv, Ignition
  <2>2. TriesInv'
    <3>1. UNCHANGED <<owe, fails, pIgn, nvDebt, tries, ign, fv, fc, used>>
      BY <1>1 DEF vars, vehicle, link, ram, debt, flash, hist
    <3> QED
      BY <3>1, NoDrive DEF Coming, Here, Ignition
  <2> QED
    BY <2>1, <2>2
<1>2. CASE Next
  <2>1. HeldInv'
    BY <1>2, EngineStartsKeeps, VehicleKeeps, LinkKeeps, StepKeeps, ChainKeeps,
       SetEnabledKeeps, RebootKeeps DEF Next
  <2>2. TriesInv'
    BY <1>2, EngineStartsPays, VehiclePays, LinkPays, StepPays, ChainPays,
       SetEnabledPays, RebootPays DEF Next
  <2> QED
    BY <2>1, <2>2
<1> QED
  BY <1>1, <1>2

\* CamperInv holds in every reachable state, for every bound.
THEOREM CamperSafe == Spec => []CamperInv
<1>1. Init => CamperInv
  BY InitCamper, InitPays DEF CamperInv, HeldInv
<1> QED
  BY <1>1, NextCamper, PTL DEF Spec

\* However often the satellite reboots, the link is lost and the feature is
\* switched: no more restores than MaxFails for every engine start, and one
\* for every write of the debt that flash lost (cali_ac_decide, save).
THEOREM CamperTriesBounded == Spec => []TriesBounded
<1>1. CamperInv => TriesBounded
  <2> SUFFICES ASSUME TriesInv PROVE TriesBounded
    BY DEF CamperInv
  <2>1. Budget \in Nat /\ MaxFails \in Nat /\ fails \in 0..MaxFails /\ tries \in Nat
    BY BudgetType DEF TriesInv
  <2> DEFINE r == Cost(owe, fails, pIgn, Coming, Here)
  <2>2. r \in Nat /\ tries + r <= Budget
    BY <2>1, CostFalls DEF TriesInv, Owing, Cost
  <2> HIDE DEF r
  <2> QED
    BY <2>1, <2>2 DEF TriesBounded
<1> QED
  BY <1>1, CamperSafe, PTL

\* An acknowledged "off" clears the debt for good, over reboots and lost
\* writes (cali_ac_set_enabled stores the debt before the toggle).
THEOREM CamperOffMeansOff == Spec => []OffMeansOff
<1>1. CamperInv => OffMeansOff
  BY DEF CamperInv, OffInv, OffMeansOff
<1> QED
  BY <1>1, CamperSafe, PTL

\* A drive that a step saw is owed until the park, in whatever order the
\* frames came (cali_ac_ignition, cali_ac_decide, cali_ac_init).
THEOREM CamperDriveIsRemembered == Spec => []DriveIsRemembered
<1>1. CamperInv => DriveIsRemembered
  BY DEF CamperInv, DriveInv, DriveIsRemembered
<1> QED
  BY <1>1, CamperSafe, PTL

============================================================================
