----------------------------- MODULE TaskProofs -----------------------------
(***************************************************************************)
(* The two tasks beside the owner task.                                    *)
(*                                                                         *)
(* The firmware update, for any builds, channels and releases: the boot    *)
(* data always leads to a build that stays healthy, one request runs at a  *)
(* time, an offer is of the chosen channel, and only a verified image is   *)
(* ever selected.                                                          *)
(*                                                                         *)
(* The LoRa uplink, for any rates, budget, ring and faults: what is on air *)
(* in a rolling day stays within the budget but for what nothing is        *)
(* charged for, because each other packet on air has a charge in the ring, *)
(* or one about to be made, that pays for the rest of it and ages no       *)
(* faster; and what is marked as sent the send that is out brought on air, *)
(* if no TX_DONE of an earlier one was about when it began.                *)
(***************************************************************************)
EXTENDS Ota, Lora, WellFoundedInduction, TLAPS

\* Of two slots, one is the other.
LEMMA OtherSlot ==
  ASSUME NEW s \in Slots
  PROVE  /\ Other(s) \in Slots /\ Other(s) # s /\ Other(Other(s)) = s
         /\ \A t \in Slots : t = s \/ t = Other(s)
BY DEF Slots, Other

\* The state after a manufacturing flash.
LEMMA InitInv == OtaInit => OtaInv
<1> SUFFICES ASSUME OtaInit PROVE OtaInv
  OBVIOUS
<1>1. OtaTypeOK
  BY ImagesAssumption DEF OtaInit, OtaTypeOK, Busy, Slots
<1>2. BootInv /\ AlwaysBoots
  BY ImagesAssumption DEF OtaInit, BootInv, AlwaysBoots, Proven, Slots, Other
<1>3. TaskInv /\ OneRequest /\ OfferOfChannel
  BY DEF OtaInit, TaskInv, OneRequest, OfferOfChannel
<1> QED
  BY <1>1, <1>2, <1>3 DEF OtaInv

-----------------------------------------------------------------------------
(* Steps that leave the flash alone keep what is said of it alone.         *)

\* With the flash and the running task's place in it unchanged, a build that
\* boots still boots.
LEMMA FlashKept ==
  ASSUME OtaInv, UNCHANGED flash, task # "restart", task' # "restart"
  PROVE  AlwaysBoots' /\ BootInv'
BY DEF OtaInv, flash, AlwaysBoots, BootInv, Proven, Other

\* The owner asks for a check or an install.
LEMMA RequestInv ==
  ASSUME OtaInv, NEW r \in {"check", "install"}, Request(r)
  PROVE  OtaInv'
<1>1. OtaTypeOK'
  BY DEF OtaInv, OtaTypeOK, Request, Wake, work, flash, Busy
<1>2. task \in {"sleep", "return"} /\ task' = task /\ UNCHANGED <<ch, want, flash>>
  BY DEF OtaInv, OneRequest, Request, work
<1>3. AlwaysBoots' /\ BootInv'
  BY <1>2, FlashKept
<1>4. TaskInv' /\ OneRequest' /\ OfferOfChannel'
  BY <1>2 DEF Request, TaskInv, OneRequest, OfferOfChannel, Busy
<1> QED
  BY <1>1, <1>3, <1>4 DEF OtaInv

\* The owner switches the channel, in whatever state the task is.
LEMMA SetChannelInv ==
  ASSUME OtaInv, NEW c \in Channels, SetChannel(c)
  PROVE  OtaInv'
<1>1. OtaTypeOK'
  BY DEF OtaInv, OtaTypeOK, SetChannel, Settled, work, flash, Busy
<1>2. UNCHANGED <<task, ch, want, flash, slot, mark, boot, run, pending>>
  BY DEF SetChannel, work, flash
<1>3. AlwaysBoots' /\ BootInv'
  BY <1>2 DEF OtaInv, AlwaysBoots, BootInv, Proven, Other
<1>4. state' # "available" /\ (state = "checking" => state' = "checking" /\ switched')
      /\ (state \in Busy => state' = state) /\ (sha' = "half" => sha = "half")
  BY DEF SetChannel, Settled, Busy
<1>5. TaskInv'
  BY <1>2, <1>4 DEF OtaInv, TaskInv, Proven
<1>6. OneRequest' /\ OfferOfChannel'
  BY <1>2, <1>4 DEF OtaInv, OneRequest, OfferOfChannel, Busy
<1> QED
  BY <1>1, <1>3, <1>5, <1>6 DEF OtaInv

-----------------------------------------------------------------------------
(* The OTA task.                                                           *)

\* It takes the request, or goes back to sleep.
LEMMA StartInv ==
  ASSUME OtaInv, Start
  PROVE  OtaInv'
<1>1. OtaTypeOK'
  BY DEF OtaInv, OtaTypeOK, Start, flash
<1>2. task = "sleep" /\ task' \in {"sleep", "manifest"} /\ UNCHANGED <<state, sha, channel, switched, slot, run>>
      /\ UNCHANGED flash /\ ch' = channel /\ pending' = "none"
      /\ (task' = "manifest" => pending # "none")
  BY DEF Start, flash
<1>3. AlwaysBoots' /\ BootInv'
  BY <1>2, FlashKept
<1>4. TaskInv' /\ OneRequest' /\ OfferOfChannel'
  BY <1>2 DEF OtaInv, TaskInv, OneRequest, OfferOfChannel, Busy
<1> QED
  BY <1>1, <1>3, <1>4 DEF OtaInv

\* A return of cali_ota_work with a result that offers nothing.
LEMMA EndsInv ==
  ASSUME OtaInv, task \notin {"sleep", "return", "naming", "restart"}, UNCHANGED flash,
         NEW st \in {"error", "up_to_date"}, Ends(st)
  PROVE  OtaInv'
<1>1. OtaTypeOK'
  BY DEF OtaInv, OtaTypeOK, Ends, flash
<1>2. AlwaysBoots' /\ BootInv'
  BY FlashKept DEF Ends
<1>3. pending' = "none" /\ sha' # "half"
  BY DEF OtaInv, OneRequest, TaskInv, Ends
<1>4. TaskInv' /\ OneRequest' /\ OfferOfChannel'
  BY <1>3 DEF Ends, TaskInv, OneRequest, OfferOfChannel
<1> QED
  BY <1>1, <1>2, <1>4 DEF OtaInv


\* The task goes back to sleep when the work is done (ota_task).
LEMMA ReturnInv ==
  ASSUME OtaInv, Return
  PROVE  OtaInv'
<1>1. OtaTypeOK'
  BY DEF OtaInv, OtaTypeOK, Return, owner, flash
<1>2. AlwaysBoots' /\ BootInv'
  BY FlashKept DEF Return
<1>3. TaskInv' /\ OneRequest' /\ OfferOfChannel'
  BY DEF OtaInv, Return, owner, flash, TaskInv, OneRequest, OfferOfChannel
<1> QED
  BY <1>1, <1>2, <1>3 DEF OtaInv

\* The manifest names another build; its sha is being copied.
LEMMA DiffersInv ==
  ASSUME OtaInv, Differs
  PROVE  OtaInv'
<1>1. want' \in Releases[ch] /\ want' # slot[run] /\ want' \in Images
  BY ImagesAssumption DEF OtaInv, OtaTypeOK, Differs
<1>2. OtaTypeOK'
  BY <1>1 DEF OtaInv, OtaTypeOK, Differs, flash
<1>3. AlwaysBoots' /\ BootInv'
  BY FlashKept DEF Differs
<1>4. TaskInv' /\ OneRequest' /\ OfferOfChannel'
  BY <1>1 DEF OtaInv, Differs, flash, TaskInv, OneRequest, OfferOfChannel, Busy
<1> QED
  BY <1>2, <1>3, <1>4 DEF OtaInv

\* The sha is whole: offered, or downloaded.
LEMMA NamedInv ==
  ASSUME OtaInv, Named
  PROVE  OtaInv'
<1>1. sha' = want /\ want \in Images /\ want # "half" /\ want # "none"
  BY ImagesAssumption DEF OtaInv, OtaTypeOK, Named
<1>2. OtaTypeOK'
  BY <1>1 DEF OtaInv, OtaTypeOK, Named, flash, Busy
<1>3. AlwaysBoots' /\ BootInv'
  BY FlashKept DEF Named
<1>4. pending = "none" /\ want \in Releases[ch] /\ want # slot[run] /\ (switched \/ ch = channel)
  BY DEF OtaInv, TaskInv, OneRequest, Named
<1>5. TaskInv' /\ OneRequest' /\ OfferOfChannel'
  BY <1>1, <1>4 DEF Named, flash, TaskInv, OneRequest, OfferOfChannel, Busy
<1> QED
  BY <1>2, <1>3, <1>5 DEF OtaInv

\* The inactive slot is erased: it is not the one that boots, and the build that
\* runs is proven since it is not pending.
LEMMA BeginInv ==
  ASSUME OtaInv, Begin
  PROVE  OtaInv'
<1> DEFINE o == Other(run)
<1>1. run \in Slots /\ o \in Slots /\ o # run /\ run = boot /\ (\A t \in Slots : t = run \/ t = o)
  BY OtherSlot DEF OtaInv, OtaTypeOK, BootInv, Begin
<1>2. slot' = [slot EXCEPT ![o] = Torn] /\ mark' = [mark EXCEPT ![o] = "undefined"]
      /\ slot \in [Slots -> Images \cup {Torn}] /\ DOMAIN mark = Slots
      /\ UNCHANGED <<run, boot, state, pending, sha, channel, switched, ch, want>>
  BY DEF Begin, owner, OtaInv, OtaTypeOK
<1>3. slot'[run] = slot[run] /\ mark'[run] = mark[run] /\ mark'[o] = "undefined"
  BY <1>1, <1>2
<1>4. OtaTypeOK'
  BY <1>1 DEF OtaInv, OtaTypeOK, Begin, owner
<1>5. Proven(run) /\ slot[run] \in Images
  BY <1>1 DEF OtaInv, AlwaysBoots, BootInv, Proven, Begin
<1>6. AlwaysBoots' /\ BootInv'
  BY <1>1, <1>2, <1>3, <1>5 DEF AlwaysBoots, BootInv, Proven, Begin, OtaInv
<1>7. TaskInv' /\ OneRequest' /\ OfferOfChannel'
  BY <1>2, <1>3, <1>5 DEF OtaInv, Begin, TaskInv, OneRequest, OfferOfChannel, Proven, Busy
<1> QED
  BY <1>4, <1>6, <1>7 DEF OtaInv

\* Whatever landed is in the inactive slot.
LEMMA LandedInv ==
  ASSUME OtaInv, Landed
  PROVE  OtaInv'
<1> DEFINE o == Other(run)
<1>1. run \in Slots /\ o \in Slots /\ o # run /\ run = boot /\ (\A t \in Slots : t = run \/ t = o)
  BY OtherSlot DEF OtaInv, OtaTypeOK, BootInv, Landed
<1>2. PICK i \in Releases[ch] \cup {Torn} : slot' = [slot EXCEPT ![o] = i]
  BY DEF Landed
<1>3. i \in Images \cup {Torn}
  BY <1>2, ImagesAssumption DEF OtaInv, OtaTypeOK
<1>4. slot'[run] = slot[run] /\ UNCHANGED <<mark, run, boot, pending, sha, channel, switched, ch, want>>
  BY <1>1, <1>2 DEF Landed, OtaInv, OtaTypeOK
<1>5. OtaTypeOK'
  BY <1>1, <1>2, <1>3 DEF OtaInv, OtaTypeOK, Landed, Busy
<1>6. Proven(run)
  BY DEF OtaInv, TaskInv, Landed
<1>7. AlwaysBoots' /\ BootInv'
  BY <1>1, <1>4, <1>6 DEF OtaInv, AlwaysBoots, BootInv, TaskInv, Proven, Landed
<1>8. TaskInv' /\ OneRequest' /\ OfferOfChannel'
  BY <1>4, <1>6 DEF OtaInv, Landed, TaskInv, OneRequest, OfferOfChannel, Proven, Busy
<1> QED
  BY <1>5, <1>7, <1>8 DEF OtaInv

\* A download whose hash is the manifest's is ready to be committed (cali_ota_work).
LEMMA VerifiedInv ==
  ASSUME OtaInv, Verified
  PROVE  OtaInv'
<1>1. OtaTypeOK'
  BY DEF OtaInv, OtaTypeOK, Verified, owner, flash
<1>2. AlwaysBoots' /\ BootInv'
  BY FlashKept DEF Verified
<1>3. TaskInv' /\ OneRequest' /\ OfferOfChannel'
  BY DEF OtaInv, Verified, Matches, owner, flash, TaskInv, OneRequest, OfferOfChannel, Proven
<1> QED
  BY <1>1, <1>2, <1>3 DEF OtaInv

\* The other slot is selected; the build that runs stays proven as the way back.
LEMMA CommitInv ==
  ASSUME OtaInv, Commit
  PROVE  OtaInv'
<1> DEFINE o == Other(run)
<1>1. run \in Slots /\ o \in Slots /\ o # run /\ run = boot /\ Other(o) = run
      /\ (\A t \in Slots : t = run \/ t = o)
  BY OtherSlot DEF OtaInv, OtaTypeOK, BootInv, Commit
<1>2. mark' = [mark EXCEPT ![o] = "new"] /\ DOMAIN mark = Slots /\ boot' = o
      /\ UNCHANGED <<slot, run, pending, sha, channel, switched, ch, want>>
  BY DEF Commit, OtaInv, OtaTypeOK
<1>3. mark'[run] = mark[run] /\ mark'[o] = "new"
  BY <1>1, <1>2
<1>4. OtaTypeOK'
  BY <1>1 DEF OtaInv, OtaTypeOK, Commit, Busy
<1>5. Proven(run) /\ slot[o] = want /\ want \in Images
  BY DEF OtaInv, TaskInv, OtaTypeOK, Commit
<1>6. AlwaysBoots' /\ BootInv'
  BY <1>1, <1>2, <1>3, <1>5 DEF OtaInv, AlwaysBoots, BootInv, Proven, Commit
<1>7. TaskInv' /\ OneRequest' /\ OfferOfChannel'
  BY <1>2, <1>5 DEF OtaInv, Commit, TaskInv, OneRequest, OfferOfChannel, Busy
<1> QED
  BY <1>4, <1>6, <1>7 DEF OtaInv

-----------------------------------------------------------------------------
(* The image proves itself; resets.                                        *)

\* The running image is marked valid after its first healthy minute.
LEMMA MarkValidInv ==
  ASSUME OtaInv, MarkValid
  PROVE  OtaInv'
<1> DEFINE o == Other(run)
<1>1. run \in Slots /\ o \in Slots /\ o # run /\ (\A t \in Slots : t = run \/ t = o) /\ Other(o) = run
  BY OtherSlot DEF OtaInv, OtaTypeOK
<1>2. mark' = [mark EXCEPT ![run] = "valid"] /\ DOMAIN mark = Slots /\ slot[run] \in Healthy
      /\ mark[run] = "pending"
      /\ UNCHANGED <<slot, boot, run, task, req, ch, want>>
      /\ UNCHANGED <<state, pending, channel, kvChannel, sha, notified, switched>>
  BY DEF MarkValid, OtaInv, OtaTypeOK, owner, work
<1>3. mark'[run] = "valid" /\ mark'[o] = mark[o]
  BY <1>1, <1>2
<1>4. OtaTypeOK'
  BY <1>2 DEF OtaInv, OtaTypeOK
<1>5. slot[run] \in Images
  BY <1>2, ImagesAssumption
<1>6. task # "restart" /\ run = boot
  BY <1>2 DEF OtaInv, BootInv, Proven
<1>7. AlwaysBoots' /\ BootInv'
  BY <1>1, <1>2, <1>3, <1>5, <1>6 DEF OtaInv, AlwaysBoots, BootInv, Proven
<1>8. TaskInv' /\ OneRequest' /\ OfferOfChannel'
  BY <1>2, <1>3 DEF OtaInv, TaskInv, OneRequest, OfferOfChannel, Proven
<1> QED
  BY <1>4, <1>7, <1>8 DEF OtaInv

\* RAM is cleared: the parts that speak of the task and the owner hold whatever
\* slot was loaded.
LEMMA ClearedInv ==
  ASSUME OtaInv, Cleared, BootInv', AlwaysBoots', boot' \in Slots, run' \in Slots,
         mark' \in [Slots -> {"undefined", "new", "pending", "valid", "invalid"}]
  PROVE  OtaInv'
<1>1. OtaTypeOK'
  BY ImagesAssumption DEF OtaInv, OtaTypeOK, Cleared, Busy
<1>2. TaskInv' /\ OneRequest' /\ OfferOfChannel'
  BY DEF Cleared, TaskInv, OneRequest, OfferOfChannel, Busy
<1> QED
  BY <1>1, <1>2 DEF OtaInv

\* The boot loader: a pending build is given up for the proven one, a new build
\* gets its one chance.
LEMMA ResetInv ==
  ASSUME OtaInv, Reset
  PROVE  OtaInv'
<1> DEFINE o == Other(boot)
<1>1. boot \in Slots /\ o \in Slots /\ o # boot /\ (\A t \in Slots : t = boot \/ t = o)
      /\ Other(o) = boot
  BY OtherSlot DEF OtaInv, OtaTypeOK
<1>2. mark \in [Slots -> {"undefined", "new", "pending", "valid", "invalid"}]
      /\ slot' = slot /\ task' = "sleep" /\ Loaded /\ Cleared
  BY DEF OtaInv, OtaTypeOK, Reset, Cleared
<1>3. CASE mark[boot] = "pending"
  <2>1. mark' = [mark EXCEPT ![boot] = "invalid"] /\ boot' = o /\ run' = o
    BY <1>2, <1>3 DEF Loaded
  <2>2. mark'[o] = mark[o] /\ mark'[boot] = "invalid" /\ Proven(o) /\ slot[o] \in Images
    BY <1>1, <1>2, <1>3, <2>1, ImagesAssumption DEF OtaInv, AlwaysBoots, Proven
  <2>3. BootInv' /\ AlwaysBoots'
    BY <1>1, <1>2, <2>1, <2>2 DEF OtaInv, BootInv, AlwaysBoots, Proven
  <2> QED
    BY <1>1, <1>2, <2>1, <2>3, ClearedInv
<1>4. CASE mark[boot] = "new"
  <2>1. mark' = [mark EXCEPT ![boot] = "pending"] /\ boot' = boot /\ run' = boot
    BY <1>2, <1>4 DEF Loaded
  <2>2. mark'[o] = mark[o] /\ mark'[boot] = "pending" /\ Proven(o) /\ slot[boot] \in Images
    BY <1>1, <1>2, <1>4, <2>1 DEF OtaInv, AlwaysBoots, Proven
  <2>3. BootInv' /\ AlwaysBoots'
    BY <1>1, <1>2, <2>1, <2>2 DEF OtaInv, BootInv, AlwaysBoots, Proven
  <2> QED
    BY <1>1, <1>2, <2>1, <2>3, ClearedInv
<1>5. CASE mark[boot] \notin {"pending", "new"}
  <2>1. mark' = mark /\ boot' = boot /\ run' = boot
    BY <1>2, <1>5 DEF Loaded
  <2>2. BootInv' /\ AlwaysBoots'
    BY <1>1, <1>2, <1>5, <2>1 DEF OtaInv, BootInv, AlwaysBoots, Proven
  <2> QED
    BY <1>1, <1>2, <2>1, <2>2, ClearedInv
<1> QED
  BY <1>3, <1>4, <1>5

\* The console gives the running build up for a valid one.
LEMMA InvalidateInv ==
  ASSUME OtaInv, Invalidate
  PROVE  OtaInv'
<1> DEFINE o == Other(run)
<1>1. run \in Slots /\ o \in Slots /\ o # run /\ (\A t \in Slots : t = run \/ t = o) /\ Other(o) = run
  BY OtherSlot DEF OtaInv, OtaTypeOK
<1>2. mark \in [Slots -> {"undefined", "new", "pending", "valid", "invalid"}]
      /\ mark[o] = "valid" /\ mark' = [mark EXCEPT ![run] = "invalid"]
      /\ slot' = slot /\ task' = "sleep" /\ boot' = o /\ run' = o /\ Cleared
  BY DEF OtaInv, OtaTypeOK, Invalidate, Cleared
<1>3. mark'[o] = "valid" /\ mark'[run] = "invalid" /\ slot[o] \in Healthy /\ slot[o] \in Images
  BY <1>1, <1>2, ImagesAssumption DEF OtaInv, BootInv
<1>4. BootInv' /\ AlwaysBoots'
  BY <1>1, <1>2, <1>3 DEF OtaInv, BootInv, AlwaysBoots, Proven
<1> QED
  BY <1>1, <1>2, <1>4, ClearedInv

-----------------------------------------------------------------------------
(* The theorems.                                                           *)

\* Every step keeps the invariant: one case per action.
LEMMA NextInv == OtaInv /\ [OtaNext]_otaVars => OtaInv'
<1> SUFFICES ASSUME OtaInv, [OtaNext]_otaVars PROVE OtaInv'
  OBVIOUS
<1>1. ASSUME NEW r \in {"check", "install"}, Request(r) PROVE OtaInv'
  BY <1>1, RequestInv
<1>2. ASSUME NEW c \in Channels, SetChannel(c) PROVE OtaInv'
  BY <1>2, SetChannelInv
<1>3. CASE Start
  BY <1>3, StartInv
<1>4. CASE Return
  BY <1>4, ReturnInv
<1>5. CASE ManifestFails \/ DownloadFails \/ Mismatch \/ CommitFails
  BY <1>5, EndsInv DEF ManifestFails, DownloadFails, Mismatch, CommitFails
<1>6. CASE UpToDate
  BY <1>6, EndsInv DEF UpToDate
<1>7. CASE Differs
  BY <1>7, DiffersInv
<1>8. CASE Named
  BY <1>8, NamedInv
<1>9. CASE Begin
  BY <1>9, BeginInv
<1>10. CASE Landed
  BY <1>10, LandedInv
<1>11. CASE Verified
  BY <1>11, VerifiedInv
<1>12. CASE Commit
  BY <1>12, CommitInv
<1>13. CASE Restart \/ Crash \/ Unhealthy
  BY <1>13, ResetInv DEF Restart, Crash, Unhealthy
<1>14. CASE MarkValid
  BY <1>14, MarkValidInv
<1>15. CASE Invalidate
  BY <1>15, InvalidateInv
<1>16. CASE UNCHANGED otaVars
  BY <1>16 DEF otaVars, owner, work, flash, OtaInv, OtaTypeOK, BootInv, TaskInv, AlwaysBoots,
               OneRequest, OfferOfChannel, Proven
<1> QED
  BY <1>1, <1>2, <1>3, <1>4, <1>5, <1>6, <1>7, <1>8, <1>9, <1>10, <1>11, <1>12, <1>13,
     <1>14, <1>15, <1>16 DEF OtaNext, Work

\* The inductive invariant of the update, for any builds, channels and releases.
THEOREM OtaSafe == OtaSpec => []OtaInv
<1> QED
  BY InitInv, NextInv, PTL DEF OtaSpec

\* Type correctness of ota.c, the OTA task and the boot data.
THEOREM OtaTypeCorrect == OtaSpec => []OtaTypeOK
<1>1. OtaInv => OtaTypeOK
  BY DEF OtaInv
<1> QED
  BY <1>1, OtaSafe, PTL

\* Whatever is downloaded, torn, replaced or unhealthy, and whenever the power is
\* cut, the boot data leads to a build that stays healthy (ota.c work, e_commit).
THEOREM OtaAlwaysBoots == OtaSpec => []AlwaysBoots
<1>1. OtaInv => AlwaysBoots
  BY DEF OtaInv
<1> QED
  BY <1>1, OtaSafe, PTL

\* The owner task and the OTA task agree on the one request (cali_ota_request).
THEOREM OtaOneRequest == OtaSpec => []OneRequest
<1>1. OtaInv => OneRequest
  BY DEF OtaInv
<1> QED
  BY <1>1, OtaSafe, PTL

\* An offer is of the chosen channel (cali_ota_set_channel).
THEOREM OtaOfferOfChannel == OtaSpec => []OfferOfChannel
<1>1. OtaInv => OfferOfChannel
  BY DEF OtaInv
<1> QED
  BY <1>1, OtaSafe, PTL

\* Only an image whose hash is the manifest's is ever selected (ota.c work).
THEOREM OtaSelectsVerified == OtaSpec => SelectsVerified
<1>1. OtaInv /\ [OtaNext]_otaVars =>
        [boot' # boot /\ task' = "restart" => slot[boot'] = want /\ want \in Releases[ch]]_otaVars
  <2> SUFFICES ASSUME OtaInv, OtaNext, boot' # boot, task' = "restart"
               PROVE  slot[boot'] = want /\ want \in Releases[ch]
    OBVIOUS
  <2>1. Commit
    BY DEF OtaNext, Work, Request, SetChannel, Start, Return, ManifestFails, UpToDate, Differs,
           Named, Begin, DownloadFails, Landed, Verified, Mismatch, CommitFails, Restart,
           MarkValid, Unhealthy, Crash, Invalidate, Reset, Cleared, Ends, flash, work
  <2> QED
    BY <2>1 DEF Commit, OtaInv, TaskInv
<1> QED
  BY <1>1, OtaSafe, PTL DEF OtaSpec, SelectsVerified

-----------------------------------------------------------------------------
(* Induction over the naturals, by sets: the least element of a set of      *)
(* naturals comes from the library's WFMin.                                 *)

\* Every set of naturals that is not empty has a least element.
LEMMA LeastNatural ==
    ASSUME NEW T, T \subseteq Nat, T # {}
    PROVE  \E m \in T : \A n \in T : m <= n
<1> DEFINE R == {ss \in Nat \X Nat : ss[1] < ss[2]}
<1>1. IsWellFoundedOn(R, Nat)
  BY NatLessThanWellFounded DEF OpToRel
<1>2. PICK m \in T : \A n \in T : <<n, m>> \notin R
  <2> HIDE DEF R
  <2> QED
    BY <1>1, WFMin
<1>3. \A n \in T : ~(n < m)
  BY <1>2
<1> QED
  BY <1>2, <1>3

\* A set that holds 0 and every successor of its elements holds all naturals.
LEMMA SetInduction ==
    ASSUME NEW S, 0 \in S, \A n \in S \cap Nat : n + 1 \in S
    PROVE  Nat \subseteq S
<1> SUFFICES ASSUME Nat \ S # {} PROVE FALSE
  OBVIOUS
<1>1. PICK m \in Nat \ S : \A n \in Nat \ S : m <= n
  <2> Nat \ S \subseteq Nat
    OBVIOUS
  <2> QED
    BY LeastNatural
<1>2. m # 0 /\ m - 1 \in Nat
  BY <1>1
<1>3. m - 1 \in S \cap Nat
  BY <1>1, <1>2
<1>4. (m - 1) + 1 \in S
  BY <1>3
<1>5. (m - 1) + 1 = m
  BY <1>2
<1> QED
  BY <1>1, <1>4, <1>5

-----------------------------------------------------------------------------
(* Airtime is the sum of the costs.                                         *)

Packets == [age : Nat, cost : Nat, free : Nat]

\* What a sequence of packets is made of.
LEMMA PacketOf ==
    ASSUME NEW s \in Seq(Packets)
    PROVE  /\ Len(s) \in Nat /\ DOMAIN s = 1..Len(s)
           /\ \A i \in 1..Len(s) : s[i] \in Packets
           /\ \A i \in 1..Len(s) : s[i].cost \in Nat /\ s[i].age \in Nat /\ s[i].free \in Nat
<1>1. \A i \in 1..Len(s) : s[i] \in Packets
  OBVIOUS
<1> QED
  BY <1>1 DEF Packets

\* The sums of the first packets, none to n.
Sums(s, n) ==
    {f \in [0..n -> Nat] : \A i \in 0..n : f[i] = IF i = 0 THEN 0 ELSE f[i - 1] + s[i].cost}

\* There are such sums.
LEMMA SumsExist ==
    ASSUME NEW s \in Seq(Packets)
    PROVE  Sums(s, Len(s)) # {}
<1> DEFINE S == {n \in Nat : n <= Len(s) => Sums(s, n) # {}}
<1>1. 0 \in S
  <2>1. [i \in 0..0 |-> 0] \in Sums(s, 0)
    BY DEF Sums
  <2> QED
    BY <2>1
<1>2. ASSUME NEW n \in S PROVE n + 1 \in S
  <2>1. SUFFICES ASSUME n + 1 <= Len(s) PROVE Sums(s, n + 1) # {}
    OBVIOUS
  <2>2. PICK f : f \in Sums(s, n)
    BY <2>1
  <2>3. n \in Nat /\ s[n + 1].cost \in Nat
    <3>1. n \in Nat /\ n + 1 \in 1..Len(s)
      BY <2>1, PacketOf
    <3> QED
      BY <3>1, PacketOf
  <2> DEFINE h == [i \in 0..(n + 1) |-> IF i = n + 1 THEN f[n] + s[n + 1].cost ELSE f[i]]
  <2>4. f \in [0..n -> Nat] /\ \A i \in 0..n : f[i] = IF i = 0 THEN 0 ELSE f[i - 1] + s[i].cost
    BY <2>2 DEF Sums
  <2>5. h \in [0..(n + 1) -> Nat]
    BY <2>3, <2>4
  <2>6. ASSUME NEW i \in 0..(n + 1) PROVE h[i] = IF i = 0 THEN 0 ELSE h[i - 1] + s[i].cost
    <3>1. CASE i = n + 1
      BY <2>3, <2>4, <3>1
    <3>2. CASE i \in 0..n
      <4>1. i # n + 1 /\ (i # 0 => i - 1 \in 0..n /\ i - 1 # n + 1)
        BY <2>3, <3>2
      <4>2. h[i] = f[i] /\ (i # 0 => h[i - 1] = f[i - 1])
        BY <2>3, <3>2, <4>1
      <4> QED
        BY <2>4, <3>2, <4>2
    <3> QED
      BY <2>3, <3>1, <3>2
  <2>7. h \in Sums(s, n + 1)
    <3> HIDE DEF h
    <3> QED
      BY <2>5, <2>6 DEF Sums
  <2> QED
    BY <2>7
<1>3. Nat \subseteq S
  <2> HIDE DEF S
  <2> QED
    BY <1>1, <1>2, SetInduction
<1> QED
  BY <1>3

\* Airtime is the last of them.
LEMMA AirtimeIsSum ==
    ASSUME NEW s \in Seq(Packets)
    PROVE  \E f \in Sums(s, Len(s)) : Airtime(s) = f[Len(s)]
<1> DEFINE n == Len(s)
<1> DEFINE rec == CHOOSE f : f = [i \in 0..n |-> IF i = 0 THEN 0 ELSE f[i - 1] + s[i].cost]
<1>1. Airtime(s) = rec[n]
  BY DEF Airtime
<1>2. PICK g : g \in Sums(s, n)
  BY SumsExist
<1>3. /\ g \in [0..n -> Nat]
      /\ \A i \in 0..n : g[i] = IF i = 0 THEN 0 ELSE g[i - 1] + s[i].cost
  BY <1>2 DEF Sums
<1>4. g = [i \in 0..n |-> IF i = 0 THEN 0 ELSE g[i - 1] + s[i].cost]
  BY <1>3
<1>5. rec = [i \in 0..n |-> IF i = 0 THEN 0 ELSE rec[i - 1] + s[i].cost]
  BY <1>4
<1>6. n \in Nat
  OBVIOUS
<1> HIDE DEF rec, n
<1> DEFINE S == {j \in Nat : j <= n => rec[j] = g[j]}
<1>7. 0 \in S
  BY <1>3, <1>5, <1>6
<1>8. ASSUME NEW j \in S PROVE j + 1 \in S
  <2> SUFFICES ASSUME j + 1 <= n PROVE rec[j + 1] = g[j + 1]
    OBVIOUS
  <2>1. j \in 0..n /\ j + 1 \in 0..n /\ j + 1 # 0 /\ (j + 1) - 1 = j /\ rec[j] = g[j]
    BY <1>6
  <2>2. rec[j + 1] = rec[j] + s[j + 1].cost
    BY <1>5, <2>1
  <2>3. g[j + 1] = g[j] + s[j + 1].cost
    BY <1>3, <2>1
  <2> QED
    BY <2>1, <2>2, <2>3
<1>9. Nat \subseteq S
  <2> HIDE DEF S
  <2> QED
    BY <1>7, <1>8, SetInduction
<1>10. rec[n] = g[n]
  BY <1>6, <1>9
<1> QED
  BY <1>1, <1>2, <1>10 DEF n

\* It is a natural.
LEMMA AirtimeNat ==
    ASSUME NEW s \in Seq(Packets)
    PROVE  Airtime(s) \in Nat
BY AirtimeIsSum DEF Sums

\* The sums grow.
LEMMA SumsGrow ==
    ASSUME NEW b \in Seq(Packets), NEW g \in Sums(b, Len(b)),
           NEW i \in 0..Len(b), NEW j \in 0..Len(b), i <= j
    PROVE  g[i] <= g[j]
<1>1. /\ g \in [0..Len(b) -> Nat]
      /\ \A n \in 0..Len(b) : g[n] = IF n = 0 THEN 0 ELSE g[n - 1] + b[n].cost
  BY DEF Sums
<1>2. Len(b) \in Nat /\ \A n \in 1..Len(b) : b[n].cost \in Nat
  BY PacketOf
<1> DEFINE G == {d \in Nat : i + d <= Len(b) => g[i] <= g[i + d]}
<1>3. 0 \in G
  BY <1>1, <1>2
<1>4. ASSUME NEW d \in G PROVE d + 1 \in G
  <2> SUFFICES ASSUME i + (d + 1) <= Len(b) PROVE g[i] <= g[i + (d + 1)]
    OBVIOUS
  <2>1. g[i] <= g[i + d] /\ i + d \in 0..Len(b) /\ i + (d + 1) \in 1..Len(b)
    BY <1>2
  <2>2. i + (d + 1) # 0 /\ (i + (d + 1)) - 1 = i + d /\ i + (d + 1) \in 0..Len(b)
    BY <1>2, <2>1
  <2>3. g[i + (d + 1)] = g[i + d] + b[i + (d + 1)].cost
    BY <1>1, <2>2
  <2>4. g[i] \in Nat /\ g[i + d] \in Nat /\ b[i + (d + 1)].cost \in Nat
    BY <1>1, <1>2, <2>1
  <2> QED
    BY <2>1, <2>3, <2>4
<1>5. Nat \subseteq G
  <2> HIDE DEF G
  <2> QED
    BY <1>3, <1>4, SetInduction
<1>6. j - i \in Nat /\ i + (j - i) = j
  BY <1>2
<1>7. j - i \in G
  BY <1>5, <1>6
<1> QED
  BY <1>2, <1>6, <1>7

\* Is any of its airtime charged for?
Owed(p) == p.free # p.cost

\* Each packet of a that is charged for has one of b to itself, in the same
\* order, that pays for what is not free and leaves the day no earlier; the
\* others stand where those before them do.
Paid(a, b, m) ==
    /\ m \in [DOMAIN a -> 0..Len(b)]
    /\ \A i, j \in DOMAIN a : i < j => m[i] <= m[j] /\ (Owed(a[j]) => m[i] < m[j])
    /\ \A i \in DOMAIN a : Owed(a[i]) =>
          /\ m[i] # 0
          /\ a[i].cost <= a[i].free + b[m[i]].cost
          /\ b[m[i]].age <= a[i].age

\* What is free of packets, as packets.
LEMMA FreeOf ==
    ASSUME NEW s \in Seq(Packets)
    PROVE  /\ Free(s) \in Seq(Packets) /\ Len(Free(s)) = Len(s)
           /\ \A i \in 1..Len(s) : Free(s)[i].cost = s[i].free
<1>1. /\ Len(s) \in Nat /\ DOMAIN s = 1..Len(s)
      /\ \A i \in 1..Len(s) : s[i] \in Packets
  BY PacketOf
<1>2. Free(s) = [i \in 1..Len(s) |-> [s[i] EXCEPT !.cost = s[i].free]]
  BY <1>1 DEF Free
<1>3. ASSUME NEW p \in Packets
      PROVE  [p EXCEPT !.cost = p.free] \in Packets /\ [p EXCEPT !.cost = p.free].cost = p.free
  <2>1. /\ p.age \in Nat /\ p.free \in Nat
        /\ p = [age |-> p.age, cost |-> p.cost, free |-> p.free]
    BY DEF Packets
  <2> DEFINE n == p.free
  <2>2. n \in Nat
    BY <2>1
  <2> HIDE DEF n
  <2>3. [p EXCEPT !.cost = n] = [age |-> p.age, cost |-> n, free |-> p.free]
    BY <2>1
  <2> QED
    BY <2>1, <2>2, <2>3 DEF Packets, n
<1>4. \A i \in 1..Len(s) : Free(s)[i] = [s[i] EXCEPT !.cost = s[i].free]
  BY <1>2
<1>5. Free(s) \in Seq(Packets) /\ Len(Free(s)) = Len(s)
  BY <1>1, <1>2, <1>3
<1> QED
  BY <1>1, <1>3, <1>4, <1>5

\* What matches b costs no more than b but for what is free.
LEMMA AirtimeOfMatch ==
    ASSUME NEW a \in Seq(Packets), NEW b \in Seq(Packets), NEW m, Paid(a, b, m)
    PROVE  Airtime(a) <= Airtime(b) + Airtime(Free(a))
<1>1. PICK f \in Sums(a, Len(a)) : Airtime(a) = f[Len(a)]
  BY AirtimeIsSum
<1>2. PICK g \in Sums(b, Len(b)) : Airtime(b) = g[Len(b)]
  BY AirtimeIsSum
<1> DEFINE c == Free(a)
<1>3. c \in Seq(Packets) /\ Len(c) = Len(a) /\ \A i \in 1..Len(a) : c[i].cost = a[i].free
  BY FreeOf
<1> HIDE DEF c
<1>4. PICK h \in Sums(c, Len(c)) : Airtime(c) = h[Len(c)]
  BY <1>3, AirtimeIsSum
<1>5. /\ f \in [0..Len(a) -> Nat]
      /\ \A i \in 0..Len(a) : f[i] = IF i = 0 THEN 0 ELSE f[i - 1] + a[i].cost
  BY <1>1 DEF Sums
<1>6. /\ g \in [0..Len(b) -> Nat]
      /\ \A i \in 0..Len(b) : g[i] = IF i = 0 THEN 0 ELSE g[i - 1] + b[i].cost
  BY <1>2 DEF Sums
<1>7. /\ h \in [0..Len(a) -> Nat]
      /\ \A i \in 0..Len(a) : h[i] = IF i = 0 THEN 0 ELSE h[i - 1] + c[i].cost
  BY <1>3, <1>4 DEF Sums
<1>8. /\ Len(a) \in Nat /\ Len(b) \in Nat /\ DOMAIN a = 1..Len(a)
      /\ \A i \in 1..Len(a) : a[i].cost \in Nat /\ a[i].free \in Nat
      /\ \A i \in 1..Len(b) : b[i].cost \in Nat
  BY PacketOf
<1> DEFINE upto(n) == IF n = 0 THEN 0 ELSE m[n]
           S == {n \in Nat : n <= Len(a) => f[n] <= g[upto(n)] + h[n]}
<1>9. 0 \in S
  BY <1>5, <1>6, <1>7, <1>8
<1>10. ASSUME NEW n \in S PROVE n + 1 \in S
  <2> SUFFICES ASSUME n + 1 <= Len(a) PROVE f[n + 1] <= g[m[n + 1]] + h[n + 1]
    OBVIOUS
  <2>1. /\ n \in 0..Len(a) /\ n + 1 \in 1..Len(a) /\ n + 1 \in 0..Len(a)
        /\ n + 1 # 0 /\ (n + 1) - 1 = n
        /\ f[n] <= g[upto(n)] + h[n]
    BY <1>8
  <2>2. /\ m[n + 1] \in 0..Len(b) /\ upto(n) \in 0..Len(b) /\ upto(n) <= m[n + 1]
        /\ Owed(a[n + 1]) => m[n + 1] # 0 /\ upto(n) < m[n + 1]
    <3>1. m[n + 1] \in 0..Len(b) /\ (Owed(a[n + 1]) => m[n + 1] # 0)
      BY <1>8, <2>1 DEF Paid
    <3>2. CASE n = 0
      BY <1>8, <3>1, <3>2
    <3>3. CASE n # 0
      <4>1. n \in 1..Len(a) /\ n < n + 1
        BY <1>8, <2>1, <3>3
      <4>2. m[n] \in 0..Len(b) /\ m[n] <= m[n + 1] /\ (Owed(a[n + 1]) => m[n] < m[n + 1])
        BY <1>8, <2>1, <4>1 DEF Paid
      <4> QED
        BY <3>1, <3>3, <4>2
    <3> QED
      BY <3>2, <3>3
  <2>3. f[n + 1] = f[n] + a[n + 1].cost /\ h[n + 1] = h[n] + a[n + 1].free
    BY <1>3, <1>5, <1>7, <2>1
  <2> DEFINE p == m[n + 1]
             u == upto(n)
  <2>4. /\ p \in 0..Len(b) /\ u \in 0..Len(b) /\ u <= p /\ f[n] <= g[u] + h[n]
        /\ Owed(a[n + 1]) => p # 0 /\ u < p /\ a[n + 1].cost <= a[n + 1].free + b[p].cost
    BY <1>8, <2>1, <2>2 DEF Paid
  <2> HIDE DEF p, u, upto
  <2>5. /\ f[n] \in Nat /\ h[n] \in Nat /\ g[u] \in Nat /\ g[p] \in Nat
        /\ a[n + 1].cost \in Nat /\ a[n + 1].free \in Nat
    BY <1>5, <1>6, <1>7, <1>8, <2>1, <2>4
  <2>6. CASE ~Owed(a[n + 1])
    <3>1. g[u] <= g[p]
      BY <2>4, SumsGrow
    <3>2. a[n + 1].cost = a[n + 1].free
      BY <2>6 DEF Owed
    <3>3. f[n + 1] <= g[p] + h[n + 1]
      <4> DEFINE x == f[n]
                 y == h[n]
                 v == g[u]
                 w == g[p]
                 z == a[n + 1].free
      <4>1. /\ x \in Nat /\ y \in Nat /\ v \in Nat /\ w \in Nat /\ z \in Nat
            /\ x <= v + y /\ v <= w /\ f[n + 1] = x + z /\ h[n + 1] = y + z
        BY <2>3, <2>4, <2>5, <3>1, <3>2
      <4> HIDE DEF x, y, v, w, z
      <4>2. f[n + 1] <= w + h[n + 1]
        BY <4>1
      <4> QED
        BY <4>2 DEF w
    <3> QED
      BY <3>3 DEF p
  <2>7. CASE Owed(a[n + 1])
    <3>1. p # 0 /\ p \in 1..Len(b) /\ p - 1 \in 0..Len(b) /\ u <= p - 1
      BY <1>8, <2>4, <2>7
    <3>2. g[u] <= g[p - 1]
      BY <2>4, <3>1, SumsGrow
    <3>3. g[p] = g[p - 1] + b[p].cost
      BY <1>6, <2>4, <3>1
    <3>4. g[p - 1] \in Nat /\ b[p].cost \in Nat
      BY <1>6, <1>8, <3>1
    <3>5. a[n + 1].cost <= a[n + 1].free + b[p].cost
      BY <2>4, <2>7
    <3>6. f[n + 1] <= g[p] + h[n + 1]
      <4> DEFINE x == f[n]
                 y == h[n]
                 v == g[u]
                 w == g[p - 1]
                 z == a[n + 1].free
                 c1 == a[n + 1].cost
                 d == b[p].cost
      <4>1. /\ x \in Nat /\ y \in Nat /\ v \in Nat /\ w \in Nat /\ z \in Nat
            /\ c1 \in Nat /\ d \in Nat
            /\ x <= v + y /\ v <= w /\ c1 <= z + d
            /\ f[n + 1] = x + c1 /\ h[n + 1] = y + z /\ g[p] = w + d
        BY <2>3, <2>4, <2>5, <3>2, <3>3, <3>4, <3>5
      <4> HIDE DEF x, y, v, w, z, c1, d
      <4> QED
        BY <4>1
    <3> QED
      BY <3>6 DEF p
  <2> QED
    BY <2>6, <2>7
<1>11. Nat \subseteq S
  <2> HIDE DEF S
  <2> QED
    BY <1>9, <1>10, SetInduction
<1>12. upto(Len(a)) \in 0..Len(b)
  BY <1>8 DEF Paid
<1>13. f[Len(a)] <= g[upto(Len(a))] + h[Len(a)]
  BY <1>8, <1>11
<1> HIDE DEF upto
<1> DEFINE u == upto(Len(a))
<1>14. u \in 0..Len(b) /\ f[Len(a)] <= g[u] + h[Len(a)]
  BY <1>12, <1>13
<1> HIDE DEF u
<1>15. Len(b) \in 0..Len(b) /\ Len(a) \in 0..Len(a) /\ u <= Len(b)
  BY <1>8, <1>14
<1>16. g[u] <= g[Len(b)]
  BY <1>14, <1>15, SumsGrow
<1>17. f[Len(a)] \in Nat /\ g[u] \in Nat /\ g[Len(b)] \in Nat /\ h[Len(a)] \in Nat
  BY <1>5, <1>6, <1>7, <1>14, <1>15
<1>18. Airtime(a) <= Airtime(b) + Airtime(c)
  BY <1>1, <1>2, <1>3, <1>4, <1>14, <1>16, <1>17
<1> QED
  BY <1>18 DEF c

\* A packet more adds its cost.
LEMMA AirtimeOfAppend ==
    ASSUME NEW s \in Seq(Packets), NEW p \in Packets
    PROVE  Airtime(Append(s, p)) = Airtime(s) + p.cost
<1> DEFINE t == Append(s, p)
<1>1. t \in Seq(Packets) /\ Len(t) = Len(s) + 1 /\ t[Len(s) + 1] = p /\ \A i \in 1..Len(s) : t[i] = s[i]
  OBVIOUS
<1>2. PICK f \in Sums(s, Len(s)) : Airtime(s) = f[Len(s)]
  BY AirtimeIsSum
<1> HIDE DEF t
<1>3. PICK g \in Sums(t, Len(t)) : Airtime(t) = g[Len(t)]
  BY <1>1, AirtimeIsSum
<1>4. /\ f \in [0..Len(s) -> Nat]
      /\ \A i \in 0..Len(s) : f[i] = IF i = 0 THEN 0 ELSE f[i - 1] + s[i].cost
  BY <1>2 DEF Sums
<1>5. /\ g \in [0..Len(t) -> Nat]
      /\ \A i \in 0..Len(t) : g[i] = IF i = 0 THEN 0 ELSE g[i - 1] + t[i].cost
  BY <1>3 DEF Sums
<1>6. Len(s) \in Nat
  OBVIOUS
<1> DEFINE S == {n \in Nat : n <= Len(s) => f[n] = g[n]}
<1>7. 0 \in S
  BY <1>1, <1>4, <1>5, <1>6
<1>8. ASSUME NEW n \in S PROVE n + 1 \in S
  <2> SUFFICES ASSUME n + 1 <= Len(s) PROVE f[n + 1] = g[n + 1]
    OBVIOUS
  <2>1. /\ n + 1 \in 0..Len(s) /\ n + 1 \in 0..Len(t) /\ n + 1 # 0 /\ (n + 1) - 1 = n
        /\ f[n] = g[n] /\ t[n + 1] = s[n + 1]
    BY <1>1, <1>6
  <2> QED
    BY <1>4, <1>5, <2>1
<1>9. Nat \subseteq S
  <2> HIDE DEF S
  <2> QED
    BY <1>7, <1>8, SetInduction
<1>10. f[Len(s)] = g[Len(s)]
  BY <1>6, <1>9
<1>11. g[Len(t)] = g[Len(s)] + p.cost
  BY <1>1, <1>5, <1>6
<1> QED
  BY <1>2, <1>3, <1>10, <1>11 DEF t

-----------------------------------------------------------------------------
(* What a tick leaves of a sequence of packets.                             *)

\* A tick older: the same packets, every age one more.
LEMMA OlderOf ==
    ASSUME NEW s \in Seq(Packets)
    PROVE  /\ Older(s) \in Seq(Packets) /\ Len(Older(s)) = Len(s)
           /\ \A i \in 1..Len(s) : /\ Older(s)[i].cost = s[i].cost /\ Older(s)[i].free = s[i].free
                                   /\ Older(s)[i].age = s[i].age + 1
<1>1. /\ Len(s) \in Nat /\ DOMAIN s = 1..Len(s)
      /\ \A i \in 1..Len(s) : s[i] \in Packets /\ s[i].age \in Nat
  BY PacketOf
<1>2. Older(s) = [i \in 1..Len(s) |-> [s[i] EXCEPT !.age = s[i].age + 1]]
  BY <1>1 DEF Older
<1>3. ASSUME NEW p \in Packets
      PROVE  /\ [p EXCEPT !.age = p.age + 1] \in Packets
             /\ [p EXCEPT !.age = p.age + 1].age = p.age + 1
             /\ [p EXCEPT !.age = p.age + 1].cost = p.cost
             /\ [p EXCEPT !.age = p.age + 1].free = p.free
  <2>1. /\ p.age \in Nat /\ p.cost \in Nat /\ p.free \in Nat
        /\ p = [age |-> p.age, cost |-> p.cost, free |-> p.free]
    BY DEF Packets
  <2> DEFINE n == p.age + 1
  <2>2. n \in Nat
    BY <2>1
  <2> HIDE DEF n
  <2>3. [p EXCEPT !.age = n] = [age |-> n, cost |-> p.cost, free |-> p.free]
    BY <2>1
  <2> QED
    BY <2>1, <2>2, <2>3 DEF Packets, n
<1>4. Older(s) \in Seq(Packets) /\ Len(Older(s)) = Len(s)
  BY <1>1, <1>2, <1>3
<1>5. \A i \in 1..Len(s) : Older(s)[i] = [s[i] EXCEPT !.age = s[i].age + 1]
  BY <1>2
<1> QED
  BY <1>1, <1>3, <1>4, <1>5

\* What is not too old, from the head on.
LEMMA YoungOf ==
    ASSUME NEW s \in Seq(Packets)
    PROVE  \E k \in 0..Len(s) :
              /\ \A j \in 1..k : s[j].age >= Day
              /\ k < Len(s) => ~(s[k + 1].age >= Day)
              /\ Young(s) \in Seq(Packets) /\ Len(Young(s)) = Len(s) - k
              /\ \A i \in 1..(Len(s) - k) : Young(s)[i] = s[i + k]
<1>1. Len(s) \in Nat
  OBVIOUS
<1>2. Expired(s) \subseteq 0..Len(s) /\ 0 \in Expired(s)
  BY <1>1 DEF Expired
<1>3. \E k \in Expired(s) : \A j \in Expired(s) : k >= j
  <2> DEFINE T == {Len(s) - k : k \in Expired(s)}
  <2>1. T \subseteq Nat /\ T # {}
    BY <1>1, <1>2
  <2>2. PICK t \in T : \A u \in T : t <= u
    <3> HIDE DEF T
    <3> QED
      BY <2>1, LeastNatural
  <2>3. PICK k \in Expired(s) : t = Len(s) - k
    BY <2>2
  <2>4. ASSUME NEW j \in Expired(s) PROVE k >= j
    <3>1. t <= Len(s) - j
      BY <2>2
    <3> QED
      BY <1>1, <1>2, <2>3, <3>1
  <2> QED
    BY <2>4
<1> DEFINE k == Max(Expired(s))
<1>4. k \in Expired(s) /\ \A j \in Expired(s) : k >= j
  BY <1>3 DEF Max
<1>5. Young(s) = SubSeq(s, k + 1, Len(s))
  BY DEF Young
<1> HIDE DEF k
<1>6. k \in 0..Len(s) /\ \A j \in 1..k : s[j].age >= Day
  BY <1>4 DEF Expired
<1>7. k < Len(s) => ~(s[k + 1].age >= Day)
  <2> SUFFICES ASSUME k < Len(s), s[k + 1].age >= Day PROVE FALSE
    OBVIOUS
  <2>1. k + 1 \in 0..Len(s)
    BY <1>1, <1>6
  <2>2. \A j \in 1..(k + 1) : s[j].age >= Day
    BY <1>6
  <2>3. k + 1 \in Expired(s)
    BY <2>1, <2>2 DEF Expired
  <2> QED
    BY <1>4, <1>6, <2>3
<1>8. /\ Young(s) \in Seq(Packets) /\ Len(Young(s)) = Len(s) - k
      /\ \A i \in 1..(Len(s) - k) : Young(s)[i] = s[i + k]
  BY <1>1, <1>5, <1>6
<1> QED
  BY <1>6, <1>7, <1>8

\* What b2 keeps of b: all but the first k, which were the oldest.
Keeps(b, b2, k) ==
    /\ k \in 0..Len(b) /\ Len(b2) = Len(b) - k
    /\ \A j \in 1..k : b[j].age + 1 >= Day
    /\ \A i \in 1..Len(b2) : /\ b2[i].cost = b[i + k].cost /\ b2[i].free = b[i + k].free
                              /\ b2[i].age <= b[i + k].age + 1

\* A tick.
LEMMA AgedOf ==
    ASSUME NEW s \in Seq(Packets)
    PROVE  \E k \in 0..Len(s) :
              /\ Young(Older(s)) \in Seq(Packets)
              /\ Keeps(s, Young(Older(s)), k)
              /\ k < Len(s) => ~(s[k + 1].age + 1 >= Day)
              /\ \A i \in 1..Len(Young(Older(s))) : Young(Older(s))[i].age = s[i + k].age + 1
<1> DEFINE o == Older(s)
           y == Young(o)
<1>1. /\ o \in Seq(Packets) /\ Len(o) = Len(s)
      /\ \A i \in 1..Len(s) : o[i].cost = s[i].cost /\ o[i].free = s[i].free /\ o[i].age = s[i].age + 1
  BY OlderOf
<1> HIDE DEF o
<1>2. PICK k \in 0..Len(o) :
              /\ \A j \in 1..k : o[j].age >= Day
              /\ k < Len(o) => ~(o[k + 1].age >= Day)
              /\ y \in Seq(Packets) /\ Len(y) = Len(o) - k
              /\ \A i \in 1..(Len(o) - k) : y[i] = o[i + k]
  BY <1>1, YoungOf
<1> HIDE DEF y
<1>3. Len(s) \in Nat
  OBVIOUS
<1>4. \A i \in 1..Len(s) : s[i].age \in Nat
  BY PacketOf
<1>5. k \in 0..Len(s)
  BY <1>1, <1>2
<1>6. \A j \in 1..k : s[j].age + 1 >= Day
  BY <1>1, <1>2, <1>3, <1>5
<1>7. k < Len(s) => ~(s[k + 1].age + 1 >= Day)
  BY <1>1, <1>2, <1>3, <1>5
<1>8. ASSUME NEW i \in 1..Len(y)
      PROVE  /\ y[i].cost = s[i + k].cost /\ y[i].free = s[i + k].free
             /\ y[i].age = s[i + k].age + 1 /\ i + k \in 1..Len(s)
  <2>1. i \in 1..(Len(o) - k) /\ i + k \in 1..Len(s)
    BY <1>1, <1>2, <1>3, <1>5
  <2> QED
    BY <1>1, <1>2, <2>1
<1>9. Keeps(s, y, k)
  <2>1. \A i \in 1..Len(y) : /\ y[i].cost = s[i + k].cost /\ y[i].free = s[i + k].free
                             /\ y[i].age <= s[i + k].age + 1
    BY <1>4, <1>8
  <2> QED
    BY <1>1, <1>2, <1>5, <1>6, <2>1 DEF Keeps
<1> QED
  BY <1>2, <1>5, <1>7, <1>8, <1>9 DEF y, o

\* A tick makes no airtime.
LEMMA AgedAirtime ==
    ASSUME NEW s \in Seq(Packets)
    PROVE  Airtime(Young(Older(s))) <= Airtime(s) /\ Len(Young(Older(s))) <= Len(s)
<1> DEFINE t == Young(Older(s))
<1>1. PICK k \in 0..Len(s) : t \in Seq(Packets) /\ Keeps(s, t, k)
  BY AgedOf
<1> HIDE DEF t
<1>2. /\ Len(s) \in Nat /\ Len(t) \in Nat /\ Len(t) = Len(s) - k
      /\ \A i \in 1..Len(t) : t[i].cost = s[i + k].cost
  BY <1>1 DEF Keeps
<1>3. PICK f \in Sums(t, Len(t)) : Airtime(t) = f[Len(t)]
  BY <1>1, AirtimeIsSum
<1>4. PICK g \in Sums(s, Len(s)) : Airtime(s) = g[Len(s)]
  BY AirtimeIsSum
<1>5. /\ f \in [0..Len(t) -> Nat]
      /\ \A i \in 0..Len(t) : f[i] = IF i = 0 THEN 0 ELSE f[i - 1] + t[i].cost
  BY <1>3 DEF Sums
<1>6. /\ g \in [0..Len(s) -> Nat]
      /\ \A i \in 0..Len(s) : g[i] = IF i = 0 THEN 0 ELSE g[i - 1] + s[i].cost
  BY <1>4 DEF Sums
<1>7. \A i \in 1..Len(s) : s[i].cost \in Nat
  BY PacketOf
<1> DEFINE S == {n \in Nat : n <= Len(t) => f[n] <= g[n + k]}
<1>8. 0 \in S
  BY <1>2, <1>5, <1>6
<1>9. ASSUME NEW n \in S PROVE n + 1 \in S
  <2> SUFFICES ASSUME n + 1 <= Len(t) PROVE f[n + 1] <= g[(n + 1) + k]
    OBVIOUS
  <2>1. /\ n \in 0..Len(t) /\ n + 1 \in 1..Len(t) /\ n + 1 \in 0..Len(t) /\ n + 1 # 0 /\ (n + 1) - 1 = n
        /\ n + k \in 0..Len(s) /\ (n + 1) + k \in 1..Len(s) /\ (n + 1) + k \in 0..Len(s)
        /\ (n + 1) + k # 0 /\ ((n + 1) + k) - 1 = n + k
        /\ f[n] <= g[n + k]
    BY <1>2
  <2>2. f[n + 1] = f[n] + s[(n + 1) + k].cost
    BY <1>2, <1>5, <2>1
  <2>3. g[(n + 1) + k] = g[n + k] + s[(n + 1) + k].cost
    BY <1>6, <2>1
  <2>4. f[n] \in Nat /\ g[n + k] \in Nat /\ s[(n + 1) + k].cost \in Nat
    BY <1>5, <1>6, <1>7, <2>1
  <2> QED
    BY <2>1, <2>2, <2>3, <2>4
<1>10. Nat \subseteq S
  <2> HIDE DEF S
  <2> QED
    BY <1>8, <1>9, SetInduction
<1>11. f[Len(t)] <= g[Len(t) + k] /\ Len(t) + k = Len(s)
  BY <1>2, <1>10
<1> QED
  BY <1>2, <1>3, <1>4, <1>11 DEF t

\* The oldest come first.
Sorted(a) == \A i, j \in DOMAIN a : i < j => a[j].age <= a[i].age

\* What is on air is still matched after a tick: what is charged goes no
\* earlier than what was on air.
LEMMA AgedMatches ==
    ASSUME NEW a \in Seq(Packets), NEW b \in Seq(Packets), NEW m, NEW b2 \in Seq(Packets), NEW q,
           Paid(a, b, m), Sorted(a), Keeps(b, b2, q), Day \in Nat
    PROVE  \E m2 : Paid(Young(Older(a)), b2, m2)
<1> DEFINE a2 == Young(Older(a))
<1>1. PICK k \in 0..Len(a) :
              /\ a2 \in Seq(Packets) /\ Keeps(a, a2, k)
              /\ k < Len(a) => ~(a[k + 1].age + 1 >= Day)
              /\ \A i \in 1..Len(a2) : a2[i].age = a[i + k].age + 1
  BY AgedOf
<1> HIDE DEF a2
<1>2. /\ DOMAIN a = 1..Len(a) /\ Len(a) \in Nat /\ Len(b) \in Nat
      /\ DOMAIN a2 = 1..Len(a2)
      /\ Len(a2) = Len(a) - k /\ Len(b2) = Len(b) - q /\ q \in 0..Len(b)
  BY <1>1 DEF Keeps
<1>3. /\ \A i \in 1..Len(a) : a[i].age \in Nat
      /\ \A i \in 1..Len(b) : b[i].age \in Nat
      /\ \A i \in 1..Len(b2) : b2[i].age \in Nat
  BY PacketOf
<1>4. ASSUME NEW i \in 1..Len(a2)
      PROVE  /\ i + k \in 1..Len(a) /\ m[i + k] \in 0..Len(b)
             /\ a2[i].cost = a[i + k].cost /\ a2[i].free = a[i + k].free /\ a2[i].age = a[i + k].age + 1
             /\ Owed(a2[i]) <=> Owed(a[i + k])
  <2>1. i + k \in 1..Len(a)
    BY <1>2
  <2>2. m[i + k] \in 0..Len(b)
    BY <1>2, <2>1 DEF Paid
  <2>3. a2[i].cost = a[i + k].cost /\ a2[i].free = a[i + k].free /\ a2[i].age = a[i + k].age + 1
    BY <1>1 DEF Keeps
  <2> QED
    BY <2>1, <2>2, <2>3 DEF Owed
<1>5. ASSUME NEW i \in 1..Len(a2), Owed(a[i + k])
      PROVE  m[i + k] > q /\ m[i + k] \in 1..Len(b)
  <2>1. i + k \in 1..Len(a) /\ k < Len(a) /\ k + 1 \in 1..Len(a)
    BY <1>2
  <2>2. /\ m[i + k] \in 1..Len(b)
        /\ b[m[i + k]].age <= a[i + k].age
    <3>1. m[i + k] \in 0..Len(b) /\ m[i + k] # 0 /\ b[m[i + k]].age <= a[i + k].age
      BY <1>2, <1>5, <2>1 DEF Paid
    <3> QED
      BY <1>2, <3>1
  <2>3. a[i + k].age <= a[k + 1].age
    <3>1. CASE i = 1
      BY <1>2, <1>3, <2>1, <3>1
    <3>2. CASE i # 1
      <4>1. k + 1 < i + k
        BY <1>2, <3>2
      <4> QED
        BY <1>2, <2>1, <4>1 DEF Sorted
    <3> QED
      BY <3>1, <3>2
  <2> DEFINE p == m[i + k]
  <2>4. ~(b[p].age + 1 >= Day)
    <3>1. ~(a[k + 1].age + 1 >= Day)
      BY <1>1, <2>1
    <3> DEFINE x == a[i + k].age
               y == a[k + 1].age
               z == b[p].age
    <3>2. x \in Nat /\ y \in Nat /\ z \in Nat
      BY <1>3, <2>1, <2>2
    <3>3. x <= y /\ z <= x /\ ~(y + 1 >= Day)
      BY <2>2, <2>3, <3>1
    <3> HIDE DEF x, y, z
    <3>4. ~(z + 1 >= Day)
      BY <3>2, <3>3
    <3> QED
      BY <3>4 DEF z
  <2>5. p \in 1..Len(b)
    BY <2>2
  <2> HIDE DEF p
  <2>6. ~(p \in 1..q)
    BY <2>4 DEF Keeps
  <2>7. p > q
    BY <1>2, <2>5, <2>6
  <2> QED
    BY <2>5, <2>7 DEF p
<1> DEFINE past(n) == IF n <= q THEN 0 ELSE n - q
           m2 == [i \in DOMAIN a2 |-> past(m[i + k])]
<1>6. \A n \in 0..Len(b) : past(n) \in 0..Len(b2)
  BY <1>2
<1>7. \A n1, n2 \in 0..Len(b) : /\ n1 <= n2 => past(n1) <= past(n2)
                                /\ n1 < n2 /\ n2 > q => past(n1) < past(n2)
  BY <1>2
<1>8. \A n \in 0..Len(b) : n > q => past(n) # 0 /\ past(n) = n - q
  BY <1>2
<1> HIDE DEF past
<1>9. m2 \in [DOMAIN a2 -> 0..Len(b2)]
  BY <1>2, <1>4, <1>6
<1>10. \A i \in 1..Len(a2) : m2[i] = past(m[i + k])
  BY <1>2
<1> HIDE DEF m2
<1>11. ASSUME NEW i \in DOMAIN a2, NEW j \in DOMAIN a2, i < j
       PROVE  m2[i] <= m2[j] /\ (Owed(a2[j]) => m2[i] < m2[j])
  <2>1. i \in 1..Len(a2) /\ j \in 1..Len(a2) /\ i + k < j + k
    BY <1>2, <1>11
  <2>2. /\ i + k \in DOMAIN a /\ j + k \in DOMAIN a
        /\ m[i + k] \in 0..Len(b) /\ m[j + k] \in 0..Len(b)
        /\ Owed(a2[j]) => Owed(a[j + k])
    BY <1>2, <1>4, <2>1
  <2>3. m[i + k] <= m[j + k] /\ (Owed(a[j + k]) => m[i + k] < m[j + k])
    BY <2>1, <2>2 DEF Paid
  <2>4. Owed(a[j + k]) => m[j + k] > q
    BY <1>5, <2>1
  <2>5. m2[i] = past(m[i + k]) /\ m2[j] = past(m[j + k])
    BY <1>10, <2>1
  <2> QED
    BY <1>7, <2>2, <2>3, <2>4, <2>5
<1>12. ASSUME NEW i \in DOMAIN a2, Owed(a2[i])
       PROVE  m2[i] # 0 /\ a2[i].cost <= a2[i].free + b2[m2[i]].cost /\ b2[m2[i]].age <= a2[i].age
  <2> DEFINE p == m[i + k]
             r == i + k
  <2>1. i \in 1..Len(a2) /\ r \in 1..Len(a) /\ Owed(a[r])
    BY <1>2, <1>4, <1>12
  <2>2. p \in 1..Len(b) /\ p > q /\ p \in 0..Len(b)
    <3>1. p > q /\ p \in 1..Len(b)
      BY <1>5, <2>1
    <3> QED
      BY <1>2, <3>1
  <2>3. m2[i] # 0 /\ m2[i] = p - q /\ p - q \in 1..Len(b2)
    BY <1>2, <1>8, <1>10, <2>1, <2>2
  <2>4. a2[i].cost = a[r].cost /\ a2[i].free = a[r].free /\ a2[i].age = a[r].age + 1
    BY <1>4, <2>1
  <2>5. a[r].cost <= a[r].free + b[p].cost /\ b[p].age <= a[r].age
    BY <1>2, <2>1 DEF Paid
  <2> HIDE DEF p, r
  <2>6. (p - q) + q = p
    BY <1>2, <2>2
  <2>7. b2[p - q].cost = b[p].cost /\ b2[p - q].age <= b[p].age + 1
    BY <2>3, <2>6 DEF Keeps
  <2>8. a[r].age \in Nat /\ b[p].age \in Nat /\ b2[p - q].age \in Nat
    BY <1>3, <2>1, <2>2, <2>3
  <2> DEFINE x == a[r].age
             y == b[p].age
             z == b2[p - q].age
  <2>9. a2[i].age = x + 1 /\ y <= x /\ z <= y + 1 /\ x \in Nat /\ y \in Nat /\ z \in Nat
    BY <2>4, <2>5, <2>7, <2>8
  <2>10. b2[m2[i]].age = z /\ a2[i].cost <= a2[i].free + b2[m2[i]].cost
    BY <2>3, <2>4, <2>5, <2>7
  <2> HIDE DEF x, y, z
  <2>11. z <= x + 1
    BY <2>9
  <2> QED
    BY <2>3, <2>9, <2>10, <2>11
<1>13. Paid(a2, b2, m2)
  BY <1>9, <1>11, <1>12 DEF Paid
<1> QED
  BY <1>13 DEF a2

-----------------------------------------------------------------------------
(* The airtime.                                                             *)

\* What is charged, a send that is out with it.
Charges == IF pc = "txWait" THEN Append(ring, Packet(sf)) ELSE ring
Pending == IF pc = "txWait" THEN sf ELSE 0

LoraTypes ==
    /\ ring \in Seq(Packets) /\ air \in Seq(Packets)
    /\ sf \in Costs /\ modSf \in Costs
    /\ pc = "txWait" => sent \in Ports

\* The ring holds the budget, the send that is out with it, and has room for it.
RingInv ==
    /\ Airtime(ring) + Pending <= Budget
    /\ Len(ring) <= RingSize /\ (pc = "txWait" => Len(ring) < RingSize)

\* Every packet on air is free or charged for, and leaves the day no later
\* than its charge.
AirInv == Sorted(air) /\ \E m : Paid(air, Charges, m)

AirtimeInv == LoraTypes /\ RingInv /\ AirInv

\* A packet of one of the rates.
LEMMA PacketTyped ==
    ASSUME NEW c \in Costs
    PROVE  /\ c \in Nat /\ c > 0 /\ Packet(c) \in Packets
           /\ Packet(c).cost = c /\ Packet(c).age = 0 /\ Packet(c).free = 0
BY LoraAssumption DEF Packet, Packets

\* A packet that goes on air, at some charge: what that does not pay is free.
LEMMA OnAirOf ==
    ASSUME NEW charge \in Nat, modSf \in Costs, OnAir(charge)
    PROVE  \E p \in Packets : /\ air' = Append(air, p) /\ p.age = 0
                              /\ p.cost <= p.free + charge
                              /\ charge = 0 => ~Owed(p)
<1> DEFINE rest == IF modSf > charge THEN modSf - charge ELSE 0
           p == [Packet(modSf) EXCEPT !.free = rest]
<1>1. modSf \in Nat /\ rest \in Nat /\ modSf <= rest + charge /\ (charge = 0 => rest = modSf)
  BY PacketTyped
<1>2. air' = Append(air, p)
  BY DEF OnAir
<1> HIDE DEF rest
<1>3. p = [age |-> 0, cost |-> modSf, free |-> rest]
  BY DEF Packet
<1> HIDE DEF p
<1>4. p \in Packets /\ p.age = 0 /\ p.cost = modSf /\ p.free = rest
  BY <1>1, <1>3 DEF Packets
<1> QED
  BY <1>1, <1>2, <1>4 DEF Owed

\* A packet more at the end, of no age.
LEMMA SortedMore ==
    ASSUME NEW a \in Seq(Packets), NEW p \in Packets, p.age = 0, Sorted(a)
    PROVE  Sorted(Append(a, p))
<1> DEFINE a2 == Append(a, p)
           n == Len(a) + 1
<1>1. /\ DOMAIN a = 1..Len(a) /\ Len(a) \in Nat /\ DOMAIN a2 = 1..n
      /\ a2[n] = p /\ \A i \in 1..Len(a) : a2[i] = a[i]
      /\ \A i \in 1..Len(a) : a[i].age \in Nat
      /\ n \in Nat /\ \A i \in 1..n : i # n => i \in 1..Len(a)
  BY PacketOf
<1> HIDE DEF a2, n
<1> SUFFICES ASSUME NEW i \in 1..n, NEW j \in 1..n, i < j PROVE a2[j].age <= a2[i].age
  BY <1>1 DEF Sorted, a2
<1>2. i \in 1..Len(a)
  BY <1>1
<1>3. CASE j = n
  BY <1>1, <1>2, <1>3
<1>4. CASE j # n
  BY <1>1, <1>2, <1>4 DEF Sorted
<1> QED
  BY <1>3, <1>4

\* More charges match as well.
LEMMA MatchesMore ==
    ASSUME NEW a \in Seq(Packets), NEW b \in Seq(Packets), NEW m, NEW c \in Packets,
           Paid(a, b, m)
    PROVE  Paid(a, Append(b, c), m)
<1> DEFINE b2 == Append(b, c)
<1>1. /\ Len(b) \in Nat /\ Len(b2) = Len(b) + 1
      /\ \A i \in 1..Len(b) : b2[i] = b[i]
  OBVIOUS
<1> HIDE DEF b2
<1>2. m \in [DOMAIN a -> 0..Len(b2)]
  BY <1>1 DEF Paid
<1>3. \A i \in DOMAIN a : Owed(a[i]) => b2[m[i]] = b[m[i]]
  <2> SUFFICES ASSUME NEW i \in DOMAIN a, Owed(a[i]) PROVE b2[m[i]] = b[m[i]]
    OBVIOUS
  <2>1. m[i] \in 0..Len(b) /\ m[i] # 0
    BY DEF Paid
  <2>2. m[i] \in 1..Len(b)
    BY <1>1, <2>1
  <2> QED
    BY <1>1, <2>2
<1>4. Paid(a, b2, m)
  BY <1>2, <1>3 DEF Paid
<1> QED
  BY <1>4 DEF b2

\* A packet more on air, that is free or that the last of the charges pays
\* for, one no other packet needs.
LEMMA MatchesNew ==
    ASSUME NEW a \in Seq(Packets), NEW b \in Seq(Packets), NEW m, NEW p \in Packets,
           Paid(a, b, m),
           Owed(p) => /\ Len(b) # 0
                      /\ \A i \in DOMAIN a : m[i] < Len(b)
                      /\ p.cost <= p.free + b[Len(b)].cost
                      /\ b[Len(b)].age <= p.age
    PROVE  \E m2 : Paid(Append(a, p), b, m2)
<1> DEFINE a2 == Append(a, p)
           n == Len(a) + 1
           l == Len(b)
<1>1. /\ DOMAIN a = 1..Len(a) /\ Len(a) \in Nat /\ l \in Nat /\ l \in 0..l
      /\ DOMAIN a2 = 1..n /\ a2[n] = p /\ \A i \in 1..Len(a) : a2[i] = a[i]
  BY PacketOf
<1>2. /\ n \in Nat /\ \A i \in 1..n : i # n => i \in 1..Len(a)
      /\ \A i \in 1..Len(a) : i < n /\ i \in 1..n /\ i # n
  BY <1>1
<1> HIDE DEF a2, n
<1> DEFINE m2 == [i \in 1..n |-> IF i = n THEN l ELSE m[i]]
<1>3. \A i \in 1..Len(a) : m[i] \in 0..l
  BY <1>1 DEF Paid
<1>4. \A i \in 1..Len(a) : m2[i] = m[i]
  BY <1>2
<1>5. n \in 1..n /\ m2[n] = l
  BY <1>1, <1>2 DEF n
<1>6. m2 \in [1..n -> 0..l]
  BY <1>1, <1>2, <1>3
<1> HIDE DEF m2
<1>7. ASSUME NEW i \in 1..n, NEW j \in 1..n, i < j
      PROVE  m2[i] <= m2[j] /\ (Owed(a2[j]) => m2[i] < m2[j])
  <2>1. i \in 1..Len(a)
    BY <1>2, <1>7
  <2>2. CASE j = n
    <3>1. m2[i] = m[i] /\ m[i] \in 0..l /\ m2[j] = l /\ a2[j] = p
      BY <1>1, <1>3, <1>4, <1>5, <2>1, <2>2
    <3>2. Owed(p) => m[i] < l
      BY <1>1, <2>1
    <3> QED
      BY <1>1, <3>1, <3>2
  <2>3. CASE j # n
    <3>1. j \in 1..Len(a)
      BY <1>2, <2>3
    <3>2. m[i] <= m[j] /\ (Owed(a[j]) => m[i] < m[j])
      BY <1>1, <1>7, <2>1, <3>1 DEF Paid
    <3> QED
      BY <1>1, <1>4, <2>1, <3>1, <3>2
  <2> QED
    BY <2>2, <2>3
<1>8. ASSUME NEW i \in 1..n, Owed(a2[i])
      PROVE  m2[i] # 0 /\ a2[i].cost <= a2[i].free + b[m2[i]].cost /\ b[m2[i]].age <= a2[i].age
  <2>1. CASE i = n
    BY <1>1, <1>5, <1>8, <2>1
  <2>2. CASE i # n
    <3>1. i \in 1..Len(a)
      BY <1>2, <2>2
    <3>2. m2[i] = m[i] /\ a2[i] = a[i]
      BY <1>1, <1>4, <3>1
    <3>3. m[i] # 0 /\ a[i].cost <= a[i].free + b[m[i]].cost /\ b[m[i]].age <= a[i].age
      BY <1>1, <1>8, <3>1, <3>2 DEF Paid
    <3> QED
      BY <3>2, <3>3
  <2> QED
    BY <2>1, <2>2
<1>9. Paid(a2, b, m2)
  BY <1>1, <1>6, <1>7, <1>8 DEF Paid
<1> QED
  BY <1>9 DEF a2

\* A packet on air and its charge.
LEMMA MatchesCharged ==
    ASSUME NEW a \in Seq(Packets), NEW b \in Seq(Packets), NEW m, NEW p \in Packets, NEW c \in Packets,
           Paid(a, b, m), p.age = 0, c.age = 0, p.cost <= p.free + c.cost
    PROVE  \E m2 : Paid(Append(a, p), Append(b, c), m2)
<1> DEFINE b2 == Append(b, c)
<1>1. b2 \in Seq(Packets) /\ Len(b2) # 0 /\ b2[Len(b2)] = c /\ Paid(a, b2, m)
  BY MatchesMore
<1>2. \A i \in DOMAIN a : m[i] < Len(b2)
  BY DEF Paid
<1>3. p.cost <= p.free + b2[Len(b2)].cost /\ b2[Len(b2)].age <= p.age
  BY <1>1
<1> HIDE DEF b2
<1>4. \E m2 : Paid(Append(a, p), b2, m2)
  BY <1>1, <1>2, <1>3, MatchesNew
<1> QED
  BY <1>4 DEF b2

\* So the airtime of what is on air is within the budget, but for what is free.
LEMMA AirtimeFromInv ==
    ASSUME AirtimeInv
    PROVE  AirtimeKept
<1>1. PICK m : Paid(air, Charges, m)
  BY DEF AirtimeInv, AirInv
<1>2. ring \in Seq(Packets) /\ air \in Seq(Packets) /\ sf \in Costs
  BY DEF AirtimeInv, LoraTypes
<1>3. Packet(sf) \in Packets /\ Packet(sf).cost = sf /\ sf \in Nat
  BY <1>2, PacketTyped
<1>4. Charges \in Seq(Packets) /\ Airtime(Charges) = Airtime(ring) + Pending
  <2>1. CASE pc = "txWait"
    <3>1. Charges = Append(ring, Packet(sf)) /\ Pending = sf
      BY <2>1 DEF Charges, Pending
    <3>2. Airtime(Append(ring, Packet(sf))) = Airtime(ring) + Packet(sf).cost
      BY <1>2, <1>3, AirtimeOfAppend
    <3> QED
      BY <1>2, <1>3, <3>1, <3>2
  <2>2. CASE pc # "txWait"
    <3>1. Airtime(ring) \in Nat
      BY <1>2, AirtimeNat
    <3> QED
      BY <1>2, <2>2, <3>1 DEF Charges, Pending
  <2> QED
    BY <2>1, <2>2
<1>5. Airtime(air) <= Airtime(Charges) + Airtime(Free(air))
  BY <1>1, <1>2, <1>4, AirtimeOfMatch
<1>6. Airtime(air) \in Nat /\ Airtime(Charges) \in Nat /\ Airtime(Free(air)) \in Nat
  BY <1>2, <1>4, FreeOf, AirtimeNat
<1>7. Airtime(Charges) <= Budget
  BY <1>4 DEF AirtimeInv, RingInv
<1> QED
  BY <1>5, <1>6, <1>7, LoraAssumption DEF AirtimeKept

\* SF12 is one of the rates.
LEMMA SlowestOf == Slowest \in Costs
BY LoraAssumption DEF Slowest

\* At boot nothing is on air and nothing is charged.
LEMMA AirtimeInit ==
    ASSUME LoraInit
    PROVE  AirtimeInv
<1>1. LoraTypes
  <2>1. Slowest \in Costs
    BY SlowestOf
  <2> QED
    BY <2>1 DEF LoraInit, LoraTypes
<1>2. RingInv
  <2>1. ring = <<>> /\ ring \in Seq(Packets) /\ Len(ring) = 0
    BY DEF LoraInit
  <2>2. PICK f \in Sums(ring, 0) : Airtime(ring) = f[0]
    BY <2>1, AirtimeIsSum
  <2>3. Airtime(ring) = 0
    BY <2>2 DEF Sums
  <2> QED
    BY <2>1, <2>3, LoraAssumption DEF LoraInit, RingInv, Pending
<1>3. AirInv
  <2>1. air = <<>> /\ DOMAIN air = {}
    BY DEF LoraInit
  <2> DEFINE m == [i \in {} |-> 0]
  <2>2. Paid(air, Charges, m) /\ Sorted(air)
    BY <2>1 DEF Paid, Sorted
  <2> QED
    BY <2>2 DEF AirInv
<1> QED
  BY <1>1, <1>2, <1>3 DEF AirtimeInv

\* What neither charges nor sends, and leaves a send that is out alone.
LEMMA NoAirtime ==
    ASSUME AirtimeInv, UNCHANGED <<ring, air>>, sf' \in Costs, modSf' \in Costs,
           pc' = "txWait" <=> pc = "txWait", pc = "txWait" => sf' = sf /\ sent' = sent
    PROVE  AirtimeInv'
<1>1. LoraTypes'
  BY DEF AirtimeInv, LoraTypes
<1>2. Charges' = Charges /\ Pending' = Pending
  BY DEF Charges, Pending, Packet
<1>3. RingInv'
  BY <1>2 DEF AirtimeInv, RingInv
<1>4. AirInv'
  BY <1>2 DEF AirtimeInv, AirInv
<1> QED
  BY <1>1, <1>3, <1>4 DEF AirtimeInv

\* Time passes, for the module and for the ring alike.
LEMMA PassesAirtime ==
    ASSUME AirtimeInv, Passes
    PROVE  AirtimeInv'
<1>1. /\ ring' = Young(Older(ring)) /\ air' = Young(Older(air))
      /\ pc' = pc /\ sf' = sf /\ modSf' = modSf /\ sent' = sent
  BY DEF Passes, worker, module
<1>2. ring \in Seq(Packets) /\ air \in Seq(Packets) /\ sf \in Costs
  BY DEF AirtimeInv, LoraTypes
<1>3. PICK q \in 0..Len(ring) : ring' \in Seq(Packets) /\ Keeps(ring, ring', q)
  BY <1>1, <1>2, AgedOf
<1>4. air' \in Seq(Packets)
  BY <1>1, <1>2, AgedOf
<1>5. Airtime(ring') <= Airtime(ring) /\ Len(ring') <= Len(ring)
  BY <1>1, <1>2, AgedAirtime
<1>6. LoraTypes'
  BY <1>1, <1>3, <1>4 DEF AirtimeInv, LoraTypes
<1>7. RingInv'
  <2>1. Pending' = Pending /\ Pending \in Nat
    BY <1>1, <1>2, PacketTyped DEF Pending
  <2>2. Airtime(ring) \in Nat /\ Airtime(ring') \in Nat
    BY <1>2, <1>3, AirtimeNat
  <2>3. Airtime(ring') + Pending <= Budget
    BY <1>5, <2>1, <2>2, LoraAssumption DEF AirtimeInv, RingInv
  <2>4. Len(ring) \in Nat /\ Len(ring') \in Nat /\ RingSize \in Nat
    BY <1>2, <1>3, LoraAssumption
  <2>5. Len(ring') <= RingSize /\ (pc' = "txWait" => Len(ring') < RingSize)
    BY <1>1, <1>5, <2>4 DEF AirtimeInv, RingInv
  <2> QED
    BY <2>1, <2>3, <2>5 DEF RingInv
<1>8. Sorted(air')
  <2>1. PICK k \in 0..Len(air) :
              /\ Keeps(air, air', k)
              /\ \A i \in 1..Len(air') : air'[i].age = air[i + k].age + 1
    BY <1>1, <1>2, AgedOf
  <2>2. /\ DOMAIN air' = 1..Len(air') /\ Len(air') = Len(air) - k
        /\ DOMAIN air = 1..Len(air) /\ Len(air) \in Nat
        /\ \A i \in 1..Len(air) : air[i].age \in Nat
    BY <1>2, <1>4, <2>1, PacketOf DEF Keeps
  <2>3. SUFFICES ASSUME NEW i \in 1..Len(air'), NEW j \in 1..Len(air'), i < j
                 PROVE air'[j].age <= air'[i].age
    BY <2>2 DEF Sorted
  <2>4. i + k \in 1..Len(air) /\ j + k \in 1..Len(air) /\ i + k < j + k
    BY <2>2, <2>3
  <2>5. air[j + k].age <= air[i + k].age
    BY <2>2, <2>4 DEF AirtimeInv, AirInv, Sorted
  <2>6. air[j + k].age \in Nat /\ air[i + k].age \in Nat
    BY <2>2, <2>4
  <2>7. air'[i].age = air[i + k].age + 1 /\ air'[j].age = air[j + k].age + 1
    BY <2>1
  <2> DEFINE x == air[i + k].age
             y == air[j + k].age
  <2>8. y <= x /\ x \in Nat /\ y \in Nat /\ air'[i].age = x + 1 /\ air'[j].age = y + 1
    BY <2>5, <2>6, <2>7
  <2> HIDE DEF x, y
  <2> QED
    BY <2>8
<1>9. PICK m : Paid(air, Charges, m)
  BY DEF AirtimeInv, AirInv
<1>10. Charges \in Seq(Packets) /\ Charges' \in Seq(Packets) /\ Keeps(Charges, Charges', q)
  <2>1. CASE pc # "txWait"
    BY <1>1, <1>2, <1>3, <2>1 DEF Charges
  <2>2. CASE pc = "txWait"
    <3> DEFINE p == Packet(sf)
    <3>1. p \in Packets /\ p.age = 0
      BY <1>2, PacketTyped
    <3>2. Charges = Append(ring, p) /\ Charges' = Append(ring', p)
      BY <1>1, <2>2 DEF Charges, Packet
    <3> HIDE DEF p
    <3> DEFINE b == Append(ring, p)
               b2 == Append(ring', p)
    <3>3. /\ b \in Seq(Packets) /\ b2 \in Seq(Packets)
          /\ Len(b) = Len(ring) + 1 /\ Len(b2) = Len(ring') + 1
          /\ b[Len(ring) + 1] = p /\ b2[Len(ring') + 1] = p
          /\ \A i \in 1..Len(ring) : b[i] = ring[i]
          /\ \A i \in 1..Len(ring') : b2[i] = ring'[i]
          /\ Len(ring) \in Nat /\ Len(ring') \in Nat /\ Len(ring') = Len(ring) - q
      BY <1>2, <1>3, <3>1 DEF Keeps
    <3> HIDE DEF b, b2
    <3>4. q \in 0..Len(b) /\ Len(b2) = Len(b) - q
      BY <3>3
    <3>5. \A j \in 1..q : b[j].age + 1 >= Day
      BY <1>3, <3>3 DEF Keeps
    <3>6. ASSUME NEW i \in 1..Len(b2)
          PROVE  /\ b2[i].cost = b[i + q].cost /\ b2[i].free = b[i + q].free
                 /\ b2[i].age <= b[i + q].age + 1
      <4>1. CASE i = Len(ring') + 1
        <5>1. i + q = Len(ring) + 1
          BY <3>3, <4>1
        <5>2. b2[i] = p /\ b[i + q] = p
          BY <3>3, <4>1, <5>1
        <5> QED
          BY <3>1, <5>2
      <4>2. CASE i # Len(ring') + 1
        <5>1. i \in 1..(Len(ring') + 1) /\ Len(ring') \in Nat
          BY <3>3
        <5>2. i \in 1..Len(ring')
          BY <4>2, <5>1
        <5>3. i + q \in 1..Len(ring)
          BY <3>3, <5>2
        <5> QED
          BY <1>3, <3>3, <5>2, <5>3 DEF Keeps
      <4> QED
        BY <4>1, <4>2
    <3>7. Keeps(b, b2, q)
      BY <3>4, <3>5, <3>6 DEF Keeps
    <3> QED
      BY <3>2, <3>3, <3>7 DEF b, b2
  <2> QED
    BY <2>1, <2>2
<1>11. Sorted(air) /\ Day \in Nat
  BY LoraAssumption DEF AirtimeInv, AirInv
<1>12. \E m2 : Paid(Young(Older(air)), Charges', m2)
  BY <1>2, <1>9, <1>10, <1>11, AgedMatches
<1>13. AirInv'
  BY <1>1, <1>8, <1>12 DEF AirInv
<1> QED
  BY <1>6, <1>7, <1>13 DEF AirtimeInv

\* With room for a packet, the ring is not full and the budget holds it.
LEMMA RoomFor ==
    ASSUME AirtimeInv, NEW c \in Costs, Room >= c
    PROVE  Len(ring) < RingSize /\ Airtime(ring) + c <= Budget /\ Charged(c) = Append(ring, Packet(c))
<1>1. ring \in Seq(Packets) /\ Len(ring) \in Nat /\ Airtime(ring) \in Nat /\ c \in Nat /\ c > 0
  BY AirtimeNat, PacketTyped DEF AirtimeInv, LoraTypes
<1>2. Room # 0
  BY <1>1
<1>3. Len(ring) # RingSize /\ ~(Airtime(ring) >= Budget) /\ Room = Budget - Airtime(ring)
  BY <1>2 DEF Room
<1>4. Len(ring) <= RingSize /\ RingSize \in Nat /\ Budget \in Nat
  BY LoraAssumption DEF AirtimeInv, RingInv
<1> QED
  BY <1>1, <1>3, <1>4 DEF Charged

\* Nothing is charged, but a packet that is free goes on air.
LEMMA FreeAirtime ==
    ASSUME AirtimeInv, ring' = ring, OnAir(0), sf' \in Costs, modSf' \in Costs,
           pc # "txWait", pc' # "txWait"
    PROVE  AirtimeInv'
<1>1. modSf \in Costs /\ ring \in Seq(Packets) /\ air \in Seq(Packets)
  BY DEF AirtimeInv, LoraTypes
<1>2. PICK p \in Packets : air' = Append(air, p) /\ p.age = 0 /\ ~Owed(p)
  BY <1>1, OnAirOf
<1>3. LoraTypes'
  BY <1>1, <1>2 DEF LoraTypes
<1>4. RingInv'
  BY DEF AirtimeInv, RingInv, Pending
<1>5. Charges = ring /\ Charges' = ring
  BY DEF Charges
<1>6. PICK m : Paid(air, ring, m) /\ Sorted(air)
  BY <1>5 DEF AirtimeInv, AirInv
<1>7. Sorted(air') /\ \E m2 : Paid(air', ring, m2)
  BY <1>1, <1>2, <1>6, SortedMore, MatchesNew
<1> QED
  BY <1>3, <1>4, <1>5, <1>7 DEF AirtimeInv, AirInv

\* A join request is charged as it goes out, unless its OK is lost.
LEMMA JoinAirtime ==
    ASSUME AirtimeInv, NEW answer \in Answers, NEW to, Join(answer, to)
    PROVE  AirtimeInv'
<1>1. pc = "join" /\ pc' # "txWait" /\ modSf' = modSf /\ sent' = sent /\ sf' = SfNow(answer)
  BY DEF Join, JoinLeft, NoRequest
<1>2. /\ ring \in Seq(Packets) /\ air \in Seq(Packets) /\ sf \in Costs /\ modSf \in Costs
      /\ sf' \in Costs
  BY <1>1 DEF AirtimeInv, LoraTypes, SfNow
<1>3. CASE ring' = ring /\ air' = air
  BY <1>1, <1>2, <1>3, NoAirtime
<1>4. CASE ring' = ring /\ OnAir(0)
  BY <1>1, <1>2, <1>4, FreeAirtime
<1>5. CASE to # "noRoom" /\ ring' = Charged(sf') /\ OnAir(sf')
  <2>1. Room >= sf' /\ sf' \in Nat
    <3>1. ~(Room < SfNow(answer))
      BY <1>5 DEF Join
    <3>2. sf' \in Nat
      BY <1>2, PacketTyped
    <3>3. Room \in Int
      BY <1>2, LoraAssumption, AirtimeNat DEF Room
    <3> QED
      BY <1>1, <3>1, <3>2, <3>3
  <2> DEFINE c == Packet(sf')
  <2>2. ring' = Append(ring, c) /\ Len(ring) < RingSize /\ Airtime(ring) + sf' <= Budget
    BY <1>2, <1>5, <2>1, RoomFor
  <2>3. c \in Packets /\ c.cost = sf' /\ c.age = 0
    BY <1>2, PacketTyped
  <2> HIDE DEF c
  <2>4. PICK p \in Packets : air' = Append(air, p) /\ p.age = 0 /\ p.cost <= p.free + sf'
    BY <1>2, <1>5, <2>1, OnAirOf
  <2>5. LoraTypes'
    BY <1>1, <1>2, <2>2, <2>3, <2>4 DEF LoraTypes
  <2>6. RingInv'
    <3>1. Airtime(ring') = Airtime(ring) + sf' /\ Airtime(ring) \in Nat
      BY <1>2, <2>2, <2>3, AirtimeOfAppend, AirtimeNat
    <3>2. Len(ring') = Len(ring) + 1 /\ Len(ring) \in Nat /\ RingSize \in Nat
      BY <1>2, <2>2, <2>3, LoraAssumption
    <3> QED
      BY <1>1, <2>1, <2>2, <3>1, <3>2 DEF RingInv, Pending
  <2>7. Charges = ring /\ Charges' = ring'
    BY <1>1 DEF Charges
  <2>8. PICK m : Paid(air, ring, m) /\ Sorted(air)
    BY <2>7 DEF AirtimeInv, AirInv
  <2>9. Sorted(air') /\ \E m2 : Paid(air', ring', m2)
    BY <1>2, <2>2, <2>3, <2>4, <2>8, SortedMore, MatchesCharged
  <2> QED
    BY <2>5, <2>6, <2>7, <2>9 DEF AirtimeInv, AirInv
<1> QED
  BY <1>3, <1>4, <1>5 DEF Join

\* A send goes out: charged once its verdict is there, on air at once.
LEMMA SendAirtime ==
    ASSUME AirtimeInv, NEW p \in Ports, NEW answer \in Answers, NEW ok, NEW done,
           Send(p, answer, ok, done)
    PROVE  AirtimeInv'
<1>1. /\ pc # "txWait" /\ pc' = "txWait" /\ sent' = p /\ ring' = ring /\ modSf' = modSf
      /\ sf' = SfNow(answer) /\ Room >= SfNow(answer)
      /\ IF alive THEN OnAir(sf') ELSE air' = air
  BY DEF Send, Fits, Ports
<1>2. /\ ring \in Seq(Packets) /\ air \in Seq(Packets) /\ sf \in Costs /\ modSf \in Costs
      /\ sf' \in Costs
  BY <1>1 DEF AirtimeInv, LoraTypes, SfNow
<1> DEFINE c == Packet(sf')
<1>3. c \in Packets /\ c.age = 0 /\ c.cost = sf' /\ sf' \in Nat
  BY <1>2, PacketTyped
<1>4. RingInv'
  BY <1>1, <1>2, RoomFor DEF AirtimeInv, RingInv, Pending
<1>5. Charges = ring /\ Charges' = Append(ring, c)
  BY <1>1 DEF Charges, Packet
<1>6. PICK m : Paid(air, ring, m) /\ Sorted(air)
  BY <1>5 DEF AirtimeInv, AirInv
<1> HIDE DEF c
<1>7. CASE alive
  <2>1. PICK q \in Packets : air' = Append(air, q) /\ q.age = 0 /\ q.cost <= q.free + sf'
    BY <1>1, <1>2, <1>3, <1>7, OnAirOf
  <2>2. Sorted(air') /\ \E m2 : Paid(air', Charges', m2)
    BY <1>2, <1>3, <1>5, <1>6, <2>1, SortedMore, MatchesCharged
  <2>3. LoraTypes'
    BY <1>1, <1>2, <2>1 DEF LoraTypes
  <2> QED
    BY <1>4, <2>2, <2>3 DEF AirtimeInv, AirInv
<1>8. CASE ~alive
  <2>1. air' = air
    BY <1>1, <1>8
  <2>2. Paid(air', Charges', m)
    BY <1>2, <1>3, <1>5, <1>6, <2>1, MatchesMore
  <2>3. LoraTypes'
    BY <1>1, <1>2, <2>1 DEF LoraTypes
  <2> QED
    BY <1>4, <1>6, <2>1, <2>2, <2>3 DEF AirtimeInv, AirInv
<1> QED
  BY <1>7, <1>8

\* A reboot: nothing is charged, and nothing of before is any more.
LEMMA RebootAirtime ==
    ASSUME AirtimeInv, Reboot
    PROVE  AirtimeInv'
<1>1. /\ ring' = <<>> /\ pc' = "top" /\ sf' = Slowest /\ modSf' = modSf
      /\ air' = [i \in DOMAIN air |-> [air[i] EXCEPT !.free = air[i].cost]]
  BY DEF Reboot
<1>2. air \in Seq(Packets) /\ modSf \in Costs /\ Sorted(air)
  BY DEF AirtimeInv, LoraTypes, AirInv
<1>3. /\ DOMAIN air = 1..Len(air) /\ Len(air) \in Nat
      /\ \A i \in 1..Len(air) : air[i] \in Packets
  BY <1>2, PacketOf
<1>4. ASSUME NEW p \in Packets
      PROVE  /\ [p EXCEPT !.free = p.cost] \in Packets
             /\ [p EXCEPT !.free = p.cost].age = p.age
             /\ ~Owed([p EXCEPT !.free = p.cost])
  <2> DEFINE n == p.cost
  <2>1. p.age \in Nat /\ n \in Nat /\ p = [age |-> p.age, cost |-> n, free |-> p.free]
    BY DEF Packets
  <2> HIDE DEF n
  <2>2. [p EXCEPT !.free = n] = [age |-> p.age, cost |-> n, free |-> n]
    BY <2>1
  <2> QED
    BY <2>1, <2>2 DEF Packets, Owed, n
<1>5. \A i \in 1..Len(air) : air'[i] \in Packets /\ air'[i].age = air[i].age /\ ~Owed(air'[i])
  BY <1>1, <1>3, <1>4
<1>6. air' \in Seq(Packets) /\ DOMAIN air' = DOMAIN air
  BY <1>1, <1>3, <1>5
<1>7. LoraTypes'
  BY <1>1, <1>2, <1>6, SlowestOf DEF LoraTypes
<1>8. RingInv'
  <2>1. ring' \in Seq(Packets) /\ Len(ring') = 0
    BY <1>1
  <2>2. PICK f \in Sums(ring', 0) : Airtime(ring') = f[0]
    BY <2>1, AirtimeIsSum
  <2>3. Airtime(ring') = 0
    BY <2>2 DEF Sums
  <2> QED
    BY <1>1, <2>1, <2>3, LoraAssumption DEF RingInv, Pending
<1>9. AirInv'
  <2>1. Sorted(air')
    BY <1>2, <1>3, <1>5, <1>6 DEF Sorted
  <2> DEFINE m == [i \in DOMAIN air' |-> 0]
  <2>2. Charges' = <<>> /\ Len(<<>>) = 0
    BY <1>1 DEF Charges
  <2>3. m \in [DOMAIN air' -> 0..0] /\ \A i \in DOMAIN air' : m[i] = 0 /\ ~Owed(air'[i])
    BY <1>3, <1>5, <1>6
  <2> HIDE DEF m
  <2>4. Paid(air', <<>>, m)
    BY <2>2, <2>3 DEF Paid
  <2> QED
    BY <2>1, <2>2, <2>4 DEF AirInv
<1> QED
  BY <1>7, <1>8, <1>9 DEF AirtimeInv

\* The verdict of a send, or its timeout: charged either way.
LEMMA SentAirtime ==
    ASSUME AirtimeInv, NEW down \in {{}} \cup (IF alive THEN {{c} : c \in Costs} ELSE {}),
           Sent(down)
    PROVE  AirtimeInv'
<1>1. /\ pc = "txWait" /\ pc' = After(sent) /\ ring' = Charged(sf) /\ air' = air /\ sf' = sf
      /\ modSf' = modSf \/ modSf' \in down
  BY DEF Sent
<1>2. /\ ring \in Seq(Packets) /\ air \in Seq(Packets) /\ sf \in Costs /\ modSf \in Costs
      /\ sent \in Ports
  BY <1>1 DEF AirtimeInv, LoraTypes
<1>3. pc' # "txWait"
  BY <1>1, <1>2 DEF After, Ports
<1>4. modSf' \in Costs
  BY <1>1, <1>2
<1> DEFINE p == Packet(sf)
<1>5. p \in Packets /\ p.cost = sf /\ sf \in Nat
  BY <1>2, PacketTyped
<1>6. /\ Len(ring) \in Nat /\ Len(ring) < RingSize /\ RingSize \in Nat
      /\ Airtime(ring) + sf <= Budget /\ ring' = Append(ring, p)
  BY <1>1, <1>2, LoraAssumption DEF AirtimeInv, RingInv, Pending, Charged
<1>7. Charges' = ring' /\ Charges = Append(ring, p)
  BY <1>1, <1>3 DEF Charges
<1> HIDE DEF p
<1>8. LoraTypes'
  BY <1>1, <1>2, <1>3, <1>4, <1>5, <1>6 DEF LoraTypes
<1>9. RingInv'
  <2>1. Airtime(ring') = Airtime(ring) + sf /\ Airtime(ring) \in Nat
    BY <1>2, <1>5, <1>6, AirtimeOfAppend, AirtimeNat
  <2>2. Len(ring') = Len(ring) + 1
    BY <1>2, <1>5, <1>6
  <2> QED
    BY <1>3, <1>5, <1>6, <2>1, <2>2 DEF RingInv, Pending
<1>10. AirInv'
  BY <1>1, <1>6, <1>7 DEF AirtimeInv, AirInv
<1> QED
  BY <1>8, <1>9, <1>10 DEF AirtimeInv

\* Every step of the LoRa task, its owner and the module.
LEMMA AirtimeNext ==
    ASSUME AirtimeInv, [LoraNext]_loraVars
    PROVE  AirtimeInv'
<1> USE DEF told, worker, module, history
<1>0. sf \in Costs /\ modSf \in Costs /\ \A answer \in Answers : SfNow(answer) \in Costs
  BY DEF AirtimeInv, LoraTypes, SfNow
<1>1. CASE \/ UNCHANGED loraVars \/ Settle \/ Switch \/ NewFrame \/ Post \/ Hang \/ Lapse
           \/ LateDone \/ DailyDue \/ Refresh
  BY <1>0, <1>1, NoAirtime
     DEF loraVars, Settle, Switch, NewFrame, Post, Hang, Lapse, LateDone, DailyDue, Refresh
<1>2. CASE Passes
  BY <1>2, PassesAirtime
<1>3. CASE Receive \/ ToJoin \/ JoinEnds \/ JoinUnheard \/ JoinVerdict \/ Backoff \/ PassBegins \/ Paced
  <2>1. UNCHANGED <<ring, air, sf, modSf, sent>> /\ pc # "txWait" /\ pc' # "txWait"
    BY <1>3 DEF Receive, ToJoin, JoinEnds, JoinUnheard, JoinVerdict, JoinLeft, NoRequest, Backoff,
                PassBegins, Paced, TakeEvents
  <2> QED
    BY <1>0, <2>1, NoAirtime
<1>4. ASSUME NEW there \in BOOLEAN, Setup(there) PROVE AirtimeInv'
  <2>1. UNCHANGED <<ring, air, sf, sent>> /\ pc # "txWait" /\ pc' # "txWait"
    BY <1>4 DEF Setup
  <2>2. modSf' \in Costs
    BY <1>0, <1>4 DEF Setup
  <2> QED
    BY <1>0, <2>1, <2>2, NoAirtime
<1>5. ASSUME NEW p \in Ports, NEW answer \in Answers, NoSend(p, answer) PROVE AirtimeInv'
  <2>1. UNCHANGED <<ring, modSf, sent>> /\ pc # "txWait" /\ pc' # "txWait"
    BY <1>5 DEF NoSend, Ports, After
  <2>2. sf' \in Costs
    BY <1>0, <1>5 DEF NoSend
  <2>3. air' = air \/ OnAir(0)
    BY <1>5 DEF NoSend
  <2> QED
    BY <1>0, <2>1, <2>2, <2>3, NoAirtime, FreeAirtime
<1>6. CASE Reboot
  BY <1>6, RebootAirtime
<1>7. CASE TaskStep
  <2>1. ASSUME NEW down \in {{}} \cup (IF alive THEN {{c} : c \in Costs} ELSE {}), Sent(down)
        PROVE  AirtimeInv'
    BY <2>1, SentAirtime
  <2>2. ASSUME NEW answer \in Answers, NEW to, Join(answer, to)
        PROVE  AirtimeInv'
    BY <2>2, JoinAirtime
  <2>3. ASSUME NEW p \in Ports, NEW answer \in Answers, NEW ok, NEW done, Send(p, answer, ok, done)
        PROVE  AirtimeInv'
    BY <2>3, SendAirtime
  <2>4. CASE JoinStep
    BY <1>3, <2>2, <2>4 DEF JoinStep
  <2>5. CASE SendStep
    BY <1>5, <2>1, <2>3, <2>5 DEF SendStep
  <2> QED
    BY <1>3, <1>4, <1>7, <2>4, <2>5 DEF TaskStep
<1> QED
  BY <1>1, <1>2, <1>4, <1>6, <1>7 DEF LoraNext

-----------------------------------------------------------------------------
(* What is marked as sent.                                                  *)

\* A TX_DONE that is there or to come while the function's frame is out is
\* of that send, which was on air, unless one was about when it began.
MarkInv ==
    pc = "txWait" /\ sent = "changed" /\ ~stray /\ (txDone \/ owed) => onAir = snap.frame

\* What a send begins with, its wait keeps.
LEMMA MarkNext ==
    ASSUME MarkInv, [LoraNext]_loraVars
    PROVE  MarkInv'
<1> USE DEF told, worker, module, history, MarkInv
<1>1. CASE \/ UNCHANGED loraVars \/ Settle \/ Switch \/ NewFrame \/ Post \/ Passes \/ Hang \/ Lapse
           \/ LateDone \/ DailyDue \/ Refresh
  BY <1>1 DEF loraVars, Settle, Switch, NewFrame, Post, Passes, Hang, Lapse, LateDone, DailyDue, Refresh
<1>2. CASE Receive \/ ToJoin \/ JoinEnds \/ JoinUnheard \/ JoinVerdict \/ Backoff \/ PassBegins \/ Paced
  BY <1>2 DEF Receive, ToJoin, JoinEnds, JoinUnheard, JoinVerdict, JoinLeft, NoRequest, Backoff,
              PassBegins, Paced, TakeEvents
<1>3. CASE Reboot
  BY <1>3 DEF Reboot
<1>4. ASSUME NEW there \in BOOLEAN, Setup(there) PROVE MarkInv'
  BY <1>4 DEF Setup
<1>5. ASSUME NEW p \in Ports, NEW answer, NoSend(p, answer) PROVE MarkInv'
  BY <1>5 DEF NoSend, Ports, After
<1>6. ASSUME NEW answer, NEW to, Join(answer, to) PROVE MarkInv'
  BY <1>6 DEF Join, JoinLeft, NoRequest
<1>7. ASSUME NEW p \in Ports, NEW answer, NEW ok \in BOOLEAN, NEW done \in {"soon", "late", "never"},
             Send(p, answer, ok, done)
      PROVE  MarkInv'
  <2>1. /\ sent' = p /\ snap' = snap /\ stray' = (txDone \/ owed)
        /\ txDone' = (txDone \/ done = "soon") /\ owed' = (owed \/ done = "late")
        /\ ~alive => done = "never"
        /\ onAir' = IF alive /\ p = "changed" THEN snap.frame ELSE Nothing
    BY <1>7 DEF Send
  <2> QED
    BY <2>1
<1>8. ASSUME NEW down, Sent(down) PROVE MarkInv'
  BY <1>8 DEF Sent, Nothing
<1>9. CASE JoinStep
  BY <1>2, <1>6, <1>9 DEF JoinStep
<1>10. CASE SendStep
  BY <1>5, <1>7, <1>8, <1>10 DEF SendStep
<1> QED
  BY <1>1, <1>2, <1>3, <1>4, <1>9, <1>10 DEF LoraNext, TaskStep

\* Only the verdict of a send marks anything.
LEMMA MarkStep ==
    ASSUME MarkInv, [LoraNext]_loraVars, Marks
    PROVE  stray \/ onAir = last'
<1> USE DEF told, worker, module, history, Marks
<1>1. CASE \/ UNCHANGED loraVars \/ Settle \/ Switch \/ NewFrame \/ Post \/ Passes \/ Hang \/ Lapse
           \/ LateDone \/ DailyDue \/ Refresh
  BY <1>1 DEF loraVars, Settle, Switch, NewFrame, Post, Passes, Hang, Lapse, LateDone, DailyDue, Refresh
<1>2. CASE Receive \/ ToJoin \/ JoinEnds \/ JoinUnheard \/ JoinVerdict \/ Backoff \/ PassBegins \/ Paced
  BY <1>2 DEF Receive, ToJoin, JoinEnds, JoinUnheard, JoinVerdict, Backoff, PassBegins, Paced
<1>3. CASE Reboot
  BY <1>3 DEF Reboot
<1>4. ASSUME NEW there \in BOOLEAN, Setup(there) PROVE FALSE
  BY <1>4 DEF Setup
<1>5. ASSUME NEW p, NEW answer, NoSend(p, answer) PROVE FALSE
  BY <1>5 DEF NoSend, Packed, Changed
<1>6. ASSUME NEW answer, NEW to, Join(answer, to) PROVE FALSE
  BY <1>6 DEF Join
<1>7. ASSUME NEW p, NEW answer, NEW ok, NEW done, Send(p, answer, ok, done) PROVE FALSE
  BY <1>7 DEF Send, Packed, Changed
<1>8. ASSUME NEW down, Sent(down) PROVE stray \/ onAir = last'
  <2>1. /\ pc = "txWait" /\ unsent' = (unsent /\ ~Commits("changed"))
        /\ last' = IF Commits("changed") THEN snap.frame ELSE last
    BY <1>8 DEF Sent
  <2>2. Commits("changed")
    BY <2>1
  <2>3. sent = "changed" /\ txDone /\ last' = snap.frame
    BY <2>1, <2>2 DEF Commits
  <2> QED
    BY <2>1, <2>3 DEF MarkInv
<1>9. CASE JoinStep
  BY <1>2, <1>6, <1>9 DEF JoinStep
<1>10. CASE SendStep
  BY <1>5, <1>7, <1>8, <1>10 DEF SendStep
<1> QED
  BY <1>1, <1>2, <1>3, <1>4, <1>9, <1>10 DEF LoraNext, TaskStep

-----------------------------------------------------------------------------

\* The airtime of what is on air stays within the day's budget, but for
\* what nothing is charged for, for any costs, budget and size of the ring
\* (lora.c uplink_room_ms, uplink_add, send, join).
THEOREM LoraAirtimeKept == LoraSpec => []AirtimeKept
<1>1. LoraInit => AirtimeInv
  BY AirtimeInit
<1>2. AirtimeInv /\ [LoraNext]_loraVars => AirtimeInv'
  BY AirtimeNext
<1>3. AirtimeInv => AirtimeKept
  BY AirtimeFromInv
<1> QED
  BY <1>1, <1>2, <1>3, PTL DEF LoraSpec

\* Nothing is marked as sent that the send that is out did not bring on air
\* with that content, unless a TX_DONE of an earlier one was about when it
\* began (lora.c task, send: only a TX_DONE commits the tracker).
THEOREM LoraMarkedWasOnAir == LoraSpec => MarkedWasOnAir
<1>1. LoraInit => MarkInv
  BY DEF LoraInit, MarkInv
<1>2. MarkInv /\ [LoraNext]_loraVars => MarkInv'
  BY MarkNext
<1>3. MarkInv /\ [LoraNext]_loraVars => [Marks => stray \/ onAir = last']_loraVars
  BY MarkStep
<1> QED
  BY <1>1, <1>2, <1>3, PTL DEF LoraSpec, MarkedWasOnAir
=============================================================================
