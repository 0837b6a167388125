-------------------------------- MODULE Ota --------------------------------
(***************************************************************************)
(* The firmware update (ota.c, components/cali_ota/ota_esp.c): the owner   *)
(* task starts a check or an install and may switch the release channel at *)
(* any time; the OTA task fetches the manifest, writes the inactive slot,  *)
(* compares its hash and switches the boot partition.  The boot loader and *)
(* the OTA library are external: a new image boots once as "pending" and   *)
(* is given up at a reset before the program marked it valid.              *)
(*                                                                         *)
(* An image stands for its commit, its bytes and its hash.  A release may  *)
(* be replaced between any two fetches: the manifest and the image of a    *)
(* channel are any of those its release ever held.                         *)
(***************************************************************************)
EXTENDS Naturals

CONSTANTS
  Images,      \* firmware builds
  Healthy,     \* those that run 60 s with the web server up
  Channels,    \* release channels
  Releases,    \* channel -> the builds its release ever held
  First,       \* the build installed by cable
  Stable,      \* the default channel
  Torn         \* the content of a slot that holds no whole image

ASSUME ImagesAssumption ==
  /\ Healthy \subseteq Images /\ First \in Healthy
  /\ {Torn, "none", "half"} \cap Images = {}
  /\ Stable \in Channels /\ Releases \in [Channels -> SUBSET Images]

VARIABLES
  state,     \* s_state
  pending,   \* s_pending: "none", "check" or "install"
  channel,   \* s_channel
  kvChannel, \* the stored channel
  sha,       \* s_sha: an image, "none", or "half" while it is copied
  notified,  \* the OTA task's notification
  task,      \* where cali_ota_work stands
  req,       \* its request
  ch,        \* the channel it read
  want,      \* the image its manifest named
  slot,      \* slot -> the image in it
  mark,      \* slot -> its state in the boot data
  boot,      \* the slot the boot data selects
  run,       \* the slot that runs
  switched   \* history: the channel was switched during this request

owner == <<state, pending, channel, kvChannel, sha, notified, switched>>
work == <<task, req, ch, want>>
flash == <<slot, mark, boot, run>>
otaVars == <<owner, work, flash>>

Slots == {0, 1}
Other(s) == 1 - s
Busy == {"checking", "downloading", "verifying", "rebooting"}

OtaInit ==
  /\ state = "idle" /\ pending = "none" /\ sha = "none" /\ notified = FALSE
  /\ channel = Stable /\ kvChannel = Stable /\ switched = FALSE
  /\ task = "sleep" /\ req = "none" /\ ch = Stable /\ want = First
  /\ slot = [s \in Slots |-> IF s = 0 THEN First ELSE Torn]
  /\ mark = [s \in Slots |-> IF s = 0 THEN "valid" ELSE "undefined"]
  /\ boot = 0 /\ run = 0

----------------------------------------------------------------------------
\* Owner task.

\* cali_ota_request: refused while one runs.
Wake == notified' = TRUE
Request(r) ==
  /\ state \notin Busy
  /\ sha' = "none" /\ pending' = r /\ state' = "checking" /\ switched' = FALSE
  /\ Wake
  /\ UNCHANGED <<channel, kvChannel, work, flash>>

\* cali_ota_set_channel: a settled result was for the old channel.
Settled == state \in {"available", "up_to_date"}
SetChannel(c) ==
  /\ kvChannel' = c /\ channel' = c
  /\ switched' = (switched \/ state = "checking")
  /\ IF Settled THEN sha' = "none" /\ state' = "idle" ELSE UNCHANGED <<sha, state>>
  /\ UNCHANGED <<pending, notified, work, flash>>

----------------------------------------------------------------------------
\* OTA task: cali_ota_work, cut where the other task or a reset can see it.
Start ==
  /\ task = "sleep" /\ notified /\ notified' = FALSE
  /\ req' = pending /\ pending' = "none" /\ ch' = channel
  /\ task' = IF pending = "none" THEN "sleep" ELSE "manifest"
  /\ UNCHANGED <<state, channel, kvChannel, sha, switched, want, flash>>

\* fail() and every other return: the state is set, the loop goes round.
Ends(st) ==
  /\ state' = st /\ task' = "return"
  /\ UNCHANGED <<pending, channel, kvChannel, sha, notified, switched, req, ch, want>>

Return ==
  /\ task = "return" /\ task' = "sleep"
  /\ UNCHANGED <<owner, req, ch, want, flash>>

ManifestFails == task = "manifest" /\ Ends("error") /\ UNCHANGED flash

UpToDate ==
  /\ task = "manifest" /\ slot[run] \in Releases[ch]
  /\ Ends("up_to_date") /\ UNCHANGED flash

\* Another build: its sha is copied while the state is still CHECKING.
Differs ==
  /\ task = "manifest" /\ sha' = "half" /\ task' = "naming"
  /\ \E i \in Releases[ch] : i # slot[run] /\ want' = i
  /\ UNCHANGED <<state, pending, channel, kvChannel, notified, switched, req, ch, flash>>

Named ==
  /\ task = "naming" /\ sha' = want
  /\ IF req = "install"
     THEN state' = "downloading" /\ task' = "download"
     ELSE state' = "available" /\ task' = "return"
  /\ UNCHANGED <<pending, channel, kvChannel, notified, switched, req, ch, want, flash>>

\* e_download: the OTA library refuses to begin while the running image is
\* pending; else the inactive slot is erased.
Begin ==
  /\ task = "download" /\ mark[run] # "pending"
  /\ slot' = [slot EXCEPT ![Other(run)] = Torn]
  /\ mark' = [mark EXCEPT ![Other(run)] = "undefined"]
  /\ task' = "stream"
  /\ UNCHANGED <<owner, req, ch, want, boot, run>>

DownloadFails == task \in {"download", "stream"} /\ Ends("error") /\ UNCHANGED flash

\* The stream is complete; what landed may still be torn, or the image of
\* a release replaced after its manifest was read.
Landed ==
  /\ task = "stream" /\ task' = "verify" /\ state' = "verifying"
  /\ \E i \in Releases[ch] \cup {Torn} : slot' = [slot EXCEPT ![Other(run)] = i]
  /\ UNCHANGED <<pending, channel, kvChannel, sha, notified, switched,
                 req, ch, want, mark, boot, run>>

\* A slip: the hash is not compared.
RejectedMatches == TRUE

\* The hash of what is in the slot against the manifest's.
Matches == slot[Other(run)] = want
Verified ==
  /\ task = "verify" /\ Matches /\ task' = "commit"
  /\ UNCHANGED <<owner, req, ch, want, flash>>
Mismatch == task = "verify" /\ Ends("error") /\ UNCHANGED flash

\* e_commit: the image becomes the boot partition, new to the boot loader.
Commit ==
  /\ task = "commit" /\ boot' = Other(run)
  /\ mark' = [mark EXCEPT ![Other(run)] = "new"]
  /\ state' = "rebooting" /\ task' = "restart"
  /\ UNCHANGED <<pending, channel, kvChannel, sha, notified, switched,
                 req, ch, want, slot, run>>
CommitFails == task = "commit" /\ Ends("error") /\ UNCHANGED flash

----------------------------------------------------------------------------
\* A slip: it looks for the mark of an image that was not booted yet.
RejectedMarkValid ==
  /\ mark[run] = "new" /\ slot[run] \in Healthy
  /\ mark' = [mark EXCEPT ![run] = "valid"]
  /\ UNCHANGED <<owner, work, slot, boot, run>>

\* cali_ota_esp_mark_valid, once the image ran 60 s healthy.
MarkValid ==
  /\ mark[run] = "pending" /\ slot[run] \in Healthy
  /\ mark' = [mark EXCEPT ![run] = "valid"]
  /\ UNCHANGED <<owner, work, slot, boot, run>>

\* A restart, a crash or a power cut: RAM is lost and the boot loader runs
\* (external).  A new image becomes pending; a pending one is given up for
\* the other slot.
Loaded ==
  IF mark[boot] = "pending"
  THEN /\ mark' = [mark EXCEPT ![boot] = "invalid"]
       /\ boot' = Other(boot) /\ run' = Other(boot)
  ELSE /\ mark' = IF mark[boot] = "new" THEN [mark EXCEPT ![boot] = "pending"] ELSE mark
       /\ boot' = boot /\ run' = boot

Cleared ==
  /\ UNCHANGED <<slot, kvChannel>>
  /\ state' = "idle" /\ pending' = "none" /\ sha' = "none" /\ notified' = FALSE
  /\ channel' = kvChannel /\ switched' = FALSE
  /\ task' = "sleep" /\ req' = "none" /\ ch' = kvChannel /\ want' = First

Reset == Loaded /\ Cleared
Restart == task = "restart" /\ Reset
Crash == Reset
Unhealthy == mark[run] = "pending" /\ slot[run] \notin Healthy /\ Reset

\* The console's "ota invalid": the library goes back to the other slot if
\* it holds a valid image.
Invalidate ==
  /\ mark[Other(run)] = "valid"
  /\ mark' = [mark EXCEPT ![run] = "invalid"]
  /\ boot' = Other(run) /\ run' = Other(run)
  /\ Cleared

----------------------------------------------------------------------------
Work == \/ Start \/ Return \/ ManifestFails \/ UpToDate \/ Differs \/ Named
        \/ Begin \/ DownloadFails \/ Landed \/ Verified \/ Mismatch
        \/ Commit \/ CommitFails \/ Restart
OtaNext == \/ \E r \in {"check", "install"} : Request(r)
           \/ \E c \in Channels : SetChannel(c)
           \/ Work \/ MarkValid \/ Unhealthy \/ Crash \/ Invalidate

OtaSpec == OtaInit /\ [][OtaNext]_otaVars

\* The OTA task runs when it is notified, and every call it makes ends (the
\* HTTP client has a timeout).  The tick of a healthy image reaches 60 s; an
\* unhealthy one is reset.
OtaFairSpec == OtaSpec /\ WF_otaVars(Work) /\ WF_otaVars(MarkValid) /\ WF_otaVars(Unhealthy)

----------------------------------------------------------------------------
\* Properties.

\* Type correctness of ota.c's statics, the OTA task and the boot data as modelled.
OtaTypeOK ==
  /\ state \in Busy \cup {"idle", "available", "up_to_date", "error"}
  /\ pending \in {"none", "check", "install"} /\ req \in {"none", "check", "install"}
  /\ channel \in Channels /\ kvChannel \in Channels /\ ch \in Channels
  /\ sha \in Images \cup {"none", "half"} /\ want \in Images
  /\ notified \in BOOLEAN /\ switched \in BOOLEAN
  /\ task \in {"sleep", "return", "manifest", "naming", "download", "stream",
               "verify", "commit", "restart"}
  /\ slot \in [Slots -> Images \cup {Torn}]
  /\ mark \in [Slots -> {"undefined", "new", "pending", "valid", "invalid"}]
  /\ boot \in Slots /\ run \in Slots

\* The boot partition holds a whole image, and a build that does not stay
\* healthy can always be left by a reset: the selected slot is proven, or
\* the other one is.
Proven(s) == mark[s] = "valid" /\ slot[s] \in Healthy
AlwaysBoots == /\ slot[boot] \in Images
               /\ \/ Proven(boot)
                  \/ mark[boot] \in {"new", "pending"} /\ Proven(Other(boot))

\* While the OTA task works on a request the state says busy, so the owner
\* task starts no second one; and a reader that sees any other state than
\* CHECKING reads a whole sha.
OneRequest == /\ task \notin {"sleep", "return"} => state \in Busy
              /\ pending # "none" => state = "checking" /\ task \in {"sleep", "return"}
              /\ sha = "half" => state = "checking"

\* An offered build is one of the chosen channel, unless the channel was
\* switched while the check ran.
OfferOfChannel == state = "available" /\ ~switched =>
                    sha \in Releases[channel] /\ sha # slot[run]

\* Only an image that matches its manifest is ever selected for boot.
SelectsVerified == [][boot' # boot /\ task' = "restart" =>
                        slot[boot'] = want /\ want \in Releases[ch]]_otaVars

\* What these rest on.  The boot data: the program runs from the selected slot
\* until it has selected the other one, and never from a build still "new"; only a
\* build that stayed healthy is marked valid.
BootInv ==
  /\ \A s \in Slots : mark[s] = "valid" => slot[s] \in Healthy
  /\ task # "restart" => run = boot /\ mark[run] # "new"
  /\ task = "restart" => /\ boot = Other(run) /\ mark[boot] = "new"
                         /\ slot[boot] = want /\ Proven(run)

\* The task: it writes the other slot only from a proven build, commits only what
\* matched, and what it wants is a build of the channel it read.
TaskInv ==
  /\ task \in {"stream", "verify", "commit"} => Proven(run) /\ mark[Other(run)] = "undefined"
  /\ task = "commit" => slot[Other(run)] = want
  /\ task \in {"manifest", "naming"} => state = "checking" /\ (switched \/ ch = channel)
  /\ task \in {"naming", "download", "stream", "verify", "commit"} => want \in Releases[ch]
  /\ task = "naming" => want # slot[run]
  /\ sha = "half" => task = "naming"

\* The inductive invariant.
OtaInv == OtaTypeOK /\ BootInv /\ TaskInv /\ AlwaysBoots /\ OneRequest /\ OfferOfChannel

\* A request ends, whatever its fetch, its hash or its flash write does and however
\* often the satellite resets: the busy state is left and the next one is taken.
RequestEnds == (state \in Busy) ~> (state \notin Busy)

\* A new image is proven or given up: the selected slot ends up one that stays healthy.
ImageSettles == (mark[boot] \in {"new", "pending"}) ~> Proven(boot)

\* An update comes to an end, in RAM and in the boot data (ota.c work, mark_valid).
UpdateEnds == RequestEnds /\ ImageSettles

============================================================================
