-------------------------------- MODULE Wifi --------------------------------
(***************************************************************************)
(* The WiFi state machine (wifi_sm.c) and its runtime (wifi_run.c): setup  *)
(* hotspot, join, retry, and the replacement of credentials that joined by *)
(* new ones with the way back, over a key-value store whose writes fail or *)
(* are cut off by a power cut, one key at a time.                          *)
(*                                                                         *)
(* Everything runs on one task, so a handler is one step; only its writes  *)
(* to the store are steps of their own ("todo"), and nothing but a power   *)
(* cut comes between them.                                                 *)
(*                                                                         *)
(* What is abstracted: the credentials (a network's name and its           *)
(* password), the back-off and the two timers of the state machine (a      *)
(* timer may have run out at any tick), the platform's driver (a join gets *)
(* one verdict, net_esp.c drops those of earlier joins), the failure       *)
(* reasons, signal strength, and scans.                                    *)
(***************************************************************************)
EXTENDS Naturals, Sequences

CONSTANTS
    Nets,           \* networks; net n has the password n
    StartFails,     \* may the driver refuse to start a join
    MaxCuts         \* bound: power cuts in a behaviour

VARIABLES
    sm,         \* cali_wifi_state_t
    w,          \* the runtime's RAM and the driver
    kv,         \* the stored wifi_ssid, wifi_psk and wifi_ok
    todo,       \* writes the running handler still has to do
    web,        \* credentials POST /api/wifi is storing, for set_creds
    cuts,       \* power cuts so far
    proven,     \* history: credentials that joined and were not given up
    cutShort,   \* history: since then the power went while they were not settled
    stale       \* history: keys a failed write has left behind RAM since the boot

wifiVars == <<sm, w, kv, todo, web, cuts, proven, cutShort, stale>>

ASSUME WifiAssumption == "none" \notin Nets

-----------------------------------------------------------------------------
(* Data.                                                                    *)

NoCreds == [ssid |-> "none", psk |-> "none"]
CredsOf(n) == [ssid |-> n, psk |-> n]

\* The credentials in the store; one missing key and there are none.
Stored == IF "none" \in {kv.ssid, kv.psk} THEN NoCreds ELSE [ssid |-> kv.ssid, psk |-> kv.psk]

Sm(st, ap, joined) == [st |-> st, ap |-> ap, joined |-> joined, since |-> FALSE]

\* After a power cut: nothing in RAM, the driver down.
OffRam == [creds |-> NoCreds, prev |-> NoCreds, credsOk |-> FALSE, joinFailed |-> FALSE,
           apRun |-> FALSE, join |-> NoCreds, phase |-> "idle"]
Booted == sm.st # "UNPROVISIONED"
Quiet == Booted /\ todo = <<>> /\ web = NoCreds

Put(k, v) == [key |-> k, val |-> v]

-----------------------------------------------------------------------------
(* cali_wifi_step(): the next state and the actions.  t says which timers   *)
(* have run out: "retry" the back-off, "ap" the one of the hotspot.         *)

Does(s, acts) == [sm |-> s, acts |-> acts]

\* A slip: the hotspot never opens.
RejectedNeverOpens(s, t) ==
    IF ~s.since THEN Does([s EXCEPT !.since = TRUE], <<>>)
    ELSE Does(s, IF t.retry THEN <<"STA_START">> ELSE <<>>)

\* tick_retrying(): stamp, retry on schedule, open the hotspot.
TickRetrying(s, t) ==
    LET opens == s.st = "RETRYING" /\ t.ap
    IN  IF ~s.since THEN Does([s EXCEPT !.since = TRUE], <<>>)
        ELSE Does(IF opens THEN [s EXCEPT !.st = "SETUP_AP_RETRYING", !.ap = TRUE] ELSE s,
                  (IF t.retry THEN <<"STA_START">> ELSE <<>>) \o (IF opens THEN <<"AP_START">> ELSE <<>>))

\* A hotspot is closed some time after the station is online.
TickOnline(s, t) ==
    IF ~s.since THEN Does([s EXCEPT !.since = TRUE], <<>>)
    ELSE IF s.ap /\ t.ap THEN Does([s EXCEPT !.ap = FALSE], <<"AP_STOP">>)
    ELSE Does(s, <<>>)

\* Credentials that never joined are gone and setup goes on; a replacement goes back to
\* the joined ones; joined ones are retried.
StepFailed(s) ==
    IF s.joined = 0 THEN Does(Sm("SETUP_AP", TRUE, 0), <<"CLEAR_CREDS">>)
    ELSE Does(Sm("RETRYING", s.ap, 1), IF s.joined = 2 THEN <<"RESTORE_PREV">> ELSE <<>>)

SmStep(s, ev, t) ==
    CASE ev = "FORGET" -> Does(Sm("SETUP_AP", TRUE, 0), <<"STA_STOP", "CLEAR_CREDS", "AP_START">>)
      [] ev = "REPLACE" /\ s.st \in {"CONNECTING", "ONLINE", "RETRYING"} /\ s.joined # 0 ->
            Does(Sm("CONNECTING", TRUE, 2), <<"STA_STOP", "AP_START", "STA_START">>)
      [] ev = "BOOT_NO_CREDS" /\ s.st = "UNPROVISIONED" -> Does(Sm("SETUP_AP", TRUE, 0), <<"AP_START">>)
      [] ev = "BOOT_WITH_CREDS" /\ s.st = "UNPROVISIONED" -> Does(Sm("CONNECTING", s.ap, 1), <<"STA_START">>)
      [] ev = "CREDS_SET" /\ s.st = "SETUP_AP" -> Does([s EXCEPT !.st = "CONNECTING"], <<"STA_START">>)
      [] ev = "CREDS_SET" /\ s.st = "SETUP_AP_RETRYING" -> Does(Sm("CONNECTING", s.ap, 0), <<"STA_START">>)
      [] ev = "GOT_IP" /\ s.st \in {"CONNECTING", "RETRYING", "SETUP_AP_RETRYING"} ->
            Does(Sm("ONLINE", s.ap, 1), <<>>)
      [] ev = "FAILED" /\ s.st = "CONNECTING" -> StepFailed(s)
      [] ev = "LOST" /\ s.st = "ONLINE" -> Does(Sm("RETRYING", s.ap, s.joined), <<"STA_STOP">>)
      [] ev = "TICK" /\ s.st = "ONLINE" -> TickOnline(s, t)
      [] ev = "TICK" /\ s.st \in {"RETRYING", "SETUP_AP_RETRYING"} -> TickRetrying(s, t)
      [] OTHER -> Does(s, <<>>)

-----------------------------------------------------------------------------
(* The runtime.  A state x has the fields sm, w and todo; "starts" says     *)
(* whether the driver takes a join started in this step.                    *)

St(m, v, d) == [sm |-> m, w |-> v, todo |-> d]
State == St(sm, w, todo)
With(x, v) == St(x.sm, v, x.todo)
NoTimer == [retry |-> FALSE, ap |-> FALSE]
NoStart == TRUE     \* for a step that starts no join

MarkUnjoined(x) ==
    St(x.sm, [x.w EXCEPT !.credsOk = FALSE], x.todo \o <<Put("ok", "0")>>)

ClearCreds(x) ==
    St(x.sm, [x.w EXCEPT !.creds = NoCreds, !.credsOk = FALSE],
       x.todo \o <<Put("ssid", "none"), Put("psk", "none"), Put("ok", "0")>>)

\* A slip: the stored credentials are left as they are.
RejectedRestorePrev(x) ==
    IF x.w.prev = NoCreds THEN x
    ELSE With(x, [x.w EXCEPT !.creds = x.w.prev, !.prev = NoCreds, !.credsOk = TRUE])

RestorePrev(x) ==
    LET p == x.w.prev
    IN  IF p = NoCreds THEN x
        ELSE St(x.sm, [x.w EXCEPT !.creds = p, !.prev = NoCreds, !.credsOk = TRUE],
                x.todo \o <<Put("ssid", p.ssid), Put("psk", p.psk), Put("ok", "1")>>)

\* sta_start(): the same join in flight is kept; anything else replaces what there is.
StaStart(x, starts) ==
    LET c == x.w.creds
    IN  IF c # NoCreds /\ x.w.phase = "joining" /\ x.w.join = c THEN x
        ELSE IF c # NoCreds /\ starts THEN With(x, [x.w EXCEPT !.join = c, !.phase = "joining"])
        ELSE IF c # NoCreds THEN With(x, [x.w EXCEPT !.join = NoCreds, !.phase = "idle", !.joinFailed = TRUE])
        ELSE With(x, [x.w EXCEPT !.joinFailed = TRUE])

RunAction(x, a, starts) ==
    CASE a = "AP_START"     -> With(x, [x.w EXCEPT !.apRun = TRUE])
      [] a = "AP_STOP"      -> With(x, [x.w EXCEPT !.apRun = FALSE])
      [] a = "STA_START"    -> StaStart(x, starts)
      [] a = "STA_STOP"     -> With(x, [x.w EXCEPT !.join = NoCreds, !.phase = "idle"])
      [] a = "CLEAR_CREDS"  -> ClearCreds(x)
      [] a = "RESTORE_PREV" -> RestorePrev(x)

\* The n-th action, if there is one and it is not to be skipped.
RunNth(x, acts, n, starts, skip) ==
    IF n > Len(acts) \/ acts[n] = skip THEN x ELSE RunAction(x, acts[n], starts)

\* A step has three actions at most (WIFI_MAX_ACTIONS).
FeedSkip(x, ev, t, starts, skip) ==
    LET d == SmStep(x.sm, ev, t)
        first == RunNth(St(d.sm, x.w, x.todo), d.acts, 1, starts, skip)
        second == RunNth(first, d.acts, 2, starts, skip)
    IN  RunNth(second, d.acts, 3, starts, skip)

Feed(x, ev, starts) == FeedSkip(x, ev, NoTimer, starts, "nothing")
FeedCredsSet(x, starts) == Feed(With(x, [x.w EXCEPT !.prev = NoCreds]), "CREDS_SET", starts)

Becomes(x) == sm' = x.sm /\ w' = x.w /\ todo' = x.todo

\* cali_wifi_run_set_creds(), after the caller stored c.
Same(c) == w.creds = c /\ sm.st \in {"CONNECTING", "ONLINE"}

\* The fallback of a replacement: credentials that joined; a replacement of a replacement keeps its own.
Fallback ==
    IF w.creds # NoCreds /\ sm.joined = 1 /\ sm.st \in {"CONNECTING", "ONLINE", "RETRYING"} THEN w.creds ELSE w.prev

SetCreds(c, starts) ==
    LET x == MarkUnjoined(With(State, [w EXCEPT !.prev = Fallback, !.creds = c]))
    IN  IF Same(c) THEN State
        ELSE IF sm.st \in {"SETUP_AP", "SETUP_AP_RETRYING"} THEN FeedCredsSet(x, starts)
        ELSE IF x.w.prev # NoCreds /\ sm.joined # 0 THEN Feed(x, "REPLACE", starts)
        ELSE FeedCredsSet(FeedSkip(x, "FORGET", NoTimer, starts, "CLEAR_CREDS"), starts)

-----------------------------------------------------------------------------
(* Actions.                                                                 *)

WifiInit ==
    /\ sm = Sm("UNPROVISIONED", FALSE, 0) /\ w = OffRam
    /\ kv = [ssid |-> "none", psk |-> "none", ok |-> "none"]
    /\ todo = <<>> /\ web = NoCreds
    /\ cuts = 0 /\ proven = NoCreds /\ cutShort = FALSE /\ stale = {}

Starts == IF StartFails THEN BOOLEAN ELSE {TRUE}

\* cali_wifi_run_boot(): stored credentials that never joined go through the setup flow;
\* no wifi_ok means they did.
Boot(starts) ==
    LET c == Stored
        ok == c # NoCreds /\ kv.ok # "0"
        x == With(State, [w EXCEPT !.creds = c, !.credsOk = ok])
    IN  /\ ~Booted
        /\ Becomes(CASE ok                     -> Feed(x, "BOOT_WITH_CREDS", starts)
                     [] ~ok /\ c = NoCreds     -> Feed(x, "BOOT_NO_CREDS", starts)
                     [] ~ok /\ c # NoCreds     -> FeedCredsSet(Feed(x, "BOOT_NO_CREDS", starts), starts))
        /\ UNCHANGED <<kv, web, cuts, proven, cutShort, stale>>

\* POST /api/wifi stores the name and the password, then hands them over (api_wifi_post).
PostCreds(c) ==
    /\ Quiet
    /\ todo' = <<Put("ssid", c.ssid), Put("psk", c.psk)>>
    /\ web' = c
    /\ UNCHANGED <<sm, w, kv, cuts, proven, cutShort, stale>>

TakeCreds(starts) ==
    /\ web # NoCreds /\ todo = <<>>
    /\ Becomes(SetCreds(web, starts))
    /\ web' = NoCreds
    /\ proven' = IF sm.st = "SETUP_AP_RETRYING" THEN NoCreds ELSE proven
    /\ UNCHANGED <<kv, cuts, cutShort, stale>>

Forget ==
    /\ Quiet
    /\ Becomes(Feed(With(State, [w EXCEPT !.prev = NoCreds]), "FORGET", NoStart))
    /\ proven' = NoCreds
    /\ UNCHANGED <<kv, web, cuts, cutShort, stale>>

\* cali_wifi_run_tick(): a join that never started fails first.
WifiTick(t, starts) ==
    LET x == IF w.joinFailed THEN Feed(With(State, [w EXCEPT !.joinFailed = FALSE]), "FAILED", starts) ELSE State
    IN  /\ Quiet
        /\ Becomes(FeedSkip(x, "TICK", t, starts, "nothing"))
        /\ UNCHANGED <<kv, web, cuts, proven, cutShort, stale>>

\* STA_GOT_IP: online, the credentials are marked as joined once, the fallback is dropped.
GotIp ==
    LET x == Feed(With(State, [w EXCEPT !.phase = "up"]), "GOT_IP", NoStart)
        y == With(x, [x.w EXCEPT !.prev = NoCreds])
    IN  /\ Quiet /\ w.phase = "joining" /\ w.join.ssid = w.join.psk
        /\ Becomes(IF x.sm.st # "ONLINE" THEN x
                   ELSE IF y.w.credsOk THEN y ELSE St(y.sm, y.w, <<Put("joined", "1")>>))
        /\ proven' = IF x.sm.st = "ONLINE" THEN w.join ELSE proven
        /\ cutShort' = (cutShort /\ x.sm.st # "ONLINE")
        /\ UNCHANGED <<kv, web, cuts, stale>>

JoinFails ==
    /\ Quiet /\ w.phase = "joining"
    /\ Becomes(Feed(With(State, [w EXCEPT !.join = NoCreds, !.phase = "idle"]), "FAILED", NoStart))
    /\ UNCHANGED <<kv, web, cuts, proven, cutShort, stale>>

Lost ==
    /\ Quiet /\ w.phase = "up"
    /\ Becomes(Feed(With(State, [w EXCEPT !.join = NoCreds, !.phase = "idle"]), "LOST", NoStart))
    /\ UNCHANGED <<kv, web, cuts, proven, cutShort, stale>>

\* One write.  "joined" is wifi_ok of GOT_IP: the flag in RAM follows the store.
Key(d) == IF d.key = "joined" THEN "ok" ELSE d.key

Store ==
    LET d == Head(todo)
    IN  /\ todo # <<>>
        /\ todo' = Tail(todo)
        /\ kv' = [kv EXCEPT ![Key(d)] = d.val]
        /\ w' = [w EXCEPT !.credsOk = @ \/ d.key = "joined"]
        /\ stale' = stale \ {Key(d)}
        /\ UNCHANGED <<sm, web, cuts, proven, cutShort>>

\* A write that fails ends a POST; the others are not repeated.
StoreFails ==
    /\ todo # <<>>
    /\ todo' = IF web # NoCreds THEN <<>> ELSE Tail(todo)
    /\ web' = NoCreds
    /\ stale' = stale \cup (IF web # NoCreds THEN {"ssid", "psk"} ELSE {Key(Head(todo))})
    /\ UNCHANGED <<sm, w, kv, cuts, proven, cutShort>>

\* A cut now finds a store that is being changed, that a failed write has left behind, or
\* that holds a replacement which has not joined yet (its fallback is in RAM only).
Unsettled == todo # <<>> \/ web # NoCreds \/ stale # {} \/ sm.joined = 2

WifiCut ==
    /\ Booted /\ cuts < MaxCuts
    /\ cuts' = cuts + 1
    /\ sm' = Sm("UNPROVISIONED", FALSE, 0) /\ w' = OffRam
    /\ todo' = <<>> /\ web' = NoCreds
    /\ cutShort' = (cutShort \/ Unsettled)
    /\ stale' = {}
    /\ UNCHANGED <<kv, proven>>

WifiNext ==
    \/ \E s \in Starts : Boot(s)
    \/ \E n \in Nets : PostCreds(CredsOf(n))
    \/ \E s \in Starts : TakeCreds(s)
    \/ Forget
    \/ \E t \in [retry : BOOLEAN, ap : BOOLEAN], s \in Starts : WifiTick(t, s)
    \/ GotIp
    \/ JoinFails
    \/ Lost
    \/ Store
    \/ StoreFails
    \/ WifiCut

WifiSpec == WifiInit /\ [][WifiNext]_wifiVars

\* The board boots, the tick runs on and the timers run out, a handler goes on to its
\* end, and the driver gives every join a verdict (its watchdog).
WifiFairness ==
    /\ WF_wifiVars(\E s \in Starts : Boot(s))
    /\ SF_wifiVars(\E s \in Starts : WifiTick([retry |-> TRUE, ap |-> TRUE], s))
    /\ WF_wifiVars(Store \/ StoreFails)
    /\ WF_wifiVars(\E s \in Starts : TakeCreds(s))
    /\ SF_wifiVars(GotIp \/ JoinFails)

WifiFairSpec == WifiSpec /\ WifiFairness

-----------------------------------------------------------------------------
(* Properties.                                                              *)

\* In setup, and while credentials typed in setup are tried, the hotspot runs: a failure
\* that goes back to setup does not start it (StepFailed: "AP is up").
SetupHasHotspot ==
    Booted /\ (sm.st \in {"SETUP_AP", "SETUP_AP_RETRYING"} \/ (sm.st = "CONNECTING" /\ sm.joined = 0)) => w.apRun

\* Credentials that joined stay in use or as the fallback through any sequence of
\* replacements, failures, losses and failed writes, and over any power cut that finds
\* them settled, until others join, the owner forgets them or sets up anew in the reopened
\* hotspot.  A cut in an Unsettled moment may lose them (RESTORE_PREV, set_creds).
JoinedKept == Booted /\ proven # NoCreds /\ ~cutShort => proven \in {w.creds, w.prev}

\* Between two handlers the store holds what RAM holds, and its wifi_ok says whether a
\* boot may trust it: a failed replacement is undone in both.  A key is behind only from
\* a write of it that failed to the next one that does not.
StoreFollows ==
    Quiet =>
        /\ {"ssid", "psk"} \cap stale = {} => Stored = w.creds
        /\ "ok" \notin stale /\ w.creds # NoCreds => ((kv.ok # "0") <=> w.credsOk)

\* Online means online with the credentials in use.
OnlineIsCreds == sm.st = "ONLINE" => w.phase = "up" /\ w.join = w.creds

\* Store, RAM and network agree on the credentials in use.
CredsAgree == StoreFollows /\ OnlineIsCreds

\* What the owner can count on of the WiFi, between two handlers and over power cuts.
WifiInv == SetupHasHotspot /\ JoinedKept /\ CredsAgree

\* Whatever is cut off or fails, the owner can reach the board again: it comes online or
\* opens the hotspot.
Reachable == []<>(sm.st = "ONLINE" \/ w.apRun)
=============================================================================
