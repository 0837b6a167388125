----------------------------- MODULE Transport ------------------------------
(***************************************************************************)
(* The GAP side of the NimBLE transport                                    *)
(* (firmware/components/cali_ble_nimble/ble_nimble.c): scans, sensor       *)
(* windows, one connect at a time, the cancelled connect that completes    *)
(* anyway, the dropped link that still holds the only connection slot, and *)
(* the bond probe of pair().                                               *)
(*                                                                         *)
(* g holds ble_nimble.c's statics and, from master on, the NimBLE host as  *)
(* the code uses it.  The operators on t are the transport's functions;    *)
(* the actions are any caller that uses them in any order, and the host's  *)
(* events in any order NimBLE can produce them.                            *)
(***************************************************************************)
EXTENDS Naturals, Sequences, SequencesExt

CONSTANTS
    Units,       \* camper units in reach, all advertising the same name
    None,        \* no unit
    Resets       \* whether the host may reset

VARIABLES
    g,        \* the statics of ble_nimble.c and the host's state
    bonds,    \* the bond store: units in the order the store lists them
    keys,     \* units that still hold the key of their bond with us
    out,      \* the event reported by the last step
    resume    \* gap_cb is inside emit(CONNECTED) and goes on to the encryption

vars == <<g, bonds, keys, out, resume>>

\* Of the constants.
UnitsAssumption == None \notin Units

-----------------------------------------------------------------------------
Gap == [
    scanning : BOOLEAN,               \* s_scanning
    found : Units \cup {None},        \* s_found and s_found_addr
    connecting : BOOLEAN,             \* s_connecting
    cancelled : BOOLEAN,              \* s_connect_cancelled
    scanDeferred : BOOLEAN,           \* s_scan_deferred
    dying : BOOLEAN,                  \* s_dying_conn is the host's link
    deferred : BOOLEAN,               \* s_connect_deferred
    deferredTo : Units \cup {None},   \* s_deferred_addr
    deferredEnc : BOOLEAN,            \* s_deferred_enc
    window : BOOLEAN,                 \* s_window
    encrypt : BOOLEAN,                \* s_encrypt_on_connect
    probing : BOOLEAN,                \* s_probing; s_probe_peer is the link's peer
    conn : BOOLEAN,                   \* s_conn is the host's link
    reading : BOOLEAN,                \* the auth characteristic's read is queued
    master : {"idle", "disc", "conn", "cancel"},   \* the host's one GAP procedure
    to : Units \cup {None},           \* the unit its connect is for
    peer : Units \cup {None},         \* the other end of its one link
    stuck : BOOLEAN,                  \* the controller has refused to end that link
    sec : {"none", "enc", "smp", "asked", "typed", "on"}]   \* security on that link

NoGap == [
    scanning |-> FALSE, found |-> None, connecting |-> FALSE, cancelled |-> FALSE,
    scanDeferred |-> FALSE, dying |-> FALSE, deferred |-> FALSE, deferredTo |-> None,
    deferredEnc |-> FALSE, window |-> FALSE, encrypt |-> FALSE, probing |-> FALSE,
    conn |-> FALSE, reading |-> FALSE,
    master |-> "idle", to |-> None, peer |-> None, stuck |-> FALSE,
    sec |-> "none"]

Bonded(u) == u \in ToSet(bonds)

\* forget_peer(): a peer has one bond.
Without(u) ==
    IF Bonded(u) THEN RemoveAt(bonds, CHOOSE i \in DOMAIN bonds : bonds[i] = u) ELSE bonds

LinkReset(t) == [t EXCEPT !.conn = FALSE, !.probing = FALSE, !.reading = FALSE]

\* ble_gap_security_initiate(): re-encrypts when the peer's key is stored.
Secure(t, stored) == [t EXCEPT !.sec = IF stored THEN "enc" ELSE "smp"]

\* Rejected* operators are variants of a definition with a slip in it; each shows
\* that a property below can fail.

\* The dropped link is taken for gone at once.
RejectedForgetsDrop(t, ended) ==
    IF t.connecting
    THEN [t EXCEPT !.connecting = FALSE, !.cancelled = TRUE, !.master = "cancel"]
    ELSE IF ~t.conn THEN t ELSE LinkReset(t)

\* t_disconnect(); ended: the host accepts to terminate the link.
Disconnect(t, ended) ==
    IF t.deferred THEN [t EXCEPT !.deferred = FALSE, !.connecting = FALSE]
    ELSE IF t.connecting
    THEN [t EXCEPT !.connecting = FALSE, !.cancelled = TRUE, !.master = "cancel"]
    ELSE IF ~t.conn THEN t
    ELSE [LinkReset(t) EXCEPT !.dying = ended, !.stuck = ~ended]

\* scan_now(); ok: the controller starts the scan.
ScanNow(t, ok) ==
    LET free == t.scanning \/ t.window \/ t.master = "idle"
    IN  [t EXCEPT !.window = FALSE, !.scanning = free /\ ok,
                  !.master = IF ~free THEN @ ELSE IF ok THEN "disc" ELSE "idle"]

ScanDeferred(t, ok) ==
    IF t.scanDeferred THEN ScanNow([t EXCEPT !.scanDeferred = FALSE], ok) ELSE t

\* t_start_scan(): cancels a connect first and waits for that cancel to land.
StartScan(t, ok) ==
    LET a == [t EXCEPT !.found = None]
        b == IF a.connecting THEN Disconnect([a EXCEPT !.encrypt = FALSE], TRUE) ELSE a
    IN  IF b.cancelled THEN [b EXCEPT !.scanDeferred = TRUE] ELSE ScanNow(b, ok)

StopScan(t) ==
    LET a == [t EXCEPT !.scanDeferred = FALSE]
    IN  IF a.scanning THEN [a EXCEPT !.scanning = FALSE, !.master = "idle"] ELSE a

\* connect_to(); ok: the controller starts the connect.  It returns 0 exactly
\* when connecting is set by it.
ConnectTo(t, u, enc, ok) ==
    IF t.conn \/ t.connecting \/ t.cancelled THEN t
    ELSE IF t.dying
    THEN [t EXCEPT !.deferred = TRUE, !.deferredTo = u, !.deferredEnc = enc, !.connecting = TRUE]
    ELSE LET free == t.window \/ t.master = "idle"
             started == free /\ t.peer = None /\ ok
         IN  [t EXCEPT !.window = FALSE, !.encrypt = enc, !.connecting = started,
                       !.to = IF started THEN u ELSE @,
                       !.master = IF started THEN "conn" ELSE IF free THEN "idle" ELSE @]

ConnectDeferred(t, ok) ==
    IF t.deferred
    THEN ConnectTo([t EXCEPT !.deferred = FALSE, !.connecting = FALSE],
                   t.deferredTo, t.deferredEnc, ok)
    ELSE t

ScanWindow(t, ok) ==
    IF t.scanning \/ t.connecting \/ t.cancelled \/ t.window \/ t.master # "idle" \/ ~ok THEN t
    ELSE [t EXCEPT !.window = TRUE, !.master = "disc"]

\* t_pair(): probes the stored bond, if there is one for the peer.
Pair(t, stored) == [Secure(t, stored) EXCEPT !.probing = stored]

-----------------------------------------------------------------------------
(* The caller, in the sink or outside it.                                  *)

Init ==
    /\ g = NoGap /\ bonds = <<>> /\ keys = {}
    /\ out = "none" /\ resume = FALSE

Called == out' = "none" /\ UNCHANGED <<keys, resume>>

CallStartScan == \E ok \in BOOLEAN : g' = StartScan(g, ok) /\ Called /\ UNCHANGED bonds

CallStopScan == g' = StopScan(g) /\ Called /\ UNCHANGED bonds

\* t_connect_found() and t_connect_bonded().
CallConnect ==
    /\ \E ok \in BOOLEAN :
        \/ g.found # None /\ g' = ConnectTo(g, g.found, FALSE, ok)
        \/ bonds # <<>> /\ g' = ConnectTo(g, Head(bonds), TRUE, ok)
    /\ Called /\ UNCHANGED bonds

\* t_pair(); the host refuses it while another security procedure runs.
CallPair ==
    /\ g.conn
    /\ \E ok \in BOOLEAN :
        /\ ok => g.sec = "none"
        /\ g' = IF ok THEN Pair(g, Bonded(g.peer)) ELSE [g EXCEPT !.probing = FALSE]
    /\ Called /\ UNCHANGED bonds

CallPasskey ==
    /\ g.conn /\ g.sec = "asked" /\ g' = [g EXCEPT !.sec = "typed"]
    /\ Called /\ UNCHANGED bonds

CallRead ==
    /\ g.conn /\ g' = [g EXCEPT !.reading = TRUE]
    /\ Called /\ UNCHANGED bonds

CallDisconnect ==
    \E ended \in BOOLEAN : g' = Disconnect(g, ended) /\ Called /\ UNCHANGED bonds

\* t_remove_bond(): one bond after the other, until the store fails to delete one.
CallRemoveBond ==
    /\ \E ended \in BOOLEAN : g' = Disconnect(g, ended)
    /\ bonds' \in {<<>>, bonds}
    /\ Called

\* t_keep_only_bond().
CallKeepOnlyBond ==
    /\ g.conn /\ bonds' = IF Bonded(g.peer) THEN <<g.peer>> ELSE <<>>
    /\ UNCHANGED g /\ Called

CallScanWindow == \E ok \in BOOLEAN : g' = ScanWindow(g, ok) /\ Called /\ UNCHANGED bonds

Call == CallStartScan \/ CallStopScan \/ CallConnect \/ CallPair \/ CallPasskey \/ CallRead
        \/ CallDisconnect \/ CallRemoveBond \/ CallKeepOnlyBond \/ CallScanWindow

-----------------------------------------------------------------------------
(* gap_cb(): the host's events.                                            *)

Event == ~resume

Advert ==
    /\ Event /\ g.master = "disc" /\ ~g.window /\ g.scanning /\ g.found = None
    /\ \E u \in Units : g' = [g EXCEPT !.found = u]
    /\ out' = "FOUND" /\ UNCHANGED <<bonds, keys, resume>>

WindowEnds ==
    /\ Event /\ g.window
    /\ g' = [g EXCEPT !.scanning = FALSE, !.window = FALSE, !.master = "idle"]
    /\ out' = "none" /\ UNCHANGED <<bonds, keys, resume>>

\* A link that came up before our cancel landed is taken for a wanted one.
RejectedLinkMade ==
    /\ Event /\ g.master \in {"conn", "cancel"}
    /\ g' = [LinkReset(g) EXCEPT !.connecting = FALSE, !.cancelled = FALSE, !.master = "idle",
                 !.scanDeferred = FALSE, !.peer = g.to, !.sec = "none", !.conn = TRUE]
    /\ out' = "CONNECTED" /\ resume' = g.encrypt
    /\ UNCHANGED <<bonds, keys>>

\* BLE_GAP_EVENT_CONNECT, status 0.  A connect that was cancelled is ended again.
LinkMade ==
    /\ Event /\ g.master \in {"conn", "cancel"}
    /\ LET a == [g EXCEPT !.connecting = FALSE, !.master = "idle", !.peer = g.to, !.sec = "none"]
       IN  IF g.cancelled
           THEN /\ \E ok \in BOOLEAN :
                    g' = ScanDeferred([a EXCEPT !.cancelled = FALSE, !.dying = TRUE], ok)
                /\ out' = "none" /\ resume' = FALSE
           ELSE /\ g' = [LinkReset(a) EXCEPT !.conn = TRUE]
                /\ out' = "CONNECTED" /\ resume' = g.encrypt
    /\ UNCHANGED <<bonds, keys>>

\* ... and what follows its emit(CONNECTED), unless the caller dropped the link in it.
EncryptOnConnect ==
    /\ resume /\ resume' = FALSE
    /\ \E ok \in BOOLEAN :
        IF ~(g.encrypt /\ g.conn) THEN UNCHANGED g /\ out' = "none"
        ELSE /\ g' = IF ok THEN Secure([g EXCEPT !.encrypt = FALSE], Bonded(g.peer))
                     ELSE [g EXCEPT !.encrypt = FALSE]
             /\ out' = IF ok THEN "none" ELSE "ENC_FAIL"
    /\ UNCHANGED <<bonds, keys>>

\* BLE_GAP_EVENT_CONNECT with an error: a cancel that landed is silent.
ConnectFails ==
    /\ Event /\ g.master \in {"conn", "cancel"}
    /\ \E ok \in BOOLEAN :
        LET a == [g EXCEPT !.connecting = FALSE, !.master = "idle"]
        IN  g' = IF g.cancelled THEN ScanDeferred([a EXCEPT !.cancelled = FALSE], ok) ELSE a
    /\ out' = IF g.cancelled THEN "none" ELSE "CONNECT_FAIL"
    /\ UNCHANGED <<bonds, keys, resume>>

\* BLE_GAP_EVENT_DISCONNECT; stale: for an authentication reason, while the bond is probed.
LinkDrops ==
    /\ Event /\ g.peer # None
    /\ \E ok, stale \in BOOLEAN :
        LET a == [g EXCEPT !.peer = None, !.stuck = FALSE, !.sec = "none"]
            b == ConnectDeferred([a EXCEPT !.dying = FALSE], ok)
        IN  /\ stale => g.probing /\ g.peer \notin keys
            /\ g' = IF g.dying THEN b ELSE IF g.conn THEN LinkReset(a) ELSE a
            /\ out' = IF g.dying /\ g.deferred /\ ~b.connecting THEN "CONNECT_FAIL"
                      ELSE IF ~g.dying /\ g.conn THEN "DISCONNECTED" ELSE "none"
            /\ bonds' = IF stale THEN Without(g.peer) ELSE bonds
    /\ UNCHANGED <<keys, resume>>

\* The refused terminate is only noted.
RejectedTermFailure ==
    /\ Event /\ g.dying
    /\ g' = [g EXCEPT !.dying = FALSE, !.stuck = TRUE]
    /\ out' = "none" /\ UNCHANGED <<bonds, keys, resume>>

\* BLE_GAP_EVENT_TERM_FAILURE: the link stays, the deferred connect fails.
TermFailure ==
    /\ Event /\ g.dying
    /\ g' = [g EXCEPT !.dying = FALSE, !.stuck = TRUE, !.deferred = FALSE,
                      !.connecting = @ /\ ~g.deferred]
    /\ out' = IF g.deferred THEN "CONNECT_FAIL" ELSE "none"
    /\ UNCHANGED <<bonds, keys, resume>>

\* BLE_GAP_EVENT_PASSKEY_ACTION; any other method than the entry of a passkey ends
\* the link, which LinkDrops reports.
PasskeyAction ==
    /\ Event /\ g.conn /\ g.sec = "smp"
    /\ g' = [g EXCEPT !.probing = FALSE, !.sec = "asked"]
    /\ out' = "PASSKEY_REQ" /\ UNCHANGED <<bonds, keys, resume>>

\* BLE_GAP_EVENT_ENC_CHANGE, status 0: re-encrypted with the key, or paired.
Encrypted ==
    /\ Event /\ g.conn
    /\ g.sec = "typed" \/ (g.sec = "enc" /\ g.peer \in keys)
    /\ g' = [g EXCEPT !.probing = FALSE, !.sec = "on"]
    /\ bonds' = IF Bonded(g.peer) THEN bonds ELSE Append(bonds, g.peer)
    /\ keys' = keys \cup {g.peer}
    /\ out' = "ENC_OK" /\ UNCHANGED resume

\* BLE_GAP_EVENT_ENC_CHANGE of a probe that the unit answers with a key error:
\* the stale bond goes, a fresh pairing starts on the same link.
ProbeRefused ==
    /\ Event /\ g.conn /\ g.probing /\ g.sec = "enc" /\ g.peer \notin keys
    /\ bonds' = Without(g.peer)
    /\ \E ok \in BOOLEAN :
        /\ g' = LET a == [g EXCEPT !.probing = FALSE, !.sec = "none"]
                IN  IF ok THEN Secure(a, FALSE) ELSE a
        /\ out' = IF ok THEN "none" ELSE "ENC_FAIL"
    /\ UNCHANGED <<keys, resume>>

\* Any failed probe costs the bond.
RejectedEncFails ==
    /\ Event /\ g.conn /\ g.sec \in {"enc", "smp", "asked", "typed"}
    /\ g' = [g EXCEPT !.probing = FALSE, !.sec = "none"] /\ out' = "ENC_FAIL"
    /\ bonds' = IF g.probing THEN Without(g.peer) ELSE bonds
    /\ UNCHANGED <<keys, resume>>

\* BLE_GAP_EVENT_ENC_CHANGE with any other error, also outside a probe.  In a
\* probe that lost its link (gone) the reason of the disconnect decides.
EncFails ==
    /\ Event /\ g.conn /\ g.sec \in {"enc", "smp", "asked", "typed"}
    /\ \E gone \in BOOLEAN :
        IF gone /\ g.probing THEN UNCHANGED g /\ out' = "none"
        ELSE g' = [g EXCEPT !.probing = FALSE, !.sec = "none"] /\ out' = "ENC_FAIL"
    /\ UNCHANGED <<bonds, keys, resume>>

\* BLE_GAP_EVENT_REPEAT_PAIRING, on whatever link: the unit, which has forgotten
\* us, pairs where we would re-encrypt; the stale bond goes.
RepeatPairing ==
    /\ Event /\ g.peer # None /\ g.sec = "enc" /\ g.peer \notin keys
    /\ g' = [g EXCEPT !.probing = FALSE, !.sec = "smp"]
    /\ bonds' = Without(g.peer)
    /\ out' = "none" /\ UNCHANGED <<keys, resume>>

\* The queued read of the auth characteristic ends (op_finish).
ReadDone ==
    /\ Event /\ g.conn /\ g.reading
    /\ g' = [g EXCEPT !.reading = FALSE]
    /\ out' = "READ" /\ UNCHANGED <<bonds, keys, resume>>

\* The host resets: it drops its link first, then on_reset() clears everything.
HostReset ==
    /\ Event /\ Resets
    /\ g' = [NoGap EXCEPT !.found = g.found, !.encrypt = g.encrypt]
    /\ out' = IF g.conn THEN "DISCONNECTED" ELSE IF g.deferred THEN "CONNECT_FAIL" ELSE "none"
    /\ UNCHANGED <<bonds, keys, resume>>

\* The unit loses its side of a bond (its owner deletes the satellite there).
UnitForgets ==
    /\ keys # {} /\ \E u \in keys : keys' = keys \ {u}
    /\ out' = "none" /\ UNCHANGED <<g, bonds, resume>>

HostEvent == Advert \/ WindowEnds \/ LinkMade \/ EncryptOnConnect \/ ConnectFails \/ LinkDrops
             \/ TermFailure \/ PasskeyAction \/ Encrypted \/ ProbeRefused \/ EncFails
             \/ RepeatPairing \/ ReadDone \/ HostReset \/ UnitForgets

Next == Call \/ HostEvent

Spec == Init /\ [][Next]_vars

-----------------------------------------------------------------------------
\* Type correctness of ble_nimble.c's statics as modelled.
TypeOK ==
    /\ g \in Gap /\ bonds \in Seq(Units) /\ keys \subseteq Units
    /\ g.master \in {"conn", "cancel"} => g.to \in Units
    /\ g.deferred => g.deferredTo \in Units
    /\ out \in {"none", "FOUND", "CONNECTED", "CONNECT_FAIL", "DISCONNECTED",
                "PASSKEY_REQ", "ENC_OK", "ENC_FAIL", "READ"}
    /\ resume \in BOOLEAN

\* The flags of ble_nimble.c and the host agree whatever the caller does: no scan
\* or connect runs that the transport does not know of, and none is awaited that
\* does not run (scan_now, connect_to, t_disconnect, gap_cb).
FlagsTrue ==
    /\ g.master = "disc" <=> g.scanning \/ g.window
    /\ g.master = "conn" <=> g.connecting /\ ~g.deferred
    /\ g.master = "cancel" <=> g.cancelled
    /\ ~(g.scanning /\ g.window)

\* The host's one connection slot is accounted for: a link is the current one, one
\* we are dropping, or one the controller will not end; a connect waits only for
\* such a drop, and no connect runs with the slot taken (connect_to, issue 381).
SlotKnown ==
    /\ ~(g.conn /\ g.dying) /\ ~(g.conn /\ g.connecting)
    /\ g.deferred => g.connecting /\ g.dying
    /\ g.scanDeferred => g.cancelled
    /\ g.cancelled => ~g.connecting
    /\ g.peer # None <=> g.conn \/ g.dying \/ g.stuck
    /\ g.master \in {"conn", "cancel"} => g.peer = None

\* Flags and slot together: what ble_nimble.c believes of the radio is what the host
\* does, for every caller and every order of the host's events.
RadioKnown == TypeOK /\ FlagsTrue /\ SlotKnown

\* A bond that still works is only deleted on request or for a verified other
\* unit: a pairing that fails half way never costs the bond (t_pair, gap_cb).
WorkingBondKept ==
    [][\A u \in keys : Bonded(u) /\ ~(u \in ToSet(bonds')) =>
        CallRemoveBond \/ CallKeepOnlyBond]_vars

Contract == INSTANCE LinkContract WITH
    phase <- IF g.conn THEN "up" ELSE IF g.connecting THEN "connecting" ELSE "idle"

\* cali_transport.h: verdicts and losses are reported once, and only of a connect
\* or a link the caller has not given up.
ContractSpec == Contract!Spec

-----------------------------------------------------------------------------
\* A terminated link ends, a cancelled connect completes: the controller's doing.
Fairness ==
    /\ WF_vars(g.dying /\ (LinkDrops \/ TermFailure))
    /\ WF_vars(g.cancelled /\ (LinkMade \/ ConnectFails))
    /\ WF_vars(EncryptOnConnect)

FairSpec == Spec /\ Fairness

\* A connect that waits for a drop and a scan that waits for a cancel are started
\* or given up, never forgotten (connect_deferred, scan_deferred).
DeferredEnds == (g.deferred \/ g.scanDeferred) ~> ~(g.deferred \/ g.scanDeferred)
=============================================================================
