--------------------------- MODULE PairingProofs ----------------------------
(***************************************************************************)
(* The transport, whoever calls it: what ble_nimble.c believes of the      *)
(* radio, what it reports, what it keeps.  Then the pairing flow on it,    *)
(* for any units, number of attempts, patience and queue: outside a flow   *)
(* the radio is the session's, in a flow the flow's, and a flow that ends  *)
(* bonded leaves the bond of the unit it verified.                         *)
(***************************************************************************)
EXTENDS Pairing, SequenceTheorems, TLAPS


-----------------------------------------------------------------------------
(* The link: what ble_nimble.c believes of the radio.                       *)

\* A bond that is deleted leaves the others.
LEMMA OthersStay ==
    ASSUME bonds \in Seq(Units), NEW u
    PROVE  /\ Without(u) \in Seq(Units)
           /\ \A v \in ToSet(bonds) : v # u => v \in ToSet(Without(u))
<1>1. CASE ~Bonded(u)
  BY <1>1 DEF Without
<1>2. CASE Bonded(u)
  <2> DEFINE n == CHOOSE i \in DOMAIN bonds : bonds[i] = u
  <2>1. n \in 1..Len(bonds) /\ bonds[n] = u
    BY <1>2 DEF Bonded, ToSet
  <2>2. Without(u) = SubSeq(bonds, 1, n - 1) \o SubSeq(bonds, n + 1, Len(bonds))
    BY <1>2 DEF Without, RemoveAt
  <2> HIDE DEF n
  <2> DEFINE a == SubSeq(bonds, 1, n - 1)
             b == SubSeq(bonds, n + 1, Len(bonds))
  <2>3. /\ a \in Seq(Units) /\ Len(a) = n - 1
        /\ \A i \in 1..(n - 1) : a[i] = bonds[i]
    <3>1. \A i \in 1..(n - 1) : bonds[i] \in Units
      BY <2>1
    <3> QED
      BY <2>1, <3>1, SubSeqProperties
  <2>4. /\ b \in Seq(Units) /\ Len(b) = Len(bonds) - n
        /\ \A i \in 1..(Len(bonds) - n) : b[i] = bonds[n + i]
    <3>1. \A i \in (n + 1)..Len(bonds) : bonds[i] \in Units
      BY <2>1
    <3>2. /\ b \in Seq(Units) /\ Len(b) = IF n + 1 <= Len(bonds) THEN Len(bonds) - (n + 1) + 1 ELSE 0
          /\ \A i \in 1..(Len(bonds) - (n + 1) + 1) : b[i] = bonds[n + 1 + i - 1]
      BY <2>1, <3>1, SubSeqProperties
    <3> QED
      BY <2>1, <3>2
  <2> HIDE DEF a, b
  <2>5. /\ a \o b \in Seq(Units) /\ Len(a \o b) = Len(bonds) - 1
        /\ \A i \in 1..(Len(bonds) - 1) : (a \o b)[i] = IF i <= n - 1 THEN a[i] ELSE b[i - (n - 1)]
    <3>1. /\ a \o b \in Seq(Units) /\ Len(a \o b) = Len(a) + Len(b)
          /\ \A i \in 1..(Len(a) + Len(b)) : (a \o b)[i] = IF i <= Len(a) THEN a[i] ELSE b[i - Len(a)]
      BY <2>3, <2>4, ConcatProperties
    <3>2. Len(a) + Len(b) = Len(bonds) - 1 /\ Len(a) = n - 1
      BY <2>1, <2>3, <2>4
    <3> QED
      BY <3>1, <3>2
  <2>6. ASSUME NEW i \in 1..Len(bonds), bonds[i] # u
        PROVE  \E j \in 1..(Len(bonds) - 1) : (a \o b)[j] = bonds[i]
    <3>1. CASE i < n
      <4>1. i \in 1..(Len(bonds) - 1) /\ i <= n - 1 /\ i \in 1..(n - 1)
        BY <2>1, <3>1
      <4>2. (a \o b)[i] = a[i]
        BY <2>5, <4>1
      <4> QED
        BY <2>3, <4>1, <4>2
    <3>2. CASE i > n
      <4>1. i - 1 \in 1..(Len(bonds) - 1) /\ i - n \in 1..(Len(bonds) - n) /\ n + (i - n) = i
        BY <2>1, <3>2
      <4>2. (a \o b)[i - 1] = b[i - n]
        <5>1. ~(i - 1 <= n - 1) /\ (i - 1) - (n - 1) = i - n
          BY <2>1, <3>2
        <5> QED
          BY <2>5, <4>1, <5>1
      <4> QED
        BY <2>4, <4>1, <4>2
    <3>3. i < n \/ i > n
      BY <2>1, <2>6
    <3> QED
      BY <3>1, <3>2, <3>3
  <2>7. Without(u) = a \o b
    BY <2>2 DEF a, b
  <2>8. \A v \in ToSet(bonds) : v # u => v \in ToSet(a \o b)
    <3>1. SUFFICES ASSUME NEW i \in 1..Len(bonds), bonds[i] # u
                   PROVE  \E j \in DOMAIN (a \o b) : (a \o b)[j] = bonds[i]
      BY DEF ToSet
    <3>2. DOMAIN (a \o b) = 1..(Len(bonds) - 1)
      BY <2>5
    <3> QED
      BY <2>6, <3>1, <3>2
  <2> QED
    BY <2>5, <2>7, <2>8
<1> QED
  BY <1>1, <1>2
\* Every function of the transport leaves its state in its ranges.
LEMMA LinkResetTyped ==
    ASSUME NEW t \in Gap
    PROVE  LinkReset(t) \in Gap
BY DEF LinkReset, Gap

\* A disconnect leaves a radio state.
LEMMA DisconnectTyped ==
    ASSUME NEW t \in Gap, NEW ended \in BOOLEAN
    PROVE  Disconnect(t, ended) \in Gap
<1> DEFINE kept == ~ended
<1>0. kept \in BOOLEAN
  OBVIOUS
<1>1. CASE t.deferred
  <2>1. Disconnect(t, ended) = [t EXCEPT !.deferred = FALSE, !.connecting = FALSE]
    BY <1>1 DEF Disconnect
  <2> QED
    BY <2>1 DEF Gap
<1>2. CASE ~t.deferred /\ t.connecting
  <2>1. Disconnect(t, ended) = [t EXCEPT !.connecting = FALSE, !.cancelled = TRUE, !.master = "cancel"]
    BY <1>2 DEF Disconnect
  <2> QED
    BY <2>1 DEF Gap
<1>3. CASE ~t.deferred /\ ~t.connecting /\ ~t.conn
  BY <1>3 DEF Disconnect
<1>4. CASE ~t.deferred /\ ~t.connecting /\ t.conn
  <2>1. Disconnect(t, ended) = [LinkReset(t) EXCEPT !.dying = ended, !.stuck = kept]
    BY <1>4 DEF Disconnect
  <2> HIDE DEF kept
  <2>2. ASSUME NEW a \in Gap PROVE [a EXCEPT !.dying = ended, !.stuck = kept] \in Gap
    BY <1>0 DEF Gap
  <2> QED
    BY <2>1, <2>2, LinkResetTyped
<1> QED
  BY <1>1, <1>2, <1>3, <1>4

\* The start of a scan leaves a radio state.
LEMMA ScanNowTyped ==
    ASSUME NEW t \in Gap, NEW ok \in BOOLEAN
    PROVE  ScanNow(t, ok) \in Gap
<1> DEFINE free == t.scanning \/ t.window \/ t.master = "idle"
<1>1. CASE ~free
  <2>1. ScanNow(t, ok) = [t EXCEPT !.window = FALSE, !.scanning = FALSE]
    BY <1>1 DEF ScanNow
  <2> QED
    BY <2>1 DEF Gap
<1>2. CASE free /\ ok
  <2>1. ScanNow(t, ok) = [t EXCEPT !.window = FALSE, !.scanning = TRUE, !.master = "disc"]
    BY <1>2 DEF ScanNow
  <2> QED
    BY <2>1 DEF Gap
<1>3. CASE free /\ ~ok
  <2>1. ScanNow(t, ok) = [t EXCEPT !.window = FALSE, !.scanning = FALSE, !.master = "idle"]
    BY <1>3 DEF ScanNow
  <2> QED
    BY <2>1 DEF Gap
<1> QED
  BY <1>1, <1>2, <1>3

\* A deferred scan leaves a radio state.
LEMMA ScanDeferredTyped ==
    ASSUME NEW t \in Gap, NEW ok \in BOOLEAN
    PROVE  ScanDeferred(t, ok) \in Gap
<1>1. [t EXCEPT !.scanDeferred = FALSE] \in Gap
  BY DEF Gap
<1> QED
  BY <1>1, ScanNowTyped DEF ScanDeferred

\* The scan window leaves a radio state.
LEMMA ScanWindowTyped ==
    ASSUME NEW t \in Gap, NEW ok \in BOOLEAN
    PROVE  ScanWindow(t, ok) \in Gap
<1> DEFINE refused == t.scanning \/ t.connecting \/ t.cancelled \/ t.window \/ t.master # "idle" \/ ~ok
<1>1. CASE refused
  BY <1>1 DEF ScanWindow
<1>2. CASE ~refused
  <2>1. ScanWindow(t, ok) = [t EXCEPT !.window = TRUE, !.master = "disc"]
    BY <1>2 DEF ScanWindow
  <2> QED
    BY <2>1 DEF Gap
<1> QED
  BY <1>1, <1>2

\* The end of a scan leaves a radio state.
LEMMA StopScanTyped ==
    ASSUME NEW t \in Gap
    PROVE  StopScan(t) \in Gap
<1>1. [t EXCEPT !.scanDeferred = FALSE] \in Gap
  BY DEF Gap
<1>2. ASSUME NEW a \in Gap PROVE [a EXCEPT !.scanning = FALSE, !.master = "idle"] \in Gap
  BY DEF Gap
<1> DEFINE a == [t EXCEPT !.scanDeferred = FALSE]
<1>3. StopScan(t) = IF a.scanning THEN [a EXCEPT !.scanning = FALSE, !.master = "idle"] ELSE a
  BY DEF StopScan
<1>4. a \in Gap
  BY <1>1
<1> HIDE DEF a
<1>5. CASE a.scanning
  BY <1>2, <1>3, <1>4, <1>5
<1>6. CASE ~a.scanning
  BY <1>3, <1>4, <1>6
<1> QED
  BY <1>5, <1>6

\* A connect leaves a radio state.
LEMMA ConnectToTyped ==
    ASSUME NEW t \in Gap, NEW u \in Units, NEW enc \in BOOLEAN, NEW ok \in BOOLEAN
    PROVE  ConnectTo(t, u, enc, ok) \in Gap
<1> DEFINE busy == t.conn \/ t.connecting \/ t.cancelled
           free == t.window \/ t.master = "idle"
           started == free /\ t.peer = None /\ ok
<1>1. CASE busy
  BY <1>1 DEF ConnectTo
<1>2. CASE ~busy /\ t.dying
  BY <1>2 DEF ConnectTo, Gap
<1>3. CASE ~busy /\ ~t.dying
  <2>1. started \in BOOLEAN
    OBVIOUS
  <2> HIDE DEF started
  <2>2. ConnectTo(t, u, enc, ok) = [t EXCEPT !.window = FALSE, !.encrypt = enc, !.connecting = started,
                !.to = IF started THEN u ELSE @,
                !.master = IF started THEN "conn" ELSE IF free THEN "idle" ELSE @]
    BY <1>3 DEF ConnectTo, started
  <2> QED
    BY <2>1, <2>2 DEF Gap
<1> QED
  BY <1>1, <1>2, <1>3

\* The start of the encryption leaves a radio state.
LEMMA SecureTyped ==
    ASSUME NEW t \in Gap, NEW stored \in BOOLEAN
    PROVE  Secure(t, stored) \in Gap
BY DEF Secure, Gap

\* A scan, now or deferred, leaves a radio state.
LEMMA StartScanTyped ==
    ASSUME NEW t \in Gap, NEW ok \in BOOLEAN
    PROVE  StartScan(t, ok) \in Gap
<1> DEFINE a == [t EXCEPT !.found = None]
           b == IF a.connecting THEN Disconnect([a EXCEPT !.encrypt = FALSE], TRUE) ELSE a
<1>1. a \in Gap
  BY DEF Gap
<1>2. b \in Gap
  <2> HIDE DEF a
  <2>1. [a EXCEPT !.encrypt = FALSE] \in Gap
    BY <1>1 DEF Gap
  <2> QED
    BY <1>1, <2>1, DisconnectTyped
<1>3. [b EXCEPT !.scanDeferred = TRUE] \in Gap
  <2> HIDE DEF b
  <2> QED
    BY <1>2 DEF Gap
<1>4. StartScan(t, ok) = IF b.cancelled THEN [b EXCEPT !.scanDeferred = TRUE] ELSE ScanNow(b, ok)
  BY DEF StartScan
<1> HIDE DEF b
<1> QED
  BY <1>2, <1>3, <1>4, ScanNowTyped

\* A deferred connect leaves a radio state.
LEMMA ConnectDeferredTyped ==
    ASSUME NEW t \in Gap, NEW ok \in BOOLEAN, t.deferred => t.deferredTo \in Units
    PROVE  ConnectDeferred(t, ok) \in Gap
<1>1. [t EXCEPT !.deferred = FALSE, !.connecting = FALSE] \in Gap
  BY DEF Gap
<1>2. t.deferredEnc \in BOOLEAN
  BY DEF Gap
<1> QED
  BY <1>1, <1>2, ConnectToTyped DEF ConnectDeferred

\* The start of a pairing leaves a radio state.
LEMMA PairTyped ==
    ASSUME NEW t \in Gap, NEW stored \in BOOLEAN
    PROVE  Pair(t, stored) \in Gap
<1>1. ASSUME NEW a \in Gap PROVE [a EXCEPT !.probing = stored] \in Gap
  BY DEF Gap
<1> QED
  BY <1>1, SecureTyped DEF Pair

\* A step that leaves the radio alone, whatever it does of security.
SameRadio(u, t) ==
    /\ u.scanning = t.scanning /\ u.window = t.window /\ u.master = t.master /\ u.to = t.to
    /\ u.connecting = t.connecting /\ u.cancelled = t.cancelled /\ u.scanDeferred = t.scanDeferred
    /\ u.deferred = t.deferred /\ u.deferredTo = t.deferredTo
    /\ u.conn = t.conn /\ u.dying = t.dying /\ u.peer = t.peer /\ u.stuck = t.stuck

\* The encryption leaves scan, link and what is deferred as they are.
LEMMA SecureAlone ==
    ASSUME NEW t \in Gap, NEW stored \in BOOLEAN
    PROVE  SameRadio(Secure(t, stored), t) /\ SameRadio(Pair(t, stored), t)
BY DEF SameRadio, Pair, Secure, Gap

\* Two steps that leave the radio alone leave it alone.
LEMMA SameRadioChain ==
    ASSUME NEW t, NEW u, NEW v, SameRadio(v, u), SameRadio(u, t)
    PROVE  SameRadio(v, t)
BY DEF SameRadio

\* A step that leaves the radio alone keeps what is known of it.
LEMMA RadioAlone ==
    ASSUME RadioKnown, g' \in Gap, SameRadio(g', g), bonds' \in Seq(Units), keys' \subseteq Units,
           out' \in {"none", "FOUND", "CONNECTED", "CONNECT_FAIL", "DISCONNECTED",
                     "PASSKEY_REQ", "ENC_OK", "ENC_FAIL", "READ"},
           resume' \in BOOLEAN
    PROVE  RadioKnown'
BY DEF RadioKnown, TypeOK, FlagsTrue, SlotKnown, SameRadio

\* A scan that waited starts on an idle radio, or is given up.
LEMMA DeferredScan ==
    ASSUME NEW t \in Gap, NEW ok \in BOOLEAN, t.master = "idle", ~t.scanning, ~t.window
    PROVE  LET u == ScanDeferred(t, ok)
           IN  /\ u \in Gap /\ ~u.scanDeferred /\ ~u.window /\ u.master \in {"idle", "disc"}
               /\ u.master = "disc" <=> u.scanning
               /\ u.to = t.to /\ u.connecting = t.connecting /\ u.cancelled = t.cancelled
               /\ u.deferred = t.deferred /\ u.deferredTo = t.deferredTo
               /\ u.conn = t.conn /\ u.dying = t.dying /\ u.peer = t.peer /\ u.stuck = t.stuck
<1> DEFINE u == ScanDeferred(t, ok)
<1>1. u \in Gap
  BY ScanDeferredTyped
<1>2. CASE ~t.scanDeferred
  BY <1>1, <1>2 DEF ScanDeferred, Gap
<1>3. CASE t.scanDeferred /\ ok
  <2>1. u = [[t EXCEPT !.scanDeferred = FALSE] EXCEPT !.window = FALSE, !.scanning = TRUE, !.master = "disc"]
    BY <1>3 DEF ScanDeferred, ScanNow, Gap
  <2> QED
    BY <1>1, <2>1 DEF Gap
<1>4. CASE t.scanDeferred /\ ~ok
  <2>1. u = [[t EXCEPT !.scanDeferred = FALSE] EXCEPT !.window = FALSE, !.scanning = FALSE, !.master = "idle"]
    BY <1>4 DEF ScanDeferred, ScanNow, Gap
  <2> QED
    BY <1>1, <2>1 DEF Gap
<1> QED
  BY <1>2, <1>3, <1>4

\* Whatever the caller does and whatever the host reports in what order, flags and slot
\* stay those of the host.
LEMMA RadioStep ==
    ASSUME UnitsAssumption, RadioKnown, Next
    PROVE  RadioKnown'
<1> USE DEF UnitsAssumption, FlagsTrue, SlotKnown, Gap
<1>1. TypeOK /\ FlagsTrue /\ SlotKnown
  BY DEF RadioKnown
<1>2. ASSUME CallStartScan PROVE RadioKnown'
  <2>1. g' \in Gap
    BY <1>1, <1>2, StartScanTyped DEF TypeOK, CallStartScan
  <2>2. TypeOK'
    BY <1>1, <1>2, <2>1 DEF TypeOK, CallStartScan, StartScan, Disconnect, LinkReset, ScanNow, Called
  <2>3. FlagsTrue'
    BY <1>1, <1>2 DEF TypeOK, CallStartScan, StartScan, Disconnect, LinkReset, ScanNow, Called
  <2>4. SlotKnown'
    BY <1>1, <1>2 DEF TypeOK, CallStartScan, StartScan, Disconnect, LinkReset, ScanNow, Called
  <2> QED
    BY <2>1, <2>2, <2>3, <2>4 DEF RadioKnown
<1>3. ASSUME CallStopScan PROVE RadioKnown'
  <2>1. g' \in Gap
    BY <1>1, <1>3, StopScanTyped DEF TypeOK, CallStopScan
  <2>2. TypeOK'
    BY <1>1, <1>3, <2>1 DEF TypeOK, CallStopScan, StopScan, Called
  <2>3. FlagsTrue'
    BY <1>1, <1>3 DEF TypeOK, CallStopScan, StopScan, Called
  <2>4. SlotKnown'
    BY <1>1, <1>3 DEF TypeOK, CallStopScan, StopScan, Called
  <2> QED
    BY <2>1, <2>2, <2>3, <2>4 DEF RadioKnown
<1>4. ASSUME CallConnect PROVE RadioKnown'
  <2> DEFINE busy == g.conn \/ g.connecting \/ g.cancelled
             free == g.window \/ g.master = "idle"
  <2>1. PICK ok \in BOOLEAN, u \in Units, enc \in BOOLEAN : g' = ConnectTo(g, u, enc, ok)
    <3>1. PICK ok \in BOOLEAN : \/ g.found # None /\ g' = ConnectTo(g, g.found, FALSE, ok)
                                \/ bonds # <<>> /\ g' = ConnectTo(g, Head(bonds), TRUE, ok)
      BY <1>4 DEF CallConnect
    <3>2. g.found # None => g.found \in Units
      BY <1>1 DEF TypeOK
    <3>3. bonds # <<>> => Head(bonds) \in Units
      BY <1>1 DEF TypeOK
    <3> QED
      BY <3>1, <3>2, <3>3, Zenon
  <2>2. UNCHANGED <<bonds, keys, resume>> /\ out' = "none"
    BY <1>4 DEF CallConnect, Called
  <2>3. g' \in Gap
    BY <1>1, <2>1, ConnectToTyped DEF TypeOK
  <2>4. CASE busy
    BY <1>1, <2>1, <2>2, <2>4 DEF ConnectTo, TypeOK, RadioKnown
  <2>5. CASE ~busy /\ g.dying
    <3>1. g' = [g EXCEPT !.deferred = TRUE, !.deferredTo = u, !.deferredEnc = enc, !.connecting = TRUE]
      BY <2>1, <2>5 DEF ConnectTo
    <3> QED
      BY <1>1, <2>2, <2>3, <2>5, <3>1 DEF TypeOK, RadioKnown
  <2>6. CASE ~busy /\ ~g.dying /\ free /\ g.peer = None /\ ok
    <3>1. g' = [g EXCEPT !.window = FALSE, !.encrypt = enc, !.connecting = TRUE, !.to = u, !.master = "conn"]
      BY <1>1, <2>1, <2>6 DEF ConnectTo, TypeOK
    <3> QED
      BY <1>1, <2>2, <2>3, <2>6, <3>1 DEF TypeOK, RadioKnown
  <2>7. CASE ~busy /\ ~g.dying /\ ~(free /\ g.peer = None /\ ok)
    <3>1. g' = [g EXCEPT !.window = FALSE, !.encrypt = enc, !.connecting = FALSE, !.to = @,
                         !.master = IF free THEN "idle" ELSE @]
      BY <1>1, <2>1, <2>7 DEF ConnectTo, TypeOK
    <3> QED
      BY <1>1, <2>2, <2>3, <2>7, <3>1 DEF TypeOK, RadioKnown
  <2> QED
    BY <2>4, <2>5, <2>6, <2>7
<1>5. ASSUME CallPair PROVE RadioKnown'
  <2> DEFINE stored == Bonded(g.peer)
  <2>1. stored \in BOOLEAN
    BY DEF Bonded
  <2>2. g' = Pair(g, stored) \/ g' = [g EXCEPT !.probing = FALSE]
    BY <1>5 DEF CallPair
  <2> HIDE DEF stored
  <2>3. [g EXCEPT !.probing = FALSE] \in Gap /\ SameRadio([g EXCEPT !.probing = FALSE], g)
    BY <1>1 DEF TypeOK, SameRadio
  <2>4. Pair(g, stored) \in Gap /\ SameRadio(Pair(g, stored), g)
    BY <1>1, <2>1, PairTyped, SecureAlone DEF TypeOK
  <2>5. UNCHANGED <<bonds, keys, resume>> /\ out' = "none"
    BY <1>5 DEF CallPair, Called
  <2>6. g' \in Gap /\ SameRadio(g', g)
    BY <2>2, <2>3, <2>4
  <2> QED
    BY <1>1, <2>5, <2>6, RadioAlone DEF TypeOK
<1>6. ASSUME CallPasskey PROVE RadioKnown'
  <2>1. g' \in Gap
    BY <1>1, <1>6 DEF TypeOK, CallPasskey, Called
  <2>2. TypeOK'
    BY <1>1, <1>6, <2>1 DEF TypeOK, CallPasskey, Called
  <2>3. FlagsTrue'
    BY <1>1, <1>6 DEF TypeOK, CallPasskey, Called
  <2>4. SlotKnown'
    BY <1>1, <1>6 DEF TypeOK, CallPasskey, Called
  <2> QED
    BY <2>1, <2>2, <2>3, <2>4 DEF RadioKnown
<1>7. ASSUME CallRead PROVE RadioKnown'
  <2>1. g' \in Gap
    BY <1>1, <1>7 DEF TypeOK, CallRead, Called
  <2>2. TypeOK'
    BY <1>1, <1>7, <2>1 DEF TypeOK, CallRead, Called
  <2>3. FlagsTrue'
    BY <1>1, <1>7 DEF TypeOK, CallRead, Called
  <2>4. SlotKnown'
    BY <1>1, <1>7 DEF TypeOK, CallRead, Called
  <2> QED
    BY <2>1, <2>2, <2>3, <2>4 DEF RadioKnown
<1>8. ASSUME CallDisconnect PROVE RadioKnown'
  <2>1. g' \in Gap
    BY <1>1, <1>8, DisconnectTyped DEF TypeOK, CallDisconnect
  <2>2. TypeOK'
    BY <1>1, <1>8, <2>1 DEF TypeOK, CallDisconnect, Disconnect, LinkReset, Called
  <2>3. FlagsTrue'
    BY <1>1, <1>8 DEF TypeOK, CallDisconnect, Disconnect, LinkReset, Called
  <2>4. SlotKnown'
    BY <1>1, <1>8 DEF TypeOK, CallDisconnect, Disconnect, LinkReset, Called
  <2> QED
    BY <2>1, <2>2, <2>3, <2>4 DEF RadioKnown
<1>9. ASSUME CallRemoveBond PROVE RadioKnown'
  <2>1. PICK ended \in BOOLEAN : g' = Disconnect(g, ended)
    BY <1>9 DEF CallRemoveBond
  <2>2. bonds' \in Seq(Units) /\ UNCHANGED <<keys, resume>> /\ out' = "none"
    <3>1. (bonds' = <<>> \/ bonds' = bonds) /\ UNCHANGED <<keys, resume>> /\ out' = "none"
      BY <1>9 DEF CallRemoveBond, Called
    <3>2. <<>> \in Seq(Units) /\ bonds \in Seq(Units)
      BY <1>1 DEF TypeOK
    <3> QED
      BY <3>1, <3>2, Zenon
  <2>3. g' \in Gap
    BY <1>1, <2>1, DisconnectTyped DEF TypeOK
  <2> QED
    BY <1>1, <2>1, <2>2, <2>3 DEF Disconnect, LinkReset, TypeOK, RadioKnown
<1>10. ASSUME CallKeepOnlyBond PROVE RadioKnown'
  <2>1. g' \in Gap
    BY <1>1, <1>10 DEF TypeOK, CallKeepOnlyBond, Called
  <2>2. TypeOK'
    BY <1>1, <1>10, <2>1 DEF TypeOK, CallKeepOnlyBond, Called
  <2>3. FlagsTrue'
    BY <1>1, <1>10 DEF TypeOK, CallKeepOnlyBond, Called
  <2>4. SlotKnown'
    BY <1>1, <1>10 DEF TypeOK, CallKeepOnlyBond, Called
  <2> QED
    BY <2>1, <2>2, <2>3, <2>4 DEF RadioKnown
<1>11. ASSUME CallScanWindow PROVE RadioKnown'
  <2>1. g' \in Gap
    BY <1>1, <1>11, ScanWindowTyped DEF TypeOK, CallScanWindow
  <2>2. TypeOK'
    BY <1>1, <1>11, <2>1 DEF TypeOK, CallScanWindow, ScanWindow, Called
  <2>3. FlagsTrue'
    BY <1>1, <1>11 DEF TypeOK, CallScanWindow, ScanWindow, Called
  <2>4. SlotKnown'
    BY <1>1, <1>11 DEF TypeOK, CallScanWindow, ScanWindow, Called
  <2> QED
    BY <2>1, <2>2, <2>3, <2>4 DEF RadioKnown
<1>12. ASSUME Advert PROVE RadioKnown'
  <2>1. g' \in Gap
    BY <1>1, <1>12 DEF TypeOK, Advert, Event
  <2>2. TypeOK'
    BY <1>1, <1>12, <2>1 DEF TypeOK, Advert, Event
  <2>3. FlagsTrue'
    BY <1>1, <1>12 DEF TypeOK, Advert, Event
  <2>4. SlotKnown'
    BY <1>1, <1>12 DEF TypeOK, Advert, Event
  <2> QED
    BY <2>1, <2>2, <2>3, <2>4 DEF RadioKnown
<1>13. ASSUME WindowEnds PROVE RadioKnown'
  <2>1. g' \in Gap
    BY <1>1, <1>13 DEF TypeOK, WindowEnds, Event
  <2>2. TypeOK'
    BY <1>1, <1>13, <2>1 DEF TypeOK, WindowEnds, Event
  <2>3. FlagsTrue'
    BY <1>1, <1>13 DEF TypeOK, WindowEnds, Event
  <2>4. SlotKnown'
    BY <1>1, <1>13 DEF TypeOK, WindowEnds, Event
  <2> QED
    BY <2>1, <2>2, <2>3, <2>4 DEF RadioKnown
<1>14. ASSUME LinkMade PROVE RadioKnown'
  <2> DEFINE a == [g EXCEPT !.connecting = FALSE, !.master = "idle", !.peer = g.to, !.sec = "none"]
  <2>1. /\ g.to \in Units /\ g.peer = None /\ ~g.conn /\ ~g.dying /\ ~g.stuck /\ ~g.deferred
        /\ ~g.scanning /\ ~g.window
    BY <1>1, <1>14 DEF LinkMade, TypeOK
  <2>2. UNCHANGED <<bonds, keys>>
    BY <1>14 DEF LinkMade
  <2>3. CASE g.cancelled
    <3> DEFINE b == [a EXCEPT !.cancelled = FALSE, !.dying = TRUE]
    <3>1. PICK ok \in BOOLEAN : g' = ScanDeferred(b, ok)
      BY <1>14, <2>3 DEF LinkMade
    <3>2. out' = "none" /\ resume' \in BOOLEAN
      BY <1>14, <2>3 DEF LinkMade
    <3>3. b \in Gap /\ b.master = "idle" /\ ~b.scanning /\ ~b.window
      BY <1>1, <2>1 DEF TypeOK
    <3>4. /\ ~b.connecting /\ ~b.cancelled /\ ~b.deferred /\ ~b.conn /\ b.dying /\ b.peer # None
      BY <1>1, <2>1 DEF TypeOK
    <3> HIDE DEF b
    <3> QED
      BY <1>1, <2>2, <3>1, <3>2, <3>3, <3>4, DeferredScan DEF TypeOK, RadioKnown
  <2>4. CASE ~g.cancelled
    <3>1. g' = [LinkReset(a) EXCEPT !.conn = TRUE] /\ out' = "CONNECTED" /\ resume' = g.encrypt
      BY <1>14, <2>4 DEF LinkMade
    <3>2. g' \in Gap
      BY <1>1, <2>1, <3>1 DEF LinkReset, TypeOK
    <3> QED
      BY <1>1, <2>1, <2>2, <2>4, <3>1, <3>2 DEF LinkReset, TypeOK, RadioKnown
  <2> QED
    BY <2>3, <2>4
<1>15. ASSUME EncryptOnConnect PROVE RadioKnown'
  <2> DEFINE a == [g EXCEPT !.encrypt = FALSE]
             stored == Bonded(g.peer)
  <2>1. stored \in BOOLEAN
    BY DEF Bonded
  <2>2. a \in Gap /\ SameRadio(a, g)
    BY <1>1 DEF TypeOK, SameRadio
  <2>3. g' = g \/ g' = a \/ g' = Secure(a, stored)
    BY <1>15 DEF EncryptOnConnect
  <2> HIDE DEF a, stored
  <2>4. g' \in Gap /\ SameRadio(g', g)
    <3>1. Secure(a, stored) \in Gap /\ SameRadio(Secure(a, stored), a)
      BY <2>1, <2>2, SecureTyped, SecureAlone
    <3>2. SameRadio(g, g)
      BY DEF SameRadio
    <3> QED
      BY <1>1, <2>2, <2>3, <3>1, <3>2 DEF TypeOK, SameRadio
  <2>5. UNCHANGED <<bonds, keys>> /\ out' \in {"none", "ENC_FAIL"} /\ resume' \in BOOLEAN
    BY <1>15 DEF EncryptOnConnect
  <2> QED
    BY <1>1, <2>4, <2>5, RadioAlone DEF TypeOK
<1>16. ASSUME ConnectFails PROVE RadioKnown'
  <2> DEFINE a == [g EXCEPT !.connecting = FALSE, !.master = "idle"]
  <2>1. ~g.scanning /\ ~g.window /\ g.peer = None /\ ~g.conn /\ ~g.dying /\ ~g.deferred /\ ~g.stuck
    BY <1>1, <1>16 DEF ConnectFails, TypeOK
  <2>2. UNCHANGED <<bonds, keys, resume>> /\ out' \in {"none", "CONNECT_FAIL"}
    BY <1>16 DEF ConnectFails
  <2>3. CASE g.cancelled
    <3> DEFINE b == [a EXCEPT !.cancelled = FALSE]
    <3>1. PICK ok \in BOOLEAN : g' = ScanDeferred(b, ok)
      BY <1>16, <2>3 DEF ConnectFails
    <3>2. b \in Gap /\ b.master = "idle" /\ ~b.scanning /\ ~b.window
      BY <1>1, <2>1 DEF TypeOK
    <3>3. ~b.connecting /\ ~b.cancelled /\ ~b.deferred /\ ~b.conn /\ ~b.dying /\ b.peer = None /\ ~b.stuck
      BY <1>1, <2>1 DEF TypeOK
    <3> HIDE DEF b
    <3> QED
      BY <1>1, <2>2, <3>1, <3>2, <3>3, DeferredScan DEF TypeOK, RadioKnown
  <2>4. CASE ~g.cancelled
    <3>1. g' = a
      BY <1>16, <2>4 DEF ConnectFails
    <3> QED
      BY <1>1, <2>1, <2>2, <2>4, <3>1 DEF TypeOK, RadioKnown
  <2> QED
    BY <2>3, <2>4
<1>17. ASSUME LinkDrops PROVE RadioKnown'
  <2> DEFINE a == [g EXCEPT !.peer = None, !.stuck = FALSE, !.sec = "none"]
             c == [a EXCEPT !.dying = FALSE]
  <2>1. PICK ok \in BOOLEAN : g' = IF g.dying THEN ConnectDeferred(c, ok)
                                   ELSE IF g.conn THEN LinkReset(a) ELSE a
    BY <1>17 DEF LinkDrops
  <2>2. bonds' \in Seq(Units) /\ UNCHANGED <<keys, resume>> /\ out' \in {"none", "CONNECT_FAIL", "DISCONNECTED"}
    BY <1>1, <1>17, OthersStay DEF LinkDrops, TypeOK
  <2>3. a \in Gap /\ c \in Gap
    BY <1>1 DEF TypeOK
  <2>4. CASE ~g.dying /\ g.conn
    <3>1. g' = LinkReset(a) /\ g' \in Gap
      BY <2>1, <2>3, <2>4, LinkResetTyped
    <3> QED
      BY <1>1, <2>2, <2>4, <3>1 DEF LinkReset, TypeOK, RadioKnown
  <2>5. CASE ~g.dying /\ ~g.conn
    <3>1. g' = a
      BY <2>1, <2>5
    <3> QED
      BY <1>1, <2>2, <2>3, <2>5, <3>1 DEF TypeOK, RadioKnown
  <2>6. CASE g.dying /\ ~g.deferred
    <3>1. g' = c
      BY <1>1, <2>1, <2>6 DEF ConnectDeferred, TypeOK
    <3> QED
      BY <1>1, <2>2, <2>3, <2>6, <3>1 DEF TypeOK, RadioKnown
  <2>7. CASE g.dying /\ g.deferred
    <3> DEFINE d == [c EXCEPT !.deferred = FALSE, !.connecting = FALSE]
               free == d.window \/ d.master = "idle"
    <3>1. g' = ConnectTo(d, c.deferredTo, c.deferredEnc, ok) /\ d \in Gap
      <4>1. d \in Gap
        <5> HIDE DEF c
        <5> QED
          BY <2>3
      <4>2. c.deferred
        BY <1>1, <2>7 DEF TypeOK
      <4> QED
        BY <2>1, <2>7, <4>1, <4>2 DEF ConnectDeferred
    <3>2. /\ ~d.conn /\ ~d.connecting /\ ~d.cancelled /\ ~d.dying /\ d.peer = None /\ ~d.stuck /\ ~d.deferred
          /\ ~d.scanDeferred /\ c.deferredTo \in Units
          /\ d.master = "disc" <=> d.scanning \/ d.window
          /\ d.master \notin {"conn", "cancel"} /\ ~(d.scanning /\ d.window)
      BY <1>1, <2>7 DEF TypeOK
    <3>3. g' = IF free /\ ok THEN [d EXCEPT !.window = FALSE, !.encrypt = c.deferredEnc, !.connecting = TRUE,
                                            !.to = c.deferredTo, !.master = "conn"]
               ELSE [d EXCEPT !.window = FALSE, !.encrypt = c.deferredEnc, !.connecting = FALSE, !.to = @,
                              !.master = IF free THEN "idle" ELSE @]
      <4> HIDE DEF c, d
      <4>1. d.to = d.to
        OBVIOUS
      <4> QED
        BY <3>1, <3>2 DEF ConnectTo
    <3>4. g' \in Gap
      <4>1. c.deferredEnc \in BOOLEAN
        BY <2>3
      <4> HIDE DEF c, d
      <4> QED
        BY <3>1, <3>2, <4>1, ConnectToTyped
    <3> HIDE DEF c, d
    <3>5. CASE free /\ ok
      BY <1>1, <2>2, <3>1, <3>2, <3>3, <3>4, <3>5 DEF TypeOK, RadioKnown
    <3>6. CASE ~(free /\ ok)
      BY <1>1, <2>2, <3>1, <3>2, <3>3, <3>4, <3>6 DEF TypeOK, RadioKnown
    <3> QED
      BY <3>5, <3>6
  <2> QED
    BY <2>4, <2>5, <2>6, <2>7
<1>18. ASSUME TermFailure PROVE RadioKnown'
  <2> DEFINE c == g.connecting /\ ~g.deferred
  <2>1. c \in BOOLEAN
    OBVIOUS
  <2>2. g' = [g EXCEPT !.dying = FALSE, !.stuck = TRUE, !.deferred = FALSE, !.connecting = c]
    BY <1>18 DEF TermFailure
  <2>3. UNCHANGED <<bonds, keys, resume>> /\ out' \in {"none", "CONNECT_FAIL"} /\ g.dying
    BY <1>18 DEF TermFailure
  <2>4. g' \in Gap
    <3> HIDE DEF c
    <3> QED
      BY <1>1, <2>1, <2>2 DEF TypeOK
  <2> QED
    BY <1>1, <2>2, <2>3, <2>4 DEF TypeOK, RadioKnown
<1>19. ASSUME PasskeyAction PROVE RadioKnown'
  <2>1. g' \in Gap
    BY <1>1, <1>19 DEF TypeOK, PasskeyAction, Event
  <2>2. TypeOK'
    BY <1>1, <1>19, <2>1 DEF TypeOK, PasskeyAction, Event
  <2>3. FlagsTrue'
    BY <1>1, <1>19 DEF TypeOK, PasskeyAction, Event
  <2>4. SlotKnown'
    BY <1>1, <1>19 DEF TypeOK, PasskeyAction, Event
  <2> QED
    BY <2>1, <2>2, <2>3, <2>4 DEF RadioKnown
<1>20. ASSUME Encrypted PROVE RadioKnown'
  <2>1. g' \in Gap
    BY <1>1, <1>20 DEF TypeOK, Encrypted, Event
  <2>2. TypeOK'
    BY <1>1, <1>20, <2>1 DEF TypeOK, Encrypted, Event
  <2>3. FlagsTrue'
    BY <1>1, <1>20 DEF TypeOK, Encrypted, Event
  <2>4. SlotKnown'
    BY <1>1, <1>20 DEF TypeOK, Encrypted, Event
  <2> QED
    BY <2>1, <2>2, <2>3, <2>4 DEF RadioKnown
<1>21. ASSUME ProbeRefused PROVE RadioKnown'
  <2> DEFINE a == [g EXCEPT !.probing = FALSE, !.sec = "none"]
  <2>1. a \in Gap /\ SameRadio(a, g)
    BY <1>1 DEF TypeOK, SameRadio
  <2> DEFINE b == Secure(a, FALSE)
  <2>2. g' = a \/ g' = b
    BY <1>21 DEF ProbeRefused
  <2>3. b \in Gap /\ SameRadio(b, a)
    <3> HIDE DEF a
    <3> QED
      BY <2>1 DEF Secure, SameRadio
  <2> HIDE DEF a, b
  <2>4. g' \in Gap /\ SameRadio(g', g)
    BY <2>1, <2>2, <2>3, SameRadioChain
  <2>5. bonds' \in Seq(Units) /\ UNCHANGED <<keys, resume>> /\ out' \in {"none", "ENC_FAIL"}
    BY <1>1, <1>21, OthersStay DEF ProbeRefused, TypeOK
  <2> QED
    BY <1>1, <2>4, <2>5, RadioAlone DEF TypeOK
<1>22. ASSUME EncFails PROVE RadioKnown'
  <2> DEFINE a == [g EXCEPT !.probing = FALSE, !.sec = "none"]
  <2>1. a \in Gap /\ SameRadio(a, g) /\ SameRadio(g, g)
    BY <1>1 DEF TypeOK, SameRadio
  <2>2. (g' = g \/ g' = a) /\ out' \in {"none", "ENC_FAIL"}
    BY <1>22 DEF EncFails
  <2> HIDE DEF a
  <2>3. UNCHANGED <<bonds, keys, resume>>
    BY <1>22 DEF EncFails
  <2> QED
    BY <1>1, <2>1, <2>2, <2>3, RadioAlone DEF TypeOK
<1>23. ASSUME RepeatPairing PROVE RadioKnown'
  <2>1. g' \in Gap
    BY <1>1, <1>23 DEF TypeOK, RepeatPairing, Event
  <2>2. TypeOK'
    BY <1>1, <1>23, <2>1, OthersStay DEF TypeOK, RepeatPairing, Event
  <2>3. FlagsTrue'
    BY <1>1, <1>23 DEF TypeOK, RepeatPairing, Event
  <2>4. SlotKnown'
    BY <1>1, <1>23 DEF TypeOK, RepeatPairing, Event
  <2> QED
    BY <2>1, <2>2, <2>3, <2>4 DEF RadioKnown
<1>24. ASSUME ReadDone PROVE RadioKnown'
  <2>1. g' \in Gap
    BY <1>1, <1>24 DEF TypeOK, ReadDone, Event
  <2>2. TypeOK'
    BY <1>1, <1>24, <2>1 DEF TypeOK, ReadDone, Event
  <2>3. FlagsTrue'
    BY <1>1, <1>24 DEF TypeOK, ReadDone, Event
  <2>4. SlotKnown'
    BY <1>1, <1>24 DEF TypeOK, ReadDone, Event
  <2> QED
    BY <2>1, <2>2, <2>3, <2>4 DEF RadioKnown
<1>25. ASSUME HostReset PROVE RadioKnown'
  <2>1. g' \in Gap
    BY <1>1, <1>25 DEF TypeOK, HostReset, Event, NoGap
  <2>2. TypeOK'
    BY <1>1, <1>25, <2>1 DEF TypeOK, HostReset, Event, NoGap
  <2>3. FlagsTrue'
    BY <1>1, <1>25 DEF TypeOK, HostReset, Event, NoGap
  <2>4. SlotKnown'
    BY <1>1, <1>25 DEF TypeOK, HostReset, Event, NoGap
  <2> QED
    BY <2>1, <2>2, <2>3, <2>4 DEF RadioKnown
<1>26. ASSUME UnitForgets PROVE RadioKnown'
  <2>1. g' \in Gap
    BY <1>1, <1>26 DEF TypeOK, UnitForgets
  <2>2. TypeOK'
    BY <1>1, <1>26, <2>1 DEF TypeOK, UnitForgets
  <2>3. FlagsTrue'
    BY <1>1, <1>26 DEF TypeOK, UnitForgets
  <2>4. SlotKnown'
    BY <1>1, <1>26 DEF TypeOK, UnitForgets
  <2> QED
    BY <2>1, <2>2, <2>3, <2>4 DEF RadioKnown
<1> QED
  BY <1>2, <1>3, <1>4, <1>5, <1>6, <1>7, <1>8, <1>9, <1>10, <1>11, <1>12, <1>13, <1>14, <1>15,
     <1>16, <1>17, <1>18, <1>19, <1>20, <1>21, <1>22, <1>23, <1>24, <1>25, <1>26
     DEF Next, Call, HostEvent

\* The statics start idle, with no bond.
LEMMA RadioStarts ==
    ASSUME UnitsAssumption, Init
    PROVE  RadioKnown
<1>1. NoGap \in Gap
  BY DEF NoGap, Gap
<1>2. TypeOK
  <2>1. g \in Gap /\ g.master = "idle" /\ ~g.deferred
    BY <1>1 DEF Init, NoGap
  <2>2. bonds \in Seq(Units) /\ keys \subseteq Units
    BY EmptySeq DEF Init
  <2>3. out = "none" /\ resume \in BOOLEAN
    BY DEF Init
  <2> QED
    BY <2>1, <2>2, <2>3 DEF TypeOK
<1>3. FlagsTrue /\ SlotKnown
  BY DEF Init, NoGap, FlagsTrue, SlotKnown
<1> QED
  BY <1>2, <1>3 DEF RadioKnown

\* What ble_nimble.c believes of the radio is what the host does, for every caller and
\* every order of the host's events, resets and refused calls included (scan_now,
\* connect_to, t_disconnect, gap_cb).
THEOREM TransportKnowsRadio == ASSUME UnitsAssumption
                               PROVE  Spec => []RadioKnown
<1>1. RadioKnown /\ UNCHANGED vars => RadioKnown'
  BY DEF RadioKnown, TypeOK, FlagsTrue, SlotKnown, vars
<1>2. RadioKnown /\ [Next]_vars => RadioKnown'
  BY <1>1, RadioStep
<1>3. Init => RadioKnown
  BY RadioStarts
<1> QED
  BY <1>2, <1>3, PTL DEF Spec

-----------------------------------------------------------------------------
(* The link: the contract of cali_transport.h.                              *)

\* A step that leaves connect and link as they are, and reports nothing of them.
LEMMA NothingReported ==
    ASSUME g'.conn = g.conn, g'.connecting = g.connecting,
           out' \in {"none", "FOUND"} \/ (g.conn /\ out' \in {"PASSKEY_REQ", "ENC_OK", "ENC_FAIL", "READ"})
    PROVE  Contract!Next
BY DEF Contract!Next, Contract!Report, Contract!OnLink

\* A connect or a link that is given up, without a word.
LEMMA GivenUp ==
    ASSUME ~g'.conn, ~g'.connecting, out' = "none"
    PROVE  Contract!Next
BY DEF Contract!Next, Contract!Drop

\* Every step is one of the contract's.
LEMMA ContractStep ==
    ASSUME UnitsAssumption, RadioKnown, Next
    PROVE  Contract!Next
<1>1. TypeOK /\ FlagsTrue /\ SlotKnown /\ UnitsAssumption
  BY DEF RadioKnown
<1>2. ASSUME CallStartScan PROVE Contract!Next
  <2>1. PICK ok \in BOOLEAN : g' = StartScan(g, ok)
    BY <1>2 DEF CallStartScan
  <2>2. out' = "none"
    BY <1>2 DEF CallStartScan, Called
  <2>3. CASE g.connecting
    <3>1. ~g.conn
      BY <1>1, <2>3 DEF SlotKnown
    <3>2. ~g'.conn /\ ~g'.connecting
      BY <1>1, <2>1, <2>3, <3>1 DEF StartScan, Disconnect, ScanNow, TypeOK, Gap
    <3> QED
      BY <2>2, <3>2, GivenUp
  <2>4. CASE ~g.connecting
    <3>1. g'.conn = g.conn /\ g'.connecting = g.connecting
      BY <1>1, <2>1, <2>4 DEF StartScan, ScanNow, TypeOK, Gap
    <3> QED
      BY <2>2, <3>1, NothingReported
  <2> QED
    BY <2>3, <2>4
<1>3. ASSUME CallStopScan PROVE Contract!Next
  <2>1. g'.conn = g.conn /\ g'.connecting = g.connecting
    BY <1>1, <1>3 DEF CallStopScan, StopScan, Called, TypeOK, Gap
  <2>2. out' \in {"none", "FOUND"} \/ (g.conn /\ out' \in {"PASSKEY_REQ", "ENC_OK", "ENC_FAIL", "READ"})
    BY <1>3 DEF CallStopScan, Called
  <2> QED
    BY <2>1, <2>2, NothingReported
<1>4. ASSUME CallConnect PROVE Contract!Next
  <2>1. PICK ok \in BOOLEAN : \/ g' = ConnectTo(g, g.found, FALSE, ok)
                             \/ g' = ConnectTo(g, Head(bonds), TRUE, ok)
    BY <1>4 DEF CallConnect
  <2>2. out' = "none"
    BY <1>4 DEF CallConnect, Called
  <2>3. g.conn \/ g.connecting => g' = g
    BY <2>1 DEF ConnectTo
  <2>4. ~g.conn /\ ~g.connecting => ~g'.conn
    BY <1>1, <2>1 DEF ConnectTo, TypeOK, Gap
  <2> QED
    BY <1>1, <2>2, <2>3, <2>4 DEF Contract!Next, Contract!Connect, Contract!Drop, Contract!Report, TypeOK, Gap
<1>5. ASSUME CallPair PROVE Contract!Next
  <2>1. g'.conn = g.conn /\ g'.connecting = g.connecting
    BY <1>1, <1>5 DEF CallPair, Pair, Secure, Called, TypeOK, Gap
  <2>2. out' \in {"none", "FOUND"} \/ (g.conn /\ out' \in {"PASSKEY_REQ", "ENC_OK", "ENC_FAIL", "READ"})
    BY <1>5 DEF CallPair, Called
  <2> QED
    BY <2>1, <2>2, NothingReported
<1>6. ASSUME CallPasskey PROVE Contract!Next
  <2>1. g'.conn = g.conn /\ g'.connecting = g.connecting
    BY <1>1, <1>6 DEF CallPasskey, Called, TypeOK, Gap
  <2>2. out' \in {"none", "FOUND"} \/ (g.conn /\ out' \in {"PASSKEY_REQ", "ENC_OK", "ENC_FAIL", "READ"})
    BY <1>6 DEF CallPasskey, Called
  <2> QED
    BY <2>1, <2>2, NothingReported
<1>7. ASSUME CallRead PROVE Contract!Next
  <2>1. g'.conn = g.conn /\ g'.connecting = g.connecting
    BY <1>1, <1>7 DEF CallRead, Called, TypeOK, Gap
  <2>2. out' \in {"none", "FOUND"} \/ (g.conn /\ out' \in {"PASSKEY_REQ", "ENC_OK", "ENC_FAIL", "READ"})
    BY <1>7 DEF CallRead, Called
  <2> QED
    BY <2>1, <2>2, NothingReported
<1>8. ASSUME CallDisconnect PROVE Contract!Next
  <2>1. PICK ended \in BOOLEAN : g' = Disconnect(g, ended)
    BY <1>8 DEF CallDisconnect
  <2>2. out' = "none"
    BY <1>8 DEF CallDisconnect, Called
  <2>3. ~g'.conn /\ ~g'.connecting
    BY <1>1, <2>1 DEF Disconnect, LinkReset, SlotKnown, TypeOK, Gap
  <2> QED
    BY <2>2, <2>3, GivenUp
<1>9. ASSUME CallRemoveBond PROVE Contract!Next
  <2>1. PICK ended \in BOOLEAN : g' = Disconnect(g, ended)
    BY <1>9 DEF CallRemoveBond
  <2>2. out' = "none"
    BY <1>9 DEF CallRemoveBond, Called
  <2>3. ~g'.conn /\ ~g'.connecting
    BY <1>1, <2>1 DEF Disconnect, LinkReset, SlotKnown, TypeOK, Gap
  <2> QED
    BY <2>2, <2>3, GivenUp
<1>10. ASSUME CallKeepOnlyBond PROVE Contract!Next
  <2>1. g'.conn = g.conn /\ g'.connecting = g.connecting
    BY <1>1, <1>10 DEF CallKeepOnlyBond, Called, TypeOK, Gap
  <2>2. out' \in {"none", "FOUND"} \/ (g.conn /\ out' \in {"PASSKEY_REQ", "ENC_OK", "ENC_FAIL", "READ"})
    BY <1>10 DEF CallKeepOnlyBond, Called
  <2> QED
    BY <2>1, <2>2, NothingReported
<1>11. ASSUME CallScanWindow PROVE Contract!Next
  <2>1. g'.conn = g.conn /\ g'.connecting = g.connecting
    BY <1>1, <1>11 DEF CallScanWindow, ScanWindow, Called, TypeOK, Gap
  <2>2. out' \in {"none", "FOUND"} \/ (g.conn /\ out' \in {"PASSKEY_REQ", "ENC_OK", "ENC_FAIL", "READ"})
    BY <1>11 DEF CallScanWindow, Called
  <2> QED
    BY <2>1, <2>2, NothingReported
<1>12. ASSUME Advert PROVE Contract!Next
  <2>1. g'.conn = g.conn /\ g'.connecting = g.connecting
    BY <1>1, <1>12 DEF Advert, TypeOK, Gap
  <2>2. out' \in {"none", "FOUND"} \/ (g.conn /\ out' \in {"PASSKEY_REQ", "ENC_OK", "ENC_FAIL", "READ"})
    BY <1>12 DEF Advert, Called
  <2> QED
    BY <2>1, <2>2, NothingReported
<1>13. ASSUME WindowEnds PROVE Contract!Next
  <2>1. g'.conn = g.conn /\ g'.connecting = g.connecting
    BY <1>1, <1>13 DEF WindowEnds, TypeOK, Gap
  <2>2. out' \in {"none", "FOUND"} \/ (g.conn /\ out' \in {"PASSKEY_REQ", "ENC_OK", "ENC_FAIL", "READ"})
    BY <1>13 DEF WindowEnds, Called
  <2> QED
    BY <2>1, <2>2, NothingReported
<1>14. ASSUME LinkMade PROVE Contract!Next
  <2> DEFINE a == [g EXCEPT !.connecting = FALSE, !.master = "idle", !.peer = g.to, !.sec = "none"]
  <2>1. g.to \in Units /\ ~g.conn /\ ~g.scanning /\ ~g.window /\ (g.connecting <=> ~g.cancelled)
    BY <1>1, <1>14 DEF LinkMade, TypeOK, FlagsTrue, SlotKnown, UnitsAssumption, Gap
  <2>2. CASE g.cancelled
    <3> DEFINE b == [a EXCEPT !.cancelled = FALSE, !.dying = TRUE]
    <3>1. PICK ok \in BOOLEAN : g' = ScanDeferred(b, ok)
      BY <1>14, <2>2 DEF LinkMade
    <3>2. out' = "none"
      BY <1>14, <2>2 DEF LinkMade
    <3>a. g \in Gap /\ g.to \in Units \cup {None}
      BY <1>1, <2>1 DEF TypeOK
    <3>b. a \in Gap /\ a.master = "idle" /\ ~a.scanning /\ ~a.window
      BY <2>1, <3>a DEF Gap
    <3>3. b \in Gap /\ b.master = "idle" /\ ~b.scanning /\ ~b.window
      <4> HIDE DEF a
      <4> QED
        BY <3>b DEF Gap
    <3>4. ~b.connecting /\ ~b.conn
      BY <1>1, <2>1 DEF TypeOK, Gap
    <3> HIDE DEF b
    <3> QED
      BY <3>1, <3>2, <3>3, <3>4, DeferredScan, GivenUp
  <2>3. CASE ~g.cancelled
    <3>1. g' = [LinkReset(a) EXCEPT !.conn = TRUE] /\ out' = "CONNECTED"
      BY <1>14, <2>3 DEF LinkMade
    <3>2. g'.conn
      BY <1>1, <2>1, <3>1 DEF LinkReset, TypeOK, Gap
    <3> QED
      BY <2>1, <2>3, <3>1, <3>2 DEF Contract!Next, Contract!Connected
  <2> QED
    BY <2>2, <2>3
<1>15. ASSUME EncryptOnConnect PROVE Contract!Next
  <2>1. g'.conn = g.conn /\ g'.connecting = g.connecting
    BY <1>1, <1>15 DEF EncryptOnConnect, Secure, TypeOK, Gap
  <2>2. out' = "none" \/ (g.conn /\ out' = "ENC_FAIL")
    BY <1>15 DEF EncryptOnConnect
  <2> QED
    BY <2>1, <2>2, NothingReported
<1>16. ASSUME ConnectFails PROVE Contract!Next
  <2> DEFINE a == [g EXCEPT !.connecting = FALSE, !.master = "idle"]
  <2>1. ~g.conn /\ ~g.scanning /\ ~g.window /\ (g.connecting <=> ~g.cancelled)
    BY <1>1, <1>16 DEF ConnectFails, TypeOK, FlagsTrue, SlotKnown, UnitsAssumption, Gap
  <2>2. CASE g.cancelled
    <3> DEFINE b == [a EXCEPT !.cancelled = FALSE]
    <3>1. PICK ok \in BOOLEAN : g' = ScanDeferred(b, ok)
      BY <1>16, <2>2 DEF ConnectFails
    <3>2. out' = "none"
      BY <1>16, <2>2 DEF ConnectFails
    <3>a. g \in Gap
      BY <1>1 DEF TypeOK
    <3>b. a \in Gap /\ a.master = "idle" /\ ~a.scanning /\ ~a.window
      BY <2>1, <3>a DEF Gap
    <3>3. b \in Gap /\ b.master = "idle" /\ ~b.scanning /\ ~b.window
      <4> HIDE DEF a
      <4> QED
        BY <3>b DEF Gap
    <3>4. ~b.connecting /\ ~b.conn
      BY <1>1, <2>1 DEF TypeOK, Gap
    <3> HIDE DEF b
    <3> QED
      BY <3>1, <3>2, <3>3, <3>4, DeferredScan, GivenUp
  <2>3. CASE ~g.cancelled
    <3>1. g' = a /\ out' = "CONNECT_FAIL"
      BY <1>16, <2>3 DEF ConnectFails
    <3>2. ~g'.conn /\ ~g'.connecting
      BY <1>1, <2>1, <3>1 DEF TypeOK, Gap
    <3> QED
      BY <2>1, <2>3, <3>1, <3>2 DEF Contract!Next, Contract!ConnectFail
  <2> QED
    BY <2>2, <2>3
<1>17. ASSUME LinkDrops PROVE Contract!Next
  <2> DEFINE a == [g EXCEPT !.peer = None, !.stuck = FALSE, !.sec = "none"]
  <2>1. PICK ok \in BOOLEAN :
          /\ g' = IF g.dying THEN ConnectDeferred([a EXCEPT !.dying = FALSE], ok)
                  ELSE IF g.conn THEN LinkReset(a) ELSE a
          /\ out' = IF g.dying /\ g.deferred /\ ~ConnectDeferred([a EXCEPT !.dying = FALSE], ok).connecting
                    THEN "CONNECT_FAIL"
                    ELSE IF ~g.dying /\ g.conn THEN "DISCONNECTED" ELSE "none"
    BY <1>17 DEF LinkDrops
  <2>2. CASE g.dying
    <3>1. ~g.conn /\ (g.deferred => g.connecting)
      BY <1>1, <2>2 DEF SlotKnown
    <3>2. ~g'.conn /\ (~g.deferred => g'.connecting = g.connecting)
      BY <1>1, <2>1, <2>2, <3>1 DEF ConnectDeferred, ConnectTo, TypeOK, Gap
    <3>3. out' = IF g.deferred /\ ~g'.connecting THEN "CONNECT_FAIL" ELSE "none"
      BY <2>1, <2>2
    <3>4. g.deferred /\ ~g'.connecting => Contract!Next
      BY <3>1, <3>2, <3>3 DEF Contract!Next, Contract!ConnectFail
    <3>5. ~(g.deferred /\ ~g'.connecting) => Contract!Next
      BY <3>1, <3>2, <3>3 DEF Contract!Next, Contract!Report
    <3> QED
      BY <3>4, <3>5
  <2>3. CASE ~g.dying /\ g.conn
    <3>1. g' = LinkReset(a) /\ out' = "DISCONNECTED" /\ ~g.connecting
      BY <1>1, <2>1, <2>3 DEF SlotKnown
    <3>2. ~g'.conn /\ ~g'.connecting
      BY <1>1, <3>1 DEF LinkReset, TypeOK, Gap
    <3> QED
      BY <2>3, <3>1, <3>2 DEF Contract!Next, Contract!Disconnected
  <2>4. CASE ~g.dying /\ ~g.conn
    <3>1. g' = a /\ out' = "none"
      BY <2>1, <2>4
    <3>2. g'.conn = g.conn /\ g'.connecting = g.connecting
      BY <1>1, <3>1 DEF TypeOK, Gap
    <3> QED
      BY <3>1, <3>2, NothingReported
  <2> QED
    BY <2>2, <2>3, <2>4
<1>18. ASSUME TermFailure PROVE Contract!Next
  <2>1. g.dying /\ ~g.conn /\ (g.deferred => g.connecting)
    BY <1>1, <1>18 DEF TermFailure, SlotKnown
  <2>2. ~g'.conn /\ (g'.connecting <=> g.connecting /\ ~g.deferred)
    BY <1>1, <1>18, <2>1 DEF TermFailure, TypeOK, Gap
  <2>3. out' = IF g.deferred THEN "CONNECT_FAIL" ELSE "none"
    BY <1>18 DEF TermFailure
  <2> QED
    BY <2>1, <2>2, <2>3 DEF Contract!Next, Contract!ConnectFail, Contract!Report
<1>19. ASSUME PasskeyAction PROVE Contract!Next
  <2>1. g'.conn = g.conn /\ g'.connecting = g.connecting
    BY <1>1, <1>19 DEF PasskeyAction, TypeOK, Gap
  <2>2. out' \in {"none", "FOUND"} \/ (g.conn /\ out' \in {"PASSKEY_REQ", "ENC_OK", "ENC_FAIL", "READ"})
    BY <1>19 DEF PasskeyAction, Called
  <2> QED
    BY <2>1, <2>2, NothingReported
<1>20. ASSUME Encrypted PROVE Contract!Next
  <2>1. g'.conn = g.conn /\ g'.connecting = g.connecting
    BY <1>1, <1>20 DEF Encrypted, TypeOK, Gap
  <2>2. out' \in {"none", "FOUND"} \/ (g.conn /\ out' \in {"PASSKEY_REQ", "ENC_OK", "ENC_FAIL", "READ"})
    BY <1>20 DEF Encrypted, Called
  <2> QED
    BY <2>1, <2>2, NothingReported
<1>21. ASSUME ProbeRefused PROVE Contract!Next
  <2>1. g'.conn = g.conn /\ g'.connecting = g.connecting
    BY <1>1, <1>21 DEF ProbeRefused, Secure, TypeOK, Gap
  <2>2. out' \in {"none", "FOUND"} \/ (g.conn /\ out' \in {"PASSKEY_REQ", "ENC_OK", "ENC_FAIL", "READ"})
    BY <1>21 DEF ProbeRefused, Called
  <2> QED
    BY <2>1, <2>2, NothingReported
<1>22. ASSUME EncFails PROVE Contract!Next
  <2>1. g'.conn = g.conn /\ g'.connecting = g.connecting
    BY <1>1, <1>22 DEF EncFails, TypeOK, Gap
  <2>2. out' \in {"none", "FOUND"} \/ (g.conn /\ out' \in {"PASSKEY_REQ", "ENC_OK", "ENC_FAIL", "READ"})
    BY <1>22 DEF EncFails, Called
  <2> QED
    BY <2>1, <2>2, NothingReported
<1>23. ASSUME RepeatPairing PROVE Contract!Next
  <2>1. g'.conn = g.conn /\ g'.connecting = g.connecting
    BY <1>1, <1>23 DEF RepeatPairing, TypeOK, Gap
  <2>2. out' \in {"none", "FOUND"} \/ (g.conn /\ out' \in {"PASSKEY_REQ", "ENC_OK", "ENC_FAIL", "READ"})
    BY <1>23 DEF RepeatPairing, Called
  <2> QED
    BY <2>1, <2>2, NothingReported
<1>24. ASSUME ReadDone PROVE Contract!Next
  <2>1. g'.conn = g.conn /\ g'.connecting = g.connecting
    BY <1>1, <1>24 DEF ReadDone, TypeOK, Gap
  <2>2. out' \in {"none", "FOUND"} \/ (g.conn /\ out' \in {"PASSKEY_REQ", "ENC_OK", "ENC_FAIL", "READ"})
    BY <1>24 DEF ReadDone, Called
  <2> QED
    BY <2>1, <2>2, NothingReported
<1>25. ASSUME HostReset PROVE Contract!Next
  <2>1. ~g'.conn /\ ~g'.connecting
    BY <1>1, <1>25 DEF HostReset, NoGap
  <2>2. out' = IF g.conn THEN "DISCONNECTED" ELSE IF g.deferred THEN "CONNECT_FAIL" ELSE "none"
    BY <1>25 DEF HostReset
  <2>3. (g.deferred => g.connecting) /\ ~(g.conn /\ g.connecting)
    BY <1>1 DEF SlotKnown
  <2> QED
    BY <2>1, <2>2, <2>3 DEF Contract!Next, Contract!ConnectFail, Contract!Disconnected, Contract!Drop
<1>26. ASSUME UnitForgets PROVE Contract!Next
  <2>1. g'.conn = g.conn /\ g'.connecting = g.connecting
    BY <1>1, <1>26 DEF UnitForgets, TypeOK, Gap
  <2>2. out' \in {"none", "FOUND"} \/ (g.conn /\ out' \in {"PASSKEY_REQ", "ENC_OK", "ENC_FAIL", "READ"})
    BY <1>26 DEF UnitForgets, Called
  <2> QED
    BY <2>1, <2>2, NothingReported
<1> QED
  BY <1>2, <1>3, <1>4, <1>5, <1>6, <1>7, <1>8, <1>9, <1>10, <1>11, <1>12, <1>13, <1>14, <1>15,
     <1>16, <1>17, <1>18, <1>19, <1>20, <1>21, <1>22, <1>23, <1>24, <1>25, <1>26
     DEF Next, Call, HostEvent

\* What the caller sees of the link is what cali_transport.h promises: a connect has one
\* verdict, a loss is reported once, and nothing is of one that was given up.
THEOREM TransportKeepsContract == ASSUME UnitsAssumption
                                  PROVE  Spec => ContractSpec
<1>1. Init => Contract!Init
  BY DEF Init, NoGap, Contract!Init
<1>2. RadioKnown /\ [Next]_vars => [Contract!Next]_Contract!contractVars
  <2>1. UNCHANGED vars => UNCHANGED Contract!contractVars
    BY DEF vars, Contract!contractVars
  <2> QED
    BY <2>1, ContractStep
<1> QED
  BY <1>1, <1>2, TransportKnowsRadio, PTL DEF Spec, ContractSpec, Contract!Spec

-----------------------------------------------------------------------------
(* The link: bonds.                                                         *)

\* A bond whose key the unit still holds goes by the caller's wish only.
LEMMA BondStep ==
    ASSUME RadioKnown, Next, ~CallRemoveBond, ~CallKeepOnlyBond,
           NEW u \in keys, Bonded(u)
    PROVE  u \in ToSet(bonds')
<1>1. bonds \in Seq(Units) /\ u \in ToSet(bonds)
  BY DEF RadioKnown, TypeOK, Bonded
<1>2. bonds' = bonds => u \in ToSet(bonds')
  BY <1>1
<1>3. \A v : v # u /\ bonds' = Without(v) => u \in ToSet(bonds')
  BY <1>1, OthersStay
<1>4. ASSUME LinkDrops PROVE u \in ToSet(bonds')
  <2>1. bonds' = bonds \/ (g.peer # u /\ bonds' = Without(g.peer))
    BY <1>4 DEF LinkDrops
  <2> QED
    BY <1>2, <1>3, <2>1
<1>5. ASSUME ProbeRefused \/ RepeatPairing PROVE u \in ToSet(bonds')
  <2>1. g.peer # u /\ bonds' = Without(g.peer)
    BY <1>5 DEF ProbeRefused, RepeatPairing
  <2> QED
    BY <1>3, <2>1
<1>6. ASSUME Encrypted PROVE u \in ToSet(bonds')
  <2>1. bonds' = bonds \/ bonds' = Append(bonds, g.peer)
    BY <1>6 DEF Encrypted
  <2>2. u \in ToSet(Append(bonds, g.peer))
    <3>1. PICK i \in 1..Len(bonds) : bonds[i] = u
      BY <1>1 DEF ToSet
    <3>2. i \in DOMAIN Append(bonds, g.peer) /\ Append(bonds, g.peer)[i] = u
      BY <1>1, <3>1
    <3> QED
      BY <3>2 DEF ToSet
  <2> QED
    BY <1>2, <2>1, <2>2
<1>7. \/ LinkDrops \/ ProbeRefused \/ RepeatPairing \/ Encrypted \/ bonds' = bonds
  BY DEF Next, Call, HostEvent, CallStartScan, CallStopScan, CallConnect, CallPair, CallPasskey, CallRead,
         CallDisconnect, CallScanWindow, Called, Advert, WindowEnds, LinkMade, EncryptOnConnect, ConnectFails,
         TermFailure, PasskeyAction, EncFails, ReadDone, HostReset, UnitForgets
<1> QED
  BY <1>2, <1>4, <1>5, <1>6, <1>7

\* A bond that still works is deleted on request or for a verified other unit only: no
\* pairing that fails, at whatever step, costs it (t_pair, gap_cb).
THEOREM TransportKeepsBonds == ASSUME UnitsAssumption
                               PROVE  Spec => WorkingBondKept
<1> DEFINE Kept == \A u \in keys : Bonded(u) /\ ~(u \in ToSet(bonds')) =>
                        CallRemoveBond \/ CallKeepOnlyBond
<1>1. RadioKnown /\ [Next]_vars => [Kept]_vars
  BY BondStep
<1> QED
  BY <1>1, TransportKnowsRadio, PTL DEF Spec, WorkingBondKept


-----------------------------------------------------------------------------
(* The transport's functions, on a state t of the transport.                *)

\* What TypeOK, FlagsTrue and SlotKnown say of g.
Sound(t) ==
    /\ t \in Gap
    /\ t.master \in {"conn", "cancel"} => t.to \in Units
    /\ t.deferred => t.deferredTo \in Units
    /\ t.master = "disc" <=> t.scanning \/ t.window
    /\ t.master = "conn" <=> t.connecting /\ ~t.deferred
    /\ t.master = "cancel" <=> t.cancelled
    /\ ~(t.scanning /\ t.window)
    /\ ~(t.conn /\ t.dying) /\ ~(t.conn /\ t.connecting)
    /\ t.deferred => t.connecting /\ t.dying
    /\ t.scanDeferred => t.cancelled
    /\ t.cancelled => ~t.connecting
    /\ t.peer # None <=> t.conn \/ t.dying \/ t.stuck
    /\ t.master \in {"conn", "cancel"} => t.peer = None

\* What is known of the radio is a sound state of it beside the bonds and the report.
LEMMA SoundIsRadioKnown ==
    RadioKnown <=>
        /\ Sound(g) /\ bonds \in Seq(Units) /\ keys \subseteq Units /\ resume \in BOOLEAN
        /\ out \in {"none", "FOUND", "CONNECTED", "CONNECT_FAIL", "DISCONNECTED",
                    "PASSKEY_REQ", "ENC_OK", "ENC_FAIL", "READ"}
BY DEF RadioKnown, TypeOK, FlagsTrue, SlotKnown, Sound

\* The unit a connect is for, and whether it will be encrypted.
Target(t) == IF t.deferred THEN t.deferredTo ELSE t.to
Encrypts(t) == IF t.deferred THEN t.deferredEnc ELSE t.encrypt

\* The link is as it was.
SameLink(u, t) == u.conn = t.conn /\ u.peer = t.peer /\ u.sec = t.sec /\ u.reading = t.reading

\* What is wanted of the radio is as it was.
SameScan(u, t) == u.scanning = t.scanning /\ u.scanDeferred = t.scanDeferred
SameConnect(u, t) ==
    u.connecting = t.connecting /\ u.deferred = t.deferred /\ u.deferredTo = t.deferredTo
    /\ u.to = t.to /\ u.deferredEnc = t.deferredEnc /\ u.encrypt = t.encrypt

\* A disconnect: no link and no connect is left, and without any it does nothing.
LEMMA DisconnectDoes ==
    ASSUME NEW t, Sound(t), NEW ended \in BOOLEAN,
           NEW u, u = Disconnect(t, ended)
    PROVE  /\ Sound(u) /\ ~u.conn /\ ~u.connecting /\ SameScan(u, t)
           /\ ~t.conn /\ ~t.connecting => u = t
<1> DEFINE kept == ~ended
<1>0. t \in Gap /\ kept \in BOOLEAN
  BY DEF Sound
<1>u. u \in Gap
  BY <1>0, DisconnectTyped
<1>1. CASE t.deferred
  <2>1. u = [t EXCEPT !.deferred = FALSE, !.connecting = FALSE]
    BY <1>1 DEF Disconnect
  <2> QED
    BY <1>0, <1>u, <1>1, <2>1 DEF Sound, SameScan, Gap
<1>2. CASE ~t.deferred /\ t.connecting
  <2>1. u = [t EXCEPT !.connecting = FALSE, !.cancelled = TRUE, !.master = "cancel"]
    BY <1>2 DEF Disconnect
  <2> QED
    BY <1>0, <1>u, <1>2, <2>1 DEF Sound, SameScan, Gap
<1>3. CASE ~t.deferred /\ ~t.connecting /\ ~t.conn
  BY <1>3 DEF Disconnect, SameScan
<1>4. CASE ~t.deferred /\ ~t.connecting /\ t.conn
  <2>1. u = [[t EXCEPT !.conn = FALSE, !.probing = FALSE, !.reading = FALSE]
              EXCEPT !.dying = ended, !.stuck = kept]
    BY <1>4 DEF Disconnect, LinkReset
  <2> HIDE DEF kept
  <2>2. u \in Gap
    BY <1>u
  <2>3. /\ u.conn = FALSE /\ u.dying = ended /\ u.stuck = kept /\ u.peer = t.peer
        /\ u.connecting = t.connecting /\ u.deferred = t.deferred /\ u.deferredTo = t.deferredTo
        /\ u.master = t.master /\ u.to = t.to /\ u.cancelled = t.cancelled
        /\ u.scanning = t.scanning /\ u.scanDeferred = t.scanDeferred /\ u.window = t.window
    BY <1>0, <2>1 DEF Gap
  <2>4. u.dying \/ u.stuck
    BY <2>3 DEF kept
  <2> QED
    BY <1>4, <2>2, <2>3, <2>4 DEF Sound, SameScan
<1> QED
  BY <1>1, <1>2, <1>3, <1>4

\* The end of a scan: none runs and none waits.
LEMMA StopScanDoes ==
    ASSUME NEW t, Sound(t),
           NEW u, u = StopScan(t)
    PROVE  Sound(u) /\ ~u.scanning /\ ~u.scanDeferred /\ SameLink(u, t) /\ SameConnect(u, t)
<1> DEFINE a == [t EXCEPT !.scanDeferred = FALSE]
<1>0. t \in Gap
  BY DEF Sound
<1>u. u \in Gap
  BY <1>0, StopScanTyped
<1>1. CASE t.scanning
  <2>1. u = [a EXCEPT !.scanning = FALSE, !.master = "idle"]
    BY <1>0, <1>u, <1>1 DEF StopScan, Gap
  <2> QED
    BY <1>0, <1>u, <1>1, <2>1 DEF Sound, SameLink, SameConnect, Gap
<1>2. CASE ~t.scanning
  <2>1. u = a
    BY <1>0, <1>u, <1>2 DEF StopScan, Gap
  <2> QED
    BY <1>0, <1>u, <1>2, <2>1 DEF Sound, SameLink, SameConnect, Gap
<1> QED
  BY <1>1, <1>2

\* A scan of the radio as it is.
LEMMA ScanNowDoes ==
    ASSUME NEW t, Sound(t), ~t.scanDeferred, NEW ok \in BOOLEAN,
           NEW u, u = ScanNow(t, ok)
    PROVE  Sound(u) /\ SameLink(u, t) /\ SameConnect(u, t)
<1> DEFINE free == t.scanning \/ t.window \/ t.master = "idle"
<1>0. t \in Gap
  BY DEF Sound
<1>u. u \in Gap
  BY <1>0, ScanNowTyped
<1>1. CASE ~free
  <2>1. u = [t EXCEPT !.window = FALSE, !.scanning = FALSE]
    BY <1>1 DEF ScanNow
  <2>2. /\ u.window = FALSE /\ u.scanning = FALSE /\ u.master = t.master
        /\ u.scanDeferred = t.scanDeferred /\ u.cancelled = t.cancelled
        /\ u.dying = t.dying /\ u.stuck = t.stuck
    BY <1>0, <2>1 DEF Gap
  <2>3. SameLink(u, t) /\ SameConnect(u, t)
    BY <1>0, <2>1 DEF SameLink, SameConnect, Gap
  <2>4. Sound(u)
    BY <1>u, <1>1, <2>2, <2>3 DEF Sound, SameLink, SameConnect
  <2> QED
    BY <2>3, <2>4
<1>2. CASE free /\ ok
  <2>1. u = [t EXCEPT !.window = FALSE, !.scanning = TRUE, !.master = "disc"]
    BY <1>2 DEF ScanNow
  <2>2. /\ u.window = FALSE /\ u.scanning = TRUE /\ u.master = "disc"
        /\ u.scanDeferred = t.scanDeferred /\ u.cancelled = t.cancelled
        /\ u.dying = t.dying /\ u.stuck = t.stuck
    BY <1>0, <2>1 DEF Gap
  <2>3. SameLink(u, t) /\ SameConnect(u, t)
    BY <1>0, <2>1 DEF SameLink, SameConnect, Gap
  <2>4. Sound(u)
    BY <1>u, <1>2, <2>2, <2>3 DEF Sound, SameLink, SameConnect
  <2> QED
    BY <2>3, <2>4
<1>3. CASE free /\ ~ok
  <2>1. u = [t EXCEPT !.window = FALSE, !.scanning = FALSE, !.master = "idle"]
    BY <1>3 DEF ScanNow
  <2>2. /\ u.window = FALSE /\ u.scanning = FALSE /\ u.master = "idle"
        /\ u.scanDeferred = t.scanDeferred /\ u.cancelled = t.cancelled
        /\ u.dying = t.dying /\ u.stuck = t.stuck
    BY <1>0, <2>1 DEF Gap
  <2>3. SameLink(u, t) /\ SameConnect(u, t)
    BY <1>0, <2>1 DEF SameLink, SameConnect, Gap
  <2>4. Sound(u)
    BY <1>u, <1>3, <2>2, <2>3 DEF Sound, SameLink, SameConnect
  <2> QED
    BY <2>3, <2>4
<1> QED
  BY <1>1, <1>2, <1>3

\* The start of a scan ends a connect, and leaves a link alone.
LEMMA StartScanDoes ==
    ASSUME NEW t, Sound(t), NEW ok \in BOOLEAN,
           NEW u, u = StartScan(t, ok)
    PROVE  Sound(u) /\ ~u.connecting /\ SameLink(u, t)
<1> DEFINE a == [t EXCEPT !.found = None]
           c == [a EXCEPT !.encrypt = FALSE]
           b == IF a.connecting THEN Disconnect(c, TRUE) ELSE a
           d == [b EXCEPT !.scanDeferred = TRUE]
<1>0. t \in Gap
  BY DEF Sound
<1>1. Sound(a) /\ SameLink(a, t) /\ a.connecting = t.connecting /\ a.scanDeferred = t.scanDeferred
      /\ a.cancelled = t.cancelled
  BY <1>0 DEF Sound, SameLink, Gap
<1> HIDE DEF a
<1>2. Sound(c) /\ SameLink(c, a) /\ SameScan(c, a) /\ c.connecting = a.connecting
  <2>1. a \in Gap
    BY <1>1 DEF Sound
  <2>2. ASSUME NEW y, y = [a EXCEPT !.encrypt = FALSE]
        PROVE  Sound(y) /\ SameLink(y, a) /\ SameScan(y, a) /\ y.connecting = a.connecting
    <3>1. y \in Gap
      BY <2>1, <2>2 DEF Gap
    <3> QED
      BY <1>1, <2>1, <2>2, <3>1 DEF Sound, SameLink, SameScan, Gap
  <2> QED
    BY <2>2
<1>3. Sound(b) /\ ~b.connecting /\ SameLink(b, t)
  <2>1. CASE ~a.connecting
    BY <1>1, <2>1
  <2>2. CASE a.connecting
    <3>1. b = Disconnect(c, TRUE)
      BY <2>2
    <3>2. Sound(b) /\ ~b.connecting /\ ~b.conn
      BY <1>2, <3>1, DisconnectDoes
    <3>3. ~c.conn
      BY <1>2, <2>2 DEF Sound
    <3>4. SameLink(b, c)
      <4>1. c \in Gap
        BY <1>2 DEF Sound
      <4> HIDE DEF c
      <4> QED
        BY <3>1, <3>3, <4>1 DEF Disconnect, SameLink, Gap
    <3> QED
      BY <1>1, <1>2, <3>2, <3>4 DEF SameLink
  <2> QED
    BY <2>1, <2>2
<1>4. b.cancelled \/ ~b.scanDeferred
  BY <1>3 DEF Sound
<1>5. u = IF b.cancelled THEN d ELSE ScanNow(b, ok)
  BY DEF StartScan, a
<1> HIDE DEF b
<1>6. CASE b.cancelled
  <2>1. b \in Gap
    BY <1>3 DEF Sound
  <2>2. Sound(d) /\ SameLink(d, b) /\ d.connecting = b.connecting
    BY <1>3, <1>6, <2>1 DEF Sound, SameLink, Gap
  <2>3. u = d
    BY <1>5, <1>6
  <2> HIDE DEF d
  <2> QED
    BY <1>3, <2>2, <2>3 DEF SameLink
<1>7. CASE ~b.cancelled
  <2>1. u = ScanNow(b, ok)
    BY <1>5, <1>7
  <2>2. Sound(u) /\ SameLink(u, b) /\ SameConnect(u, b)
    BY <1>3, <1>4, <1>7, <2>1, ScanNowDoes
  <2> QED
    BY <1>3, <2>2 DEF SameLink, SameConnect
<1> QED
  BY <1>6, <1>7

\* A connect: it runs or waits for the old link to go, to the unit that was asked
\* for, or there is none; with a link, a connect or a cancel there it does nothing.
LEMMA ConnectToDoes ==
    ASSUME NEW t, Sound(t), NEW v \in Units, NEW enc \in BOOLEAN, NEW ok \in BOOLEAN,
           NEW u, u = ConnectTo(t, v, enc, ok)
    PROVE  /\ Sound(u) /\ SameLink(u, t) /\ SameScan(u, t)
           /\ t.connecting => u = t
           /\ u.connecting /\ ~t.connecting => ~t.conn /\ Target(u) = v /\ Encrypts(u) = enc
<1> DEFINE busy == t.conn \/ t.connecting \/ t.cancelled
           free == t.window \/ t.master = "idle"
<1>0. t \in Gap
  BY DEF Sound
<1>u. u \in Gap
  BY <1>0, ConnectToTyped
<1>1. CASE busy
  <2>1. u = t
    BY <1>1 DEF ConnectTo
  <2> QED
    BY <2>1 DEF SameLink, SameScan
<1>2. CASE ~busy /\ t.dying
  <2>1. u = [t EXCEPT !.deferred = TRUE, !.deferredTo = v, !.deferredEnc = enc, !.connecting = TRUE]
    BY <1>2 DEF ConnectTo
  <2>2. /\ u.conn = t.conn /\ u.peer = t.peer /\ u.sec = t.sec /\ u.reading = t.reading
        /\ u.scanning = t.scanning /\ u.scanDeferred = t.scanDeferred /\ u.window = t.window
        /\ u.cancelled = t.cancelled /\ u.dying = t.dying /\ u.stuck = t.stuck
        /\ u.to = t.to /\ u.master = t.master
    BY <1>0, <2>1 DEF Gap
  <2>3. u.deferred /\ u.deferredTo = v /\ u.deferredEnc = enc /\ u.connecting
    BY <1>0, <2>1 DEF Gap
  <2>4. Sound(u)
    BY <1>u, <1>2, <2>2, <2>3 DEF Sound
  <2> QED
    BY <1>2, <2>2, <2>3, <2>4 DEF SameLink, SameScan, Target, Encrypts
<1>3. CASE ~busy /\ ~t.dying /\ free /\ t.peer = None /\ ok
  <2>1. u = [t EXCEPT !.window = FALSE, !.encrypt = enc, !.connecting = TRUE, !.to = v, !.master = "conn"]
    BY <1>0, <1>u, <1>3 DEF ConnectTo, Gap
  <2>2. /\ u.conn = t.conn /\ u.peer = t.peer /\ u.sec = t.sec /\ u.reading = t.reading
        /\ u.scanning = t.scanning /\ u.scanDeferred = t.scanDeferred
        /\ u.cancelled = t.cancelled /\ u.dying = t.dying /\ u.stuck = t.stuck
        /\ u.deferred = t.deferred /\ u.deferredTo = t.deferredTo
    BY <1>0, <2>1 DEF Gap
  <2>3. ~u.window /\ u.encrypt = enc /\ u.connecting /\ u.to = v /\ u.master = "conn"
    BY <1>0, <2>1 DEF Gap
  <2>4. ~t.scanning /\ ~t.deferred
    BY <1>3 DEF Sound
  <2>5. Sound(u)
    BY <1>u, <1>3, <2>2, <2>3, <2>4 DEF Sound
  <2> QED
    BY <1>3, <2>2, <2>3, <2>4, <2>5 DEF SameLink, SameScan, Target, Encrypts
<1>4. CASE ~busy /\ ~t.dying /\ ~(free /\ t.peer = None /\ ok)
  <2>1. u = [t EXCEPT !.window = FALSE, !.encrypt = enc, !.connecting = FALSE, !.to = @,
                       !.master = IF free THEN "idle" ELSE @]
    BY <1>0, <1>u, <1>4 DEF ConnectTo, Gap
  <2>2. /\ u.conn = t.conn /\ u.peer = t.peer /\ u.sec = t.sec /\ u.reading = t.reading
        /\ u.scanning = t.scanning /\ u.scanDeferred = t.scanDeferred
        /\ u.cancelled = t.cancelled /\ u.dying = t.dying /\ u.stuck = t.stuck
        /\ u.deferred = t.deferred /\ u.deferredTo = t.deferredTo /\ u.to = t.to
    BY <1>0, <2>1 DEF Gap
  <2>3. /\ ~u.window /\ ~u.connecting
        /\ u.master = IF free THEN "idle" ELSE t.master
    BY <1>0, <2>1 DEF Gap
  <2>4. Sound(u)
    BY <1>u, <1>4, <2>2, <2>3 DEF Sound
  <2> QED
    BY <1>4, <2>2, <2>3, <2>4 DEF SameLink, SameScan
<1> QED
  BY <1>1, <1>2, <1>3, <1>4

\* A scan window of the sensors.
LEMMA ScanWindowDoes ==
    ASSUME NEW t, Sound(t), NEW ok \in BOOLEAN,
           NEW u, u = ScanWindow(t, ok)
    PROVE  Sound(u) /\ SameLink(u, t) /\ SameScan(u, t) /\ SameConnect(u, t)
<1> DEFINE refused == t.scanning \/ t.connecting \/ t.cancelled \/ t.window \/ t.master # "idle" \/ ~ok
<1>0. t \in Gap
  BY DEF Sound
<1>u. u \in Gap
  BY <1>0, ScanWindowTyped
<1>1. CASE refused
  BY <1>1 DEF ScanWindow, SameLink, SameScan, SameConnect
<1>2. CASE ~refused
  <2>1. u = [t EXCEPT !.window = TRUE, !.master = "disc"]
    BY <1>2 DEF ScanWindow
  <2> QED
    BY <1>0, <1>u, <1>2, <2>1 DEF Sound, SameLink, SameScan, SameConnect, Gap
<1> QED
  BY <1>1, <1>2

-----------------------------------------------------------------------------
(* The host's events, between two calls.                                    *)

HostStep == Advert \/ WindowEnds \/ LinkMade \/ ConnectFails \/ LinkDrops \/ TermFailure
            \/ PasskeyAction \/ Encrypted \/ ProbeRefused \/ EncFails \/ RepeatPairing
            \/ ReadDone \/ UnitForgets

\* What an event says is so, and no link or connect comes or goes without one.
Reported ==
    /\ out' \in {"none", "FOUND", "CONNECTED", "CONNECT_FAIL", "DISCONNECTED",
                 "PASSKEY_REQ", "ENC_OK", "ENC_FAIL", "READ"}
    /\ out' = "CONNECTED" => g.connecting /\ g'.conn /\ ~g'.connecting
    /\ out' = "CONNECT_FAIL" => g.connecting /\ ~g'.conn /\ ~g'.connecting
    /\ out' = "DISCONNECTED" => g.conn /\ ~g'.conn /\ ~g'.connecting
    /\ out' \notin {"CONNECTED", "CONNECT_FAIL", "DISCONNECTED"} =>
         g'.conn = g.conn /\ g'.connecting = g.connecting
    /\ out' \in {"PASSKEY_REQ", "ENC_OK", "ENC_FAIL", "READ"} => g.conn
    /\ out' = "FOUND" => g.scanning
    /\ ~g.scanning /\ ~g.scanDeferred => ~g'.scanning /\ ~g'.scanDeferred
    /\ g.reading /\ out' \notin {"DISCONNECTED", "READ"} /\ g.conn => g'.reading

\* Every step of the host reports what it did.
LEMMA HostReports ==
    ASSUME RadioKnown, HostStep
    PROVE  Reported
<1> USE DEF Gap
<1>0. g.master = "disc" <=> g.scanning \/ g.window
  BY DEF RadioKnown, FlagsTrue
<1>1. /\ g \in Gap
      /\ g.master = "conn" <=> g.connecting /\ ~g.deferred
      /\ g.master = "cancel" <=> g.cancelled
      /\ ~(g.conn /\ g.dying) /\ ~(g.conn /\ g.connecting)
      /\ g.deferred => g.connecting /\ g.dying
      /\ g.cancelled => ~g.connecting
      /\ g.peer # None <=> g.conn \/ g.dying \/ g.stuck
      /\ g.master \in {"conn", "cancel"} => g.peer = None
      /\ g.scanDeferred => g.cancelled
  BY DEF RadioKnown, TypeOK, FlagsTrue, SlotKnown
<1>2. CASE Advert \/ WindowEnds \/ PasskeyAction \/ Encrypted \/ ReadDone \/ UnitForgets
  BY <1>1, <1>2 DEF Advert, WindowEnds, PasskeyAction, Encrypted, ReadDone, UnitForgets, Reported
<1>3. CASE ProbeRefused
  BY <1>1, <1>3 DEF ProbeRefused, Secure, Reported
<1>4. CASE EncFails \/ RepeatPairing
  BY <1>1, <1>4 DEF EncFails, RepeatPairing, Reported
<1>5. CASE TermFailure
  BY <1>1, <1>5 DEF TermFailure, Reported
<1>6. CASE LinkMade
  <2>1. CASE ~g.cancelled
    <3>1. g' = [[g EXCEPT !.connecting = FALSE, !.master = "idle", !.peer = g.to, !.sec = "none"]
                EXCEPT !.conn = TRUE, !.probing = FALSE, !.reading = FALSE]
      BY <1>1, <1>6, <2>1 DEF LinkMade, LinkReset
    <3>2. out' = "CONNECTED" /\ g.master \in {"conn", "cancel"}
      BY <1>6, <2>1 DEF LinkMade
    <3>3. g.connecting /\ g'.conn /\ ~g'.connecting
      BY <1>1, <2>1, <3>1, <3>2
    <3>4. g'.scanning = g.scanning /\ g'.scanDeferred = g.scanDeferred
      BY <1>1, <3>1
    <3>5. ~g.conn
      BY <1>1, <3>3
    <3> QED
      BY <3>2, <3>3, <3>4, <3>5 DEF Reported
  <2>2. CASE g.cancelled
    <3> DEFINE a == [[g EXCEPT !.connecting = FALSE, !.master = "idle", !.peer = g.to, !.sec = "none"]
                     EXCEPT !.cancelled = FALSE, !.dying = TRUE]
    <3>1. PICK ok \in BOOLEAN : g' = ScanDeferred(a, ok)
      BY <1>6, <2>2 DEF LinkMade
    <3>2. out' = "none" /\ g.master \in {"conn", "cancel"}
      BY <1>6, <2>2 DEF LinkMade
    <3>3. ~g.connecting /\ ~g.conn
      BY <1>1, <2>2, <3>2
    <3>4. /\ a.master = "idle" /\ a.conn = g.conn /\ a.connecting = FALSE
          /\ a.scanning = g.scanning /\ a.scanDeferred = g.scanDeferred /\ a.window = g.window
      BY <1>1
    <3>5. a \in Gap
      <4>1. g.to \in Units \cup {None}
        BY <1>1
      <4>2. ASSUME NEW w \in Units \cup {None}, NEW b,
                   b = [[g EXCEPT !.connecting = FALSE, !.master = "idle", !.peer = w, !.sec = "none"]
                        EXCEPT !.cancelled = FALSE, !.dying = TRUE]
            PROVE  b \in Gap
        BY <1>1, <4>2
      <4> QED
        BY <4>1, <4>2
    <3> HIDE DEF a
    <3>6. ~a.scanning /\ ~a.window
      BY <1>0, <3>2, <3>4
    <3>7. g'.conn = a.conn /\ g'.connecting = a.connecting
      BY <3>1, <3>4, <3>5, <3>6, DeferredScan
    <3>8. ~g.scanning /\ ~g.scanDeferred => ~g'.scanning /\ ~g'.scanDeferred
      BY <3>1, <3>4 DEF ScanDeferred
    <3>9. g'.conn = g.conn /\ g'.connecting = g.connecting
      BY <1>1, <3>3, <3>4, <3>7
    <3> QED
      BY <3>2, <3>3, <3>8, <3>9 DEF Reported
  <2> QED
    BY <2>1, <2>2
<1>7. CASE ConnectFails
  <2>1. CASE ~g.cancelled
    BY <1>1, <1>7, <2>1 DEF ConnectFails, Reported
  <2>2. CASE g.cancelled
    BY <1>1, <1>7, <2>2 DEF ConnectFails, ScanDeferred, ScanNow, Reported
  <2> QED
    BY <2>1, <2>2
<1>8. CASE LinkDrops
  <2>1. CASE ~g.dying
    BY <1>1, <1>8, <2>1 DEF LinkDrops, LinkReset, Reported
  <2>2. CASE g.dying /\ ~g.deferred
    BY <1>1, <1>8, <2>2 DEF LinkDrops, ConnectDeferred, Reported
  <2>3. CASE g.dying /\ g.deferred
    <3> DEFINE a == [g EXCEPT !.peer = None, !.stuck = FALSE, !.sec = "none"]
               x == [[a EXCEPT !.dying = FALSE] EXCEPT !.deferred = FALSE, !.connecting = FALSE]
               b(ok) == ConnectTo(x, g.deferredTo, g.deferredEnc, ok)
    <3>1. ASSUME NEW ok \in BOOLEAN
          PROVE  ConnectDeferred([a EXCEPT !.dying = FALSE], ok) = b(ok)
      BY <1>1, <2>3 DEF ConnectDeferred
    <3>2. PICK ok \in BOOLEAN :
             g' = b(ok) /\ out' = IF ~b(ok).connecting THEN "CONNECT_FAIL" ELSE "none"
      BY <1>8, <2>3, <3>1 DEF LinkDrops
    <3>3. ASSUME NEW y, y = x
          PROVE  Sound(y) /\ ~y.conn /\ y.scanning = g.scanning /\ y.scanDeferred = g.scanDeferred
      <4>1. /\ y.scanning = g.scanning /\ y.window = g.window /\ y.master = g.master /\ y.to = g.to
            /\ y.connecting = FALSE /\ y.cancelled = g.cancelled /\ y.scanDeferred = g.scanDeferred
            /\ y.deferred = FALSE /\ y.deferredTo = g.deferredTo /\ y.conn = g.conn
            /\ y.dying = FALSE /\ y.peer = None /\ y.stuck = FALSE
        BY <1>1, <3>3
      <4>2. y \in Gap
        BY <1>1, <3>3
      <4>3. Sound(g)
        BY SoundIsRadioKnown
      <4> HIDE DEF Gap
      <4> QED
        BY <2>3, <4>1, <4>2, <4>3 DEF Sound
    <3>4. g.deferredTo \in Units /\ g.deferredEnc \in BOOLEAN
      BY <1>1, <2>3 DEF RadioKnown, TypeOK
    <3> HIDE DEF x, Gap
    <3>5. SameLink(g', x) /\ SameScan(g', x)
      BY <3>2, <3>3, <3>4, ConnectToDoes
    <3>6. g.connecting = TRUE /\ g.conn = FALSE
      BY <1>1, <2>3 DEF Gap
    <3>7. g'.connecting \in BOOLEAN /\ g'.conn \in BOOLEAN
      BY <3>2, <3>3, <3>4, ConnectToDoes DEF Sound, Gap
    <3>8. g'.conn = FALSE
      BY <3>3, <3>5, <3>7 DEF SameLink
    <3>9. (out' = "CONNECT_FAIL" /\ ~g'.connecting) \/ (out' = "none" /\ g'.connecting = TRUE)
      BY <3>2, <3>7
    <3>10. ~g.scanning /\ ~g.scanDeferred => ~g'.scanning /\ ~g'.scanDeferred
      BY <3>3, <3>5 DEF SameScan
    <3> QED
      BY <3>6, <3>8, <3>9, <3>10 DEF Reported
  <2> QED
    BY <2>1, <2>2, <2>3
<1> QED
  BY <1>2, <1>3, <1>4, <1>5, <1>6, <1>7, <1>8 DEF HostStep

-----------------------------------------------------------------------------
(* The inductive invariant.                                                 *)

Outside == States \ Flow
NoScan == ~g.scanning /\ ~g.scanDeferred
NoLink == ~g.conn /\ ~g.connecting
Linked == (g.conn <=> sess = "up") /\ (g.connecting <=> sess = "connecting")
Next1(S) == q # <<>> /\ Head(q) \in S

OneThing ==
    /\ st \in States /\ changed \in BOOLEAN /\ sess \in {"off", "down", "connecting", "up"}
    /\ q = <<>> \/ \E e \in Events : q = <<e>>
    /\ acts \in {<<>>, <<"stop_scan", "connect">>, <<"disconnect", "start_scan">>}
                \cup {<<a>> : a \in Actions}
    /\ Routing => acts = <<>> /\ ~changed /\ q = <<>>
    /\ acts # <<>> => changed /\ q = <<>>

OutsideOwned == st \in Outside =>
    /\ acts \in {<<>>, <<"stop_scan">>, <<"disconnect">>, <<"persist_bond">>}
    /\ acts # <<"stop_scan">> => NoScan
    /\ acts = <<"stop_scan">> => NoLink
    /\ acts \in {<<"stop_scan">>, <<"disconnect">>} => sess = "off" /\ st # "bonded"
    /\ acts = <<"persist_bond">> => st = "bonded"
    /\ st = "bonded" /\ changed => sess = "off" /\ g.conn
    /\ acts = <<>> /\ ~(st = "bonded" /\ changed) =>
         /\ out = "CONNECTED" => sess = "connecting" /\ g.conn
         /\ out = "CONNECT_FAIL" => sess = "connecting" /\ NoLink
         /\ out = "DISCONNECTED" => sess = "up" /\ NoLink
         /\ out \notin {"CONNECTED", "CONNECT_FAIL", "DISCONNECTED"} => Linked

ScanningOwned == st = "scanning" =>
    /\ acts \in {<<>>, <<"start_scan">>, <<"disconnect", "start_scan">>}
    /\ acts = <<"disconnect", "start_scan">> => sess = "off"
    /\ acts = <<"start_scan">> =>
         (g.conn => sess = "up") /\ (g.connecting => sess = "connecting")
    /\ acts = <<>> => (g.conn => sess = "up") /\ ~g.connecting

ConnectingOwned == st = "connecting" =>
    /\ acts \in {<<>>, <<"connect">>, <<"stop_scan", "connect">>}
    /\ acts # <<>> => NoLink
    /\ acts # <<"stop_scan", "connect">> => NoScan
    /\ out \in {"none", "CONNECTED", "CONNECT_FAIL"}
    /\ g.conn <=> out = "CONNECTED" \/ Next1({"connected"})
    /\ acts = <<>> /\ out = "none" /\ ~Next1({"connected", "connect_fail"}) => g.connecting

PairingOwned == st \in {"pairing", "waiting_passkey", "verifying"} =>
    /\ acts \in {<<>>} \cup (IF st = "pairing" THEN {<<"pair">>, <<"send_passkey">>}
                             ELSE IF st = "verifying" THEN {<<"verify">>} ELSE {})
    /\ NoScan /\ ~g.connecting
    /\ st = "pairing" /\ acts # <<"send_passkey">> /\ out # "DISCONNECTED" /\ ~Next1({"pair_fail"}) => g.conn
    /\ st = "verifying" /\ out # "DISCONNECTED" /\ ~Next1({"verify_fail"}) => g.conn
    /\ st = "verifying" /\ acts = <<>> /\ out \notin {"DISCONNECTED", "READ"}
         /\ ~Next1({"verify_ok", "verify_fail"}) => g.reading

ResettingOwned == st = "resetting" =>
    /\ acts \in {<<>>, <<"remove_bond">>}
    /\ NoScan /\ (acts = <<>> => NoLink)

OwnInv ==
    /\ OneThing
    /\ st \in Flow /\ (~changed \/ st \notin {"scanning", "resetting"}) => sess = "off"
    /\ OutsideOwned /\ ScanningOwned /\ ConnectingOwned /\ PairingOwned /\ ResettingOwned

Verified(u) ==
    /\ bonds = <<u>> \/ (bonds = <<>> /\ u \notin keys)
    /\ g.conn => g.peer = u /\ g.sec # "typed"
    /\ g.connecting => u = IF g.deferred THEN g.deferredTo ELSE g.to

UnitInv ==
    /\ (g.conn /\ g.sec = "on") => Bonded(g.peer)
    /\ resume => st \notin Flow /\ acts = <<>> /\ ~changed /\ q = <<>>
    /\ st = "connecting" /\ g.connecting => ~(IF g.deferred THEN g.deferredEnc ELSE g.encrypt)
    /\ st = "pairing" /\ (out = "ENC_OK" \/ Next1({"pair_ok"})) => g.sec = "on"
    /\ st = "verifying" /\ g.conn => g.sec = "on"
    /\ st = "verifying" /\ Next1({"verify_ok"}) => verified = g.peer
    /\ acts = <<"persist_bond">> => g.sec = "on" /\ verified = g.peer
    /\ st = "bonded" /\ acts = <<>> => Verified(verified)
PInv == RadioKnown /\ OwnInv /\ UnitInv

-----------------------------------------------------------------------------
(* The lists of actions and events.                                         *)

\* The events and the actions are what they are, and no two lists of them agree.
LEMMA Lists ==
    /\ \A a : <<a>> # <<>> /\ Head(<<a>>) = a /\ Tail(<<a>>) = <<>> /\ Len(<<a>>) = 1
    /\ \A a, b : <<a>> = <<b>> => a = b
    /\ \A a, b : <<a, b>> # <<>> /\ Head(<<a, b>>) = a /\ Tail(<<a, b>>) = <<b>>
    /\ \A a, b, c : <<a, b>> # <<c>>
    /\ \A a, b, c, d : <<a, b>> = <<c, d>> => a = c /\ b = d
<1>1. \A a : <<a>> # <<>> /\ Head(<<a>>) = a /\ Tail(<<a>>) = <<>> /\ Len(<<a>>) = 1
  OBVIOUS
<1>2. \A a, b : <<a>> = <<b>> => a = b
  OBVIOUS
<1>3. \A a, b : <<a, b>> # <<>> /\ Head(<<a, b>>) = a /\ Tail(<<a, b>>) = <<b>>
  OBVIOUS
<1>4. \A a, b, c : <<a, b>> # <<c>>
  OBVIOUS
<1>5. \A a, b, c, d : <<a, b>> = <<c, d>> => a = c /\ b = d
  OBVIOUS
<1> QED
  BY <1>1, <1>2, <1>3, <1>4, <1>5

\* An event that finds the queue empty is the only one in it.
LEMMA FeedOne ==
    ASSUME PairingAssumption, q = <<>>, NEW e
    PROVE  Feed(e) = <<e>>
BY DEF Feed, PairingAssumption

\* What any step of the machine does.
LEMMA StepDoes ==
    ASSUME OneThing, NEW e, NEW to, NEW att, NEW err, NEW list, Step(e, to, att, err, list)
    PROVE  /\ q = <<e>> /\ q' = <<>> /\ acts = <<>> /\ acts' = list
           /\ changed = FALSE /\ changed' \in BOOLEAN /\ (to # st => changed')
           /\ out = "none" /\ st \in Accepts[e] /\ st' = to /\ UNCHANGED <<vars, sess>>
           /\ verified' = IF to = "bonded" THEN verified ELSE None
<1>1. q # <<>> /\ Head(q) = e /\ q' = Tail(q)
  BY DEF Step, Stepping
<1>2. PICK f \in Events : q = <<f>>
  BY <1>1 DEF OneThing
<1>3. f = e /\ q' = <<>>
  BY <1>1, <1>2, Lists
<1>4. changed' = (<<st', attempts', error'>> # <<st, attempts, error>>)
  BY DEF Step
<1>5. st' # st => changed'
  BY <1>4
<1>6. changed' \in BOOLEAN
  BY <1>4
<1> QED
  BY <1>2, <1>3, <1>5, <1>6 DEF Step, Stepping, Routing, OneThing

\* A failed step of the flow scans again or ends in error, and disconnects first.
LEMMA FailedDoes ==
    ASSUME OneThing, StepFailed
    PROVE  \E e \in {"pair_fail", "connect_fail"} :
             /\ q = <<e>> /\ q' = <<>> /\ acts = <<>> /\ changed = FALSE /\ changed' \in BOOLEAN
             /\ out = "none" /\ st \in Accepts[e] /\ UNCHANGED <<vars, sess>>
             /\ st' # st => changed'
             /\ \/ st' = "scanning" /\ acts' = <<"disconnect", "start_scan">>
                \/ st' = "error" /\ acts' = <<"disconnect">>
<1> DEFINE more == attempts + 1
<1>1. PICK e \in {"pair_fail", "connect_fail"} :
        \/ Step(e, "scanning", more, "none", <<"disconnect", "start_scan">>)
        \/ Step(e, "error", more, e, <<"disconnect">>)
  BY DEF StepFailed
<1> HIDE DEF more
<1>2. CASE Step(e, "scanning", more, "none", <<"disconnect", "start_scan">>)
  BY <1>2, StepDoes
<1>3. CASE Step(e, "error", more, e, <<"disconnect">>)
  <2>1. /\ q = <<e>> /\ q' = <<>> /\ acts = <<>> /\ acts' = <<"disconnect">>
        /\ changed = FALSE /\ changed' \in BOOLEAN /\ ("error" # st => changed')
        /\ out = "none" /\ st \in Accepts[e] /\ st' = "error" /\ UNCHANGED <<vars, sess>>
    BY <1>3, StepDoes, Zenon
  <2> QED
    BY <2>1
<1> QED
  BY <1>1, <1>2, <1>3

\* A step of the machine leaves the radio with its owner.
LEMMA StepKeepsOwner ==
    ASSUME RadioKnown, OwnInv, PairStep
    PROVE  OwnInv'
<1> USE DEF Accepts, States, Flow, Outside, Next1, Routing, NoScan, NoLink, Linked
<1>1. OneThing
  BY DEF OwnInv
<1>2. CASE StepCancel
  <2>1. /\ q = <<"cancel">> /\ q' = <<>> /\ acts = <<>> /\ acts' = Cleanup
        /\ changed = FALSE /\ changed' \in BOOLEAN /\ ("idle" # st => changed')
        /\ out = "none" /\ st \in Accepts["cancel"] /\ st' = "idle" /\ UNCHANGED <<vars, sess>>
    BY <1>1, <1>2, StepDoes DEF StepCancel
  <2>2. OneThing'
    BY <1>1, <2>1, Lists DEF OneThing, vars, Actions, Cleanup
  <2> QED
    BY <2>1, <2>2, Lists DEF OwnInv, OutsideOwned, ScanningOwned, ConnectingOwned, PairingOwned, ResettingOwned, vars, Cleanup
<1>3. CASE StepTimeout
  <2>1. /\ q = <<"timeout">> /\ q' = <<>> /\ acts = <<>> /\ acts' = Cleanup
        /\ changed = FALSE /\ changed' \in BOOLEAN /\ ("error" # st => changed')
        /\ out = "none" /\ st \in Accepts["timeout"] /\ st' = "error" /\ UNCHANGED <<vars, sess>>
    BY <1>1, <1>3, StepDoes DEF StepTimeout
  <2>2. OneThing'
    BY <1>1, <2>1, Lists DEF OneThing, vars, Actions, Cleanup
  <2> QED
    BY <2>1, <2>2, Lists DEF OwnInv, OutsideOwned, ScanningOwned, ConnectingOwned, PairingOwned, ResettingOwned, vars, Cleanup
<1>4. CASE StepReset
  <2>1. /\ q = <<"reset">> /\ q' = <<>> /\ acts = <<>> /\ acts' = <<"remove_bond">>
        /\ changed = FALSE /\ changed' \in BOOLEAN /\ ("resetting" # st => changed')
        /\ out = "none" /\ st \in Accepts["reset"] /\ st' = "resetting" /\ UNCHANGED <<vars, sess>>
    BY <1>1, <1>4, StepDoes DEF StepReset
  <2>2. OneThing'
    BY <1>1, <2>1, Lists DEF OneThing, vars, Actions
  <2> QED
    BY <2>1, <2>2, Lists DEF OwnInv, OutsideOwned, ScanningOwned, ConnectingOwned, PairingOwned, ResettingOwned, vars
<1>5. CASE StepStart
  <2>1. /\ q = <<"start">> /\ q' = <<>> /\ acts = <<>> /\ acts' = <<"start_scan">>
        /\ changed = FALSE /\ changed' \in BOOLEAN /\ ("scanning" # st => changed')
        /\ out = "none" /\ st \in Accepts["start"] /\ st' = "scanning" /\ UNCHANGED <<vars, sess>>
    BY <1>1, <1>5, StepDoes DEF StepStart
  <2>2. OneThing'
    BY <1>1, <2>1, Lists DEF OneThing, vars, Actions
  <2> QED
    BY <2>1, <2>2, Lists DEF OwnInv, OutsideOwned, ScanningOwned, ConnectingOwned, PairingOwned, ResettingOwned, vars
<1>6. CASE StepFound
  <2>1. /\ q = <<"found">> /\ q' = <<>> /\ acts = <<>> /\ acts' = <<"stop_scan", "connect">>
        /\ changed = FALSE /\ changed' \in BOOLEAN /\ ("connecting" # st => changed')
        /\ out = "none" /\ st \in Accepts["found"] /\ st' = "connecting" /\ UNCHANGED <<vars, sess>>
    BY <1>1, <1>6, StepDoes DEF StepFound
  <2>2. OneThing'
    BY <1>1, <2>1, Lists DEF OneThing, vars, Actions
  <2> QED
    BY <2>1, <2>2, Lists DEF OwnInv, OutsideOwned, ScanningOwned, ConnectingOwned, PairingOwned, ResettingOwned, vars
<1>7. CASE StepConnected
  <2>1. /\ q = <<"connected">> /\ q' = <<>> /\ acts = <<>> /\ acts' = <<"pair">>
        /\ changed = FALSE /\ changed' \in BOOLEAN /\ ("pairing" # st => changed')
        /\ out = "none" /\ st \in Accepts["connected"] /\ st' = "pairing" /\ UNCHANGED <<vars, sess>>
    BY <1>1, <1>7, StepDoes DEF StepConnected
  <2>2. OneThing'
    BY <1>1, <2>1, Lists DEF OneThing, vars, Actions
  <2>3. Next1({"connected"})
    BY <2>1, Lists
  <2>4. st = "connecting" /\ sess = "off" /\ g.conn /\ NoScan
    BY <2>1, <2>3, Lists DEF OwnInv, ConnectingOwned
  <2>5. ~g.connecting
    BY <2>4 DEF RadioKnown, SlotKnown
  <2>6. g' = g /\ out' = "none" /\ q' = <<>> /\ acts' = <<"pair">>
    BY <2>1 DEF vars
  <2>7. OutsideOwned' /\ ScanningOwned' /\ ConnectingOwned' /\ ResettingOwned'
    BY <2>1 DEF OutsideOwned, ScanningOwned, ConnectingOwned, ResettingOwned
  <2>8. PairingOwned'
    BY <2>1, <2>4, <2>5, <2>6 DEF PairingOwned
  <2> QED
    BY <2>1, <2>2, <2>4, <2>7, <2>8 DEF OwnInv
<1>8. CASE StepAsked
  <2>1. /\ q = <<"passkey_requested">> /\ q' = <<>> /\ acts = <<>> /\ acts' = <<>>
        /\ changed = FALSE /\ changed' \in BOOLEAN /\ ("waiting_passkey" # st => changed')
        /\ out = "none" /\ st \in Accepts["passkey_requested"] /\ st' = "waiting_passkey" /\ UNCHANGED <<vars, sess>>
    BY <1>1, <1>8, StepDoes DEF StepAsked
  <2>2. OneThing'
    BY <1>1, <2>1, Lists DEF OneThing, vars, Actions
  <2> QED
    BY <2>1, <2>2, Lists DEF OwnInv, OutsideOwned, ScanningOwned, ConnectingOwned, PairingOwned, ResettingOwned, vars
<1>9. CASE StepEntered
  <2>1. /\ q = <<"passkey_entered">> /\ q' = <<>> /\ acts = <<>> /\ acts' = <<"send_passkey">>
        /\ changed = FALSE /\ changed' \in BOOLEAN /\ ("pairing" # st => changed')
        /\ out = "none" /\ st \in Accepts["passkey_entered"] /\ st' = "pairing" /\ UNCHANGED <<vars, sess>>
    BY <1>1, <1>9, StepDoes DEF StepEntered
  <2>2. OneThing'
    BY <1>1, <2>1, Lists DEF OneThing, vars, Actions
  <2> QED
    BY <2>1, <2>2, Lists DEF OwnInv, OutsideOwned, ScanningOwned, ConnectingOwned, PairingOwned, ResettingOwned, vars
<1>10. CASE StepPaired
  <2>1. /\ q = <<"pair_ok">> /\ q' = <<>> /\ acts = <<>> /\ acts' = <<"verify">>
        /\ changed = FALSE /\ changed' \in BOOLEAN /\ ("verifying" # st => changed')
        /\ out = "none" /\ st \in Accepts["pair_ok"] /\ st' = "verifying" /\ UNCHANGED <<vars, sess>>
    BY <1>1, <1>10, StepDoes DEF StepPaired
  <2>2. OneThing'
    BY <1>1, <2>1, Lists DEF OneThing, vars, Actions
  <2> QED
    BY <2>1, <2>2, Lists DEF OwnInv, OutsideOwned, ScanningOwned, ConnectingOwned, PairingOwned, ResettingOwned, vars
<1>11. CASE StepVerified
  <2>1. /\ q = <<"verify_ok">> /\ q' = <<>> /\ acts = <<>> /\ acts' = <<"persist_bond">>
        /\ changed = FALSE /\ changed' \in BOOLEAN /\ ("bonded" # st => changed')
        /\ out = "none" /\ st \in Accepts["verify_ok"] /\ st' = "bonded" /\ UNCHANGED <<vars, sess>>
    BY <1>1, <1>11, StepDoes DEF StepVerified
  <2>2. OneThing'
    BY <1>1, <2>1, Lists DEF OneThing, vars, Actions
  <2> QED
    BY <2>1, <2>2, Lists DEF OwnInv, OutsideOwned, ScanningOwned, ConnectingOwned, PairingOwned, ResettingOwned, vars
<1>12. CASE StepUnverified
  <2>1. /\ q = <<"verify_fail">> /\ q' = <<>> /\ acts = <<>> /\ acts' = <<"disconnect">>
        /\ changed = FALSE /\ changed' \in BOOLEAN /\ ("error" # st => changed')
        /\ out = "none" /\ st \in Accepts["verify_fail"] /\ st' = "error" /\ UNCHANGED <<vars, sess>>
    BY <1>1, <1>12, StepDoes DEF StepUnverified
  <2>2. OneThing'
    BY <1>1, <2>1, Lists DEF OneThing, vars, Actions
  <2> QED
    BY <2>1, <2>2, Lists DEF OwnInv, OutsideOwned, ScanningOwned, ConnectingOwned, PairingOwned, ResettingOwned, vars
<1>13. CASE StepResetDone
  <2>1. /\ q = <<"reset_done">> /\ q' = <<>> /\ acts = <<>> /\ acts' = <<>>
        /\ changed = FALSE /\ changed' \in BOOLEAN /\ ("idle" # st => changed')
        /\ out = "none" /\ st \in Accepts["reset_done"] /\ st' = "idle" /\ UNCHANGED <<vars, sess>>
    BY <1>1, <1>13, StepDoes DEF StepResetDone
  <2>2. OneThing'
    BY <1>1, <2>1, Lists DEF OneThing, vars, Actions
  <2> QED
    BY <2>1, <2>2, Lists DEF OwnInv, OutsideOwned, ScanningOwned, ConnectingOwned, PairingOwned, ResettingOwned, vars
<1>14. CASE StepFailed
  <2>1. PICK e \in {"pair_fail", "connect_fail"} :
           /\ q = <<e>> /\ q' = <<>> /\ acts = <<>> /\ changed = FALSE /\ changed' \in BOOLEAN
           /\ out = "none" /\ st \in Accepts[e] /\ UNCHANGED <<vars, sess>>
           /\ st' # st => changed'
           /\ \/ st' = "scanning" /\ acts' = <<"disconnect", "start_scan">>
              \/ st' = "error" /\ acts' = <<"disconnect">>
    BY <1>1, <1>14, FailedDoes
  <2>2. (e = "pair_fail" => st = "pairing") /\ (e = "connect_fail" => st = "connecting")
    BY <2>1
  <2>3. OneThing'
    BY <1>1, <2>1, <2>2, Lists DEF OneThing, vars, Actions
  <2> QED
    BY <2>1, <2>2, <2>3, Lists DEF OwnInv, OutsideOwned, ScanningOwned, ConnectingOwned, PairingOwned, ResettingOwned, vars
<1>15. CASE StepIgnored
  <2>1. PICK e \in Events : q = <<e>>
    BY <1>1, <1>15 DEF StepIgnored, Stepping, OneThing
  <2>2. /\ q' = <<>> /\ acts = <<>> /\ changed = FALSE /\ out = "none" /\ st \notin Accepts[e]
        /\ UNCHANGED <<vars, machine, acts, changed, sess>>
    BY <1>1, <1>15, <2>1, Lists DEF StepIgnored, Stepping, OneThing
  <2>3. OneThing'
    BY <1>1, <2>2, Lists DEF OneThing, vars, machine
  <2> QED
    BY <2>1, <2>2, <2>3, Lists DEF OwnInv, OutsideOwned, ScanningOwned, ConnectingOwned, PairingOwned, ResettingOwned, vars, machine
<1> QED
  BY <1>2, <1>3, <1>4, <1>5, <1>6, <1>7, <1>8, <1>9, <1>10, <1>11, <1>12, <1>13, <1>14, <1>15 DEF PairStep

\* A step of the machine says nothing of the link that is not so.
LEMMA StepKeepsUnit ==
    ASSUME OwnInv, OwnInv', UnitInv, PairStep
    PROVE  UnitInv'
<1> USE DEF Next1
<1>1. OneThing
  BY DEF OwnInv
<1> DEFINE Plain == /\ q # <<>> /\ q' = <<>> /\ out = "none" /\ UNCHANGED <<vars, sess>>
                    /\ acts' # <<"persist_bond">> /\ st' \notin {"verifying", "bonded"}
                    /\ acts' = <<>> => st' # "connecting"
<1>2. ASSUME StepCancel PROVE Plain
  <2>1. /\ q = <<"cancel">> /\ q' = <<>> /\ acts' = Cleanup /\ out = "none" /\ st' = "idle" /\ UNCHANGED <<vars, sess>>
    BY <1>1, <1>2, StepDoes DEF StepCancel
  <2> QED
    BY <2>1, Lists DEF Cleanup
<1>3. ASSUME StepTimeout PROVE Plain
  <2>1. /\ q = <<"timeout">> /\ q' = <<>> /\ acts' = Cleanup /\ out = "none" /\ st' = "error" /\ UNCHANGED <<vars, sess>>
    BY <1>1, <1>3, StepDoes DEF StepTimeout
  <2> QED
    BY <2>1, Lists DEF Cleanup
<1>4. ASSUME StepReset PROVE Plain
  <2>1. /\ q = <<"reset">> /\ q' = <<>> /\ acts' = <<"remove_bond">> /\ out = "none" /\ st' = "resetting" /\ UNCHANGED <<vars, sess>>
    BY <1>1, <1>4, StepDoes DEF StepReset
  <2> QED
    BY <2>1, Lists
<1>5. ASSUME StepStart PROVE Plain
  <2>1. /\ q = <<"start">> /\ q' = <<>> /\ acts' = <<"start_scan">> /\ out = "none" /\ st' = "scanning" /\ UNCHANGED <<vars, sess>>
    BY <1>1, <1>5, StepDoes DEF StepStart
  <2> QED
    BY <2>1, Lists
<1>6. ASSUME StepFound PROVE Plain
  <2>1. /\ q = <<"found">> /\ q' = <<>> /\ acts' = <<"stop_scan", "connect">> /\ out = "none" /\ st' = "connecting" /\ UNCHANGED <<vars, sess>>
    BY <1>1, <1>6, StepDoes DEF StepFound
  <2> QED
    BY <2>1, Lists
<1>7. ASSUME StepConnected PROVE Plain
  <2>1. /\ q = <<"connected">> /\ q' = <<>> /\ acts' = <<"pair">> /\ out = "none" /\ st' = "pairing" /\ UNCHANGED <<vars, sess>>
    BY <1>1, <1>7, StepDoes DEF StepConnected
  <2> QED
    BY <2>1, Lists
<1>8. ASSUME StepAsked PROVE Plain
  <2>1. /\ q = <<"passkey_requested">> /\ q' = <<>> /\ acts' = <<>> /\ out = "none" /\ st' = "waiting_passkey" /\ UNCHANGED <<vars, sess>>
    BY <1>1, <1>8, StepDoes DEF StepAsked
  <2> QED
    BY <2>1, Lists
<1>9. ASSUME StepEntered PROVE Plain
  <2>1. /\ q = <<"passkey_entered">> /\ q' = <<>> /\ acts' = <<"send_passkey">> /\ out = "none" /\ st' = "pairing" /\ UNCHANGED <<vars, sess>>
    BY <1>1, <1>9, StepDoes DEF StepEntered
  <2> QED
    BY <2>1, Lists
<1>10. ASSUME StepUnverified PROVE Plain
  <2>1. /\ q = <<"verify_fail">> /\ q' = <<>> /\ acts' = <<"disconnect">> /\ out = "none" /\ st' = "error" /\ UNCHANGED <<vars, sess>>
    BY <1>1, <1>10, StepDoes DEF StepUnverified
  <2> QED
    BY <2>1, Lists
<1>11. ASSUME StepResetDone PROVE Plain
  <2>1. /\ q = <<"reset_done">> /\ q' = <<>> /\ acts' = <<>> /\ out = "none" /\ st' = "idle" /\ UNCHANGED <<vars, sess>>
    BY <1>1, <1>11, StepDoes DEF StepResetDone
  <2> QED
    BY <2>1, Lists
<1>12. ASSUME StepFailed PROVE Plain
  <2>1. PICK e \in {"pair_fail", "connect_fail"} :
           /\ q = <<e>> /\ q' = <<>> /\ out = "none" /\ UNCHANGED <<vars, sess>>
           /\ \/ st' = "scanning" /\ acts' = <<"disconnect", "start_scan">>
              \/ st' = "error" /\ acts' = <<"disconnect">>
    BY <1>1, <1>12, FailedDoes
  <2> QED
    BY <2>1, Lists
<1>13. CASE Plain
  <2>1. g' = g /\ bonds' = bonds /\ keys' = keys /\ out' = "none" /\ ~resume'
    BY <1>13 DEF vars, UnitInv
  <2>2. st' = "connecting" => ~g'.connecting
    BY <1>13 DEF OwnInv, ConnectingOwned, NoLink
  <2> QED
    BY <1>13, <2>1, <2>2 DEF UnitInv, Bonded, Verified
<1>14. CASE StepPaired
  <2>1. /\ q = <<"pair_ok">> /\ q' = <<>> /\ acts' = <<"verify">> /\ out = "none"
        /\ st \in Accepts["pair_ok"] /\ st' = "verifying" /\ UNCHANGED <<vars, sess>>
    BY <1>1, <1>14, StepDoes DEF StepPaired
  <2>2. g' = g /\ bonds' = bonds /\ keys' = keys /\ out' = "none" /\ ~resume'
    BY <2>1, Lists DEF vars, UnitInv
  <2>3. g.sec = "on"
    BY <2>1, Lists DEF UnitInv, Accepts
  <2> QED
    BY <2>1, <2>2, <2>3, Lists DEF UnitInv, Bonded
<1>15. CASE StepVerified
  <2>1. /\ q = <<"verify_ok">> /\ q' = <<>> /\ acts = <<>> /\ acts' = <<"persist_bond">> /\ out = "none"
        /\ st \in Accepts["verify_ok"] /\ st' = "bonded" /\ UNCHANGED <<vars, sess>> /\ verified' = verified
    <3>1. Step("verify_ok", "bonded", attempts, "none", <<"persist_bond">>)
      BY <1>15 DEF StepVerified
    <3>2. verified' = verified
      BY <3>1 DEF Step
    <3> QED
      BY <1>1, <3>1, <3>2, StepDoes
  <2>2. g' = g /\ bonds' = bonds /\ keys' = keys /\ out' = "none" /\ ~resume'
    BY <2>1, Lists DEF vars, UnitInv
  <2>3. st = "verifying" /\ Next1({"verify_ok"}) /\ ~Next1({"verify_fail"})
    BY <2>1, Lists DEF Accepts
  <2>4. g.conn
    BY <2>1, <2>3 DEF OwnInv, PairingOwned
  <2>5. g.sec = "on" /\ verified = g.peer
    BY <2>3, <2>4 DEF UnitInv
  <2> QED
    BY <2>1, <2>2, <2>5, Lists DEF UnitInv, Bonded
<1>16. CASE StepIgnored
  <2>1. PICK e \in Events : q = <<e>>
    BY <1>1, <1>16 DEF StepIgnored, Stepping, OneThing
  <2>2. q' = <<>> /\ out = "none" /\ UNCHANGED <<vars, machine, acts, changed, sess, verified>>
    BY <1>1, <1>16, <2>1, Lists DEF StepIgnored, Stepping, OneThing, Routing
  <2>3. /\ g' = g /\ bonds' = bonds /\ keys' = keys /\ out' = "none" /\ ~resume' /\ st' = st
        /\ acts' = acts /\ verified' = verified
    BY <2>1, <2>2, Lists DEF vars, machine, UnitInv
  <2> QED
    BY <2>2, <2>3 DEF UnitInv, Bonded, Verified
<1> QED
  BY <1>2, <1>3, <1>4, <1>5, <1>6, <1>7, <1>8, <1>9, <1>10, <1>11, <1>12, <1>13, <1>14, <1>15, <1>16 DEF PairStep

-----------------------------------------------------------------------------
(* The actions of a step.                                                   *)

\* The transport's state after a step that leaves its functions' guarantees.
LEMMA SoundNext ==
    ASSUME Sound(g'), bonds' \in Seq(Units), keys' \subseteq Units, resume' \in BOOLEAN,
           out' \in {"none", "FOUND", "CONNECTED", "CONNECT_FAIL", "DISCONNECTED",
                     "PASSKEY_REQ", "ENC_OK", "ENC_FAIL", "READ"}
    PROVE  RadioKnown'
BY DEF RadioKnown, TypeOK, FlagsTrue, SlotKnown, Sound

\* What an action of a step finds, and what it leaves.
Ran(a) ==
    /\ out = "none" /\ q = <<>> /\ changed /\ resume = FALSE
    /\ \/ acts = <<a>> /\ acts' = <<>>
       \/ a = "stop_scan" /\ acts = <<"stop_scan", "connect">> /\ acts' = <<"connect">>
       \/ a = "disconnect" /\ acts = <<"disconnect", "start_scan">> /\ acts' = <<"start_scan">>
    /\ resume' = resume /\ keys' = keys /\ changed' = changed /\ sess' = sess
    /\ verified' = verified /\ st' = st

\* Every action of the runner does what it stands for.
LEMMA RunDoes ==
    ASSUME RadioKnown, OwnInv, UnitInv, NEW a, Running(a)
    PROVE  Ran(a)
<1>1. OneThing /\ out = "none" /\ acts # <<>> /\ Head(acts) = a /\ acts' = Tail(acts)
  BY DEF OwnInv, Running, Routing
<1>2. q = <<>> /\ changed
  BY <1>1 DEF OneThing
<1>3. resume = FALSE
  <2>1. resume \in BOOLEAN
    BY DEF RadioKnown, TypeOK
  <2> QED
    BY <1>1, <2>1 DEF UnitInv
<1>4. \/ acts = <<a>> /\ acts' = <<>>
      \/ a = "stop_scan" /\ acts = <<"stop_scan", "connect">> /\ acts' = <<"connect">>
      \/ a = "disconnect" /\ acts = <<"disconnect", "start_scan">> /\ acts' = <<"start_scan">>
  <2>1. CASE acts = <<"stop_scan", "connect">>
    BY <1>1, <2>1, Lists
  <2>2. CASE acts = <<"disconnect", "start_scan">>
    BY <1>1, <2>2, Lists
  <2>3. CASE \E b \in Actions : acts = <<b>>
    BY <1>1, <2>3, Lists
  <2> QED
    BY <1>1, <2>1, <2>2, <2>3 DEF OneThing
<1> QED
  BY <1>1, <1>2, <1>3, <1>4 DEF Running, machine, Ran

\* An action leaves one event at most and its own state.
LEMMA RunOne ==
    ASSUME RadioKnown, OwnInv, UnitInv, NEW a, Running(a), out' = "none",
           q' = <<>> \/ \E e \in Events : acts' = <<>> /\ q' = <<e>>
    PROVE  OneThing'
<1>1. /\ out = "none" /\ q = <<>> /\ changed /\ changed' = changed /\ sess' = sess /\ st' = st
      /\ acts' \in {<<>>, <<"connect">>, <<"start_scan">>}
  BY RunDoes DEF Ran
<1> QED
  BY <1>1, Lists DEF OwnInv, OneThing, Routing, Actions

\* Running "start_scan" keeps the invariant.
LEMMA StartScanKeeps ==
    ASSUME PInv, RunStartScan
    PROVE  PInv'
<1> USE DEF NoScan, NoLink, Linked, Next1, Outside, States, Flow
<1>1. RadioKnown /\ OwnInv /\ UnitInv /\ Running("start_scan")
  BY DEF PInv, RunStartScan
<1>2. /\ out = "none" /\ q = <<>> /\ acts = <<"start_scan">> /\ acts' = <<>> /\ resume' = FALSE
      /\ keys' = keys /\ changed' = changed /\ sess' = sess /\ verified' = verified /\ st' = st
      /\ changed /\ resume = FALSE
  <2>1. Ran("start_scan")
    BY <1>1, RunDoes, Zenon
  <2> QED
    BY <2>1 DEF Ran
<1>3. bonds' = bonds /\ out' = "none" /\ q' = <<>>
  BY <1>2 DEF RunStartScan
<1>4. PICK ok \in BOOLEAN : g' = StartScan(g, ok)
  BY DEF RunStartScan
<1>5. Sound(g) /\ bonds \in Seq(Units) /\ keys \subseteq Units
  BY <1>1, SoundIsRadioKnown
<1>6. Sound(g') /\ ~g'.connecting /\ SameLink(g', g)
  BY <1>4, <1>5, StartScanDoes
<1>7. RadioKnown'
  BY <1>2, <1>3, <1>5, <1>6, SoundNext
<1>8. st = "scanning" /\ (g.conn => sess = "up")
  BY <1>1, <1>2, Lists DEF OwnInv, OneThing, OutsideOwned, ScanningOwned, ConnectingOwned, PairingOwned, ResettingOwned
<1>9. OneThing'
  BY <1>1, <1>3, RunOne
<1>10. OwnInv'
  BY <1>1, <1>2, <1>3, <1>6, <1>8, <1>9 DEF OwnInv, OutsideOwned, ScanningOwned, ConnectingOwned, PairingOwned, ResettingOwned, SameLink
<1>11. UnitInv'
  BY <1>1, <1>2, <1>3, <1>6, <1>8, Lists DEF UnitInv, SameLink, Bonded
<1> QED
  BY <1>7, <1>10, <1>11 DEF PInv

\* Running "stop_scan" keeps the invariant.
LEMMA StopScanKeeps ==
    ASSUME PInv, RunStopScan
    PROVE  PInv'
<1> USE DEF NoScan, NoLink, Linked, Next1, Outside, States, Flow
<1>1. RadioKnown /\ OwnInv /\ UnitInv /\ Running("stop_scan")
  BY DEF PInv, RunStopScan
<1>2. /\ out = "none" /\ q = <<>> /\ resume' = FALSE
      /\ keys' = keys /\ changed' = changed /\ sess' = sess /\ verified' = verified /\ st' = st
      /\ changed /\ resume = FALSE
      /\ \/ acts = <<"stop_scan">> /\ acts' = <<>>
         \/ acts = <<"stop_scan", "connect">> /\ acts' = <<"connect">>
  <2>1. Ran("stop_scan")
    BY <1>1, RunDoes, Zenon
  <2> QED
    BY <2>1 DEF Ran
<1>3. bonds' = bonds /\ out' = "none" /\ q' = <<>> /\ g' = StopScan(g)
  BY <1>2 DEF RunStopScan
<1>5. Sound(g) /\ bonds \in Seq(Units) /\ keys \subseteq Units
  BY <1>1, SoundIsRadioKnown
<1>6. Sound(g') /\ ~g'.scanning /\ ~g'.scanDeferred /\ SameLink(g', g) /\ SameConnect(g', g)
  BY <1>3, <1>5, StopScanDoes
<1>7. RadioKnown'
  BY <1>2, <1>3, <1>5, <1>6, SoundNext
<1>8. OneThing'
  BY <1>1, <1>3, RunOne
<1>9. CASE acts = <<"stop_scan">> /\ acts' = <<>>
  <2>1. st \in Outside /\ sess = "off" /\ st # "bonded" /\ ~g.conn /\ ~g.connecting
    BY <1>1, <1>9, Lists DEF OwnInv, OneThing, OutsideOwned, ScanningOwned, ConnectingOwned, PairingOwned, ResettingOwned
  <2>2. ~g'.conn /\ ~g'.connecting
    BY <1>6, <2>1 DEF SameLink, SameConnect
  <2>3. OwnInv'
    BY <1>1, <1>2, <1>3, <1>6, <1>8, <1>9, <2>1, <2>2 DEF OwnInv, OutsideOwned, ScanningOwned, ConnectingOwned, PairingOwned, ResettingOwned
  <2>4. UnitInv'
    BY <1>2, <1>3, <1>9, <2>1, <2>2, Lists DEF UnitInv
  <2> QED
    BY <1>7, <2>3, <2>4 DEF PInv
<1>10. CASE acts = <<"stop_scan", "connect">> /\ acts' = <<"connect">>
  <2>1. st = "connecting" /\ ~g.conn /\ ~g.connecting
    BY <1>1, <1>10, Lists DEF OwnInv, OneThing, OutsideOwned, ScanningOwned, ConnectingOwned, PairingOwned, ResettingOwned
  <2>2. ~g'.conn /\ ~g'.connecting
    BY <1>6, <2>1 DEF SameLink, SameConnect
  <2>3. OwnInv'
    BY <1>1, <1>2, <1>3, <1>6, <1>8, <1>10, <2>1, <2>2, Lists DEF OwnInv, OutsideOwned, ScanningOwned, ConnectingOwned, PairingOwned, ResettingOwned
  <2>4. UnitInv'
    BY <1>2, <1>3, <1>10, <2>1, <2>2, Lists DEF UnitInv
  <2> QED
    BY <1>7, <2>3, <2>4 DEF PInv
<1> QED
  BY <1>2, <1>9, <1>10

\* Running "connect" keeps the invariant.
LEMMA ConnectKeeps ==
    ASSUME PairingAssumption, PInv, RunConnect
    PROVE  PInv'
<1> USE DEF NoScan, NoLink, Linked, Next1, Outside, States, Flow
<1>1. RadioKnown /\ OwnInv /\ UnitInv /\ Running("connect")
  BY DEF PInv, RunConnect
<1>2. /\ out = "none" /\ q = <<>> /\ acts = <<"connect">> /\ acts' = <<>> /\ resume' = FALSE
      /\ keys' = keys /\ changed' = changed /\ sess' = sess /\ verified' = verified /\ st' = st
      /\ changed /\ resume = FALSE
  <2>1. Ran("connect")
    BY <1>1, RunDoes, Zenon
  <2> QED
    BY <2>1 DEF Ran
<1>3. bonds' = bonds /\ out' = "none"
  BY <1>2 DEF RunConnect
<1>4. PICK ok \in BOOLEAN :
        /\ g' = IF g.found = None THEN g ELSE ConnectTo(g, g.found, FALSE, ok)
        /\ q' = IF g'.connecting /\ ~g.connecting THEN q ELSE Feed("connect_fail")
  BY DEF RunConnect
<1>5. Sound(g) /\ bonds \in Seq(Units) /\ keys \subseteq Units
  BY <1>1, SoundIsRadioKnown
<1>6. st = "connecting" /\ ~g.conn /\ ~g.connecting /\ ~g.scanning /\ ~g.scanDeferred
  BY <1>1, <1>2, Lists DEF OwnInv, OneThing, OutsideOwned, ScanningOwned, ConnectingOwned, PairingOwned, ResettingOwned
<1>7. /\ Sound(g') /\ SameLink(g', g) /\ SameScan(g', g)
      /\ g'.connecting => ~Encrypts(g')
  <2>1. CASE g.found = None
    BY <1>4, <1>5, <1>6, <2>1 DEF SameLink, SameScan
  <2>2. CASE g.found # None
    <3>1. g' = ConnectTo(g, g.found, FALSE, ok) /\ g.found \in Units
      BY <1>4, <1>5, <2>2 DEF Sound, Gap
    <3>2. /\ Sound(g') /\ SameLink(g', g) /\ SameScan(g', g)
          /\ g'.connecting /\ ~g.connecting => Encrypts(g') = FALSE
      BY <1>4, <1>5, <3>1, ConnectToDoes
    <3> QED
      BY <1>6, <3>2
  <2> QED
    BY <2>1, <2>2
<1>8. q' = IF g'.connecting THEN <<>> ELSE <<"connect_fail">>
  BY <1>2, <1>4, <1>6, FeedOne
<1>9. RadioKnown'
  BY <1>2, <1>3, <1>5, <1>7, SoundNext
<1>10. "connect_fail" \in Events
  BY DEF Events, Accepts
<1>11. OneThing'
  BY <1>1, <1>2, <1>3, <1>8, <1>10, RunOne
<1>12. ~g'.conn /\ ~g'.scanning /\ ~g'.scanDeferred
  BY <1>6, <1>7 DEF SameLink, SameScan
<1>13. q' # <<>> => Head(q') = "connect_fail"
  BY <1>8, Lists
<1>14. ~g'.connecting => q' # <<>>
  BY <1>8, Lists
<1>15. OwnInv'
  BY <1>1, <1>2, <1>3, <1>6, <1>11, <1>12, <1>13, <1>14 DEF OwnInv, OutsideOwned, ScanningOwned, ConnectingOwned, PairingOwned, ResettingOwned
<1>16. UnitInv'
  BY <1>2, <1>3, <1>6, <1>7, <1>12, Lists DEF UnitInv, Encrypts
<1> QED
  BY <1>9, <1>15, <1>16 DEF PInv

\* A security procedure: the radio is left alone, the link is not yet secure.
LEMMA PairDoes ==
    ASSUME NEW t, Sound(t), NEW stored \in BOOLEAN,
           NEW u, u = Pair(t, stored)
    PROVE  /\ Sound(u) /\ SameScan(u, t) /\ u.conn = t.conn /\ u.peer = t.peer
           /\ u.connecting = t.connecting /\ u.sec # "on"
<1>0. t \in Gap
  BY DEF Sound
<1>1. u \in Gap /\ SameRadio(u, t)
  BY <1>0, PairTyped, SecureAlone
<1>2. u.sec # "on"
  BY <1>0, <1>1 DEF Pair, Secure, Gap
<1> QED
  BY <1>1, <1>2 DEF Sound, SameScan, SameRadio

\* Running "pair" keeps the invariant.
LEMMA PairKeeps ==
    ASSUME PairingAssumption, PInv, RunPair
    PROVE  PInv'
<1> USE DEF NoScan, NoLink, Linked, Next1, Outside, States, Flow
<1>1. RadioKnown /\ OwnInv /\ UnitInv /\ Running("pair")
  BY DEF PInv, RunPair
<1>2. /\ out = "none" /\ q = <<>> /\ acts = <<"pair">> /\ acts' = <<>> /\ resume' = FALSE
      /\ keys' = keys /\ changed' = changed /\ sess' = sess /\ verified' = verified /\ st' = st
      /\ changed /\ resume = FALSE
  <2>1. Ran("pair")
    BY <1>1, RunDoes, Zenon
  <2> QED
    BY <2>1 DEF Ran
<1>3. bonds' = bonds /\ out' = "none"
  BY <1>2 DEF RunPair
<1>5. Sound(g) /\ bonds \in Seq(Units) /\ keys \subseteq Units
  BY <1>1, SoundIsRadioKnown
<1>6. st = "pairing" /\ g.conn /\ ~g.connecting /\ ~g.scanning /\ ~g.scanDeferred
  <2>1. st = "pairing"
    BY <1>1, <1>2, Lists DEF OwnInv, OneThing, OutsideOwned, ScanningOwned, ConnectingOwned, PairingOwned, ResettingOwned
  <2> QED
    BY <1>1, <1>2, <2>1, Lists DEF OwnInv, PairingOwned
<1>7. PICK ok \in BOOLEAN :
        /\ g' = IF ok THEN Pair(g, Bonded(g.peer)) ELSE IF g.conn THEN [g EXCEPT !.probing = FALSE] ELSE g
        /\ q' = IF ok THEN q ELSE Feed("pair_fail")
  BY DEF RunPair
<1>8. /\ Sound(g') /\ SameScan(g', g) /\ g'.conn = g.conn /\ g'.peer = g.peer
      /\ g'.connecting = g.connecting /\ (g'.sec = "on" => g.sec = "on")
  <2>1. CASE ok
    <3>1. Bonded(g.peer) \in BOOLEAN
      BY DEF Bonded
    <3>2. g' = Pair(g, Bonded(g.peer))
      BY <1>7, <2>1
    <3> QED
      BY <1>5, <3>1, <3>2, PairDoes
  <2>2. CASE ~ok
    <3>1. g' = [g EXCEPT !.probing = FALSE]
      BY <1>6, <1>7, <2>2
    <3> QED
      BY <1>5, <3>1 DEF Sound, SameScan, Gap
  <2> QED
    BY <2>1, <2>2
<1>9. q' = IF ok THEN <<>> ELSE <<"pair_fail">>
  BY <1>2, <1>7, FeedOne
<1>10. RadioKnown'
  BY <1>2, <1>3, <1>5, <1>8, SoundNext
<1>11. "pair_fail" \in Events
  BY DEF Events, Accepts
<1>12. OneThing'
  BY <1>1, <1>2, <1>3, <1>9, <1>11, RunOne
<1>13. q' # <<>> => Head(q') = "pair_fail"
  BY <1>9, Lists
<1>14. ~g'.scanning /\ ~g'.scanDeferred /\ ~g'.connecting /\ g'.conn
  BY <1>6, <1>8 DEF SameScan
<1>15. OwnInv'
  BY <1>1, <1>2, <1>3, <1>6, <1>12, <1>13, <1>14 DEF OwnInv, OutsideOwned, ScanningOwned, ConnectingOwned, PairingOwned, ResettingOwned
<1>16. UnitInv'
  BY <1>1, <1>2, <1>3, <1>6, <1>8, <1>13, <1>14, Lists DEF UnitInv, Bonded
<1> QED
  BY <1>10, <1>15, <1>16 DEF PInv

\* Running "send_passkey" keeps the invariant.
LEMMA SendPasskeyKeeps ==
    ASSUME PairingAssumption, PInv, RunSendPasskey
    PROVE  PInv'
<1> USE DEF NoScan, NoLink, Linked, Next1, Outside, States, Flow
<1>1. RadioKnown /\ OwnInv /\ UnitInv /\ Running("send_passkey")
  BY DEF PInv, RunSendPasskey
<1>2. /\ out = "none" /\ q = <<>> /\ acts = <<"send_passkey">> /\ acts' = <<>> /\ resume' = FALSE
      /\ keys' = keys /\ changed' = changed /\ sess' = sess /\ verified' = verified /\ st' = st
      /\ changed /\ resume = FALSE
  <2>1. Ran("send_passkey")
    BY <1>1, RunDoes, Zenon
  <2> QED
    BY <2>1 DEF Ran
<1>3. Sound(g) /\ bonds \in Seq(Units) /\ keys \subseteq Units
  BY <1>1, SoundIsRadioKnown
<1>4. bonds' = bonds /\ out' = "none"
  BY <1>2 DEF RunSendPasskey
<1>5. st = "pairing" /\ ~g.connecting /\ ~g.scanning /\ ~g.scanDeferred
  <2>1. st = "pairing"
    BY <1>1, <1>2, Lists DEF OneThing, OwnInv, OutsideOwned, ScanningOwned, ConnectingOwned, PairingOwned, ResettingOwned
  <2> QED
    BY <1>1, <1>2, <2>1, Lists DEF OwnInv, PairingOwned
<1>6. CASE g.conn /\ g.sec = "asked"
  <2>1. g' = [g EXCEPT !.sec = "typed"] /\ q' = <<>>
    BY <1>2, <1>6 DEF RunSendPasskey
  <2>2. Sound(g') /\ SameScan(g', g) /\ g'.conn /\ g'.peer = g.peer /\ ~g'.connecting /\ g'.sec = "typed"
    BY <1>3, <1>5, <1>6, <2>1 DEF Sound, SameScan, Gap
  <2>3. RadioKnown'
    BY <1>2, <1>3, <1>4, <2>2, SoundNext
  <2>4. OneThing'
    BY <1>1, <1>4, <2>1, RunOne
  <2>5. OwnInv'
    BY <1>1, <1>2, <1>4, <1>5, <2>1, <2>2, <2>4 DEF SameScan, OwnInv, OutsideOwned, ScanningOwned, ConnectingOwned, PairingOwned, ResettingOwned
  <2>6. UnitInv'
    BY <1>2, <1>4, <1>5, <2>1, <2>2, Lists DEF UnitInv
  <2> QED
    BY <2>3, <2>5, <2>6 DEF PInv
<1>7. CASE ~(g.conn /\ g.sec = "asked")
  <2>1. g' = g /\ q' = <<"pair_fail">>
    BY <1>2, <1>7, FeedOne DEF RunSendPasskey
  <2>2. "pair_fail" \in Events /\ q' # <<>> /\ Head(q') = "pair_fail"
    BY <2>1, Lists DEF Events, Accepts
  <2>3. RadioKnown'
    BY <1>2, <1>3, <1>4, <2>1, SoundNext
  <2>4. OneThing'
    BY <1>1, <1>2, <1>4, <2>1, <2>2, RunOne
  <2>5. OwnInv'
    BY <1>1, <1>2, <1>4, <1>5, <2>1, <2>2, <2>4 DEF OwnInv, OutsideOwned, ScanningOwned, ConnectingOwned, PairingOwned, ResettingOwned
  <2>6. UnitInv'
    BY <1>1, <1>2, <1>4, <1>5, <2>1, <2>2, Lists DEF UnitInv, Bonded
  <2> QED
    BY <2>3, <2>5, <2>6 DEF PInv
<1> QED
  BY <1>6, <1>7

\* Running "verify" keeps the invariant.
LEMMA VerifyKeeps ==
    ASSUME PairingAssumption, PInv, RunVerify
    PROVE  PInv'
<1> USE DEF NoScan, NoLink, Linked, Next1, Outside, States, Flow
<1>1. RadioKnown /\ OwnInv /\ UnitInv /\ Running("verify")
  BY DEF PInv, RunVerify
<1>2. /\ out = "none" /\ q = <<>> /\ acts = <<"verify">> /\ acts' = <<>> /\ resume' = FALSE
      /\ keys' = keys /\ changed' = changed /\ sess' = sess /\ verified' = verified /\ st' = st
      /\ changed /\ resume = FALSE
  <2>1. Ran("verify")
    BY <1>1, RunDoes, Zenon
  <2> QED
    BY <2>1 DEF Ran
<1>3. Sound(g) /\ bonds \in Seq(Units) /\ keys \subseteq Units
  BY <1>1, SoundIsRadioKnown
<1>4. bonds' = bonds /\ out' = "none"
  BY <1>2 DEF RunVerify
<1>5. st = "verifying" /\ g.conn /\ ~g.connecting /\ ~g.scanning /\ ~g.scanDeferred /\ g.sec = "on"
  <2>1. st = "verifying"
    BY <1>1, <1>2, Lists DEF OneThing, OwnInv, OutsideOwned, ScanningOwned, ConnectingOwned, PairingOwned, ResettingOwned
  <2>2. g.conn /\ ~g.connecting /\ ~g.scanning /\ ~g.scanDeferred
    BY <1>1, <1>2, <2>1, Lists DEF OwnInv, PairingOwned
  <2> QED
    BY <1>1, <2>1, <2>2 DEF UnitInv
<1>6. CASE g' = [g EXCEPT !.reading = TRUE] /\ q' = q
  <2>1. /\ Sound(g') /\ SameScan(g', g) /\ g'.conn /\ g'.peer = g.peer /\ ~g'.connecting
        /\ g'.sec = g.sec /\ g'.reading /\ q' = <<>>
    BY <1>2, <1>3, <1>5, <1>6 DEF Sound, SameScan, Gap
  <2>2. RadioKnown'
    BY <1>2, <1>3, <1>4, <2>1, SoundNext
  <2>3. OneThing'
    BY <1>1, <1>4, <2>1, RunOne
  <2>4. OwnInv'
    BY <1>1, <1>2, <1>4, <1>5, <2>1, <2>3 DEF SameScan, OwnInv, OutsideOwned, ScanningOwned, ConnectingOwned, PairingOwned, ResettingOwned
  <2>5. UnitInv'
    BY <1>1, <1>2, <1>4, <1>5, <2>1, Lists DEF UnitInv, Bonded
  <2> QED
    BY <2>2, <2>4, <2>5 DEF PInv
<1>7. CASE g' = g /\ q' = Feed("verify_fail")
  <2>1. q' = <<"verify_fail">>
    BY <1>2, <1>7, FeedOne
  <2>2. "verify_fail" \in Events /\ q' # <<>> /\ Head(q') = "verify_fail"
    BY <2>1, Lists DEF Events, Accepts
  <2>3. RadioKnown'
    BY <1>2, <1>3, <1>4, <1>7, SoundNext
  <2>4. OneThing'
    BY <1>1, <1>2, <1>4, <2>1, <2>2, RunOne
  <2>5. OwnInv'
    BY <1>1, <1>2, <1>4, <1>5, <1>7, <2>2, <2>4 DEF OwnInv, OutsideOwned, ScanningOwned, ConnectingOwned, PairingOwned, ResettingOwned
  <2>6. UnitInv'
    BY <1>1, <1>2, <1>4, <1>5, <1>7, <2>2, Lists DEF UnitInv, Bonded
  <2> QED
    BY <2>3, <2>5, <2>6 DEF PInv
<1> QED
  BY <1>6, <1>7 DEF RunVerify

\* A store that lists one unit.
LEMMA OneBond ==
    ASSUME NEW u
    PROVE  ToSet(<<u>>) = {u}
BY DEF ToSet

\* Running "persist_bond" keeps the invariant.
LEMMA PersistBondKeeps ==
    ASSUME PInv, RunPersistBond
    PROVE  PInv'
<1> USE DEF NoScan, NoLink, Linked, Next1, Outside, States, Flow
<1>1. RadioKnown /\ OwnInv /\ UnitInv /\ Running("persist_bond")
  BY DEF PInv, RunPersistBond
<1>2. /\ out = "none" /\ q = <<>> /\ acts = <<"persist_bond">> /\ acts' = <<>> /\ resume' = FALSE
      /\ keys' = keys /\ changed' = changed /\ sess' = sess /\ verified' = verified /\ st' = st
      /\ changed /\ resume = FALSE
  <2>1. Ran("persist_bond")
    BY <1>1, RunDoes, Zenon
  <2> QED
    BY <2>1 DEF Ran
<1>3. Sound(g) /\ bonds \in Seq(Units) /\ keys \subseteq Units
  BY <1>1, SoundIsRadioKnown
<1>4. g' = g /\ q' = <<>> /\ out' = "none"
  BY <1>2 DEF RunPersistBond
<1>5. st = "bonded" /\ g.sec = "on" /\ verified = g.peer /\ g.conn /\ ~g.scanning /\ ~g.scanDeferred
  <2>1. st = "bonded"
    BY <1>1, <1>2, Lists DEF OneThing, OwnInv, OutsideOwned, ScanningOwned, ConnectingOwned, PairingOwned, ResettingOwned
  <2>2. g.conn /\ ~g.scanning /\ ~g.scanDeferred
    BY <1>1, <1>2, <2>1, Lists DEF OwnInv, OutsideOwned
  <2> QED
    BY <1>1, <1>2, <2>1, <2>2 DEF UnitInv
<1>6. Bonded(g.peer) /\ g.peer \in Units
  <2>1. Bonded(g.peer)
    BY <1>1, <1>5 DEF UnitInv
  <2> QED
    BY <1>3, <2>1 DEF Bonded, ToSet
<1>7. bonds' = <<g.peer>> /\ bonds' \in Seq(Units)
  BY <1>5, <1>6 DEF RunPersistBond
<1>8. ~g.connecting
  BY <1>3, <1>5 DEF Sound
<1>9. RadioKnown'
  BY <1>2, <1>3, <1>4, <1>7, SoundNext
<1>10. OneThing'
  BY <1>1, <1>4, RunOne
<1>11. OwnInv'
  BY <1>1, <1>2, <1>4, <1>5, <1>10, Lists DEF OwnInv, OutsideOwned, ScanningOwned, ConnectingOwned, PairingOwned, ResettingOwned
<1>12. g.peer \in ToSet(bonds')
  BY <1>7, OneBond
<1>13. UnitInv'
  BY <1>2, <1>4, <1>5, <1>7, <1>8, <1>12, Lists DEF UnitInv, Bonded, Verified
<1> QED
  BY <1>9, <1>11, <1>13 DEF PInv

\* Running "disconnect" keeps the invariant.
LEMMA RunDisconnectKeeps ==
    ASSUME PInv, RunDisconnect
    PROVE  PInv'
<1> USE DEF NoScan, NoLink, Linked, Next1, Outside, States, Flow
<1>1. RadioKnown /\ OwnInv /\ UnitInv /\ Running("disconnect")
  BY DEF PInv, RunDisconnect
<1>2. /\ out = "none" /\ q = <<>> /\ resume' = FALSE
      /\ keys' = keys /\ changed' = changed /\ sess' = sess /\ verified' = verified /\ st' = st
      /\ changed /\ resume = FALSE
      /\ \/ acts = <<"disconnect">> /\ acts' = <<>>
         \/ acts = <<"disconnect", "start_scan">> /\ acts' = <<"start_scan">>
  <2>1. Ran("disconnect")
    BY <1>1, RunDoes, Zenon
  <2> QED
    BY <2>1 DEF Ran
<1>3. Sound(g) /\ bonds \in Seq(Units) /\ keys \subseteq Units
  BY <1>1, SoundIsRadioKnown
<1>4. bonds' = bonds /\ q' = <<>> /\ out' = "none" /\ g' \in Dropped(g)
  BY <1>2 DEF RunDisconnect
<1>5. PICK ended \in BOOLEAN : g' = Disconnect(g, ended)
  BY <1>4 DEF Dropped
<1>6. Sound(g') /\ ~g'.conn /\ ~g'.connecting /\ SameScan(g', g)
  BY <1>3, <1>5, DisconnectDoes
<1>7. RadioKnown'
  BY <1>2, <1>3, <1>4, <1>6, SoundNext
<1>8. OneThing'
  BY <1>1, <1>4, RunOne
<1>9. CASE acts = <<"disconnect">> /\ acts' = <<>>
  <2>1. st \in Outside /\ sess = "off" /\ st # "bonded" /\ ~g.scanning /\ ~g.scanDeferred
    <3>1. st \in Outside
      BY <1>1, <1>9, Lists DEF OneThing, OwnInv, OutsideOwned, ScanningOwned, ConnectingOwned, PairingOwned, ResettingOwned
    <3> QED
      BY <1>1, <1>9, <3>1, Lists DEF OwnInv, OutsideOwned
  <2>2. OwnInv'
    BY <1>1, <1>2, <1>4, <1>6, <1>8, <1>9, <2>1 DEF SameScan, OwnInv, OutsideOwned, ScanningOwned, ConnectingOwned, PairingOwned, ResettingOwned
  <2>3. UnitInv'
    BY <1>2, <1>4, <1>6, <1>9, <2>1, Lists DEF UnitInv
  <2> QED
    BY <1>7, <2>2, <2>3 DEF PInv
<1>10. CASE acts = <<"disconnect", "start_scan">> /\ acts' = <<"start_scan">>
  <2>1. st = "scanning" /\ sess = "off"
    BY <1>1, <1>10, Lists DEF OneThing, OwnInv, OutsideOwned, ScanningOwned, ConnectingOwned, PairingOwned, ResettingOwned
  <2>2. OwnInv'
    BY <1>1, <1>2, <1>4, <1>6, <1>8, <1>10, <2>1, Lists DEF OwnInv, OutsideOwned, ScanningOwned, ConnectingOwned, PairingOwned, ResettingOwned
  <2>3. UnitInv'
    BY <1>2, <1>4, <1>6, <1>10, <2>1, Lists DEF UnitInv
  <2> QED
    BY <1>7, <2>2, <2>3 DEF PInv
<1> QED
  BY <1>2, <1>9, <1>10

\* Running "remove_bond" keeps the invariant.
LEMMA RemoveBondKeeps ==
    ASSUME PairingAssumption, PInv, RunRemoveBond
    PROVE  PInv'
<1> USE DEF NoScan, NoLink, Linked, Next1, Outside, States, Flow
<1>1. RadioKnown /\ OwnInv /\ UnitInv /\ Running("remove_bond")
  BY DEF PInv, RunRemoveBond
<1>2. /\ out = "none" /\ q = <<>> /\ acts = <<"remove_bond">> /\ acts' = <<>> /\ resume' = FALSE
      /\ keys' = keys /\ changed' = changed /\ sess' = sess /\ verified' = verified /\ st' = st
      /\ changed /\ resume = FALSE
  <2>1. Ran("remove_bond")
    BY <1>1, RunDoes, Zenon
  <2> QED
    BY <2>1 DEF Ran
<1>3. Sound(g) /\ bonds \in Seq(Units) /\ keys \subseteq Units
  BY <1>1, SoundIsRadioKnown
<1>4. out' = "none" /\ g' \in Dropped(g) /\ bonds' \in {<<>>, bonds} /\ bonds' \in Seq(Units)
  <2>1. out' = "none" /\ g' \in Dropped(g) /\ (bonds' = <<>> \/ bonds' = bonds)
    BY <1>2 DEF RunRemoveBond
  <2>2. <<>> \in Seq(Units)
    OBVIOUS
  <2> QED
    BY <1>3, <2>1, <2>2
<1>5. PICK ended \in BOOLEAN : g' = Disconnect(g, ended)
  BY <1>4 DEF Dropped
<1>6. Sound(g') /\ ~g'.conn /\ ~g'.connecting /\ SameScan(g', g)
  BY <1>3, <1>5, DisconnectDoes
<1>7. RadioKnown'
  BY <1>2, <1>3, <1>4, <1>6, SoundNext
<1>8. q' = <<>> \/ q' = <<"reset_done">>
  BY <1>2, FeedOne DEF RunRemoveBond
<1>9. "reset_done" \in Events
  BY DEF Events, Accepts
<1>10. OneThing'
  BY <1>1, <1>2, <1>4, <1>8, <1>9, RunOne
<1>11. st = "resetting" /\ ~g.scanning /\ ~g.scanDeferred
  <2>1. st = "resetting"
    BY <1>1, <1>2, Lists DEF OneThing, OwnInv, OutsideOwned, ScanningOwned, ConnectingOwned, PairingOwned, ResettingOwned
  <2> QED
    BY <1>1, <2>1 DEF OwnInv, ResettingOwned
<1>12. OwnInv'
  BY <1>1, <1>2, <1>4, <1>6, <1>10, <1>11 DEF SameScan, OwnInv, OutsideOwned, ScanningOwned, ConnectingOwned, PairingOwned, ResettingOwned
<1>13. UnitInv'
  BY <1>2, <1>4, <1>6, <1>11, Lists DEF UnitInv
<1> QED
  BY <1>7, <1>12, <1>13 DEF PInv

\* Every action of the runner keeps the invariant.
LEMMA RunKeeps ==
    ASSUME PairingAssumption, PInv, RunAction
    PROVE  PInv'
BY StartScanKeeps, StopScanKeeps, ConnectKeeps, PairKeeps, SendPasskeyKeeps, VerifyKeeps,
   PersistBondKeeps, RunDisconnectKeeps, RemoveBondKeeps DEF RunAction

\* A step of the flow keeps the invariant.
LEMMA StepKeeps ==
    ASSUME PInv, PairStep
    PROVE  PInv'
<1>1. RadioKnown /\ OwnInv /\ UnitInv
  BY DEF PInv
<1>2. OwnInv'
  BY <1>1, StepKeepsOwner
<1>3. UnitInv'
  BY <1>1, <1>2, StepKeepsUnit
<1>4. UNCHANGED vars
  BY DEF PairStep, StepCancel, StepTimeout, StepReset, StepStart, StepFound, StepConnected,
         StepAsked, StepEntered, StepPaired, StepVerified, StepUnverified, StepResetDone,
         StepFailed, StepIgnored, Step
<1>5. RadioKnown'
  BY <1>1, <1>4 DEF vars, RadioKnown, TypeOK, FlagsTrue, SlotKnown
<1> QED
  BY <1>2, <1>3, <1>5 DEF PInv

-----------------------------------------------------------------------------
(* What the transport reports finds its way.                                *)

\* Nothing else is under way when the transport reports.
LEMMA RoutingAlone ==
    ASSUME PInv, Routing
    PROVE  /\ RadioKnown /\ OwnInv /\ UnitInv /\ OneThing /\ out # "none"
           /\ q = <<>> /\ acts = <<>> /\ changed = FALSE
           /\ Sound(g) /\ bonds \in Seq(Units) /\ keys \subseteq Units /\ resume \in BOOLEAN
<1>1. RadioKnown /\ OwnInv /\ UnitInv /\ OneThing
  BY DEF PInv, OwnInv
<1> QED
  BY <1>1, SoundIsRadioKnown DEF OneThing, Routing

\* The machine's event for what is reported in a flow.
LEMMA MapEventIs ==
    ASSUME NEW e,
           e \in {"FOUND", "CONNECTED", "CONNECT_FAIL", "DISCONNECTED",
                  "PASSKEY_REQ", "ENC_OK", "ENC_FAIL", "READ"}
    PROVE  /\ e = "FOUND" => MapEvent(e) = "found"
           /\ e = "CONNECTED" => MapEvent(e) = "connected"
           /\ e = "CONNECT_FAIL" => MapEvent(e) = "connect_fail"
           /\ e = "PASSKEY_REQ" => MapEvent(e) = "passkey_requested"
           /\ e = "ENC_OK" => MapEvent(e) = "pair_ok"
           /\ e = "ENC_FAIL" => MapEvent(e) = "pair_fail"
           /\ e = "DISCONNECTED" =>
                /\ st = "connecting" => MapEvent(e) = "connect_fail"
                /\ st \in {"waiting_passkey", "pairing"} => MapEvent(e) = "pair_fail"
                /\ st = "verifying" => MapEvent(e) = "verify_fail"
                /\ st \notin {"connecting", "waiting_passkey", "pairing", "verifying"} =>
                     MapEvent(e) = "none"
           /\ e = "READ" => MapEvent(e) = "none"
BY DEF MapEvent

\* An event that goes to the flow keeps the invariant.
LEMMA RouteToMachineKeeps ==
    ASSUME PairingAssumption, PInv, RouteToMachine
    PROVE  PInv'
<1> USE DEF NoScan, NoLink, Linked, Next1, Outside, States, Flow
<1>1. /\ RadioKnown /\ OwnInv /\ UnitInv /\ OneThing /\ out # "none"
      /\ q = <<>> /\ acts = <<>> /\ changed = FALSE
      /\ Sound(g) /\ bonds \in Seq(Units) /\ keys \subseteq Units /\ resume \in BOOLEAN
  BY RoutingAlone DEF RouteToMachine
<1> DEFINE e == MapEvent(out)
<1>2. /\ st \in Flow /\ e # "none" /\ out' = "none" /\ q' = Feed(e)
      /\ g' = g /\ bonds' = bonds /\ keys' = keys /\ resume' = resume /\ st' = st /\ acts' = acts
      /\ changed' = changed /\ sess' = sess /\ verified' = verified
  BY DEF RouteToMachine, Consumed, machine
<1>3. out \in {"FOUND", "CONNECTED", "CONNECT_FAIL", "DISCONNECTED",
                "PASSKEY_REQ", "ENC_OK", "ENC_FAIL", "READ"}
  BY <1>1 DEF RadioKnown, TypeOK
<1>4. /\ out = "CONNECTED" => e = "connected"
      /\ out = "CONNECT_FAIL" => e = "connect_fail"
      /\ e = "connected" => out = "CONNECTED"
      /\ e = "pair_ok" => out = "ENC_OK"
      /\ out = "DISCONNECTED" =>
           /\ st = "pairing" => e = "pair_fail"
           /\ st = "verifying" => e = "verify_fail"
      /\ out # "READ" /\ e # "verify_ok"
      /\ e \in Events
  BY <1>2, <1>3, MapEventIs DEF Events, Accepts
<1> HIDE DEF e
<1>5. q' = <<e>> /\ q' # <<>> /\ Head(q') = e
  BY <1>1, <1>2, FeedOne, Lists
<1>6. RadioKnown'
  BY <1>1, <1>2, SoundNext
<1>7. resume = FALSE
  BY <1>1, <1>2 DEF UnitInv
<1>8. OneThing'
  BY <1>1, <1>2, <1>4, <1>5 DEF OneThing, Routing
<1>9. OwnInv'
  BY <1>1, <1>2, <1>4, <1>5, <1>8 DEF OwnInv, OutsideOwned, ScanningOwned, ConnectingOwned, PairingOwned, ResettingOwned
<1>10. UnitInv'
  BY <1>1, <1>2, <1>4, <1>5, <1>7, Lists DEF UnitInv, Bonded, Verified
<1> QED
  BY <1>6, <1>9, <1>10 DEF PInv

\* An event of the verification keeps the invariant.
LEMMA RouteVerifyKeeps ==
    ASSUME PairingAssumption, PInv, RouteVerify
    PROVE  PInv'
<1> USE DEF NoScan, NoLink, Linked, Next1, Outside, States, Flow
<1>1. /\ RadioKnown /\ OwnInv /\ UnitInv /\ OneThing /\ out # "none"
      /\ q = <<>> /\ acts = <<>> /\ changed = FALSE
      /\ Sound(g) /\ bonds \in Seq(Units) /\ keys \subseteq Units /\ resume \in BOOLEAN
  BY RoutingAlone DEF RouteVerify
<1>2. /\ out = "READ" /\ st = "verifying" /\ out' = "none"
      /\ g' = g /\ bonds' = bonds /\ keys' = keys /\ resume' = resume /\ st' = st /\ acts' = acts
      /\ changed' = changed /\ sess' = sess
  BY DEF RouteVerify, machine
<1>3. PICK e \in {"verify_ok", "verify_fail"} : q' = <<e>> /\ (e = "verify_ok" => verified' = g.peer)
  BY <1>1, FeedOne DEF RouteVerify
<1>4. e \in Events /\ q' # <<>> /\ Head(q') = e
  BY <1>3, Lists DEF Events, Accepts
<1>5. RadioKnown'
  BY <1>1, <1>2, SoundNext
<1>6. resume = FALSE
  BY <1>1, <1>2 DEF UnitInv
<1>7. OneThing'
  BY <1>1, <1>2, <1>3, <1>4 DEF OneThing, Routing
<1>8. g.conn
  BY <1>1, <1>2 DEF OwnInv, PairingOwned
<1>9. OwnInv'
  BY <1>1, <1>2, <1>3, <1>4, <1>7, <1>8 DEF OwnInv, OutsideOwned, ScanningOwned, ConnectingOwned, PairingOwned, ResettingOwned
<1>10. UnitInv'
  BY <1>1, <1>2, <1>3, <1>4, <1>6, Lists DEF UnitInv, Bonded, Verified
<1> QED
  BY <1>5, <1>9, <1>10 DEF PInv

\* An event that goes to the session keeps the invariant.
LEMMA RouteToSessionKeeps ==
    ASSUME PInv, RouteToSession
    PROVE  PInv'
<1> USE DEF NoScan, NoLink, Linked, Next1, Outside, States, Flow
<1>1. /\ RadioKnown /\ OwnInv /\ UnitInv /\ OneThing /\ out # "none"
      /\ q = <<>> /\ acts = <<>> /\ changed = FALSE
      /\ Sound(g) /\ bonds \in Seq(Units) /\ keys \subseteq Units /\ resume \in BOOLEAN
  BY RoutingAlone DEF RouteToSession
<1>2. /\ out' = "none" /\ q' = q
      /\ bonds' = bonds /\ keys' = keys /\ resume' = resume /\ st' = st /\ acts' = acts
      /\ changed' = changed /\ verified' = verified
  BY DEF RouteToSession, machine
<1>3. out \in {"FOUND", "CONNECTED", "CONNECT_FAIL", "DISCONNECTED",
                "PASSKEY_REQ", "ENC_OK", "ENC_FAIL", "READ"}
  BY <1>1 DEF RadioKnown, TypeOK
<1>4. /\ st \in Flow => out \in {"DISCONNECTED", "READ"} /\ sess = "off"
      /\ st \in Flow /\ out = "DISCONNECTED" => st \in {"scanning", "resetting"}
      /\ st = "verifying" => out # "READ"
  <2>1. ~(st \in Flow /\ MapEvent(out) # "none") /\ ~(out = "READ" /\ st = "verifying")
    BY DEF RouteToSession, Consumed
  <2>2. st \in Flow => sess = "off"
    BY <1>1 DEF OwnInv
  <2> QED
    BY <1>3, <2>1, <2>2, MapEventIs
<1>5. CASE out = "CONNECTED" /\ sess = "connecting" /\ sess' = "up" /\ g' = g
  <2>1. st \in Outside /\ g.conn /\ ~g.connecting
    BY <1>1, <1>4, <1>5 DEF OwnInv, OneThing, OutsideOwned, Sound
  <2>2. RadioKnown'
    BY <1>1, <1>2, <1>5, SoundNext
  <2>3. OneThing'
    BY <1>1, <1>2, <1>5 DEF OneThing, Routing
  <2>4. OwnInv'
    BY <1>1, <1>2, <1>5, <2>1, <2>3, Lists DEF OwnInv, OutsideOwned, ScanningOwned, ConnectingOwned, PairingOwned, ResettingOwned
  <2>5. UnitInv'
    BY <1>1, <1>2, <1>5, <2>1, Lists DEF UnitInv, Bonded, Verified
  <2> QED
    BY <2>2, <2>4, <2>5 DEF PInv
<1>6. CASE /\ out \in {"CONNECT_FAIL", "ENC_FAIL", "DISCONNECTED"} /\ sess \in {"connecting", "up"}
           /\ sess' = "down" /\ g' \in Dropped(g)
  <2>1. st \in Outside
    BY <1>1, <1>4, <1>6 DEF OwnInv, OneThing
  <2>2. PICK ended \in BOOLEAN : g' = Disconnect(g, ended)
    BY <1>6 DEF Dropped
  <2>3. Sound(g') /\ ~g'.conn /\ ~g'.connecting /\ SameScan(g', g)
    BY <1>1, <2>2, DisconnectDoes
  <2>4. RadioKnown'
    BY <1>1, <1>2, <2>3, SoundNext
  <2>5. OneThing'
    BY <1>1, <1>2, <1>6 DEF OneThing, Routing
  <2>6. OwnInv'
    BY <1>1, <1>2, <1>6, <2>1, <2>3, <2>5, Lists DEF SameScan, OwnInv, OutsideOwned, ScanningOwned, ConnectingOwned, PairingOwned, ResettingOwned
  <2>7. UnitInv'
    BY <1>1, <1>2, <2>1, <2>3, Lists DEF UnitInv, Verified
  <2> QED
    BY <2>4, <2>6, <2>7 DEF PInv
<1>7. CASE /\ ~(out = "CONNECTED" /\ sess = "connecting")
           /\ ~(out \in {"CONNECT_FAIL", "ENC_FAIL", "DISCONNECTED"} /\ sess \in {"connecting", "up"})
           /\ g' = g /\ sess' = sess
  <2>1. RadioKnown'
    BY <1>1, <1>2, <1>7, SoundNext
  <2>2. OneThing'
    BY <1>1, <1>2, <1>7 DEF OneThing, Routing
  <2>3. OutsideOwned'
    BY <1>1, <1>2, <1>7, Lists DEF OwnInv, OutsideOwned
  <2>4. ScanningOwned' /\ ConnectingOwned' /\ PairingOwned' /\ ResettingOwned'
    BY <1>1, <1>2, <1>4, <1>7, Lists DEF OwnInv, OutsideOwned, ScanningOwned, ConnectingOwned, PairingOwned, ResettingOwned
  <2>5. OwnInv'
    BY <1>1, <1>2, <1>7, <2>2, <2>3, <2>4 DEF OwnInv
  <2>6. UnitInv'
    BY <1>1, <1>2, <1>7, Lists DEF UnitInv, Bonded, Verified
  <2> QED
    BY <2>1, <2>5, <2>6 DEF PInv
<1> QED
  BY <1>5, <1>6, <1>7 DEF RouteToSession

-----------------------------------------------------------------------------
(* The session gets the radio back, or gives it up.                         *)

\* The report of a new state keeps the invariant.
LEMMA OnStateKeeps ==
    ASSUME PInv, OnState
    PROVE  PInv'
<1> USE DEF NoScan, NoLink, Linked, Next1, Outside, States, Flow
<1>1. /\ RadioKnown /\ OwnInv /\ UnitInv /\ OneThing
      /\ Sound(g) /\ bonds \in Seq(Units) /\ keys \subseteq Units
  BY SoundIsRadioKnown DEF PInv, OwnInv
<1>2. /\ out = "none" /\ acts = <<>> /\ changed /\ changed' = FALSE
      /\ bonds' = bonds /\ keys' = keys /\ out' = "none" /\ resume' = resume /\ st' = st /\ q' = q
      /\ acts' = acts /\ verified' = verified
  BY DEF OnState, Routing, machine
<1>3. resume = FALSE
  BY <1>1, <1>2 DEF UnitInv, RadioKnown, TypeOK
<1>4. CASE st = "bonded"
  <2>1. sess' = "up" /\ g' = g
    BY <1>4 DEF OnState
  <2>2. g.conn /\ ~g.connecting /\ ~g.scanning /\ ~g.scanDeferred
    BY <1>1, <1>2, <1>4, Lists DEF OwnInv, OutsideOwned, Sound
  <2>3. RadioKnown'
    BY <1>1, <1>2, <1>3, <2>1, SoundNext
  <2>4. OneThing'
    BY <1>1, <1>2, <2>1 DEF OneThing, Routing
  <2>5. OwnInv'
    BY <1>1, <1>2, <1>4, <2>1, <2>2, <2>4, Lists DEF OwnInv, OutsideOwned, ScanningOwned, ConnectingOwned, PairingOwned, ResettingOwned
  <2>6. UnitInv'
    BY <1>1, <1>2, <1>3, <1>4, <2>1, Lists DEF UnitInv, Bonded, Verified
  <2> QED
    BY <2>3, <2>5, <2>6 DEF PInv
<1>5. CASE st # "bonded"
  <2>1. PICK ok \in BOOLEAN, on \in BOOLEAN,
             a \in IF sess \in {"connecting", "up"} THEN Dropped(g) ELSE {g} :
           LET boots == st \in {"idle", "error"} /\ bonds # <<>>
               b == IF boots /\ on THEN ConnectTo(a, Head(bonds), TRUE, ok) ELSE a
           IN  /\ g' = b
               /\ sess' = IF ~boots THEN "off"
                          ELSE IF b.connecting /\ ~a.connecting THEN "connecting" ELSE "down"
    BY <1>5 DEF OnState
  <2>2. /\ Sound(a) /\ SameScan(a, g)
        /\ sess \in {"connecting", "up"} => ~a.conn /\ ~a.connecting
        /\ sess \notin {"connecting", "up"} => a = g
        /\ ~g.conn /\ ~g.connecting => ~a.conn /\ ~a.connecting
        /\ a = g \/ (~a.conn /\ ~a.connecting)
    <3>1. CASE sess \in {"connecting", "up"}
      <4>1. PICK ended \in BOOLEAN : a = Disconnect(g, ended)
        BY <2>1, <3>1 DEF Dropped
      <4> QED
        BY <1>1, <3>1, <4>1, DisconnectDoes
    <3>2. CASE sess \notin {"connecting", "up"}
      <4>1. a = g
        BY <2>1, <3>2
      <4> QED
        BY <1>1, <3>2, <4>1 DEF SameScan
    <3> QED
      BY <3>1, <3>2
  <2>3. CASE st \in {"idle", "error"}
    <3>1. ~a.conn /\ ~a.connecting /\ ~a.scanning /\ ~a.scanDeferred
      BY <1>1, <1>2, <2>2, <2>3, Lists DEF OwnInv, OneThing, OutsideOwned, SameScan
    <3>2. /\ Sound(g') /\ ~g'.conn /\ ~g'.scanning /\ ~g'.scanDeferred
          /\ sess' \in {"off", "down", "connecting"}
          /\ g'.connecting <=> sess' = "connecting"
      <4>1. CASE bonds = <<>>
        BY <2>1, <2>2, <3>1, <4>1
      <4>2. CASE bonds # <<>> /\ ~on
        BY <2>1, <2>2, <3>1, <4>2
      <4>3. CASE bonds # <<>> /\ on
        <5>1. Head(bonds) \in Units
          BY <1>1, <4>3
        <5>2. /\ g' = ConnectTo(a, Head(bonds), TRUE, ok)
              /\ sess' = IF g'.connecting /\ ~a.connecting THEN "connecting" ELSE "down"
          BY <2>1, <2>3, <4>3
        <5>3. Sound(g') /\ SameLink(g', a) /\ SameScan(g', a)
          BY <2>1, <2>2, <5>1, <5>2, ConnectToDoes
        <5> QED
          BY <3>1, <5>2, <5>3 DEF SameLink, SameScan
      <4> QED
        BY <4>1, <4>2, <4>3
    <3>3. RadioKnown'
      BY <1>1, <1>2, <1>3, <3>2, SoundNext
    <3>4. OneThing'
      BY <1>1, <1>2, <3>2 DEF OneThing, Routing
    <3>5. OwnInv'
      BY <1>1, <1>2, <2>3, <3>2, <3>4, Lists DEF OwnInv, OutsideOwned, ScanningOwned, ConnectingOwned, PairingOwned, ResettingOwned
    <3>6. UnitInv'
      BY <1>1, <1>2, <1>3, <2>3, <3>2, Lists DEF UnitInv
    <3> QED
      BY <3>3, <3>5, <3>6 DEF PInv
  <2>4. CASE st \in Flow
    <3>1. sess' = "off" /\ g' = a
      BY <2>1, <2>4
    <3>2. st \notin {"scanning", "resetting"} => g' = g
      BY <1>1, <2>2, <2>4, <3>1 DEF OwnInv
    <3>3. Sound(g')
      BY <2>2, <3>1
    <3>4. RadioKnown'
      BY <1>1, <1>2, <1>3, <3>3, SoundNext
    <3>5. OneThing'
      BY <1>1, <1>2, <3>1 DEF OneThing, Routing
    <3>6. ScanningOwned'
      BY <1>1, <1>2, <2>2, <3>1, Lists DEF OwnInv, ScanningOwned
    <3>7. ResettingOwned'
      BY <1>1, <1>2, <2>2, <3>1, Lists DEF OwnInv, ResettingOwned, SameScan
    <3>8. OutsideOwned' /\ ConnectingOwned' /\ PairingOwned'
      BY <1>1, <1>2, <2>4, <3>1, <3>2 DEF OwnInv, OutsideOwned, ScanningOwned, ConnectingOwned, PairingOwned, ResettingOwned
    <3>9. OwnInv'
      BY <3>1, <3>5, <3>6, <3>7, <3>8 DEF OwnInv
    <3>10. g'.conn => g' = g
      BY <2>2, <3>1
    <3>11. UnitInv'
      BY <1>1, <1>2, <1>3, <2>4, <3>2, <3>10, Lists DEF UnitInv, Bonded
    <3> QED
      BY <3>4, <3>9, <3>11 DEF PInv
  <2> QED
    BY <1>1, <1>5, <2>3, <2>4 DEF OneThing
<1> QED
  BY <1>4, <1>5

-----------------------------------------------------------------------------
(* Between two tasks of the runner.                                         *)

\* Nothing is under way.
LEMMA DrainedAlone ==
    ASSUME PInv, Drained
    PROVE  /\ RadioKnown /\ OwnInv /\ UnitInv /\ OneThing /\ out = "none"
           /\ q = <<>> /\ acts = <<>> /\ changed = FALSE
           /\ Sound(g) /\ bonds \in Seq(Units) /\ keys \subseteq Units /\ resume \in BOOLEAN
           /\ st \in Flow => sess = "off" /\ resume = FALSE
           /\ st \in States
           /\ st \in Outside => NoScan /\ Linked
<1>1. RadioKnown /\ OwnInv /\ UnitInv /\ OneThing
  BY DEF PInv, OwnInv
<1>2. out = "none" /\ q = <<>> /\ acts = <<>> /\ changed = FALSE
  BY <1>1 DEF OneThing, Drained, Routing
<1>3. st \in Outside => NoScan /\ Linked
  BY <1>1, <1>2, Lists DEF OwnInv, OutsideOwned
<1>4. resume \in BOOLEAN
  BY <1>1 DEF RadioKnown, TypeOK
<1>5. st \in Flow => sess = "off" /\ resume = FALSE
  BY <1>1, <1>2, <1>4 DEF OwnInv, UnitInv
<1> QED
  BY <1>1, <1>2, <1>3, <1>5, SoundIsRadioKnown DEF OneThing

\* A request that is queued while nothing else runs keeps the invariant.
LEMMA AskKeeps ==
    ASSUME PInv, Quiet,
           NEW e \in {"start", "cancel", "reset", "passkey_entered", "timeout"},
           q' = <<>> \/ q' = <<e>>,
           g' = g, bonds' = bonds, keys' = keys, resume' = resume, out' = out, st' = st,
           acts' = acts, changed' = changed, sess' = sess, verified' = verified
    PROVE  PInv'
<1> USE DEF NoScan, NoLink, Linked, Next1, Outside, States, Flow
<1>1. /\ RadioKnown /\ OwnInv /\ UnitInv /\ OneThing /\ out = "none"
      /\ q = <<>> /\ acts = <<>> /\ changed = FALSE /\ resume = FALSE
      /\ Sound(g) /\ bonds \in Seq(Units) /\ keys \subseteq Units
  BY DrainedAlone DEF Quiet
<1>2. e \in Events /\ (q' # <<>> => Head(q') = e)
  BY Lists DEF Events, Accepts
<1>3. RadioKnown'
  BY <1>1, SoundNext
<1>4. OneThing'
  BY <1>1, <1>2 DEF OneThing, Routing
<1>5. OwnInv'
  BY <1>1, <1>2, <1>4 DEF OwnInv, OutsideOwned, ScanningOwned, ConnectingOwned, PairingOwned, ResettingOwned
<1>6. UnitInv'
  BY <1>1, <1>2, Lists DEF UnitInv, Bonded, Verified
<1> QED
  BY <1>3, <1>5, <1>6 DEF PInv

\* A command of the owner's keeps the invariant.
LEMMA CommandKeeps ==
    ASSUME PairingAssumption, PInv, Command
    PROVE  PInv'
<1>1. Quiet /\ UNCHANGED <<vars, machine, acts, changed, sess, verified>>
  BY DEF Command
<1>2. PICK e \in {"start", "cancel", "reset", "passkey_entered"} : q' = Feed(e)
  BY DEF Command
<1>3. q = <<>>
  BY <1>1, DrainedAlone DEF Quiet
<1>4. q' = <<e>>
  BY <1>2, <1>3, FeedOne
<1> QED
  BY <1>1, <1>2, <1>4, AskKeeps DEF vars, machine

\* A tick of the flow's timer keeps the invariant.
LEMMA TickKeeps ==
    ASSUME PairingAssumption, PInv, Tick
    PROVE  PInv'
<1>1. Quiet /\ UNCHANGED <<vars, st, acts, changed, sess, verified>>
  BY DEF Tick
<1>2. q' = Feed("timeout") \/ q' = q
  BY DEF Tick
<1>3. q = <<>>
  BY <1>1, DrainedAlone DEF Quiet
<1>4. q' = <<"timeout">> \/ q' = <<>>
  BY <1>2, <1>3, FeedOne
<1> QED
  BY <1>1, <1>4, AskKeeps DEF vars

\* A connect of the session keeps the invariant.
LEMMA SessionConnectsKeeps ==
    ASSUME PInv, SessionConnects
    PROVE  PInv'
<1> USE DEF NoScan, NoLink, Linked, Next1, Outside, States, Flow
<1>1. Quiet /\ sess = "down" /\ bonds # <<>>
  BY DEF SessionConnects
<1>2. /\ RadioKnown /\ OwnInv /\ UnitInv /\ OneThing /\ out = "none"
      /\ q = <<>> /\ acts = <<>> /\ changed = FALSE /\ resume = FALSE
      /\ Sound(g) /\ bonds \in Seq(Units) /\ keys \subseteq Units
      /\ st \in Outside /\ NoScan /\ Linked
  BY <1>1, DrainedAlone DEF Quiet
<1>3. /\ bonds' = bonds /\ keys' = keys /\ out' = out /\ resume' = resume /\ st' = st /\ q' = q
      /\ acts' = acts /\ changed' = changed /\ verified' = verified
      /\ sess' = IF g'.connecting /\ ~g.connecting THEN "connecting" ELSE "down"
  BY DEF SessionConnects, machine
<1>4. PICK ok \in BOOLEAN : g' = ConnectTo(g, Head(bonds), TRUE, ok)
  BY DEF SessionConnects
<1>5. Head(bonds) \in Units
  BY <1>1, <1>2
<1>6. ~g.conn /\ ~g.connecting
  BY <1>1, <1>2
<1>7. /\ Sound(g') /\ SameLink(g', g) /\ SameScan(g', g)
      /\ g'.connecting /\ ~g.connecting => Target(g') = Head(bonds)
  <2>1. ASSUME NEW v \in Units, NEW enc \in BOOLEAN, NEW u, u = ConnectTo(g, v, enc, ok)
        PROVE  /\ Sound(u) /\ SameLink(u, g) /\ SameScan(u, g)
               /\ u.connecting /\ ~g.connecting => Target(u) = v
    BY <1>2, <1>4, <2>1, ConnectToDoes
  <2> QED
    BY <1>4, <1>5, <2>1
<1>8. RadioKnown'
  BY <1>2, <1>3, <1>7, SoundNext
<1>9. OneThing'
  BY <1>2, <1>3 DEF OneThing, Routing
<1>10. ~g'.conn /\ ~g'.scanning /\ ~g'.scanDeferred
  BY <1>2, <1>6, <1>7 DEF SameLink, SameScan
<1>11. OwnInv'
  BY <1>2, <1>3, <1>6, <1>9, <1>10, Lists DEF OwnInv, OutsideOwned, ScanningOwned, ConnectingOwned, PairingOwned, ResettingOwned
<1>12. st = "bonded" => bonds = <<verified>> /\ Head(bonds) = verified
  BY <1>1, <1>2, Lists DEF UnitInv, Verified
<1>13. UnitInv'
  BY <1>2, <1>3, <1>6, <1>7, <1>10, <1>12, Lists DEF UnitInv, Verified, Target
<1> QED
  BY <1>8, <1>11, <1>13 DEF PInv

\* A disconnect of the session keeps the invariant.
LEMMA SessionDropsKeeps ==
    ASSUME PInv, SessionDrops
    PROVE  PInv'
<1> USE DEF NoScan, NoLink, Linked, Next1, Outside, States, Flow
<1>1. Quiet /\ sess \in {"connecting", "up"} /\ sess' = "down" /\ g' \in Dropped(g)
  BY DEF SessionDrops
<1>2. /\ RadioKnown /\ OwnInv /\ UnitInv /\ OneThing /\ out = "none"
      /\ q = <<>> /\ acts = <<>> /\ changed = FALSE /\ resume = FALSE
      /\ Sound(g) /\ bonds \in Seq(Units) /\ keys \subseteq Units
      /\ st \in Outside /\ NoScan /\ Linked
  BY <1>1, DrainedAlone DEF Quiet
<1>3. /\ bonds' = bonds /\ keys' = keys /\ out' = out /\ resume' = resume /\ st' = st /\ q' = q
      /\ acts' = acts /\ changed' = changed /\ verified' = verified
  BY DEF SessionDrops, machine
<1>4. PICK ended \in BOOLEAN : g' = Disconnect(g, ended)
  BY <1>1 DEF Dropped
<1>5. Sound(g') /\ ~g'.conn /\ ~g'.connecting /\ SameScan(g', g)
  BY <1>2, <1>4, DisconnectDoes
<1>6. RadioKnown'
  BY <1>2, <1>3, <1>5, SoundNext
<1>7. OneThing'
  BY <1>1, <1>2, <1>3 DEF OneThing, Routing
<1>8. OwnInv'
  BY <1>1, <1>2, <1>3, <1>5, <1>7, Lists DEF SameScan, OwnInv, OutsideOwned, ScanningOwned, ConnectingOwned, PairingOwned, ResettingOwned
<1>9. UnitInv'
  BY <1>2, <1>3, <1>5, Lists DEF UnitInv, Verified
<1> QED
  BY <1>6, <1>8, <1>9 DEF PInv

\* A window of the sensor scan keeps the invariant.
LEMMA SensorWindowKeeps ==
    ASSUME PInv, SensorWindow
    PROVE  PInv'
<1> USE DEF NoScan, NoLink, Linked, Next1, Outside, States, Flow
<1>1. Quiet /\ st \notin Flow
  BY DEF SensorWindow
<1>2. /\ RadioKnown /\ OwnInv /\ UnitInv /\ OneThing /\ out = "none"
      /\ q = <<>> /\ acts = <<>> /\ changed = FALSE /\ resume = FALSE
      /\ Sound(g) /\ bonds \in Seq(Units) /\ keys \subseteq Units
      /\ st \in Outside /\ NoScan /\ Linked
  BY <1>1, DrainedAlone DEF Quiet
<1>3. /\ bonds' = bonds /\ keys' = keys /\ out' = out /\ resume' = resume /\ st' = st /\ q' = q
      /\ acts' = acts /\ changed' = changed /\ sess' = sess /\ verified' = verified
  BY DEF SensorWindow, machine
<1>4. PICK ok \in BOOLEAN : g' = ScanWindow(g, ok)
  BY DEF SensorWindow
<1>5. Sound(g') /\ SameLink(g', g) /\ SameScan(g', g) /\ SameConnect(g', g)
  BY <1>2, <1>4, ScanWindowDoes
<1>6. RadioKnown'
  BY <1>2, <1>3, <1>5, SoundNext
<1>7. OneThing'
  BY <1>2, <1>3 DEF OneThing, Routing
<1>8. OwnInv'
  BY <1>2, <1>3, <1>5, <1>7, Lists DEF SameLink, SameScan, SameConnect, OwnInv, OutsideOwned, ScanningOwned, ConnectingOwned, PairingOwned, ResettingOwned
<1>9. UnitInv'
  BY <1>2, <1>3, <1>5, Lists DEF UnitInv, Verified, Bonded, SameLink, SameConnect
<1> QED
  BY <1>6, <1>8, <1>9 DEF PInv

-----------------------------------------------------------------------------
(* What the host's events do to the link and the bonds.                     *)

\* The wanted connect stays the one that was asked for, the link the one it made.
Faithful ==
    /\ resume' => out' = "CONNECTED" /\ Encrypts(g)
    /\ g.connecting /\ g'.connecting => Target(g') = Target(g) /\ Encrypts(g') = Encrypts(g)
    /\ out' = "ENC_OK" => g'.sec = "on"
    /\ g.conn /\ g'.conn =>
         g'.peer = g.peer /\ (g.sec = "on" => g'.sec = "on") /\ (g'.sec = "typed" => g.sec = "typed")
    /\ out' = "CONNECTED" => g'.peer = Target(g) /\ g'.sec = "none"

\* A step of the host keeps the peer, the target and the encryption the flow asked for.
LEMMA HostFaithful ==
    ASSUME RadioKnown, HostStep, ~resume
    PROVE  Faithful
<1> USE DEF Target, Encrypts
<1>1. /\ g \in Gap /\ Sound(g)
      /\ g.master = "conn" <=> g.connecting /\ ~g.deferred
      /\ g.master = "cancel" <=> g.cancelled
      /\ ~(g.conn /\ g.dying) /\ ~(g.conn /\ g.connecting)
      /\ g.deferred => g.connecting /\ g.dying
      /\ g.cancelled => ~g.connecting
      /\ g.scanDeferred => g.cancelled
      /\ resume = FALSE
  <2>1. Sound(g) /\ resume \in BOOLEAN
    BY SoundIsRadioKnown
  <2> QED
    BY <2>1 DEF Sound
<1>2. CASE Advert \/ WindowEnds \/ PasskeyAction \/ Encrypted \/ ReadDone \/ UnitForgets
  BY <1>1, <1>2 DEF Gap, Advert, WindowEnds, PasskeyAction, Encrypted, ReadDone, UnitForgets, Faithful
<1>3. CASE ProbeRefused
  BY <1>1, <1>3 DEF Gap, ProbeRefused, Secure, Faithful
<1>4. CASE EncFails \/ RepeatPairing
  BY <1>1, <1>4 DEF Gap, EncFails, RepeatPairing, Faithful
<1>5. CASE TermFailure
  BY <1>1, <1>5 DEF Gap, TermFailure, Faithful
<1>6. CASE LinkMade
  <2>0. ~g.conn
    <3>1. g.master \in {"conn", "cancel"}
      BY <1>6 DEF LinkMade
    <3> QED
      BY <1>1, <3>1 DEF Sound
  <2>1. CASE ~g.cancelled
    <3>1. g' = [[g EXCEPT !.connecting = FALSE, !.master = "idle", !.peer = g.to, !.sec = "none"]
                EXCEPT !.conn = TRUE, !.probing = FALSE, !.reading = FALSE]
      BY <1>1, <1>6, <2>1 DEF LinkMade, LinkReset, Gap
    <3>2. out' = "CONNECTED" /\ g.master \in {"conn", "cancel"} /\ resume' = g.encrypt
      BY <1>6, <2>1 DEF LinkMade
    <3>3. ~g.deferred
      BY <1>1, <2>1, <3>2
    <3>4. ~g'.connecting /\ g'.peer = g.to /\ g'.sec = "none"
      BY <1>1, <3>1 DEF Gap
    <3> QED
      BY <2>0, <3>2, <3>3, <3>4 DEF Faithful
  <2>2. CASE g.cancelled
    <3>1. out' = "none" /\ resume' = FALSE /\ ~g.connecting
      BY <1>1, <1>6, <2>2 DEF LinkMade
    <3> QED
      BY <2>0, <3>1 DEF Faithful
  <2> QED
    BY <2>1, <2>2
<1>7. CASE ConnectFails
  <2>1. ~g.conn
    <3>1. g.master \in {"conn", "cancel"}
      BY <1>7 DEF ConnectFails
    <3> QED
      BY <1>1, <3>1 DEF Sound
  <2>2. out' \in {"none", "CONNECT_FAIL"} /\ resume' = resume
    BY <1>7 DEF ConnectFails
  <2>3. g.connecting => ~g'.connecting
    <3>1. CASE g.cancelled
      BY <1>1, <3>1
    <3>2. CASE ~g.cancelled
      BY <1>1, <1>7, <3>2 DEF ConnectFails, Gap
    <3> QED
      BY <3>1, <3>2
  <2> QED
    BY <1>1, <2>1, <2>2, <2>3 DEF Faithful
<1>8. CASE LinkDrops
  <2>0. resume' = FALSE
    BY <1>1, <1>8 DEF LinkDrops
  <2>1. CASE ~g.dying
    <3>1. g.connecting => ~g.conn
      BY <1>1
    <3> DEFINE a == [g EXCEPT !.peer = None, !.stuck = FALSE, !.sec = "none"]
    <3>2. g' = (IF g.conn THEN LinkReset(a) ELSE a) /\ out' \in {"none", "DISCONNECTED"}
      BY <1>8, <2>1 DEF LinkDrops
    <3>3. g.conn => ~g'.conn
      BY <1>1, <3>2 DEF LinkReset, Gap
    <3>4. ~g.conn => /\ g'.deferred = g.deferred /\ g'.deferredTo = g.deferredTo /\ g'.to = g.to
                     /\ g'.deferredEnc = g.deferredEnc /\ g'.encrypt = g.encrypt
      BY <1>1, <3>2 DEF Gap
    <3> QED
      BY <2>0, <3>1, <3>2, <3>3, <3>4 DEF Faithful
  <2>2. CASE g.dying /\ ~g.deferred
    <3>1. g' = [[g EXCEPT !.peer = None, !.stuck = FALSE, !.sec = "none"] EXCEPT !.dying = FALSE]
          /\ out' = "none"
      BY <1>1, <1>8, <2>2 DEF LinkDrops, ConnectDeferred, Gap
    <3> QED
      BY <1>1, <2>0, <2>2, <3>1 DEF Faithful, Gap
  <2>3. CASE g.dying /\ g.deferred
    <3> DEFINE a == [g EXCEPT !.peer = None, !.stuck = FALSE, !.sec = "none"]
               x == [[a EXCEPT !.dying = FALSE] EXCEPT !.deferred = FALSE, !.connecting = FALSE]
               b(ok) == ConnectTo(x, g.deferredTo, g.deferredEnc, ok)
    <3>1. ASSUME NEW ok \in BOOLEAN
          PROVE  ConnectDeferred([a EXCEPT !.dying = FALSE], ok) = b(ok)
      BY <1>1, <2>3 DEF ConnectDeferred, Gap
    <3>2. PICK ok \in BOOLEAN :
             g' = b(ok) /\ out' = IF ~b(ok).connecting THEN "CONNECT_FAIL" ELSE "none"
      BY <1>8, <2>3, <3>1 DEF LinkDrops
    <3>3. ASSUME NEW y, y = x
          PROVE  Sound(y) /\ ~y.conn /\ ~y.connecting
      <4>1. /\ y.scanning = g.scanning /\ y.window = g.window /\ y.master = g.master /\ y.to = g.to
            /\ y.connecting = FALSE /\ y.cancelled = g.cancelled /\ y.scanDeferred = g.scanDeferred
            /\ y.deferred = FALSE /\ y.deferredTo = g.deferredTo /\ y.conn = g.conn
            /\ y.dying = FALSE /\ y.peer = None /\ y.stuck = FALSE
        BY <1>1, <3>3 DEF Gap
      <4>2. y \in Gap
        BY <1>1, <3>3 DEF Gap
      <4> QED
        BY <1>1, <2>3, <4>1, <4>2 DEF Sound
    <3>4. g.deferredTo \in Units /\ g.deferredEnc \in BOOLEAN
      BY <1>1, <2>3 DEF Sound, Gap
    <3>5. ASSUME NEW y, y = x, NEW u, u = ConnectTo(y, g.deferredTo, g.deferredEnc, ok)
          PROVE  u.connecting => Target(u) = g.deferredTo /\ Encrypts(u) = g.deferredEnc
      <4>1. Sound(y) /\ ~y.conn /\ ~y.connecting
        BY <3>3, <3>5
      <4> HIDE DEF x, Target, Encrypts
      <4> QED
        BY <3>2, <3>4, <3>5, <4>1, ConnectToDoes
    <3>6. g'.connecting => Target(g') = g.deferredTo /\ Encrypts(g') = g.deferredEnc
      BY <3>2, <3>5
    <3>7. out' \in {"CONNECT_FAIL", "none"} /\ ~g.conn
      BY <1>1, <2>3, <3>2
    <3> QED
      BY <2>0, <2>3, <3>6, <3>7 DEF Faithful
  <2> QED
    BY <2>1, <2>2, <2>3
<1> QED
  BY <1>2, <1>3, <1>4, <1>5, <1>6, <1>7, <1>8 DEF HostStep

\* What is left of a store of one bond.
LEMMA WithoutOne ==
    ASSUME NEW u, NEW v
    PROVE  /\ bonds = <<>> => Without(v) = <<>>
           /\ bonds = <<u>> => Without(v) = IF v = u THEN <<>> ELSE <<u>>
<1>1. bonds = <<>> => Without(v) = <<>>
  BY DEF Without, Bonded, ToSet
<1>2. ASSUME bonds = <<u>>, v # u PROVE Without(v) = <<u>>
  BY <1>2, OneBond DEF Without, Bonded
<1>3. ASSUME bonds = <<u>>, v = u PROVE Without(v) = <<>>
  <2>1. (CHOOSE i \in DOMAIN bonds : bonds[i] = v) = 1
    BY <1>3
  <2>2. Without(v) = SubSeq(bonds, 1, 0) \o SubSeq(bonds, 2, Len(bonds))
    BY <1>3, <2>1, OneBond DEF Without, Bonded, RemoveAt
  <2>3. SubSeq(bonds, 1, 0) = <<>> /\ SubSeq(bonds, 2, Len(bonds)) = <<>>
    BY <1>3
  <2> QED
    BY <2>2, <2>3
<1> QED
  BY <1>1, <1>2, <1>3

\* A link that is secure has its bond, and the only bond is lost when its unit has
\* lost it.
LEMMA HostBonds ==
    ASSUME RadioKnown, HostStep, NEW u
    PROVE  /\ (g.conn /\ g.sec = "on" => Bonded(g.peer)) =>
                (g'.conn /\ g'.sec = "on" => g'.peer \in ToSet(bonds'))
           /\ (bonds = <<u>> \/ (bonds = <<>> /\ u \notin keys)) /\ (g.conn => g.peer = u /\ g.sec # "typed") =>
                (bonds' = <<u>> \/ (bonds' = <<>> /\ u \notin keys'))
<1>1. g \in Gap /\ bonds \in Seq(Units) /\ (g.conn => g.peer \in Units) /\ Sound(g)
  <2>1. Sound(g) /\ bonds \in Seq(Units)
    BY SoundIsRadioKnown
  <2> QED
    BY <2>1 DEF Sound, Gap
<1>2. CASE bonds' = bonds /\ keys' = keys /\ (g'.conn /\ g'.sec = "on" => g.conn /\ g.sec = "on" /\ g'.peer = g.peer)
  BY <1>2 DEF Bonded
<1>3. CASE Advert \/ WindowEnds \/ PasskeyAction \/ ReadDone
  BY <1>1, <1>2, <1>3 DEF Gap, Advert, WindowEnds, PasskeyAction, ReadDone
<1>4. CASE UnitForgets
  BY <1>4 DEF UnitForgets, Bonded
<1>5. CASE Encrypted
  <2>1. /\ g.conn /\ (g.sec = "typed" \/ (g.sec = "enc" /\ g.peer \in keys))
        /\ g'.peer = g.peer
        /\ bonds' = (IF Bonded(g.peer) THEN bonds ELSE Append(bonds, g.peer))
        /\ keys' = keys \cup {g.peer}
    BY <1>1, <1>5 DEF Encrypted, Gap
  <2>2. g.peer \in ToSet(bonds')
    <3>1. CASE Bonded(g.peer)
      BY <2>1, <3>1 DEF Bonded
    <3>2. CASE ~Bonded(g.peer)
      <4>1. bonds' = Append(bonds, g.peer)
        BY <2>1, <3>2
      <4>2. Len(bonds) + 1 \in DOMAIN bonds' /\ bonds'[Len(bonds) + 1] = g.peer
        BY <1>1, <4>1
      <4> QED
        BY <4>2 DEF ToSet
    <3> QED
      BY <3>1, <3>2
  <2>3. ASSUME bonds = <<u>> \/ (bonds = <<>> /\ u \notin keys), g.peer = u, g.sec # "typed"
        PROVE  bonds' = <<u>>
    <3>1. bonds = <<u>>
      BY <2>1, <2>3
    <3> QED
      BY <2>1, <2>3, <3>1, OneBond DEF Bonded
  <2> QED
    BY <2>1, <2>2, <2>3
<1>6. CASE ProbeRefused \/ RepeatPairing
  <2>1. /\ bonds' = Without(g.peer) /\ keys' = keys /\ g.peer \notin keys
        /\ g'.sec # "on"
    BY <1>1, <1>6 DEF ProbeRefused, RepeatPairing, Secure, Gap
  <2> QED
    BY <2>1, WithoutOne
<1>7. CASE EncFails \/ TermFailure \/ ConnectFails
  <2>1. bonds' = bonds /\ keys' = keys
    BY <1>7 DEF EncFails, TermFailure, ConnectFails
  <2>2. CASE EncFails \/ TermFailure
    BY <1>1, <1>2, <2>1, <2>2 DEF EncFails, TermFailure, Gap
  <2>3. CASE ConnectFails
    <3>1. ~g.conn
      <4>1. g.master \in {"conn", "cancel"}
        BY <2>3 DEF ConnectFails
      <4> QED
        BY <1>1, <4>1 DEF Sound
    <3>2. out' \in {"none", "CONNECT_FAIL"}
      BY <2>3 DEF ConnectFails
    <3>3. g'.conn = g.conn \/ ~g'.conn
      BY <3>2, HostReports DEF Reported
    <3> QED
      BY <1>2, <2>1, <3>1, <3>3
  <2> QED
    BY <1>7, <2>2, <2>3
<1>8. CASE LinkMade
  <2>1. bonds' = bonds /\ keys' = keys
    BY <1>8 DEF LinkMade
  <2>2. g'.conn => g'.sec # "on"
    <3>1. ~g.conn
      <4>1. g.master \in {"conn", "cancel"}
        BY <1>8 DEF LinkMade
      <4> QED
        BY <1>1, <4>1 DEF Sound
    <3>2. CASE g.cancelled
      <4>1. out' = "none"
        BY <1>8, <3>2 DEF LinkMade
      <4> QED
        BY <3>1, <4>1, HostReports DEF Reported
    <3>3. CASE ~g.cancelled
      BY <1>1, <1>8, <3>3 DEF LinkMade, LinkReset, Gap
    <3> QED
      BY <3>2, <3>3
  <2> QED
    BY <1>2, <2>1, <2>2
<1>9. CASE LinkDrops
  <2>1. PICK stale \in BOOLEAN :
           /\ stale => g.peer \notin keys
           /\ bonds' = IF stale THEN Without(g.peer) ELSE bonds
    BY <1>9 DEF LinkDrops
  <2>2. keys' = keys
    BY <1>9 DEF LinkDrops
  <2>3. ~g'.conn
    <3>1. CASE ~g.conn
      <4>1. out' # "CONNECTED"
        BY <1>9 DEF LinkDrops
      <4> QED
        BY <1>1, <3>1, <4>1, HostReports DEF Reported
    <3>2. CASE g.conn
      <4>1. ~g.dying
        BY <1>1, <3>2 DEF Sound
      <4>2. out' = "DISCONNECTED"
        BY <1>9, <3>2, <4>1 DEF LinkDrops
      <4> QED
        BY <4>2, HostReports DEF Reported
    <3> QED
      BY <3>1, <3>2
  <2> QED
    BY <2>1, <2>2, <2>3, WithoutOne
<1> QED
  BY <1>3, <1>4, <1>5, <1>6, <1>7, <1>8, <1>9 DEF HostStep

\* A step of the host keeps the invariant.
LEMMA HostKeeps ==
    ASSUME UnitsAssumption, PInv, Host
    PROVE  PInv'
<1> USE DEF NoScan, NoLink, Linked, Next1, Outside, States, Flow
<1>1. Quiet /\ HostStep
  BY DEF Host, HostStep
<1>2. /\ RadioKnown /\ OwnInv /\ UnitInv /\ OneThing /\ out = "none"
      /\ q = <<>> /\ acts = <<>> /\ changed = FALSE /\ resume = FALSE
      /\ Sound(g) /\ (st \in Flow => sess = "off") /\ st \in States
      /\ st \in Outside => NoScan /\ Linked
  BY <1>1, DrainedAlone DEF Quiet
<1>3. /\ st' = st /\ q' = q /\ acts' = acts /\ changed' = changed /\ sess' = sess
      /\ verified' = verified
  BY DEF Host, machine
<1>4. RadioKnown'
  <2>1. Next
    BY <1>1 DEF HostStep, Next, HostEvent
  <2> QED
    BY <1>2, <2>1, RadioStep
<1>5. Reported
  BY <1>1, <1>2, HostReports
<1>6. Faithful
  BY <1>1, <1>2, HostFaithful
<1>7. OneThing'
  BY <1>2, <1>3 DEF OneThing, Routing
<1>8. ~(g.conn /\ g.connecting) /\ ~(g'.conn /\ g'.connecting)
  BY <1>2, <1>4 DEF RadioKnown, SlotKnown
<1>9. /\ g.conn \in BOOLEAN /\ g.connecting \in BOOLEAN /\ g'.conn \in BOOLEAN /\ g'.connecting \in BOOLEAN
  BY <1>2, <1>4 DEF RadioKnown, TypeOK, Gap
<1>10. OutsideOwned'
  <2>1. SUFFICES ASSUME st \in Outside PROVE OutsideOwned'
    BY <1>3 DEF OutsideOwned
  <2>2. NoScan'
    BY <1>2, <1>5, <2>1 DEF Reported
  <2> QED
    BY <1>2, <1>3, <1>5, <1>8, <1>9, <2>1, <2>2, Lists DEF OutsideOwned, Reported
<1>11. ScanningOwned'
  BY <1>2, <1>3, <1>5, <1>9, Lists DEF OwnInv, ScanningOwned, Reported
<1>12. ConnectingOwned'
  BY <1>2, <1>3, <1>5, <1>9, Lists DEF OwnInv, ConnectingOwned, Reported
<1>13. PairingOwned'
  BY <1>2, <1>3, <1>5, <1>9, Lists DEF OwnInv, PairingOwned, Reported
<1>14. ResettingOwned'
  BY <1>2, <1>3, <1>5, <1>9, Lists DEF OwnInv, ResettingOwned, Reported
<1>15. OwnInv'
  BY <1>2, <1>3, <1>7, <1>10, <1>11, <1>12, <1>13, <1>14 DEF OwnInv
<1>16. (g.conn /\ g.sec = "on" => Bonded(g.peer))
  BY <1>2 DEF UnitInv
<1>17. (g'.conn /\ g'.sec = "on" => g'.peer \in ToSet(bonds'))
  BY <1>1, <1>2, <1>16, HostBonds
<1>18. resume' => st \notin Flow
  <2>1. SUFFICES ASSUME resume', st \in Flow PROVE FALSE
    OBVIOUS
  <2>2. out' = "CONNECTED" /\ Encrypts(g) /\ g.connecting
    BY <1>5, <1>6, <2>1 DEF Faithful, Reported
  <2>3. st = "connecting"
    BY <1>2, <2>1, <2>2, Lists DEF OwnInv, OutsideOwned, ScanningOwned, ConnectingOwned, PairingOwned, ResettingOwned
  <2> QED
    BY <1>2, <2>2, <2>3 DEF UnitInv, Encrypts
<1>19. st = "connecting" /\ g'.connecting => ~Encrypts(g')
  <2>1. SUFFICES ASSUME st = "connecting", g'.connecting PROVE ~Encrypts(g')
    OBVIOUS
  <2>2. g.connecting
    BY <1>5, <1>8, <1>9, <2>1 DEF Reported
  <2>3. ~Encrypts(g)
    BY <1>2, <2>1, <2>2 DEF UnitInv, Encrypts
  <2> QED
    BY <1>6, <2>1, <2>2, <2>3 DEF Faithful
<1>20. st = "verifying" /\ g'.conn => g'.sec = "on"
  <2>1. SUFFICES ASSUME st = "verifying", g'.conn PROVE g'.sec = "on"
    OBVIOUS
  <2>2. ~g.connecting
    BY <1>2, <2>1 DEF OwnInv, PairingOwned
  <2>3. g.conn
    BY <1>5, <1>9, <2>1, <2>2 DEF Reported
  <2> QED
    BY <1>2, <1>6, <2>1, <2>3 DEF Faithful, UnitInv
<1>21. st = "bonded" => Verified(verified)'
  <2>1. SUFFICES ASSUME st = "bonded" PROVE Verified(verified)'
    OBVIOUS
  <2>2. Verified(verified)
    BY <1>2, <2>1 DEF UnitInv
  <2>3. bonds' = <<verified>> \/ (bonds' = <<>> /\ verified \notin keys')
    <3>1. ASSUME NEW u, u = verified
          PROVE  bonds' = <<u>> \/ (bonds' = <<>> /\ u \notin keys')
      BY <1>1, <1>2, <2>2, <3>1, HostBonds DEF Verified
    <3> QED
      BY <3>1
  <2>4. g'.conn => g'.peer = verified /\ g'.sec # "typed"
    <3>1. CASE g.conn
      BY <1>6, <2>2, <3>1 DEF Verified, Faithful
    <3>2. CASE ~g.conn
      <4>1. SUFFICES ASSUME g'.conn PROVE g'.peer = verified /\ g'.sec # "typed"
        OBVIOUS
      <4>2. out' = "CONNECTED" /\ g.connecting
        BY <1>5, <1>9, <3>2, <4>1 DEF Reported
      <4>3. Target(g) = verified
        BY <2>2, <4>2 DEF Verified, Target
      <4> QED
        BY <1>6, <4>2, <4>3 DEF Faithful
    <3> QED
      BY <3>1, <3>2
  <2>5. g'.connecting => Target(g') = verified
    <3>1. SUFFICES ASSUME g'.connecting PROVE Target(g') = verified
      OBVIOUS
    <3>2. g.connecting
      BY <1>5, <1>8, <1>9, <3>1 DEF Reported
    <3>3. Target(g) = verified
      BY <2>2, <3>2 DEF Verified, Target
    <3> QED
      BY <1>6, <3>1, <3>2, <3>3 DEF Faithful
  <2> QED
    BY <1>3, <2>3, <2>4, <2>5 DEF Verified, Target
<1>22. UnitInv'
  <2>1. out' = "ENC_OK" => g'.sec = "on"
    BY <1>6 DEF Faithful
  <2> QED
    BY <1>2, <1>3, <1>17, <1>18, <1>19, <1>20, <1>21, <2>1, Lists DEF UnitInv, Bonded, Encrypts
<1> QED
  BY <1>4, <1>15, <1>22 DEF PInv

\* The resumed encryption of a stored bond keeps the invariant.
LEMMA ResumeKeeps ==
    ASSUME UnitsAssumption, PInv, Resume
    PROVE  PInv'
<1> USE DEF NoScan, NoLink, Linked, Next1, Outside, States, Flow
<1>1. /\ RadioKnown /\ OwnInv /\ UnitInv /\ OneThing /\ out = "none"
      /\ q = <<>> /\ acts = <<>> /\ changed = FALSE
      /\ Sound(g) /\ (st \in Flow => resume = FALSE) /\ st \in States
      /\ st \in Outside => NoScan /\ Linked
  BY DrainedAlone DEF Resume
<1>2. /\ st' = st /\ q' = q /\ acts' = acts /\ changed' = changed /\ sess' = sess
      /\ verified' = verified /\ EncryptOnConnect
  BY DEF Resume, machine
<1>3. RadioKnown'
  <2>1. Next
    BY <1>2 DEF Next, HostEvent
  <2> QED
    BY <1>1, <2>1, RadioStep
<1>4. resume /\ resume' = FALSE /\ bonds' = bonds /\ keys' = keys /\ out' \in {"none", "ENC_FAIL"}
  BY <1>2 DEF EncryptOnConnect
<1>5. st \in Outside /\ NoScan /\ Linked
  BY <1>1, <1>4
<1>6. /\ SameScan(g', g) /\ g'.conn = g.conn /\ g'.connecting = g.connecting /\ g'.peer = g.peer
      /\ g'.sec = "on" => g.sec = "on"
      /\ g'.sec = "typed" => g.sec = "typed"
      /\ Target(g') = Target(g)
  <2>0. g \in Gap
    BY <1>1 DEF Sound
  <2>1. PICK ok \in BOOLEAN :
          \/ g' = g
          \/ g' = Secure([g EXCEPT !.encrypt = FALSE], Bonded(g.peer))
          \/ g' = [g EXCEPT !.encrypt = FALSE]
    BY <1>2 DEF EncryptOnConnect
  <2>2. ASSUME NEW stored \in BOOLEAN, g' = Secure([g EXCEPT !.encrypt = FALSE], stored)
        PROVE  /\ SameScan(g', g) /\ g'.conn = g.conn /\ g'.connecting = g.connecting /\ g'.peer = g.peer
               /\ g'.sec \in {"enc", "smp"} /\ Target(g') = Target(g)
    BY <2>0, <2>2 DEF Secure, Gap, SameScan, Target
  <2>3. Bonded(g.peer) \in BOOLEAN
    BY DEF Bonded
  <2>4. CASE g' = Secure([g EXCEPT !.encrypt = FALSE], Bonded(g.peer))
    BY <2>2, <2>3, <2>4
  <2>5. CASE g' = g
    BY <2>5 DEF SameScan
  <2>6. CASE g' = [g EXCEPT !.encrypt = FALSE]
    BY <2>0, <2>6 DEF Gap, SameScan, Target
  <2> QED
    BY <2>1, <2>4, <2>5, <2>6
<1>7. OneThing'
  BY <1>1, <1>2 DEF OneThing, Routing
<1>8. OwnInv'
  BY <1>1, <1>2, <1>4, <1>5, <1>6, <1>7, Lists DEF SameScan, OwnInv, OutsideOwned, ScanningOwned, ConnectingOwned, PairingOwned, ResettingOwned
<1>9. UnitInv'
  BY <1>1, <1>2, <1>4, <1>5, <1>6, Lists DEF UnitInv, Verified, Bonded, Target
<1> QED
  BY <1>3, <1>8, <1>9 DEF PInv

-----------------------------------------------------------------------------
(* The theorems.                                                            *)

\* The flow and its runner start sound.
LEMMA PInvInit ==
    ASSUME UnitsAssumption, PairInit
    PROVE  PInv
<1>1. /\ g = NoGap /\ bonds = <<>> /\ keys = {} /\ out = "none" /\ resume = FALSE
      /\ st = "idle" /\ q = <<>> /\ acts = <<>> /\ changed = FALSE /\ sess = "off"
  BY DEF PairInit, Init
<1>2. RadioKnown
  BY RadioStarts DEF PairInit
<1>3. OwnInv
  BY <1>1, Lists DEF NoGap, OwnInv, OutsideOwned, ScanningOwned, ConnectingOwned, PairingOwned, ResettingOwned, OneThing, Outside, States, Flow, NoScan, NoLink, Linked, Next1, Routing
<1>4. UnitInv
  BY <1>1, Lists DEF NoGap, UnitInv, Next1
<1> QED
  BY <1>2, <1>3, <1>4 DEF PInv

\* Every step keeps the invariant.
LEMMA PInvNext ==
    ASSUME UnitsAssumption, PairingAssumption, PInv, [PairNext]_pairVars
    PROVE  PInv'
<1>1. CASE RouteToMachine \/ RouteVerify \/ RouteToSession
  BY <1>1, RouteToMachineKeeps, RouteVerifyKeeps, RouteToSessionKeeps
<1>2. CASE RunAction
  BY <1>2, RunKeeps
<1>3. CASE OnState
  BY <1>3, OnStateKeeps
<1>4. CASE PairStep
  BY <1>4, StepKeeps
<1>5. CASE Resume
  BY <1>5, ResumeKeeps
<1>6. CASE Host
  BY <1>6, HostKeeps
<1>7. CASE Command \/ Tick
  BY <1>7, CommandKeeps, TickKeeps
<1>8. CASE SessionConnects \/ SessionDrops \/ SensorWindow
  BY <1>8, SessionConnectsKeeps, SessionDropsKeeps, SensorWindowKeeps
<1>9. CASE UNCHANGED pairVars
  BY <1>9 DEF pairVars, vars, machine, PInv, RadioKnown, TypeOK, FlagsTrue, SlotKnown, UnitInv,
              Verified, Bonded, OneThing, Outside, NoScan, NoLink, Linked, Next1, Routing, OwnInv, OutsideOwned, ScanningOwned, ConnectingOwned, PairingOwned, ResettingOwned
<1> QED
  BY <1>1, <1>2, <1>3, <1>4, <1>5, <1>6, <1>7, <1>8, <1>9 DEF PairNext, Runner

\* The flow, its runner and the radio always hold the invariant.
LEMMA PairingInvariant == ASSUME UnitsAssumption
                          PROVE  PairSpec => []PInv
<1>1. PairInit => PInv
  BY PInvInit
<1>2. PInv /\ [PairNext]_pairVars => PInv'
  BY PInvNext, PairingAssumption
<1> QED
  BY <1>1, <1>2, PTL DEF PairSpec

\* Whatever the units, the controller and the owner do: outside a pairing flow the
\* radio is the session's, in it the flow's, a flow has what it waits for, and once
\* bonded no bond is stored but that of the unit which was verified (runner.c,
\* console.c on_state, t_keep_only_bond).
THEOREM PairingFlowIsClean == ASSUME UnitsAssumption
                              PROVE  PairSpec => []FlowIsClean
<1>1. PInv => FlowIsClean
  <2> SUFFICES ASSUME PInv PROVE FlowIsClean
    OBVIOUS
  <2> USE DEF NoScan, NoLink, Linked, Next1, Outside, States, Flow
  <2>1. SUFFICES ASSUME Quiet PROVE FlowIsClean
    BY DEF FlowIsClean, RadioOwned, RadioReturned, RadioTaken, FlowHasCause, OneUnit
  <2>2. /\ RadioKnown /\ OwnInv /\ UnitInv /\ OneThing /\ out = "none"
        /\ q = <<>> /\ acts = <<>> /\ changed = FALSE
        /\ (st \in Flow => sess = "off") /\ st \in States
        /\ st \in Outside => NoScan /\ Linked
    BY <2>1, DrainedAlone DEF Quiet
  <2>3. RadioReturned
    BY <2>2 DEF RadioReturned
  <2>4. RadioTaken
    BY <2>2, Lists DEF RadioTaken, OwnInv, OutsideOwned, ScanningOwned, ConnectingOwned, PairingOwned, ResettingOwned
  <2>5. FlowHasCause
    BY <2>2, Lists DEF FlowHasCause, OwnInv, OutsideOwned, ScanningOwned, ConnectingOwned, PairingOwned, ResettingOwned
  <2>6. OneUnit
    BY <2>2 DEF OneUnit, UnitInv, Verified
  <2> QED
    BY <2>3, <2>4, <2>5, <2>6 DEF FlowIsClean, RadioOwned
<1> QED
  BY <1>1, PairingInvariant, PTL

\* Whatever a step's actions report from inside the transport's calls, at most one
\* event waits in the queue of runner.c (feed): it never overflows.
THEOREM PairingQueueFits == ASSUME UnitsAssumption
                            PROVE  PairSpec => []QueueFits
<1>1. PInv => QueueFits
  <2> SUFFICES ASSUME PInv PROVE QueueFits
    OBVIOUS
  <2>1. q = <<>> \/ \E e \in Events : q = <<e>>
    BY DEF PInv, OwnInv, OneThing
  <2> QED
    <3>1. Len(<<>>) = 0
      OBVIOUS
    <3>2. \A e : Len(<<e>>) = 1
      BY Lists
    <3>3. Len(q) \in {0, 1}
      BY <2>1, <3>1, <3>2
    <3>4. \A n \in {0, 1} : n <= 1
      OBVIOUS
    <3> QED
      BY <3>3, <3>4 DEF QueueFits
<1> QED
  BY <1>1, PairingInvariant, PTL
=============================================================================
