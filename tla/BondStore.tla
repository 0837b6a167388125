----------------------------- MODULE BondStore ------------------------------
(***************************************************************************)
(* One table of the bond store (ble_store_kv.c): records in RAM, mirrored  *)
(* one per slot of the key-value store.  A write of a slot is atomic, the  *)
(* rewrite of a table is not: it goes slot by slot, a write may fail, and  *)
(* the power may go between two of them.  The next boot compacts what it   *)
(* finds.  The three tables (our keys, the peer's keys, subscriptions)     *)
(* share this code; a record is its key and a payload.                     *)
(***************************************************************************)
EXTENDS Integers, Sequences, SequencesExt

CONSTANTS
    Keys,          \* what makes two records one: a peer, or a peer and a handle
    Payloads,
    MaxRecords,    \* MAX_BONDS, MAX_CCCDS
    MaxRots        \* bound: slots that rot

VARIABLES
    table,         \* the records in RAM, in order (vals, num)
    slots,         \* the store
    usedSlots,     \* used_slots: slots with something in the store
    at,            \* the slot table_persist() is at, or Idle
    failed,        \* its rc
    before,        \* history: the table before the running call
    deleting,      \* history: the key the running call deletes, or none
    gone,          \* history: keys whose delete was acknowledged
    sound,         \* history: the store has followed the table
    rots

bondVars == <<table, slots, usedSlots, at, failed, before, deleting, gone, sound, rots>>

\* A table has room for one record.
ASSUME BondAssumption == MaxRecords \in Nat \ {0}

-----------------------------------------------------------------------------
(* Data.                                                                    *)

Idle == 0
Slots == 1..MaxRecords
Free == [kind |-> "free"]
Corrupt == [kind |-> "corrupt"]
Record(k, p) == [kind |-> "record", key |-> k, payload |-> p]
Records == {Record(k, p) : k \in Keys, p \in Payloads}

KeysOf(t) == {t[m].key : m \in DOMAIN t}
IndexOf(t, k) == CHOOSE m \in DOMAIN t : t[m].key = k

\* table_load() takes a slot's record unless it is free, corrupt or a copy.
Taken(t, r) ==
    /\ r.kind = "record"
    /\ r.key \notin KeysOf(t)

TableLoad(s) ==
    LET loaded[n \in 0..MaxRecords] ==
            IF n = 0 THEN <<>>
            ELSE IF Taken(loaded[n - 1], s[n]) THEN Append(loaded[n - 1], s[n])
            ELSE loaded[n - 1]
    IN  loaded[MaxRecords]

NotFree(s) == {n \in Slots : s[n].kind # "free"}

-----------------------------------------------------------------------------

BondInit ==
    /\ slots = [n \in Slots |-> Free]
    /\ table = <<>>
    /\ usedSlots = {}
    /\ at = Idle
    /\ failed = FALSE
    /\ before = <<>>
    /\ deleting = {}
    /\ gone = {}
    /\ sound = TRUE
    /\ rots = 0

\* Every call that changes the table goes on to table_persist().
Persisting(t, del) ==
    /\ table' = t
    /\ before' = table
    /\ deleting' = del
    /\ at' = 1
    /\ failed' = FALSE
    /\ UNCHANGED <<slots, usedSlots, sound, rots>>

\* store_write(): over the record of the same key, else appended; a full
\* table refuses (BLE_HS_ESTORE_CAP) and nothing changes.
StoreWrite(k, p) ==
    /\ at = Idle
    /\ k \in KeysOf(table) \/ Len(table) < MaxRecords
    /\ gone' = gone \ {k}
    /\ IF k \in KeysOf(table)
       THEN Persisting([table EXCEPT ![IndexOf(table, k)] = Record(k, p)], {})
       ELSE Persisting(Append(table, Record(k, p)), {})

\* store_delete(): the record found by its key or by its index.
StoreDelete(m) ==
    /\ at = Idle
    /\ m \in DOMAIN table
    /\ Persisting(RemoveAt(table, m), {table[m].key})
    /\ UNCHANGED gone

\* cali_kv_set() on the slot at hand: written, or refused and as it was.
SetSlot(r, ok) ==
    /\ slots' = IF ok THEN [slots EXCEPT ![at] = r] ELSE slots
    /\ failed' = (failed \/ ~ok)

\* A slip: a slot that could not be cleared counts as free.
RejectedCleared(ok) == usedSlots \ {at}

Cleared(ok) == IF ok THEN usedSlots \ {at} ELSE usedSlots

\* The end of table_persist(): what its caller is told.
Returns ==
    IF at < MaxRecords
    THEN at' = at + 1 /\ UNCHANGED <<before, deleting, gone, sound>>
    ELSE /\ at' = Idle
         /\ before' = table
         /\ deleting' = {}
         /\ gone' = IF failed' THEN gone ELSE gone \cup deleting
         /\ sound' = ~failed'

\* One slot of table_persist().
PersistRecord(ok) ==
    /\ at # Idle
    /\ at <= Len(table)
    /\ SetSlot(table[at], ok)
    /\ usedSlots' = IF ok THEN usedSlots \cup {at} ELSE usedSlots
    /\ Returns
    /\ UNCHANGED <<table, rots>>

PersistClear(ok) ==
    /\ at > Len(table)
    /\ at \in usedSlots
    /\ SetSlot(Free, ok)
    /\ usedSlots' = Cleared(ok)
    /\ Returns
    /\ UNCHANGED <<table, rots>>

PersistSkip ==
    /\ at > Len(table)
    /\ at \notin usedSlots
    /\ UNCHANGED <<table, slots, usedSlots, failed, rots>>
    /\ Returns

\* The power goes, at any slot; the boot loads what is there.
PowerCut ==
    /\ table' = TableLoad(slots)
    /\ usedSlots' = NotFree(slots)
    /\ at' = Idle
    /\ failed' = FALSE
    /\ before' = table'
    /\ deleting' = {}
    /\ sound' = TRUE
    /\ UNCHANGED <<slots, gone, rots>>

\* Between two calls a stored record rots: it reads back CALI_KV_CORRUPT.
Rot(n) ==
    /\ at = Idle
    /\ rots < MaxRots
    /\ slots[n].kind = "record"
    /\ slots' = [slots EXCEPT ![n] = Corrupt]
    /\ sound' = FALSE
    /\ rots' = rots + 1
    /\ UNCHANGED <<table, usedSlots, at, failed, before, deleting, gone>>

BondNext ==
    \/ \E k \in Keys, p \in Payloads : StoreWrite(k, p)
    \/ \E m \in 1..MaxRecords : StoreDelete(m)
    \/ \E ok \in BOOLEAN : PersistRecord(ok) \/ PersistClear(ok)
    \/ PersistSkip
    \/ PowerCut
    \/ \E n \in Slots : Rot(n)

BondSpec == BondInit /\ [][BondNext]_bondVars

-----------------------------------------------------------------------------

\* While the store has followed the table, a boot at any point of a rewrite
\* finds every record that the running call does not change, as it is and
\* not an older copy of it, and no bond that was in neither the old table
\* nor the new one.  (A write that failed or a slot that rotted ends this
\* until the next rewrite went through.)
BondsKept ==
    (sound /\ ~failed) =>
        LET found == Range(TableLoad(slots))
        IN  /\ Range(before) \cap Range(table) \subseteq found
            /\ KeysOf(TableLoad(slots)) \subseteq KeysOf(before) \cup KeysOf(table)

\* A bond whose delete was acknowledged never comes back, whatever was cut
\* off, failed or rotted before or after: not in RAM, and not at a boot.
DeletedStaysGone ==
    /\ gone \cap KeysOf(table) = {}
    /\ gone \cap KeysOf(TableLoad(slots)) = {}

\* Both: the table in flash has the bonds that stay and none that went, at
\* every point of a rewrite (ble_store_kv.c table_persist).
BondInv == BondsKept /\ DeletedStaysGone
=============================================================================
