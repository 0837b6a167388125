-------------------------------- MODULE Gatt --------------------------------
(***************************************************************************)
(* The GATT side of the NimBLE transport                                   *)
(* (firmware/components/cali_ble_nimble/ble_nimble.c): the queue that runs *)
(* one ATT operation at a time, the generation that tells a callback of an *)
(* earlier link from one of this link, the link that is known to go down   *)
(* before its DISCONNECTED, and the cached characteristic table.           *)
(*                                                                         *)
(* An operation is an id with a kind.  procs are the procedures the host   *)
(* runs for us, each with the generation, the operation and the peer it    *)
(* was started for; the host ends each with one callback, at any time, a   *)
(* later link included.  A characteristic table is the set of the peers    *)
(* whose handles it holds.  Module Transport has the life of the link.     *)
(***************************************************************************)
EXTENDS Naturals, Sequences

CONSTANTS
    Peers,      \* peers
    NoPeer,     \* no peer
    Ids,        \* names for operations; one in use is not given again
    OpQ,        \* OPQ, the length of the queue
    MaxGen      \* bound on s_gen: the links of one behaviour

ASSUME GattAssumption == NoPeer \notin Peers /\ OpQ \in Nat \ {0} /\ MaxGen \in Nat

VARIABLES
    conn,       \* s_conn: the peer of the current link
    dying,      \* s_dying
    gen,        \* s_gen
    ops,        \* s_ops: the queue, its head the running operation
    busy,       \* s_op_busy
    procs,      \* procedures the host has not ended
    table,      \* s_chrs: the peers its handles are of
    full,       \* s_disc_done: the table is complete, its end handles known
    cache,      \* s_cache_peer, NoPeer when the cache is not valid
    cached      \* s_cache: the peers its handles are of

opQueue == <<conn, dying, gen, ops, busy>>
tables == <<table, full, cache, cached>>
gattVars == <<opQueue, procs, tables>>

Kinds == {"disc", "read", "write", "sub"}
Ops == [id : Ids, kind : Kinds]
Procs == [gen : 0..MaxGen, id : Ids, peer : Peers,
          step : {"mtu", "chars", "lookup", "request", "dscs"}]

Queued == {ops[k].id : k \in DOMAIN ops}
InUse == Queued \cup {p.id : p \in procs}

\* What the host is given; the callback's arg is the generation.
Proc(step) == [gen |-> gen, id |-> Head(ops).id, peer |-> conn, step |-> step]

GattInit ==
    /\ conn = NoPeer /\ dying = FALSE /\ gen = 0
    /\ ops = <<>> /\ busy = FALSE /\ procs = {}
    /\ table = {} /\ full = FALSE /\ cache = NoPeer /\ cached = {}

-----------------------------------------------------------------------------
(* Rejected* operators are variants of the definition that follows them    *)
(* with a slip in it; each shows that a property below can fail.           *)

\* A link that is going down still takes operations.
RejectedPushDying ==
    /\ conn # NoPeer /\ Len(ops) < OpQ
    /\ \E id \in Ids \ InUse, k \in Kinds : ops' = Append(ops, [id |-> id, kind |-> k])
    /\ UNCHANGED <<conn, dying, gen, busy, procs, tables>>

\* op_push(): refused without a link, on a dying one, and when the queue is full.
\* Also from the sink, before op_finish() kicks.
Push ==
    /\ conn # NoPeer /\ ~dying /\ Len(ops) < OpQ
    /\ \E id \in Ids \ InUse, k \in Kinds : ops' = Append(ops, [id |-> id, kind |-> k])
    /\ UNCHANGED <<conn, dying, gen, busy, procs, tables>>

\* op_kick() follows every push and every end of an operation: no event of the
\* host comes while it has something to start.
Kickable == ~busy /\ ops # <<>>

\* op_finish() with ENOTCONN: the queue is dropped silently, the link is going down.
FinishGone ==
    /\ gen < MaxGen
    /\ dying' = TRUE /\ gen' = gen + 1
    /\ ops' = <<>> /\ busy' = FALSE
    /\ UNCHANGED conn

\* op_finish() with any other status: the head of the queue has its answer.
FinishHead == ops' = Tail(ops) /\ busy' = FALSE /\ UNCHANGED <<conn, dying, gen>>

\* The host takes a procedure for the head of the queue, in place of those in ended.
Started(step, ended) ==
    /\ busy' = TRUE /\ procs' = (procs \ ended) \cup {Proc(step)}
    /\ UNCHANGED <<conn, dying, gen, ops>>

\* ... or refuses it.
NotStarted(ended) == procs' = procs \ ended /\ (FinishHead \/ FinishGone)

\* disc_start(), cache_take(): the table from the cache if it is this peer's.
DiscFromCache(ended) ==
    /\ cache = conn
    /\ table' = cached /\ full' = TRUE /\ UNCHANGED <<cache, cached>>
    /\ procs' = procs \ ended /\ FinishHead

\* ... else a walk, and the other peer's table is dropped.
DiscWalk(ended) ==
    /\ cache # conn
    /\ cache' = NoPeer /\ table' = {} /\ full' = FALSE /\ UNCHANGED cached
    /\ Started("chars", ended) \/ NotStarted(ended)

DiscStart(ended) == DiscFromCache(ended) \/ DiscWalk(ended)

\* op_begin() of a discovery: the MTU exchange first; refused, the discovery at once.
BeginDisc ==
    /\ Kickable /\ Head(ops).kind = "disc"
    /\ \/ /\ table' = {} /\ full' = FALSE /\ UNCHANGED <<cache, cached>>
          /\ Started("mtu", {})
       \/ DiscStart({})

\* op_begin() of a subscription: the known CCCD or a search for it, within a
\* characteristic whose end a complete discovery found.
BeginSub ==
    /\ Kickable /\ Head(ops).kind = "sub"
    /\ \/ full /\ table # {} /\ (Started("dscs", {}) \/ Started("request", {}))
       \/ NotStarted({})
    /\ UNCHANGED tables

\* op_begin() of a read or a write: the request when the characteristic is known,
\* a search for it while the table is not complete.
BeginRequest ==
    /\ Kickable /\ Head(ops).kind \in {"read", "write"}
    /\ \/ table # {} /\ Started("request", {})
       \/ ~full /\ Started("lookup", {})
       \/ NotStarted({})
    /\ UNCHANGED tables

Kick == BeginDisc \/ BeginSub \/ BeginRequest

-----------------------------------------------------------------------------
(* The host's callbacks: on_mtu, on_disc_chr, on_lookup, on_dsc, on_read,  *)
(* on_written.  Each first compares the generation it was started under.   *)

Fresh(p) == p.gen = gen

Stale(p) == ~Fresh(p) /\ procs' = procs \ {p} /\ UNCHANGED <<opQueue, tables>>

\* Any of them with ENOTCONN.
LinkGone(p) == Fresh(p) /\ procs' = procs \ {p} /\ FinishGone /\ UNCHANGED tables

\* A discovery that is not started after the MTU exchange is not ended.
RejectedOnMtu(p) ==
    /\ Fresh(p) /\ p.step = "mtu"
    /\ \/ DiscStart({p})
       \/ procs' = procs \ {p} /\ UNCHANGED <<opQueue, tables>>

\* The MTU is exchanged or refused, never fatal.
OnMtu(p) == Fresh(p) /\ p.step = "mtu" /\ DiscStart({p})

\* add_chr(): a walk or a search reports a characteristic and goes on.
OnChr(p) ==
    /\ Fresh(p) /\ p.step \in {"chars", "lookup"}
    /\ table' = table \cup {p.peer}
    /\ UNCHANGED <<opQueue, procs, full, cache, cached>>

\* on_disc_chr() at the end of the walk, with cache_store().
OnWalked(p) ==
    /\ Fresh(p) /\ p.step = "chars" /\ procs' = procs \ {p}
    /\ full' = TRUE /\ UNCHANGED table
    /\ IF table = {} THEN UNCHANGED <<cache, cached>> ELSE cache' = conn /\ cached' = table
    /\ FinishHead

\* The characteristic was found (on_lookup) or its CCCD was (on_dsc, which keeps
\* it in the cache): the operation's own request follows.
OnFound(p) ==
    /\ Fresh(p) /\ p.step \in {"lookup", "dscs"} /\ table # {}
    /\ cached' = IF p.step = "dscs" /\ cache # NoPeer THEN table ELSE cached
    /\ Started("request", {p}) \/ NotStarted({p})
    /\ UNCHANGED <<table, full, cache>>

\* The operation ends, well or not; an ATT handle error drops the cache.
OnEnd(p) ==
    /\ Fresh(p) /\ p.step # "mtu" /\ procs' = procs \ {p}
    /\ cache' \in {cache, NoPeer}
    /\ FinishHead /\ UNCHANGED <<table, full, cached>>

Callback ==
    /\ ~Kickable
    /\ \E p \in procs : Stale(p) \/ LinkGone(p) \/ OnMtu(p) \/ OnChr(p) \/ OnWalked(p)
                        \/ OnFound(p) \/ OnEnd(p)

-----------------------------------------------------------------------------
\* The table of the link before is kept.
RejectedGattReset ==
    /\ gen < MaxGen /\ gen' = gen + 1
    /\ dying' = FALSE /\ ops' = <<>> /\ busy' = FALSE
    /\ UNCHANGED <<procs, tables>>

\* link_reset(), up to s_conn.
GattReset ==
    /\ gen < MaxGen /\ gen' = gen + 1
    /\ dying' = FALSE /\ ops' = <<>> /\ busy' = FALSE
    /\ table' = {} /\ full' = FALSE
    /\ UNCHANGED <<procs, cache, cached>>

\* t_disconnect(), also from the sink; the host's DISCONNECT; on_reset().
LinkEnds == conn # NoPeer /\ conn' = NoPeer /\ GattReset

\* The host's CONNECT.
PeerLinked == conn = NoPeer /\ conn' \in Peers /\ GattReset

\* cache_drop() of t_pair(), t_remove_bond(), forget_peer() and a notification on
\* an unknown handle.
CacheDrop == cache' = NoPeer /\ UNCHANGED <<opQueue, procs, table, full, cached>>

GattNext == Push \/ Kick \/ Callback \/ LinkEnds \/ PeerLinked \/ CacheDrop

GattSpec == GattInit /\ [][GattNext]_gattVars

-----------------------------------------------------------------------------
\* Type correctness of ble_nimble.c's statics as modelled; the queue keeps its limit.
GattTypeOK ==
    /\ conn \in Peers \cup {NoPeer} /\ dying \in BOOLEAN /\ gen \in 0..MaxGen
    /\ ops \in Seq(Ops) /\ Len(ops) <= OpQ /\ busy \in BOOLEAN
    /\ procs \subseteq Procs
    /\ table \subseteq Peers /\ full \in BOOLEAN
    /\ cache \in Peers \cup {NoPeer} /\ cached \subseteq Peers

\* The queue is busy exactly while the host runs one procedure of this generation,
\* and that one is for the head of the queue: an answer is reported for the
\* operation it answers, whatever callbacks of earlier links still come, and no
\* operation waits for a callback that nothing will make (op_kick, op_finish).
OneProc ==
    /\ busy <=> \E p \in procs : Fresh(p)
    /\ \A p, q \in procs : Fresh(p) /\ Fresh(q) => p = q
    /\ \A p \in procs : Fresh(p) => ops # <<>> /\ p.id = Head(ops).id /\ p.peer = conn

\* No request is given to the host without a link or on a link that is known to go
\* down: NimBLE would keep it for the handle, which the next link reuses, and stall
\* that link's queue (op_finish, op_push).
NoRequestOnDying == [][procs' \subseteq procs \/ (conn # NoPeer /\ ~dying)]_gattVars

\* The handles in use are the current peer's: a unit is never written to through
\* the handles of another (link_reset, cache_take, add_chr).
TableIsPeers == conn # NoPeer => table \subseteq {conn}

\* The cache holds the handles of the peer it is kept for, also after a
\* subscription refreshed it on the strength of "valid = this link's peer's"
\* (on_dsc, cache_store).
CacheIsPeers == cache # NoPeer => cached \subseteq {cache}

\* What these rest on.  The queue: no procedure is of a generation to come, and
\* operations wait only on a live link.
QueueInv ==
    /\ \A p \in procs : p.gen <= gen
    /\ ops # <<>> => conn # NoPeer /\ ~dying

\* The tables: while the table is complete, or a walk for it runs, a valid cache is
\* this peer's; descriptors are only searched in a complete table.
TableInv ==
    /\ conn = NoPeer => table = {} /\ ~full
    /\ full => cache \in {NoPeer, conn}
    /\ \A p \in procs : Fresh(p) /\ p.step = "chars" => cache \in {NoPeer, conn}
    /\ \A p \in procs : Fresh(p) /\ p.step = "dscs" => full

\* The inductive invariant: one procedure of this generation, for the head of the queue;
\* handles in use and handles cached are their own peer's; and what these rest on.
GattInv == GattTypeOK /\ OneProc /\ QueueInv /\ TableIsPeers /\ TableInv /\ CacheIsPeers

-----------------------------------------------------------------------------
\* op_kick() runs inside the caller; the host ends each procedure, at the latest
\* with the 30 s ATT timeout.
GattFairness == WF_gattVars(Kick) /\ WF_gattVars(Callback)

GattFairSpec == GattSpec /\ GattFairness

\* Every accepted operation leaves the queue: answered, or with its link.
OpEnds == \A id \in Ids : (id \in Queued) ~> (id \notin Queued)
=============================================================================
