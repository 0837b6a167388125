----------------------------- MODULE RadioProofs ----------------------------
(***************************************************************************)
(* Proofs about who has the radio.  On the satellite: the NimBLE transport *)
(* (Gatt), for every set of units and operations, every length of the      *)
(* queue and any number of links, and the schedulers of the connection     *)
(* mode (BleExp), for every idle time, phase and probe interval.  On the   *)
(* Pi: what the tasks of Daemon hold of its lock, and that a roof that is  *)
(* let go stands (Roof).                                                   *)
(***************************************************************************)
EXTENDS Gatt, BleExp, Roof, TLAPS

-----------------------------------------------------------------------------
(* The two halves of the invariant: the queue with the host's procedures,  *)
(* and the tables.                                                         *)

OpSeqs == Seq(Ops)

QueueType ==
    /\ conn \in Peers \cup {NoPeer} /\ dying \in BOOLEAN /\ gen \in 0..MaxGen
    /\ ops \in OpSeqs /\ Len(ops) <= OpQ /\ busy \in BOOLEAN
    /\ procs \subseteq Procs

QueueOK == QueueType /\ OneProc /\ QueueInv

TableType ==
    /\ table \subseteq Peers /\ full \in BOOLEAN
    /\ cache \in Peers \cup {NoPeer} /\ cached \subseteq Peers

TablesOK == TableType /\ TableIsPeers /\ TableInv /\ CacheIsPeers

Steps == {"mtu", "chars", "lookup", "request", "dscs"}

\* The invariant is the queue's half and the tables' half; each step disturbs one of them.
LEMMA Halves == GattInv <=> QueueOK /\ TablesOK
BY DEF GattInv, QueueOK, TablesOK, GattTypeOK, QueueType, TableType, OpSeqs

\* The queue as a sequence.
LEMMA OpSeqFacts ==
    ASSUME NEW q \in OpSeqs, NEW o \in Ops
    PROVE  /\ Len(q) \in Nat
           /\ Append(q, o) \in OpSeqs /\ Len(Append(q, o)) = Len(q) + 1
           /\ Append(q, o) # <<>>
           /\ q # <<>> => /\ Head(q) \in Ops /\ Head(Append(q, o)) = Head(q)
                          /\ Tail(q) \in OpSeqs /\ Len(Tail(q)) = Len(q) - 1
<1>1. Len(q) \in Nat /\ Append(q, o) \in OpSeqs /\ Len(Append(q, o)) = Len(q) + 1
  BY DEF OpSeqs
<1>2. Append(q, o) # <<>>
  BY <1>1
<1>3. ASSUME q # <<>>
      PROVE  /\ Head(q) \in Ops /\ Head(Append(q, o)) = Head(q)
             /\ Tail(q) \in OpSeqs /\ Len(Tail(q)) = Len(q) - 1
  BY <1>3 DEF OpSeqs
<1> QED
  BY <1>1, <1>2, <1>3

\* What is left of a queue that gave its head away.
LEMMA TailFacts ==
    ASSUME NEW q \in OpSeqs, q # <<>>
    PROVE  /\ Len(q) \in Nat /\ Head(q) \in Ops
           /\ Tail(q) \in OpSeqs /\ Len(Tail(q)) = Len(q) - 1
BY DEF OpSeqs

\* The empty queue.
LEMMA NoOps == <<>> \in OpSeqs /\ Len(<<>>) = 0
BY DEF OpSeqs

-----------------------------------------------------------------------------
(* What happens to the queue.                                              *)

\* The host takes a procedure for the head of the queue.
LEMMA StartedQueue ==
    ASSUME QueueOK, ops # <<>>,
           NEW ended \in SUBSET procs, \A p \in procs \ ended : ~Fresh(p),
           NEW step \in Steps, Started(step, ended)
    PROVE  /\ QueueOK' /\ conn' = conn
           /\ \A p \in procs' : Fresh(p)' => p.step = step
<1> DEFINE new == Proc(step)
<1>1. conn \in Peers /\ conn # NoPeer /\ ~dying
  BY DEF QueueOK, QueueType, QueueInv
<1>2. Head(ops) \in Ops
  BY TailFacts DEF QueueOK, QueueType
<1>3. /\ new \in Procs /\ new.gen = gen /\ new.id = Head(ops).id
      /\ new.peer = conn /\ new.step = step
  BY <1>1, <1>2 DEF QueueOK, QueueType, Proc, Procs, Steps, Ops
<1> HIDE DEF new
<1>4. /\ busy' = TRUE /\ procs' = (procs \ ended) \cup {new}
      /\ conn' = conn /\ dying' = dying /\ gen' = gen /\ ops' = ops
  BY DEF Started, new
<1>5. \A p \in procs' : p.gen = gen' => p = new
  BY <1>4 DEF Fresh
<1>6. QueueType'
  BY <1>3, <1>4 DEF QueueOK, QueueType
<1>7. OneProc'
  BY <1>3, <1>4, <1>5 DEF OneProc, Fresh
<1>8. QueueInv'
  <2>1. \A p \in procs' : p.gen <= gen'
    BY <1>3, <1>4 DEF QueueOK, QueueType, QueueInv
  <2> QED
    BY <1>1, <1>4, <2>1 DEF QueueInv
<1> QED
  BY <1>3, <1>4, <1>5, <1>6, <1>7, <1>8 DEF QueueOK, Fresh

\* The head of the queue has its answer.
LEMMA HeadQueue ==
    ASSUME QueueOK, ops # <<>>, FinishHead,
           procs' \subseteq procs, \A p \in procs' : ~Fresh(p)
    PROVE  QueueOK' /\ conn' = conn /\ (\A p \in procs' : ~Fresh(p)')
<1>1. /\ busy' = FALSE /\ ops' = Tail(ops)
      /\ conn' = conn /\ dying' = dying /\ gen' = gen
  BY DEF FinishHead
<1>2. Tail(ops) \in OpSeqs /\ Len(Tail(ops)) <= OpQ
  BY TailFacts, GattAssumption DEF QueueOK, QueueType
<1>3. \A p \in procs' : p.gen # gen'
  BY <1>1 DEF Fresh
<1>4. QueueType'
  BY <1>1, <1>2 DEF QueueOK, QueueType
<1>5. OneProc'
  BY <1>1, <1>3 DEF OneProc, Fresh
<1>6. QueueInv'
  BY <1>1 DEF QueueOK, QueueInv
<1> QED
  BY <1>1, <1>3, <1>4, <1>5, <1>6 DEF QueueOK, Fresh

\* The queue is emptied under a new generation: nothing the host still runs counts.
LEMMA EmptiedQueue ==
    ASSUME QueueOK, gen < MaxGen, gen' = gen + 1, ops' = <<>>, busy' = FALSE,
           procs' \subseteq procs, conn' \in Peers \cup {NoPeer}, dying' \in BOOLEAN
    PROVE  QueueOK' /\ (\A p \in procs' : ~Fresh(p)')
<1>1. gen \in Nat /\ MaxGen \in Nat /\ gen' \in 0..MaxGen
  BY GattAssumption DEF QueueOK, QueueType
<1>2. \A p \in procs' : p.gen \in Nat /\ p.gen <= gen
  BY <1>1 DEF QueueOK, QueueType, QueueInv, Procs
<1>3. \A p \in procs' : p.gen # gen' /\ p.gen <= gen'
  BY <1>1, <1>2
<1>4. QueueType'
  <2>1. ops' \in OpSeqs /\ Len(ops') <= OpQ
    BY NoOps, GattAssumption
  <2> QED
    BY <1>1, <2>1 DEF QueueOK, QueueType
<1>5. OneProc'
  BY <1>3 DEF OneProc, Fresh
<1>6. QueueInv'
  BY <1>3 DEF QueueInv
<1> QED
  BY <1>3, <1>4, <1>5, <1>6 DEF QueueOK, Fresh

\* op_finish() with ENOTCONN.
LEMMA GoneQueue ==
    ASSUME QueueOK, FinishGone, procs' \subseteq procs
    PROVE  QueueOK' /\ conn' = conn /\ (\A p \in procs' : ~Fresh(p)')
<1>1. /\ gen < MaxGen /\ gen' = gen + 1 /\ ops' = <<>> /\ busy' = FALSE
      /\ conn' = conn /\ dying' = TRUE
  BY DEF FinishGone
<1>2. conn' \in Peers \cup {NoPeer} /\ dying' \in BOOLEAN
  BY <1>1 DEF QueueOK, QueueType
<1> QED
  BY <1>1, <1>2, EmptiedQueue

\* The host refuses the procedure.
LEMMA NotStartedQueue ==
    ASSUME QueueOK, ops # <<>>,
           NEW ended \in SUBSET procs, \A p \in procs \ ended : ~Fresh(p),
           NotStarted(ended)
    PROVE  QueueOK' /\ conn' = conn /\ (\A p \in procs' : ~Fresh(p)')
BY HeadQueue, GoneQueue DEF NotStarted

\* With nothing busy no procedure is fresh; with one, it is the only one.
LEMMA FreshFacts ==
    ASSUME QueueOK
    PROVE  /\ Kickable => ops # <<>> /\ (\A p \in procs \ {} : ~Fresh(p)) /\ {} \in SUBSET procs
           /\ \A p \in procs : Fresh(p) =>
                /\ ops # <<>> /\ p.peer = conn /\ conn \in Peers /\ ~dying
                /\ {p} \in SUBSET procs /\ \A q \in procs \ {p} : ~Fresh(q)
<1>1. Kickable => ops # <<>> /\ (\A p \in procs \ {} : ~Fresh(p)) /\ {} \in SUBSET procs
  BY DEF QueueOK, OneProc, Kickable
<1>2. ASSUME NEW p \in procs, Fresh(p)
      PROVE  /\ ops # <<>> /\ p.peer = conn /\ conn \in Peers /\ ~dying
             /\ {p} \in SUBSET procs /\ \A q \in procs \ {p} : ~Fresh(q)
  BY <1>2 DEF QueueOK, QueueType, OneProc, QueueInv
<1> QED
  BY <1>1, <1>2

-----------------------------------------------------------------------------
(* What happens to the tables.                                             *)

\* Tables that stay, over a step that starts no walk and no search for descriptors.
LEMMA TablesStay ==
    ASSUME TablesOK, UNCHANGED tables, conn' = conn,
           \A p \in procs' : Fresh(p)' => (p \in procs /\ Fresh(p)) \/ p.step \notin {"chars", "dscs"}
    PROVE  TablesOK'
<1>1. table' = table /\ full' = full /\ cache' = cache /\ cached' = cached
  BY DEF tables
<1>2. TableType' /\ TableIsPeers' /\ CacheIsPeers'
  BY <1>1 DEF TablesOK, TableType, TableIsPeers, CacheIsPeers
<1>3. TableInv'
  BY <1>1 DEF TablesOK, TableInv
<1> QED
  BY <1>2, <1>3 DEF TablesOK

\* The table is emptied; the cache stays or is dropped.
LEMMA TablesEmptied ==
    ASSUME TablesOK, table' = {}, full' = FALSE, cache' \in {cache, NoPeer}, cached' = cached,
           \A p \in procs' : Fresh(p)' =>
               p.step # "dscs" /\ (p.step = "chars" => cache' = NoPeer)
    PROVE  TablesOK'
<1>1. TableType' /\ TableIsPeers' /\ CacheIsPeers'
  BY DEF TablesOK, TableType, TableIsPeers, CacheIsPeers
<1>2. TableInv'
  BY DEF TableInv
<1> QED
  BY <1>1, <1>2 DEF TablesOK

\* disc_start(): the table from this peer's cache, or a walk.
LEMMA DiscStartInv ==
    ASSUME QueueOK, TablesOK, ops # <<>>,
           NEW ended \in SUBSET procs, \A p \in procs \ ended : ~Fresh(p),
           DiscStart(ended)
    PROVE  QueueOK' /\ TablesOK'
<1>0. conn \in Peers /\ conn # NoPeer
  BY DEF QueueOK, QueueType, QueueInv
<1>1. CASE DiscFromCache(ended)
  <2>1. /\ cache = conn /\ table' = cached /\ full' = TRUE /\ cache' = cache
        /\ cached' = cached /\ procs' = procs \ ended /\ FinishHead
    BY <1>1 DEF DiscFromCache
  <2>2. QueueOK' /\ conn' = conn /\ (\A p \in procs' : ~Fresh(p)')
    BY <2>1, HeadQueue
  <2>3. TableType' /\ TableIsPeers' /\ CacheIsPeers'
    BY <1>0, <2>1, <2>2 DEF TablesOK, TableType, TableIsPeers, CacheIsPeers
  <2>4. TableInv'
    BY <1>0, <2>1, <2>2 DEF TableInv
  <2> QED
    BY <2>2, <2>3, <2>4 DEF TablesOK
<1>2. CASE DiscWalk(ended)
  <2>1. /\ cache' = NoPeer /\ table' = {} /\ full' = FALSE /\ cached' = cached
        /\ Started("chars", ended) \/ NotStarted(ended)
    BY <1>2 DEF DiscWalk
  <2>2. QueueOK' /\ (\A p \in procs' : Fresh(p)' => p.step = "chars")
    BY <2>1, StartedQueue, NotStartedQueue DEF Steps
  <2>3. TablesOK'
    BY <2>1, <2>2, TablesEmptied
  <2> QED
    BY <2>2, <2>3
<1> QED
  BY <1>1, <1>2 DEF DiscStart

-----------------------------------------------------------------------------
(* One lemma per handler.                                                  *)

\* op_push() appends one operation within the limit of the queue.
LEMMA PushInv ==
    ASSUME QueueOK, TablesOK, Push
    PROVE  QueueOK' /\ TablesOK'
<1>1. PICK id \in Ids, k \in Kinds : ops' = Append(ops, [id |-> id, kind |-> k])
  BY DEF Push
<1> DEFINE o == [id |-> id, kind |-> k]
<1>2. o \in Ops
  BY DEF Ops
<1> HIDE DEF o
<1>3. /\ ops' = Append(ops, o) /\ conn # NoPeer /\ ~dying /\ Len(ops) < OpQ
      /\ conn' = conn /\ dying' = dying /\ gen' = gen /\ busy' = busy /\ procs' = procs
      /\ UNCHANGED tables
  BY <1>1 DEF Push, o
<1>4. /\ ops' \in OpSeqs /\ Len(ops') <= OpQ
      /\ ops # <<>> => ops' # <<>> /\ Head(ops') = Head(ops)
  BY <1>2, <1>3, OpSeqFacts, GattAssumption DEF QueueOK, QueueType
<1>5. QueueType'
  BY <1>3, <1>4 DEF QueueOK, QueueType
<1>6. OneProc'
  BY <1>3, <1>4 DEF QueueOK, OneProc, Fresh
<1>7. QueueInv'
  BY <1>3 DEF QueueOK, QueueInv
<1>8. TablesOK'
  BY <1>3, TablesStay DEF Fresh
<1> QED
  BY <1>5, <1>6, <1>7, <1>8 DEF QueueOK

\* op_kick() starts at most one procedure, for the head and the link of now.
LEMMA KickInv ==
    ASSUME QueueOK, TablesOK, Kick
    PROVE  QueueOK' /\ TablesOK'
<1>1. ops # <<>> /\ (\A p \in procs \ {} : ~Fresh(p)) /\ {} \in SUBSET procs
  BY FreshFacts DEF Kick, BeginDisc, BeginSub, BeginRequest
<1>2. CASE BeginDisc
  <2>1. CASE DiscStart({})
    BY <1>1, <2>1, DiscStartInv
  <2>2. CASE /\ table' = {} /\ full' = FALSE /\ UNCHANGED <<cache, cached>>
             /\ Started("mtu", {})
    <3>1. QueueOK' /\ (\A p \in procs' : Fresh(p)' => p.step = "mtu")
      BY <1>1, <2>2, StartedQueue DEF Steps
    <3> QED
      BY <2>2, <3>1, TablesEmptied
  <2> QED
    BY <1>2, <2>1, <2>2 DEF BeginDisc
<1>3. CASE BeginSub
  <2>0. UNCHANGED tables
    BY <1>3 DEF BeginSub
  <2>1. CASE full /\ Started("dscs", {})
    <3>1. /\ QueueOK' /\ conn' = conn
          /\ \A p \in procs' : Fresh(p)' => p.step = "dscs"
      BY <1>1, <2>1, StartedQueue DEF Steps
    <3>2. table' = table /\ full' = full /\ cache' = cache /\ cached' = cached
      BY <2>0 DEF tables
    <3>3. TablesOK'
      BY <2>1, <3>1, <3>2 DEF TablesOK, TableType, TableIsPeers, TableInv, CacheIsPeers
    <3> QED
      BY <3>1, <3>3
  <2>2. CASE Started("request", {})
    BY <1>1, <2>0, <2>2, StartedQueue, TablesStay DEF Steps
  <2>3. CASE NotStarted({})
    BY <1>1, <2>0, <2>3, NotStartedQueue, TablesStay
  <2> QED
    BY <1>3, <2>1, <2>2, <2>3 DEF BeginSub
<1>4. CASE BeginRequest
  <2>0. UNCHANGED tables
    BY <1>4 DEF BeginRequest
  <2>1. ASSUME NEW step \in {"request", "lookup"}, Started(step, {})
        PROVE  QueueOK' /\ TablesOK'
    BY <1>1, <2>0, <2>1, StartedQueue, TablesStay DEF Steps
  <2>2. CASE NotStarted({})
    BY <1>1, <2>0, <2>2, NotStartedQueue, TablesStay
  <2> QED
    BY <1>4, <2>1, <2>2 DEF BeginRequest
<1> QED
  BY <1>2, <1>3, <1>4 DEF Kick

\* A callback of an earlier link changes nothing but the host.
LEMMA StaleInv ==
    ASSUME QueueOK, TablesOK, NEW p \in procs, Stale(p)
    PROVE  QueueOK' /\ TablesOK'
<1>1. /\ conn' = conn /\ dying' = dying /\ gen' = gen /\ ops' = ops /\ busy' = busy
      /\ procs' = procs \ {p} /\ ~Fresh(p) /\ UNCHANGED tables
  BY DEF Stale, opQueue
<1>2. QueueType'
  BY <1>1 DEF QueueOK, QueueType
<1>3. OneProc'
  BY <1>1 DEF QueueOK, OneProc, Fresh
<1>4. QueueInv'
  BY <1>1 DEF QueueOK, QueueInv
<1>5. TablesOK'
  BY <1>1, TablesStay DEF Fresh
<1> QED
  BY <1>2, <1>3, <1>4, <1>5 DEF QueueOK

\* The callback of the running procedure.
LEMMA FreshInv ==
    ASSUME QueueOK, TablesOK, NEW p \in procs,
           LinkGone(p) \/ OnMtu(p) \/ OnChr(p) \/ OnWalked(p) \/ OnFound(p) \/ OnEnd(p)
    PROVE  QueueOK' /\ TablesOK'
<1>1. Fresh(p)
  BY DEF LinkGone, OnMtu, OnChr, OnWalked, OnFound, OnEnd
<1>2. /\ ops # <<>> /\ p.peer = conn /\ conn \in Peers /\ conn # NoPeer
      /\ {p} \in SUBSET procs /\ \A q \in procs \ {p} : ~Fresh(q)
  BY <1>1, FreshFacts, GattAssumption
<1>3. CASE LinkGone(p)
  <2>1. FinishGone /\ procs' \subseteq procs /\ UNCHANGED tables
    BY <1>3 DEF LinkGone
  <2> QED
    BY <2>1, GoneQueue, TablesStay
<1>4. CASE OnMtu(p)
  BY <1>2, <1>4, DiscStartInv DEF OnMtu
<1>5. CASE OnChr(p)
  <2>1. /\ conn' = conn /\ dying' = dying /\ gen' = gen /\ ops' = ops /\ busy' = busy
        /\ procs' = procs /\ full' = full /\ cache' = cache /\ cached' = cached
        /\ table' = table \cup {conn}
    BY <1>2, <1>5 DEF OnChr, opQueue
  <2>2. QueueOK'
    BY <2>1 DEF QueueOK, QueueType, OneProc, QueueInv, Fresh
  <2>3. TableType' /\ TableIsPeers' /\ CacheIsPeers'
    BY <1>2, <2>1 DEF TablesOK, TableType, TableIsPeers, CacheIsPeers
  <2>4. TableInv'
    BY <1>2, <2>1 DEF TablesOK, TableInv, Fresh
  <2> QED
    BY <2>2, <2>3, <2>4 DEF TablesOK
<1>6. CASE OnWalked(p)
  <2>1. /\ p.step = "chars" /\ procs' = procs \ {p} /\ full' = TRUE /\ table' = table
        /\ FinishHead
        /\ \/ table = {} /\ cache' = cache /\ cached' = cached
           \/ cache' = conn /\ cached' = table
    BY <1>6 DEF OnWalked
  <2>2. QueueOK' /\ conn' = conn /\ (\A q \in procs' : ~Fresh(q)')
    BY <1>2, <2>1, HeadQueue
  <2>3. cache \in {NoPeer, conn}
    BY <1>1, <2>1 DEF TablesOK, TableInv
  <2>4. TableType' /\ TableIsPeers' /\ CacheIsPeers'
    BY <1>2, <2>1, <2>2 DEF TablesOK, TableType, TableIsPeers, CacheIsPeers
  <2>5. TableInv'
    BY <1>2, <2>1, <2>2, <2>3 DEF TableInv
  <2> QED
    BY <2>2, <2>4, <2>5 DEF TablesOK
<1>7. CASE OnFound(p)
  <2>1. /\ p.step \in {"lookup", "dscs"}
        /\ Started("request", {p}) \/ NotStarted({p})
        /\ table' = table /\ full' = full /\ cache' = cache
        /\ cached' = cached \/ (p.step = "dscs" /\ cache # NoPeer /\ cached' = table)
    BY <1>7 DEF OnFound
  <2>2. /\ QueueOK' /\ conn' = conn
        /\ \A q \in procs' : Fresh(q)' => q.step = "request"
    BY <1>2, <2>1, StartedQueue, NotStartedQueue DEF Steps
  <2>3. p.step = "dscs" => cache \in {NoPeer, conn}
    BY <1>1 DEF TablesOK, TableInv
  <2>4. TableType' /\ TableIsPeers' /\ CacheIsPeers'
    BY <1>2, <2>1, <2>2, <2>3 DEF TablesOK, TableType, TableIsPeers, CacheIsPeers
  <2>5. TableInv'
    BY <1>2, <2>1, <2>2 DEF TablesOK, TableInv
  <2> QED
    BY <2>2, <2>4, <2>5 DEF TablesOK
<1>8. CASE OnEnd(p)
  <2>1. /\ procs' = procs \ {p} /\ FinishHead /\ cache' \in {cache, NoPeer}
        /\ table' = table /\ full' = full /\ cached' = cached
    BY <1>8 DEF OnEnd
  <2>2. QueueOK' /\ conn' = conn /\ (\A q \in procs' : ~Fresh(q)')
    BY <1>2, <2>1, HeadQueue
  <2>3. TablesOK'
    BY <2>1, <2>2 DEF TablesOK, TableType, TableIsPeers, TableInv, CacheIsPeers
  <2> QED
    BY <2>2, <2>3
<1> QED
  BY <1>3, <1>4, <1>5, <1>6, <1>7, <1>8

\* A link ends or is made.
LEMMA LinkInv ==
    ASSUME QueueOK, TablesOK, LinkEnds \/ PeerLinked
    PROVE  QueueOK' /\ TablesOK'
<1>1. conn' \in Peers \cup {NoPeer} /\ GattReset
  BY DEF LinkEnds, PeerLinked
<1>2. /\ gen < MaxGen /\ gen' = gen + 1 /\ ops' = <<>> /\ busy' = FALSE /\ dying' = FALSE
      /\ procs' = procs /\ table' = {} /\ full' = FALSE /\ cache' = cache /\ cached' = cached
  BY <1>1 DEF GattReset
<1>3. QueueOK' /\ (\A p \in procs' : ~Fresh(p)')
  BY <1>1, <1>2, EmptiedQueue
<1>4. TablesOK'
  BY <1>2, <1>3, TablesEmptied
<1> QED
  BY <1>3, <1>4

\* A dropped cache (cache_drop, forget_peer) is no longer valid for anybody.
LEMMA CacheDropInv ==
    ASSUME QueueOK, TablesOK, CacheDrop
    PROVE  QueueOK' /\ TablesOK'
<1>1. /\ conn' = conn /\ dying' = dying /\ gen' = gen /\ ops' = ops /\ busy' = busy
      /\ procs' = procs /\ table' = table /\ full' = full /\ cached' = cached /\ cache' = NoPeer
  BY DEF CacheDrop, opQueue
<1>2. QueueOK'
  BY <1>1 DEF QueueOK, QueueType, OneProc, QueueInv, Fresh
<1>3. TablesOK'
  BY <1>1 DEF TablesOK, TableType, TableIsPeers, TableInv, CacheIsPeers, Fresh
<1> QED
  BY <1>2, <1>3

\* A step that changes none of the variables.
LEMMA StutterInv ==
    ASSUME QueueOK, TablesOK, UNCHANGED gattVars
    PROVE  QueueOK' /\ TablesOK'
<1>1. /\ conn' = conn /\ dying' = dying /\ gen' = gen /\ ops' = ops /\ busy' = busy
      /\ procs' = procs /\ UNCHANGED tables
  BY DEF gattVars, opQueue
<1>2. QueueOK'
  BY <1>1 DEF QueueOK, QueueType, OneProc, QueueInv, Fresh
<1>3. TablesOK'
  BY <1>1, TablesStay DEF Fresh
<1> QED
  BY <1>2, <1>3

\* The transport starts with an empty queue, no link and no table.
LEMMA InitInv == GattInit => QueueOK /\ TablesOK
<1> SUFFICES ASSUME GattInit PROVE QueueOK /\ TablesOK
  OBVIOUS
<1>1. QueueType
  <2>1. /\ conn = NoPeer /\ dying = FALSE /\ gen = 0 /\ ops = <<>> /\ busy = FALSE
        /\ procs = {}
    BY DEF GattInit
  <2>2. gen \in 0..MaxGen
    BY <2>1, GattAssumption
  <2>3. ops \in OpSeqs /\ Len(ops) <= OpQ
    BY <2>1, NoOps, GattAssumption
  <2> QED
    BY <2>1, <2>2, <2>3 DEF QueueType
<1>2. OneProc /\ QueueInv
  BY DEF GattInit, OneProc, QueueInv, Fresh
<1>3. TablesOK
  BY DEF GattInit, TablesOK, TableType, TableIsPeers, TableInv, CacheIsPeers
<1> QED
  BY <1>1, <1>2, <1>3 DEF QueueOK

\* Every step keeps the invariant: one case per handler.
LEMMA NextInv == QueueOK /\ TablesOK /\ [GattNext]_gattVars => QueueOK' /\ TablesOK'
<1> SUFFICES ASSUME QueueOK, TablesOK, [GattNext]_gattVars PROVE QueueOK' /\ TablesOK'
  OBVIOUS
<1>1. CASE Push
  BY <1>1, PushInv
<1>2. CASE Kick
  BY <1>2, KickInv
<1>3. CASE Callback
  BY <1>3, StaleInv, FreshInv DEF Callback
<1>4. CASE LinkEnds \/ PeerLinked
  BY <1>4, LinkInv
<1>5. CASE CacheDrop
  BY <1>5, CacheDropInv
<1>6. CASE UNCHANGED gattVars
  BY <1>6, StutterInv
<1> QED
  BY <1>1, <1>2, <1>3, <1>4, <1>5, <1>6 DEF GattNext

-----------------------------------------------------------------------------
(* The theorems.                                                           *)

\* The inductive invariant of ble_nimble.c's GATT queue and tables.
THEOREM GattSafe == GattSpec => []GattInv
<1>1. QueueOK /\ TablesOK => GattInv
  BY Halves
<1> QED
  BY <1>1, InitInv, NextInv, PTL DEF GattSpec

\* Type correctness; the queue keeps its limit (op_push).
THEOREM GattTypeCorrect == GattSpec => []GattTypeOK
<1>1. GattInv => GattTypeOK
  BY DEF GattInv
<1> QED
  BY <1>1, GattSafe, PTL

\* The queue is busy exactly while the host runs one procedure of this link, and
\* that is for its head: an answer is reported for the operation it answers.
THEOREM GattOneProc == GattSpec => []OneProc
<1>1. GattInv => OneProc
  BY DEF GattInv
<1> QED
  BY <1>1, GattSafe, PTL

\* A unit is never written to through the handles of another.
THEOREM GattTableIsPeers == GattSpec => []TableIsPeers
<1>1. GattInv => TableIsPeers
  BY DEF GattInv
<1> QED
  BY <1>1, GattSafe, PTL

\* The cache holds the handles of the peer it is kept for.
THEOREM GattCacheIsPeers == GattSpec => []CacheIsPeers
<1>1. GattInv => CacheIsPeers
  BY DEF GattInv
<1> QED
  BY <1>1, GattSafe, PTL

\* A step that gives the host a procedure does so on a live link.
LEMMA RequestStep ==
    ASSUME GattInv, GattNext
    PROVE  procs' \subseteq procs \/ (conn # NoPeer /\ ~dying)
<1>0. QueueOK
  BY Halves
<1>1. CASE Push
  BY <1>1 DEF Push
<1>2. CASE Kick
  <2>1. ops # <<>>
    BY <1>2 DEF Kick, BeginDisc, BeginSub, BeginRequest, Kickable
  <2> QED
    BY <2>1 DEF GattInv, QueueInv
<1>3. CASE Callback
  <2>1. PICK p \in procs : Stale(p) \/ LinkGone(p) \/ OnMtu(p) \/ OnChr(p) \/ OnWalked(p)
                           \/ OnFound(p) \/ OnEnd(p)
    BY <1>3 DEF Callback
  <2>2. CASE Stale(p)
    BY <2>2 DEF Stale
  <2>3. CASE Fresh(p)
    BY <1>0, <2>3, FreshFacts, GattAssumption
  <2> QED
    BY <2>1, <2>2, <2>3 DEF LinkGone, OnMtu, OnChr, OnWalked, OnFound, OnEnd
<1>4. CASE LinkEnds \/ PeerLinked
  BY <1>4 DEF LinkEnds, PeerLinked, GattReset
<1>5. CASE CacheDrop
  BY <1>5 DEF CacheDrop
<1> QED
  BY <1>1, <1>2, <1>3, <1>4, <1>5 DEF GattNext

\* No request is given to the host without a link or on one known to go down, where
\* NimBLE would keep it and stall the next link's queue (op_finish, op_push).
THEOREM GattNoRequestOnDying == GattSpec => NoRequestOnDying
<1>1. GattInv /\ [GattNext]_gattVars => [procs' \subseteq procs \/ (conn # NoPeer /\ ~dying)]_gattVars
  BY RequestStep
<1> QED
  BY <1>1, GattSafe, PTL DEF GattSpec, NoRequestOnDying

-----------------------------------------------------------------------------
(* What the schedulers hold.                                                *)

Bx == [on : BOOLEAN, phase : 1..3, want : Modes \cup {NoMode}, left : Nat, idle : Nat,
       probing : BOOLEAN, touched : BOOLEAN]
Bi == [min : Nat, want : Modes \cup {NoMode}, idle : Nat, next : Nat, touched : BOOLEAN]
Adv == [seen : {"unknown", "seen", "gone"}, clock : BOOLEAN, age : Nat,
        mode : Modes \cup {NoMode}, armed : BOOLEAN]
Out == [set : Modes \cup {NoMode}, probe : BOOLEAN]

ExpTyped ==
    /\ bx \in Bx /\ bi \in Bi /\ mode \in Modes
    /\ since \in 0..IdleTime /\ expAgo \in 0..IdleTime /\ closed \in 0..IdleTime
    /\ adv \in Adv /\ {probing, inWindow} \subseteq BOOLEAN

\* A window that is open, and a phase that runs, are not in the hours the window is closed.
WindowKept == inWindow \/ (bx.on /\ bx.want # NoMode) => closed = 0

\* What the experiment has left to hold covers the time somebody was last there; between
\* two phases the closed window does.
ExperimentWaits ==
    bx.on => \/ word
             \/ since + bx.idle >= IdleTime
             \/ bx.want = NoMode /\ since + 1 >= IdleTime
             \/ bx.want = NoMode /\ ~inWindow /\ since + 1 >= closed

\* So does what the policy has left, a touch that waits for its tick apart; and an advert
\* that may wake belongs to an experiment which has kept the policy waiting.
PolicyWaits ==
    /\ bi.min > 0 => /\ expAgo + bi.idle >= IdleTime
                     /\ bi.touched \/ since + bi.idle >= IdleTime
    /\ adv.armed => bx.on /\ (bi.min > 0 => bi.idle = IdleTime)

ExpInv == ExpTyped /\ (~alone => WindowKept /\ ExperimentWaits /\ PolicyWaits)

-----------------------------------------------------------------------------
(* The functions.                                                           *)

\* The times of the schedulers are numbers of ticks.
LEMMA Times == IdleTime \in Nat /\ PhaseTime \in Nat /\ ProbeTimes \subseteq Nat
BY ExpAssumption

\* No mode is not a mode, "hold" is one.
LEMMA NoModeIsNone == NoMode \notin Modes /\ "hold" \in Modes /\ NoMode # "hold"
BY DEF NoMode, Modes

\* Every phase of the experiment has a mode.
LEMMA OrderModes == ASSUME NEW n \in 1..3 PROVE Order[n] \in Modes
BY DEF Order, Modes

\* A scheduler may ask for a mode or a probe, or for nothing.
LEMMA NothingTyped ==
    ASSUME NEW m \in Modes \cup {NoMode}, NEW b \in BOOLEAN
    PROVE  /\ [Nothing EXCEPT !.set = m] \in Out /\ [Nothing EXCEPT !.set = m].set = m
           /\ [Nothing EXCEPT !.probe = b] \in Out /\ [Nothing EXCEPT !.probe = b].set = NoMode
           /\ Nothing \in Out /\ Nothing.set = NoMode
BY DEF Nothing, Out, NoMode

\* Nothing is asked for by the empty answer.
LEMMA NothingAsked == Nothing \in Out /\ Nothing.set = NoMode
BY DEF Nothing, Out

\* A return to holding asks for "hold" or, being there, for nothing.
LEMMA SetHoldTyped ==
    ASSUME NEW m
    PROVE  SetHold(m) \in {NoMode, "hold"}
BY DEF SetHold

\* The next phase starts without a wish and with the idle time of the last one.
LEMMA NextPhaseTyped ==
    ASSUME NEW x \in Bx
    PROVE  /\ NextPhase(x) \in Bx
           /\ NextPhase(x).on = x.on /\ NextPhase(x).want = NoMode /\ NextPhase(x).idle = x.idle
<1>1. x.phase \in {1, 2, 3}
  BY DEF Bx
<1>2. 1 % 3 = 1 /\ 2 % 3 = 2 /\ 3 % 3 = 0
  OBVIOUS
<1> DEFINE n == (x.phase % 3) + 1
<1>3. n \in 1..3
  BY <1>1, <1>2
<1>4. NextPhase(x) = [x EXCEPT !.want = NoMode, !.probing = FALSE, !.phase = n]
  BY DEF NextPhase
<1> HIDE DEF n
<1> QED
  BY <1>3, <1>4 DEF Bx

\* What a step of the experiment makes of its state and asks of the session.
BxResult(r, x, current, engaged) ==
    /\ r.x \in Bx /\ r.x.on = x.on /\ r.o \in Out
    /\ \/ /\ Cut(x, current)
          /\ r.x.want = NoMode
          /\ r.x.idle = IF ~x.touched /\ inWindow THEN IdleTime ELSE x.idle
          /\ r.o.set \in {NoMode, "hold"}
       \/ /\ x.want = NoMode /\ (~inWindow \/ x.idle > 0)
          /\ r.x.want = NoMode /\ r.x.idle = x.idle /\ r.o.set \in {NoMode, "hold"}
       \/ /\ x.want = NoMode /\ inWindow /\ x.idle = 0
          /\ r.x.want \in Modes /\ r.x.idle = 0
       \/ /\ x.want # NoMode /\ ~Cut(x, current) /\ x.probing /\ ~engaged
          /\ r.x.want = NoMode
          /\ r.x.idle = IF current # x.want THEN IdleTime ELSE x.idle
          /\ r.o.set \in {NoMode, "hold"}
       \/ /\ x.want # NoMode /\ ~Cut(x, current) /\ (x.probing => engaged)
          /\ r.x.want = x.want /\ r.x.idle = x.idle /\ r.o.set = NoMode

\* A step of the experiment does what BxResult says.
LEMMA BxStepResult ==
    ASSUME NEW x \in Bx, NEW current \in Modes, NEW engaged \in BOOLEAN, x.on
    PROVE  BxResult(BxStep(x, current, engaged), x, current, engaged)
<1> DEFINE y == [x EXCEPT !.touched = FALSE]
<1>1. y \in Bx /\ y.on = x.on /\ y.want = x.want /\ y.idle = x.idle /\ y.probing = x.probing
      /\ y.phase \in 1..3
  BY DEF Bx
<1>2. CASE Cut(x, current)
  <2> DEFINE z == [x EXCEPT !.idle = IF ~x.touched /\ inWindow THEN IdleTime ELSE @,
                            !.touched = FALSE]
             o == [Nothing EXCEPT !.set = SetHold(current)]
  <2>1. z \in Bx /\ z.on = x.on /\ z.idle = IF ~x.touched /\ inWindow THEN IdleTime ELSE x.idle
    BY Times DEF Bx
  <2>2. o \in Out /\ o.set \in {NoMode, "hold"}
    BY SetHoldTyped, NothingTyped, NoModeIsNone
  <2>3. BxStep(x, current, engaged) = [x |-> NextPhase(z), o |-> o]
    BY <1>2 DEF BxStep, CutShort
  <2> HIDE DEF z, o
  <2>4. /\ BxStep(x, current, engaged).x = NextPhase(z) /\ BxStep(x, current, engaged).o = o
    BY <2>3
  <2> QED
    BY <1>2, <2>1, <2>2, <2>4, NextPhaseTyped DEF BxResult
<1>3. CASE ~Cut(x, current) /\ x.want = NoMode
  <2>1. BxStep(x, current, engaged) = Between(y, current)
    BY <1>3 DEF BxStep
  <2> HIDE DEF y
  <2>2. CASE ~inWindow \/ y.idle > 0
    <3> DEFINE o == [Nothing EXCEPT !.set = SetHold(current)]
    <3>1. o \in Out /\ o.set \in {NoMode, "hold"}
      BY SetHoldTyped, NothingTyped, NoModeIsNone
    <3>2. BxStep(x, current, engaged) = [x |-> y, o |-> o]
      BY <2>1, <2>2 DEF Between
    <3> HIDE DEF o
    <3>3. BxStep(x, current, engaged).x = y /\ BxStep(x, current, engaged).o = o
      BY <3>2
    <3> QED
      BY <1>1, <1>3, <2>2, <3>1, <3>3 DEF BxResult
  <2>3. CASE inWindow /\ ~(y.idle > 0)
    <3> DEFINE m == Order[y.phase]
               z == [y EXCEPT !.want = m, !.left = PhaseTime]
               o == [Nothing EXCEPT !.set = IF current = m THEN NoMode ELSE m]
    <3>1. m \in Modes
      BY <1>1, OrderModes
    <3>2. BxStep(x, current, engaged) = [x |-> z, o |-> o]
      BY <2>1, <2>3 DEF Between
    <3>3. y.idle = 0
      BY <1>1, <2>3 DEF Bx
    <3> HIDE DEF m
    <3>4. z \in Bx /\ z.on = y.on /\ z.want = m /\ z.idle = y.idle
      BY <1>1, <3>1, Times DEF Bx
    <3>5. o \in Out
      <4>1. (IF current = m THEN NoMode ELSE m) \in Modes \cup {NoMode}
        BY <3>1
      <4> QED
        BY <4>1, NothingTyped
    <3> HIDE DEF z, o
    <3>6. BxStep(x, current, engaged).x = z /\ BxStep(x, current, engaged).o = o
      BY <3>2
    <3> QED
      BY <1>1, <1>3, <2>3, <3>1, <3>3, <3>4, <3>5, <3>6 DEF BxResult
  <2> QED
    BY <2>2, <2>3
<1>4. CASE ~Cut(x, current) /\ x.want # NoMode /\ ~x.probing /\ x.left = 0
  <2> DEFINE z == [y EXCEPT !.probing = TRUE]
             o == [Nothing EXCEPT !.probe = TRUE]
  <2>1. BxStep(x, current, engaged) = [x |-> z, o |-> o]
    BY <1>4 DEF BxStep
  <2>2. o \in Out /\ o.set = NoMode
    BY DEF Nothing, Out, NoMode
  <2> HIDE DEF y
  <2>3. z \in Bx /\ z.on = y.on /\ z.want = y.want /\ z.idle = y.idle
    BY <1>1 DEF Bx
  <2> HIDE DEF z, o
  <2>4. BxStep(x, current, engaged).x = z /\ BxStep(x, current, engaged).o = o
    BY <2>1
  <2> QED
    BY <1>1, <1>4, <2>2, <2>3, <2>4 DEF BxResult
<1>5. CASE ~Cut(x, current) /\ x.want # NoMode /\ x.probing /\ ~engaged
  <2>1. BxStep(x, current, engaged) = ProbeDone(y, current)
    BY <1>5 DEF BxStep
  <2> HIDE DEF y
  <2> DEFINE z == [y EXCEPT !.idle = IF current # y.want THEN IdleTime ELSE @]
             o == [Nothing EXCEPT !.set = IF current # y.want THEN SetHold(current) ELSE NoMode]
  <2>2. z \in Bx /\ z.on = y.on /\ z.idle = IF current # y.want THEN IdleTime ELSE y.idle
    BY <1>1, Times DEF Bx
  <2>3. o \in Out /\ o.set \in {NoMode, "hold"}
    BY SetHoldTyped, NothingTyped, NoModeIsNone
  <2>4. BxStep(x, current, engaged) = [x |-> NextPhase(z), o |-> o]
    BY <2>1 DEF ProbeDone
  <2> HIDE DEF z, o
  <2>5. BxStep(x, current, engaged).x = NextPhase(z) /\ BxStep(x, current, engaged).o = o
    BY <2>4
  <2> QED
    BY <1>1, <1>5, <2>2, <2>3, <2>5, NextPhaseTyped DEF BxResult
<1>6. CASE ~Cut(x, current) /\ x.want # NoMode /\ (x.probing => engaged) /\ ~(~x.probing /\ x.left = 0)
  <2>1. BxStep(x, current, engaged) = [x |-> y, o |-> Nothing]
    BY <1>6 DEF BxStep
  <2> HIDE DEF y
  <2>2. BxStep(x, current, engaged).x = y /\ BxStep(x, current, engaged).o = Nothing
    BY <2>1
  <2> QED
    BY <1>1, <1>6, <2>2, NothingTyped, NoModeIsNone DEF BxResult
<1> QED
  BY <1>2, <1>3, <1>4, <1>5, <1>6

\* What a step of the policy does.
BiResult(r, y, current, engaged, expOn) ==
    /\ r.y \in Bi /\ r.y.min = y.min /\ r.o \in Out
    /\ y.min = 0 \/ expOn => r.o.set = NoMode
    /\ y.min > 0 => /\ r.y.idle = IF BiRenewed(y, current, engaged, expOn) THEN IdleTime ELSE y.idle
                    /\ r.o.set \in {NoMode, "hold"} \/ r.y.idle = 0

\* A step of the idle policy does what BiResult says.
LEMMA BiStepResult ==
    ASSUME NEW y \in Bi, NEW current \in Modes, NEW engaged \in BOOLEAN, NEW expOn \in BOOLEAN,
           NEW r, r = BiStep(y, current, engaged, expOn)
    PROVE  BiResult(r, y, current, engaged, expOn)
<1> DEFINE n == IF BiRenewed(y, current, engaged, expOn) THEN IdleTime ELSE y.idle
           z == [y EXCEPT !.touched = FALSE, !.idle = n]
           want == IF z.idle > 0 THEN "hold" ELSE "off"
           v == [z EXCEPT !.want = want,
                          !.next = IF want = "off" /\ z.want # "off" THEN z.min ELSE @]
<1>1. n \in Nat
  BY Times DEF Bi
<1>2. y.min \in Nat
  BY DEF Bi
<1>3. CASE y.min = 0
  <2> DEFINE w == [y EXCEPT !.touched = FALSE]
  <2>1. r = [y |-> w, o |-> Nothing]
    BY <1>3 DEF BiStep
  <2>2. w \in Bi /\ w.min = y.min
    BY DEF Bi
  <2> HIDE DEF w
  <2>3. r.y = w /\ r.o = Nothing
    BY <2>1
  <2> QED
    BY <1>2, <1>3, <2>2, <2>3, NothingAsked DEF BiResult
<1>4. z \in Bi /\ z.min = y.min /\ z.idle = n
  <2> HIDE DEF n
  <2> QED
    BY <1>1 DEF Bi
<1>5. CASE y.min # 0 /\ expOn
  <2> DEFINE w == [z EXCEPT !.want = NoMode]
  <2>1. r = [y |-> w, o |-> Nothing]
    BY <1>5 DEF BiStep
  <2>2. w \in Bi /\ w.min = z.min /\ w.idle = z.idle
    <3> HIDE DEF z
    <3> QED
      BY <1>4 DEF Bi
  <2> HIDE DEF w
  <2>3. r.y = w /\ r.o = Nothing
    BY <2>1
  <2> HIDE DEF z
  <2> QED
    BY <1>2, <1>4, <1>5, <2>2, <2>3, NothingAsked DEF BiResult
<1>6. CASE y.min # 0 /\ ~expOn
  <2>1. want \in Modes /\ (want = "hold" \/ z.idle = 0)
    <3> HIDE DEF z
    <3> QED
      BY <1>4 DEF Bi, Modes
  <2>2. v \in Bi /\ v.min = y.min /\ v.idle = n
    <3> HIDE DEF z, want
    <3>1. z.min \in Nat
      BY <1>2, <1>4
    <3> QED
      BY <1>4, <2>1, <3>1 DEF Bi
  <2> DEFINE w == [v EXCEPT !.next = y.min]
  <2> DEFINE sets == [Nothing EXCEPT !.set = want]
             probes == [Nothing EXCEPT !.probe = TRUE]
  <2>3. \/ r = [y |-> v, o |-> Nothing]
        \/ r = [y |-> v, o |-> sets]
        \/ r = [y |-> w, o |-> probes]
    BY <1>6 DEF BiStep
  <2> HIDE DEF want
  <2>4. w \in Bi /\ w.min = y.min /\ w.idle = n
    <3> HIDE DEF v
    <3> QED
      BY <1>2, <2>2 DEF Bi
  <2>5. sets \in Out /\ sets.set = want /\ probes \in Out /\ probes.set = NoMode
    BY <2>1, NothingTyped
  <2>6. r.y \in Bi /\ r.y.min = y.min /\ r.y.idle = n
    <3> HIDE DEF v, w, z, n, sets, probes
    <3> QED
      BY <2>2, <2>3, <2>4
  <2> HIDE DEF v, w, z
  <2>7. r.o \in Out /\ (r.o.set = NoMode \/ r.o.set = want)
    <3> HIDE DEF sets, probes
    <3> QED
      BY <2>3, <2>5, NothingAsked
  <2>8. r.o.set \in {NoMode, "hold"} \/ r.y.idle = 0
    BY <1>4, <2>1, <2>6, <2>7
  <2> QED
    BY <1>2, <1>6, <2>6, <2>7, <2>8 DEF BiResult
<1> QED
  BY <1>3, <1>5, <1>6

-----------------------------------------------------------------------------
(* The tick.                                                                *)

\* The countdown and the time it stands for: together they never fall short of IdleTime.
LEMMA DownUp ==
    ASSUME NEW t \in Nat, NEW u \in 0..IdleTime
    PROVE  /\ Down(t) \in Nat /\ Up(u, IdleTime) \in 0..IdleTime
           /\ u + t >= IdleTime => Up(u, IdleTime) + Down(t) >= IdleTime
           /\ u + 1 >= IdleTime => Up(u, IdleTime) = IdleTime
           /\ Up(u, IdleTime) >= u /\ Up(u, IdleTime) <= u + 1
           /\ Down(t) = 0 /\ u + t >= IdleTime => Up(u, IdleTime) = IdleTime
BY Times DEF Down, Up

\* The two schedulers as a tick finds them.
LEMMA Bx0Typed ==
    ASSUME ExpTyped
    PROVE  /\ Bx0 \in Bx /\ Bx0.on = bx.on /\ Bx0.want = bx.want /\ Bx0.probing = bx.probing
           /\ Bx0.idle = IF Active /\ bx.on THEN IdleTime ELSE Down(bx.idle)
           /\ Bx0.touched = (IF Active /\ bx.on THEN TRUE ELSE bx.touched)
<1> DEFINE a == [bx EXCEPT !.left = Down(@), !.idle = Down(@)]
<1>1. Down(bx.left) \in Nat /\ Down(bx.idle) \in Nat
  BY DEF Down, ExpTyped, Bx
<1>2. a \in Bx /\ a.on = bx.on /\ a.want = bx.want /\ a.probing = bx.probing
      /\ a.idle = Down(bx.idle) /\ a.touched = bx.touched
  BY <1>1 DEF ExpTyped, Bx
<1>3. Bx0 = IF Active THEN BxActivity(a) ELSE a
  BY DEF Bx0, Aged
<1> HIDE DEF a
<1>4. BxActivity(a) \in Bx /\ BxActivity(a).on = a.on /\ BxActivity(a).want = a.want
      /\ BxActivity(a).probing = a.probing
      /\ (a.on => BxActivity(a).idle = IdleTime /\ BxActivity(a).touched = TRUE)
      /\ (~a.on => BxActivity(a) = a)
  BY <1>2, Times DEF BxActivity, Bx
<1> QED
  BY <1>2, <1>3, <1>4

\* The policy as the tick finds it: the window of activity has touched it.
LEMMA Bi0Typed ==
    ASSUME ExpTyped
    PROVE  /\ Bi0 \in Bi /\ Bi0.min = bi.min /\ Bi0.want = bi.want
           /\ bi.min > 0 => Bi0.idle = Down(bi.idle)
           /\ Bi0.touched = (Active \/ bi.touched)
<1> DEFINE a == IF bi.min = 0 THEN bi ELSE [bi EXCEPT !.idle = Down(@), !.next = Down(@)]
<1>1. Down(bi.idle) \in Nat /\ Down(bi.next) \in Nat
  BY DEF Down, ExpTyped, Bi
<1>2. a \in Bi /\ a.min = bi.min /\ a.want = bi.want /\ (bi.min > 0 => a.idle = Down(bi.idle))
      /\ a.touched = bi.touched
  <2>1. bi \in Bi
    BY DEF ExpTyped
  <2>2. CASE bi.min = 0
    BY <2>1, <2>2
  <2>3. CASE bi.min # 0
    <3> DEFINE b == [bi EXCEPT !.idle = Down(@), !.next = Down(@)]
    <3>1. b \in Bi /\ b.min = bi.min /\ b.want = bi.want /\ b.idle = Down(bi.idle)
          /\ b.touched = bi.touched
      BY <1>1, <2>1 DEF Bi
    <3>2. a = b
      BY <2>3
    <3> HIDE DEF a, b
    <3> QED
      BY <3>1, <3>2
  <2> QED
    BY <2>2, <2>3
<1>3. Bi0 = IF Active THEN BiActivity(a) ELSE a
  BY DEF Bi0, AgedBi
<1>4. bi.touched \in BOOLEAN
  BY DEF ExpTyped, Bi
<1> HIDE DEF a
<1>5. BiActivity(a) \in Bi /\ BiActivity(a).min = a.min /\ BiActivity(a).want = a.want
      /\ BiActivity(a).idle = a.idle /\ BiActivity(a).touched = TRUE
  BY <1>2 DEF BiActivity, Bi
<1> QED
  BY <1>2, <1>3, <1>4, <1>5

\* A change of mode never arms the watch of adverts.
LEMMA AdvInTyped ==
    ASSUME NEW a \in Adv, NEW m \in Modes
    PROVE  AdvIn(a, m) \in Adv /\ (AdvIn(a, m).armed => a.armed)
BY DEF AdvIn, Adv

\* The check of the adverts stays of its type.
LEMMA AdvCheckTyped ==
    ASSUME NEW a \in Adv, NEW m \in Modes, NEW up
    PROVE  AdvCheck(a, m, up) \in Adv
<1> DEFINE b == AdvIn(a, m)
           gone == ~up
           old == Up(b.age, GoneTime)
<1>1. b \in Adv /\ gone \in BOOLEAN
  BY AdvInTyped
<1>2. GoneTime \in Nat
  BY ExpAssumption
<1>3. old \in Nat
  <2> HIDE DEF b
  <2> QED
    BY <1>1, <1>2 DEF Up, Adv
<1>4. \/ AdvCheck(a, m, up) = [b EXCEPT !.clock = TRUE, !.age = 0]
      \/ AdvCheck(a, m, up) = [[b EXCEPT !.seen = "gone", !.armed = gone] EXCEPT !.age = GoneTime]
      \/ AdvCheck(a, m, up) = [b EXCEPT !.age = old]
  BY DEF AdvCheck, Gone
<1> DEFINE c == [b EXCEPT !.seen = "gone", !.armed = gone]
<1>5. c \in Adv
  <2> HIDE DEF b, gone
  <2> QED
    BY <1>1 DEF Adv
<1>6. [c EXCEPT !.age = GoneTime] \in Adv
  <2> HIDE DEF c
  <2> QED
    BY <1>2, <1>5 DEF Adv
<1>7. [b EXCEPT !.clock = TRUE, !.age = 0] \in Adv /\ [b EXCEPT !.age = old] \in Adv
  <2> HIDE DEF b, old
  <2> QED
    BY <1>1, <1>3 DEF Adv
<1> QED
  BY <1>4, <1>6, <1>7

\* The tick in the words of the results above.
LEMMA TickResult ==
    ASSUME ExpTyped, Tick
    PROVE  \E e, i, m, p :
             /\ bx' = e.x /\ bi' = i.y /\ m \in Modes /\ p \in BOOLEAN
             /\ bx.on => BxResult(e, Bx0, mode, probing)
             /\ ~bx.on => bx' = Bx0 /\ m = mode /\ p = probing
             /\ m = ModeAfter(e.o, mode)
             /\ BiResult(i, Bi0, m, p, bx.on)
             /\ mode' = ModeAfter(i.o, m)
<1> DEFINE e == BxStep(Bx0, mode, probing)
           m == ModeAfter(e.o, mode)
           p == ProbeAfter(e.o, probing)
           i == BiStep(Bi0, m, p, bx.on)
<1>1. bx' = e.x /\ bi' = i.y /\ mode' = ModeAfter(i.o, m)
  BY DEF Tick
<1>2. /\ Bx0 \in Bx /\ Bx0.on = bx.on /\ Bi0 \in Bi
      /\ mode \in Modes /\ probing \in BOOLEAN /\ bx.on \in BOOLEAN
  BY Bx0Typed, Bi0Typed DEF ExpTyped, Bx
<1>3. bx.on => BxResult(e, Bx0, mode, probing)
  BY <1>2, BxStepResult
<1>4. ~bx.on => e.x = Bx0 /\ m = mode /\ p = probing
  <2>1. SUFFICES ASSUME ~bx.on PROVE e.x = Bx0 /\ m = mode /\ p = probing
    OBVIOUS
  <2>2. e = [x |-> Bx0, o |-> Nothing]
    BY <1>2, <2>1 DEF BxStep
  <2>3. e.x = Bx0 /\ e.o = Nothing
    BY <2>2
  <2>4. m = mode
    BY <2>3, NothingAsked DEF ModeAfter
  <2>5. Nothing.probe = FALSE
    BY DEF Nothing
  <2>6. p = probing
    BY <1>2, <2>3, <2>5 DEF ProbeAfter
  <2> QED
    BY <2>3, <2>4, <2>6
<1>5. m \in Modes
  <2>1. bx.on => m \in Modes
    BY <1>2, <1>3 DEF ModeAfter, BxResult, Out
  <2> QED
    BY <1>2, <1>4, <2>1
<1>6. p \in BOOLEAN
  BY DEF ProbeAfter
<1> HIDE DEF m, p
<1>7. BiResult(i, Bi0, m, p, bx.on)
  BY <1>2, <1>5, <1>6, BiStepResult
<1>8. m = ModeAfter(e.o, mode)
  BY DEF m
<1> HIDE DEF e, i
<1> QED
  BY <1>1, <1>3, <1>4, <1>5, <1>6, <1>7, <1>8

\* A tick keeps the types.
LEMMA TickTyped ==
    ASSUME ExpTyped, Tick, UNCHANGED alone
    PROVE  ExpTyped'
<1>1. PICK e, i, m, p :
        /\ bx' = e.x /\ bi' = i.y /\ m \in Modes
        /\ bx.on => BxResult(e, Bx0, mode, probing)
        /\ ~bx.on => bx' = Bx0
        /\ BiResult(i, Bi0, m, p, bx.on)
        /\ mode' = ModeAfter(i.o, m)
  BY TickResult
<1>2. bx' \in Bx /\ bi' \in Bi /\ mode' \in Modes
  BY <1>1, Bx0Typed DEF BxResult, BiResult, ModeAfter, Out
<1>3. since' \in 0..IdleTime /\ expAgo' \in 0..IdleTime
  BY Times DEF Tick, Watched, seen, ExpTyped, Up
<1>4. closed' \in 0..IdleTime /\ inWindow' \in BOOLEAN
  BY Times DEF Tick, ExpTyped, Up
<1>5. probing' \in BOOLEAN
  BY DEF Tick, ProbeAfter
<1>6. adv' \in Adv
  <2>1. adv \in Adv /\ mode \in Modes
    BY DEF ExpTyped
  <2>2. adv' = adv \/ adv' = AdvCheck(adv, mode, linkUp)
    BY DEF Tick
  <2> QED
    BY <2>1, <2>2, AdvCheckTyped
<1> QED
  BY <1>2, <1>3, <1>4, <1>5, <1>6 DEF ExpTyped

\* A tick keeps the probe window.
LEMMA TickWindow ==
    ASSUME ExpTyped, WindowKept, Tick
    PROVE  WindowKept'
<1>1. PICK e, i, m, p :
        /\ bx' = e.x
        /\ bx.on => BxResult(e, Bx0, mode, probing)
        /\ ~bx.on => bx' = Bx0
  BY TickResult
<1>2. inWindow' = inWindow /\ (inWindow => closed' = closed)
  BY DEF Tick
<1>3. ~inWindow /\ bx'.on => bx'.want = NoMode
  BY <1>1, Bx0Typed DEF BxResult, Cut
<1> QED
  BY <1>2, <1>3 DEF WindowKept

\* What the experiment holds covers who was there at this tick.
LEMMA TickExperiment ==
    ASSUME ExpTyped, WindowKept, ExperimentWaits, Tick, ~alone
    PROVE  ExperimentWaits'
<1>1. PICK e, i, m, p :
        /\ bx' = e.x
        /\ bx.on => BxResult(e, Bx0, mode, probing)
        /\ ~bx.on => bx' = Bx0
  BY TickResult
<1>2. bx'.on = bx.on
  BY <1>1, Bx0Typed DEF BxResult
<1>3. SUFFICES ASSUME bx.on
               PROVE  \/ word'
                      \/ since' + bx'.idle >= IdleTime
                      \/ bx'.want = NoMode /\ since' + 1 >= IdleTime
                      \/ bx'.want = NoMode /\ ~inWindow' /\ since' + 1 >= closed'
  BY <1>2 DEF ExperimentWaits
<1>4. BxResult(e, Bx0, mode, probing) /\ bx' = e.x
  BY <1>1, <1>3
<1>5. /\ since \in 0..IdleTime /\ closed \in 0..IdleTime /\ bx.idle \in Nat /\ IdleTime \in Nat
      /\ bx'.idle \in Nat /\ Bx0.idle \in Nat
  BY <1>4, Bx0Typed, Times DEF ExpTyped, Bx, BxResult
<1>6. /\ since' = IF Active \/ Forced THEN 0 ELSE Up(since, IdleTime)
      /\ word' = (word /\ ~Active /\ ~Forced)
      /\ inWindow' = inWindow
      /\ closed' = IF inWindow THEN closed ELSE Up(closed, IdleTime)
  BY <1>3 DEF Tick, Watched, There
<1>7. /\ Bx0.want = bx.want /\ Bx0.probing = bx.probing
      /\ Active => Bx0.idle = IdleTime
      /\ ~Active => Bx0.idle = Down(bx.idle) /\ Bx0.touched = bx.touched
  BY <1>3, Bx0Typed
<1>8. bx'.idle = Bx0.idle \/ bx'.idle = IdleTime
  BY <1>4 DEF BxResult
<1>9. CASE Active
  <2>1. bx'.idle = IdleTime
    BY <1>7, <1>8, <1>9
  <2> QED
    BY <1>5, <1>6, <1>9, <2>1
<1>10. CASE ~Active /\ Forced
  <2>1. /\ Bx0.want # NoMode /\ mode # Bx0.want /\ ~Bx0.touched
        /\ ~(Bx0.probing /\ probing)
    BY <1>7, <1>10 DEF Forced
  <2>2. CASE inWindow
    <3>1. bx'.idle = IdleTime
      BY <1>4, <2>1, <2>2 DEF BxResult, Cut
    <3> QED
      BY <1>5, <1>6, <1>10, <3>1
  <2>3. CASE ~inWindow
    <3>1. bx'.want = NoMode
      BY <1>4, <2>1, <2>3 DEF BxResult, Cut
    <3>2. closed = 0
      BY <1>3, <1>7, <2>1 DEF WindowKept
    <3>3. since' = 0 /\ closed' = Up(0, IdleTime)
      BY <1>6, <1>10, <2>3, <3>2
    <3>4. Up(0, IdleTime) <= 1 /\ Up(0, IdleTime) \in Nat
      BY <1>5 DEF Up
    <3>5. since' + 1 >= closed'
      BY <3>3, <3>4
    <3> QED
      BY <1>6, <2>3, <3>1, <3>5
  <2> QED
    BY <2>2, <2>3
<1>11. CASE ~Active /\ ~Forced
  <2>1. since' = Up(since, IdleTime)
    BY <1>6, <1>11
  <2>2. Bx0.idle = Down(bx.idle) /\ Down(bx.idle) \in Nat
    BY <1>5, <1>7, <1>11
  <2>3. CASE word
    BY <1>6, <1>11, <2>3
  <2>4. CASE since + bx.idle >= IdleTime
    <3>1. Up(since, IdleTime) + Down(bx.idle) >= IdleTime /\ Up(since, IdleTime) \in Nat
      BY <1>5, <2>4, DownUp
    <3>2. since' + bx'.idle >= IdleTime
      BY <1>5, <1>8, <2>1, <2>2, <3>1
    <3> QED
      BY <3>2
  <2>5. CASE bx.want = NoMode /\ since + 1 >= IdleTime
    <3>1. since' = IdleTime
      BY <1>5, <2>1, <2>5, DownUp
    <3> QED
      BY <1>5, <3>1
  <2>6. CASE bx.want = NoMode /\ ~inWindow /\ since + 1 >= closed
    <3>1. bx'.want = NoMode
      BY <1>4, <1>7, <2>6 DEF BxResult, Cut
    <3>2. Up(since, IdleTime) + 1 >= Up(closed, IdleTime)
      BY <1>5, <2>6 DEF Up
    <3>3. since' + 1 >= closed'
      BY <1>6, <2>1, <2>6, <3>2
    <3> QED
      BY <1>6, <2>6, <3>1, <3>3
  <2> QED
    BY <1>3, <2>3, <2>4, <2>5, <2>6 DEF ExperimentWaits
<1> QED
  BY <1>9, <1>10, <1>11

\* What the policy holds does, too.
LEMMA TickPolicy ==
    ASSUME ExpTyped, PolicyWaits, Tick, ~alone
    PROVE  PolicyWaits'
<1>1. PICK e, i, m, p :
        /\ bx' = e.x /\ bi' = i.y
        /\ bx.on => BxResult(e, Bx0, mode, probing)
        /\ ~bx.on => bx' = Bx0 /\ m = mode /\ p = probing
        /\ BiResult(i, Bi0, m, p, bx.on)
  BY TickResult
<1>2. bx'.on = bx.on /\ bi'.min = bi.min /\ bi.min \in Nat
  BY <1>1, Bx0Typed, Bi0Typed DEF BxResult, BiResult, ExpTyped, Bi
<1>3. /\ since \in 0..IdleTime /\ expAgo \in 0..IdleTime /\ bi.idle \in Nat /\ IdleTime \in Nat
  BY Times DEF ExpTyped, Bi
<1>4. ASSUME bi.min > 0
      PROVE  /\ bi'.idle = IF BiRenewed(Bi0, m, p, bx.on) THEN IdleTime ELSE Down(bi.idle)
             /\ expAgo' + bi'.idle >= IdleTime /\ since' + bi'.idle >= IdleTime
             /\ bx.on => bi'.idle = IdleTime
  <2>1. bi'.idle = IF BiRenewed(Bi0, m, p, bx.on) THEN IdleTime ELSE Down(bi.idle)
    BY <1>1, <1>4, Bi0Typed DEF BiResult
  <2>2. bx.on => bi'.idle = IdleTime
    BY <2>1 DEF BiRenewed
  <2>3. since' \in Nat /\ expAgo' \in Nat
    BY <1>3, DownUp DEF Tick, Watched
  <2>4. CASE bi'.idle = IdleTime
    <3>1. \A t \in Nat : t + IdleTime >= IdleTime
      BY <1>3
    <3>2. since' + bi'.idle >= IdleTime /\ expAgo' + bi'.idle >= IdleTime
      BY <2>3, <2>4, <3>1
    <3> QED
      BY <2>1, <2>2, <3>2
  <2>5. CASE bi'.idle # IdleTime
    <3>1. ~bx.on /\ ~BiRenewed(Bi0, mode, probing, FALSE) /\ bi'.idle = Down(bi.idle)
      BY <1>1, <2>1, <2>2, <2>5 DEF BiRenewed
    <3>2. ~Active /\ ~bi.touched /\ ~BiRenewed(bi, mode, probing, FALSE)
      BY <3>1, Bi0Typed DEF BiRenewed
    <3>3. ~There
      BY <3>1, <3>2 DEF There, Forced
    <3>4. since' = Up(since, IdleTime) /\ expAgo' = Up(expAgo, IdleTime)
      BY <3>1, <3>3 DEF Tick, Watched
    <3>5. since + bi.idle >= IdleTime /\ expAgo + bi.idle >= IdleTime
      BY <1>4, <3>2 DEF PolicyWaits
    <3> QED
      BY <1>3, <2>1, <2>2, <3>1, <3>4, <3>5, DownUp
  <2> QED
    BY <2>4, <2>5
<1>5. adv'.armed => bx.on
  BY DEF Tick, PolicyWaits
<1> QED
  BY <1>2, <1>4, <1>5 DEF PolicyWaits

\* A tick that takes the session out of hold.
LEMMA TickIsEarned ==
    ASSUME ExpTyped, ExperimentWaits, PolicyWaits, Tick, ~alone, mode = "hold", mode' # "hold"
    PROVE  IF bx.on THEN since' = IdleTime \/ word'
           ELSE since' = IdleTime /\ expAgo' = IdleTime
<1>1. PICK e, i, m, p :
        /\ bx' = e.x /\ bi' = i.y /\ m \in Modes
        /\ bx.on => BxResult(e, Bx0, mode, probing)
        /\ ~bx.on => bx' = Bx0 /\ m = mode /\ p = probing
        /\ m = ModeAfter(e.o, mode)
        /\ BiResult(i, Bi0, m, p, bx.on)
        /\ mode' = ModeAfter(i.o, m)
  BY TickResult
<1>2. /\ since \in 0..IdleTime /\ expAgo \in 0..IdleTime /\ bi.idle \in Nat /\ IdleTime \in Nat
      /\ bx.idle \in Nat /\ bi.min \in Nat
  BY Times DEF ExpTyped, Bx, Bi
<1>3. CASE bx.on
  <2>1. mode' = m /\ e.o.set \notin {NoMode, "hold"}
    BY <1>1, <1>3 DEF BiResult, ModeAfter
  <2>2. Bx0.want = NoMode /\ inWindow /\ Bx0.idle = 0
    BY <1>1, <1>3, <2>1 DEF BxResult
  <2>3. bx.want = NoMode /\ ~Forced
    BY <2>2, Bx0Typed DEF Forced
  <2>4. CASE Active
    <3>1. IdleTime = 0
      BY <1>3, <2>2, <2>4, Bx0Typed
    <3>2. since' = 0
      BY <2>4 DEF Tick, Watched, There
    <3> QED
      BY <1>3, <3>1, <3>2
  <2>5. CASE ~Active
    <3>1. since' = Up(since, IdleTime) /\ (word => word')
      BY <1>3, <2>3, <2>5 DEF Tick, Watched, There
    <3>2. Down(bx.idle) = 0
      BY <1>3, <2>2, <2>5, Bx0Typed
    <3>3. word \/ since + bx.idle >= IdleTime \/ since + 1 >= IdleTime
      BY <1>3, <2>2 DEF ExperimentWaits
    <3>4. since' = IdleTime \/ word'
      BY <1>2, <3>1, <3>2, <3>3, DownUp
    <3> QED
      BY <1>3, <3>4
  <2> QED
    BY <2>4, <2>5
<1>4. CASE ~bx.on
  <2>1. m = mode /\ p = probing /\ i.o.set \notin {NoMode, "hold"}
    BY <1>1, <1>4 DEF ModeAfter
  <2>2. bi.min > 0 /\ i.y.idle = 0
    BY <1>1, <1>2, <2>1, Bi0Typed DEF BiResult
  <2>3. i.y.idle = IF BiRenewed(Bi0, mode, probing, FALSE) THEN IdleTime ELSE Down(bi.idle)
    BY <1>1, <1>4, <2>1, <2>2, Bi0Typed DEF BiResult, BiRenewed
  <2>4. CASE IdleTime = 0
    <3>1. since' \in 0..IdleTime /\ expAgo' \in 0..IdleTime
      BY <1>2, DownUp DEF Tick, Watched
    <3> QED
      BY <1>4, <2>4, <3>1
  <2>5. CASE IdleTime # 0
    <3>1. ~BiRenewed(Bi0, mode, probing, FALSE) /\ Down(bi.idle) = 0
      BY <2>2, <2>3, <2>5
    <3>2. ~Active /\ ~bi.touched /\ ~BiRenewed(bi, mode, probing, FALSE)
      BY <3>1, Bi0Typed DEF BiRenewed
    <3>3. since' = Up(since, IdleTime) /\ expAgo' = Up(expAgo, IdleTime)
      BY <1>4, <3>2 DEF Tick, Watched, There, Forced
    <3>4. since + bi.idle >= IdleTime /\ expAgo + bi.idle >= IdleTime
      BY <2>2, <3>2 DEF PolicyWaits
    <3> QED
      BY <1>2, <1>4, <3>1, <3>3, <3>4, DownUp
  <2> QED
    BY <2>4, <2>5
<1> QED
  BY <1>3, <1>4

-----------------------------------------------------------------------------
(* Between two ticks.                                                       *)

\* Steps that touch neither scheduler nor history.
LEMMA ElsewhereKeeps ==
    ASSUME ExpInv, UNCHANGED <<bx, adv, bi, seen, closed, inWindow>>,
           mode' \in Modes, probing' \in BOOLEAN, UNCHANGED alone
    PROVE  ExpInv'
<1>1. ExpTyped'
  BY DEF ExpInv, ExpTyped, seen
<1>2. ~alone => WindowKept' /\ ExperimentWaits' /\ PolicyWaits'
  BY DEF ExpInv, WindowKept, ExperimentWaits, PolicyWaits, seen
<1> QED
  BY <1>1, <1>2 DEF ExpInv

\* A tick keeps the invariant.
LEMMA TickKeeps ==
    ASSUME ExpInv, Tick, UNCHANGED alone
    PROVE  ExpInv'
BY TickTyped, TickWindow, TickExperiment, TickPolicy DEF ExpInv

\* Activity renews the experiment's idle time and touches the policy.
LEMMA ActivityTyped ==
    ASSUME NEW x \in Bx, NEW y \in Bi
    PROVE  /\ BxActivity(x) \in Bx /\ BxActivity(x).on = x.on /\ BxActivity(x).want = x.want
           /\ x.on => BxActivity(x).idle = IdleTime
           /\ BiActivity(y) \in Bi /\ BiActivity(y).min = y.min /\ BiActivity(y).idle = y.idle
           /\ BiActivity(y).touched
BY Times DEF BxActivity, BiActivity, Bx, Bi

\* A viewer's activity keeps the invariant.
LEMMA ViewerKeeps ==
    ASSUME ExpInv, Viewer, UNCHANGED alone
    PROVE  ExpInv'
<1>1. bx \in Bx /\ bi \in Bi /\ IdleTime \in Nat
  BY Times DEF ExpInv, ExpTyped
<1>2. /\ bx' \in Bx /\ bx'.on = bx.on /\ bx'.want = bx.want /\ (bx.on => bx'.idle = IdleTime)
      /\ bi' \in Bi /\ bi'.min = bi.min /\ bi'.idle = bi.idle /\ bi'.touched
  BY <1>1, ActivityTyped DEF Viewer
<1>3. since' = 0 /\ expAgo' = expAgo /\ UNCHANGED <<mode, probing, inWindow, closed, adv>>
  BY DEF Viewer, Noticed, world
<1>4. ExpTyped'
  BY <1>1, <1>2, <1>3 DEF ExpInv, ExpTyped
<1>5. ~alone => WindowKept' /\ ExperimentWaits' /\ PolicyWaits'
  <2>1. SUFFICES ASSUME ~alone PROVE WindowKept' /\ ExperimentWaits' /\ PolicyWaits'
    OBVIOUS
  <2>2. WindowKept'
    BY <1>2, <1>3, <2>1 DEF ExpInv, WindowKept
  <2>3. ExperimentWaits'
    BY <1>1, <1>2, <1>3 DEF ExperimentWaits
  <2>4. PolicyWaits'
    BY <1>2, <1>3, <2>1 DEF ExpInv, PolicyWaits
  <2> QED
    BY <2>2, <2>3, <2>4
<1> QED
  BY <1>4, <1>5 DEF ExpInv

\* An advert of the unit keeps the invariant.
LEMMA AdvertKeeps ==
    ASSUME ExpInv, UnitAdvert, UNCHANGED alone
    PROVE  ExpInv'
<1>1. bx \in Bx /\ bi \in Bi /\ adv \in Adv /\ mode \in Modes /\ bx.on /\ IdleTime \in Nat
  BY Times DEF ExpInv, ExpTyped, UnitAdvert
<1>2. UNCHANGED <<mode, probing, inWindow, closed, bi>> /\ expAgo' = expAgo
  BY DEF UnitAdvert, Noticed, world, seen
<1>3. adv' \in Adv /\ (adv'.armed => adv.armed)
  <2> DEFINE a == AdvIn(adv, mode)
             armed == IF adv.seen = "seen" THEN a.armed ELSE FALSE
  <2>1. a \in Adv /\ (a.armed => adv.armed) /\ armed \in BOOLEAN /\ (armed => a.armed)
    BY <1>1, AdvInTyped DEF Adv
  <2>2. adv' = [a EXCEPT !.clock = TRUE, !.age = 0, !.seen = "seen", !.armed = armed]
    BY DEF UnitAdvert
  <2> HIDE DEF a, armed
  <2> QED
    BY <2>1, <2>2 DEF Adv
<1>4. CASE Wakes(adv)
  <2>1. /\ bx' \in Bx /\ bx'.on /\ bx'.want = bx.want /\ bx'.idle = IdleTime /\ since' = 0
    BY <1>1, <1>4, ActivityTyped DEF UnitAdvert, Noticed
  <2>2. adv.armed
    BY <1>1, <1>4, AdvInTyped DEF Wakes
  <2>3. ExpTyped'
    BY <1>1, <1>2, <1>3, <2>1 DEF ExpInv, ExpTyped
  <2>4. ~alone => WindowKept' /\ ExperimentWaits'
    BY <1>1, <1>2, <2>1 DEF ExpInv, WindowKept, ExperimentWaits
  <2>5. ~alone => PolicyWaits'
    BY <1>1, <1>2, <1>3, <2>1, <2>2 DEF ExpInv, PolicyWaits
  <2> QED
    BY <2>3, <2>4, <2>5 DEF ExpInv
<1>5. CASE ~Wakes(adv)
  <2>1. bx' = bx /\ UNCHANGED <<since, word>>
    BY <1>5 DEF UnitAdvert, seen
  <2>2. ExpTyped'
    BY <1>2, <1>3, <2>1 DEF ExpInv, ExpTyped
  <2>3. ~alone => WindowKept' /\ ExperimentWaits' /\ PolicyWaits'
    BY <1>2, <1>3, <2>1 DEF ExpInv, WindowKept, ExperimentWaits, PolicyWaits
  <2> QED
    BY <2>2, <2>3 DEF ExpInv
<1> QED
  BY <1>4, <1>5

\* The experiment off or just started, and a policy just set, are of their types.
LEMMA FreshTyped ==
    /\ BxOff \in Bx /\ ~BxOff.on /\ BxStart \in Bx /\ BxStart.on /\ BxStart.want = NoMode
    /\ AdvUnknown \in Adv /\ ~AdvUnknown.armed
    /\ \A min \in Nat : BiSet(min) \in Bi /\ BiSet(min).idle = IdleTime /\ BiSet(min).min = min
<1>1. BxOff \in Bx /\ ~BxOff.on /\ BxOff.want = NoMode
  BY DEF BxOff, Bx
<1>2. BxStart \in Bx /\ BxStart.on /\ BxStart.want = NoMode
  BY <1>1 DEF BxStart, Bx
<1>3. AdvUnknown \in Adv /\ ~AdvUnknown.armed
  BY DEF AdvUnknown, Adv
<1>4. ASSUME NEW min \in Nat
      PROVE  BiSet(min) \in Bi /\ BiSet(min).idle = IdleTime /\ BiSet(min).min = min
  BY Times DEF BiSet, Bi
<1> QED
  BY <1>1, <1>2, <1>3, <1>4

\* Starting the experiment keeps the invariant.
LEMMA StartKeeps ==
    ASSUME ExpInv, ExpStart, UNCHANGED alone
    PROVE  ExpInv'
<1>1. bx' = BxStart /\ adv' = AdvUnknown /\ word'
      /\ UNCHANGED <<mode, probing, inWindow, closed, bi, since, expAgo>>
  BY DEF ExpStart, world
<1>2. ExpTyped'
  BY <1>1, FreshTyped DEF ExpInv, ExpTyped
<1>3. ~alone => WindowKept' /\ ExperimentWaits' /\ PolicyWaits'
  BY <1>1, FreshTyped DEF ExpInv, WindowKept, ExperimentWaits, PolicyWaits
<1> QED
  BY <1>2, <1>3 DEF ExpInv

\* Stopping the experiment keeps the invariant.
LEMMA StopKeeps ==
    ASSUME ExpInv, ExpStop, UNCHANGED alone
    PROVE  ExpInv'
<1>1. bx' = BxOff /\ adv' = AdvUnknown /\ mode' = "hold"
      /\ UNCHANGED <<probing, inWindow, closed, bi, since, expAgo>>
  BY DEF ExpStop, world, seen
<1>2. ExpTyped'
  BY <1>1, FreshTyped, NoModeIsNone DEF ExpInv, ExpTyped
<1>3. ~alone => WindowKept' /\ ExperimentWaits' /\ PolicyWaits'
  BY <1>1, FreshTyped DEF ExpInv, WindowKept, ExperimentWaits, PolicyWaits
<1> QED
  BY <1>2, <1>3 DEF ExpInv

\* A new idle setting keeps the invariant.
LEMMA SettingKeeps ==
    ASSUME ExpInv, NEW min \in ProbeTimes, IdleSet(min), UNCHANGED alone
    PROVE  ExpInv'
<1>1. /\ bi' = BiSet(min) /\ UNCHANGED <<probing, inWindow, closed, bx, adv>>
      /\ expAgo' = expAgo /\ (bx.on => since' = since /\ word' = word)
      /\ since' \in {since, 0} /\ mode' \in {mode, "hold"}
  BY DEF IdleSet, world, seen, Noticed
<1>2. bi' \in Bi /\ bi'.idle = IdleTime /\ bi'.min = min /\ IdleTime \in Nat
  BY <1>1, FreshTyped, Times
<1>3. ExpTyped'
  BY <1>1, <1>2, NoModeIsNone DEF ExpInv, ExpTyped
<1>4. since' + bi'.idle >= IdleTime /\ expAgo' + bi'.idle >= IdleTime
  <2>1. \A t \in Nat : t + IdleTime >= IdleTime
    BY <1>2
  <2> QED
    <3>1. since' \in 0..IdleTime /\ expAgo' \in 0..IdleTime
      BY <1>3 DEF ExpTyped
    <3>2. since' \in Nat /\ expAgo' \in Nat
      BY <1>2, <3>1
    <3> QED
      BY <1>2, <2>1, <3>2
<1>5. ~alone => WindowKept' /\ ExperimentWaits' /\ PolicyWaits'
  BY <1>1, <1>2, <1>4 DEF ExpInv, WindowKept, ExperimentWaits, PolicyWaits
<1> QED
  BY <1>3, <1>5 DEF ExpInv

\* The window closes, or opens after the hours it was closed.
LEMMA HourKeeps ==
    ASSUME ExpInv, Hour, UNCHANGED alone
    PROVE  ExpInv'
<1>1. closed' = 0 /\ inWindow' = ~inWindow /\ (inWindow \/ closed = IdleTime)
      /\ UNCHANGED <<mode, probing, bx, adv, bi, since, expAgo, word>>
  BY DEF Hour, seen
<1>2. ExpTyped'
  BY <1>1, Times DEF ExpInv, ExpTyped
<1>3. ~alone => WindowKept' /\ PolicyWaits'
  BY <1>1 DEF ExpInv, WindowKept, PolicyWaits
<1>4. ~alone => ExperimentWaits'
  BY <1>1 DEF ExpInv, ExperimentWaits
<1> QED
  BY <1>2, <1>3, <1>4 DEF ExpInv

\* Every step of the schedulers and of the world keeps the invariant.
LEMMA ExpStep ==
    ASSUME ExpInv, [ExpNext]_expVars
    PROVE  ExpInv'
<1>1. mode \in Modes /\ probing \in BOOLEAN
  BY DEF ExpInv, ExpTyped
<1>2. CASE Tick /\ UNCHANGED alone
  BY <1>2, TickKeeps
<1>3. CASE ProbeEnds /\ UNCHANGED alone
  BY <1>1, <1>3, ElsewhereKeeps DEF ProbeEnds
<1>4. CASE Outsiders /\ UNCHANGED alone
  <2>1. CASE Viewer
    BY <1>4, <2>1, ViewerKeeps
  <2>2. CASE UnitAdvert
    BY <1>4, <2>2, AdvertKeeps
  <2>3. CASE ExpStart
    BY <1>4, <2>3, StartKeeps
  <2>4. CASE ExpStop
    BY <1>4, <2>4, StopKeeps
  <2>5. CASE \E min \in ProbeTimes : IdleSet(min)
    BY <1>4, <2>5, SettingKeeps
  <2>6. CASE Hour
    BY <1>4, <2>6, HourKeeps
  <2>7. CASE Held
    <3>1. mode' \in Modes
      BY <1>1, <2>7, NoModeIsNone DEF Held
    <3> QED
      BY <1>1, <1>4, <2>7, <3>1, ElsewhereKeeps DEF Held
  <2>8. CASE Link \/ Rest \/ IgnitionTurns
    BY <1>1, <1>4, <2>8, ElsewhereKeeps DEF Link, Rest, IgnitionTurns
  <2>9. CASE \E m \in Modes : Outside(m)
    BY <1>1, <1>4, <2>9, ElsewhereKeeps DEF Outside
  <2> QED
    BY <1>4, <2>1, <2>2, <2>3, <2>4, <2>5, <2>6, <2>7, <2>8, <2>9 DEF Outsiders
<1>5. CASE Leave
  <2>1. since' = 0 /\ expAgo' = 0 /\ alone' = TRUE
        /\ UNCHANGED <<mode, probing, inWindow, closed, bx, adv, bi>>
    BY <1>5 DEF Leave, world
  <2> QED
    BY <2>1, Times DEF ExpInv, ExpTyped
<1>6. CASE UNCHANGED expVars
  <2>1. UNCHANGED <<mode, probing, inWindow, closed, bx, adv, bi, seen, alone>>
    BY <1>6 DEF expVars, world
  <2> QED
    BY <1>1, <2>1, ElsewhereKeeps
<1> QED
  BY <1>2, <1>3, <1>4, <1>5, <1>6 DEF ExpNext

\* The link is let go only when nobody was there for the idle time: no viewer, ignition,
\* hold, waking advert, forced mode or new setting, for every idle time, phase and probe
\* interval (cali_bx_step, cali_bi_step, cali_ble_exp_tick).
THEOREM ExpQuietIsEarned == ExpSpec => QuietIsEarned
<1>1. ExpInit => ExpInv
  <2>1. SUFFICES ASSUME ExpInit PROVE ExpInv
    OBVIOUS
  <2>2. bx = BxOff /\ adv = AdvUnknown /\ bi = BiSet(0) /\ closed = 0 /\ since = 0
        /\ expAgo = IdleTime /\ mode = "hold" /\ probing = FALSE /\ inWindow = TRUE
    BY <2>1 DEF ExpInit
  <2>3. ExpTyped
    <3>1. 0 \in 0..IdleTime /\ IdleTime \in 0..IdleTime /\ BiSet(0) \in Bi
      BY FreshTyped, Times
    <3>2. {probing, inWindow} \subseteq BOOLEAN /\ mode \in Modes
      BY <2>2, NoModeIsNone
    <3> QED
      BY <2>2, <3>1, <3>2, FreshTyped DEF ExpTyped
  <2>4. WindowKept /\ ExperimentWaits /\ PolicyWaits
    BY <2>2, FreshTyped DEF WindowKept, ExperimentWaits, PolicyWaits
  <2> QED
    BY <2>3, <2>4 DEF ExpInv
<1>2. ExpInv /\ [ExpNext]_expVars => ExpInv'
  BY ExpStep
<1>3. ExpInv /\ [ExpNext]_expVars =>
        [Tick /\ ~alone /\ mode = "hold" /\ mode' # "hold" =>
            IF bx.on THEN since' = IdleTime \/ word'
            ELSE since' = IdleTime /\ expAgo' = IdleTime]_expVars
  BY TickIsEarned DEF ExpInv
<1> QED
  BY <1>1, <1>2, <1>3, PTL DEF ExpSpec, QuietIsEarned

-----------------------------------------------------------------------------
(* The tasks and the lock.                                                  *)

Roofs(task) == \E p : task = Press(p) \/ task = Stop(p)

\* No two tasks are the same one.
LEMMA TasksDiffer ==
    /\ Sup # NoTask /\ Poll # NoTask /\ Sup # Poll
    /\ \A c : Cmd(c) # NoTask /\ Cmd(c) # Sup /\ Cmd(c) # Poll
    /\ \A c, t : Cmd(c) # Start(t)
    /\ \A c, d : Cmd(c) = Cmd(d) => c = d
    /\ \A t : Start(t) # NoTask /\ Start(t) # Sup /\ Start(t) # Poll
BY SMT DEF NoTask, Sup, Poll, Cmd, Start

\* A task of the roof is none of the daemon's.
LEMMA RoofTasksDiffer ==
    /\ \A p, q : Press(p) # Stop(q)
    /\ \A p, q : Press(p) = Press(q) => p = q
    /\ \A p, q : Stop(p) = Stop(q) => p = q
    /\ ~Roofs(NoTask) /\ ~Roofs(Sup) /\ ~Roofs(Poll)
    /\ \A c : ~Roofs(Cmd(c))
    /\ \A t : ~Roofs(Start(t))
    /\ \A p : Roofs(Press(p)) /\ Roofs(Stop(p))
BY SMT DEF NoTask, Sup, Poll, Cmd, Start, Press, Stop, Roofs

\* A step of the daemon takes neither the lock nor a connection from a task of the
\* roof, nor gives it one.
RoofLeft ==
    /\ Roofs(holder) => UNCHANGED <<holder, cold>>
    /\ Roofs(cold') => UNCHANGED cold

\* Every step of the daemon keeps its invariant and takes no lock from a roof's task.
LEMMA DaemonKeeps ==
    ASSUME DaemonInv, DaemonNext
    PROVE  DaemonInv' /\ RoofLeft
<1> USE TasksDiffer, RoofTasksDiffer
    DEF DaemonInv, DaemonTypeOK, OneLink, PollKeepsAway, OnRadio, RoofLeft, lock, radio, supVars,
        pairVars, Holds, Queues, Leaves, Connects, Disconnects, Live, Connecting, OwnsRadio, UiActive,
        Claim, Sought
<1>1. DaemonTypeOK /\ OneLink /\ PollKeepsAway /\ OnRadio
  BY DEF DaemonInv
<1>2. ASSUME LinkLost PROVE DaemonInv' /\ RoofLeft
  BY <1>1, <1>2 DEF LinkLost
<1>3. ASSUME UnitSleeps PROVE DaemonInv' /\ RoofLeft
  BY <1>1, <1>3 DEF UnitSleeps
<1>4. ASSUME UnitWakes PROVE DaemonInv' /\ RoofLeft
  BY <1>1, <1>4 DEF UnitWakes
<1>5. ASSUME Browse PROVE DaemonInv' /\ RoofLeft
  BY <1>1, <1>5 DEF Browse
<1>6. ASSUME UiLapses PROVE DaemonInv' /\ RoofLeft
  BY <1>1, <1>6 DEF UiLapses
<1>7. ASSUME Connect PROVE DaemonInv' /\ RoofLeft
  BY <1>1, <1>7 DEF Connect
<1>8. ASSUME Disconnect PROVE DaemonInv' /\ RoofLeft
  BY <1>1, <1>8 DEF Disconnect
<1>9. ASSUME SupWakes PROVE DaemonInv' /\ RoofLeft
  BY <1>1, <1>9 DEF SupWakes
<1>10. ASSUME SupDrops PROVE DaemonInv' /\ RoofLeft
  BY <1>1, <1>10 DEF SupDrops
<1>11. ASSUME SupConnects PROVE DaemonInv' /\ RoofLeft
  BY <1>1, <1>11 DEF SupConnects, Requeues
<1>12. ASSUME SupFails PROVE DaemonInv' /\ RoofLeft
  BY <1>1, <1>12 DEF SupFails
<1>13. ASSUME PollBegins PROVE DaemonInv' /\ RoofLeft
  BY <1>1, <1>13 DEF PollBegins
<1>14. ASSUME PollReads PROVE DaemonInv' /\ RoofLeft
  BY <1>1, <1>14 DEF PollReads
<1>15. ASSUME PollSkips PROVE DaemonInv' /\ RoofLeft
  BY <1>1, <1>15 DEF PollSkips
<1>16. ASSUME PollEnds PROVE DaemonInv' /\ RoofLeft
  BY <1>1, <1>16 DEF PollEnds
<1>17. ASSUME NEW c \in Commands, CmdBegins(c) PROVE DaemonInv' /\ RoofLeft
  BY <1>1, <1>17 DEF CmdBegins
<1>18. ASSUME NEW c \in Commands, CmdWarmed(c) PROVE DaemonInv' /\ RoofLeft
  BY <1>1, <1>18 DEF CmdWarmed
<1>19. ASSUME NEW c \in Commands, CmdActs(c) PROVE DaemonInv' /\ RoofLeft
  BY <1>1, <1>19 DEF CmdActs
<1>20. ASSUME NEW c \in Commands, CmdEnds(c) PROVE DaemonInv' /\ RoofLeft
  BY <1>1, <1>20 DEF CmdEnds
<1>21. ASSUME NEW t \in Starts, StartArrives(t) PROVE DaemonInv' /\ RoofLeft
  BY <1>1, <1>21 DEF StartArrives
<1>22. ASSUME NEW t \in Starts, StartRuns(t) PROVE DaemonInv' /\ RoofLeft
  BY <1>1, <1>22 DEF StartRuns
<1>23. ASSUME NEW t \in Starts, StartEnds(t) PROVE DaemonInv' /\ RoofLeft
  <2>1. holder' = holder \/ (Holds(Start(t)) /\ Leaves)
    BY <1>23 DEF StartEnds, Withdraws
  <2>2. DaemonTypeOK'
    BY <1>1, <1>23 DEF StartEnds
  <2>3. UNCHANGED <<sess, cold, sup, poll, cmd, flow>>
    BY <1>23 DEF StartEnds
  <2> QED
    BY <1>1, <2>1, <2>2, <2>3
<1>24. ASSUME NEW t \in Starts, CancelEnds(t) PROVE DaemonInv' /\ RoofLeft
  BY <1>1, <1>24 DEF CancelEnds
<1>25. ASSUME CancelArrives PROVE DaemonInv' /\ RoofLeft
  BY <1>1, <1>25 DEF CancelArrives
<1>26. ASSUME FlowEnds PROVE DaemonInv' /\ RoofLeft
  BY <1>1, <1>26 DEF FlowEnds
<1> QED
  BY <1>2, <1>3, <1>4, <1>5, <1>6, <1>7, <1>8, <1>9, <1>10, <1>11, <1>12, <1>13, <1>14, <1>15,
     <1>16, <1>17, <1>18, <1>19, <1>20, <1>21, <1>22, <1>23, <1>24, <1>25, <1>26
     DEF DaemonNext, SupSteps, PollSteps, CmdSteps, StartSteps

-----------------------------------------------------------------------------
(* The roof.                                                                *)

\* What holds of the presses, their tasks and tokens, however many writes fail.
PressInv == RoofTypeOK /\ DaemonInv /\ StopReaches /\ RoofOnRadio /\ ReleaseKept

\* A write leaves the counts and directions in their ranges.
LEMMA SetCounts ==
    ASSUME faults \in 0..MaxFaults, drive \in {"stop", "move"}, view \in {"off", "stop", "move"},
           unheard \in BOOLEAN, NEW frame \in {"stop", "move"}, NEW up, NEW on, Sets(frame, up, on)
    PROVE  /\ faults' \in 0..MaxFaults /\ drive' \in {"stop", "move"}
           /\ view' \in {"off", "stop", "move"} /\ unheard' \in BOOLEAN
<1>1. faults' \in 0..MaxFaults /\ drive' \in {"stop", "move"} /\ view' \in {"off", "stop", "move"}
  BY RoofAssumption DEF Sets, Writes
<1>2. unheard' \in BOOLEAN
  BY Zenon DEF Sets, Writes
<1> QED
  BY <1>1, <1>2

\* What holds of the presses is kept by every step, whatever writes fail.
LEMMA RoofStepKeeps ==
    ASSUME PressInv, RoofNext
    PROVE  PressInv'
<1> USE TasksDiffer, RoofTasksDiffer, RoofAssumption
    DEF RoofTypeOK, StopReaches, RoofOnRadio, ReleaseKept,
        DaemonInv, DaemonTypeOK, OneLink, PollKeepsAway, OnRadio, Holds, Live, Connecting, Queues,
        Leaves, Own, Pending, NoPress, rest, lock, radio, supVars, pairVars, daemonVars, presses, streams
<1>1. RoofTypeOK /\ DaemonInv /\ StopReaches /\ RoofOnRadio /\ ReleaseKept
  BY DEF PressInv
<1>2. ASSUME NEW p \in Presses, PressArrives(p) PROVE PressInv'
  <2>1. RoofTypeOK' /\ DaemonTypeOK'
    BY <1>1, <1>2 DEF PressArrives, TokenSet, Claim
  <2>2. OneLink' /\ PollKeepsAway' /\ OnRadio'
    BY <1>1, <1>2 DEF PressArrives, TokenSet, Claim
  <2>3. StopReaches'
    BY <1>1, <1>2 DEF PressArrives, TokenSet, Claim
  <2>4. RoofOnRadio'
    BY <1>1, <1>2 DEF PressArrives, TokenSet, Claim
  <2>5. ReleaseKept'
    BY <1>1, <1>2 DEF PressArrives, TokenSet, Claim
  <2> QED
    BY <2>1, <2>2, <2>3, <2>4, <2>5 DEF PressInv
<1>3. ASSUME NEW p \in Presses, PressRefused(p) PROVE PressInv'
  <2>1. RoofTypeOK' /\ DaemonTypeOK'
    BY <1>1, <1>3 DEF PressRefused
  <2>2. OneLink' /\ PollKeepsAway' /\ OnRadio'
    BY <1>1, <1>3 DEF PressRefused
  <2>3. StopReaches'
    BY <1>1, <1>3 DEF PressRefused
  <2>4. RoofOnRadio'
    BY <1>1, <1>3 DEF PressRefused
  <2>5. ReleaseKept'
    BY <1>1, <1>3 DEF PressRefused
  <2> QED
    BY <2>1, <2>2, <2>3, <2>4, <2>5 DEF PressInv
<1>4. ASSUME NEW p \in Presses, ReleaseArrives(p) PROVE PressInv'
  <2>1. RoofTypeOK' /\ DaemonTypeOK'
    <3>1. stopped' \cup freed' \cup spent' \subseteq Presses
      BY <1>1, <1>4 DEF ReleaseArrives, TokenSet, Moving
    <3>2. stopper' \in [Presses -> {"no", "wait", "dial", "settle"}]
      <4>1. stopper' = stopper \/ stopper' = [stopper EXCEPT ![p] = "wait"]
        BY <1>1, <1>4 DEF ReleaseArrives
      <4> QED
        BY <1>1, <1>4, <4>1
    <3>3. guard' \in BOOLEAN
      BY <1>1, <1>4, Zenon DEF ReleaseArrives
    <3>4. UNCHANGED <<press, ride, cur, viewing, viewLoop, view, coldUp, ticked, drive, faults, unheard,
                     ui, rest>>
      BY <1>1, <1>4 DEF ReleaseArrives
    <3> QED
      BY <1>1, <3>1, <3>2, <3>3, <3>4
  <2>2. OneLink' /\ PollKeepsAway' /\ OnRadio'
    BY <1>1, <1>4 DEF ReleaseArrives, TokenSet, Moving
  <2>3. StopReaches'
    BY <1>1, <1>4 DEF ReleaseArrives, TokenSet, Moving
  <2>4. RoofOnRadio'
    <3>1. stopper[p] = "no"
      BY <1>1, <1>4 DEF ReleaseArrives
    <3>2. Roofs(holder) => UNCHANGED holder
      BY <1>1, <1>4 DEF ReleaseArrives
    <3>3. UNCHANGED <<press, ride, cold, coldUp>>
      BY <1>1, <1>4 DEF ReleaseArrives
    <3>4. \A q \in Presses : stopper[q] # "no" => stopper'[q] = stopper[q]
      BY <1>1, <1>4, <3>1 DEF ReleaseArrives
    <3>5. \A q \in Presses : stopper[q] = "no" => stopper'[q] \in {"no", "wait"}
      BY <1>1, <1>4, <3>1 DEF ReleaseArrives
    <3> QED
      BY <1>1, <1>4, <3>2, <3>3, <3>4, <3>5
  <2>5. ReleaseKept'
    BY <1>1, <1>4 DEF ReleaseArrives, TokenSet, Moving
  <2> QED
    BY <2>1, <2>2, <2>3, <2>4, <2>5 DEF PressInv
<1>5. ASSUME NEW p \in Presses, PressStarts(p) PROVE PressInv'
  <2>1. RoofTypeOK' /\ DaemonTypeOK'
    BY <1>1, <1>5, SetCounts DEF PressStarts, Goes
  <2>2. OneLink' /\ PollKeepsAway' /\ OnRadio'
    BY <1>1, <1>5, SetCounts DEF PressStarts, Goes
  <2>3. StopReaches'
    BY <1>1, <1>5, SetCounts DEF PressStarts, Goes
  <2>4. RoofOnRadio'
    BY <1>1, <1>5, SetCounts DEF PressStarts, Goes
  <2>5. ReleaseKept'
    BY <1>1, <1>5, SetCounts DEF PressStarts, Goes
  <2> QED
    BY <2>1, <2>2, <2>3, <2>4, <2>5 DEF PressInv
<1>6. ASSUME NEW p \in Presses, PressDials(p) PROVE PressInv'
  <2>1. RoofTypeOK' /\ DaemonTypeOK'
    BY <1>1, <1>6 DEF PressDials
  <2>2. OneLink' /\ PollKeepsAway' /\ OnRadio'
    BY <1>1, <1>6 DEF PressDials
  <2>3. StopReaches'
    BY <1>1, <1>6 DEF PressDials
  <2>4. RoofOnRadio'
    BY <1>1, <1>6 DEF PressDials
  <2>5. ReleaseKept'
    BY <1>1, <1>6 DEF PressDials
  <2> QED
    BY <2>1, <2>2, <2>3, <2>4, <2>5 DEF PressInv
<1>7. ASSUME NEW p \in Presses, PressDialed(p) PROVE PressInv'
  <2>1. RoofTypeOK' /\ DaemonTypeOK'
    BY <1>1, <1>7, SetCounts DEF PressDialed, Goes
  <2>2. OneLink' /\ PollKeepsAway' /\ OnRadio'
    BY <1>1, <1>7, SetCounts DEF PressDialed, Goes
  <2>3. StopReaches'
    BY <1>1, <1>7, SetCounts DEF PressDialed, Goes
  <2>4. RoofOnRadio'
    <3>1. Own(Press(p))' /\ press'[p] \in {"move", "settle"} /\ ride'[p] = "own"
      BY <1>1, <1>7 DEF PressDialed, Goes
    <3>2. Holds(Press(p))
      BY <1>1, <1>7 DEF PressDialed
    <3> QED
      BY <1>1, <1>7, <3>1, <3>2 DEF PressDialed, Goes
  <2>5. ReleaseKept'
    BY <1>1, <1>7, SetCounts DEF PressDialed, Goes
  <2> QED
    BY <2>1, <2>2, <2>3, <2>4, <2>5 DEF PressInv
<1>8. ASSUME NEW p \in Presses, PressFails(p) PROVE PressInv'
  <2>1. RoofTypeOK' /\ DaemonTypeOK'
    BY <1>1, <1>8 DEF PressFails, PressOver, Over
  <2>2. OneLink' /\ PollKeepsAway' /\ OnRadio'
    BY <1>1, <1>8 DEF PressFails, PressOver, Over
  <2>3. StopReaches'
    BY <1>1, <1>8 DEF PressFails, PressOver, Over
  <2>4. RoofOnRadio'
    BY <1>1, <1>8 DEF PressFails, PressOver, Over
  <2>5. ReleaseKept'
    BY <1>1, <1>8 DEF PressFails, PressOver, Over
  <2> QED
    BY <2>1, <2>2, <2>3, <2>4, <2>5 DEF PressInv
<1>9. ASSUME NEW p \in Presses, MoveEnds(p) PROVE PressInv'
  <2>1. RoofTypeOK' /\ DaemonTypeOK'
    BY <1>1, <1>9, SetCounts DEF MoveEnds
  <2>2. OneLink' /\ PollKeepsAway' /\ OnRadio'
    BY <1>1, <1>9, SetCounts DEF MoveEnds
  <2>3. StopReaches'
    BY <1>1, <1>9, SetCounts DEF MoveEnds
  <2>4. RoofOnRadio'
    BY <1>1, <1>9, SetCounts DEF MoveEnds
  <2>5. ReleaseKept'
    BY <1>1, <1>9, SetCounts DEF MoveEnds
  <2> QED
    BY <2>1, <2>2, <2>3, <2>4, <2>5 DEF PressInv
<1>10. ASSUME NEW p \in Presses, MoveSettles(p) PROVE PressInv'
  <2>1. RoofTypeOK' /\ DaemonTypeOK'
    BY <1>1, <1>10 DEF MoveSettles, PressOver, Over, Ticks, Linked
  <2>2. OneLink' /\ PollKeepsAway' /\ OnRadio'
    BY <1>1, <1>10 DEF MoveSettles, PressOver, Over, Ticks, Linked
  <2>3. StopReaches'
    BY <1>1, <1>10 DEF MoveSettles, PressOver, Over, Ticks, Linked
  <2>4. RoofOnRadio'
    <3>1. Holds(Press(p))
      BY <1>1, <1>10 DEF MoveSettles
    <3>2. ~coldUp'
      BY <1>1, <1>10, <3>1 DEF MoveSettles
    <3> QED
      BY <1>1, <1>10, <3>1, <3>2 DEF MoveSettles, PressOver, Over, Ticks, Linked
  <2>5. ReleaseKept'
    BY <1>1, <1>10 DEF MoveSettles, PressOver, Over, Ticks, Linked
  <2> QED
    BY <2>1, <2>2, <2>3, <2>4, <2>5 DEF PressInv
<1>11. ASSUME NEW p \in Presses, StopSends(p) PROVE PressInv'
  <2>1. RoofTypeOK' /\ DaemonTypeOK'
    BY <1>1, <1>11, SetCounts DEF StopSends
  <2>2. OneLink' /\ PollKeepsAway' /\ OnRadio'
    BY <1>1, <1>11, SetCounts DEF StopSends
  <2>3. StopReaches'
    BY <1>1, <1>11, SetCounts DEF StopSends
  <2>4. RoofOnRadio'
    BY <1>1, <1>11, SetCounts DEF StopSends
  <2>5. ReleaseKept'
    BY <1>1, <1>11, SetCounts DEF StopSends
  <2> QED
    BY <2>1, <2>2, <2>3, <2>4, <2>5 DEF PressInv
<1>12. ASSUME NEW p \in Presses, StopDials(p) PROVE PressInv'
  <2>1. RoofTypeOK' /\ DaemonTypeOK'
    BY <1>1, <1>12 DEF StopDials
  <2>2. OneLink' /\ PollKeepsAway' /\ OnRadio'
    BY <1>1, <1>12 DEF StopDials
  <2>3. StopReaches'
    BY <1>1, <1>12 DEF StopDials
  <2>4. RoofOnRadio'
    BY <1>1, <1>12 DEF StopDials
  <2>5. ReleaseKept'
    BY <1>1, <1>12 DEF StopDials
  <2> QED
    BY <2>1, <2>2, <2>3, <2>4, <2>5 DEF PressInv
<1>13. ASSUME NEW p \in Presses, StopDialed(p) PROVE PressInv'
  <2>1. RoofTypeOK' /\ DaemonTypeOK'
    BY <1>1, <1>13, SetCounts DEF StopDialed
  <2>2. OneLink' /\ PollKeepsAway' /\ OnRadio'
    BY <1>1, <1>13, SetCounts DEF StopDialed
  <2>3. StopReaches'
    BY <1>1, <1>13, SetCounts DEF StopDialed
  <2>4. RoofOnRadio'
    BY <1>1, <1>13, SetCounts DEF StopDialed
  <2>5. ReleaseKept'
    BY <1>1, <1>13, SetCounts DEF StopDialed
  <2> QED
    BY <2>1, <2>2, <2>3, <2>4, <2>5 DEF PressInv
<1>14. ASSUME NEW p \in Presses, StopEnds(p) PROVE PressInv'
  <2>1. RoofTypeOK' /\ DaemonTypeOK'
    BY <1>1, <1>14 DEF StopEnds, Over
  <2>2. OneLink' /\ PollKeepsAway' /\ OnRadio'
    BY <1>1, <1>14 DEF StopEnds, Over
  <2>3. StopReaches'
    BY <1>1, <1>14 DEF StopEnds, Over
  <2>4. RoofOnRadio'
    <3>1. Holds(Stop(p))
      BY <1>1, <1>14 DEF StopEnds
    <3>2. ~coldUp'
      BY <1>1, <1>14, <3>1 DEF StopEnds
    <3> QED
      BY <1>1, <1>14, <3>1, <3>2 DEF StopEnds, Over
  <2>5. ReleaseKept'
    BY <1>1, <1>14 DEF StopEnds, Over
  <2> QED
    BY <2>1, <2>2, <2>3, <2>4, <2>5 DEF PressInv
<1>15. ASSUME NEW p \in Presses, OwnTick(p) PROVE PressInv'
  <2>1. RoofTypeOK' /\ DaemonTypeOK'
    BY <1>1, <1>15 DEF OwnTick, Writes, Counted
  <2>2. OneLink' /\ PollKeepsAway' /\ OnRadio'
    BY <1>1, <1>15 DEF OwnTick, Writes, Counted
  <2>3. StopReaches'
    BY <1>1, <1>15 DEF OwnTick, Writes, Counted
  <2>4. RoofOnRadio'
    BY <1>1, <1>15 DEF OwnTick, Writes, Counted
  <2>5. ReleaseKept'
    BY <1>1, <1>15 DEF OwnTick, Writes, Counted
  <2> QED
    BY <2>1, <2>2, <2>3, <2>4, <2>5 DEF PressInv
<1>16. ASSUME GuardEnds PROVE PressInv'
  <2>1. RoofTypeOK' /\ DaemonTypeOK'
    BY <1>1, <1>16 DEF GuardEnds
  <2>2. OneLink' /\ PollKeepsAway' /\ OnRadio'
    BY <1>1, <1>16 DEF GuardEnds
  <2>3. StopReaches'
    BY <1>1, <1>16 DEF GuardEnds
  <2>4. RoofOnRadio'
    BY <1>1, <1>16 DEF GuardEnds
  <2>5. ReleaseKept'
    BY <1>1, <1>16 DEF GuardEnds
  <2> QED
    BY <2>1, <2>2, <2>3, <2>4, <2>5 DEF PressInv
<1>17. ASSUME ViewArrives PROVE PressInv'
  <2>1. RoofTypeOK' /\ DaemonTypeOK'
    BY <1>1, <1>17 DEF ViewArrives, Claim
  <2>2. OneLink' /\ PollKeepsAway' /\ OnRadio'
    BY <1>1, <1>17 DEF ViewArrives, Claim
  <2>3. StopReaches'
    BY <1>1, <1>17 DEF ViewArrives, Claim
  <2>4. RoofOnRadio'
    BY <1>1, <1>17 DEF ViewArrives, Claim
  <2>5. ReleaseKept'
    BY <1>1, <1>17 DEF ViewArrives, Claim
  <2> QED
    BY <2>1, <2>2, <2>3, <2>4, <2>5 DEF PressInv
<1>18. ASSUME LeaveArrives PROVE PressInv'
  <2>1. RoofTypeOK' /\ DaemonTypeOK'
    <3>1. stopped' \subseteq Presses
      BY <1>1, <1>18 DEF LeaveArrives, TokenSet
    <3> QED
      BY <1>1, <1>18, <3>1 DEF LeaveArrives
  <2>2. OneLink' /\ PollKeepsAway' /\ OnRadio'
    BY <1>1, <1>18 DEF LeaveArrives, TokenSet
  <2>3. StopReaches'
    BY <1>1, <1>18 DEF LeaveArrives, TokenSet
  <2>4. RoofOnRadio'
    BY <1>1, <1>18 DEF LeaveArrives, TokenSet
  <2>5. ReleaseKept'
    BY <1>1, <1>18 DEF LeaveArrives, TokenSet
  <2> QED
    BY <2>1, <2>2, <2>3, <2>4, <2>5 DEF PressInv
<1>19. ASSUME ViewLapses PROVE PressInv'
  <2>1. RoofTypeOK' /\ DaemonTypeOK'
    BY <1>1, <1>19 DEF ViewLapses
  <2>2. OneLink' /\ PollKeepsAway' /\ OnRadio'
    BY <1>1, <1>19 DEF ViewLapses
  <2>3. StopReaches'
    BY <1>1, <1>19 DEF ViewLapses
  <2>4. RoofOnRadio'
    BY <1>1, <1>19 DEF ViewLapses
  <2>5. ReleaseKept'
    BY <1>1, <1>19 DEF ViewLapses
  <2> QED
    BY <2>1, <2>2, <2>3, <2>4, <2>5 DEF PressInv
<1>20. ASSUME ViewStarts PROVE PressInv'
  <2>1. RoofTypeOK' /\ DaemonTypeOK'
    BY <1>1, <1>20 DEF ViewStarts, Writes, Counted, ViewTicked
  <2>2. OneLink' /\ PollKeepsAway' /\ OnRadio'
    BY <1>1, <1>20 DEF ViewStarts, Writes, Counted, ViewTicked
  <2>3. StopReaches'
    BY <1>1, <1>20 DEF ViewStarts, Writes, Counted, ViewTicked
  <2>4. RoofOnRadio'
    BY <1>1, <1>20 DEF ViewStarts, Writes, Counted, ViewTicked
  <2>5. ReleaseKept'
    BY <1>1, <1>20 DEF ViewStarts, Writes, Counted, ViewTicked
  <2> QED
    BY <2>1, <2>2, <2>3, <2>4, <2>5 DEF PressInv
<1>21. ASSUME ViewEnds PROVE PressInv'
  <2>1. RoofTypeOK' /\ DaemonTypeOK'
    BY <1>1, <1>21 DEF ViewEnds
  <2>2. OneLink' /\ PollKeepsAway' /\ OnRadio'
    BY <1>1, <1>21 DEF ViewEnds
  <2>3. StopReaches'
    BY <1>1, <1>21 DEF ViewEnds
  <2>4. RoofOnRadio'
    BY <1>1, <1>21 DEF ViewEnds
  <2>5. ReleaseKept'
    BY <1>1, <1>21 DEF ViewEnds
  <2> QED
    BY <2>1, <2>2, <2>3, <2>4, <2>5 DEF PressInv
<1>22. ASSUME ViewTick PROVE PressInv'
  <2>1. RoofTypeOK' /\ DaemonTypeOK'
    BY <1>1, <1>22 DEF ViewTick, Writes, Counted, ViewTicked
  <2>2. OneLink' /\ PollKeepsAway' /\ OnRadio'
    BY <1>1, <1>22 DEF ViewTick, Writes, Counted, ViewTicked
  <2>3. StopReaches'
    BY <1>1, <1>22 DEF ViewTick, Writes, Counted, ViewTicked
  <2>4. RoofOnRadio'
    BY <1>1, <1>22 DEF ViewTick, Writes, Counted, ViewTicked
  <2>5. ReleaseKept'
    BY <1>1, <1>22 DEF ViewTick, Writes, Counted, ViewTicked
  <2> QED
    BY <2>1, <2>2, <2>3, <2>4, <2>5 DEF PressInv
<1>23. ASSUME ColdLost PROVE PressInv'
  <2>1. RoofTypeOK' /\ DaemonTypeOK'
    BY <1>1, <1>23 DEF ColdLost
  <2>2. OneLink' /\ PollKeepsAway' /\ OnRadio'
    BY <1>1, <1>23 DEF ColdLost
  <2>3. StopReaches'
    BY <1>1, <1>23 DEF ColdLost
  <2>4. RoofOnRadio'
    BY <1>1, <1>23 DEF ColdLost
  <2>5. ReleaseKept'
    BY <1>1, <1>23 DEF ColdLost
  <2> QED
    BY <2>1, <2>2, <2>3, <2>4, <2>5 DEF PressInv
<1>24. ASSUME DaemonSteps PROVE PressInv'
  <2>1. DaemonInv' /\ RoofLeft
    BY <1>1, <1>24, DaemonKeeps DEF DaemonSteps
  <2>2. UNCHANGED <<presses, coldUp, ticked, faults, spent>>
    BY <1>24 DEF DaemonSteps
  <2>3. RoofTypeOK'
    BY <1>1, <1>24, <2>2 DEF DaemonSteps
  <2>4. RoofOnRadio'
    BY <1>1, <2>1, <2>2 DEF RoofLeft
  <2> QED
    BY <1>1, <2>1, <2>2, <2>3, <2>4 DEF PressInv
<1> QED
  BY <1>2, <1>3, <1>4, <1>5, <1>6, <1>7, <1>8, <1>9, <1>10, <1>11, <1>12, <1>13, <1>14, <1>15,
     <1>16, <1>17, <1>18, <1>19, <1>20, <1>21, <1>22, <1>23, <1>24
     DEF RoofNext, PressSteps, StopSteps
-----------------------------------------------------------------------------
(* The streams, and what the unit heard.                                    *)

\* The lock is held by one task of the roof at a time.
LEMMA OneAtIt ==
    ASSUME RoofOnRadio
    PROVE  /\ \A p, q \in Presses : press[p] \in {"dial", "move", "settle"}
                    /\ press[q] \in {"dial", "move", "settle"} => p = q
           /\ \A p, q \in Presses : press[p] \in {"dial", "move", "settle"}
                    => stopper[q] \notin {"dial", "settle"}
           /\ \A p, q \in Presses : press[p] \in {"dial", "move", "settle"} => ~Holds(Stop(q))
           /\ \A p, q \in Presses : press[p] \in {"dial", "move", "settle"} /\ Holds(Press(q)) => p = q
           /\ \A p, q \in Presses : stopper[p] \in {"dial", "settle"} => ~Holds(Press(q))
BY RoofTasksDiffer DEF RoofOnRadio, Holds

\* While fewer writes fail than a STOP has tries, a moving roof has a press at it.
LEMMA StreamStepKeeps ==
    ASSUME PressInv, StreamKept, DriveKept, RoofNext, MaxFaults <= SettleTicks
    PROVE  StreamKept' /\ DriveKept'
<1> USE RoofAssumption, OneAtIt
    DEF StreamKept, DriveKept, AtIt, Live, Own, Pending, rest, lock, radio, supVars, pairVars, daemonVars,
        presses, streams
<1>1. RoofTypeOK /\ DaemonInv /\ StopReaches /\ RoofOnRadio /\ ReleaseKept
  BY DEF PressInv
<1>2. ASSUME NEW p \in Presses, PressArrives(p) PROVE StreamKept' /\ DriveKept'
  <2>1. StreamKept'
    BY <1>1, <1>2 DEF PressArrives, TokenSet, Claim, RoofTypeOK
  <2>2. DriveKept'
    BY <1>1, <1>2 DEF PressArrives, TokenSet, Claim, RoofTypeOK, RoofOnRadio
  <2> QED
    BY <2>1, <2>2
<1>3. ASSUME NEW p \in Presses, PressRefused(p) PROVE StreamKept' /\ DriveKept'
  <2>1. StreamKept'
    BY <1>1, <1>3 DEF PressRefused, RoofTypeOK
  <2>2. DriveKept'
    BY <1>1, <1>3 DEF PressRefused, RoofTypeOK, RoofOnRadio
  <2> QED
    BY <2>1, <2>2
<1>4. ASSUME NEW p \in Presses, ReleaseArrives(p) PROVE StreamKept' /\ DriveKept'
  <2>1. StreamKept'
    BY <1>1, <1>4 DEF ReleaseArrives, TokenSet, Moving, RoofTypeOK
  <2>2. DriveKept'
    BY <1>1, <1>4 DEF ReleaseArrives, TokenSet, Moving, RoofTypeOK, RoofOnRadio
  <2> QED
    BY <2>1, <2>2
<1>5. ASSUME NEW p \in Presses, PressStarts(p) PROVE StreamKept' /\ DriveKept'
  <2>1. StreamKept'
    BY <1>1, <1>5 DEF PressStarts, Goes, Sets, Writes, Linked, RoofTypeOK
  <2>2. DriveKept'
    BY <1>1, <1>5 DEF PressStarts, Goes, Sets, Writes, Linked, RoofTypeOK, RoofOnRadio
  <2> QED
    BY <2>1, <2>2
<1>6. ASSUME NEW p \in Presses, PressDials(p) PROVE StreamKept' /\ DriveKept'
  <2>1. StreamKept'
    BY <1>1, <1>6 DEF PressDials, RoofTypeOK
  <2>2. DriveKept'
    BY <1>1, <1>6 DEF PressDials, RoofTypeOK, RoofOnRadio
  <2> QED
    BY <2>1, <2>2
<1>7. ASSUME NEW p \in Presses, PressDialed(p) PROVE StreamKept' /\ DriveKept'
  <2>1. StreamKept'
    BY <1>1, <1>7 DEF PressDialed, Goes, Sets, Writes, Linked, RoofTypeOK
  <2>2. DriveKept'
    BY <1>1, <1>7 DEF PressDialed, Goes, Sets, Writes, Linked, RoofTypeOK, RoofOnRadio
  <2> QED
    BY <2>1, <2>2
<1>8. ASSUME NEW p \in Presses, PressFails(p) PROVE StreamKept' /\ DriveKept'
  <2>1. StreamKept'
    BY <1>1, <1>8 DEF PressFails, PressOver, Over, RoofTypeOK
  <2>2. DriveKept'
    BY <1>1, <1>8 DEF PressFails, PressOver, Over, RoofTypeOK, RoofOnRadio
  <2> QED
    BY <2>1, <2>2
<1>9. ASSUME NEW p \in Presses, MoveEnds(p) PROVE StreamKept' /\ DriveKept'
  <2>1. StreamKept'
    BY <1>1, <1>9 DEF MoveEnds, Sets, Writes, Linked, RoofTypeOK
  <2>2. SUFFICES ASSUME drive' = "move", ~unheard' PROVE (Live' \/ coldUp') /\ AtIt(p)'
    BY <2>1 DEF DriveKept
  <2>3. press[p] = "move" /\ ticked[p] = 0 /\ press'[p] = "settle"
    BY <1>1, <1>9 DEF MoveEnds, RoofTypeOK
  <2>4. UNCHANGED <<ride, cold, sess, coldUp, ticked>>
    BY <1>9 DEF MoveEnds
  <2>5. Sets("stop", Linked(Press(p)), ride[p])
    BY <1>9 DEF MoveEnds
  <2>6. drive = "move" /\ ~unheard
    BY <2>2, <2>5 DEF Sets, Writes
  <2>7. (Live \/ coldUp) /\ AtIt(p)
    BY <1>1, <2>3, <2>6
  <2>8. Linked(Press(p))
    BY <1>1, <2>3, <2>7, RoofTasksDiffer DEF Linked, RoofOnRadio, DaemonInv, OneLink, Holds
  <2>9. faults' > 0 /\ (ride[p] = "view" => view' # "off")
    <3>1. CASE ride[p] = "view" /\ view = "stop"
      BY <2>3, <2>5, <2>7, <3>1 DEF Sets
    <3>2. CASE ~(ride[p] = "view" /\ view = "stop")
      <4>1. Writes("stop", Linked(Press(p)), ride[p] = "own" \/ view # "off")
            /\ view' = IF ride[p] = "view" /\ view # "off" THEN "stop" ELSE view
        BY <2>5, <3>2 DEF Sets
      <4>2. faults < MaxFaults /\ faults' = faults + 1 /\ (ride[p] = "own" \/ view # "off")
        BY <2>2, <2>8, <4>1, Zenon DEF Writes
      <4>3. faults' > 0
        BY <1>1, <4>2 DEF RoofTypeOK
      <4> QED
        BY <4>1, <4>2, <4>3
    <3> QED
      BY <3>1, <3>2
  <2>10. AtIt(p)'
    BY <2>3, <2>4, <2>9
  <2> QED
    BY <2>1, <2>2, <2>4, <2>7, <2>10
<1>10. ASSUME NEW p \in Presses, MoveSettles(p) PROVE StreamKept' /\ DriveKept'
  <2>1. StreamKept'
    BY <1>1, <1>10 DEF MoveSettles, PressOver, Over, Ticks, Linked, RoofTypeOK
  <2>2. SUFFICES ASSUME drive' = "move", ~unheard' PROVE FALSE
    BY <2>1 DEF DriveKept
  <2>3. press[p] = "settle" /\ (Ticks(p) => ticked[p] = SettleTicks)
    BY <1>10 DEF MoveSettles
  <2>4. drive = "move" /\ ~unheard
    BY <1>10, <2>2 DEF MoveSettles
  <2>5. (Live \/ coldUp) /\ AtIt(p)
    BY <1>1, <2>3, <2>4
  <2>6. Linked(Press(p))
    BY <1>1, <2>3, <2>5, RoofTasksDiffer DEF Linked, RoofOnRadio, DaemonInv, OneLink, Holds
  <2>7. Ticks(p)
    BY <1>1, <2>3, <2>5, <2>6 DEF Ticks, RoofTypeOK
  <2> QED
    BY <2>1, <1>1, <2>3, <2>5, <2>7 DEF RoofTypeOK
<1>11. ASSUME NEW p \in Presses, StopSends(p) PROVE StreamKept' /\ DriveKept'
  <2>1. StreamKept'
    BY <1>1, <1>11 DEF StopSends, Sets, Writes, Linked, RoofTypeOK
  <2>2. DriveKept'
    BY <1>1, <1>11 DEF StopSends, Sets, Writes, Linked, RoofTypeOK, RoofOnRadio
  <2> QED
    BY <2>1, <2>2
<1>12. ASSUME NEW p \in Presses, StopDials(p) PROVE StreamKept' /\ DriveKept'
  <2>1. StreamKept'
    BY <1>1, <1>12 DEF StopDials, RoofTypeOK
  <2>2. DriveKept'
    BY <1>1, <1>12 DEF StopDials, RoofTypeOK, RoofOnRadio
  <2> QED
    BY <2>1, <2>2
<1>13. ASSUME NEW p \in Presses, StopDialed(p) PROVE StreamKept' /\ DriveKept'
  <2>1. StreamKept'
    BY <1>1, <1>13 DEF StopDialed, Sets, Writes, Linked, RoofTypeOK
  <2>2. DriveKept'
    BY <1>1, <1>13 DEF StopDialed, Sets, Writes, Linked, RoofTypeOK, RoofOnRadio
  <2> QED
    BY <2>1, <2>2
<1>14. ASSUME NEW p \in Presses, StopEnds(p) PROVE StreamKept' /\ DriveKept'
  <2>1. StreamKept'
    BY <1>1, <1>14 DEF StopEnds, Over, RoofTypeOK
  <2>2. DriveKept'
    BY <1>1, <1>14 DEF StopEnds, Over, RoofTypeOK, RoofOnRadio
  <2> QED
    BY <2>1, <2>2
<1>15. ASSUME NEW p \in Presses, OwnTick(p) PROVE StreamKept' /\ DriveKept'
  <2>1. StreamKept'
    BY <1>1, <1>15 DEF OwnTick, Writes, Linked, Counted, RoofTypeOK
  <2>2. DriveKept'
    BY <1>1, <1>15 DEF OwnTick, Writes, Linked, Counted, RoofTypeOK, RoofOnRadio
  <2> QED
    BY <2>1, <2>2
<1>16. ASSUME GuardEnds PROVE StreamKept' /\ DriveKept'
  <2>1. StreamKept'
    BY <1>1, <1>16 DEF GuardEnds, RoofTypeOK
  <2>2. DriveKept'
    BY <1>1, <1>16 DEF GuardEnds, RoofTypeOK, RoofOnRadio
  <2> QED
    BY <2>1, <2>2
<1>17. ASSUME ViewArrives PROVE StreamKept' /\ DriveKept'
  <2>1. StreamKept'
    BY <1>1, <1>17 DEF ViewArrives, Claim, RoofTypeOK
  <2>2. DriveKept'
    BY <1>1, <1>17 DEF ViewArrives, Claim, RoofTypeOK, RoofOnRadio
  <2> QED
    BY <2>1, <2>2
<1>18. ASSUME LeaveArrives PROVE StreamKept' /\ DriveKept'
  <2>1. StreamKept'
    BY <1>1, <1>18 DEF LeaveArrives, TokenSet, RoofTypeOK
  <2>2. DriveKept'
    BY <1>1, <1>18 DEF LeaveArrives, TokenSet, RoofTypeOK, RoofOnRadio
  <2> QED
    BY <2>1, <2>2
<1>19. ASSUME ViewLapses PROVE StreamKept' /\ DriveKept'
  <2>1. StreamKept'
    BY <1>1, <1>19 DEF ViewLapses, RoofTypeOK
  <2>2. DriveKept'
    BY <1>1, <1>19 DEF ViewLapses, RoofTypeOK, RoofOnRadio
  <2> QED
    BY <2>1, <2>2
<1>20. ASSUME ViewStarts PROVE StreamKept' /\ DriveKept'
  <2>1. StreamKept'
    BY <1>1, <1>20 DEF ViewStarts, Writes, Linked, Counted, ViewTicked, RoofTypeOK
  <2>2. DriveKept'
    BY <1>1, <1>20 DEF ViewStarts, Writes, Linked, Counted, ViewTicked, RoofTypeOK, RoofOnRadio
  <2> QED
    BY <2>1, <2>2
<1>21. ASSUME ViewEnds PROVE StreamKept' /\ DriveKept'
  <2>1. StreamKept'
    BY <1>1, <1>21 DEF ViewEnds, RoofTypeOK
  <2>2. DriveKept'
    BY <1>1, <1>21 DEF ViewEnds, RoofTypeOK, RoofOnRadio
  <2> QED
    BY <2>1, <2>2
<1>22. ASSUME ViewTick PROVE StreamKept' /\ DriveKept'
  <2>1. StreamKept'
    BY <1>1, <1>22 DEF ViewTick, Writes, Linked, Counted, ViewTicked, RoofTypeOK
  <2>2. DriveKept'
    BY <1>1, <1>22 DEF ViewTick, Writes, Linked, Counted, ViewTicked, RoofTypeOK, RoofOnRadio
  <2> QED
    BY <2>1, <2>2
<1>23. ASSUME ColdLost PROVE StreamKept' /\ DriveKept'
  <2>1. StreamKept'
    BY <1>1, <1>23 DEF ColdLost, RoofTypeOK
  <2>2. DriveKept'
    BY <1>1, <1>23 DEF ColdLost, RoofTypeOK, RoofOnRadio
  <2> QED
    BY <2>1, <2>2
<1>24. ASSUME DaemonSteps PROVE StreamKept' /\ DriveKept'
  BY <1>1, <1>24 DEF DaemonSteps
<1> QED
  BY <1>2, <1>3, <1>4, <1>5, <1>6, <1>7, <1>8, <1>9, <1>10, <1>11, <1>12, <1>13, <1>14, <1>15,
     <1>16, <1>17, <1>18, <1>19, <1>20, <1>21, <1>22, <1>23, <1>24
     DEF RoofNext, PressSteps, StopSteps
-----------------------------------------------------------------------------
(* The specifications.                                                      *)

\* The daemon starts with nobody at the radio.
LEMMA DaemonStarts ==
    ASSUME DaemonInit
    PROVE  DaemonInv
BY TasksDiffer DEF DaemonInit, DaemonInv, DaemonTypeOK, OneLink, PollKeepsAway, OnRadio

\* The daemon has one connection to the unit at a time, and no poll reads beside a
\* pairing flow, whatever the browser, the unit and the flows do (serve.py poll,
\* session.py supervise).
THEOREM DaemonSafe == DaemonSpec => []DaemonInv
<1>1. DaemonInv /\ UNCHANGED daemonVars => DaemonInv'
  BY DEF DaemonInv, DaemonTypeOK, OneLink, PollKeepsAway, OnRadio, Holds, Live, Connecting,
         daemonVars, radio, lock, supVars, pairVars
<1>2. DaemonInv /\ [DaemonNext]_daemonVars => DaemonInv'
  BY <1>1, DaemonKeeps
<1> QED
  BY <1>2, DaemonStarts, PTL DEF DaemonSpec

\* The roof starts at rest.
LEMMA RoofStarts ==
    ASSUME RoofInit
    PROVE  PressInv /\ StreamKept /\ DriveKept
<1>1. DaemonInv
  BY DaemonStarts DEF RoofInit
<1>2. RoofTypeOK
  <2>1. {guard, viewing, viewLoop, coldUp, unheard} \subseteq BOOLEAN
    BY Zenon DEF RoofInit
  <2> QED
    BY <2>1, RoofAssumption DEF RoofInit, RoofTypeOK, NoPress
<1>3. StopReaches /\ ReleaseKept
  BY DEF RoofInit, StopReaches, ReleaseKept
<1>4. StreamKept /\ DriveKept
  BY DEF RoofInit, StreamKept, DriveKept
<1>5. RoofOnRadio
  BY RoofTasksDiffer DEF RoofInit, DaemonInit, RoofOnRadio, Own, Roofs
<1> QED
  BY <1>1, <1>2, <1>3, <1>4, <1>5 DEF PressInv

\* A step that changes nothing keeps it all.
LEMMA RoofStutters ==
    ASSUME UNCHANGED vars
    PROVE  (PressInv => PressInv') /\ (StreamKept => StreamKept') /\ (DriveKept => DriveKept')
BY DEF PressInv, RoofTypeOK, StopReaches, RoofOnRadio, ReleaseKept, StreamKept, DriveKept, AtIt,
       DaemonInv, DaemonTypeOK, OneLink, PollKeepsAway, OnRadio, Holds, Live, Connecting, Own, Pending,
       vars, roofVars, presses, streams, daemonVars, radio, lock, supVars, pairVars

\* What holds of the presses holds of every behaviour.
LEMMA PressesSafe == RoofSpec => []PressInv
<1>1. PressInv /\ [RoofNext]_vars => PressInv'
  BY RoofStepKeeps, RoofStutters
<1>2. RoofInit => PressInv
  BY RoofStarts
<1> QED
  BY <1>1, <1>2, PTL DEF RoofSpec

\* A release, another press or leaving the page reaches every press that moves or
\* still may, however many writes fail (serve.py _roof_move_command).
THEOREM RoofStopReaches == RoofSpec => []StopReaches
<1>1. PressInv => StopReaches
  BY DEF PressInv
<1> QED
  BY <1>1, PressesSafe, PTL

\* No press moves the roof after its release, whichever of the two requests came
\* first, but for an early release that was taken for another's (serve.py
\* _roof_stop_command).
THEOREM RoofHeldOrStopped == RoofSpec => []HeldOrStopped
<1>1. PressInv => HeldOrStopped
  BY DEF PressInv, ReleaseKept, HeldOrStopped
<1> QED
  BY <1>1, PressesSafe, PTL

\* When no press is at it the last the unit heard is STOP, and all else that holds of
\* radio and roof, if fewer writes fail than a STOP has tries: its own, and the
\* ticks of SETTLE_S (device.py _actuate_roof_on, RoofStream).
THEOREM RoofSafe == ASSUME MaxFaults <= SettleTicks
                    PROVE  RoofSpec => []RoofInv
<1> DEFINE Inv == PressInv /\ StreamKept /\ DriveKept
<1>1. RoofInit => Inv
  BY RoofStarts
<1>2. Inv /\ [RoofNext]_vars => Inv'
  BY RoofStepKeeps, StreamStepKeeps, RoofStutters
<1>3. Inv => RoofInv
  <2>1. PressInv => RoofTypeOK /\ DaemonInv /\ StopReaches /\ RoofOnRadio /\ ReleaseKept /\ HeldOrStopped
    BY DEF PressInv, ReleaseKept, HeldOrStopped
  <2>2. DriveKept => LastWordIsStop
    BY DEF DriveKept, LastWordIsStop, AtIt
  <2> QED
    BY <2>1, <2>2 DEF RoofInv
<1> HIDE DEF Inv
<1> QED
  BY <1>1, <1>2, <1>3, PTL DEF RoofSpec

=============================================================================
