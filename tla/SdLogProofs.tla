---------------------------- MODULE SdLogProofs ----------------------------
(***************************************************************************)
(* Proofs about SdLog, for every number of records, size of segments,      *)
(* pages and queue, and any number of power cuts, faults and readers: no   *)
(* record is renamed, lost or skipped between the card and the follower's  *)
(* cursor, and a page is its own reader's.                                 *)
(*                                                                         *)
(* The argument is one log, the sequence of all records that ever became   *)
(* durable: the card, the page buffer and the follower each hold a part of *)
(* it, and only a flush makes it longer, at its end.                       *)
(***************************************************************************)
EXTENDS SdLog, Integers, FiniteSetTheorems, WellFoundedInduction, TLAPS

Records == [id : Nat, boot : Nat, ts : BOOLEAN]

\* A log of which no record is of a later boot than its successors or than b.
Good(L, b) ==
    /\ L \in Seq(Records)
    /\ \A i \in 1 .. Len(L) : L[i].boot <= b /\ \A j \in i .. Len(L) : L[i].boot <= L[j].boot

\* What is held of a log.
Part(f, L) == \A n \in DOMAIN f : n \in 1 .. Len(L) /\ f[n] = L[n]

\* M is L with records of the boot b behind it.
Grown(L, M, b) ==
    /\ Len(L) <= Len(M)
    /\ \A i \in 1 .. Len(L) : M[i] = L[i]
    /\ \A i \in (Len(L) + 1) .. Len(M) : M[i].boot = b

\* The segments named fs hold the numbers lo to top in rs, without a gap.
Holds(fs, rs, lo, top) ==
    /\ lo \in fs /\ lo <= top + 1 /\ fs \subseteq lo .. (top + 1) /\ DOMAIN rs = lo .. top

\* The numbers G are before every segment; the first of the segments only moves up.
Gone(G, fs) == \A n \in G : fs # {} /\ \A f \in fs : n < f
Up(fs, gs) == fs # {} => gs # {} /\ \A g \in gs : \E f \in fs : f <= g

\* A page of a log: all from its start to its next, sent or lost; when there is no
\* more, what comes later is of its boot or a later one.
PageIs(p, L, fs, b) ==
    /\ p.since \in Nat /\ p.next \in Nat /\ p.boot \in Nat /\ p.more \in BOOLEAN
    /\ DOMAIN p.recs = p.seqs /\ p.lost \subseteq Nat
    /\ p.since <= p.next /\ p.next <= Len(L)
    /\ p.seqs \subseteq (p.since + 1) .. p.next
    /\ (p.since + 1) .. p.next \subseteq p.seqs \cup p.lost
    /\ Gone(p.lost, fs)
    /\ p.boot <= b
    /\ \A n \in 1 .. Len(L) :
           /\ n <= p.next => L[n].boot <= p.boot
           /\ n > p.next /\ n \notin p.lost /\ ~p.more => p.boot <= L[n].boot

-----------------------------------------------------------------------------
(* Least and greatest elements.                                             *)

\* Every set of naturals that is not empty has a least element.
LEMMA LeastIs ==
    ASSUME NEW T, T \subseteq Nat, T # {}
    PROVE  Min(T) \in T /\ \A n \in T : Min(T) <= n
<1> DEFINE R == {ss \in Nat \X Nat : ss[1] < ss[2]}
<1>1. IsWellFoundedOn(R, Nat)
  BY NatLessThanWellFounded DEF OpToRel
<1>2. PICK m \in T : \A n \in T : <<n, m>> \notin R
  <2> HIDE DEF R
  <2> QED
    BY <1>1, WFMin
<1>3. \A n \in T : ~(n < m)
  BY <1>2
<1>4. \A n \in T : m <= n
  BY <1>3
<1> QED
  BY <1>4 DEF Min

\* A set of naturals below some bound has a greatest element.
LEMMA GreatestIs ==
    ASSUME NEW T, NEW b \in Nat, T \subseteq Nat, T # {}, \A n \in T : n <= b
    PROVE  Max(T) \in T /\ \A n \in T : n <= Max(T)
<1> DEFINE U == {u \in Nat : \A n \in T : n <= u}
<1>1. U \subseteq Nat /\ U # {}
  <2>1. b \in U
    OBVIOUS
  <2> QED
    BY <2>1
<1>2. Min(U) \in U /\ \A u \in U : Min(U) <= u
  <2> HIDE DEF U
  <2> QED
    BY <1>1, LeastIs
<1>3. PICK m \in Nat : (\A n \in T : n <= m) /\ \A u \in Nat : (\A n \in T : n <= u) => m <= u
  BY <1>2
<1>4. m \in T
  <2> SUFFICES ASSUME m \notin T PROVE FALSE
    OBVIOUS
  <2>1. \A n \in T : n \in Nat /\ n < m
    BY <1>3
  <2>2. PICK z \in T : TRUE
    OBVIOUS
  <2>3. m - 1 \in Nat /\ \A n \in T : n <= m - 1
    BY <2>1, <2>2
  <2> QED
    BY <1>3, <2>3
<1>5. m \in T /\ \A n \in T : m >= n
  BY <1>3, <1>4
<1>6. Max(T) \in T /\ \A n \in T : Max(T) >= n
  BY <1>5 DEF Max
<1> QED
  BY <1>6

\* The names of the segments and the numbers on them: where they begin and end.
LEMMA EndsAre ==
    ASSUME NEW fs, NEW rs, NEW lo \in Nat \ {0}, NEW top \in Nat, Holds(fs, rs, lo, top)
    PROVE  /\ Min(fs) = lo /\ Max(fs) \in fs /\ \A f \in fs : f <= Max(fs)
           /\ Max({Max(fs)} \cup {n + 1 : n \in DOMAIN rs}) = top + 1
<1>1. /\ fs \subseteq Nat /\ fs # {} /\ lo \in fs
      /\ \A f \in fs : lo <= f /\ f <= top + 1
      /\ DOMAIN rs = lo .. top /\ lo <= top + 1 /\ top + 1 \in Nat
  BY DEF Holds
<1>2. Min(fs) = lo
  <2>1. Min(fs) \in fs /\ \A n \in fs : Min(fs) <= n
    BY <1>1, LeastIs
  <2>2. Min(fs) \in Nat /\ lo <= Min(fs) /\ Min(fs) <= lo
    BY <1>1, <2>1
  <2> QED
    BY <2>2
<1>3. Max(fs) \in fs /\ \A n \in fs : n <= Max(fs)
  BY <1>1, GreatestIs
<1>4. Max(fs) \in Nat /\ lo <= Max(fs) /\ Max(fs) <= top + 1
  BY <1>1, <1>3
<1> DEFINE T == {Max(fs)} \cup {n + 1 : n \in DOMAIN rs}
<1>5. T \subseteq Nat /\ T # {} /\ \A n \in T : n <= top + 1
  BY <1>1, <1>4
<1>6. top + 1 \in T
  <2>1. CASE top + 1 = lo
    BY <1>4, <2>1
  <2>2. CASE top + 1 # lo
    <3>1. top \in DOMAIN rs
      BY <1>1, <2>2
    <3> QED
      BY <3>1
  <2> QED
    BY <2>1, <2>2
<1>7. Max(T) = top + 1
  <2> HIDE DEF T
  <2>1. Max(T) \in T /\ \A n \in T : n <= Max(T)
    BY <1>1, <1>5, GreatestIs
  <2>2. Max(T) \in Nat /\ Max(T) <= top + 1 /\ top + 1 <= Max(T)
    BY <1>5, <1>6, <2>1
  <2> QED
    BY <2>2
<1> QED
  BY <1>2, <1>3, <1>7

-----------------------------------------------------------------------------
(* A log that grows.                                                        *)

\* Records of the running boot leave the log good.
LEMMA GoodGrows ==
    ASSUME NEW L, NEW M \in Seq(Records), NEW b \in Nat, Good(L, b), Grown(L, M, b)
    PROVE  Good(M, b)
<1>1. L \in Seq(Records) /\ Len(L) \in Nat /\ Len(M) \in Nat
  BY DEF Good
<1>2. \A i \in 1 .. Len(M) : M[i].boot \in Nat
  <2>1. \A i \in 1 .. Len(M) : M[i] \in Records
    OBVIOUS
  <2> QED
    BY <2>1 DEF Records
<1>3. ASSUME NEW i \in 1 .. Len(M)
      PROVE  (i \in 1 .. Len(L) /\ M[i] = L[i]) \/ (i > Len(L) /\ M[i].boot = b)
  BY <1>1 DEF Grown
<1>4. ASSUME NEW i \in 1 .. Len(M) PROVE M[i].boot <= b
  BY <1>2, <1>3 DEF Good
<1>5. ASSUME NEW i \in 1 .. Len(M), NEW j \in i .. Len(M) PROVE M[i].boot <= M[j].boot
  <2>1. j \in 1 .. Len(M)
    BY <1>1
  <2>2. CASE j > Len(L)
    BY <1>1, <1>3, <1>4, <2>1, <2>2
  <2>3. CASE ~(j > Len(L))
    <3>1. i \in 1 .. Len(L) /\ j \in i .. Len(L) /\ M[i] = L[i] /\ M[j] = L[j]
      BY <1>1, <1>3, <2>1, <2>3
    <3> QED
      BY <3>1 DEF Good
  <2> QED
    BY <2>2, <2>3
<1> QED
  BY <1>4, <1>5 DEF Good

\* A part of a log is a part of the longer one.
LEMMA PartGrows ==
    ASSUME NEW f, NEW L, NEW M, NEW b, Len(L) \in Nat, Len(M) \in Nat, Part(f, L), Grown(L, M, b)
    PROVE  Part(f, M)
BY DEF Part, Grown

\* A page stays one when the log grows and its first segments go.
LEMMA PageStays ==
    ASSUME NEW p, NEW L \in Seq(Records), NEW M \in Seq(Records), NEW b \in Nat, NEW c \in Nat,
           NEW fs, NEW gs, fs \subseteq Nat, gs \subseteq Nat,
           PageIs(p, L, fs, b), Grown(L, M, b), b <= c, Up(fs, gs)
    PROVE  PageIs(p, M, gs, c)
<1>1. Gone(p.lost, gs)
  <2> SUFFICES ASSUME NEW n \in p.lost PROVE gs # {} /\ \A g \in gs : n < g
    BY DEF Gone
  <2>1. fs # {} /\ \A f \in fs : n < f
    BY DEF PageIs, Gone
  <2>2. n \in Nat
    BY DEF PageIs
  <2> QED
    BY <2>1, <2>2 DEF Up
<1>2. ASSUME NEW n \in 1 .. Len(M)
      PROVE  /\ n <= p.next => M[n].boot <= p.boot
             /\ n > p.next /\ n \notin p.lost /\ ~p.more => p.boot <= M[n].boot
  <2>1. CASE n \in 1 .. Len(L)
    BY <2>1 DEF Grown, PageIs
  <2>2. CASE n \notin 1 .. Len(L)
    <3>1. M[n].boot = b /\ n > Len(L)
      BY <2>2 DEF Grown
    <3> QED
      BY <3>1 DEF PageIs
  <2> QED
    BY <2>1, <2>2
<1>3. p.next <= Len(M) /\ p.boot <= c
  BY DEF PageIs, Grown
<1> QED
  BY <1>1, <1>2, <1>3 DEF PageIs

\* Pruning keeps a part of the log, from a segment on.
LEMMA PruneDoes ==
    ASSUME NEW fs, NEW rs, NEW lo \in Nat \ {0}, NEW top \in Nat, Holds(fs, rs, lo, top),
           NEW L, Part(rs, L), Prune(fs, rs)
    PROVE  /\ \E keep \in Nat \ {0} : Holds(firsts', recs', keep, top)
           /\ Up(fs, firsts') /\ Part(recs', L) /\ DOMAIN recs' \subseteq DOMAIN rs
<1> DEFINE gs == firsts'
           ss == recs'
<1>p. PICK keep \in fs :
          /\ gs = {f \in fs : f >= keep}
          /\ ss = [n \in {m \in DOMAIN rs : m >= keep} |-> rs[n]]
  BY DEF Prune
<1> HIDE DEF gs, ss
<1>1. keep \in Nat \ {0} /\ lo <= keep /\ keep <= top + 1
  BY DEF Holds
<1>2. DOMAIN ss = keep .. top
  BY <1>p, <1>1 DEF Holds
<1>3. Holds(gs, ss, keep, top)
  <2>1. \A f \in fs : f \in lo .. (top + 1)
    BY DEF Holds
  <2>2. keep \in gs /\ \A g \in gs : g \in keep .. (top + 1)
    BY <1>p, <1>1, <2>1
  <2> QED
    BY <1>1, <1>2, <2>2 DEF Holds
<1>4. Up(fs, gs)
  <2>1. \A g \in gs : g \in fs /\ g <= g
    BY <1>p DEF Holds
  <2> QED
    BY <1>3, <2>1 DEF Up, Holds
<1>5. Part(ss, L)
  BY <1>p DEF Part
<1>6. DOMAIN ss \subseteq DOMAIN rs
  BY <1>p
<1> QED
  BY <1>1, <1>3, <1>4, <1>5, <1>6 DEF gs, ss

\* The first segment moves up step by step.
LEMMA UpUp ==
    ASSUME NEW fs, NEW gs, NEW hs, fs \subseteq Nat, gs \subseteq Nat, hs \subseteq Nat, Up(fs, gs), Up(gs, hs)
    PROVE  Up(fs, hs)
<1> SUFFICES ASSUME fs # {} PROVE hs # {} /\ \A h \in hs : \E f \in fs : f <= h
  BY DEF Up
<1>1. gs # {} /\ (\A g \in gs : \E f \in fs : f <= g) /\ hs # {} /\ \A h \in hs : \E g \in gs : g <= h
  BY DEF Up
<1>2. ASSUME NEW h \in hs PROVE \E f \in fs : f <= h
  <2>1. PICK g \in gs : g <= h
    BY <1>1
  <2>2. PICK f \in fs : f <= g
    BY <1>1
  <2> QED
    BY <2>1, <2>2
<1> QED
  BY <1>1, <1>2

-----------------------------------------------------------------------------
(* What the card, the reader and the follower hold of the log L.            *)

\* What the owner logs is of its boot; what waits to be written is.
OfBoot(rs, b) == \A i \in 1 .. Len(rs) : rs[i].boot = b
OwnerIs ==
    /\ boot \in Nat /\ made \in Nat /\ clock \in BOOLEAN
    /\ queue \in Seq(Records) /\ OfBoot(queue, boot)

\* The segments hold the log's end, without a gap; what a mounted card buffers is of this
\* boot and behind it.
CardIs(L) ==
    /\ tail \in Seq(Records) /\ OfBoot(tail, boot)
    /\ next \in Nat /\ last \in Nat /\ last <= Len(L) /\ firsts \subseteq Nat
    /\ sd \in {"out", "in", "broken", "unmounted", "reading"}
    /\ sd \in {"out", "unmounted"} => tail = <<>>
    /\ sd \in {"in", "broken", "reading"} => next = Len(L) + 1 + Len(tail)
    /\ firsts = {} => Stored = {} /\ sd = "out" /\ last = 0 /\ Len(L) = 0
    /\ firsts # {} => \E lo \in Nat \ {0} : Holds(firsts, recs, lo, Len(L))

\* All that is known is a part of the one log.
LogIs(L) == Good(L, boot) /\ Part(recs, L) /\ Part(seen, L) /\ Part(page.recs, L)

PagesAre(L) == PageIs(page, L, firsts, boot) /\ PageIs(reply, L, firsts, boot)

\* A request, its answer and the page buffer.
HttpIs(L) ==
    /\ pgSince \in Nat /\ pgSince <= Len(L)
    /\ sd = "reading" => pg = "req" /\ page.since = pgSince
    /\ pg = "done" => page.since = pgSince
    /\ conn = "waiting" => asked.since = pgSince
    /\ conn = "sending" => pg = "done" /\ asked.since = pgSince

\* Up to the cursor all is settled or gone; up to the next page of a run, or buffered.
RunIs(L) ==
    /\ cursor \in Nat /\ cursor <= Len(L) /\ since \in Nat /\ gone \subseteq Nat
    /\ settled \subseteq 1 .. cursor /\ untimed \subseteq DOMAIN seen
    /\ 1 .. cursor \subseteq settled \cup gone
    /\ Gone(gone, firsts)
    /\ (conn # "idle" /\ asked.who = "ingest") <=> ing = "wait"
    /\ ing \in {"ask", "wait", "got"} =>
           /\ cursor <= since /\ since <= Len(L)
           /\ buf \subseteq (cursor + 1) .. since /\ buf \subseteq DOMAIN seen
           /\ 1 .. since \subseteq settled \cup gone \cup buf
    /\ ing = "wait" => asked.since = since
    /\ ing = "got" => reply.since = since /\ reply.seqs \subseteq DOMAIN seen

\* Of what was given up as untimed the boot is over.
UntimedIs ==
    \A n \in untimed :
        /\ seen[n].boot < boot
        /\ \A m \in Stored : ~(m > n /\ recs[m].boot = seen[n].boot /\ recs[m].ts)

\* The inductive invariant: there is one log.
Whole(L) ==
    OwnerIs /\ CardIs(L) /\ LogIs(L) /\ PagesAre(L) /\ HttpIs(L) /\ RunIs(L) /\ UntimedIs
OneLog == \E L \in Seq(Records) : Whole(L)

-----------------------------------------------------------------------------
(* The card.                                                                *)

\* Flushing the first k buffered records makes the log longer by them.
LEMMA FlushDoes ==
    ASSUME NEW L \in Seq(Records), Good(L, boot), Part(recs, L), CardIs(L), boot \in Nat,
           NEW k \in 0 .. Len(tail)
    PROVE  \E M \in Seq(Records) :
               /\ Len(M) = Len(L) + k /\ Grown(L, M, boot) /\ Part(Flush(k), M)
               /\ DOMAIN Flush(k) = Stored \cup ((Len(L) + 1) .. Len(M))
<1> DEFINE M == [i \in 1 .. (Len(L) + k) |-> IF i <= Len(L) THEN L[i] ELSE tail[i - Len(L)]]
<1>0. tail \in Seq(Records) /\ Len(L) \in Nat /\ k \in Nat /\ Len(tail) \in Nat /\ next \in Nat
  BY DEF CardIs
<1>1. M \in Seq(Records) /\ Len(M) = Len(L) + k
  <2>1. \A i \in 1 .. (Len(L) + k) : M[i] \in Records
    BY <1>0
  <2> QED
    BY <1>0, <2>1
<1>2. Grown(L, M, boot)
  <2>1. \A i \in 1 .. Len(L) : M[i] = L[i]
    BY <1>0
  <2>2. ASSUME NEW i \in (Len(L) + 1) .. (Len(L) + k) PROVE M[i].boot = boot
    <3>1. M[i] = tail[i - Len(L)] /\ i - Len(L) \in 1 .. Len(tail)
      BY <1>0
    <3> QED
      BY <3>1 DEF CardIs, OfBoot
  <2> HIDE DEF M
  <2> QED
    BY <1>0, <1>1, <2>1, <2>2 DEF Grown
<1>3. DOMAIN Flush(k) = Stored \cup ((Len(L) + 1) .. (Len(L) + k))
  <2>1. CASE k = 0
    <3>1. (next - Len(tail)) .. (next - Len(tail) + k - 1) = {} /\ (Len(L) + 1) .. (Len(L) + k) = {}
      BY <1>0, <2>1
    <3> QED
      BY <3>1 DEF Flush
  <2>2. CASE k # 0
    <3>1. next - Len(tail) = Len(L) + 1
      BY <1>0, <2>2 DEF CardIs
    <3>2. next - Len(tail) + k - 1 = Len(L) + k
      BY <1>0, <3>1
    <3> QED
      BY <3>1, <3>2 DEF Flush
  <2> QED
    BY <2>1, <2>2
<1>4. Part(Flush(k), M)
  <2> SUFFICES ASSUME NEW n \in DOMAIN Flush(k) PROVE n \in 1 .. Len(M) /\ Flush(k)[n] = M[n]
    BY DEF Part
  <2>1. CASE n \in Stored
    <3>1. n \in 1 .. Len(L) /\ recs[n] = L[n]
      BY <2>1 DEF Part, Stored
    <3>2. Flush(k)[n] = recs[n]
      BY <2>1 DEF Flush
    <3> QED
      BY <1>0, <1>1, <3>1, <3>2
  <2>2. CASE n \notin Stored
    <3>1. n \in (Len(L) + 1) .. (Len(L) + k) /\ k # 0
      BY <1>0, <1>3, <2>2
    <3>2. next - Len(tail) = Len(L) + 1
      BY <1>0, <3>1 DEF CardIs
    <3>3. Flush(k)[n] = tail[n - (next - Len(tail)) + 1]
      BY <2>2 DEF Flush, BufferedAs
    <3>4. n - (next - Len(tail)) + 1 = n - Len(L)
      BY <1>0, <3>1, <3>2
    <3>5. M[n] = tail[n - Len(L)]
      BY <1>0, <3>1
    <3> QED
      BY <1>0, <1>1, <3>1, <3>3, <3>4, <3>5
  <2> QED
    BY <2>1, <2>2
<1> QED
  BY <1>1, <1>2, <1>3, <1>4

\* A mount recovers the log's length; the segments it opens hold the log's end.
LEMMA OpenDoes ==
    ASSUME NEW L \in Seq(Records), CardIs(L)
    PROVE  /\ Recovered = Len(L) + 1
           /\ \E lo \in Nat \ {0} : Holds(OpenedFirsts, recs, lo, Len(L))
           /\ Up(firsts, OpenedFirsts)
<1>1. CASE firsts = {}
  <2>1. Recovered = 1 /\ OpenedFirsts = {1} /\ DOMAIN recs = {} /\ Len(L) = 0
    BY <1>1 DEF CardIs, Recovered, OpenedFirsts, Stored
  <2>2. Holds(OpenedFirsts, recs, 1, Len(L))
    BY <2>1 DEF Holds
  <2> QED
    BY <1>1, <2>1, <2>2 DEF Up
<1>2. CASE firsts # {}
  <2>1. PICK lo \in Nat \ {0} : Holds(firsts, recs, lo, Len(L))
    BY <1>2 DEF CardIs
  <2>2. Recovered = Len(L) + 1
    <3>1. Len(L) \in Nat
      OBVIOUS
    <3>2. Max({Max(firsts)} \cup {n + 1 : n \in DOMAIN recs}) = Len(L) + 1
      BY <2>1, <3>1, EndsAre
    <3> QED
      BY <1>2, <3>2 DEF Recovered, Stored
  <2>3. Holds(OpenedFirsts, recs, lo, Len(L))
    <3>1. OpenedFirsts = firsts \cup {Len(L) + 1} \/ OpenedFirsts = firsts
      BY <1>2, <2>2 DEF OpenedFirsts
    <3>2. lo <= Len(L) + 1 /\ Len(L) + 1 \in lo .. (Len(L) + 1)
      BY <2>1 DEF Holds
    <3> QED
      BY <2>1, <3>1, <3>2 DEF Holds
  <2>4. Up(firsts, OpenedFirsts)
    <3>1. \A g \in OpenedFirsts : lo <= g
      BY <2>3 DEF Holds
    <3> QED
      BY <1>2, <2>1, <2>3, <3>1 DEF Up, Holds
  <2> QED
    BY <2>2, <2>3, <2>4
<1> QED
  BY <1>1, <1>2

\* Some of the buffer becomes durable: the card still holds the log's end.
LEMMA Flushed ==
    ASSUME NEW L \in Seq(Records), Whole(L), NEW k \in 0 .. Len(tail)
    PROVE  \E M \in Seq(Records) :
               /\ Len(M) = Len(L) + k /\ Grown(L, M, boot) /\ Good(M, boot) /\ Part(Flush(k), M)
               /\ \A m \in DOMAIN Flush(k) : m \in DOMAIN recs \/ m > Len(L)
               /\ firsts = {} => Len(M) = 0 /\ DOMAIN Flush(k) = {}
               /\ firsts # {} => \E lo \in Nat \ {0} : Holds(firsts, Flush(k), lo, Len(M))
<1>0. /\ boot \in Nat /\ Good(L, boot) /\ Part(recs, L) /\ CardIs(L)
      /\ Len(L) \in Nat /\ Len(tail) \in Nat /\ k \in Nat
  BY DEF Whole, OwnerIs, LogIs, CardIs
<1>1. PICK M \in Seq(Records) :
          /\ Len(M) = Len(L) + k /\ Grown(L, M, boot) /\ Part(Flush(k), M)
          /\ DOMAIN Flush(k) = Stored \cup ((Len(L) + 1) .. Len(M))
  BY <1>0, FlushDoes
<1>2. Good(M, boot)
  BY <1>0, <1>1, GoodGrows
<1>3. ASSUME NEW m \in DOMAIN Flush(k) PROVE m \in DOMAIN recs \/ m > Len(L)
  BY <1>0, <1>1 DEF Stored
<1>4. ASSUME firsts = {} PROVE Len(M) = 0 /\ DOMAIN Flush(k) = {}
  <2>1. tail = <<>> /\ Stored = {} /\ Len(L) = 0
    BY <1>0, <1>4 DEF CardIs
  <2>2. k = 0
    BY <2>1
  <2>3. Len(M) = 0 /\ (Len(L) + 1) .. Len(M) = {}
    BY <1>1, <2>1, <2>2
  <2> QED
    BY <1>1, <2>1, <2>3
<1>5. ASSUME firsts # {} PROVE \E lo \in Nat \ {0} : Holds(firsts, Flush(k), lo, Len(M))
  <2>1. PICK lo \in Nat \ {0} : Holds(firsts, recs, lo, Len(L))
    BY <1>0, <1>5 DEF CardIs
  <2>2. lo .. Len(M) = (lo .. Len(L)) \cup ((Len(L) + 1) .. Len(M))
    BY <1>0, <1>1, <2>1 DEF Holds
  <2>3. DOMAIN Flush(k) = lo .. Len(M)
    BY <1>1, <2>1, <2>2 DEF Holds, Stored
  <2>4. Holds(firsts, Flush(k), lo, Len(M))
    BY <1>0, <1>1, <2>1, <2>3 DEF Holds
  <2> QED
    BY <2>4
<1> QED
  BY <1>1, <1>2, <1>3, <1>4, <1>5

\* What was given up as untimed stays so: what comes onto the card is of this boot.
LEMMA UntimedStays ==
    ASSUME NEW L \in Seq(Records), Whole(L), seen' = seen, untimed' = untimed, boot' \in Nat, boot <= boot',
           NEW M \in Seq(Records), Grown(L, M, boot), Part(recs, M)',
           \A m \in DOMAIN recs' : m \in DOMAIN recs \/ m > Len(L)
    PROVE  UntimedIs'
<1>0. boot \in Nat /\ Len(L) \in Nat
  BY DEF Whole, OwnerIs
<1> SUFFICES ASSUME NEW n \in untimed
             PROVE  /\ seen[n].boot < boot'
                    /\ \A m \in DOMAIN recs' : ~(m > n /\ recs'[m].boot = seen[n].boot /\ recs'[m].ts)
  BY DEF UntimedIs, Stored
<1>1. seen[n].boot < boot /\ \A m \in DOMAIN recs : ~(m > n /\ recs[m].boot = seen[n].boot /\ recs[m].ts)
  BY DEF Whole, UntimedIs, Stored
<1>2. ASSUME NEW m \in DOMAIN recs', m \in DOMAIN recs PROVE recs'[m] = recs[m]
  <2>1. m \in 1 .. Len(L) /\ recs[m] = L[m] /\ recs'[m] = M[m]
    BY <1>2 DEF Whole, LogIs, Part
  <2> QED
    BY <2>1 DEF Grown
<1>3. ASSUME NEW m \in DOMAIN recs', m > Len(L) PROVE recs'[m].boot = boot
  <2>1. m \in 1 .. Len(M) /\ recs'[m] = M[m]
    BY DEF Part
  <2> QED
    BY <1>0, <1>3, <2>1 DEF Grown
<1>4. seen[n].boot \in Nat
  <2>1. n \in 1 .. Len(L) /\ seen[n] = L[n]
    BY DEF Whole, RunIs, LogIs, Part
  <2>2. seen[n] \in Records
    BY <2>1
  <2> QED
    BY <2>2 DEF Records
<1> QED
  BY <1>0, <1>1, <1>2, <1>3, <1>4

\* The lost stay lost.
LEMMA GoneStays ==
    ASSUME NEW G, G \subseteq Nat, NEW fs, NEW gs, fs \subseteq Nat, gs \subseteq Nat, Gone(G, fs), Up(fs, gs)
    PROVE  Gone(G, gs)
BY DEF Gone, Up

\* The follower stays where it is.
LEMMA RunStays ==
    ASSUME NEW L \in Seq(Records), Whole(L), UNCHANGED <<follower, conn, asked>>,
           NEW M \in Seq(Records), Len(L) <= Len(M), Up(firsts, firsts'), firsts' \subseteq Nat
    PROVE  RunIs(M)'
<1>1. RunIs(L) /\ firsts \subseteq Nat
  BY DEF Whole, CardIs
<1>2. Gone(gone, firsts')
  BY <1>1, GoneStays DEF RunIs
<1>3. /\ cursor' = cursor /\ since' = since /\ buf' = buf /\ reply' = reply /\ seen' = seen /\ ing' = ing
      /\ settled' = settled /\ untimed' = untimed /\ gone' = gone /\ conn' = conn /\ asked' = asked
  BY DEF follower
<1> QED
  BY <1>1, <1>2, <1>3 DEF RunIs

\* A step of the card alone: what it made durable is behind the log, the first segment
\* only moves up, and nothing else of the log comes back.
LEMMA CardStep ==
    ASSUME NEW L \in Seq(Records), Whole(L), UNCHANGED <<http, follower, boot>>,
           NEW M \in Seq(Records), Grown(L, M, boot), OwnerIs', CardIs(M)',
           Part(recs, M)', Up(firsts, firsts'),
           \A m \in DOMAIN recs' : m \in DOMAIN recs \/ m > Len(L),
           sd' = "reading" => sd = "reading"
    PROVE  Whole(M)'
<1>0. /\ boot \in Nat /\ boot' = boot /\ Len(L) \in Nat /\ Len(M) \in Nat /\ Len(L) <= Len(M)
      /\ firsts \subseteq Nat /\ firsts' \subseteq Nat
  BY DEF Whole, OwnerIs, Grown, CardIs
<1>u. /\ seen' = seen /\ untimed' = untimed /\ page' = page /\ reply' = reply
      /\ pg' = pg /\ pgSince' = pgSince /\ conn' = conn /\ asked' = asked
  BY DEF http, follower
<1>1. LogIs(M)'
  <2>1. Good(M, boot) /\ Part(seen, M) /\ Part(page.recs, M)
    BY <1>0, GoodGrows, PartGrows DEF Whole, LogIs
  <2> QED
    BY <1>0, <1>u, <2>1 DEF LogIs
<1>2. PagesAre(M)'
  <2>1. PageIs(page, M, firsts', boot) /\ PageIs(reply, M, firsts', boot)
    <3>1. boot <= boot
      BY <1>0
    <3> QED
      BY <1>0, <3>1, PageStays DEF Whole, PagesAre
  <2> QED
    BY <1>0, <1>u, <2>1 DEF PagesAre
<1>3. HttpIs(M)'
  BY <1>0, <1>u DEF Whole, HttpIs
<1>4. RunIs(M)'
  BY <1>0, <1>u, RunStays
<1>5. UntimedIs'
  <2>1. boot' \in Nat /\ boot <= boot'
    BY <1>0
  <2> QED
    BY <1>u, <2>1, UntimedStays
<1> QED
  BY <1>1, <1>2, <1>3, <1>4, <1>5 DEF Whole

\* A step that leaves the log as it is.
LEMMA CardRests ==
    ASSUME NEW L \in Seq(Records), Whole(L), UNCHANGED <<http, follower, boot, recs, firsts>>,
           OwnerIs', CardIs(L)', sd' = "reading" => sd = "reading"
    PROVE  Whole(L)'
<1>1. Grown(L, L, boot)
  BY DEF Grown
<1>2. Up(firsts, firsts')
  BY DEF Up, Whole, CardIs
<1>3. Part(recs, L)'
  BY DEF Whole, LogIs, Part
<1> QED
  BY <1>1, <1>2, <1>3, CardStep

-----------------------------------------------------------------------------
(* A page.                                                                  *)

\* What is read from the card is a page of the log, and all from its start is on
\* it, still to come, or lost.
LEMMA PageDoes ==
    ASSUME NEW M \in Seq(Records), boot \in Nat, Good(M, boot), NEW rs, Part(rs, M),
           NEW lo \in Nat \ {0}, Holds(firsts, rs, lo, Len(M)),
           NEW s \in Nat, s <= Len(M), NEW p, p = PageOf(s, rs)
    PROVE  p.since = s /\ PageIs(p, M, firsts, boot) /\ Part(p.recs, M)
<1> DEFINE left == {n \in DOMAIN rs : n >= StartSeg(s) /\ n > s}
           sent == {n \in left : Cardinality({m \in left : m < n}) < PageMax}
           lost == LostAfter(s)
<1>0. /\ Len(M) \in Nat /\ DOMAIN rs = lo .. Len(M) /\ firsts \subseteq Nat /\ lo \in firsts
      /\ \A f \in firsts : lo <= f
      /\ Min(firsts) = lo
  <2>1. Len(M) \in Nat
    OBVIOUS
  <2>2. Min(firsts) = lo
    BY <2>1, EndsAre
  <2> QED
    BY <2>1, <2>2 DEF Holds
<1>1. /\ p.since = s /\ p.seqs = sent /\ p.recs = [n \in sent |-> rs[n]]
      /\ p.next = Max(sent \cup {s}) /\ p.more = (sent # left) /\ p.boot = boot /\ p.lost = lost
  BY DEF PageOf
<1>2. left \subseteq (s + 1) .. Len(M) /\ left \subseteq DOMAIN rs /\ sent \subseteq left
  BY <1>0
<1>3. /\ \A n \in (s + 1) .. Len(M) : n \in left \/ n \in lost
      /\ lost \subseteq Nat /\ Gone(lost, firsts)
  <2>1. CASE Holding(s) = {}
    <3>1. StartSeg(s) = lo /\ lost = (s + 1) .. (lo - 1)
      BY <1>0, <2>1 DEF StartSeg, LostAfter
    <3>2. \A n \in (s + 1) .. Len(M) : n \in left \/ n \in lost
      BY <1>0, <3>1
    <3>3. lost \subseteq Nat /\ Gone(lost, firsts)
      BY <1>0, <3>1 DEF Gone
    <3> QED
      BY <3>2, <3>3
  <2>2. CASE Holding(s) # {}
    <3>1. Holding(s) \subseteq Nat /\ \A f \in Holding(s) : f <= s + 1 /\ lo <= f
      BY <1>0 DEF Holding
    <3>2. Max(Holding(s)) \in Holding(s)
      <4>1. s + 1 \in Nat
        OBVIOUS
      <4> QED
        BY <2>2, <3>1, <4>1, GreatestIs
    <3>3. StartSeg(s) <= s + 1 /\ StartSeg(s) \in Nat /\ lo <= s + 1 /\ lost = {}
      <4>1. StartSeg(s) = Max(Holding(s)) /\ lost = {}
        BY <2>2 DEF StartSeg, LostAfter
      <4>2. Max(Holding(s)) \in Nat /\ Max(Holding(s)) <= s + 1 /\ lo <= Max(Holding(s))
        BY <3>1, <3>2
      <4> QED
        BY <4>1, <4>2
    <3>4. \A n \in (s + 1) .. Len(M) : n \in left
      BY <1>0, <3>3
    <3> QED
      BY <3>3, <3>4 DEF Gone
  <2> QED
    BY <2>1, <2>2
<1>4. ASSUME NEW n \in sent, NEW m \in left, m < n PROVE m \in sent
  <2> DEFINE below(x) == {y \in left : y < x}
  <2>1. IsFiniteSet(left)
    <3>1. IsFiniteSet((s + 1) .. Len(M))
      BY <1>0, FS_Interval
    <3> HIDE DEF left
    <3> QED
      BY <1>2, <3>1, FS_Subset
  <2>2. below(n) \in SUBSET left /\ below(m) \in SUBSET below(n)
    BY <1>0, <1>2, <1>4
  <2>3. IsFiniteSet(below(n)) /\ IsFiniteSet(below(m)) /\ Cardinality(below(m)) <= Cardinality(below(n))
    <3> HIDE DEF left, below
    <3> QED
      BY <2>1, <2>2, FS_Subset
  <2>4. Cardinality(below(n)) \in Nat /\ Cardinality(below(m)) \in Nat
    <3> HIDE DEF left, below
    <3> QED
      BY <2>3, FS_CardinalityType
  <2>5. Cardinality(below(n)) < PageMax /\ PageMax \in Nat
    BY BoundsAssumption
  <2>6. Cardinality(below(m)) < PageMax
    <3> HIDE DEF left, below
    <3> QED
      BY <2>3, <2>4, <2>5
  <2> QED
    BY <2>6
<1>5. \A n \in DOMAIN rs : n \in 1 .. Len(M) /\ rs[n] = M[n]
  BY DEF Part
<1> HIDE DEF left, sent, lost
<1> DEFINE x == p.next
<1>6. x \in Nat /\ s <= x /\ x <= Len(M) /\ x \in sent \cup {s} /\ \A y \in sent : y <= x
  <2> DEFINE T == sent \cup {s}
  <2>1. T \subseteq Nat /\ T # {} /\ \A n \in T : n <= Len(M)
    BY <1>0, <1>2
  <2>2. Max(T) \in T /\ \A n \in T : n <= Max(T)
    <3> HIDE DEF T
    <3> QED
      BY <1>0, <2>1, GreatestIs
  <2>3. x = Max(T)
    BY <1>1
  <2>4. x \in T /\ \A n \in T : n <= x
    BY <2>2, <2>3
  <2>5. x \in Nat /\ x <= Len(M)
    BY <2>1, <2>4
  <2> QED
    BY <2>4, <2>5
<1>7. sent \subseteq (s + 1) .. x
  BY <1>0, <1>2, <1>6
<1>8. ASSUME NEW n \in (s + 1) .. x PROVE n \in sent \cup lost
  <2>1. n \in left \/ n \in lost
    BY <1>0, <1>3, <1>6
  <2>2. ASSUME n \in left PROVE n \in sent
    <3>1. x \in sent /\ (n = x \/ n < x)
      BY <1>6
    <3> QED
      BY <1>4, <2>2, <3>1
  <2> QED
    BY <2>1, <2>2
<1>9. ASSUME NEW n \in 1 .. Len(M)
      PROVE  M[n].boot <= boot /\ (n > x /\ n \notin lost => p.more)
  <2>1. M[n].boot <= boot
    BY DEF Good
  <2>2. ASSUME n > x, n \notin lost PROVE p.more
    <3>1. n \in left
      BY <1>0, <1>3, <1>6, <2>2
    <3>2. n \notin sent
      BY <1>0, <1>6, <2>2
    <3> QED
      BY <1>1, <3>1, <3>2
  <2> QED
    BY <2>1, <2>2
<1>10. PageIs(p, M, firsts, boot)
  <2>1. p.since \in Nat /\ p.next \in Nat /\ p.boot \in Nat /\ p.more \in BOOLEAN
    BY <1>1, <1>6
  <2>2. DOMAIN p.recs = p.seqs /\ p.lost \subseteq Nat /\ Gone(p.lost, firsts)
    BY <1>1, <1>3
  <2>3. p.since <= p.next /\ p.next <= Len(M) /\ p.boot <= boot
    BY <1>1, <1>6
  <2>4. p.seqs \subseteq (p.since + 1) .. p.next /\ (p.since + 1) .. p.next \subseteq p.seqs \cup p.lost
    BY <1>1, <1>7, <1>8
  <2>5. \A n \in 1 .. Len(M) :
            /\ n <= p.next => M[n].boot <= p.boot
            /\ n > p.next /\ n \notin p.lost /\ ~p.more => p.boot <= M[n].boot
    BY <1>1, <1>9
  <2> QED
    BY <2>1, <2>2, <2>3, <2>4, <2>5 DEF PageIs
<1>11. Part(p.recs, M)
  BY <1>1, <1>2, <1>5 DEF Part
<1> QED
  BY <1>1, <1>10, <1>11

\* The empty page is one of every log.
LEMMA NoPageIs ==
    ASSUME NEW L \in Seq(Records), NEW b \in Nat, NEW fs
    PROVE  PageIs(NoPage, L, fs, b) /\ Part(NoPage.recs, L)
<1>1. \A n \in 1 .. Len(L) : L[n].boot \in Nat
  <2>1. \A n \in 1 .. Len(L) : L[n] \in Records
    OBVIOUS
  <2> QED
    BY <2>1 DEF Records
<1>2. DOMAIN <<>> = {}
  OBVIOUS
<1> QED
  BY <1>1, <1>2 DEF PageIs, Part, Gone, NoPage

-----------------------------------------------------------------------------
(* The owner task.                                                          *)

\* A record is queued, unless the queue is full.
LEMMA EnqueueKeeps ==
    ASSUME NEW L \in Seq(Records), Whole(L), Enqueue
    PROVE  Whole(L)'
<1>0. OwnerIs /\ CardIs(L)
  BY DEF Whole
<1>1. Stamp \in Records /\ Stamp.boot = boot
  BY <1>0 DEF Stamp, Records, OwnerIs
<1>2. queue' \in Seq(Records) /\ OfBoot(queue', boot)
  <2>1. queue' = Append(queue, Stamp) \/ queue' = queue
    BY DEF Enqueue
  <2>2. CASE queue' = queue
    BY <1>0, <2>2 DEF OwnerIs
  <2>3. CASE queue' = Append(queue, Stamp)
    <3>1. queue \in Seq(Records) /\ OfBoot(queue, boot)
      BY <1>0 DEF OwnerIs
    <3> HIDE DEF Stamp
    <3> QED
      BY <1>1, <2>3, <3>1 DEF OfBoot
  <2> QED
    BY <2>1, <2>2, <2>3
<1>3. OwnerIs'
  BY <1>0, <1>2 DEF Enqueue, OwnerIs
<1>4. CardIs(L)'
  BY <1>0 DEF Enqueue, CardIs, card, Stored
<1> QED
  BY <1>3, <1>4, CardRests DEF Enqueue, card

\* The time arrives.
LEMMA ClockSetKeeps ==
    ASSUME NEW L \in Seq(Records), Whole(L), ClockSet
    PROVE  Whole(L)'
<1>1. OwnerIs'
  BY DEF Whole, ClockSet, OwnerIs
<1>2. CardIs(L)'
  BY DEF Whole, ClockSet, CardIs, card, Stored
<1> QED
  BY <1>1, <1>2, CardRests DEF ClockSet, card

-----------------------------------------------------------------------------
(* The SD task.                                                             *)

\* A mount, of a card that buffers nothing.
LEMMA MountKeeps ==
    ASSUME NEW L \in Seq(Records), Whole(L), Mount, sd \in {"out", "unmounted"},
           UNCHANGED <<owner, http, follower>>
    PROVE  Whole(L)'
<1>0. OwnerIs /\ CardIs(L) /\ LogIs(L) /\ tail = <<>> /\ boot' = boot /\ boot \in Nat /\ Len(L) \in Nat
  BY DEF Whole, CardIs, owner, OwnerIs
<1>1. OwnerIs'
  BY <1>0 DEF OwnerIs, owner
<1>2. CASE MountFails
  <2>1. CardIs(L)'
    BY <1>0, <1>2 DEF MountFails, CardIs, Stored
  <2> QED
    BY <1>0, <1>1, <1>2, <2>1, CardRests DEF MountFails
<1>3. CASE MountSucceeds
  <2>1. PICK lo \in Nat \ {0} : Holds(OpenedFirsts, recs, lo, Len(L))
    BY OpenDoes, <1>0
  <2>2. Recovered = Len(L) + 1 /\ Up(firsts, OpenedFirsts)
    BY OpenDoes, <1>0
  <2>4. /\ \E keep \in Nat \ {0} : Holds(firsts', recs', keep, Len(L))
        /\ Up(OpenedFirsts, firsts') /\ Part(recs', L) /\ DOMAIN recs' \subseteq DOMAIN recs
    <3>1. Len(L) \in Nat /\ Part(recs, L) /\ Prune(OpenedFirsts, recs)
      BY <1>0, <1>3 DEF LogIs, MountSucceeds
    <3> QED
      BY <2>1, <3>1, PruneDoes
  <2>5. firsts \subseteq Nat /\ OpenedFirsts \subseteq Nat /\ firsts' \subseteq Nat /\ firsts' # {}
    BY <1>0, <2>1, <2>4 DEF CardIs, Holds
  <2>6. Up(firsts, firsts')
    BY <2>2, <2>4, <2>5, UpUp
  <2>7. CardIs(L)'
    <3>1. tail' = <<>> /\ next' = Len(L) + 1 /\ last' = Len(L) /\ sd' = "in"
      BY <1>0, <1>3, <2>2 DEF MountSucceeds
    <3>2. tail' \in Seq(Records) /\ Len(tail') = 0 /\ OfBoot(tail', boot')
      BY <3>1 DEF OfBoot
    <3>3. next' = Len(L) + 1 + Len(tail') /\ next' \in Nat /\ last' \in Nat /\ last' <= Len(L)
      BY <1>0, <3>1, <3>2
    <3> QED
      BY <2>4, <2>5, <3>1, <3>2, <3>3 DEF CardIs
  <2>8. Grown(L, L, boot) /\ Part(recs, L)'
    BY <2>4 DEF Grown, Part
  <2>9. sd' # "reading"
    BY <1>3 DEF MountSucceeds
  <2> QED
    BY <1>0, <1>1, <2>4, <2>6, <2>7, <2>8, <2>9, CardStep
<1> QED
  BY <1>2, <1>3 DEF Mount

\* The loop mounts the card.
LEMMA TryMountKeeps ==
    ASSUME NEW L \in Seq(Records), Whole(L), TryMount
    PROVE  Whole(L)'
BY MountKeeps DEF TryMount

\* After a failure: the card is given up until the next attempt, or mounted at once.
LEMMA RemountKeeps ==
    ASSUME NEW L \in Seq(Records), Whole(L), Remount
    PROVE  Whole(L)'
<1>1. CASE Mount
  BY <1>1, MountKeeps DEF Remount
<1>2. CASE ~Mount
  <2>1. sd' = "out" /\ sd = "unmounted" /\ UNCHANGED <<recs, firsts, tail, next, last, owner, http, follower>>
    BY <1>2 DEF Remount
  <2>2. OwnerIs'
    BY <2>1 DEF Whole, OwnerIs, owner
  <2>3. CardIs(L)'
    BY <2>1 DEF Whole, CardIs, Stored, owner
  <2> QED
    BY <2>1, <2>2, <2>3, CardRests DEF owner
<1> QED
  BY <1>1, <1>2

\* A step of the SD task that only takes from the queue or changes how it is with the card.
LEMMA TaskRests ==
    ASSUME NEW L \in Seq(Records), Whole(L),
           UNCHANGED <<recs, firsts, tail, next, last, clock, boot, made, http, follower>>,
           queue' = queue \/ (queue # <<>> /\ queue' = Tail(queue)),
           sd' = sd \/ (sd \in {"in", "reading"} /\ sd' \in {"in", "broken"})
    PROVE  Whole(L)'
<1>1. OwnerIs'
  <2>1. OwnerIs
    BY DEF Whole
  <2>2. queue \in Seq(Records) /\ OfBoot(queue, boot)
    BY <2>1 DEF OwnerIs
  <2>3. ASSUME queue # <<>>, queue' = Tail(queue)
        PROVE  queue' \in Seq(Records) /\ OfBoot(queue', boot)
    BY <2>2, <2>3 DEF OfBoot
  <2>4. queue' \in Seq(Records) /\ OfBoot(queue', boot)
    BY <2>2, <2>3
  <2> QED
    BY <2>1, <2>4 DEF OwnerIs
<1>2. CardIs(L)'
  <2>1. CardIs(L)
    BY DEF Whole
  <2>2. firsts # {} \/ sd' = sd
    BY <2>1 DEF CardIs
  <2>3. sd' \in {"in", "broken", "reading"} => sd \in {"in", "broken", "reading"}
    OBVIOUS
  <2> QED
    BY <2>1, <2>2, <2>3 DEF CardIs, Stored
<1>3. sd' = "reading" => sd = "reading"
  OBVIOUS
<1> QED
  BY <1>1, <1>2, <1>3, CardRests

\* The calm after a failure.
LEMMA CalmKeeps ==
    ASSUME NEW L \in Seq(Records), Whole(L), Calm
    PROVE  Whole(L)'
BY TaskRests DEF Calm, owner

\* A write that fails.
LEMMA WriteFailsKeeps ==
    ASSUME NEW L \in Seq(Records), Whole(L), WriteFails
    PROVE  Whole(L)'
BY TaskRests DEF WriteFails

\* A record without a card.
LEMMA DiscardKeeps ==
    ASSUME NEW L \in Seq(Records), Whole(L), Discard
    PROVE  Whole(L)'
BY TaskRests DEF Discard, card

\* A sync that fails.
LEMMA SyncFailsKeeps ==
    ASSUME NEW L \in Seq(Records), Whole(L), SyncFails
    PROVE  Whole(L)'
BY TaskRests DEF SyncFails, owner

\* The card is unmounted: a part of the buffer still becomes durable.
LEMMA UnmountKeeps ==
    ASSUME NEW L \in Seq(Records), Whole(L), Unmount
    PROVE  \E M \in Seq(Records) : Whole(M)'
<1>0. OwnerIs /\ CardIs(L) /\ firsts # {} /\ Len(L) \in Nat
  BY DEF Whole, CardIs, Unmount
<1>1. PICK k \in 0 .. Len(tail) : recs' = Flush(k)
  BY DEF Unmount
<1>2. PICK M \in Seq(Records) :
          /\ Len(M) = Len(L) + k /\ Grown(L, M, boot) /\ Part(recs', M)
          /\ \A m \in DOMAIN recs' : m \in DOMAIN recs \/ m > Len(L)
          /\ \E lo \in Nat \ {0} : Holds(firsts, recs', lo, Len(M))
  BY <1>0, <1>1, Flushed
<1>3. OwnerIs'
  BY <1>0 DEF OwnerIs, Unmount, owner
<1>4. CardIs(M)'
  <2>1. tail' = <<>> /\ next' = next /\ last' = last /\ firsts' = firsts /\ sd' = "unmounted" /\ boot' = boot
    BY DEF Unmount, owner
  <2>2. tail' \in Seq(Records) /\ OfBoot(tail', boot')
    BY <2>1 DEF OfBoot
  <2>3. last' \in Nat /\ last' <= Len(M) /\ next' \in Nat /\ firsts' \subseteq Nat
    BY <1>0, <1>2, <2>1 DEF CardIs
  <2> QED
    BY <1>0, <1>2, <2>1, <2>2, <2>3 DEF CardIs
<1>5. Up(firsts, firsts') /\ UNCHANGED <<http, follower, boot>> /\ sd' # "reading"
  BY <1>0 DEF Unmount, owner, Up, CardIs
<1>6. Part(recs, M)'
  BY <1>2 DEF Part
<1>7. Whole(M)'
  BY <1>2, <1>3, <1>4, <1>5, <1>6, CardStep
<1> QED
  BY <1>7

\* All of the buffer becomes durable, of a card that is mounted.
LEMMA SyncedCard ==
    ASSUME NEW L \in Seq(Records), Whole(L), Synced, sd = "in", sd' \in {"in", "reading"},
           UNCHANGED <<firsts, next, boot>>
    PROVE  \E M \in Seq(Records) :
               /\ Len(L) <= Len(M) /\ Grown(L, M, boot) /\ Good(M, boot) /\ Part(recs, M)' /\ CardIs(M)'
               /\ \A m \in DOMAIN recs' : m \in DOMAIN recs \/ m > Len(L)
               /\ \E lo \in Nat \ {0} : Holds(firsts, recs', lo, Len(M))
<1>0. OwnerIs /\ CardIs(L) /\ firsts # {} /\ Len(L) \in Nat /\ Len(tail) \in Nat
  BY DEF Whole, CardIs
<1> DEFINE k == Len(tail)
<1>1. recs' = Flush(k) /\ tail' = <<>> /\ last' = next - 1 /\ k \in 0 .. Len(tail)
  BY <1>0 DEF Synced
<1>2. PICK M \in Seq(Records) :
          /\ Len(M) = Len(L) + k /\ Grown(L, M, boot) /\ Good(M, boot) /\ Part(recs', M)
          /\ \A m \in DOMAIN recs' : m \in DOMAIN recs \/ m > Len(L)
          /\ \E lo \in Nat \ {0} : Holds(firsts, recs', lo, Len(M))
  BY <1>0, <1>1, Flushed
<1>3. CardIs(M)'
  <2>1. next = Len(M) + 1 /\ next' = next /\ firsts' = firsts
    BY <1>0, <1>2 DEF CardIs
  <2>2. last' = Len(M) /\ next' = Len(M) + 1 + Len(tail') /\ next' \in Nat /\ Len(M) \in Nat
    BY <1>0, <1>1, <1>2, <2>1
  <2>3. tail' \in Seq(Records) /\ OfBoot(tail', boot')
    BY <1>1 DEF OfBoot
  <2>4. firsts' \subseteq Nat /\ firsts' # {}
    BY <1>0, <2>1 DEF CardIs
  <2>5. \E lo \in Nat \ {0} : Holds(firsts', recs', lo, Len(M))
    BY <1>2, <2>1
  <2>6. sd' \in {"in", "reading"} /\ tail' = <<>>
    BY <1>1
  <2>7. last' \in Nat /\ last' <= Len(M)
    BY <2>2
  <2> HIDE DEF k
  <2> QED
    BY <2>2, <2>3, <2>4, <2>5, <2>6, <2>7 DEF CardIs
<1>4. Part(recs, M)'
  BY <1>2 DEF Part
<1>5. Len(L) <= Len(M)
  BY <1>0, <1>2
<1> QED
  BY <1>2, <1>3, <1>4, <1>5

\* A sync.
LEMMA SyncKeeps ==
    ASSUME NEW L \in Seq(Records), Whole(L), Sync
    PROVE  \E M \in Seq(Records) : Whole(M)'
<1>0. Synced /\ sd = "in" /\ sd' = sd /\ UNCHANGED <<firsts, next, owner, http, follower>>
  BY DEF Sync
<1>1. boot' = boot /\ sd' \in {"in", "reading"}
  BY <1>0 DEF owner
<1>2. PICK M \in Seq(Records) :
          /\ Grown(L, M, boot) /\ Part(recs, M)' /\ CardIs(M)'
          /\ \A m \in DOMAIN recs' : m \in DOMAIN recs \/ m > Len(L)
  BY <1>0, <1>1, SyncedCard
<1>3. OwnerIs'
  BY <1>0 DEF Whole, OwnerIs, owner
<1>4. Up(firsts, firsts')
  BY <1>0 DEF Up, Whole, CardIs
<1>5. Whole(M)'
  BY <1>0, <1>1, <1>2, <1>3, <1>4, CardStep
<1> QED
  BY <1>5

\* A record is written: buffered, or a new segment is begun behind what is flushed.
LEMMA WriteKeeps ==
    ASSUME NEW L \in Seq(Records), Whole(L), Write
    PROVE  \E M \in Seq(Records) : Whole(M)'
<1> DEFINE r == Head(queue)
<1>0. /\ OwnerIs /\ CardIs(L) /\ firsts # {} /\ Len(L) \in Nat /\ Len(tail) \in Nat /\ firsts \subseteq Nat
      /\ next = Len(L) + 1 + Len(tail) /\ tail \in Seq(Records) /\ OfBoot(tail, boot)
  BY DEF Whole, CardIs, Write
<1>u. /\ sd = "in" /\ sd' = "in" /\ next' = next + 1 /\ last' = last /\ boot' = boot
      /\ UNCHANGED <<clock, boot, made, http, follower>> /\ queue # <<>> /\ queue' = Tail(queue)
  BY DEF Write
<1>1. r \in Records /\ r.boot = boot /\ OwnerIs'
  <2>1. queue \in Seq(Records) /\ queue # <<>> /\ OfBoot(queue, boot)
    BY <1>0, <1>u DEF OwnerIs
  <2>2. r \in Records /\ r = queue[1] /\ 1 \in 1 .. Len(queue)
    BY <2>1
  <2>3. r.boot = boot
    BY <2>1, <2>2 DEF OfBoot
  <2>4. Tail(queue) \in Seq(Records) /\ OfBoot(Tail(queue), boot)
    BY <2>1 DEF OfBoot
  <2> QED
    BY <1>0, <1>u, <2>2, <2>3, <2>4 DEF OwnerIs
<1> HIDE DEF r
<1>2. CASE Rolls
  <2>0. tail' = <<r>> /\ Prune(firsts \cup {next}, Flush(Len(tail)))
    BY <1>2 DEF Write, r
  <2> DEFINE k == Len(tail)
             rs == Flush(k)
             fs == firsts \cup {next}
  <2>1. PICK M \in Seq(Records) :
            /\ Len(M) = Len(L) + k /\ Grown(L, M, boot) /\ Part(rs, M)
            /\ \A m \in DOMAIN rs : m \in DOMAIN recs \/ m > Len(L)
            /\ \E lo \in Nat \ {0} : Holds(firsts, rs, lo, Len(M))
    BY <1>0, Flushed
  <2>2. PICK lo \in Nat \ {0} : Holds(firsts, rs, lo, Len(M))
    BY <2>1
  <2>3. next = Len(M) + 1 /\ Len(M) \in Nat /\ last <= Len(M) /\ last \in Nat
    BY <1>0, <2>1 DEF CardIs
  <2> HIDE DEF rs
  <2>4. Holds(fs, rs, lo, Len(M))
    <3>1. next \in lo .. (Len(M) + 1)
      BY <2>2, <2>3 DEF Holds
    <3> QED
      BY <2>2, <3>1 DEF Holds
  <2>5. Up(firsts, fs)
    <3>1. \A g \in fs : lo <= g /\ lo \in firsts
      BY <2>2, <2>4 DEF Holds
    <3> QED
      BY <1>0, <3>1 DEF Up
  <2>6. /\ \E keep \in Nat \ {0} : Holds(firsts', recs', keep, Len(M))
        /\ Up(fs, firsts') /\ Part(recs', M) /\ DOMAIN recs' \subseteq DOMAIN rs
    <3>1. Prune(fs, rs)
      BY <2>0 DEF rs
    <3> HIDE DEF fs
    <3> QED
      BY <2>1, <2>3, <2>4, <3>1, PruneDoes
  <2>7. firsts' \subseteq Nat /\ firsts' # {} /\ fs \subseteq Nat
    <3>1. PICK keep \in Nat \ {0} : Holds(firsts', recs', keep, Len(M))
      BY <2>6
    <3>2. keep \in firsts' /\ \A f \in firsts' : f \in keep .. (Len(M) + 1)
      BY <3>1 DEF Holds
    <3>3. fs \subseteq Nat
      <4>1. firsts \subseteq Nat /\ next \in Nat
        BY <1>0, <2>3
      <4> QED
        BY <4>1
    <3> HIDE DEF fs
    <3> QED
      BY <2>3, <3>2, <3>3
  <2>8. Up(firsts, firsts')
    <3> HIDE DEF fs
    <3> QED
      BY <1>0, <2>5, <2>6, <2>7, UpUp
  <2>9. CardIs(M)'
    <3>1. tail' \in Seq(Records) /\ Len(tail') = 1 /\ OfBoot(tail', boot')
      BY <1>1, <1>u, <2>0 DEF OfBoot
    <3>2. next' = Len(M) + 1 + Len(tail') /\ next' \in Nat /\ last' \in Nat /\ last' <= Len(M)
      BY <1>u, <2>3, <3>1
    <3> QED
      BY <1>u, <2>6, <2>7, <3>1, <3>2 DEF CardIs
  <2>10. Part(recs, M)' /\ \A m \in DOMAIN recs' : m \in DOMAIN recs \/ m > Len(L)
    BY <2>1, <2>6 DEF Part
  <2>11. Whole(M)'
    BY <1>1, <1>u, <2>1, <2>8, <2>9, <2>10, CardStep
  <2> QED
    BY <2>11
<1>3. CASE ~Rolls
  <2>0. tail' = Append(tail, r) /\ recs' = recs /\ firsts' = firsts
    BY <1>3 DEF Write, r
  <2>1. tail' \in Seq(Records) /\ Len(tail') = Len(tail) + 1 /\ OfBoot(tail', boot')
    BY <1>0, <1>1, <1>u, <2>0 DEF OfBoot
  <2>2. next' = Len(L) + 1 + Len(tail') /\ next' \in Nat
    BY <1>0, <1>u, <2>1
  <2>3. CardIs(L)'
    BY <1>0, <1>u, <2>0, <2>1, <2>2 DEF CardIs, Stored
  <2>4. Whole(L)'
    BY <1>1, <1>u, <2>0, <2>3, CardRests
  <2> QED
    BY <2>4
<1> QED
  BY <1>2, <1>3

-----------------------------------------------------------------------------
(* The hand-off of a page.                                                  *)

\* A page is read after a sync.
LEMMA ServeKeeps ==
    ASSUME NEW L \in Seq(Records), Whole(L), Serve
    PROVE  \E M \in Seq(Records) : Whole(M)'
<1>0. /\ Synced /\ sd = "in" /\ pg = "req" /\ sd' = "reading" /\ page' = PageOf(pgSince, recs')
      /\ UNCHANGED <<firsts, next, owner, pg, pgSince, conn, asked, follower>>
  BY DEF Serve
<1>1. boot' = boot /\ sd' \in {"in", "reading"} /\ boot \in Nat /\ Len(L) \in Nat /\ firsts \subseteq Nat
  BY <1>0 DEF owner, Whole, OwnerIs, CardIs
<1>2. PICK M \in Seq(Records) :
          /\ Len(L) <= Len(M) /\ Grown(L, M, boot) /\ Good(M, boot) /\ Part(recs, M)' /\ CardIs(M)'
          /\ \A m \in DOMAIN recs' : m \in DOMAIN recs \/ m > Len(L)
          /\ \E lo \in Nat \ {0} : Holds(firsts, recs', lo, Len(M))
  BY <1>0, <1>1, SyncedCard
<1>3. pgSince \in Nat /\ pgSince <= Len(M) /\ Len(M) \in Nat
  BY <1>1, <1>2 DEF Whole, HttpIs
<1>4. page'.since = pgSince /\ PageIs(page', M, firsts, boot) /\ Part(page'.recs, M)
  <2>1. PICK lo \in Nat \ {0} : Holds(firsts, recs', lo, Len(M))
    BY <1>2
  <2>2. Part(recs', M)
    BY <1>2 DEF Part
  <2> QED
    BY <1>0, <1>1, <1>2, <1>3, <2>1, <2>2, PageDoes
<1>5. OwnerIs'
  BY <1>0 DEF Whole, OwnerIs, owner
<1>6. Up(firsts, firsts') /\ firsts' \subseteq Nat
  BY <1>0, <1>1 DEF Up
<1>7. LogIs(M)'
  <2>1. Part(seen, M)
    BY <1>1, <1>2, <1>3, PartGrows DEF Whole, LogIs
  <2> QED
    BY <1>0, <1>1, <1>2, <1>4, <2>1 DEF LogIs, follower
<1>8. PagesAre(M)'
  <2>1. PageIs(reply, M, firsts', boot)
    <3>1. boot <= boot
      BY <1>1
    <3> QED
      BY <1>1, <1>2, <1>6, <3>1, PageStays DEF Whole, PagesAre
  <2> QED
    BY <1>0, <1>1, <1>4, <2>1 DEF PagesAre, follower
<1>9. HttpIs(M)'
  BY <1>0, <1>3, <1>4 DEF Whole, HttpIs
<1>10. RunIs(M)'
  BY <1>0, <1>2, <1>6, RunStays
<1>11. UntimedIs'
  <2>1. boot' \in Nat /\ boot <= boot' /\ seen' = seen /\ untimed' = untimed
    BY <1>0, <1>1 DEF follower
  <2> QED
    BY <1>2, <2>1, UntimedStays
<1>12. Whole(M)'
  BY <1>2, <1>5, <1>7, <1>8, <1>9, <1>10, <1>11 DEF Whole
<1> QED
  BY <1>12

\* The card, the follower and the log rest while the connection and the page move.
LEMMA HttpStep ==
    ASSUME NEW L \in Seq(Records), Whole(L), UNCHANGED <<owner, recs, firsts, tail, next, last, seen, untimed>>,
           sd' = sd \/ (sd = "reading" /\ sd' = "in"),
           PagesAre(L)', Part(page.recs, L)', HttpIs(L)', RunIs(L)'
    PROVE  Whole(L)'
<1>1. OwnerIs'
  BY DEF Whole, OwnerIs, owner
<1>2. CardIs(L)'
  BY DEF Whole, CardIs, owner, Stored
<1>3. LogIs(L)'
  BY DEF Whole, LogIs, owner
<1>4. UntimedIs'
  BY DEF Whole, UntimedIs, owner, Stored
<1> QED
  BY <1>1, <1>2, <1>3, <1>4 DEF Whole

\* What a step of the connection leaves alone.
LEMMA PagesStay ==
    ASSUME NEW L, Whole(L), UNCHANGED <<page, reply, firsts, boot>>
    PROVE  PagesAre(L)' /\ Part(page.recs, L)'
BY DEF Whole, PagesAre, LogIs, Part

\* The page is published.
LEMMA ServeDoneKeeps ==
    ASSUME NEW L \in Seq(Records), Whole(L), ServeDone
    PROVE  Whole(L)'
<1>1. PagesAre(L)' /\ Part(page.recs, L)'
  BY PagesStay DEF ServeDone, follower, owner
<1>2. HttpIs(L)'
  BY DEF Whole, HttpIs, ServeDone
<1>3. RunIs(L)'
  BY DEF Whole, RunIs, ServeDone, follower
<1> QED
  BY <1>1, <1>2, <1>3, HttpStep DEF ServeDone, follower

\* The page cannot be read.
LEMMA ServeFailsKeeps ==
    ASSUME NEW L \in Seq(Records), Whole(L), ServeFails
    PROVE  Whole(L)'
<1>0. boot \in Nat
  BY DEF Whole, OwnerIs
<1>1. PageIs(page', L, firsts, boot) /\ Part(page'.recs, L)
  BY <1>0, NoPageIs DEF ServeFails
<1>2. PagesAre(L)' /\ Part(page.recs, L)'
  <2>1. Part(page.recs, L)'
    BY <1>1 DEF Part
  <2> QED
    BY <1>1, <2>1 DEF Whole, PagesAre, ServeFails, card, owner, follower
<1>3. HttpIs(L)'
  BY DEF Whole, HttpIs, ServeFails, card
<1>4. RunIs(L)'
  BY DEF Whole, RunIs, ServeFails, card, follower
<1> QED
  BY <1>2, <1>3, <1>4, HttpStep DEF ServeFails, card, follower

\* A held request is answered.
LEMMA AnswerKeeps ==
    ASSUME NEW L \in Seq(Records), Whole(L), Answer
    PROVE  Whole(L)'
<1>1. PagesAre(L)' /\ Part(page.recs, L)'
  BY PagesStay DEF Answer, card, follower, owner
<1>2. HttpIs(L)'
  BY DEF Whole, HttpIs, Answer, card
<1>3. RunIs(L)'
  BY DEF Whole, RunIs, Answer, card, follower
<1> QED
  BY <1>1, <1>2, <1>3, HttpStep DEF Answer, card, follower

\* The follower's request ends without a page.
LEMMA FailedKeeps ==
    ASSUME NEW L, RunIs(L), ing = "wait", Failed, conn' = "idle", UNCHANGED firsts
    PROVE  RunIs(L)'
BY DEF RunIs, Failed

\* A held request ends without a page.
LEMMA ErrorsKeeps ==
    ASSUME NEW L \in Seq(Records), Whole(L), Errors
    PROVE  Whole(L)'
<1>0. /\ conn = "waiting" /\ conn' = "idle" /\ UNCHANGED <<pg, pgSince, page, asked, card, owner>>
      /\ UNCHANGED <<cursor, since, buf, reply, seen, settled, untimed, gone>>
      /\ IF asked.who = "ingest" THEN Failed ELSE UNCHANGED follower
  BY DEF Errors, Failed, follower
<1>1. PagesAre(L)' /\ Part(page.recs, L)'
  BY <1>0, PagesStay DEF card, owner
<1>2. HttpIs(L)'
  BY <1>0 DEF Whole, HttpIs, card
<1>3. RunIs(L)'
  <2>1. RunIs(L) /\ UNCHANGED firsts
    BY <1>0 DEF Whole, card
  <2>2. CASE asked.who = "ingest"
    <3>1. ing = "wait"
      BY <1>0, <2>1, <2>2 DEF RunIs
    <3> QED
      BY <1>0, <2>1, <2>2, <3>1, FailedKeeps
  <2>3. CASE asked.who # "ingest"
    BY <1>0, <2>1, <2>3 DEF RunIs, follower
  <2> QED
    BY <2>2, <2>3
<1> QED
  BY <1>0, <1>1, <1>2, <1>3, HttpStep DEF card

\* The page arrives at the follower, whose request it answers.
LEMMA ReceivedKeeps ==
    ASSUME NEW L \in Seq(Records), Whole(L), Received, conn = "sending", conn' = "idle", ing = "wait",
           UNCHANGED <<pg, pgSince, page, asked, card, owner>>
    PROVE  Whole(L)'
<1>0. /\ boot' = boot /\ firsts' = firsts /\ recs' = recs /\ sd' = sd
      /\ UNCHANGED <<cursor, since, buf, settled, untimed, gone>> /\ ing' = "got" /\ reply' = page
  BY DEF card, owner, Received
<1>1. /\ DOMAIN seen' = DOMAIN seen \cup page.seqs
      /\ \A n \in DOMAIN seen' : seen'[n] = IF n \in page.seqs THEN page.recs[n] ELSE seen[n]
  BY DEF Received
<1>2. DOMAIN page.recs = page.seqs /\ Part(seen, L) /\ Part(page.recs, L)
  BY DEF Whole, LogIs, PagesAre, PageIs
<1>3. ASSUME NEW n \in DOMAIN seen' PROVE n \in 1 .. Len(L) /\ seen'[n] = L[n]
  BY <1>1, <1>2 DEF Part
<1>4. ASSUME NEW n \in DOMAIN seen PROVE n \in DOMAIN seen' /\ seen'[n] = seen[n]
  BY <1>1, <1>2, <1>3 DEF Part
<1>5. OwnerIs' /\ CardIs(L)'
  BY DEF Whole, OwnerIs, CardIs, owner, card, Stored
<1>6. LogIs(L)'
  <2>1. Part(seen, L)'
    BY <1>3 DEF Part
  <2> QED
    BY <1>0, <2>1 DEF Whole, LogIs
<1>7. PagesAre(L)'
  BY <1>0 DEF Whole, PagesAre
<1>8. HttpIs(L)'
  BY <1>0 DEF Whole, HttpIs
<1>9. RunIs(L)'
  <2>1. RunIs(L) /\ page.since = asked.since
    BY DEF Whole, HttpIs
  <2>2. reply'.since = since' /\ reply'.seqs \subseteq DOMAIN seen'
    BY <1>0, <1>1, <2>1 DEF RunIs
  <2>3. untimed \subseteq DOMAIN seen' /\ buf \subseteq DOMAIN seen'
    BY <1>1, <2>1 DEF RunIs
  <2> QED
    BY <1>0, <2>1, <2>2, <2>3 DEF RunIs
<1>10. UntimedIs'
  <2>1. untimed \subseteq DOMAIN seen
    BY DEF Whole, RunIs
  <2> QED
    BY <1>0, <1>4, <2>1 DEF Whole, UntimedIs, Stored
<1> QED
  BY <1>5, <1>6, <1>7, <1>8, <1>9, <1>10 DEF Whole

\* The send of a page ends.
LEMMA DeliverKeeps ==
    ASSUME NEW L \in Seq(Records), Whole(L), Deliver
    PROVE  Whole(L)'
<1>0. /\ conn = "sending" /\ conn' = "idle" /\ UNCHANGED <<pg, pgSince, page, asked, card, owner>>
      /\ IF asked.who = "ingest" THEN Received \/ Failed ELSE UNCHANGED follower
  BY DEF Deliver
<1>1. RunIs(L)
  BY DEF Whole
<1>2. CASE asked.who = "ingest" /\ Received
  <2>1. ing = "wait"
    BY <1>0, <1>1, <1>2 DEF RunIs
  <2> QED
    BY <1>0, <1>2, <2>1, ReceivedKeeps
<1>3. CASE ~(asked.who = "ingest" /\ Received)
  <2>1. UNCHANGED <<cursor, since, buf, reply, seen, settled, untimed, gone>>
    BY <1>0, <1>3 DEF Failed, follower
  <2>2. PagesAre(L)' /\ Part(page.recs, L)'
    BY <1>0, <2>1, PagesStay DEF card, owner
  <2>3. HttpIs(L)'
    BY <1>0 DEF Whole, HttpIs, card
  <2>4. UNCHANGED firsts
    BY <1>0 DEF card
  <2>5. RunIs(L)'
    <3>1. CASE asked.who = "ingest"
      <4>1. ing = "wait" /\ Failed
        BY <1>0, <1>1, <1>3, <3>1 DEF RunIs
      <4> QED
        BY <1>0, <1>1, <2>4, <4>1, FailedKeeps
    <3>2. CASE asked.who # "ingest"
      BY <1>0, <1>1, <2>4, <3>2 DEF RunIs, follower
    <3> QED
      BY <3>1, <3>2
  <2> QED
    BY <1>0, <2>1, <2>2, <2>3, <2>5, HttpStep DEF card
<1> QED
  BY <1>2, <1>3

\* Another client's request is held.
LEMMA BrowserAsksKeeps ==
    ASSUME NEW L \in Seq(Records), Whole(L), BrowserAsks
    PROVE  Whole(L)'
<1>0. /\ conn = "idle" /\ conn' = "waiting" /\ pg' = "req" /\ pgSince' = 0
      /\ asked' = [who |-> "browser", since |-> 0] /\ page' = page /\ pg # "req"
      /\ UNCHANGED <<card, owner, follower>>
  BY DEF BrowserAsks, Ask, Refused
<1>1. PagesAre(L)' /\ Part(page.recs, L)'
  BY <1>0, PagesStay DEF card, owner, follower
<1>2. HttpIs(L)'
  <2>1. Len(L) \in Nat
    OBVIOUS
  <2> QED
    BY <1>0, <2>1 DEF Whole, HttpIs, card
<1>3. RunIs(L)'
  BY <1>0 DEF Whole, RunIs, card, follower
<1> QED
  BY <1>0, <1>1, <1>2, <1>3, HttpStep DEF card, follower

-----------------------------------------------------------------------------
(* The follower.                                                            *)

\* A run starts at the cursor.
LEMMA RunStartsKeeps ==
    ASSUME NEW L \in Seq(Records), Whole(L), RunStarts
    PROVE  Whole(L)'
<1>1. PagesAre(L)' /\ Part(page.recs, L)'
  BY PagesStay DEF RunStarts, card, owner, http
<1>2. HttpIs(L)'
  BY DEF Whole, HttpIs, RunStarts, card, http
<1>3. RunIs(L)'
  <2>1. RunIs(L) /\ ing = "off" /\ ing' = "ask" /\ since' = cursor /\ buf' = {}
        /\ UNCHANGED <<cursor, reply, seen, settled, untimed, gone, firsts, conn, asked>>
    BY DEF Whole, RunStarts, card, http
  <2> QED
    BY <2>1 DEF RunIs
<1> QED
  BY <1>1, <1>2, <1>3, HttpStep DEF RunStarts, card

\* The follower asks for its next page.
LEMMA IngestAsksKeeps ==
    ASSUME NEW L \in Seq(Records), Whole(L), IngestAsks
    PROVE  Whole(L)'
<1>0. /\ conn = "idle" /\ ing = "ask" /\ page' = page
      /\ UNCHANGED <<cursor, since, buf, reply, seen, settled, untimed, gone, card, owner>>
  BY DEF IngestAsks, Ask, Failed
<1>1. PagesAre(L)' /\ Part(page.recs, L)'
  BY <1>0, PagesStay DEF card, owner
<1>2. RunIs(L) /\ firsts' = firsts /\ sd' = sd /\ since \in Nat /\ since <= Len(L)
  BY <1>0 DEF Whole, RunIs, card
<1>3. CASE Refused
  <2>1. UNCHANGED <<pg, pgSince, conn, asked>> /\ ing' \in {"ask", "off"}
    BY <1>3 DEF IngestAsks, Ask, Failed
  <2>2. HttpIs(L)'
    BY <1>0, <1>2, <2>1 DEF Whole, HttpIs
  <2>3. RunIs(L)'
    BY <1>0, <1>2, <2>1 DEF RunIs
  <2> QED
    BY <1>0, <1>1, <2>2, <2>3, HttpStep DEF card
<1>4. CASE ~Refused
  <2>1. /\ conn' = "waiting" /\ pg' = "req" /\ pgSince' = since /\ ing' = "wait" /\ pg # "req"
        /\ asked' = [who |-> "ingest", since |-> since]
    BY <1>4 DEF IngestAsks, Ask, Refused
  <2>2. HttpIs(L)'
    BY <1>0, <1>2, <2>1 DEF Whole, HttpIs
  <2>3. RunIs(L)'
    BY <1>0, <1>2, <2>1 DEF RunIs
  <2> QED
    BY <1>0, <1>1, <2>2, <2>3, HttpStep DEF card
<1> QED
  BY <1>3, <1>4

\* What the follower holds when it takes a page: all between its cursor and the page's
\* next, but for what is gone.
LEMMA Held ==
    ASSUME NEW L \in Seq(Records), Whole(L), ing = "got", NEW b, b = buf \cup reply.seqs
    PROVE  /\ reply.next \in Nat /\ reply.next <= Len(L) /\ cursor <= reply.next
           /\ b \subseteq (cursor + 1) .. reply.next /\ b \subseteq DOMAIN seen
           /\ \A n \in 1 .. reply.next : n \in settled \/ n \in gone \/ n \in reply.lost \/ n \in b
           /\ Gone(gone \cup reply.lost, firsts) /\ gone \cup reply.lost \subseteq Nat
<1>1. /\ cursor \in Nat /\ since \in Nat /\ cursor <= since /\ buf \subseteq (cursor + 1) .. since
      /\ buf \subseteq DOMAIN seen /\ 1 .. since \subseteq settled \cup gone \cup buf
      /\ reply.since = since /\ reply.seqs \subseteq DOMAIN seen /\ Gone(gone, firsts) /\ gone \subseteq Nat
  BY DEF Whole, RunIs
<1>2. /\ reply.next \in Nat /\ reply.since <= reply.next /\ reply.next <= Len(L)
      /\ reply.seqs \subseteq (reply.since + 1) .. reply.next
      /\ (reply.since + 1) .. reply.next \subseteq reply.seqs \cup reply.lost
      /\ Gone(reply.lost, firsts) /\ reply.lost \subseteq Nat
  BY DEF Whole, PagesAre, PageIs
<1>3. Len(L) \in Nat
  OBVIOUS
<1>4. b \subseteq (cursor + 1) .. reply.next
  BY <1>1, <1>2
<1>5. ASSUME NEW n \in 1 .. reply.next PROVE n \in settled \/ n \in gone \/ n \in reply.lost \/ n \in b
  <2>1. CASE n <= since
    BY <1>1, <2>1
  <2>2. CASE ~(n <= since)
    <3>1. n \in (reply.since + 1) .. reply.next
      BY <1>1, <1>2, <2>2
    <3> QED
      BY <1>2, <3>1
  <2> QED
    BY <2>1, <2>2
<1>6. Gone(gone \cup reply.lost, firsts)
  BY <1>1, <1>2 DEF Gone
<1>7. b \subseteq DOMAIN seen
  BY <1>1
<1>8. gone \cup reply.lost \subseteq Nat
  BY <1>1, <1>2
<1>9. cursor <= reply.next
  BY <1>1, <1>2
<1> QED
  BY <1>2, <1>4, <1>5, <1>6, <1>7, <1>8, <1>9

\* What is gone is not on the card.
LEMMA GoneIsNotStored ==
    ASSUME NEW L, CardIs(L), NEW G, G \subseteq Nat, Gone(G, firsts), NEW m \in Stored
    PROVE  m \notin G
<1> SUFFICES ASSUME m \in G PROVE FALSE
  OBVIOUS
<1>1. firsts # {} /\ \A f \in firsts : m < f
  BY DEF Gone
<1>2. PICK lo \in Nat \ {0} : Holds(firsts, recs, lo, Len(L))
  BY <1>1 DEF CardIs
<1>3. lo \in firsts /\ m \in lo .. Len(L)
  BY <1>2 DEF Holds, Stored
<1> QED
  BY <1>1, <1>3

\* What is skipped as untimed has its boot over and no timed record of it behind: of those
\* behind it on the card, all of its boot are in the follower's hands.
LEMMA SkippedIsOver ==
    ASSUME NEW L \in Seq(Records), Whole(L), ing = "got", NEW b, b = buf \cup reply.seqs,
           NEW n \in Done(b), ~Anchored(n, b)
    PROVE  /\ seen[n].boot < boot
           /\ \A m \in Stored : ~(m > n /\ recs[m].boot = seen[n].boot /\ recs[m].ts)
<1>0. Len(L) \in Nat /\ boot \in Nat /\ CardIs(L) /\ cursor \in Nat
  BY DEF Whole, OwnerIs, RunIs
<1>h. /\ reply.next \in Nat /\ reply.next <= Len(L) /\ cursor <= reply.next
      /\ b \subseteq (cursor + 1) .. reply.next /\ b \subseteq DOMAIN seen
      /\ (\A x \in 1 .. reply.next : x \in settled \/ x \in gone \/ x \in reply.lost \/ x \in b)
      /\ Gone(gone \cup reply.lost, firsts) /\ gone \cup reply.lost \subseteq Nat
  BY Held
<1>n. n \in b /\ n \in (cursor + 1) .. reply.next
  BY <1>h DEF Done
<1>1. \A x \in b : x \in 1 .. Len(L) /\ seen[x] = L[x]
  BY <1>h DEF Whole, LogIs, Part
<1>2. \A x \in 1 .. Len(L) : L[x].boot \in Nat
  <2>1. \A x \in 1 .. Len(L) : L[x] \in Records
    OBVIOUS
  <2> QED
    BY <2>1 DEF Records
<1>3. \A x \in 1 .. Len(L) : L[x].boot <= boot /\ \A y \in x .. Len(L) : L[x].boot <= L[y].boot
  BY DEF Whole, LogIs, Good
<1>4. \A m \in Stored : m \in 1 .. Len(L) /\ recs[m] = L[m]
  BY DEF Whole, LogIs, Part, Stored
<1>5. \A m \in Stored : m \notin gone \cup reply.lost
  BY <1>0, <1>h, GoneIsNotStored
<1>6. ASSUME NEW m \in Stored, m > n, m <= reply.next PROVE m \in b
  <2>1. m \in 1 .. reply.next
    BY <1>0, <1>h, <1>4, <1>6
  <2>2. m \notin settled
    BY <1>0, <1>n, <1>6, <2>1 DEF Whole, RunIs
  <2> QED
    BY <1>h, <1>5, <2>1, <2>2
<1>7. BootOver(n, b)
  <2>1. n \notin Waits(b)
    <3>1. \A w \in Waits(b) : n < w
      BY DEF Done
    <3>2. n \in Int
      BY <1>h, <1>n
    <3>3. ASSUME n \in Waits(b) PROVE FALSE
      <4>1. n < n
        BY <3>1, <3>3
      <4> QED
        BY <3>2, <4>1
    <3> QED
      BY <3>3
  <2> QED
    BY <1>n, <2>1 DEF Waits
<1> DEFINE old == seen[n].boot
<1>8. old = L[n].boot /\ n \in 1 .. Len(L) /\ old \in Nat
  BY <1>n, <1>1, <1>2
<1> HIDE DEF old
<1>9. old < boot /\ \A m \in Stored : m > n /\ recs[m].boot = old => m \in b
  <2>1. CASE \E x \in b : x > n /\ seen[x].boot # seen[n].boot
    <3>1. PICK x \in b : x > n /\ seen[x].boot # seen[n].boot
      BY <2>1
    <3>2. x \in 1 .. Len(L) /\ L[x].boot # old /\ L[x].boot \in Nat /\ x \in n .. Len(L) /\ x <= reply.next
      BY <1>0, <1>h, <1>n, <1>1, <1>2, <1>8, <3>1 DEF old
    <3>3. old < L[x].boot
      BY <1>3, <1>8, <3>2
    <3>4. old < boot
      BY <1>0, <1>3, <1>8, <3>2, <3>3
    <3>5. ASSUME NEW m \in Stored, m > n, recs[m].boot = old PROVE m \in b
      <4>1. m \in 1 .. Len(L) /\ L[m].boot = old
        BY <1>4, <3>5
      <4>2. m < x
        <5> SUFFICES ASSUME ~(m < x) PROVE FALSE
          OBVIOUS
        <5>1. m \in x .. Len(L)
          BY <1>0, <3>2, <4>1
        <5> QED
          BY <1>3, <1>8, <3>2, <3>3, <4>1, <5>1
      <4>3. m <= reply.next
        BY <1>0, <1>h, <3>2, <4>1, <4>2
      <4> QED
        BY <1>6, <3>5, <4>3
    <3> QED
      BY <3>4, <3>5
  <2>2. CASE ~reply.more /\ seen[n].boot # reply.boot
    <3>1. /\ reply.boot \in Nat /\ reply.boot <= boot
          /\ \A x \in 1 .. Len(L) :
                 /\ x <= reply.next => L[x].boot <= reply.boot
                 /\ x > reply.next /\ x \notin reply.lost /\ ~reply.more => reply.boot <= L[x].boot
      BY DEF Whole, PagesAre, PageIs
    <3>2. old < reply.boot
      <4>1. old <= reply.boot
        BY <1>n, <1>8, <3>1
      <4> QED
        BY <1>8, <2>2, <3>1, <4>1 DEF old
    <3>3. old < boot
      BY <1>0, <1>8, <3>1, <3>2
    <3>4. ASSUME NEW m \in Stored, m > n, recs[m].boot = old PROVE m \in b
      <4>1. m \in 1 .. Len(L) /\ L[m].boot = old /\ m \notin reply.lost
        BY <1>4, <1>5, <3>4
      <4>2. m <= reply.next
        BY <1>8, <1>h, <2>2, <3>1, <3>2, <4>1
      <4> QED
        BY <1>6, <3>4, <4>2
    <3> QED
      BY <3>3, <3>4
  <2> QED
    BY <1>7, <2>1, <2>2 DEF BootOver
<1>10. ASSUME NEW m \in Stored, m > n, recs[m].boot = old, recs[m].ts PROVE FALSE
  <2>1. m \in b /\ seen[m] = recs[m]
    BY <1>1, <1>4, <1>9, <1>10
  <2>2. m >= n
    BY <1>8, <1>4, <1>10
  <2>3. Anchored(n, b)
    BY <1>10, <2>1, <2>2 DEF Anchored, old
  <2> QED
    BY <2>3
<1> QED
  BY <1>9, <1>10 DEF old

\* A page is taken.
LEMMA TakePageKeeps ==
    ASSUME NEW L \in Seq(Records), Whole(L), TakePage
    PROVE  Whole(L)'
<1> DEFINE b == buf \cup reply.seqs
           done == Done(b)
           skips == {n \in done : ~Anchored(n, b)}
<1>0. /\ ing = "got" /\ gone' = gone \cup reply.lost /\ since' = reply.next /\ buf' = b \ done
      /\ reply' = NoPage /\ ing' \in {"ask", "off"} /\ UNCHANGED <<seen, card, owner, http>>
  BY DEF TakePage
<1>1. \/ /\ settled' = settled \cup done /\ untimed' = untimed \cup skips
         /\ cursor' = IF done = {} THEN cursor ELSE Max(done)
      \/ ing' = "off" /\ UNCHANGED <<settled, untimed, cursor>>
  BY DEF TakePage
<1>h. /\ reply.next \in Nat /\ reply.next <= Len(L) /\ cursor <= reply.next
      /\ b \subseteq (cursor + 1) .. reply.next /\ b \subseteq DOMAIN seen
      /\ (\A n \in 1 .. reply.next : n \in settled \/ n \in gone \/ n \in reply.lost \/ n \in b)
      /\ Gone(gone \cup reply.lost, firsts) /\ gone \cup reply.lost \subseteq Nat
  BY <1>0, Held
<1>r. /\ cursor \in Nat /\ cursor <= Len(L) /\ settled \subseteq 1 .. cursor /\ untimed \subseteq DOMAIN seen
      /\ 1 .. cursor \subseteq settled \cup gone /\ Len(L) \in Nat
      /\ ((conn # "idle" /\ asked.who = "ingest") <=> ing = "wait")
  BY DEF Whole, RunIs
<1>d. done \subseteq b /\ \A n \in done : n \in Nat
  BY <1>h, <1>r DEF Done
<1>2. ASSUME NEW n \in done, NEW x \in b, x <= n PROVE x \in done
  <2>1. \A w \in Waits(b) : n < w /\ w \in b
    BY DEF Done, Waits
  <2>2. \A w \in b : w \in Nat
    <3> HIDE DEF b
    <3> QED
      BY <1>h, <1>r
  <2>3. n \in Nat /\ x \in Nat
    BY <1>d, <2>2
  <2>4. ASSUME NEW w \in Waits(b) PROVE x < w
    <3>1. n < w /\ w \in Nat
      BY <2>1, <2>2
    <3> QED
      BY <1>2, <2>3, <3>1
  <2> QED
    BY <2>4 DEF Done
<1>3. UNCHANGED <<recs, firsts, tail, next, last, sd, boot, conn, asked, page, pg, pgSince>>
  BY <1>0 DEF card, owner, http
<1>4. PagesAre(L)' /\ LogIs(L)' /\ OwnerIs' /\ CardIs(L)' /\ HttpIs(L)'
  <2>1. PageIs(NoPage, L, firsts, boot)
    BY NoPageIs DEF Whole, OwnerIs
  <2>2. PagesAre(L)'
    BY <1>0, <1>3, <2>1 DEF Whole, PagesAre
  <2>3. LogIs(L)'
    BY <1>0, <1>3 DEF Whole, LogIs
  <2>4. OwnerIs'
    BY <1>0 DEF Whole, OwnerIs, owner
  <2>5. CardIs(L)'
    BY <1>3 DEF Whole, CardIs, Stored
  <2>6. HttpIs(L)'
    BY <1>3 DEF Whole, HttpIs
  <2> QED
    BY <2>2, <2>3, <2>4, <2>5, <2>6
<1>s. ASSUME NEW n \in skips
      PROVE  /\ seen[n].boot < boot
             /\ \A m \in Stored : ~(m > n /\ recs[m].boot = seen[n].boot /\ recs[m].ts)
  <2>1. n \in Done(b) /\ ~Anchored(n, b)
    OBVIOUS
  <2> QED
    BY <1>0, <2>1, SkippedIsOver
<1>k. skips \subseteq done
  OBVIOUS
<1> HIDE DEF b, done, skips
<1>5. UntimedIs'
  <2>1. untimed' \subseteq untimed \cup skips
    BY <1>1
  <2> QED
    BY <1>0, <1>3, <1>s, <2>1 DEF Whole, UntimedIs, Stored
<1>6. Gone(gone', firsts') /\ gone' \subseteq Nat
  BY <1>0, <1>3, <1>h
<1>7. CASE ing' = "off" /\ UNCHANGED <<settled, untimed, cursor>>
  <2>1. since' \in Nat /\ 1 .. cursor' \subseteq settled' \cup gone'
    BY <1>0, <1>h, <1>r, <1>7
  <2>2. RunIs(L)'
    BY <1>0, <1>3, <1>6, <1>7, <1>r, <2>1 DEF RunIs
  <2> QED
    BY <1>4, <1>5, <2>2 DEF Whole
<1>8. CASE settled' = settled \cup done /\ untimed' = untimed \cup skips
           /\ cursor' = IF done = {} THEN cursor ELSE Max(done)
  <2>1. /\ cursor' \in Nat /\ cursor <= cursor' /\ cursor' <= reply.next
        /\ \A n \in done : n <= cursor'
        /\ \A x \in b : x <= cursor' => x \in done
    <3>1. CASE done = {}
      BY <1>8, <1>h, <1>r, <3>1
    <3>2. CASE done # {}
      <4>1. \A n \in done : n \in Nat /\ n <= reply.next /\ cursor <= n
        BY <1>h, <1>r, <1>d
      <4>2. Max(done) \in done /\ \A n \in done : n <= Max(done)
        BY <1>h, <3>2, <4>1, GreatestIs
      <4>3. cursor' = Max(done)
        BY <1>8, <3>2
      <4>4. \A x \in b : x <= cursor' => x \in done
        BY <1>2, <4>2, <4>3
      <4> QED
        BY <4>1, <4>2, <4>3, <4>4
    <3> QED
      BY <3>1, <3>2
  <2>2. settled' \subseteq 1 .. cursor'
    <3>1. \A n \in done : n \in 1 .. cursor'
      BY <1>h, <1>r, <1>d, <2>1
    <3>2. \A n \in settled : n \in 1 .. cursor'
      BY <1>r, <2>1
    <3> QED
      BY <1>8, <3>1, <3>2
  <2>3. untimed' \subseteq DOMAIN seen
    BY <1>8, <1>d, <1>h, <1>k, <1>r
  <2>4. 1 .. cursor' \subseteq settled' \cup gone'
    <3> SUFFICES ASSUME NEW n \in 1 .. cursor' PROVE n \in settled' \cup gone'
      OBVIOUS
    <3>1. n \in 1 .. reply.next
      BY <1>h, <2>1
    <3>2. n \in settled \/ n \in gone' \/ n \in b
      BY <1>0, <1>h, <3>1
    <3> QED
      BY <1>8, <2>1, <3>2
  <2>5. buf' \subseteq (cursor' + 1) .. since' /\ buf' \subseteq DOMAIN seen
    <3>1. \A x \in buf' : x \in b /\ x \notin done
      BY <1>0
    <3>2. \A x \in b : x \in Nat /\ x <= reply.next
      BY <1>h, <1>r
    <3>3. \A x \in buf' : x \in Nat /\ x <= since' /\ cursor' < x
      BY <1>0, <2>1, <3>1, <3>2
    <3>4. since' \in Nat
      BY <1>0, <1>h
    <3> QED
      BY <1>h, <2>1, <3>1, <3>3, <3>4
  <2>6. 1 .. since' \subseteq settled' \cup gone' \cup buf'
    <3> SUFFICES ASSUME NEW n \in 1 .. reply.next PROVE n \in settled' \cup gone' \cup buf'
      BY <1>0
    <3>1. n \in settled \/ n \in gone' \/ n \in b
      BY <1>0, <1>h
    <3> QED
      BY <1>0, <1>8, <3>1
  <2>7. cursor' <= Len(L) /\ since' \in Nat /\ cursor' <= since' /\ since' <= Len(L)
    BY <1>0, <1>h, <1>r, <2>1
  <2>8. RunIs(L)'
    BY <1>0, <1>3, <1>6, <1>r, <2>1, <2>2, <2>3, <2>4, <2>5, <2>6, <2>7 DEF RunIs
  <2> QED
    BY <1>4, <1>5, <2>8 DEF Whole
<1> QED
  BY <1>1, <1>7, <1>8

-----------------------------------------------------------------------------
(* The power cut, and the whole.                                            *)

\* A cut keeps a prefix of the buffer and may lose the newest segment, if it is empty
\* and not the only one.
LEMMA PowerCutKeeps ==
    ASSUME NEW L \in Seq(Records), Whole(L), PowerCut
    PROVE  \E M \in Seq(Records) : Whole(M)'
<1>0. /\ boot \in Nat /\ Len(L) \in Nat /\ firsts \subseteq Nat /\ made \in Nat /\ CardIs(L) /\ RunIs(L)
      /\ HttpIs(L)
  BY DEF Whole, OwnerIs, CardIs
<1>u. /\ tail' = <<>> /\ next' = 1 /\ last' = 0 /\ sd' = "out" /\ queue' = <<>> /\ clock' = FALSE
      /\ boot' = boot + 1 /\ pg' = "idle" /\ pgSince' = 0 /\ page' = NoPage /\ conn' = "idle"
      /\ UNCHANGED <<made, asked, cursor, since, buf, reply, seen, settled, untimed, gone>>
      /\ IF conn # "idle" /\ asked.who = "ingest" THEN Failed ELSE UNCHANGED ing
  BY DEF PowerCut, Failed, follower
<1>1. PICK k \in 0 .. Len(tail) : recs' = Flush(k)
  BY DEF PowerCut
<1>2. PICK M \in Seq(Records) :
          /\ Len(M) = Len(L) + k /\ Grown(L, M, boot) /\ Good(M, boot) /\ Part(recs', M)
          /\ \A m \in DOMAIN recs' : m \in DOMAIN recs \/ m > Len(L)
          /\ firsts = {} => Len(M) = 0 /\ DOMAIN recs' = {}
          /\ firsts # {} => \E lo \in Nat \ {0} : Holds(firsts, recs', lo, Len(M))
  BY <1>1, Flushed
<1>3. Len(M) \in Nat /\ Len(L) <= Len(M)
  BY <1>0, <1>2 DEF Grown
<1>4. /\ firsts' \subseteq firsts /\ (firsts = {} => firsts' = {})
      /\ firsts # {} => \E lo \in Nat \ {0} : Holds(firsts', recs', lo, Len(M))
  <2>1. CASE firsts' = firsts
    BY <1>2, <2>1
  <2>2. CASE firsts' # firsts
    <3>1. Cardinality(firsts) > 1 /\ Max(firsts) \notin DOMAIN recs' /\ firsts' = firsts \ {Max(firsts)}
      BY <2>2 DEF PowerCut
    <3>2. firsts # {}
      <4> SUFFICES ASSUME firsts = {} PROVE FALSE
        OBVIOUS
      <4>1. Cardinality(firsts) = 0
        BY FS_EmptySet
      <4> QED
        BY <3>1, <4>1
    <3>3. PICK lo \in Nat \ {0} : Holds(firsts, recs', lo, Len(M))
      BY <1>2, <3>2
    <3>4. lo # Max(firsts)
      <4> SUFFICES ASSUME lo = Max(firsts) PROVE FALSE
        OBVIOUS
      <4>0. \A f \in firsts : f <= lo
        BY <1>3, <3>3, EndsAre
      <4>1. \A f \in firsts : f \in Nat /\ lo <= f /\ f <= lo
        BY <1>0, <3>3, <4>0 DEF Holds
      <4>2. \A f \in firsts : f = lo
        BY <4>1
      <4>3. lo \in firsts
        BY <3>3 DEF Holds
      <4>4. firsts = {lo}
        BY <4>2, <4>3
      <4>5. Cardinality(firsts) = 1
        BY <4>4, FS_Singleton
      <4> QED
        BY <3>1, <4>5
    <3>5. Holds(firsts', recs', lo, Len(M))
      BY <3>1, <3>3, <3>4 DEF Holds
    <3> QED
      BY <3>1, <3>2, <3>5
  <2> QED
    BY <2>1, <2>2
<1>5. Up(firsts, firsts') /\ firsts' \subseteq Nat
  <2>1. firsts # {} => firsts' # {}
    BY <1>4 DEF Holds
  <2>2. \A g \in firsts' : g \in firsts /\ g <= g
    BY <1>0, <1>4
  <2> QED
    BY <1>0, <1>4, <2>1, <2>2 DEF Up
<1>6. OwnerIs'
  <2>1. queue' \in Seq(Records) /\ OfBoot(queue', boot')
    BY <1>u DEF OfBoot
  <2>2. boot' \in Nat /\ made' \in Nat
    BY <1>0, <1>u
  <2>3. clock' \in BOOLEAN
    BY <1>u
  <2> QED
    BY <2>1, <2>2, <2>3 DEF OwnerIs
<1>7. CardIs(M)'
  <2>1. tail' \in Seq(Records) /\ OfBoot(tail', boot')
    BY <1>u DEF OfBoot
  <2>2. firsts' = {} => DOMAIN recs' = {} /\ Len(M) = 0
    BY <1>2, <1>4 DEF Holds
  <2>3. firsts' # {} => \E lo \in Nat \ {0} : Holds(firsts', recs', lo, Len(M))
    BY <1>4
  <2> QED
    BY <1>3, <1>5, <1>u, <2>1, <2>2, <2>3 DEF CardIs, Stored
<1>8. LogIs(M)'
  <2>1. Good(M, boot')
    <3>1. \A i \in 1 .. Len(M) : M[i].boot \in Nat
      <4>1. \A i \in 1 .. Len(M) : M[i] \in Records
        OBVIOUS
      <4> QED
        BY <4>1 DEF Records
    <3> QED
      BY <1>0, <1>2, <1>u, <3>1 DEF Good
  <2>2. Part(seen, M)
    BY <1>0, <1>2, <1>3, PartGrows DEF Whole, LogIs
  <2>3. Part(page.recs, M)'
    <3>1. Part(page'.recs, M)
      BY <1>0, <1>u, NoPageIs
    <3> QED
      BY <3>1 DEF Part
  <2> QED
    BY <1>2, <1>u, <2>1, <2>2, <2>3 DEF LogIs
<1>9. PagesAre(M)'
  <2>1. boot' \in Nat /\ boot <= boot'
    BY <1>0, <1>u
  <2>2. PageIs(page', M, firsts', boot')
    BY <1>u, <2>1, NoPageIs
  <2>3. PageIs(reply, M, firsts', boot')
    BY <1>0, <1>2, <1>5, <2>1, PageStays DEF Whole, PagesAre
  <2> QED
    BY <1>u, <2>2, <2>3 DEF PagesAre
<1>10. HttpIs(M)'
  BY <1>3, <1>u DEF HttpIs
<1>11. RunIs(M)'
  <2>1. Gone(gone, firsts')
    BY <1>0, <1>5, GoneStays DEF RunIs
  <2>2. ing' # "wait" /\ (ing' = ing \/ (ing = "wait" /\ ing' \in {"ask", "off"}))
    BY <1>0, <1>u DEF RunIs, Failed
  <2> QED
    BY <1>0, <1>3, <1>u, <2>1, <2>2 DEF RunIs
<1>12. UntimedIs'
  <2>1. boot' \in Nat /\ boot <= boot' /\ Part(recs, M)'
    BY <1>0, <1>2, <1>u DEF Part
  <2> QED
    BY <1>2, <1>u, <2>1, UntimedStays
<1>13. Whole(M)'
  BY <1>6, <1>7, <1>8, <1>9, <1>10, <1>11, <1>12 DEF Whole
<1> QED
  BY <1>13

\* At first the log is empty.
LEMMA InitLog ==
    ASSUME Init
    PROVE  OneLog
<1> DEFINE L == <<>>
<1>1. L \in Seq(Records) /\ Len(L) = 0 /\ DOMAIN L = {}
  OBVIOUS
<1>2. OwnerIs /\ UntimedIs
  <2>1. queue \in Seq(Records) /\ OfBoot(queue, boot)
    BY DEF Init, OfBoot
  <2>2. boot \in Nat /\ made \in Nat
    BY DEF Init
  <2>3. clock \in BOOLEAN /\ UntimedIs
    BY DEF Init, UntimedIs
  <2> QED
    BY <2>1, <2>2, <2>3 DEF OwnerIs
<1>3. CardIs(L)
  BY <1>1 DEF Init, CardIs, OfBoot, Stored
<1>4. PageIs(NoPage, L, {}, 1) /\ Part(NoPage.recs, L)
  BY <1>1, NoPageIs
<1>5. LogIs(L)
  BY <1>1, <1>4 DEF Init, LogIs, Good, Part
<1>6. PagesAre(L)
  BY <1>4 DEF Init, PagesAre
<1>7. HttpIs(L) /\ RunIs(L)
  BY <1>1 DEF Init, HttpIs, RunIs, Gone
<1> QED
  BY <1>1, <1>2, <1>3, <1>5, <1>6, <1>7 DEF OneLog, Whole

\* Every step leaves one log.
LEMMA NextLog ==
    ASSUME OneLog, [Next]_vars
    PROVE  OneLog'
<1>0. PICK L \in Seq(Records) : Whole(L)
  BY DEF OneLog
<1> SUFFICES \E M \in Seq(Records) : Whole(M)'
  BY DEF OneLog
<1>1. CASE Enqueue \/ ClockSet \/ Calm
  BY <1>0, <1>1, EnqueueKeeps, ClockSetKeeps, CalmKeeps
<1>2. CASE SdTask
  <2>1. CASE TryMount \/ Remount \/ Discard
    BY <1>0, <2>1, TryMountKeeps, RemountKeeps, DiscardKeeps
  <2>2. CASE Unmount
    BY <1>0, <2>2, UnmountKeeps
  <2>3. CASE Write
    BY <1>0, <2>3, WriteKeeps
  <2>4. CASE Sync
    BY <1>0, <2>4, SyncKeeps
  <2>5. CASE Serve
    BY <1>0, <2>5, ServeKeeps
  <2>6. CASE ServeDone
    BY <1>0, <2>6, ServeDoneKeeps
  <2> QED
    BY <1>2, <2>1, <2>2, <2>3, <2>4, <2>5, <2>6 DEF SdTask
<1>3. CASE WriteFails \/ SyncFails \/ ServeFails
  BY <1>0, <1>3, WriteFailsKeeps, SyncFailsKeeps, ServeFailsKeeps
<1>4. CASE HttpTask \/ BrowserAsks
  BY <1>0, <1>4, AnswerKeeps, ErrorsKeeps, DeliverKeeps, BrowserAsksKeeps DEF HttpTask
<1>5. CASE Follow
  BY <1>0, <1>5, RunStartsKeeps, IngestAsksKeeps, TakePageKeeps DEF Follow
<1>6. CASE PowerCut
  BY <1>0, <1>6, PowerCutKeeps
<1>7. CASE UNCHANGED vars
  <2>1. UNCHANGED <<recs, firsts, tail, next, last, clock, boot, made, queue, sd>> /\ UNCHANGED <<http, follower>>
    BY <1>7 DEF vars, card, owner
  <2>2. Whole(L)'
    BY <1>0, <2>1, TaskRests
  <2> QED
    BY <2>2
<1> QED
  BY <1>1, <1>2, <1>3, <1>4, <1>5, <1>6, <1>7 DEF Next

\* One log: nothing is renamed, lost or skipped, and a page is its reader's.
LEMMA LogInvHolds ==
    ASSUME OneLog
    PROVE  LogInv
<1>0. PICK L \in Seq(Records) : Whole(L)
  BY DEF OneLog
<1>1. OwnerIs /\ CardIs(L) /\ LogIs(L) /\ HttpIs(L) /\ RunIs(L) /\ UntimedIs
  BY <1>0 DEF Whole
<1>2. SeqIsForever
  <2>1. \A n \in DOMAIN seen \cap Stored : recs[n] = seen[n]
    BY <1>1 DEF LogIs, Part, Stored
  <2>2. ASSUME firsts # {} PROVE \A n \in Min(firsts) .. last : n \in Stored
    <3>1. PICK lo \in Nat \ {0} : Holds(firsts, recs, lo, Len(L))
      BY <1>1, <2>2 DEF CardIs
    <3>2. Len(L) \in Nat
      OBVIOUS
    <3>3. Min(firsts) = lo
      BY <3>1, <3>2, EndsAre
    <3>4. Stored = lo .. Len(L) /\ last \in Nat /\ last <= Len(L)
      BY <1>1, <3>1 DEF Holds, Stored, CardIs
    <3> QED
      BY <3>2, <3>3, <3>4
  <2> QED
    BY <2>1, <2>2 DEF SeqIsForever
<1>3. PageIsMine
  BY <1>1 DEF HttpIs, PageIsMine
<1>4. NothingSkipped
  BY <1>1 DEF RunIs, NothingSkipped
<1>5. UntimedRightly
  BY <1>1 DEF UntimedIs, UntimedRightly
<1> QED
  BY <1>2, <1>3, <1>4, <1>5 DEF LogInv, LogIsWhole, NothingDropped

\* Whatever the power, the card, the connection and the database do, a sequence number names
\* one record for ever, what last_seq publishes is on the card, nothing below the follower's
\* cursor is missing unnoticed, none is given up whose time is known, and a response carries
\* the page its own request asked for.
THEOREM LogIsSafe == Spec => []LogInv
<1>1. Init => OneLog
  BY InitLog
<1>2. OneLog /\ [Next]_vars => OneLog'
  BY NextLog
<1>3. OneLog => LogInv
  BY LogInvHolds
<1> QED
  BY <1>1, <1>2, <1>3, PTL DEF Spec
=============================================================================
