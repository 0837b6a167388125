------------------------------- MODULE SdLog -------------------------------
(***************************************************************************)
(* The satellite's SD log, from the record queue to the Pi's database:     *)
(* the SD task that mounts the card, appends records to segments and       *)
(* recovers the sequence number (sdlog.c, sdcard_esp.c), the hand-off of   *)
(* one page between the web task and the SD task, the single HTTP          *)
(* connection that holds a request while the page is read (web.c,          *)
(* http_core.c), and the follower that pulls pages from its cursor         *)
(* (calictl/esp_ingest.py).                                                *)
(*                                                                         *)
(* A record is its number of writing, the boot that logged it and whether  *)
(* it carries a time.  What the FAT publishes at an fsync is the durable   *)
(* log; the stdio buffer holds what was written since, and a power cut or  *)
(* a failing card keeps some prefix of it.                                 *)
(***************************************************************************)
EXTENDS Naturals, Sequences, FiniteSets, FiniteSetsExt

CONSTANTS
  MaxRecs,      \* records the owner task queues, over all boots
  SegRecs,      \* records that fill a segment (CALI_SDLOG_SEGMENT_BYTES)
  PageMax,      \* records per page the follower asks for
  QueueLen,     \* QUEUE_LEN
  MaxCuts,      \* power cuts of the satellite
  MaxFaults,    \* failing card operations, connections and database writes
  MaxAsks       \* requests of another client

ASSUME BoundsAssumption ==
  /\ {MaxRecs, SegRecs, PageMax, QueueLen} \subseteq Nat \ {0}
  /\ {MaxCuts, MaxFaults, MaxAsks} \subseteq Nat

VARIABLES
  recs,      \* the durable records: seq -> record
  firsts,    \* the names (first seqs) of the segment files
  tail,      \* records in the stdio buffer of the open segment
  next,      \* s_next
  last,      \* s_last_seq, published to the web task
  state,     \* s_state: "absent", "error" or "ok"
  sd,        \* the SD task: "out" (no s_card), "in" (s_card), and inside
             \* io_failed "broken" (still mounted) or "unmounted"; "reading" a page
  recent,    \* a failure less than RETRY_MS ago
  dirty,     \* written since the last sync
  queue,     \* records on their way to the SD task
  clock,     \* this boot knows the time
  boot,      \* the boot counter
  made,      \* records queued so far
  pg,        \* s_pg: "idle", "req", "done" or "fail"
  pgSince,   \* s_pg_since
  page,      \* the page buffer
  conn,      \* the connection: "idle", "waiting" or "sending"
  asks,      \* requests of the other client
  asked,     \* the held request: who asked, and since which seq
  ing,       \* the follower: "off", "ask", "wait" or "got"
  cursor,    \* its saved cursor
  since,     \* where its next page starts
  buf,       \* its records not yet timed, as seqs
  reply,     \* the page it received
  seen,      \* history: what a page told the follower, seq -> record
  settled,   \* history: seqs the follower stored or counted as untimed
  untimed,   \* history: those counted as never stampable
  gone,      \* history: seqs a page reported as lost
  cuts,
  faults

card == <<recs, firsts, tail, next, last, state, sd, recent, dirty>>
owner == <<queue, clock, boot, made>>
http == <<pg, pgSince, page, conn, asked, asks>>
follower == <<ing, cursor, since, buf, reply, seen, settled, untimed, gone>>
vars == <<card, owner, http, follower, cuts, faults>>

Stored == DOMAIN recs
NoPage == [since |-> 0, seqs |-> {}, recs |-> <<>>, next |-> 0,
           more |-> FALSE, boot |-> 0, lost |-> {}]

\* Something the environment does to the program: a failing card, a
\* broken connection, a database that is down.
Fault == faults < MaxFaults /\ faults' = faults + 1

----------------------------------------------------------------------------
\* Owner task: cali_sdlog_io and cali_sdlog_text.  Nothing is queued while
\* the card is not ok; a full queue drops the record.
Stamp == [id |-> made + 1, boot |-> boot, ts |-> clock]

Enqueue ==
  /\ state = "ok" /\ made < MaxRecs
  /\ made' = made + 1
  /\ queue' = IF Len(queue) < QueueLen THEN Append(queue, Stamp) ELSE queue
  /\ UNCHANGED <<card, clock, boot, http, follower, cuts, faults>>

ClockSet ==
  /\ ~clock /\ clock' = TRUE
  /\ UNCHANGED <<card, queue, boot, made, http, follower, cuts, faults>>

----------------------------------------------------------------------------
\* SD task.  Flush(k): the first k buffered records reach the card.
BufferedAs(n) == tail[n - (next - Len(tail)) + 1]
Flush(k) == [n \in Stored \cup ((next - Len(tail)) .. (next - Len(tail) + k - 1))
               |-> IF n \in Stored THEN recs[n] ELSE BufferedAs(n)]

\* cali_sdlog_open: recover() takes the seq after the newest segment's last
\* complete record; an empty segment is named for the record it never got.
Recovered == IF firsts = {} THEN 1
             ELSE Max({Max(firsts)} \cup {n + 1 : n \in Stored})
Full(first, upto) == upto - first >= SegRecs
OpenedFirsts ==
  IF firsts = {} THEN {1}
  ELSE IF Full(Max(firsts), Recovered) THEN firsts \cup {Recovered} ELSE firsts

\* cali_sdlog_delete_oldest, as often as prune() finds the card above 90 %:
\* any number of the oldest segments goes, never the open one.
Prune(fs, rs) ==
  \E keep \in fs :
    /\ firsts' = {f \in fs : f >= keep}
    /\ recs' = [n \in {m \in DOMAIN rs : m >= keep} |-> rs[n]]

\* set_state(CALI_SD_OK): an info call that fails reports an error.
SetOk == \/ state' = "ok" /\ UNCHANGED faults
         \/ state' = "error" /\ Fault

\* mount(): no card, no usable FAT, no log directory or no room leaves the
\* card unmounted; else the log is open and recovered.
MountFails ==
  /\ Fault
  /\ sd' = "out" /\ state' \in {"absent", "error"}
  /\ UNCHANGED <<recs, firsts, tail, next, last, dirty>>

MountSucceeds ==
  /\ sd' = "in"
  /\ next' = Recovered /\ last' = Recovered - 1
  /\ tail' = <<>>
  /\ Prune(OpenedFirsts, recs)
  /\ SetOk
  /\ UNCHANGED dirty

Mount == MountSucceeds \/ MountFails

\* A slip: no retry.
RejectedTryMount ==
  /\ sd = "out" /\ state = "absent" /\ Mount /\ recent' = FALSE
  /\ UNCHANGED <<owner, http, follower, cuts>>

\* The loop's mount attempt once RETRY_MS passed (no card-detect pin).
TryMount ==
  /\ sd = "out" /\ Mount /\ recent' = FALSE
  /\ UNCHANGED <<owner, http, follower, cuts>>

\* io_failed(): the card is unmounted (the close may still flush a part of
\* the buffer), then mounted again at once unless it failed just before.
Unmount ==
  /\ sd = "broken"
  /\ \E k \in 0 .. Len(tail) : recs' = Flush(k)
  /\ tail' = <<>> /\ sd' = "unmounted"
  /\ UNCHANGED <<firsts, next, last, state, recent, dirty,
                 owner, http, follower, cuts, faults>>

Remount ==
  /\ sd = "unmounted" /\ recent' = TRUE
  /\ \/ recent /\ sd' = "out" /\ state' = "error"
        /\ UNCHANGED <<recs, firsts, tail, next, last, dirty, faults>>
     \/ ~recent /\ Mount
  /\ UNCHANGED <<owner, http, follower, cuts>>

Calm ==
  /\ recent /\ sd = "in" /\ recent' = FALSE
  /\ UNCHANGED <<recs, firsts, tail, next, last, state, sd, dirty,
                 owner, http, follower, cuts, faults>>

\* cali_sdlog_write: roll to a new segment when the line does not fit
\* (closing the old one flushes it), then append to the buffer.
Rolls == Full(Max(firsts), next)

Write ==
  /\ sd = "in" /\ queue # <<>>
  /\ queue' = Tail(queue) /\ dirty' = TRUE
  /\ next' = next + 1
  /\ IF Rolls
     THEN /\ tail' = <<Head(queue)>>
          /\ Prune(firsts \cup {next}, Flush(Len(tail)))
          /\ SetOk
     ELSE /\ tail' = Append(tail, Head(queue))
          /\ UNCHANGED <<recs, firsts, state, faults>>
  /\ UNCHANGED <<last, sd, recent, clock, boot, made, http, follower, cuts>>

\* A write that fails loses its record; so does a record received with no
\* card mounted.
WriteFails ==
  /\ sd = "in" /\ queue # <<>> /\ Fault
  /\ queue' = Tail(queue) /\ dirty' = TRUE
  /\ sd' = "broken"
  /\ UNCHANGED <<recs, firsts, tail, next, last, state, recent,
                 clock, boot, made, http, follower, cuts>>

Discard ==
  /\ sd = "out" /\ queue # <<>> /\ queue' = Tail(queue)
  /\ UNCHANGED <<card, clock, boot, made, http, follower, cuts, faults>>

\* cali_sdlog_sync: fflush and fsync, then the published last_seq.
Synced == /\ recs' = Flush(Len(tail)) /\ tail' = <<>>
          /\ last' = next - 1

Sync ==
  /\ sd = "in" /\ dirty
  /\ Synced /\ dirty' = FALSE
  /\ UNCHANGED <<firsts, next, state, sd, recent,
                 owner, http, follower, cuts, faults>>

SyncFails ==
  /\ sd = "in" /\ dirty /\ Fault
  /\ sd' = "broken" /\ dirty' = FALSE
  /\ UNCHANGED <<recs, firsts, tail, next, last, state, recent,
                 owner, http, follower, cuts>>

----------------------------------------------------------------------------
\* A slip: off by one.
RejectedHolding(s) == {f \in firsts : f <= s + 2}

\* cali_sdlog_page: the records after s in the durable log, from the
\* newest segment that can hold s + 1, or from the oldest with the gap
\* counted; at most PageMax of them.
Holding(s) == {f \in firsts : f <= s + 1}
StartSeg(s) == IF Holding(s) # {} THEN Max(Holding(s)) ELSE Min(firsts)
LostAfter(s) == IF Holding(s) = {} THEN (s + 1) .. (Min(firsts) - 1) ELSE {}
PageOf(s, rs) ==
  LET left == {n \in DOMAIN rs : n >= StartSeg(s) /\ n > s}
      sent == {n \in left : Cardinality({m \in left : m < n}) < PageMax}
  IN [since |-> s, seqs |-> sent, recs |-> [n \in sent |-> rs[n]],
      next |-> Max(sent \cup {s}), more |-> sent # left, boot |-> boot,
      lost |-> LostAfter(s)]

\* cali_sdlog_page_serve: sync first, the newest records sit in the buffer;
\* read the page asked for; then publish it, whatever was asked meanwhile.
Serve ==
  /\ sd = "in" /\ pg = "req"
  /\ Synced
  /\ page' = PageOf(pgSince, recs') /\ sd' = "reading"
  /\ UNCHANGED <<firsts, next, state, recent, dirty,
                 owner, pg, pgSince, conn, asked, asks, follower, cuts, faults>>

ServeDone ==
  /\ sd = "reading" /\ sd' = "in" /\ pg' = "done"
  /\ UNCHANGED <<recs, firsts, tail, next, last, state, recent, dirty, owner,
                 pgSince, page, conn, asked, asks, follower, cuts, faults>>

ServeFails ==
  /\ sd = "in" /\ pg = "req" /\ Fault
  /\ pg' = "fail" /\ page' = NoPage
  /\ UNCHANGED <<card, owner, pgSince, conn, asked, asks, follower, cuts>>

\* GET /api/log: refused without a card (503) or while a page is being
\* read (409); else the request is held.
Refused == state # "ok" \/ pg = "req"

Ask(who, s) ==
  /\ conn = "idle"
  /\ IF Refused
     THEN UNCHANGED <<pg, pgSince, page, conn, asked>>
     ELSE /\ pg' = "req" /\ pgSince' = s
          /\ conn' = "waiting" /\ asked' = [who |-> who, since |-> s]
          /\ UNCHANGED page

\* http_core's poll of a held request: a result is sent (by reference to
\* the page buffer), a failed read is a 503, 8 s without either a 504.
Answer ==
  /\ conn = "waiting" /\ pg = "done" /\ conn' = "sending"
  /\ UNCHANGED <<pg, pgSince, page, asked, asks, card, owner, follower, cuts, faults>>

\* The follower's request ends without a page: it tries again, or its run
\* ends and the timer starts the next one from the saved cursor.
Failed == ing' \in {"ask", "off"}
          /\ UNCHANGED <<cursor, since, buf, reply, seen, settled, untimed, gone>>

Errors ==
  /\ conn = "waiting" /\ conn' = "idle"
  /\ \/ (pg = "fail" \/ sd \notin {"in", "reading"}) /\ UNCHANGED faults
     \/ Fault                          \* a card that takes more than 8 s
  /\ IF asked.who = "ingest" THEN Failed ELSE UNCHANGED follower
  /\ UNCHANGED <<pg, pgSince, page, asked, asks, card, owner, cuts>>

\* The send completes, or the connection breaks.
Received ==
  /\ ing' = "got" /\ reply' = page
  /\ seen' = [n \in DOMAIN seen \cup page.seqs |->
                IF n \in page.seqs THEN page.recs[n] ELSE seen[n]]
  /\ UNCHANGED <<cursor, since, buf, settled, untimed, gone, faults>>

Deliver ==
  /\ conn = "sending" /\ conn' = "idle"
  /\ IF asked.who = "ingest" THEN Received \/ (Fault /\ Failed)
     ELSE UNCHANGED <<follower, faults>>
  /\ UNCHANGED <<pg, pgSince, page, asked, asks, card, owner, cuts>>

\* Another client of the satellite reads the log from its start.
BrowserAsks ==
  /\ asks < MaxAsks /\ asks' = asks + 1
  /\ ~Refused /\ Ask("browser", 0)
  /\ UNCHANGED <<card, owner, follower, cuts, faults>>

----------------------------------------------------------------------------
\* calictl esp-ingest, one run: from the cursor, page by page.
RunStarts ==
  /\ ing = "off" /\ ing' = "ask"
  /\ since' = cursor /\ buf' = {}
  /\ UNCHANGED <<cursor, reply, seen, settled, untimed, gone,
                 card, owner, http, cuts, faults>>

IngestAsks ==
  /\ ing = "ask" /\ Ask("ingest", since)
  /\ IF Refused THEN Failed
     ELSE /\ ing' = "wait"
          /\ UNCHANGED <<cursor, since, buf, reply, seen, settled, untimed, gone>>
  /\ UNCHANGED <<asks, card, owner, cuts, faults>>

\* resolve(): a record is timed by its own stamp or a later stamped record
\* of its boot; one whose boot is over without such a record is skipped;
\* the first of the others, and all after it, wait.
Anchored(n, b) == \E m \in b : m >= n /\ seen[m].boot = seen[n].boot /\ seen[m].ts
BootOver(n, b) == \/ \E m \in b : m > n /\ seen[m].boot # seen[n].boot
                  \/ ~reply.more /\ seen[n].boot # reply.boot
Waits(b) == {n \in b : ~Anchored(n, b) /\ ~BootOver(n, b)}
Done(b) == {n \in b : \A w \in Waits(b) : n < w}

\* One page is taken: the batch is written, then the cursor moves; a write
\* that fails ends the run with the cursor where it was.
TakePage ==
  LET b == buf \cup reply.seqs
      done == Done(b)
      skips == {n \in done : ~Anchored(n, b)}
      moved == /\ settled' = settled \cup done
               /\ untimed' = untimed \cup skips
               /\ cursor' = IF done = {} THEN cursor ELSE Max(done)
      ends == IF reply.more THEN "ask" ELSE "off"
  IN
  /\ ing = "got"
  /\ gone' = gone \cup reply.lost
  /\ since' = reply.next /\ buf' = b \ done
  /\ reply' = NoPage
  /\ \/ moved /\ ing' = ends /\ UNCHANGED faults
     \/ Fault /\ ing' = "off" /\ UNCHANGED <<settled, untimed, cursor>>
  /\ UNCHANGED <<seen, card, owner, http, cuts>>

----------------------------------------------------------------------------
\* A power cut of the satellite: RAM is lost, a prefix of the buffer may
\* have reached the card, and a segment file created last may be missing.
PowerCut ==
  /\ cuts < MaxCuts /\ cuts' = cuts + 1
  /\ \E k \in 0 .. Len(tail) : recs' = Flush(k)
  /\ \/ UNCHANGED firsts
     \/ /\ Cardinality(firsts) > 1 /\ Max(firsts) \notin DOMAIN recs'
        /\ firsts' = firsts \ {Max(firsts)}
  /\ tail' = <<>> /\ next' = 1 /\ last' = 0
  /\ state' = "absent" /\ sd' = "out" /\ recent' = FALSE /\ dirty' = FALSE
  /\ queue' = <<>> /\ clock' = FALSE /\ boot' = boot + 1
  /\ pg' = "idle" /\ pgSince' = 0 /\ page' = NoPage /\ conn' = "idle"
  /\ IF conn # "idle" /\ asked.who = "ingest" THEN Failed ELSE UNCHANGED follower
  /\ UNCHANGED <<made, asked, asks, faults>>

Init ==
  /\ recs = <<>> /\ firsts = {} /\ tail = <<>> /\ next = 1 /\ last = 0
  /\ state = "absent" /\ sd = "out" /\ recent = FALSE /\ dirty = FALSE
  /\ queue = <<>> /\ clock = FALSE /\ boot = 1 /\ made = 0
  /\ pg = "idle" /\ pgSince = 0 /\ page = NoPage /\ conn = "idle"
  /\ asks = 0 /\ asked = [who |-> "ingest", since |-> 0]
  /\ ing = "off" /\ cursor = 0 /\ since = 0 /\ buf = {} /\ reply = NoPage
  /\ seen = <<>> /\ settled = {} /\ untimed = {} /\ gone = {}
  /\ cuts = 0 /\ faults = 0

SdTask == TryMount \/ Unmount \/ Remount \/ Write \/ Discard \/ Sync \/ Serve \/ ServeDone
HttpTask == Answer \/ Errors \/ Deliver
Follow == RunStarts \/ IngestAsks \/ TakePage
Next == \/ Enqueue \/ ClockSet \/ SdTask \/ Calm
        \/ WriteFails \/ SyncFails \/ ServeFails
        \/ HttpTask \/ BrowserAsks \/ Follow \/ PowerCut

Spec == Init /\ [][Next]_vars

\* The SD task, the web task and the timer of the follower run for ever.
FairSpec ==
  /\ Spec
  /\ WF_vars(TryMount \/ Unmount \/ Remount) /\ WF_vars(Write \/ Discard)
  /\ WF_vars(Sync) /\ WF_vars(Serve \/ ServeDone) /\ WF_vars(HttpTask)
  /\ WF_vars(RunStarts) /\ WF_vars(IngestAsks) /\ WF_vars(TakePage)

----------------------------------------------------------------------------
\* Properties.

\* A sequence number names one record for ever, and what last_seq publishes
\* is on the card: no power cut, failing card or remount makes recover()
\* give the number of a record a page has served to another one, nor lets
\* the published number run ahead of what an fsync made durable.
SeqIsForever ==
  /\ \A n \in DOMAIN seen \cap Stored : recs[n] = seen[n]
  /\ firsts # {} => \A n \in Min(firsts) .. last : n \in Stored

\* A response carries the page its own request asked for, although a late
\* page of an abandoned request lands in the one shared buffer.
PageIsMine == conn = "sending" => pg = "done" /\ page.since = asked.since

\* Below the saved cursor nothing is missing unnoticed: every number was
\* stored, counted as untimed, or reported lost by a page after a prune.
NothingSkipped == \A n \in 1 .. cursor : n \in settled \cup gone

\* A record is given up as never stampable only when no later record of its
\* boot carries a time (esp_ingest.resolve).
UntimedRightly ==
  \A n \in untimed, m \in Stored :
    ~(m > n /\ recs[m].boot = seen[n].boot /\ recs[m].ts)

\* The follower drops no record it could have stored.
NothingDropped == NothingSkipped /\ UntimedRightly

\* No record is renamed, lost or skipped between the card and the cursor (sdlog.c
\* recover and sync, esp_ingest.py).
LogIsWhole == SeqIsForever /\ NothingDropped

\* Nothing is lost, renamed or sent to the wrong reader (sdlog.c
\* cali_sdlog_page, rewind_cur; ingest.py fetch).
LogInv == LogIsWhole /\ PageIsMine

\* Waiting for the time of the running boot.
Pending(n) == \E w \in Stored :
  /\ w <= n /\ recs[w].boot = boot
  /\ ~\E m \in Stored : m >= w /\ recs[m].boot = boot /\ recs[m].ts

\* A mounted card whose info call failed: set_state reports an error, and the
\* loop mounts only what is not mounted.
Refusing == sd = "in" /\ state = "error"

\* The follower catches up once faults stop (sdcard_esp.c sd_task,
\* esp_ingest.py): a broken card is mounted again and every stored record ends
\* up below the cursor or waits for a time, a refusing card excepted.
CatchesUp == <>[](Refusing \/ \A n \in Stored : n <= cursor \/ Pending(n))

============================================================================
