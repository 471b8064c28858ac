---------------------------- MODULE SourceWorker ----------------------------
(***************************************************************************)
(* Acquisition from one source connection: the supervised worker that      *)
(* polls it, the windows and cursors of the four paging styles, the        *)
(* administrator's pause, backfill, tolerance of bad rows, change and      *)
(* confirmation of the query (src/engine/connectors/, src/engine/store/    *)
(* cursors.py and connections.py, the /connections routes).                *)
(*                                                                         *)
(* A row is a number: its place in the provider's total order (time, id).  *)
(* At[r] is the time the provider files it under; it becomes readable then *)
(* or up to Late later.  Fetching a page (cursor read, clock read, the     *)
(* provider's answer) is one step; setting its bad rows aside is another,  *)
(* committing it to the ledger with the cursor a third, and anything may   *)
(* happen between them.                                                    *)
(***************************************************************************)
EXTENDS Naturals, FiniteSets

CONSTANTS
  Providers,     \* of "sentinel", "splunk", "graph", "elastic": one is chosen
  Rows,          \* positive numbers, in the provider's order
  At,            \* At[r]: the time the row is filed under
  Records,       \* vendor records
  RecordOf,      \* RecordOf[r]: the record a row is a version of
  BadRows,       \* rows without a usable key
  Incidents,     \* rows of the second stream, where the source has two
  Extra,         \* rows only the changed query returns
  Lookback,      \* lookback_seconds
  Late,          \* how long after its time a row may become readable
  Limit,         \* max_page_size
  MaxPages,      \* MAX_BACKFILL_PAGES
  FirstClock,    \* the time the program is started at
  Intervals,     \* bound: the intervals an administrator may backfill
  MaxClock,      \* bound: the time
  MaxEvents      \* bound: failed polls, slow and lost search jobs, stops and
                 \* requests of the administrator, together

ASSUME SourceAssumption ==
  /\ Providers \subseteq {"sentinel", "splunk", "graph", "elastic"}
  /\ Rows \subseteq Nat \ {0} /\ IsFiniteSet(Rows)
  /\ At \in [Rows -> Nat]
  /\ \A q, r \in Rows : q < r => At[q] <= At[r]
  /\ RecordOf \in [Rows -> Records]
  /\ BadRows \subseteq Rows /\ Incidents \subseteq Rows /\ Extra \subseteq Rows
  /\ \A q, r \in Rows : RecordOf[q] = RecordOf[r] =>
       (q \in Incidents <=> r \in Incidents) /\ (q \in Extra <=> r \in Extra)
  /\ Lookback \in Nat /\ Late \in Nat /\ Late <= Lookback
  /\ Limit \in Nat \ {0} /\ MaxPages \in Nat
  /\ FirstClock \in Nat /\ MaxClock \in Nat /\ MaxEvents \in Nat
  /\ Intervals \subseteq Nat \X Nat

Readers == {"live", "backfill"}
Streams == {"alerts", "incidents"}

VARIABLES
  provider,
  clock,
  shown,        \* rows the provider lets be read
  tardy,        \* of these, the ones it showed after their time (a ghost)

  kept,         \* rows some revision of the ledger holds
  held,         \* the row of the latest revision of a record (0: none)
  aside,        \* rows recorded in source_errors instead
  cursor,       \* source_cursors
  dbPaused,     \* connections.paused
  query,        \* the query the saved options describe (its fingerprint)

  up,           \* the runtime is started
  phase,        \* per reader: "wait", "fetch" or "commit"
  stream,       \* per reader: the stream it reads
  hand,         \* per reader: the page it holds
  refill,       \* the cursor of the running backfill
  pages,        \* and the pages it has committed
  paused,       \* ConnectionWorker.paused
  tolerant,     \* ConnectionWorker.tolerate_bad_rows
  patch,        \* a PATCH request: the pause it read, or "none"

  refilled,     \* records a backfill has committed a row of (a ghost)
  grants,       \* times an administrator allowed bad rows (a ghost)
  lax,          \* windows drained while they were allowed (a ghost)
  events        \* what MaxEvents counts

source == <<provider, clock, shown, tardy>>
ledger == <<kept, held, aside>>
saved  == <<cursor, dbPaused, query>>
reader == <<phase, stream, hand, refill, pages>>
switch == <<paused, tolerant, patch>>
ghosts == <<refilled, grants, lax>>
vars   == <<source, ledger, saved, up, reader, switch, ghosts, events>>

Happens == events < MaxEvents /\ events' = events + 1

----------------------------------------------------------------------------
\* The source.

StreamsOf == IF provider = "graph" THEN Streams ELSE {"alerts"}
StreamOf(r) == IF provider = "graph" /\ r \in Incidents THEN "incidents" ELSE "alerts"

\* Only these connectors have a fingerprint to tell queries apart by.
Fingerprinted == provider \in {"sentinel", "splunk"}
InQuery(r, q) == ~Fingerprinted \/ q = 2 \/ r \notin Extra

\* A Sentinel alert and a Graph record change; a Splunk row does not.
Changes == provider \in {"sentinel", "graph"}
Readable(s, q) == {r \in shown : StreamOf(r) = s /\ InQuery(r, q)}
LatestAll(S) == S
Latest(S) == {r \in S : ~ \E q \in S : Changes /\ q > r /\ RecordOf[q] = RecordOf[r]}

Show(r) ==
  /\ r \in Rows \ shown /\ At[r] <= clock /\ clock <= At[r] + Late
  /\ shown' = shown \cup {r}
  /\ tardy' = IF At[r] < clock THEN tardy \cup {r} ELSE tardy
  /\ UNCHANGED <<provider, clock, ledger, saved, up, reader, switch, ghosts, events>>

Tick ==
  /\ \E t \in clock + 1..MaxClock : clock' = t
  /\ UNCHANGED <<provider, shown, tardy, ledger, saved, up, reader, switch, ghosts,
                 events>>

----------------------------------------------------------------------------
\* Cursors.  from (a ghost) is the earliest time the cursor answers for; seek
\* is Sentinel's last key; rows is the snapshot of a Splunk job, offset the
\* place in it, or what Graph's nextLink has served already.

NoCursor ==
  [kind |-> "none", query |-> 0, from |-> 0, start |-> 0, end |-> 0, more |-> FALSE,
   seek |-> 0, job |-> "none", rows |-> {}, offset |-> 0]

BackNotAtAll(t) == t
Back(t) == IF t > Lookback THEN t - Lookback ELSE 0

\* resolve_window and window_for.  A v2.0.0 cursor restarts an overlap early.
Start(c) ==
  IF c.kind = "none" THEN Back(clock)
  ELSE IF ~c.more THEN Back(c.end)
  ELSE IF c.kind = "v1" THEN Back(c.start) ELSE c.start
End(c) == IF c.more THEN c.end ELSE clock
From(c) ==
  IF c.kind = "none" THEN Back(clock)
  ELSE IF c.kind = "v1" /\ c.query # query THEN Start(c) ELSE c.from
QueryOf(c) == IF c.kind = "backfill" THEN c.query ELSE query
KindOf(c) == IF c.kind = "backfill" THEN "backfill" ELSE "v2"
Continues(c) == c.more /\ c.kind # "v1"

\* A cursor of another query is never continued.
RefusedNever(c) == FALSE
Refused(c) == Fingerprinted /\ c.kind = "v2" /\ c.query # query

\* The cursor after a page of the window of c: mid-window, and drained.
More(c) ==
  [NoCursor EXCEPT !.kind = KindOf(c), !.query = QueryOf(c), !.from = From(c),
                   !.more = TRUE, !.start = Start(c), !.end = End(c)]
DrainedNow(c) ==
  [NoCursor EXCEPT !.kind = "v2", !.query = QueryOf(c), !.from = From(c), !.end = clock]
Drained(c) ==
  [NoCursor EXCEPT !.kind = "v2", !.query = QueryOf(c), !.from = From(c), !.end = End(c)]

\* backfill_cursor
BackfillCursor(from, to) ==
  [NoCursor EXCEPT !.kind = "backfill", !.query = query, !.from = from,
                   !.start = from, !.end = to, !.more = TRUE]

----------------------------------------------------------------------------
\* Pages.

\* A page is the first rows of the answer, Limit of them when there are more.
Capped(S, p) == IF Cardinality(S) < Limit THEN p = S ELSE Cardinality(p) = Limit

NoPage == [rows |-> {}, bad |-> {}, next |-> NoCursor, complete |-> TRUE, strict |-> TRUE]

\* Only Splunk can set bad rows aside, and only for an administrator; Sentinel
\* fails the page; what Graph rows lack shows when they are identified.
Strict(w) == ~(w = "live" /\ tolerant)
Stuck(w, p) ==
  /\ p \cap BadRows # {}
  /\ provider = "sentinel" \/ (provider = "splunk" /\ Strict(w))
Unkeyed(p) == IF provider = "elastic" THEN {} ELSE p \cap BadRows

Deliver(w, p, next, complete) ==
  /\ ~Stuck(w, p)
  /\ hand' = [hand EXCEPT ![w] = [rows |-> p \ Unkeyed(p), bad |-> Unkeyed(p),
                                  next |-> next, complete |-> complete,
                                  strict |-> Strict(w)]]

\* SentinelConnector.fetch_page: the newest row of each alert in the window,
\* in (time, id) order, after the last key.
SeekTime(c, r) == At[r] > At[c.seek]
Seek(c, r) == r > c.seek

SentinelPage(w, c) ==
  LET inWindow == {r \in Readable("alerts", QueryOf(c)) :
                     Start(c) <= At[r] /\ At[r] < End(c)}
      left == {r \in Latest(inWindow) : Continues(c) /\ c.seek # 0 => Seek(c, r)}
  IN \E p \in SUBSET left :
       /\ Capped(left, p) /\ \A x \in p, y \in left \ p : x < y
       /\ IF Cardinality(p) >= Limit
            THEN \E last \in p :
                   /\ \A x \in p : x <= last
                   /\ Deliver(w, p, [More(c) EXCEPT !.seek = last], FALSE)
            ELSE Deliver(w, p, Drained(c), TRUE)
  /\ UNCHANGED events

\* SplunkConnector.fetch_page: the rows of a snapshot job, by offset.  A job
\* that is gone is replaced by a new one of the same window.
Rank(J, r) == Cardinality({q \in J : q < r})
Slice(J, i, n) == {r \in J : i <= Rank(J, r) /\ Rank(J, r) < i + n}

SplunkRead(w, c, J, i, n) ==
  /\ i + n <= Cardinality(J) /\ (n = 0 => i = Cardinality(J))
  /\ IF i + n < Cardinality(J)
       THEN Deliver(w, Slice(J, i, n),
                    [More(c) EXCEPT !.job = "done", !.rows = J, !.offset = i + n], FALSE)
       ELSE Deliver(w, Slice(J, i, n), Drained(c), TRUE)

SplunkPage(w, c) ==
  LET snapshot == {r \in Readable("alerts", QueryOf(c)) :
                     Start(c) <= At[r] /\ At[r] <= End(c)}
      Search(J, i) ==
        \/ \E n \in 0..Limit : SplunkRead(w, c, J, i, n) /\ UNCHANGED events
        \/ /\ Happens
           /\ c.job # "done"
           /\ Deliver(w, {}, [More(c) EXCEPT !.job = "running", !.rows = J], FALSE)
  IN \/ c.job = "none" /\ Search(snapshot, 0)
     \/ c.job # "none" /\ Search(c.rows, c.offset)
     \/ /\ c.job # "none" /\ Happens
        /\ \E n \in 0..Limit : SplunkRead(w, c, snapshot, 0, n)

\* GraphPagedConnector.fetch_page: records by their last change; the nextLink
\* remembers what it has served.
GraphPage(w, c, s) ==
  LET left == {r \in Latest(Readable(s, QueryOf(c))) :
                 Start(c) <= At[r] /\ At[r] < End(c) /\ r \notin c.rows}
  IN \E p \in SUBSET left :
       /\ Capped(left, p)
       /\ IF p # left
            THEN Deliver(w, p, [More(c) EXCEPT !.rows = c.rows \cup p], FALSE)
            ELSE Deliver(w, p, Drained(c), TRUE)
  /\ UNCHANGED events

\* ElasticSourceConnector.fetch_page: from since_ms on, ties in any order.  A
\* full page of one timestamp goes on one later.
Since(c) == IF c.kind = "none" THEN Back(clock) ELSE c.start
Until(c) == IF c.kind = "backfill" THEN c.end ELSE clock + 1
BeyondSame(last, since) == last
Beyond(last, since) == IF last > since THEN last ELSE since + 1

ElasticPage(w, c) ==
  LET hits == {r \in Readable("alerts", 2) : Since(c) <= At[r] /\ At[r] < Until(c)}
      next == [NoCursor EXCEPT !.kind = "v2", !.from = From(c)]
      more == [next EXCEPT !.kind = KindOf(c), !.more = TRUE, !.end = Until(c)]
  IN \E p \in SUBSET hits :
       /\ Capped(hits, p) /\ \A x \in p, y \in hits \ p : At[x] <= At[y]
       /\ IF Cardinality(p) >= Limit
            THEN \E last \in p :
                   /\ \A x \in p : At[x] <= At[last]
                   /\ Deliver(w, p, [more EXCEPT !.start = Beyond(At[last], Since(c))],
                              FALSE)
            ELSE \E resume \in {Since(c), Back(clock)} :
                   /\ resume >= Since(c) /\ resume >= Back(clock)
                   /\ Deliver(w, p, [next EXCEPT !.start = resume], TRUE)
  /\ UNCHANGED events

FetchPage(w, c, s) ==
  \/ provider = "sentinel" /\ SentinelPage(w, c)
  \/ provider = "splunk"   /\ SplunkPage(w, c)
  \/ provider = "graph"    /\ GraphPage(w, c, s)
  \/ provider = "elastic"  /\ ElasticPage(w, c)

----------------------------------------------------------------------------
\* ConnectionWorker._poll_once, stream after stream, and Supervisor.backfill.

LiveFetch(s) ==
  /\ up
  /\ \/ phase["live"] = "wait" /\ ~paused /\ s = "alerts"
     \/ phase["live"] = "fetch" /\ s = stream["live"]
  /\ ~Refused(cursor[s])
  /\ FetchPage("live", cursor[s], s)
  /\ phase' = [phase EXCEPT !["live"] = "commit"]
  /\ stream' = [stream EXCEPT !["live"] = s]
  /\ UNCHANGED <<source, ledger, saved, up, refill, pages, switch, ghosts>>

BackfillFetch ==
  /\ up /\ phase["backfill"] = "fetch" /\ pages < MaxPages
  /\ FetchPage("backfill", refill, stream["backfill"])
  /\ phase' = [phase EXCEPT !["backfill"] = "commit"]
  /\ UNCHANGED <<source, ledger, saved, up, stream, refill, pages, switch, ghosts>>

\* Bad rows are recorded, by their hash, before the page is committed.
SetAside(w) ==
  /\ up /\ phase[w] = "commit" /\ hand[w].bad # {}
  /\ aside' = aside \cup hand[w].bad
  /\ hand' = [hand EXCEPT ![w].bad = {}]
  /\ UNCHANGED <<source, kept, held, saved, up, phase, stream, refill, pages, switch,
                 ghosts, events>>

\* commit_page: new rows and the cursor in one transaction; a backfill's page
\* carries no cursor.  A row equal to the latest revision of its record is
\* ignored.
Store(p) ==
  /\ kept' = kept \cup p
  /\ held' = [e \in Records |->
                IF \E r \in p : RecordOf[r] = e
                  THEN CHOOSE r \in p : RecordOf[r] = e
                                        /\ \A q \in p : RecordOf[q] = e => q <= r
                  ELSE held[e]]

SavedAlways(w) == [cursor EXCEPT ![stream[w]] = hand[w].next]
Saved(w) == IF w = "live" THEN SavedAlways(w) ELSE cursor

\* The tolerance covers the window that drains.
ToleranceStays(complete) == tolerant
Tolerance(complete) == IF complete THEN FALSE ELSE tolerant

Done(w) == [phase EXCEPT ![w] = "wait"]

LiveCommit ==
  LET h == hand["live"]  s == stream["live"]
  IN /\ up /\ phase["live"] = "commit" /\ h.bad = {}
     /\ Store(h.rows)
     /\ cursor' = Saved("live")
     /\ tolerant' = Tolerance(h.complete)
     /\ lax' = IF h.complete /\ ~h.strict THEN lax + 1 ELSE lax
     /\ IF s = "alerts" /\ "incidents" \in StreamsOf
          THEN /\ phase' = [phase EXCEPT !["live"] = "fetch"]
               /\ stream' = [stream EXCEPT !["live"] = "incidents"]
          ELSE phase' = Done("live") /\ UNCHANGED stream
     /\ hand' = [hand EXCEPT !["live"] = NoPage]
     /\ UNCHANGED <<source, aside, dbPaused, query, up, refill, pages, paused, patch,
                    refilled, grants, events>>

BackfillCommit ==
  LET h == hand["backfill"]
  IN /\ up /\ phase["backfill"] = "commit" /\ h.bad = {}
     /\ Store(h.rows)
     /\ cursor' = Saved("backfill")
     /\ refilled' = refilled \cup {RecordOf[r] : r \in h.rows}
     /\ pages' = pages + 1
     /\ refill' = IF h.complete THEN NoCursor ELSE h.next
     /\ phase' = IF h.complete THEN Done("backfill")
                 ELSE [phase EXCEPT !["backfill"] = "fetch"]
     /\ hand' = [hand EXCEPT !["backfill"] = NoPage]
     /\ UNCHANGED <<source, aside, dbPaused, query, up, stream, switch, grants, lax, events>>

\* The poll raises: the connector is discarded, the cursor stays.
LiveFails ==
  /\ up /\ phase["live"] # "wait" /\ Happens
  /\ phase' = Done("live")
  /\ hand' = [hand EXCEPT !["live"] = NoPage]
  /\ UNCHANGED <<source, ledger, saved, up, stream, refill, pages, switch, ghosts>>

\* A failed request, a bad row, the page ceiling.
BackfillFails ==
  /\ up /\ phase["backfill"] # "wait"
  /\ phase' = Done("backfill")
  /\ hand' = [hand EXCEPT !["backfill"] = NoPage]
  /\ refill' = NoCursor
  /\ UNCHANGED <<source, ledger, saved, up, stream, pages, switch, ghosts, events>>

----------------------------------------------------------------------------
\* The administrator's requests.

\* POST pause and resume.
SetPause(b) ==
  /\ up /\ dbPaused # b
  /\ IF b THEN Happens ELSE UNCHANGED events
  /\ paused' = b /\ dbPaused' = b
  /\ UNCHANGED <<source, ledger, cursor, query, up, reader, tolerant, patch, ghosts>>

\* POST skip-bad-rows
AllowBadRowsOnce ==
  /\ up /\ shown \cap BadRows # {} /\ Happens
  /\ tolerant' = TRUE /\ grants' = grants + 1
  /\ UNCHANGED <<source, ledger, saved, up, reader, paused, patch, refilled, lax>>

\* PATCH reads the pause first; the options, and a new worker, come after it
\* has waited for the store and the audit log.
PatchReads ==
  /\ up /\ patch = "none" /\ Happens
  /\ patch' = IF dbPaused THEN "paused" ELSE "running"
  /\ UNCHANGED <<source, ledger, saved, up, reader, paused, tolerant, ghosts>>

NewWorker ==
  /\ tolerant' = FALSE
  /\ phase' = Done("live")
  /\ hand' = [hand EXCEPT !["live"] = NoPage]

PatchApplies ==
  /\ up /\ patch # "none" /\ patch' = "none"
  /\ \E q \in {1, 2} : query' = q
  /\ NewWorker /\ paused' = (patch = "paused")
  /\ UNCHANGED <<source, ledger, cursor, dbPaused, up, stream, refill, pages, ghosts,
                 events>>

\* POST cursor/confirm: only for a paused source whose saved cursor is another
\* query's, or a v2.0.0 one.
Confirmable(c) == Fingerprinted /\ c.kind # "none" /\ ~(c.kind = "v2" /\ c.query = query)
ConfirmedCursor(from) ==
  [NoCursor EXCEPT !.kind = "v2", !.query = query, !.from = Back(from), !.end = from]

Confirm(from) ==
  /\ up /\ dbPaused /\ Confirmable(cursor["alerts"]) /\ from <= clock /\ Happens
  /\ cursor' = [cursor EXCEPT !["alerts"] = ConfirmedCursor(from)]
  /\ UNCHANGED <<source, ledger, dbPaused, query, up, reader, switch, ghosts>>

\* POST backfill: only for a paused source and an interval that is over.
Backfill(s, from, to) ==
  /\ up /\ dbPaused /\ phase["backfill"] = "wait"
  /\ s \in StreamsOf /\ from < to /\ to <= clock /\ <<from, to>> \in Intervals /\ Happens
  /\ refill' = BackfillCursor(from, to) /\ pages' = 0
  /\ phase' = [phase EXCEPT !["backfill"] = "fetch"]
  /\ stream' = [stream EXCEPT !["backfill"] = s]
  /\ UNCHANGED <<source, ledger, saved, up, hand, switch, ghosts>>

----------------------------------------------------------------------------
\* Supervisor.stop, or a crash, and Supervisor.add at the next start.

Quiet ==
  /\ phase' = [w \in Readers |-> "wait"] /\ hand' = [w \in Readers |-> NoPage]
  /\ stream' = [w \in Readers |-> "alerts"]
  /\ refill' = NoCursor /\ pages' = 0

Stop ==
  /\ up /\ Happens
  /\ up' = FALSE /\ Quiet /\ tolerant' = FALSE /\ patch' = "none"
  /\ UNCHANGED <<source, ledger, saved, paused, ghosts>>

Begin ==
  /\ ~up /\ up' = TRUE /\ paused' = dbPaused
  /\ UNCHANGED <<source, ledger, saved, reader, tolerant, patch, ghosts, events>>

\* A new connection, or one v2.0.0 polled up to a time: drained, or stopped in
\* mid-window at the time of the last row it kept.
OldCursor(at, more) ==
  [NoCursor EXCEPT !.kind = "v1", !.query = 1, !.from = at, !.start = IF more THEN at ELSE 0,
                   !.end = IF more THEN FirstClock ELSE at, !.more = more]

Init ==
  /\ provider \in Providers /\ clock = FirstClock
  /\ shown = {r \in Rows : At[r] < FirstClock} /\ tardy = {}
  /\ \/ kept = {} /\ cursor = [s \in Streams |-> NoCursor]
     \/ /\ Fingerprinted
        /\ \E at \in 1..FirstClock, more \in BOOLEAN :
             /\ kept = {r \in shown \ (BadRows \cup Extra) : At[r] < at}
             /\ cursor = [s \in Streams |-> OldCursor(at, more)]
  /\ held = [e \in Records |->
               IF \E r \in kept : RecordOf[r] = e
                 THEN CHOOSE r \in kept : RecordOf[r] = e
                                         /\ \A q \in kept : RecordOf[q] = e => q <= r
                 ELSE 0]
  /\ aside = {} /\ dbPaused \in BOOLEAN /\ query = 1 /\ up = TRUE
  /\ phase = [w \in Readers |-> "wait"] /\ hand = [w \in Readers |-> NoPage]
  /\ stream = [w \in Readers |-> "alerts"] /\ refill = NoCursor /\ pages = 0
  /\ paused = dbPaused /\ tolerant = FALSE /\ patch = "none"
  /\ refilled = {} /\ grants = 0 /\ lax = 0
  /\ events = 0

Live == (\E s \in Streams : LiveFetch(s)) \/ SetAside("live") \/ LiveCommit
Refilling == BackfillFetch \/ SetAside("backfill") \/ BackfillCommit

Next ==
  \/ \E r \in Rows : Show(r)
  \/ Tick
  \/ Live \/ LiveFails
  \/ Refilling \/ BackfillFails
  \/ \E b \in BOOLEAN : SetPause(b)
  \/ AllowBadRowsOnce
  \/ PatchReads \/ PatchApplies
  \/ \E from \in 0..clock : Confirm(from)
  \/ \E s \in Streams, from, to \in 0..clock : Backfill(s, from, to)
  \/ Stop \/ Begin

Spec == Init /\ [][Next]_vars

\* The worker's task keeps polling, time passes, the program is started again.
FairSpec == Spec /\ WF_vars(Live) /\ WF_vars(Tick) /\ WF_vars(Begin)

----------------------------------------------------------------------------
\* Properties.

CursorSet ==
  [kind : {"none", "v1", "v2", "backfill"}, query : {0, 1, 2}, from : Nat, start : Nat,
   end : Nat, more : BOOLEAN, seek : Rows \cup {0}, job : {"none", "running", "done"},
   rows : SUBSET Rows, offset : Nat]

\* Every variable has its type.
TypeOK ==
  /\ provider \in Providers /\ clock \in Nat
  /\ shown \subseteq Rows /\ tardy \subseteq shown
  /\ kept \subseteq Rows /\ aside \subseteq Rows
  /\ held \in [Records -> Rows \cup {0}]
  /\ cursor \in [Streams -> {c \in CursorSet : c.kind # "backfill"}]
  /\ dbPaused \in BOOLEAN /\ query \in {1, 2} /\ up \in BOOLEAN
  /\ phase \in [Readers -> {"wait", "fetch", "commit"}]
  /\ stream \in [Readers -> Streams]
  /\ hand \in [Readers -> [rows : SUBSET Rows, bad : SUBSET Rows, next : CursorSet,
                           complete : BOOLEAN, strict : BOOLEAN]]
  /\ refill \in CursorSet /\ pages \in Nat
  /\ paused \in BOOLEAN /\ tolerant \in BOOLEAN
  /\ patch \in {"none", "paused", "running"}
  /\ refilled \subseteq Records /\ grants \in Nat /\ lax \in Nat
  /\ events \in Nat

\* What the fetches from a cursor on will still meet.
Unread(c, r) ==
  /\ c.more /\ At[r] >= c.start
  /\ CASE provider = "sentinel" -> r > c.seek
       [] provider = "splunk" ->
            c.job = "none" \/ (r \in c.rows /\ Rank(c.rows, r) >= c.offset)
       [] provider = "graph" -> r \notin c.rows
       [] provider = "elastic" -> TRUE
Ahead(c, r) ==
  IF provider = "elastic" THEN At[r] >= c.start
  ELSE \/ At[r] >= Back(IF c.kind = "v1" /\ c.more THEN c.start ELSE c.end)
       \/ Unread(c, r)

Owed(s, c) == {r \in Latest(Readable(s, IF c.kind = "v1" THEN query ELSE c.query)) :
                 At[r] >= c.from /\ (c.kind = "v1" => c.query = query)}
Passed(s) == {r \in Owed(s, cursor[s]) \ (kept \cup aside) : ~Ahead(cursor[s], r)}
Ties(r) == Cardinality({q \in Rows : At[q] = At[r]})
Loose(r) == provider = "elastic" /\ (r \in tardy \/ Ties(r) > Limit)

\* A cursor never moves past a row: whatever the source showed since the time
\* the cursor answers for is in the ledger, set aside, or still ahead of it,
\* through crashes, lost jobs, late rows, pauses, backfills and changes of the
\* query.  Elastic's has no overlap after a full page and steps over a
\* timestamp that fills a page: its rows are promised less.
NothingPassed ==
  \A s \in StreamsOf : cursor[s].kind # "none" =>
    \A r \in Passed(s) : Loose(r)

\* No row a full page of one timestamp could not hold is lost
\* (docs/v2/source-contracts.md on full pages).
CapNeverDrops ==
  \A s \in StreamsOf : cursor[s].kind # "none" => Passed(s) \subseteq tardy

\* Overlapping windows, retries and restarts never bring an older version of a
\* record back as its newest revision; only a backfill of the past can.
NewestKept ==
  \A q \in kept : held[RecordOf[q]] < q => ~Changes \/ RecordOf[q] \in refilled

\* Each decision to tolerate bad rows covers one window: no more windows drain
\* without the strict check than were allowed, and no Splunk row is set aside
\* before one was.
OneWindowPerDecision ==
  /\ lax <= grants
  /\ provider = "splunk" /\ grants = 0 => aside = {}

\* Nothing stands in the worker's way.
Clear ==
  /\ up /\ ~paused /\ \A s \in StreamsOf : ~Refused(cursor[s])
  /\ provider \in {"graph", "elastic"} \/ shown \cap BadRows = {}
AllKept ==
  \A s \in StreamsOf : /\ cursor[s].kind = "v2"
                       /\ \A r \in Owed(s, cursor[s]) \ (kept \cup aside) :
                            IF provider = "elastic" THEN Loose(r) ELSE At[r] >= MaxClock

\* Once nothing stands in its way the worker brings in every row it owes,
\* whatever was lost or interrupted before.
EveryRowKept == <>[]Clear => <>[]AllKept
=============================================================================
