-------------------------------- MODULE Poller --------------------------------
(***************************************************************************)
(* The v1 poller of one Elastic cluster, which managed installations still *)
(* run: ElasticConnector.poll and fetch_batch (src/engine/connectors/      *)
(* elastic.py), Pipeline.run_poll (src/engine/pipeline.py), the cursor in  *)
(* state.json (src/engine/settings.py) and EngineRunner._poll              *)
(* (src/engine/server.py), which keeps what it reads in memory only.       *)
(***************************************************************************)
EXTENDS Naturals, FiniteSets

CONSTANTS
  Hits,       \* alerts, numbered in the order of their times
  FiledAt,    \* FiledAt[h]: the @timestamp of an alert
  PageSize,   \* _page_size
  Span,       \* correlation.window_minutes
  Slack,      \* correlation.watermark_grace_seconds
  Retention,  \* correlation.entity_retention_minutes
  LastTime,   \* bound: the time
  MaxFaults   \* bound: failed pages and stops

ASSUME PollerAssumption ==
  /\ IsFiniteSet(Hits) /\ FiledAt \in [Hits -> Nat] /\ PageSize \in Nat \ {0}
  /\ Span \in Nat /\ Slack \in Nat /\ Retention \in Nat

VARIABLES
  now,
  filed,      \* alerts a search finds
  belated,    \* of these, the ones it did not find at their time (a ghost)
  running,    \* the poller's task runs
  cycle,      \* "wait" or "page"
  position,   \* cursor of poll
  until,      \* the end of the cycle's range
  seek,       \* cursor_ms of fetch_batch
  boundary,   \* boundary_ids
  fetched,    \* the cycle has fetched something
  saved,      \* poll_cursor_ms, 0 for none
  resumed,    \* the cursor this run resumed from, 0 for none (a ghost)
  held,       \* alerts in the correlator
  waiting,    \* of these, the buffered ones
  everRead,   \* alerts any run has read (a ghost)
  promised,   \* the time from which alerts are to be read (a ghost)
  torn,       \* alerts left out by a failed page (a ghost)
  faults      \* what MaxFaults counts

elastic == <<now, filed, belated>>
paging  == <<cycle, position, until, seek, boundary, fetched>>
memory  == <<held, waiting>>
pollerVars == <<elastic, running, paging, saved, resumed, memory, everRead, promised, torn,
                faults>>

Fault == faults < MaxFaults /\ faults' = faults + 1
NewestTime(S) == CHOOSE t \in {FiledAt[h] : h \in S} : \A h \in S : FiledAt[h] <= t

File(h) ==
  /\ h \in Hits \ filed /\ FiledAt[h] <= now
  /\ filed' = filed \cup {h}
  /\ belated' = IF FiledAt[h] < now THEN belated \cup {h} ELSE belated
  /\ UNCHANGED <<now, running, paging, saved, resumed, memory, everRead, promised, torn, faults>>

Tick ==
  /\ now < LastTime /\ now' = now + 1
  /\ UNCHANGED <<filed, belated, running, paging, saved, resumed, memory, everRead, promised,
                 torn, faults>>

----------------------------------------------------------------------------
\* poll: a cycle reads from its position up to now, exclusive.

BeginCycle ==
  /\ running /\ cycle = "wait"
  /\ cycle' = "page" /\ until' = now /\ seek' = position /\ boundary' = {} /\ fetched' = FALSE
  /\ UNCHANGED <<elastic, running, position, saved, resumed, memory, everRead, promised, torn,
                 faults>>

\* fetch_batch: pages overlap at their last timestamp, less what was seen of it.
Remaining == {h \in filed \ boundary : seek <= FiledAt[h] /\ FiledAt[h] < until}
IsPage(p) ==
  /\ p \subseteq Remaining
  /\ Cardinality(p) = IF Cardinality(Remaining) < PageSize THEN Cardinality(Remaining) ELSE PageSize
  /\ \A g \in p, h \in Remaining \ p : FiledAt[g] <= FiledAt[h]

SeekBeyond(t) == t + 1
SeekFrom(t) == t
Past(t) == IF t + 1 > position THEN t + 1 ELSE position

\* Pipeline.process: the correlator takes an alert once.
Take(p) ==
  /\ held' = held \cup p /\ waiting' = waiting \cup (p \ held)
  /\ everRead' = everRead \cup p

\* on_cursor, after a cycle that fetched something, failed or not.
SaveCursor(at, some) == saved' = IF some THEN at ELSE saved

ReadPage ==
  /\ running /\ cycle = "page"
  /\ \E p \in SUBSET filed :
       /\ IsPage(p) /\ Take(p)
       /\ IF p = {}
            THEN /\ cycle' = "wait" /\ SaveCursor(position, fetched)
                 /\ UNCHANGED <<position, seek, boundary, fetched>>
            ELSE LET last == NewestTime(p)  same == {h \in p : FiledAt[h] = last}
                 IN /\ position' = Past(last) /\ fetched' = TRUE
                    /\ seek' = SeekFrom(last)
                    /\ boundary' = IF last = seek THEN boundary \cup same ELSE same
                    /\ IF Cardinality(p) < PageSize
                         THEN cycle' = "wait" /\ SaveCursor(Past(last), TRUE)
                         ELSE UNCHANGED <<cycle, saved>>
  /\ UNCHANGED <<elastic, running, until, resumed, promised, torn, faults>>

\* The search fails: the next cycle goes on from the position, past the rest
\* of a timestamp that a page had begun.
PageFails ==
  /\ running /\ cycle = "page" /\ Fault
  /\ cycle' = "wait" /\ SaveCursor(position, fetched)
  /\ torn' = torn \cup {h \in filed \ held : FiledAt[h] < position}
  /\ UNCHANGED <<elastic, running, position, until, seek, boundary, fetched, resumed, memory,
                 everRead, promised>>

----------------------------------------------------------------------------
\* run_poll's ticker: evaluate, then drop the chains that ended long ago.  All
\* alerts are of one entity: neighbours within Span are one chain.

Near(g, h) == FiledAt[g] <= FiledAt[h] + Span /\ FiledAt[h] <= FiledAt[g] + Span
Linked(S, h) ==
  {g \in S : \A T \in SUBSET S :
     h \in T /\ (\A x \in T, y \in S : Near(x, y) => y \in T) => g \in T}
Doomed(S, t) == {h \in S : \A g \in Linked(S, h) : FiledAt[g] + Slack + Retention < t}

Prune ==
  /\ running /\ held # {}
  /\ waiting' = {h \in waiting : FiledAt[h] + Slack > NewestTime(held)}
  /\ held' = held \ Doomed(held \ waiting', NewestTime(held))
  /\ memory' # memory
  /\ UNCHANGED <<elastic, running, paging, saved, resumed, everRead, promised, torn, faults>>

----------------------------------------------------------------------------
\* EngineRunner.stop, or a crash; _poll resumes behind the saved cursor.

StopPolling ==
  /\ running /\ Fault
  /\ running' = FALSE /\ cycle' = "wait" /\ held' = {} /\ waiting' = {}
  /\ UNCHANGED <<elastic, position, until, seek, boundary, fetched, saved, resumed, everRead,
                 promised, torn>>

LookbackNone == 0
Lookback == Span + Slack
Resume == IF saved > Lookback THEN saved - Lookback ELSE 0

StartPolling ==
  /\ ~running /\ running' = TRUE
  /\ position' = IF saved = 0 THEN now ELSE Resume
  /\ promised' = IF saved = 0 THEN now ELSE promised
  /\ resumed' = saved
  /\ torn' = torn \ {h \in torn : saved # 0 /\ FiledAt[h] >= Resume}
  /\ UNCHANGED <<elastic, cycle, until, seek, boundary, fetched, saved, memory, everRead, faults>>

PollerInit ==
  /\ now = 1 /\ filed = {} /\ belated = {} /\ running = FALSE
  /\ cycle = "wait" /\ position = 0 /\ until = 0 /\ seek = 0 /\ boundary = {}
  /\ fetched = FALSE
  /\ saved = 0 /\ resumed = 0 /\ held = {} /\ waiting = {}
  /\ everRead = {} /\ promised = 0 /\ torn = {} /\ faults = 0

PollerNext ==
  \/ \E h \in Hits : File(h)
  \/ Tick \/ BeginCycle \/ ReadPage \/ PageFails \/ Prune \/ StopPolling \/ StartPolling

PollerSpec == PollerInit /\ [][PollerNext]_pollerVars

----------------------------------------------------------------------------
\* Properties.

InTime == filed \ (belated \cup torn)
MidPage(h) == cycle = "page" /\ FiledAt[h] >= seek

\* Polling skips nothing: what was there in time, from the first start on, has
\* been read once the position is past it, over pages, ties, failed cycles and
\* restarts.  A failed page gives up the rest of its last timestamp, and a
\* poller that never fetched anything starts afresh.
PollSkipsNothing ==
  running => \A h \in InTime :
    promised <= FiledAt[h] /\ FiledAt[h] < position => h \in everRead \/ MidPage(h)

\* A chain is rebuilt after a restart: when a new alert is read, every alert
\* near enough to be linked to it is in memory again, and none of them is
\* dropped too early.
NeighboursHeld ==
  running /\ resumed # 0 => \A g \in held, h \in InTime :
    /\ FiledAt[g] >= resumed /\ FiledAt[h] >= promised
    /\ FiledAt[h] <= FiledAt[g] /\ Near(g, h)
    /\ NewestTime(held) <= FiledAt[g] + Retention
    => h \in held \/ MidPage(h)
=============================================================================
