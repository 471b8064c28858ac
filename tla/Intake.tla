------------------------------- MODULE Intake -------------------------------
(***************************************************************************)
(* Durable intake: a source page becomes rows of the ledger and, in the    *)
(* same transaction, work items; a consumer claims the items, feeds them   *)
(* to the in-memory pipeline and acknowledges them (src/engine/store/      *)
(* ledger.py and workqueue.py, src/engine/pipeline.py, and the work loop,  *)
(* start and retention of src/engine/runtime.py).                          *)
(*                                                                         *)
(* A transaction is one step.  The pipeline runs between two awaits, so    *)
(* handing it an item is one step too; the acknowledgement is another, and *)
(* commits, the purge or a stop may come between them.  Rows survive a     *)
(* stop, the pipeline does not: a start replays recent alerts into it.     *)
(***************************************************************************)
EXTENDS Naturals, FiniteSets

CONSTANTS
  Events,        \* canonical event ids
  Alerts,        \* those whose record kind is a detection
  Aliases,       \* provider alert ids two APIs may share
  AliasOf,       \* AliasOf[e]: aliases of the first record of e
  MaxRevision,   \* bound: payload changes of one event
  MaxAttempts,   \* MAX_ATTEMPTS of the work queue
  MaxFailures,   \* bound: transient errors of the pipeline or the store
  MaxStops,      \* bound: stops or crashes
  NoEvent, NoItem

Items == Events \X (1..MaxRevision)

ASSUME IntakeAssumption ==
  /\ Alerts \subseteq Events
  /\ AliasOf \in [Events -> SUBSET Aliases]
  /\ MaxRevision \in Nat /\ MaxAttempts \in Nat \ {0}
  /\ MaxFailures \in Nat /\ MaxStops \in Nat
  /\ NoEvent \notin Events /\ NoItem \notin Items

VARIABLES
  revision,     \* source_events.revision (0: no such row)
  duplicateOf,  \* source_events.duplicate_of
  holder,       \* source_aliases: the event that registered the alias
  latestKept,   \* events whose row has raw_enc
  snapshots,    \* revisions whose encrypted_payload is stored
  noise,        \* revisions whose payload the prefilter suppresses
  work,         \* ingest_work_items.state ("none": no such row)
  attempts,     \* ingest_work_items.attempts
  flagged,      \* revisions with a review flag
  recent,       \* events observed within entity_retention_minutes
  lapsed,       \* revisions older than raw_retention_days

  up,           \* the runtime is started
  batch,        \* items _process_batch holds
  handled,      \* the item the pipeline took and that is not acknowledged yet
  seen,         \* Pipeline._seen_events
  applied,      \* revision of the event the correlator holds (0: none)
  troubled,     \* events one of whose items failed at some time
  failures, stops

ledger   == <<revision, duplicateOf, holder, noise>>
payloads == <<latestKept, snapshots>>
clock    == <<recent, lapsed>>
queue    == <<work, attempts>>
consumer == <<batch, handled>>
pipeline == <<seen, applied>>
history  == <<troubled, failures>>
vars == <<ledger, payloads, clock, queue, flagged, up, consumer, pipeline, history,
          stops>>

----------------------------------------------------------------------------
\* The ledger.

WorkStates ==
  {"none", "pending", "claimed", "failed_retryable", "quarantined", "processed"}

\* What the purge and the statistics call unresolved.
UnresolvedPending == {"pending", "claimed"}
Unresolved == {"pending", "claimed", "failed_retryable"}

Open(e) == \E r \in 1..MaxRevision : work[<<e, r>>] \in Unresolved

\* Earlier holders of the aliases of a new event.
Holders(e) == {holder[id] : id \in AliasOf[e]} \ {NoEvent, e}

\* _claim_aliases: what nobody holds is registered, the rest names the holder.
RegisteredNever(e) == holder
Registered(e) ==
  [id \in Aliases |-> IF id \in AliasOf[e] /\ holder[id] = NoEvent THEN e ELSE holder[id]]

\* commit_page of one record whose payload is new: the row, its snapshot and,
\* for an alert that is no duplicate, the work item, in one transaction.
Commit(e, suppressed) ==
  LET r == revision[e] + 1 IN
  /\ up /\ r <= MaxRevision
  /\ IF r = 1
       THEN /\ duplicateOf' \in
                 {[duplicateOf EXCEPT ![e] = f] :
                    f \in IF Holders(e) = {} THEN {NoEvent} ELSE Holders(e)}
            /\ holder' = Registered(e)
       ELSE UNCHANGED <<duplicateOf, holder>>
  /\ revision' = [revision EXCEPT ![e] = r]
  /\ noise' = IF suppressed THEN noise \cup {<<e, r>>} ELSE noise
  /\ latestKept' = latestKept \cup {e} /\ snapshots' = snapshots \cup {<<e, r>>}
  /\ recent' = recent \cup {e}
  /\ work' = IF e \in Alerts /\ duplicateOf'[e] = NoEvent
               THEN [work EXCEPT ![<<e, r>>] = "pending"] ELSE work
  /\ UNCHANGED <<lapsed, attempts, flagged, up, consumer, pipeline, history, stops>>

\* purge_raw_older_than
Purge ==
  /\ up
  /\ latestKept' = {e \in latestKept : <<e, revision[e]>> \notin lapsed \/ Open(e)}
  /\ snapshots' = {i \in snapshots : i \notin lapsed \/ Open(i[1])}
  /\ UNCHANGED <<ledger, clock, queue, flagged, up, consumer, pipeline, history, stops>>

\* Time passes: an event leaves the replay window, a revision the retention.
LeaveWindow(e) ==
  /\ e \in recent
  /\ recent' = recent \ {e}
  /\ UNCHANGED <<ledger, payloads, lapsed, queue, flagged, up, consumer, pipeline,
                 history, stops>>

Lapse(e, r) ==
  /\ r <= revision[e] /\ <<e, r>> \notin lapsed
  /\ r > 1 => <<e, r - 1>> \in lapsed
  /\ lapsed' = lapsed \cup {<<e, r>>}
  /\ UNCHANGED <<ledger, payloads, recent, queue, flagged, up, consumer, pipeline,
                 history, stops>>

----------------------------------------------------------------------------
\* The consumer.

\* Backoff and lease are times; whether they have run out is left open.  While
\* a batch is in hand nothing else claims (_work_lock).
Waiting == {i \in Items : work[i] = "pending"}
ReclaimableFailed == {i \in Items : work[i] = "failed_retryable"}
Reclaimable == {i \in Items : work[i] \in {"failed_retryable", "claimed"}}

Claim ==
  /\ up /\ batch = {}
  /\ \E again \in SUBSET Reclaimable :
       /\ batch' = Waiting \cup again /\ batch' # {}
       /\ work' = [i \in Items |-> IF i \in batch' THEN "claimed" ELSE work[i]]
       /\ attempts' = [i \in Items |-> attempts[i] + IF i \in batch' THEN 1 ELSE 0]
  /\ UNCHANGED <<ledger, payloads, clock, flagged, up, handled, pipeline, history, stops>>

\* Items come in the order they were created in.
TurnNewest(i) == i \in batch /\ \A j \in batch : j[1] = i[1] => j[2] <= i[2]
Turn(i) == i \in batch /\ \A j \in batch : j[1] = i[1] => i[2] <= j[2]

\* revise of an event process never took.
NotSeenNever(i) == FALSE
NotSeen(i) == i[2] > 1 /\ i[1] \notin seen

\* Pipeline.process of the first payload; add() ignores an alert it holds.
Process(e) ==
  /\ seen' = seen \cup {e}
  /\ applied' = IF e \notin seen /\ <<e, 1>> \notin noise /\ applied[e] = 0
                  THEN [applied EXCEPT ![e] = 1] ELSE applied
  /\ UNCHANGED flagged

\* Pipeline.revise and what the runtime makes of its outcome: the correlator
\* takes the payload, or asks for a person, or never had the alert.
Revise(e, r) ==
  /\ UNCHANGED seen
  /\ IF applied[e] = 0
       THEN UNCHANGED <<applied, flagged>>
       ELSE \/ applied' = [applied EXCEPT ![e] = r] /\ UNCHANGED flagged
            \/ flagged' = flagged \cup {<<e, r>>} /\ UNCHANGED applied

Handle(i) ==
  /\ up /\ handled = NoItem /\ Turn(i)
  /\ i \in snapshots /\ ~NotSeen(i)
  /\ IF i[2] = 1 THEN Process(i[1]) ELSE Revise(i[1], i[2])
  /\ handled' = i
  /\ UNCHANGED <<ledger, payloads, clock, queue, up, batch, history, stops>>

AckAndHold ==
  /\ up /\ handled # NoItem
  /\ work' = [work EXCEPT ![handled] = "processed"]
  /\ handled' = NoItem
  /\ UNCHANGED <<ledger, payloads, clock, attempts, flagged, up, batch, pipeline,
                 history, stops>>
Ack ==
  /\ up /\ handled # NoItem
  /\ work' = [work EXCEPT ![handled] = "processed"]
  /\ batch' = batch \ {handled} /\ handled' = NoItem
  /\ UNCHANGED <<ledger, payloads, clock, attempts, flagged, up, pipeline, history,
                 stops>>

\* The store refuses the acknowledgement: the cycle ends, its items stay
\* claimed until their lease runs out.
AckFails ==
  /\ up /\ handled # NoItem /\ failures < MaxFailures
  /\ failures' = failures + 1
  /\ troubled' = troubled \cup {i[1] : i \in batch}
  /\ batch' = {} /\ handled' = NoItem
  /\ UNCHANGED <<ledger, payloads, clock, queue, flagged, up, pipeline, stops>>

\* open_item or the pipeline raises: fail() with backoff or quarantine.
Fail(i) ==
  /\ up /\ handled = NoItem /\ Turn(i)
  /\ IF i \notin snapshots \/ NotSeen(i)
       THEN UNCHANGED failures
       ELSE failures < MaxFailures /\ failures' = failures + 1
  /\ troubled' = troubled \cup {i[1]}
  /\ work' = [work EXCEPT ![i] = IF attempts[i] >= MaxAttempts THEN "quarantined"
                                 ELSE "failed_retryable"]
  /\ batch' = batch \ {i}
  /\ UNCHANGED <<ledger, payloads, clock, attempts, flagged, up, handled, pipeline, stops>>

----------------------------------------------------------------------------
\* The process.

Stop ==
  /\ up /\ stops < MaxStops
  /\ up' = FALSE /\ stops' = stops + 1
  /\ batch' = {} /\ handled' = NoItem
  /\ seen' = {}
  /\ applied' = [e \in Events |-> 0]
  /\ UNCHANGED <<ledger, payloads, clock, queue, flagged, history>>

\* replayable_detections
Replayable ==
  {e \in Alerts : revision[e] > 0 /\ duplicateOf[e] = NoEvent
                  /\ e \in latestKept /\ e \in recent}

\* _rehydrate feeds the latest payloads to process, then recover_claimed.
Start ==
  /\ ~up /\ up' = TRUE
  /\ seen' = Replayable
  /\ applied' = [e \in Events |->
                   IF e \in Replayable /\ <<e, revision[e]>> \notin noise
                     THEN revision[e] ELSE 0]
  /\ work' = [i \in Items |-> IF work[i] = "claimed" THEN "pending" ELSE work[i]]
  /\ UNCHANGED <<ledger, payloads, clock, attempts, flagged, consumer, history, stops>>

----------------------------------------------------------------------------
\* An empty store, before the first start.
Init ==
  /\ revision = [e \in Events |-> 0]
  /\ duplicateOf = [e \in Events |-> NoEvent]
  /\ holder = [id \in Aliases |-> NoEvent]
  /\ latestKept = {} /\ snapshots = {} /\ noise = {} /\ flagged = {}
  /\ work = [i \in Items |-> "none"] /\ attempts = [i \in Items |-> 0]
  /\ recent = {} /\ lapsed = {}
  /\ up = FALSE /\ batch = {} /\ handled = NoItem
  /\ seen = {}
  /\ applied = [e \in Events |-> 0]
  /\ troubled = {} /\ failures = 0 /\ stops = 0

Source   == \E e \in Events, suppressed \in BOOLEAN : Commit(e, suppressed)
Time     == \E e \in Events : LeaveWindow(e) \/ \E r \in 1..MaxRevision : Lapse(e, r)
Work     == Claim \/ (\E i \in Items : Handle(i) \/ Fail(i)) \/ Ack \/ AckFails

Next == Source \/ Time \/ Purge \/ Work \/ Stop \/ Start

Spec == Init /\ [][Next]_vars

\* The work loop is a task that wakes every WORK_IDLE_SECONDS, an item in hand
\* ends in an acknowledgement or a failure, and a stopped service is started.
FairSpec == Spec /\ WF_vars(Work) /\ WF_vars(Start)

----------------------------------------------------------------------------
\* Properties.

LedgerTyped ==
  /\ revision \in [Events -> 0..MaxRevision]
  /\ duplicateOf \in [Events -> Events \cup {NoEvent}]
  /\ holder \in [Aliases -> Events \cup {NoEvent}]
  /\ latestKept \subseteq Events /\ recent \subseteq Events
  /\ snapshots \subseteq Items /\ noise \subseteq Items
  /\ lapsed \subseteq Items /\ flagged \subseteq Items
  /\ work \in [Items -> WorkStates] /\ attempts \in [Items -> Nat]

ProcessTyped ==
  /\ up \in BOOLEAN
  /\ batch \subseteq Items /\ \A i \in batch : work[i] = "claimed"
  /\ ~up => batch = {}
  /\ handled \in batch \cup {NoItem}
  /\ seen \subseteq Events
  /\ applied \in [Events -> 0..MaxRevision]
  /\ troubled \subseteq Events /\ failures \in 0..MaxFailures /\ stops \in 0..MaxStops

\* Rows and process state are of their kinds, and what the consumer holds is
\* claimed (ingest_work_items, _process_batch).
TypeOK == LedgerTyped /\ ProcessTyped

\* Of the events that share a provider alert id the correlator holds at most
\* one, whatever order they arrive in and whatever is replayed, and what is
\* kept out as a duplicate shares an id with a stored event.
CountsOnce ==
  /\ \A e, f \in Events :
       e # f /\ applied[e] # 0 /\ applied[f] # 0 => AliasOf[e] \cap AliasOf[f] = {}
  /\ \A e \in Events : LET f == duplicateOf[e] IN
       f # NoEvent => f # e /\ revision[f] > 0 /\ AliasOf[e] \cap AliasOf[f] # {}

\* Retention never drops a payload that unresolved work still needs.
WorkKeepsPayload ==
  \A i \in Items : work[i] \in Unresolved => i \in snapshots

\* An alert whose work is done and that a start would replay is known to the
\* running pipeline: no acknowledgement covers an alert nobody took in.
NothingLost ==
  \A e \in Replayable :
    up /\ (\A r \in 1..revision[e] : work[<<e, r>>] = "processed") => e \in seen

\* When the work of an alert is done, and none of it ever failed, the
\* correlator holds its latest revision, unless a person was asked about that.
DrainedIsLatest ==
  \A e \in Events \ troubled :
    /\ up /\ applied[e] # 0 /\ <<e, revision[e]>> \notin flagged
    /\ \A r \in 1..revision[e] : work[<<e, r>>] = "processed"
    => applied[e] = revision[e]

\* "versions are always applied in order": while the process runs the
\* correlator never goes back to an older payload.
RevisionsInOrder ==
  [][\A e \in Events : up /\ up' => applied'[e] >= applied[e]]_vars

\* A revision that is put off as not seen has an original that is still
\* waiting in the queue.
WaitsForOriginal ==
  [][\A i \in Items :
       i \in batch /\ NotSeen(i) /\ work'[i] \in {"failed_retryable", "quarantined"}
         => work[<<i[1], 1>>] \in Unresolved]_vars

\* Every item is processed or quarantined in the end, over stops, lost
\* acknowledgements and lapsed leases.
WorkSettles ==
  \A i \in Items :
    (work[i] \in Unresolved) ~> (work[i] \in {"processed", "quarantined"})

=============================================================================
