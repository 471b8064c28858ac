# LogLookup.AI: specification, model checking and proofs

TLA+ specifications of the engine under `src/engine`: what its components do,
checked with TLC on small instances and, where it matters most, proved with
TLAPS for every size. Paths below are relative to `src/engine/` unless they
start with `docs/`.

LogLookup.AI polls security products for alerts, stores what it reads,
correlates alerts into investigations, scores them, lets a language model
explain them, and sends approved response actions to a remote workflow. It is
one asyncio process over one SQLite file: steps interleave wherever the code
awaits, every write goes through one lock (`store/database.py`), and the
process may stop between any two transactions.

## 1. Inventory

| Component | Code | State | Operations |
|---|---|---|---|
| Response channel | `response/*` | rows `response_actions`, `outbox`; the dispatcher's claim; status checks in flight | propose, approve, reject, cancel, reconcile, check run; claim, send, settle; recover |
| Durable intake | `store/ledger.py`, `store/workqueue.py`, `pipeline.py` | rows `source_events`, `source_aliases`, `source_event_revisions`, `ingest_work_items`; the pipeline's seen ids | commit a page, claim, process or revise, acknowledge, fail, replay, purge |
| Investigations | `store/investigations.py` | saved revisions, merges, review flags, id counters | sync a result, flag, resolve |
| Correlation | `correlate/engine.py`, `entities.py`, `cluster_id.py`, `chains.py` | chains by entity, buffered alerts, ids and anchors | add, revise, re-evaluate, build the result |
| Risk | `correlate/risk.py` | none | score a chain |
| Source workers | `connectors/supervisor.py`, `store/cursors.py` | one task per stream, backoff, pause flag, cursors | poll, commit, pause, resume, test, backfill |
| Connectors | `connectors/sentinel.py`, `splunk.py`, `elastic.py`, `defender_xdr.py`, `entra_id.py` | window and cursor of each stream | next page |
| Runtime | `runtime.py`, `app.py` | tasks, dirty flag, causes of a change | start, stop, evaluate, reconfigure |
| Audit log | `response/audit.py` | hash chain | append, verify |
| Tokens | `connectors/auth/*` | cached token per profile | get, refresh |
| Write transactions | `store/database.py` | one connection, one write lock | begin, statements, commit, roll back |
| Triage and write-back | `ai/*`, `connectors/writeback.py` | mirror of documents, fingerprints, results index | triage a chain, re-triage, write |
| One analysis | `ai/reasoner.py`, `payload.py`, `provider.py`, `validator.py`, `redact/redactor.py` | provider in use, tokens of the call | ask, read the answer back, switch the provider |
| Managed application | `app.py`, `settings.py`, `secure/store.py`, `api/setup.py` | `config.yaml`, `secrets.enc`, the engine that runs | save, switch the model, swap engines |
| v1 poller | `ingest.py`, `server.py`, `pipeline.py`, `connectors/elastic.py` | cursor in memory and in `state.json`, correlator | poll, evaluate, prune, stop, start |
| The rest | `normalize/`, `prefilter/`, `enrich/`, `config.py`, deployment | none, or files | conversions, forms, views |

How they interact. A source worker calls `Ledger.commit_page`, which stores the
records, the cursor and the work items in one transaction and then wakes the
work loop. The work loop hands items to the pipeline and the correlator. The
evaluation loop scores the chains and syncs them into the investigation store,
where a change becomes a new revision. An action names an investigation and the
revision it was proposed on; approval and dispatch read the investigation again.
Shared state is the database and the correlator; the callbacks are
`_on_accepted` (ledger to runtime) and the dispatcher's loop.

What is hard in it, and what makes each part correct:

- *Response channel.* People, dispatcher, status checks and a restart act on the
  same row; the network may lose the answer but not the request. Correct: one
  request per action at most, none for a withdrawn one, none without its
  approvals or on other evidence, one effect per idempotency key, and every
  queued action gets an outcome.
- *Durable intake.* The database survives a stop and the correlator does not; an
  acknowledgement may be lost; revisions queue behind each other; retention
  deletes payloads meanwhile. Correct: an alert counts once, nothing
  acknowledged is missing, the newest content wins, work ends.
- *Correlation and investigations.* Chains merge, alerts change their entities,
  revisions arrive while an evaluation is written, ids must survive merges and
  restarts, and the v1 poller, which shares the correlator, prunes it. Correct: a chain
  is what is connected, an id never names two chains, and what the analysts see
  catches up.
- *Source workers.* A poll in flight races with pause, backfill, a changed query
  and the cursor's commit; windows overlap, rows show late, search jobs vanish.
  Correct: no cursor passes a row, no older version comes back, one decision of an
  administrator covers one window, and every row comes in.
- *Write transactions.* A task may be cancelled at any await while its statement
  runs on; entries are appended in the transaction of their change or after it. Correct:
  the audit log tells nothing that was not committed, everything of a change in whose
  transaction it was written, and all that is reported as done; and a transaction is
  left open only where nothing could end it.
- *Triage.* The chain changes while the model is awaited; a cycle and an analyst
  meet on one chain. Correct: no analysis of other evidence passes for a current
  one, the index shows what the mirror does, every chain gets its document.
- *One analysis.* Names are parts of each other, of keys and of references; settings
  and evidence change while the model is awaited. Correct: a cloud model sees
  tokens, and its answer is read and checked in the words of the evidence it got.
- *Managed application.* Requests arrive while engines are swapped; a save is two
  files; a swap may fail half-way. Correct: what runs is what is saved unless the last
  swap failed, one engine at a time, no host that was entered with its key beside an
  older key.
- *v1 poller.* It keeps alerts in memory only. Correct: polling skips nothing, and
  after a restart the neighbours of a new alert are there again.

`PROJECT.json` lists every hazard at its line, with the property that covers it
or the reason why none does.

## 2. Modules

| Module | What it is |
|---|---|
| `ResponseChannel` | the response channel with the revisions and merges it depends on |
| `DeliveryOnce` | abstract: what the channel promises of each action |
| `MCResponseChannel` | instances for TLC |
| `ResponseChannelProofs` | theorems about `ResponseChannel`, and its refinement of `DeliveryOnce` |
| `Intake` | ledger, work queue, pipeline intake, replay and purge |
| `MCIntake` | instances for TLC |
| `IntakeProofs` | theorems about `Intake` |
| `SourceWorker` | one source connection: worker, windows and cursors of four paging styles, the administrator's requests |
| `MCSourceWorker`, `SourceWorkerProofs` | instances for TLC; theorems |
| `Entities` | entity resolution, operators on a record |
| `Chains` | correlation, ids, scores, revisions and the investigations kept of them; extends `Entities` |
| `MCChains`, `ChainsProofs` | six histories of three alerts for TLC; theorems |
| `Store`, `StoreProofs` | the write transaction and the audit log in it; theorems |
| `Triage` | triage, its mirror and the results index |
| `Reasoner` | one analysis: payload, tokens, answer, validation |
| `AnalysisProofs` | theorems about `Triage` and `Reasoner` |
| `Settings`, `SettingsProofs` | settings, secrets and the swap of engines; theorems |
| `Poller`, `PollerProofs` | the v1 poller; theorems |
| `MCEngine` | `Chains`, `Store`, `Triage`, `Reasoner`, `Settings` and `Poller` in one instance for TLC |

Definitions keep the names of the code where they can; `map` in `PROJECT.json`
gives the lines of each. Where a definition has a variant beside it (`KeyFree`
and `KeyFreeTooEarly`, `Turn` and `TurnNewest`, ...) the variant is a plausible
bug. It is not part of the specification; put in the place of the definition it
breaks the property `mutants` names, which shows that the property depends on
that line of code.

### ResponseChannel

A step is one transaction, one network call, or a start or stop.

| Action | Code |
|---|---|
| `Propose`, `Approve`, `ApproveExpires`, `Reject`, `Cancel` | `response/approvals.py` behind the routes of `api/router_v2.py` |
| `Resolve` | `response/reconcile.py` |
| `CheckLookup`, `CheckRecord` | `response/run_status.py`: the question to Azure and the write, with an await between them |
| `Claim`, `PolicyRefuses`, `Send`, `Settle` | `Dispatcher.run_once` of `response/dispatcher.py` |
| `SettleFails` | `_record_result` raising, which `_loop` only logs |
| `Start`, `RecoverRow`, `RecoveryDone`, `Stop` | `V2Runtime.start` and `stop`, `Dispatcher.recover` |
| `Revise`, `Merge` | `InvestigationStore.sync`, as far as the channel reads it |
| `TtlElapses` | the clock passing `expires_at` |

`state`, `proposal`, `approvals`, `outbox` and `order` are rows; `phase`,
`channel`, `current`, `verdict`, `todo`, `dropped` and `lookup` are lost with the
process. `dropped` are the actions a cycle that raised has let go of: the code keeps no
such list, the rows just say `dispatching`. `sends`, `runs`, `sentOn` and `misjudged` record what happened outside it.

Abstractions. The payload and its hash are a function of the workflow, and the
approvals needed are fixed per workflow. The time to live is a flag that may be
raised at any time. Remote status, downstream effect, transition history and
audit text are not kept. A status check that proves nothing changes nothing.
Routes answer 503 until the runtime has started (`Up`), and a stop closes the
database, so a check in flight dies with it. A write is conditional on the state
the transaction finds, so reads made before it need no step of their own; where
the code compares earlier (the revision in `Propose`), any earlier value may
arrive. The branches of `recover` for pairs of rows that contradict each other
are left out: `PairAgrees`, proved, says that no store written by this code has
one.

### Intake

| Action | Code |
|---|---|
| `Commit` | `Ledger.commit_page` of one record with a new payload: alias claim, row, snapshot, work item |
| `Claim`, `Ack`, `Fail` | `store/workqueue.py` |
| `Handle` with `Process`, `Revise` | `V2Runtime._process_batch`, `_apply_revision`, `Pipeline.process`, `Pipeline.revise` |
| `AckFails` | the store raising in `ack`: the cycle of `_work_loop` ends, its items stay claimed |
| `Purge`, `Lapse` | `purge_raw_older_than`, and the age it looks at |
| `Start`, `Stop`, `LeaveWindow` | `_rehydrate` and `recover_claimed`, `stop`, and the age `replayable_detections` looks at |

`seen` is `Pipeline._seen_events`; `applied[e]` is the revision whose content the
correlator holds, 0 when it holds none. `noise` says which payloads the prefilter
suppresses. `handled` is an item the pipeline has taken and that is not
acknowledged: the only await of the loop is there, so commits, a purge or a stop
may come between. `troubled` is history, not state of the program: the events
one of whose items failed.

Abstractions. A page is one record; one with a known payload changes nothing and
is a stutter. Backoff and lease are times: a failed or abandoned item may be
claimed again at any time, or later, but only while no batch is in hand, because
every caller holds `_work_lock` across a batch. A batch takes what waits (its limit of 100
exceeds any instance). `revise` has several ways to take a payload (buffered,
rescored, reclustered, unchanged); here they are one. The review flag is written
with the refusal it records. Failures are transient and bounded. A replay never
fails and is not cut at 20,000 rows; seen ids are not evicted. Which provider
ids a record carries is fixed by its first payload, as in the code, where later
revisions claim none. Only alerts carry any (Sentinel up to two, Defender one), so
the instance with shared ids has alerts only. When several events hold its ids the model lets any of
them be the original; the code takes the first in the order of the ids. Context
observations, links, `processed_observations` and evaluation are not kept. The
correlator forgets nothing here. It does where the v1 poller runs beside the intake
(`server.py:56,82`), whose cycle prunes; that is in `Chains`. What `NothingLost` and
`DrainedIsLatest` say of an alert is then to be read until its chain has been pruned.

### SourceWorker

A row is a number, its place in the provider's order. A connection reads by one of
four styles, chosen at the start: `sentinel` (the newest version of each alert in a
window, after the last key), `splunk` (a snapshot job, by offset), `graph` (a
`nextLink` that remembers what it served; two streams), `elastic` (from a time on).

| Action | Code |
|---|---|
| `LiveFetch`, `BackfillFetch` with `SentinelPage`, `SplunkPage`, `GraphPage`, `ElasticPage` | `ConnectionWorker._poll_once`, `Supervisor.backfill` of `connectors/supervisor.py` up to the page, and the connectors' `fetch_page` |
| `SetAside` | bad rows into `source_errors`, before the commit |
| `LiveCommit`, `BackfillCommit` | `commit_page` with or without the cursor, the tolerance reset, the next stream |
| `LiveFails`, `BackfillFails` | a poll or backfill that raises |
| `SetPause`, `AllowBadRowsOnce`, `PatchReads`, `PatchApplies`, `Confirm`, `Backfill` | the `/connections` routes of `api/router_v2.py` |
| `Stop`, `Begin` | `Supervisor.stop` or a crash, `Supervisor.add` |
| `Show`, `Tick` | the provider and the clock |

Fetching, setting aside and committing are steps of their own because the worker
awaits between them; pause, patch, backfill and stop fall in between. `PATCH`
reads the pause and applies it after awaits, so it is two steps. `Start`, `End`,
`More`, `Drained` are the cursor arithmetic of `connectors/_common.py` and
`store/cursors.py`, with the overlap `Back`; `Refused` is the fingerprint of the
query. `from` in a cursor, `tardy`, `refilled`, `grants` and `lax` are history.

Abstractions. A failed or slow request is a failed fetch; HTTP retries, backoff and
idle times are left out, so a poll may come at any time. Health, `retry_now`,
deleting a source and a connection made inactive are not kept.

### Entities and Chains

`Entities` are the resolver's operators on one record: durable identifiers join
entities and merge them, an address belongs to who held it at the time. `Chains`
holds the correlator as one record `M`; the methods of `correlate/engine.py` are
operators that return the next one.

| Action | Code |
|---|---|
| `Accept`, `Expire` | the ledger's revisions and the replay window (module `Intake`) |
| `Detect`, `Revise` with `Revised`, `Reevaluated` | `Pipeline.process`, `CorrelationEngine.revise`, `_reevaluate`, the review flag |
| `Evaluate` | `evaluate_now` up to its await: `CorrelationEngine.evaluate`, `RiskScorer.rescore`, the summaries |
| `Sync` | `InvestigationStore.sync`: revisions, merges, aliases |
| `ResolveFlag` | `resolve_flag` |
| `Stop`, `Start` | stop or crash; `load_id_state` and `_rehydrate` |
| `Poll`, `PollCycle` with `Flushed`, `Pruned` | `Pipeline.run_poll` on the same correlator: an alert of its own, and `evaluate_cycle` with `flush_stale` and `prune_before` |

Abstractions. Identifiers, tactics and severities are small numbers or names, an
id is a name and a counter without its date, the weight of a severity a power of
two. The v1 poller and the v2 runtime share one correlator (`server.py:56,82`), and the
poller's cycle falls between any two steps of the runtime. Which entities are idle is a
matter of the clock, so any may be. `polled` are the alerts that come by the poller: the
ledger does not have them, they come again any time, and a restart forgets them; an alert
both bring is left out. `reused` is history: the ids under which a chain formed after they
were merged. The causes of a change, investigation events, provider links, notes and
assignments are left out.

### Store

| Action | Code |
|---|---|
| `Acquire` | `Database.transaction`: the lock, then `BEGIN IMMEDIATE` |
| `Run` | the connection's thread executes the statement at the head of its queue; its task, if it still waits, submits the next: change, look up the last hash, insert the entry, commit, or roll back |
| `Cut` | a task is cancelled at its await; the statement stays queued |
| `CutBetween` | a task is cancelled between its change and the transaction of its entry |
| `Reopen` | crash and restart |

A write appends its entries in the transaction of its change (`commit=False`: the
response channel, an offset reset), or it is in `Apart` and appends in a second one, which
is the default of `AuditLog.append` and what most routes do (`api/router_v2.py:544`, `606`,
`620`). `done` is a call that returned to its caller.

### Triage

| Action | Code |
|---|---|
| `StartCycle`, `Begin`, `Health`, `Context`, `Model`, `WriteBack` | `process_all` and `process_cluster` of `ai/service.py`, split at every await; `ResultWriter.write` |
| `Retriage` | `POST .../triage` |
| `Evolve`, `Switch`, `Outage`, `Restart` | the correlator, `ProviderManager.switch`, the local model, the process |

The evidence of a chain is a number, a verdict a state (triaged or unavailable).

### Reasoner

| Action | Code |
|---|---|
| `Ask` with `Evidence`, `Redact` | `TriageReasoner.triage` up to its await: `build_payload`, `completion_kwargs`, `Redactor.for_payload` and `redact_messages` |
| `Answer` with `Restored`, `Grounding` | the rest of `triage`: `restore_verdict`, `validate_verdict` |
| `End` | the call fails, or its document is stored |
| `SwitchAi`, `ReviseEvidence` | `ProviderManager.switch`, `CorrelationEngine.revise` |

A text is a sequence of `Pieces`, and so is a name, so that one may be part of
another; the words and brackets a token is written with are pieces as well, so that a
name can be found inside a token, and a token is told from another by as many strokes
as its number. A field is shown between `": "` and the end of its line. `ai` is the provider in use, `redacting` the setting of the start, which
is what the reasoner reads. A model quotes what it was sent, cites the fields,
references and techniques it can read there, all or none of them, and may add one
of its own. Abstractions. No character that XML escapes occurs; how the budget
shortens the alerts, and where it cuts, is any choice; identity context, headers,
instructions and the retriever's ranking are left out.

### Settings

| Action | Code |
|---|---|
| `PutSiem`, `SetupComplete`, `PutAi` | the settings and setup routes with `ManagedSettings`; host and key together, or one of them while the other stays |
| `CrashWhileSaving`, `Crash`, `Serve` | the two files of a save, `AppRunner.__init__` and `_lifespan` |
| `Enter`, `Swap`, `Started` | `AppRunner.reconfigure` under its lock |
| `SwapFails` | stopping, building or starting raises in it |

A host or a key is the number of the save that entered it. `paired` and `failed` are
history: the saves that gave both, and whether the last swap raised.

### Poller

| Action | Code |
|---|---|
| `BeginCycle`, `ReadPage`, `PageFails` | `ElasticConnector.poll` and `fetch_batch` with the cursor it saves |
| `Prune` | `Pipeline.run_poll`: evaluate, `prune_before` |
| `StopPolling`, `StartPolling` | `EngineRunner.stop` or a crash; `_poll`, which resumes behind the saved cursor |
| `File`, `Tick` | the cluster and the clock |

All alerts are of one entity: neighbours within the window are one chain.

### How the modules compose

`Intake`, `SourceWorker`, `Chains` and `ResponseChannel` meet in tables. What one
writes another reads as input: the rows a worker commits are `Intake`'s records,
the revisions `Intake` hands over in order are `Accept`, `Detect` and `Revise` of
`Chains`, the revisions and merges `Sync` writes are `Revise` and `Merge` of
`ResponseChannel`. Every step that writes is one transaction of `Store`. `MCEngine`
puts six of them into one instance; `part` says which of them moves, since they
share no variable: their product would only multiply states.

## 3. Runs

| Run | Instance | Question |
|---|---|---|
| `response_safety` | 2 actions, 3 people, a workflow with two separated approvals and one with a single approval, 1 investigation with 2 revisions, 1 stop, three configurations (on, shorter allowlist, off) | can an action be sent twice, withdrawn, unauthorised, left in between, or two with one effect; does the channel implement `DeliveryOnce` |
| `response_liveness` | 2 actions, 1 person, 2 investigations that may merge, 1 stop, an allowlist that may shrink at it, fairness | is an action sent on evidence nobody approved; does every queued action end, or wait for the next start once its cycle has raised |
| `response_merge` | 1 action, 2 investigations | expected violation, finding 1 |
| `response_restart_off` | 1 action, restart with the channel off | expected violation, finding 2 |
| `intake_sources` | 3 events, `e2` sharing an id with each of `e1` and `e3`, 1 revision, 1 failure, 1 stop | is one alert counted twice |
| `intake_revisions` | 1 alert, 3 revisions, 1 failure, 1 stop, fairness | is a payload dropped too early, an acknowledged alert lost, newer content overwritten, work stuck |
| `intake_order` | the same | expected violation, finding 3 |
| `intake_waits` | 2 revisions, no failure | expected violation, finding 4 |
| `sources` | each paging style, 3 rows (two share a time, two are versions of one record, one is bad or of the other stream or of the changed query), pages of 1, a lookback and a delay of 1, 2 events, fairness | can a cursor pass a row, an older version come back, the tolerance outlive its window; does every row come in |
| `source_ties` | Elastic, the same rows, no events | expected violation, finding 5 |
| `chains_evidence` | `Chains` with 3 alerts, no stop | expected violation, finding 6 |
| `engine` | `MCEngine`, fairness | `Chains`: members, neighbours, ids, catching up. `Store`: the audit log, open transactions. `Triage`: stale analyses, the index, documents. `Reasoner`: tokens, citations. `Settings`: what runs, one engine, host and key. `Poller`: nothing skipped, chains rebuilt |

Why the bounds are enough. Two actions are the least that can share a key, queue
behind each other or be mixed up; two revisions the least that can differ
between proposal and dispatch; two investigations the least that merge; one stop
reaches every crash point with one recovery after it. Three events make the
shortest chain of shared ids in which two events share none; three revisions the
shortest in which one can fail while two others overtake it; two attempts reach
both the retry and the quarantine (the code allows eight). No invariant depends
on more: the theorems of section 5 hold for any number of each.

In `sources` two rows of one time and pages of one reach every tie and every
mid-window cursor; a delay equal to the lookback is the largest the overlap is made
for; two events are a fault and a request, or two requests that cross. In `engine`
three alerts are the least that can be bridged, split by a revision or merged under
two names: the histories of `MCChains` do each, with a grace of 0 or 1, a stop and
a replay without the first alert; the poller brings the third alert or none, and has one
cycle or none, with a retention that lets a chain end before the last alert (`Fading`).
The store has three writes, one of which records two decisions and one is recorded
apart, and three cuts: a cancelled `BEGIN`, a cancelled clean-up, a crash.
Triage has two chains and room for one document, so each evicts the other. The
reasoner has three dossiers (a name that is part of another, of a reference and of a
mail address; an address as a host's name and a user called like a key; a host called like a
word of the tokens), caps that shorten an alert or not, cuts inside the evidence or not, and
four settings: local, and a cloud model with redaction, without it, or not usable. Settings
have three saves (a host with its key, the host or the key alone, and one more), two
models, a choice of them and a crash. The poller has four
alerts, two of one time on pages of one, a window as long as its retention allows
(below), and one fault. No invariant of `Chains`, `Store`, `Triage`, `Settings` and
`Poller` depends on these: section 5.

`CHECK_DEADLOCK FALSE` is set because the service may rest: once the bounds on
revisions, failures and stops are used up and nothing is queued, nothing happens.

`response_safety` uses symmetry on actions and responders, without liveness.

### Fairness

`ResponseChannel`: weak fairness of the dispatcher's steps, of recovery and of
the start. The dispatcher loops on an event with a timeout, a send ends by its
HTTP timeout, recovery is a plain loop, and the service is started again after a
stop (by systemd after a crash, `Restart=on-failure` of the unit file, at the next
boot or by its operator otherwise). Nothing is assumed of people, of the clock or of
the remote side, nor of the store: a result is written or refused, and may be refused each
time. A cycle can raise after its claim was committed, in `policy.get` when the workflow
has left the allowlist meanwhile, or in `_record_result` when the store refuses the
transaction; `_loop` logs it and goes on, and the action stays `dispatching` with nobody
holding it until the next start with the channel on. `HandedOverSettles` therefore says
that a queued action ends or is let go of in this way, and that one let go of ends at the
next start, since it is open again then; `DispatchingIsHeld` names the same actions.

`Intake`: weak fairness of the consumer's work as a whole and of the start. The
work loop wakes every few seconds by itself, and each item in hand is
acknowledged or fails. No purge and no new record is assumed. That the claim
takes a lapsed item in the end follows from weak fairness, because an untaken
item keeps the claim enabled.

`SourceWorker`: weak fairness of the worker's steps, the clock and the start: the
task of a worker is a loop with timeouts on every request. `EveryRowKept` asks for
nothing standing in the way for good (no pause, no refused cursor, no bad row the
connector stops at); nothing is assumed of the administrator or of backfills.

`MCEngine`: the evaluation loop of `Chains` and the cycles of `Triage` run for
ever, the work loop handles what there is. Weak fairness is written out as `[]<>` of
the step or of its being disabled, because the step is a disjunct of a step of the
whole; `CycleDue` and `WorkDue` are the enabling conditions.

## 4. Findings

1. `response_merge`: approval and dispatch compare the revision number of the
   proposal with the number of the investigation it was merged *into*. When the
   two numbers happen to be equal, an action approved on the old evidence is
   sent. `docs/v2/logic-apps-contract.md:98` says that it is not dispatched.
   Without a merge the promise holds (`UnmergedSentOnApprovedEvidence`, proved).
2. `response_restart_off`: a process stopped mid-send and started with the
   channel off runs no recovery, so the action still says `dispatching`; the
   delivery table of the same document says `reconciliation_required` on restart.
3. `intake_order`: nothing compares the revision being applied with the one the
   correlator holds. A revision that failed once, or one that was still pending
   when a replay loaded the newest payload, is applied over newer content.
   `docs/v2/source-contracts.md:56`: "Revisions are applied in order". Without a
   failure the newest content is there in the end (`DrainedIsLatest`, proved);
   the transient step back remains.
4. `intake_waits`: after a restart, an update of an alert that left the replay
   window is refused as `not_seen` although the original is processed, and is
   retried until it is quarantined. The comment at `runtime.py:327` takes it that
   the first version is still waiting in the queue.

5. `source_ties`: when one timestamp fills a page of the Elastic source, the cursor
   goes on one millisecond later and the other rows of that timestamp are never
   read (`connectors/elastic.py:366`). `docs/v2/source-contracts.md:87`: a connector
   never "escapes" a stuck page by nudging a timestamp.
6. `chains_evidence`: when two entities merge, chains and timelines go on naming the
   absorbed one; its alerts get no weight, and a chain that was about it only falls
   to risk 0 (`correlate/risk.py:57`). The header of that file says that every alert
   contributes to each entity it touches, and that a merge changes nothing.

Behaviour a property is stated around, so that it holds of the code:

- A task cancelled inside `BEGIN` leaves the transaction open with the lock free:
  later writers fail until a restart (`beginCut` in `OpenOnlyIfBeginCut`).
- A model chosen while engines are being swapped is lost to the engine that was
  built without it, until the next swap (`crossed` in `RunsAsSaved`).
- A result the store refuses to record, or a workflow that leaves the allowlist before
  dispatch, leaves its action `dispatching` until the next start (`dropped` in
  `DispatchingIsHeld` and `HandedOverSettles`).
- Most routes commit their change and append its audit entry in a second transaction
  (`response/audit.py:33`). A cancellation, an error or a crash between the two leaves a
  change the log never tells of, although `docs/v2/security-and-operations.md:35` says
  that every connection change, note and assignment is recorded. `AuditTellsAll` says
  that the log is complete for what is recorded in its own transaction, and that no
  route reports a change as done without its entry.
- `PUT /api/settings/siem` takes host and key apart, and a blank key keeps the one there
  is: `{"host": new}` saves the new host beside the key of the connection before, and the
  engine uses them together (`paired` in `HostHasItsKey`).
- A swap of engines that raises, in `_build` on a CA file that cannot be read for
  instance, comes after the settings were saved and the old engine stopped: nothing runs
  what is saved, or nothing runs, until the next save or start (`failed` in `RunsAsSaved`).
- `merged_into` and aliases are never taken back (`store/investigations.py:150`). A chain
  that forms again under an id that was merged before, after a restart that replays only
  part of what had merged or after a prune, is kept in a row the list leaves out, and its
  link leads to the other chain (`reused` in `CaughtUp`). While a chain has not formed
  anew, no live one is hidden like this.
- `prune_before` deletes the chains that merged directly into a pruned one; a chain that
  had merged into one of those keeps a `merged_into` nobody has. No alert is counted to
  it, so nothing follows it.
- A write-back that failed, or was overtaken by another of the same chain, is not
  repaired before the chain changes (`missed` in `IndexMirrors`).
- A page of the v1 poller that fails after another has read part of its first
  timestamp gives up the rest of it (`torn`), a document indexed late is never read
  (`belated`), and a poller that has never fetched anything starts at now again.
- A value that is a word of the tokens (a host called `HOST`), or has a bracket, is
  found again in the tokens given before it, and an answer is not read back (`Clash` in
  `SentInTokens` and `AnswerStands`).
- A name that an e-mail address is part of, or that is part of an IP address, or spans
  two lines, is hidden but leaves a remainder beside its token (`Torn` in `SentInTokens`).
- Evidence that shows a token of its own (`[HOST_1]` in a command line) is read back as
  the value that token was given to (`Forged` in `AnswerStands`).
- `PUT /api/settings/ai` switches `redaction` and answers with the new value, but the
  reasoner reads the one of its start until the engine is built again (`redacting`).
- A retention shorter than the correlation window, which no validation refuses,
  drops an alert while one that may be linked to it waits: `ChainsRebuilt` is
  proved for `Outlasts` only. The defaults are a day and an hour.
- An alert that arrives late and is earlier than the first of its chain leaves the
  chain its id while the process runs; after a restart the chain forms around the new
  first alert and gets that alert's id, or one it makes for it.
  `docs/v2/security-and-operations.md:42` says that ids come back unchanged, anchored by
  the earliest alert. `AnchorKeepsId` therefore speaks of the moment a chain forms, and
  of the id its first alert has been an anchor of.
- A backfill may bring an older version of a record back as its newest
  (`refilled` in `NewestKept`).

Also met while reading, without a run: the header of `workqueue.py` names a state
`superseded` that nothing writes.

## 5. Proofs

Every theorem holds for arbitrary sets of actions, people, workflows,
investigations, events and aliases and for arbitrary bounds. The assumptions are
`ResponseAssumption`, `IntakeAssumption`, `SourceAssumption`, `EntitiesAssumption`,
`ChainsAssumption`, `StoreAssumption`, `TriageAssumption`, `ReasonerAssumption` and
`PollerAssumption`, in the modules that declare the constants: shapes of the
constants only (a responder may propose, a workflow needs at least one approval, a
transport exists only in an enabled channel, the null values are no ids, rows are
numbered in the order of their times, a provider is late by the lookback at most, a page
holds something, hosts, users and addresses have identifiers of their own, alerts are
finitely many and numbered, a history is a sequence of payloads for each alert, the
analyst is not a cycle). `ReasonerAssumption` says besides what the patterns find:
addresses are words without brackets, white space or colons, with an `@` or dots that
tokens lack, and none is part of another of the same pattern, nor an e-mail address of
an IP address (`_EMAIL_RE`, `_IP_RE`); that technique ids have no brackets; and that
what a model makes up is not in the evidence. `Settings` needs none. They are evaluated by every run.

| Theorem | Property | Argument |
|---|---|---|
| `ResponseChannelProofs!TypeCorrect` | `TypeOK` | inductive |
| `LegalMoves` | `OnlyLegalMoves` | types suffice: each writer re-reads the state in its transaction, and that guard implies a hop of `TRANSITIONS` |
| `PairsAgree` | `PairAgrees` | inductive with `Rows`: an action in the dispatcher's hand is `dispatching` |
| `OneRequest`, `NoWithdrawnRequest` | `AtMostOneRequest`, `WithdrawnNeverSent` | `Requests`: no send before a claim, none yet while `sending`, and no claim leads back to an unsent state |
| `ChannelDeliversOnce` | `DeliversOnce` | refinement: each step maps to a step of `DeliveryOnce` or to a stutter, under the invariants above |
| `EnoughApproved` | `AuthorisedByEnough` | `Approved`: approvals are of different people and complete before the action leaves `approval_required` |
| `OneEffect` | `OneEffectPerKey` | `KeysDiffer`: two actions with one key are never both in a state that holds the key |
| `SentOnSeenEvidence` | `UnmergedSentOnApprovedEvidence` | `Seen`: revisions only grow, and approval and claim both compare with the latest one |
| `NothingLeftDispatching` | `DispatchingIsHeld` | `Held`: while the channel is on a dispatching action is in hand, to be recovered or let go of, and what was let go of is still dispatching, since a person or a status check moves no such action |
| `IntakeProofs!TypeCorrect` | `TypeOK` | with `Queued`: work exists of stored revisions of non-duplicates only, so a commit never overwrites an item |
| `PayloadsKept` | `WorkKeepsPayload` | the purge's `NOT EXISTS` is the invariant |
| `AcknowledgedIsSeen` | `NothingLost` | `HandledSeen`: what is about to be acknowledged has been seen |
| `CountedOnce` | `CountsOnce` | `OnceInv`: an event that is no duplicate registered all its ids, so two of them share none; the correlator holds no others |
| `LatestWins` | `DrainedIsLatest` | `OrderInv`: of an event without failures, what is done comes before what is in hand, and that before what waits, through stops and recovery; `LastTaken`: the last revision taken is the one held |
| `SourceWorkerProofs!SourceTypeCorrect` | `TypeOK` | `Typed`, with `Reading`: a reader past its fetch reads a stream of its provider |
| `ToleranceCoversOneWindow` | `OneWindowPerDecision` | `Decided`: a tolerance, or a page read under one, is a decision not yet used up; each drained window uses one |
| `NewestRevisionKept` | `NewestKept` | `Newer`: a window ends after every row kept so far, and a row in hand is the newest of its record that the provider shows in it |
| `NoRowPassed` | `NothingPassed` | `Covering`: of each saved cursor, and of the cursor that comes with the page in hand, whatever it answers for is stored, set aside, on that page, in its overlap or still to be met in its window. Each style keeps this by its own arithmetic (`SentinelKeeps`, `SplunkKeeps`, `GraphKeeps`, `ElasticKeeps`) |
| `ChainsProofs!ChainsAreConnected` | `OneChain` | `Grouped`: live chains are the components of the graph, an alert is counted to the chain of its component; while an evaluation is under way, but for a set of alerts still to be grouped |
| `NeighboursShareAChain` | `NeighboursTogether` | `Near`: neighbours on a timeline are connected. Insertion links an alert to both sides; taking one out for a revision links the two it stood between |
| `IdsHoldTheirAnchor` | `NeverReissued` | `IdsHeld`: a live chain holds the alert its id was made for, no id is of two alerts, and no counter is below an id made; `RowsInv`: an investigation holds its anchor, and a running correlator knows the anchor's id |
| `ChainsOnlyGrow` | `OnlyGrow` | `Keeps`: each operator leaves members together; a revision that would part them is refused and flagged. For the poller's cycle `Follows`: evaluation leaves members together, and pruning takes a whole component or none of it (`Parted`), so what remains is still connected as it was |
| `AnchorsKeepTheirIds` | `AnchorKeepsId` | `Founded`: a new chain has the id of its first alert when it is formed, and keeps it through what the same evaluation adds |
| `StoreProofs!AuditIsComplete`, `OnlyBeginLeavesOpen` | `AuditTellsAll`, `OpenOnlyIfBeginCut` | `Shape`: the queue is the rest of one transaction, then `BEGIN`s; `Held`: who holds the lock waits for the last statement; `Data`: what the statement at the head finds; `Left`: what a cancelled task leaves |
| `AnalysisProofs!NoStaleAnalysisSettled` | `StaleIsMarked` | `MirrorInv`, `CallInv`: the evidence a fingerprint names is at most that of the document it stands for, and what a call analyses lies between its fingerprint's evidence and the present one; so a fingerprint of the present evidence leaves no room for a change in between |
| `IndexShowsMirror` | `IndexMirrors` | `IndexInv`: a mirrored document has arrived in the index, is in the hand of a call about to write it, or its chain is `missed` |
| `MirrorStaysBounded` | | no more documents than `Room`, and no two of one chain, however calls cross |
| `KnownValuesHidden` | `SentInTokens` | `AskedInv`: whatever became of settings and evidence since, what was sent is what `Redact` made of the prompt by the values of the evidence it was asked about. A value is gone after its own replacement (`str.replace` leaves no occurrence where the new text has brackets and the old has none) and no later token brings one in; longest first, so a field that showed a name shows its one token |
| `AnswersStand` | `AnswerStands` | `RestoreUndoesRedact` for the prompt; what was cited is read back one by one, so restored citations are keys and references of the evidence, and differ where the cited did |
| `RestoreUndoesRedact` | | each token is given once and contains none of the others, a text that showed no token before shows each only where a value stood; so undoing them in the order they were given undoes them all |
| `SettingsProofs!EngineRunsAsSaved`, `OnlyOneEngine`, `HostNeverAheadOfKey` | `RunsAsSaved`, `OneEngine`, `HostHasItsKey` | `InTurn`: only the first caller is inside; `LastBrings`: the last caller brings what is saved; `KeyFirst` |
| `PollerProofs!NothingSkipped` | `PollSkipsNothing` | `Clocks`: a page is at most one past its seek; `Read`: everything in time before the front of the cycle, and before the point a restart resumes from, is read |
| `ChainsRebuilt` | `NeighboursHeld` | under `Outlasts`. `Recalls`: what this run has passed is held or `Parted`; a parted alert is too old for whatever is read later, and went together with all its neighbours |

Why a strengthening is needed. `DrainedIsLatest` says nothing of the moments when
work is open, and it is in those that an order could break: `OrderInv` says that
no item is overtaken, and its conjunct `ClaimedInHand` holds of a running process
only, since a stop leaves claims behind that the next start puts back. Likewise
`CountsOnce` speaks of two events and the code of ids, one holder each; `Owns`
and `HoldersStored` connect them.

The correlator's invariant (`ChainsAlwaysInv`: queue, correlator, rows) was an invariant
of a TLC run first. Its proof follows the operators in the order they call each other.
An evaluation inserts and groups what is due one alert at a time: both are folds over a
set, seen as iterations over its subsets, and between two alerts the invariant allows
for those not grouped yet. A revision is harder, because `_reevaluate` resolves the
alert twice: it decides by the links of the first resolution and inserts by those of
the second, so the second must find the entities the first found, unless all of those
are new (`ResolveMade`, the first part of the module, through the claims and merges of
a host, its address, a user and the source's address).

The newest of a set of rows or alerts (`NewestIs`, `SomeNewest`) exists by
well-foundedness of the strict subsets of a finite set. `Parted` is needed because
`NeighboursHeld` excuses alerts that pruning was right to drop, and whether it was
is only seen later: the invariant remembers of each dropped alert that nothing
that comes can be near it.

The theorems of `Reasoner` are about `str.replace` itself, a recursive function along
a text, for texts of any length and any number of values. What it computes is
shown without an induction over texts as data: the positions, lengths or tokens at
which a law fails are a set of numbers, and one that is not empty has a least element,
below which the law holds. Three laws come of it: a value that does not occur is
replaced by nothing; replacing goes through a concatenation where no occurrence
reaches over the seam, which brackets make sure of; and a replacement is undone by the
one the other way round if the new text was not in the old. Undoing two tokens commutes
(`SubsCommute`), since tokens do not overlap and a value brings no token back.

Only model-checked: liveness (`HandedOverSettles`, `WorkSettles`, `EveryRowKept`,
`StoreCatchesUp`, `DocumentsCatchUp`), which is out of the prover's reach, and
the six expected violations. Every invariant and every action property that a run
checks is a theorem.

## 6. Not modelled

`components` in `PROJECT.json` gives the status of every part.

- Text and data conversion without protocol: normalisation, enrichment,
  the wording of prompts, retrieval and reports. The prefilter appears as the choice
  `noise` in `Intake` and as `Suppressed` in `Chains`.
- Authentication: roles are the constants `Analysts` and `Responders`. The Microsoft
  token cache: one lock per profile and a refresh before expiry; a token is usable
  or not, which a fetch or a send sees as success or failure.
- Validation of configuration, forms, the dashboard, encryption, file and batch
  runs, signals, the watchdog, deployment: I/O or conversion.
- Read-only routes, deletion of a source, steps of a migration.

Hazards met in the code that no property covers and `PROJECT.json` does not list:

- The run lookup reads a bounded number of pages, and reports a run beyond them as
  absent (`response/run_status.py:172`).
- Past `MAX_SEEN_EVENTS` the oldest ids are forgotten and their updates refused
  (`pipeline.py:132`); an original that was quarantined keeps its updates refused
  too (`pipeline.py:114`).
- A lease is reclaimed by time alone (`store/workqueue.py:54`).
- A first stream that keeps failing starves the second (`connectors/supervisor.py:243`).
- An expired Graph `nextLink` fails every poll of its stream; nothing drops it
  (`connectors/defender_xdr.py:84`).
- Reads use the writer's connection without its lock and may see uncommitted rows
  (`store/database.py:124`); `AuditTellsAll` covers the audit log.
- A mirror smaller than the number of chains re-triages what it evicted; a forced
  re-run that fails replaces a good analysis; evidence that returns to an earlier
  state is not told apart.
- `put_ai` switches the running engine before it saves.
- A host entered alone is joined with the key there is (`api/setup.py:250`): see section 4.
- `PUT /api/settings/ai` switches `redaction` in the provider, not in the reasoner
  (`ai/reasoner.py:143`): see section 4.
- An alert suppressed at its first revision whose severity rises later is acknowledged
  as unknown and enters the correlator only when a restart replays it; the reverse
  vanishes on a restart (`runtime.py:343`). The model has both; no document promises
  either.
- Buffered alerts of the v1 poller that are older than its lookback are lost in a
  restart.
- The replay runs outside any handler: one stored payload that cannot be opened or
  parsed keeps the service from starting (`runtime.py:197`).
- A poller that has never fetched takes the time of its start, so what came between
  two such starts is not read (`connectors/elastic.py:293`).
- Surfacing is recomputed after a restart, flags stay with the id of a chain that
  merged.
