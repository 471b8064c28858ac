------------------------------- MODULE Chains -------------------------------
(***************************************************************************)
(* Correlation of alerts into attack chains, and what is kept of them:     *)
(* src/engine/correlate/, the evaluation of src/engine/runtime.py and      *)
(* src/engine/store/investigations.py.                                     *)
(*                                                                         *)
(* The correlator is one record, M, in memory; its methods are operators   *)
(* that return the next one.  The ledger's revisions of an alert reach it  *)
(* in order (module Intake); a stop loses it, and a start rebuilds it from *)
(* the newest revisions.  Between an evaluation and its write to the store *)
(* alerts and revisions go on arriving.  The v1 poller, where it runs,     *)
(* shares the correlator (src/engine/server.py): alerts of its own arrive, *)
(* and its cycle evaluates too and drops what has ended.                   *)
(***************************************************************************)
EXTENDS Entities, FiniteSetsExt, SequencesExt

CONSTANTS
  Alerts,       \* numbers: the order of their uids
  Histories,    \* a set of functions: an alert |-> its successive revisions
  Floor,        \* severity below which an alert is not correlated
  Benign,       \* trusted addresses, service accounts and scanner hosts
  Window,       \* how far apart two alerts may be linked
  Graces,       \* choices of how long the watermark trails the newest alert
  Threshold,    \* surface_threshold
  Confirmation, \* weight of each further provider
  LateExpiry,   \* alerts that may leave the replay window
  PolledSets,   \* choices of the alerts the v1 poller brings
  ChainRetention, \* entity_retention_minutes
  PollChoices,  \* bound: choices of how many cycles the v1 poller has
  MaxStops      \* bound: stops

\* What of a revision of an alert is told apart.
Payloads ==
  [time : Nat, severity : Nat, tactic : Nat, provider : STRING, host : SUBSET HostIds,
   process : SUBSET HostIds, user : SUBSET UserIds, device : Ips \cup {NoIp}, src : Ips \cup {NoIp}]

ASSUME ChainsAssumption ==
  /\ Alerts \subseteq Nat \ {0} /\ IsFiniteSet(Alerts)
  /\ \A f \in Histories, a \in Alerts : f[a] \in Seq(Payloads)
  /\ Window \in Nat /\ ChainRetention \in Nat
  /\ PollChoices \subseteq Nat /\ MaxStops \in Nat
  /\ PolledSets \subseteq SUBSET Alerts

VARIABLES
  history,    \* the history that happens
  grace,      \* watermark_grace_seconds
  polled,     \* the alerts that come by the v1 poller, not by the ledger
  stored,     \* revisions of each alert in the ledger
  handled,    \* revisions of each alert taken from the work queue
  expired,    \* alerts outside the replay window
  phase,      \* "stopped", "idle" or "writing" an evaluation to the store
  M,          \* the correlator
  seen,       \* Pipeline._seen_events
  snapshot,   \* the summaries of an evaluation on their way to the store
  rows,       \* investigations, by id
  aliases,    \* cluster_aliases
  flags,      \* open review flags: chain and alert
  reused,     \* ids under which a chain formed after they were merged (a ghost)
  polls,      \* cycles of the v1 poller to come
  stops       \* what MaxStops counts

queue == <<history, grace, polled, stored, handled, expired>>
store == <<rows, aliases, flags>>
vars  == <<queue, phase, M, seen, snapshot, store, reused, polls, stops>>

\* An id is a name and a number; its date is left out, all alerts are of one day.
NoId == <<0, 0>>
IdBefore(c, d) == c[1] < d[1] \/ (c[1] = d[1] /\ c[2] < d[2])

----------------------------------------------------------------------------
\* Alerts.

Payload(a, r) == history[a][r]
Newest(a) == Len(history[a])

\* PreFilter.evaluate; severity 0 is unknown, not benign.
Suppressed(v) ==
  \/ 0 < v.severity /\ v.severity < Floor
  \/ (v.host \cup v.user \cup {v.device, v.src}) \cap Benign # {}

\* _what_changed, and which of it can move an alert.  A process is an
\* identifier and is not among it.
Moves(v, w) ==
  v.time # w.time \/ v.host # w.host \/ v.device # w.device \/ v.user # w.user \/ v.src # w.src
Changed(v, w) ==
  Moves(v, w) \/ v.severity # w.severity \/ v.tactic # w.tactic \/ v.process # w.process

\* RiskConfig.severity_weights
Weight(v) == IF v.severity = 0 THEN 0 ELSE 2 ^ (v.severity - 1)

----------------------------------------------------------------------------
\* CorrelationEngine: the alerts held and their order.

EmptyEngine ==
  [copy    |-> [a \in Alerts |-> 0],      \* the revision held, 0 for none
   buffer  |-> {},
   newest  |-> 0,                         \* _max_event_time_ms
   placed  |-> {},                        \* correlated alerts
   res     |-> NewResolver,
   about   |-> [a \in Alerts |-> {}],     \* the entities it was resolved to
   primary |-> [a \in Alerts |-> 0],
   lines   |-> {},                        \* timelines: <<entity, alert>>
   edges   |-> {},                        \* pairs of linked alerts
   chains  |-> <<>>,                      \* id |-> chain
   of      |-> [a \in Alerts |-> NoId],   \* _cluster_of_alert
   anchor  |-> [a \in Alerts |-> NoId],   \* ClusterIdGenerator
   count   |-> <<>>]

V(E, a) == Payload(a, E.copy[a])
Precedes(E, a, b) == V(E, a).time < V(E, b).time \/ (V(E, a).time = V(E, b).time /\ a < b)
InOrder(E, S) == SetToSortSeq(S, LAMBDA a, b : Precedes(E, a, b))
First(E, S) == CHOOSE a \in S : \A b \in S \ {a} : Precedes(E, a, b)
Latest(E, S) == CHOOSE a \in S : \A b \in S \ {a} : Precedes(E, b, a)

\* add
Add(E, a, r) ==
  IF a \in E.placed \cup E.buffer THEN E
  ELSE LET t == Payload(a, r).time
       IN [E EXCEPT !.copy[a] = r, !.buffer = @ \cup {a}, !.newest = IF t > @ THEN t ELSE @]

\* The alert before and the alert after a on the timeline of e, within reach.
Adjacent(E, a, S) ==
  {b \in S : /\ \A c \in S \ {b} : ~(Precedes(E, a, c) /\ Precedes(E, c, b))
             /\ \A c \in S \ {b} : ~(Precedes(E, c, a) /\ Precedes(E, b, c))
             /\ V(E, a).time - V(E, b).time <= Window
             /\ V(E, b).time - V(E, a).time <= Window}
Line(E, e) == {l[2] : l \in {l \in E.lines : l[1] = e}}
LinksBack(E, a, es) ==
  {b \in UNION {Adjacent(E, a, Line(E, e) \ {a}) : e \in es} : Precedes(E, b, a)}
Links(E, a, es) == UNION {Adjacent(E, a, Line(E, e) \ {a}) : e \in es}

\* _insert_alert
Inserted(E, a, r) ==
  [E EXCEPT !.res = r.res, !.about[a] = r.entities, !.primary[a] = r.primary,
            !.placed = @ \cup {a},
            !.edges = @ \cup {{a, b} : b \in Links(E, a, r.entities)},
            !.lines = @ \cup {<<e, a>> : e \in r.entities}]
InsertAlert(E, a) == Inserted(E, a, Resolve(E.res, V(E, a)))

\* _detach
Detach(E, a) ==
  [E EXCEPT !.edges = {p \in @ : a \notin p}, !.lines = {l \in @ : l[2] # a}]

\* The alerts of S that a is connected with inside S.
Component(edges, S, a) ==
  {b \in S : \A T \in SUBSET S :
     a \in T /\ (\A p \in edges : p \subseteq S /\ p \cap T # {} => p \subseteq T) => b \in T}

----------------------------------------------------------------------------
\* Chains and their ids.

LiveIds(E) == {c \in DOMAIN E.chains : E.chains[c].merged = NoId}
\* The chain that merges lead to from c: it is in every set with c that has
\* what its chains are merged into.
FollowsMerges(E, T) == \A c \in T : E.chains[c].merged \in T \cup {NoId}
LiveId(E, c) ==
  CHOOSE d \in LiveIds(E) :
    \A T \in SUBSET DOMAIN E.chains : c \in T /\ FollowsMerges(E, T) => d \in T

\* _primary_entity_name: the entity that is the primary of most alerts.
NameOf(E, S) ==
  LET es == {E.primary[a] : a \in S}
      Votes(e) == Cardinality({a \in S : E.primary[a] = e})
      Wins(e, d) == \/ Votes(d) < Votes(e)
                    \/ Votes(d) = Votes(e) /\ Older(E.res, e, d)
  IN Name(E.res, CHOOSE e \in es : \A d \in es : Wins(e, d))

\* ClusterIdGenerator.next_id: a known anchor has its id.
CountOf(E, name) == IF name \in DOMAIN E.count THEN E.count[name] ELSE 0
NextId(E, name, anchor) ==
  IF E.anchor[anchor] # NoId THEN E.anchor[anchor] ELSE <<name, CountOf(E, name) + 1>>
Issue(E, name, anchor) ==
  IF E.anchor[anchor] # NoId THEN E
  ELSE [E EXCEPT !.anchor[anchor] = NextId(E, name, anchor),
                 !.count = With(@, name, CountOf(E, name) + 1)]

\* chains.tactic_sequence and progression_disposition, over the alerts that
\* have a tactic.
Tactics(E, S) ==
  LET order == InOrder(E, {a \in S : V(E, a).tactic # 0})
  IN [i \in 1..Len(order) |-> V(E, order[i]).tactic]
Disposition(t) ==
  LET ups   == {i \in 1..Len(t) - 1 : t[i + 1] > t[i]}
      downs == {i \in 1..Len(t) - 1 : t[i + 1] < t[i]}
  IN IF Len(t) < 2 THEN "unknown"
     ELSE IF Cardinality(downs) > Cardinality(ups) THEN "reversed"
     ELSE IF ups # {} THEN "progressing" ELSE "flat"

NewChain == [members |-> {}, entities |-> {}, name |-> 0, first |-> 0, tactics |-> <<>>,
             disposition |-> "unknown", merged |-> NoId, risk |-> 0, surfaced |-> FALSE]

\* _assign_cluster: connected alerts are one chain, the one with the earliest
\* alert where there were several.
Keeper(E, ids) ==
  CHOOSE c \in ids : \A d \in ids \ {c} :
    \/ E.chains[c].first < E.chains[d].first
    \/ E.chains[c].first = E.chains[d].first /\ IdBefore(c, d)

\* The chain of S is c, from old, and absorbs the losers.
Chain(E, S, old, tactics) ==
  [old EXCEPT !.members = S, !.entities = UNION {E.about[a] : a \in S},
              !.name = NameOf(E, S), !.first = V(E, First(E, S)).time,
              !.tactics = tactics, !.disposition = Disposition(tactics)]
Place(E, S, c, old, losers) ==
  [E EXCEPT !.chains = With([d \in DOMAIN @ |-> IF d \in losers THEN [@[d] EXCEPT !.merged = c]
                                                ELSE @[d]],
                            c, Chain(E, S, old, Tactics(E, S))),
            !.of = [a \in Alerts |-> IF a \in S THEN c ELSE @[a]]]
Found(E, S, name, anchor) ==
  Place(Issue(E, name, anchor), S, NextId(E, name, anchor), NewChain, {})
Join(E, S, c, live) == Place(E, S, c, E.chains[c], live \ {c})
Assign(E, S) ==
  LET live == {E.of[a] : a \in S} \cap LiveIds(E)
  IN IF live = {} THEN Found(E, S, NameOf(E, S), First(E, S))
     ELSE Join(E, S, Keeper(E, live), live)

\* RiskScorer.rescore: the weight of an entity's timeline, for the entity that
\* has most; less for a chain whose tactics run backwards.
Risk(E, c) ==
  LET EntityRisk(e) == MapThenSumSet(LAMBDA a : Weight(V(E, a)), Line(E, e))
      risks == {EntityRisk(e) : e \in c.entities \cap E.res.alive}
      providers == Cardinality({V(E, a).provider : a \in c.members})
      total == (IF risks = {} THEN 0 ELSE Max(risks)) + Confirmation * (providers - 1)
  IN IF c.disposition = "reversed" THEN total \div 2 ELSE total
Surfaced(c, risk) == c.surfaced \/ risk >= Threshold
Scored(c, risk) == [c EXCEPT !.risk = risk, !.surfaced = Surfaced(c, risk)]
Rescore(E) ==
  [E EXCEPT !.chains = [c \in DOMAIN @ |->
     IF c \in LiveIds(E) THEN Scored(@[c], Risk(E, @[c])) ELSE @[c]]]

\* evaluate: place what is due, in order, then join what is connected.
Regroup(E, a) == Assign(E, Component(E.edges, E.placed, a))
InsertAll(E, ready) ==
  MapThenFoldSet(LAMBDA a, G : InsertAlert(G, a), [E EXCEPT !.buffer = @ \ ready],
                 LAMBDA a : a, LAMBDA S : Latest(E, S), ready)
RegroupAll(E, ready) ==
  MapThenFoldSet(LAMBDA a, G : Regroup(G, a), E, LAMBDA a : a, LAMBDA S : Latest(E, S), ready)
Evaluated(E) ==
  LET ready == {a \in E.buffer : V(E, a).time + grace <= E.newest}
  IN IF ready = {} THEN E ELSE Rescore(RegroupAll(InsertAll(E, ready), ready))

\* revise and _reevaluate: the outcome and the correlator after it.
SplitsNever(E, others) == FALSE
Splits(E, others) ==
  others # {} /\ \E a \in others : Component(E.edges, others, a) # others
LooseEndNever(c, live) == FALSE
LooseEnd(c, live) == c \notin live

Kept(E) == [review |-> FALSE, engine |-> E]
ForReview(E) == [review |-> TRUE, engine |-> E]
Takes(E, a, r) == [E EXCEPT !.copy[a] = r]

\* others: the rest of the chain; there: what the alert now resolves to.
Reevaluated(E, a, r, others, there) ==
  LET live == {LiveId(E, E.of[b]) : b \in Links(Takes(E, a, r), a, there.entities)}
  IN IF Splits(E, others) THEN ForReview(E)
     ELSE IF others = {}
       THEN Kept(Rescore(Regroup(InsertAlert(Takes(Detach(E, a), a, r), a), a)))
     ELSE IF LooseEnd(LiveId(E, E.of[a]), live) THEN ForReview([E EXCEPT !.res = there.res])
     ELSE Kept(Rescore(Regroup(
            InsertAlert(Takes(Detach([E EXCEPT !.res = there.res], a), a, r), a), a)))

Revised(E, a, r) ==
  IF a \in E.buffer THEN Kept(Takes(E, a, r))
  ELSE IF a \notin E.placed THEN Kept(E)
  ELSE IF ~Changed(V(E, a), Payload(a, r)) THEN Kept(Takes(E, a, r))
  ELSE IF ~Moves(V(E, a), Payload(a, r))
    THEN Kept(Rescore(Assign(Takes(E, a, r), E.chains[E.of[a]].members)))
  ELSE Reevaluated(E, a, r, E.chains[E.of[a]].members \ {a}, Resolve(E.res, Payload(a, r)))

\* prune_before: chains that ended before the retention go whole, with their
\* alerts and with the chains that were merged into them.
EndedBefore(E, c) ==
  \A a \in E.chains[c].members : V(E, a).time + grace + ChainRetention < E.newest
Dropped(E, ended, gone) ==
  [E EXCEPT !.copy    = [a \in Alerts |-> IF a \in gone THEN 0 ELSE @[a]],
            !.placed  = @ \ gone,
            !.about   = [a \in Alerts |-> IF a \in gone THEN {} ELSE @[a]],
            !.primary = [a \in Alerts |-> IF a \in gone THEN 0 ELSE @[a]],
            !.lines   = {l \in @ : l[2] \notin gone},
            !.edges   = {p \in @ : p \cap gone = {}},
            !.chains  = [c \in {c \in DOMAIN @ : c \notin ended /\ @[c].merged \notin ended}
                          |-> @[c]],
            !.of      = [a \in Alerts |-> IF a \in gone THEN NoId ELSE @[a]]]
Ended(E) == {c \in LiveIds(E) : EndedBefore(E, c)}
Pruned(E) == Dropped(E, Ended(E), UNION {E.chains[c].members : c \in Ended(E)})

----------------------------------------------------------------------------
\* The ledger and the work queue, as far as the correlator sees them.

Accept(a) ==
  /\ a \notin polled /\ stored[a] < Newest(a)
  /\ stored' = [stored EXCEPT ![a] = @ + 1]
  /\ UNCHANGED <<history, grace, polled, handled, expired, phase, M, seen, snapshot, store, polls, stops>>

Expire(a) ==
  /\ a \in LateExpiry \ expired /\ stored[a] > 0
  /\ expired' = expired \cup {a}
  /\ UNCHANGED <<history, grace, polled, stored, handled, phase, M, seen, snapshot, store, polls, stops>>

\* Pipeline.process: once per alert, and not what the prefilter drops.
Processed(E, known, a, r) ==
  IF a \in known \/ Suppressed(Payload(a, r)) THEN E ELSE Add(E, a, r)

Undetected(a) == phase # "stopped" /\ handled[a] = 0 /\ stored[a] > 0
Detect(a) ==
  /\ Undetected(a)
  /\ M' = Processed(M, seen, a, 1)
  /\ seen' = seen \cup {a}
  /\ handled' = [handled EXCEPT ![a] = 1]
  /\ UNCHANGED <<history, grace, polled, stored, expired, phase, snapshot, store, polls, stops>>

\* The v1 poller brings an alert, once or again: it is not in the ledger, and
\* nothing remembers it but the correlator.
Poll(a) ==
  /\ phase # "stopped" /\ a \in polled /\ Newest(a) > 0
  /\ M' = Processed(M, {}, a, 1)
  /\ UNCHANGED <<queue, phase, seen, snapshot, store, polls, stops>>

\* _apply_revision: a revision that cannot be placed is flagged for review.
Unrevised(a) == phase # "stopped" /\ handled[a] \in 1..stored[a] - 1 /\ a \in seen
FlagReview(c, a) == flags' = flags \cup {<<c, a>>}
Apply(outcome, a) ==
  /\ M' = outcome.engine
  /\ IF outcome.review THEN FlagReview(M.of[a], a) ELSE UNCHANGED flags
Revise(a) ==
  /\ Unrevised(a)
  /\ Apply(Revised(M, a, handled[a] + 1), a)
  /\ handled' = [handled EXCEPT ![a] = @ + 1]
  /\ UNCHANGED <<history, grace, polled, stored, expired, phase, seen, snapshot, rows, aliases, polls, stops>>

----------------------------------------------------------------------------
\* V2Runtime.evaluate_now and InvestigationStore.sync.

\* cluster_summary, and what of it content_hash covers.
Summary(E, c) ==
  LET k == E.chains[c]
  IN [members |-> k.members, name |-> k.name, tactics |-> k.tactics,
      disposition |-> k.disposition, risk |-> k.risk, surfaced |-> k.surfaced,
      names |-> [a \in k.members |-> {Name(E.res, e) : e \in E.about[a]}]]

Evaluate ==
  /\ phase = "idle" /\ phase' = "writing"
  /\ M' = Evaluated(M)
  /\ snapshot' = [c \in LiveIds(M') |-> Summary(M', c)]
  /\ UNCHANGED <<queue, seen, store, polls, stops>>

\* Pipeline.run_poll.evaluate_cycle.  Which entities are idle is a matter of the
\* clock.
PollCycle ==
  /\ phase # "stopped" /\ polls > 0 /\ polls' = polls - 1
  /\ \E idle \in SUBSET Evaluated(M).res.alive :
       M' = Pruned([Evaluated(M) EXCEPT !.res = Flushed(@, idle)])
  /\ UNCHANGED <<queue, phase, seen, snapshot, store, stops>>

NoRow == [anchor |-> 0, revision |-> 0, content |-> <<>>, open |-> 0, merged |-> NoId]
Row(c) == IF c \in DOMAIN rows THEN rows[c]
          ELSE [NoRow EXCEPT !.anchor = CHOOSE a \in Alerts \cup {0} :
                  \/ a # 0 /\ M.anchor[a] = c
                  \/ a = 0 /\ \A b \in Alerts : M.anchor[b] # c]
HashOfMembers(row, content, open) ==
  row.content # <<>> /\ row.content.members = content.members
SameHash(row, content, open) == row.content = content /\ row.open = open
Upserted(row, content, open) ==
  IF SameHash(row, content, open) THEN row
  ELSE [row EXCEPT !.revision = @ + 1, !.content = content, !.open = open]
Open(c) == Cardinality({f \in flags : f[1] = c})

Merged(E) == DOMAIN E.chains \ LiveIds(E)
Marked(written) ==
  [c \in DOMAIN written |->
     IF c \in Merged(M) THEN [written[c] EXCEPT !.merged = M.chains[c].merged]
     ELSE written[c]]

Sync ==
  /\ phase = "writing" /\ phase' = "idle"
  /\ rows' = Marked([c \in DOMAIN rows \cup DOMAIN snapshot |->
                      IF c \in DOMAIN snapshot THEN Upserted(Row(c), snapshot[c], Open(c))
                      ELSE rows[c]])
  /\ aliases' = [c \in DOMAIN aliases \cup Merged(M) |->
                  IF c \in DOMAIN aliases THEN aliases[c] ELSE M.chains[c].merged]
  /\ snapshot' = <<>>
  /\ UNCHANGED <<queue, M, seen, flags, polls, stops>>

\* resolve_flag
ResolveFlag(f) ==
  /\ f \in flags /\ flags' = flags \ {f}
  /\ UNCHANGED <<queue, phase, M, seen, snapshot, rows, aliases, polls, stops>>

----------------------------------------------------------------------------
\* V2Runtime.stop, or a crash, and start: load_id_state, _rehydrate.

Stop ==
  /\ phase # "stopped" /\ stops < MaxStops /\ stops' = stops + 1
  /\ phase' = "stopped" /\ M' = EmptyEngine /\ seen' = {} /\ snapshot' = <<>>
  /\ UNCHANGED <<queue, store, polls>>

NoAnchors(saved) == [a \in Alerts |-> NoId]
AnchorsOf(saved) ==
  [a \in Alerts |-> IF \E c \in DOMAIN saved : saved[c].anchor = a
                      THEN CHOOSE c \in DOMAIN saved : saved[c].anchor = a ELSE NoId]
CountsNone(saved) == <<>>
CountsOf(saved) ==
  [n \in {c[1] : c \in DOMAIN saved} |-> Max({c[2] : c \in {c \in DOMAIN saved : c[1] = n}})]
Loaded == [EmptyEngine EXCEPT !.anchor = AnchorsOf(rows), !.count = CountsOf(rows)]

Replay == {a \in Alerts \ expired : stored[a] > 0}

\* Pipeline.process of each of the newest revisions: the order does not matter.
Refilled(E, held) ==
  [E EXCEPT !.copy = [a \in Alerts |-> IF a \in held THEN stored[a] ELSE 0],
            !.buffer = held,
            !.newest = Max({0} \cup {Payload(a, stored[a]).time : a \in held})]

Start ==
  /\ phase = "stopped" /\ phase' = "idle"
  /\ M' = Refilled(Loaded, {a \in Replay : ~Suppressed(Payload(a, stored[a]))})
  /\ seen' = Replay
  /\ UNCHANGED <<queue, snapshot, store, polls, stops>>

Init ==
  /\ history \in Histories /\ grace \in Graces /\ polled \in PolledSets
  /\ stored = [a \in Alerts |-> 0] /\ handled = [a \in Alerts |-> 0] /\ expired = {}
  /\ phase = "idle" /\ M = EmptyEngine /\ seen = {} /\ snapshot = <<>>
  /\ rows = <<>> /\ aliases = <<>> /\ flags = {}
  /\ reused = {} /\ polls \in PollChoices /\ stops = 0

\* The chains that form under an id that was merged before.
Reformed == (LiveIds(M') \ LiveIds(M)) \cap DOMAIN aliases

Next ==
  /\ \/ \E a \in Alerts : Accept(a) \/ Expire(a) \/ Detect(a) \/ Revise(a) \/ Poll(a)
     \/ Evaluate \/ PollCycle \/ Sync
     \/ \E f \in flags : ResolveFlag(f)
     \/ Stop \/ Start
  /\ reused' = reused \cup Reformed

Spec == Init /\ [][Next]_vars

\* The evaluation loop goes on and a stopped program is started again: one of
\* these is always enabled.  The work loop handles what there is: weak
\* fairness, with the enabling condition written out.
Cycle == Evaluate \/ Sync \/ Start
Work == \E a \in Alerts : Detect(a) \/ Revise(a)
WorkLeft == \E a \in Alerts : Undetected(a) \/ Unrevised(a)
FairSpec == Spec /\ []<><<Cycle>>_vars /\ ([]<>~WorkLeft \/ []<><<Work>>_vars)

----------------------------------------------------------------------------
\* Properties.

\* An alert is in one live chain, and a chain is what is connected: arrivals
\* in any order, merges, moves of revised alerts and restarts keep the graph,
\* the members of the chains and the chain of each alert in step.
OneChain ==
  /\ \A a \in M.placed : M.of[a] \in LiveIds(M)
  /\ \A c \in LiveIds(M) :
       /\ M.chains[c].members = {a \in M.placed : M.of[a] = c}
       /\ \A a \in M.chains[c].members :
            Component(M.edges, M.placed, a) = M.chains[c].members

\* Neighbours on the timeline of an entity, close enough in time, are in one
\* chain, whichever came first and wherever revisions moved them.
NeighboursTogether ==
  \A a \in M.placed, e \in UNION {M.about[b] : b \in Alerts} :
    a \in Line(M, e) => \A b \in Adjacent(M, a, Line(M, e) \ {a}) : M.of[a] = M.of[b]

\* While the program runs a chain only grows: what would take it apart is left
\* for a person to review.  Or it goes whole, once all of it has ended: no
\* alert of it is held any more, and each was due longer ago than the retention.
GoneWhole(c) ==
  \A a \in M.chains[c].members :
    a \notin M'.placed /\ V(M, a).time + grace + ChainRetention < M'.newest
OnlyGrow ==
  [][phase' # "stopped" => \A c \in LiveIds(M) :
       \/ \E d \in LiveIds(M') : M.chains[c].members \subseteq M'.chains[d].members
       \/ GoneWhole(c)]_vars

\* An id is never reissued: whatever an investigation shows, now or after a
\* restart, holds the alert its id was made for.
NeverReissued == \A c \in DOMAIN rows : rows[c].anchor \in rows[c].content.members

\* A chain that forms around the alert an id was made for, its first again, has
\* that id: after a restart, when all chains form anew, after any merges and
\* after the poller has dropped them.
AnchorKeepsId ==
  [][\A d \in LiveIds(M') \ LiveIds(M), c \in DOMAIN rows :
       First(M', M'.chains[d].members) = rows[c].anchor => d = c]_vars

\* The risk of a chain counts each of its alerts: it is at least the weight of
\* the worst, unless its tactics run backwards (src/engine/correlate/risk.py
\* on what every alert contributes).
EvidenceCounts ==
  \A c \in LiveIds(M) : M.chains[c].disposition # "reversed" =>
    \A a \in M.chains[c].members : Weight(V(M, a)) <= M.chains[c].risk

\* What the analysts see catches up with what is known: at last every alert
\* that is due is in a chain and every chain is stored as it is, with its
\* open flags, whatever revisions arrived during evaluations and restarts.  It
\* is shown: no live chain has a row marked as merged or an id that leads to
\* another one, unless the id was merged before the chain formed under it.
Shown(c) == Row(c).merged = NoId /\ c \notin DOMAIN aliases
CaughtUp ==
  /\ phase # "stopped"
  /\ \A a \in M.buffer : V(M, a).time + grace > M.newest
  /\ \A c \in LiveIds(M) : /\ Row(c).content = Summary(M, c) /\ Row(c).open = Open(c)
                           /\ Shown(c) \/ c \in reused
StoreCatchesUp == <>[]CaughtUp
=============================================================================
