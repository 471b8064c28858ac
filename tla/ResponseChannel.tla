-------------------------- MODULE ResponseChannel --------------------------
(***************************************************************************)
(* The response channel: actions proposed on an investigation, approved    *)
(* by people, queued in a durable outbox and sent, one at a time, to a     *)
(* remote workflow (src/engine/response/, the action routes of             *)
(* src/engine/api/router_v2.py and the start/stop of src/engine/runtime.py *)
(* and app.py).                                                            *)
(*                                                                         *)
(* Every write of the program is one SQLite transaction behind one lock,   *)
(* so a transaction is one step here; everything else (HTTP requests, the  *)
(* dispatcher's network call, a stop of the process) interleaves between   *)
(* transactions.  The variables of the first group are rows of the store   *)
(* and survive a stop; those of the second are lost with the process.      *)
(***************************************************************************)
EXTENDS Naturals, Sequences, FiniteSets

CONSTANTS
  Actions,        \* action ids (uuid4): the rows response_actions may get
  Analysts,       \* users whose role allows proposing
  Responders,     \* users whose role allows approving and reconciling
  Workflows,      \* workflow ids of the policy
  Required,       \* Required[w]: approvals workflow w needs
  Separated,      \* workflows with separation of duties
  Clusters,       \* investigation ids
  Configs,        \* channel configurations the runtime may be started with
  MaxRevision,    \* bound: saved revisions of an investigation
  MaxStops,       \* bound: stops or crashes of the process
  NoAction, NoCluster, NoProposal

ASSUME ResponseAssumption ==
  /\ Responders \subseteq Analysts
  /\ Required \in [Workflows -> Nat \ {0}]
  /\ Separated \subseteq Workflows
  /\ MaxRevision \in Nat /\ MaxStops \in Nat
  /\ Configs \subseteq [enabled : BOOLEAN, transport : BOOLEAN,
                        allowed : SUBSET Workflows]
  /\ \A g \in Configs : g.transport => g.enabled
  /\ NoAction \notin Actions /\ NoCluster \notin Clusters

VARIABLES
  state,        \* response_actions.state ("absent": no such row)
  proposal,     \* requester, cluster, revision and workflow of the row
  approvals,    \* approvals_json: who approved, at which evidence
  due,          \* expires_at < utcnow()
  outbox,       \* outbox.delivery_state ("none": no such row)
  order,        \* outbox rows by created_at
  latest,       \* investigations.latest_revision (0: not stored)
  mergedInto,   \* investigations.merged_into

  phase,        \* where the process and its dispatcher are
  channel,      \* configuration of the running process
  current,      \* the action run_once holds between claim and settle
  verdict,      \* the DispatchResult it got
  todo,         \* outbox rows recover() still has to look at
  lookup,       \* status checks in flight that saw a delivered run
  stops,        \* stops so far
  dropped,      \* claimed by this process, let go of without a result

  sends,        \* calls of transport.send, per action
  runs,         \* workflow runs they started (remote side)
  sentOn,       \* evidence the action was claimed on
  misjudged     \* actions a person declared undelivered although they ran

stored   == <<state, proposal, approvals, due, outbox, order>>
evidence == <<latest, mergedInto>>
process  == <<phase, channel, current, verdict, todo, stops, dropped>>
remote   == <<sends, runs, sentOn, misjudged>>
vars     == <<stored, evidence, process, lookup, remote>>

----------------------------------------------------------------------------
\* The action state machine (models.py).

ActionStates ==
  {"approval_required", "queued", "dispatching", "acknowledged", "rejected",
   "expired", "cancelled", "failed_without_effect", "reconciliation_required"}

\* A state no approval, dispatch or reconciliation may leave any more.
Withdrawn == {"rejected", "expired", "cancelled"}

\* The states a proposal frees its idempotency key in (ux_actions_idem).
KeyFreeTooEarly == Withdrawn \cup {"failed_without_effect", "reconciliation_required"}
KeyFree == Withdrawn \cup {"failed_without_effect"}

\* Hops of TRANSITIONS, "approved" being left in the transaction that enters it.
Transitions ==
  [s \in ActionStates \cup {"absent"} |->
    CASE s = "absent" -> {"approval_required"}
      [] s = "approval_required" -> {"queued", "rejected", "expired", "cancelled"}
      [] s = "queued" -> {"dispatching", "expired", "cancelled"}
      [] s = "dispatching" ->
           {"acknowledged", "failed_without_effect", "reconciliation_required"}
      [] s = "reconciliation_required" -> {"acknowledged", "failed_without_effect"}
      [] OTHER -> {}]

\* The outbox label that mirrors an action (Dispatcher._OUTBOX_FOR; a queued or
\* dispatching row carries the action's own state).
OutboxForSame == [s \in ActionStates \cup {"absent"} |-> s]
OutboxForFewer ==
  [s \in ActionStates \cup {"absent"} |->
    CASE s \in {"queued", "dispatching", "expired", "cancelled"} -> s
      [] s = "acknowledged" -> "delivered"
      [] s = "failed_without_effect" -> "failed"
      [] OTHER -> "inconsistent"]
OutboxFor ==
  [s \in ActionStates \cup {"absent"} |->
    CASE s \in {"queued", "dispatching", "reconciliation_required", "expired",
                "cancelled"} -> s
      [] s = "acknowledged" -> "delivered"
      [] s = "failed_without_effect" -> "failed"
      [] s = "rejected" -> "cancelled"
      [] OTHER -> "inconsistent"]

OutboxStates ==
  {"none", "queued", "dispatching", "delivered", "failed", "expired",
   "cancelled", "reconciliation_required", "inconsistent"}

Proposals == [by : Analysts, cluster : Clusters, revision : 0..MaxRevision,
              workflow : Workflows]

\* What the idempotency key is a hash of; the payload is the workflow's.
Key(p) == <<p.workflow, p.cluster, p.revision>>

\* The runtime has started: routes answer and evaluation runs.
Up == phase \notin {"down", "recovering"}

----------------------------------------------------------------------------
\* The investigation an action belongs to.

\* One hop and the five rows current_revision reads.
Hop(c)  == IF mergedInto[c] = NoCluster THEN c ELSE mergedInto[c]
Live(c) == Hop(Hop(Hop(Hop(c))))

\* latest revision following merges; 0 when nothing is stored to compare with
CurrentRevision(c) ==
  IF mergedInto[Live(c)] = NoCluster THEN latest[Live(c)] ELSE 0

\* The evidence a reader of the investigation sees now.
Evidence(c) == <<Live(c), latest[Live(c)]>>

Stale(a) ==
  /\ CurrentRevision(proposal[a].cluster) # 0
  /\ CurrentRevision(proposal[a].cluster) # proposal[a].revision

\* InvestigationStore.sync saves a changed chain as a new revision.
Revise(c) ==
  /\ Up
  /\ mergedInto[c] = NoCluster /\ latest[c] < MaxRevision
  /\ latest' = [latest EXCEPT ![c] = @ + 1]
  /\ UNCHANGED <<stored, mergedInto, process, lookup, remote>>

\* sync of a merge: the winner is saved with the joint alerts, then the loser
\* is pointed at it, in one transaction.
Merge(c, d) ==
  /\ Up
  /\ c # d /\ latest[c] > 0 /\ latest[d] \in 1..(MaxRevision - 1)
  /\ mergedInto[c] = NoCluster /\ mergedInto[d] = NoCluster
  /\ latest' = [latest EXCEPT ![d] = @ + 1]
  /\ mergedInto' = [mergedInto EXCEPT ![c] = d]
  /\ UNCHANGED <<stored, process, lookup, remote>>

\* The time-to-live of an open action elapses.
TtlElapses(a) ==
  /\ state[a] \in {"approval_required", "queued"} /\ ~due[a]
  /\ due' = [due EXCEPT ![a] = TRUE]
  /\ UNCHANGED <<state, proposal, approvals, outbox, order, evidence, process,
                 lookup, remote>>

----------------------------------------------------------------------------
\* What people do (ActionService, Reconciler, RunStatusService).

\* The route compared the revision with the store before this transaction, at
\* some earlier moment: any revision that was current until now may arrive.
Propose(a, u, c, r, w) ==
  /\ Up /\ channel.enabled /\ w \in channel.allowed
  /\ state[a] = "absent" /\ r \in 0..latest[c]
  /\ LET p == [by |-> u, cluster |-> c, revision |-> r, workflow |-> w]
     IN  /\ \A b \in Actions :
              state[b] \notin KeyFree \cup {"absent"} => Key(proposal[b]) # Key(p)
         /\ proposal' = [proposal EXCEPT ![a] = p]
  /\ state' = [state EXCEPT ![a] = "approval_required"]
  /\ UNCHANGED <<approvals, due, outbox, order, evidence, process, lookup, remote>>

\* approve() of an action that ran out of time or whose investigation moved on.
ApproveExpires(a) ==
  /\ Up /\ state[a] = "approval_required"
  /\ due[a] \/ Stale(a)
  /\ state' = [state EXCEPT ![a] = "expired"]
  /\ UNCHANGED <<proposal, approvals, due, outbox, order, evidence, process,
                 lookup, remote>>

\* Separation of duties, and one approval per person.
MayApproveAgain(u, a) == proposal[a].workflow \in Separated => u # proposal[a].by
MayApprove(u, a) ==
  /\ proposal[a].workflow \in Separated => u # proposal[a].by
  /\ \A i \in 1..Len(approvals[a]) : approvals[a][i].by # u

\* approve() that counts; the last one it takes queues the action.
Approve(u, a) ==
  /\ Up /\ state[a] = "approval_required"
  /\ ~due[a] /\ ~Stale(a)
  /\ proposal[a].workflow \in channel.allowed /\ MayApprove(u, a)
  /\ approvals' = [approvals EXCEPT ![a] =
                     Append(@, [by |-> u, at |-> Evidence(proposal[a].cluster)])]
  /\ IF Len(approvals[a]) + 1 >= Required[proposal[a].workflow]
       THEN /\ state' = [state EXCEPT ![a] = "queued"]
            /\ outbox' = [outbox EXCEPT ![a] = "queued"]
            /\ order' = Append(order, a)
       ELSE UNCHANGED <<state, outbox, order>>
  /\ UNCHANGED <<proposal, due, evidence, process, lookup, remote>>

Reject(a) ==
  /\ Up /\ state[a] = "approval_required"
  /\ state' = [state EXCEPT ![a] = "rejected"]
  /\ UNCHANGED <<proposal, approvals, due, outbox, order, evidence, process,
                 lookup, remote>>

CancellableInFlight == {"approval_required", "queued", "dispatching"}
Cancellable == {"approval_required", "queued"}

\* The requester, or any responder.
Cancel(a) ==
  /\ Up /\ state[a] \in Cancellable
  /\ state' = [state EXCEPT ![a] = "cancelled"]
  /\ outbox' = IF state[a] = "queued" /\ outbox[a] = "queued"
                 THEN [outbox EXCEPT ![a] = "cancelled"] ELSE outbox
  /\ UNCHANGED <<proposal, approvals, due, order, evidence, process, lookup, remote>>

\* A responder records what became of the original request.
Resolve(a, delivered) ==
  /\ Up /\ state[a] = "reconciliation_required"
  /\ state' = [state EXCEPT ![a] =
                 IF delivered THEN "acknowledged" ELSE "failed_without_effect"]
  /\ outbox' = [outbox EXCEPT ![a] = IF delivered THEN "delivered" ELSE "failed"]
  /\ misjudged' = IF ~delivered /\ runs[a] > 0 THEN misjudged \cup {a} ELSE misjudged
  /\ UNCHANGED <<proposal, approvals, due, order, evidence, process, lookup,
                 sends, runs, sentOn>>

\* check() reads the action and asks Azure.  Only a single run that is running,
\* waiting or succeeded proves anything; any other answer is merely recorded.
CheckLookup(a) ==
  /\ Up /\ a \notin lookup
  /\ state[a] \in {"acknowledged", "reconciliation_required"}
  /\ runs[a] = 1
  /\ lookup' = lookup \cup {a}
  /\ UNCHANGED <<stored, evidence, process, remote>>

ProvesStale(a) == TRUE
Proves(a) == state[a] = "reconciliation_required"

\* check() writes what it saw, after re-reading the state.
CheckRecord(a) ==
  /\ Up /\ a \in lookup
  /\ lookup' = lookup \ {a}
  /\ IF Proves(a)
       THEN /\ state' = [state EXCEPT ![a] = "acknowledged"]
            /\ outbox' = [outbox EXCEPT ![a] = "delivered"]
       ELSE UNCHANGED <<state, outbox>>
  /\ UNCHANGED <<proposal, approvals, due, order, evidence, process, remote>>

----------------------------------------------------------------------------
\* The dispatcher: run_once is Claim, Send (or the policy's refusal), Settle.

Place(a) == CHOOSE i \in 1..Len(order) : order[i] = a

\* _claim works through the queued rows, oldest first, and stops at the first
\* that may be sent; the rows before it are closed in the same transaction.
Waiting == {a \in Actions : outbox[a] = "queued"}
SendableStale == {a \in Waiting : state[a] = "queued" /\ ~due[a]}
Sendable == {a \in Waiting : state[a] = "queued" /\ ~due[a] /\ ~Stale(a)}
Oldest == {a \in Sendable : \A b \in Sendable : Place(a) <= Place(b)}
SkippedNone == {}
Skipped == {b \in Waiting \ Sendable : \A a \in Oldest : Place(b) < Place(a)}

Claim ==
  /\ phase = "idle" /\ Waiting # {}
  /\ state' = [a \in Actions |->
       IF a \in Oldest THEN "dispatching"
       ELSE IF a \in Skipped /\ state[a] = "queued" THEN "expired" ELSE state[a]]
  /\ outbox' = [a \in Actions |->
       IF a \in Oldest THEN "dispatching"
       ELSE IF a \in Skipped
              THEN IF state[a] = "queued" THEN "expired" ELSE "cancelled"
              ELSE outbox[a]]
  /\ IF Sendable = {}
       THEN UNCHANGED <<phase, current, sentOn>>
       ELSE \E a \in Oldest :
              /\ current' = a /\ phase' = "sending"
              /\ sentOn' = [sentOn EXCEPT ![a] = Evidence(proposal[a].cluster)]
  /\ UNCHANGED <<proposal, approvals, due, order, evidence, channel, verdict, todo,
                 stops, dropped, lookup, sends, runs, misjudged>>

\* policy.get raises outside the try: the cycle ends, the claim stays.
PolicyRefuses ==
  /\ phase = "sending" /\ proposal[current].workflow \notin channel.allowed
  /\ phase' = "idle" /\ current' = NoAction
  /\ dropped' = dropped \cup {current}
  /\ UNCHANGED <<stored, evidence, channel, verdict, todo, stops, lookup, remote>>

\* What LogicAppsTransport.send may report, and whether a run was started:
\* 2xx; token failure, no connection or 4xx; anything else.
DeliveryOutcomes ==
  {[verdict |-> "accepted", ran |-> 1], [verdict |-> "rejected", ran |-> 0],
   [verdict |-> "unknown", ran |-> 0], [verdict |-> "unknown", ran |-> 1]}

Send ==
  /\ phase = "sending" /\ proposal[current].workflow \in channel.allowed
  /\ \E d \in DeliveryOutcomes :
       /\ verdict' = d.verdict
       /\ runs' = [runs EXCEPT ![current] = @ + d.ran]
  /\ sends' = [sends EXCEPT ![current] = @ + 1]
  /\ phase' = "settling"
  /\ UNCHANGED <<stored, evidence, channel, current, todo, stops, dropped, lookup,
                 sentOn, misjudged>>

SettledState ==
  CASE verdict = "accepted" -> "acknowledged"
    [] verdict = "rejected" -> "failed_without_effect"
    [] OTHER -> "reconciliation_required"

\* _record_result: both rows in one transaction, only from a legal state.
Settle ==
  /\ phase = "settling"
  /\ IF SettledState \in Transitions[state[current]]
       THEN /\ state' = [state EXCEPT ![current] = SettledState]
            /\ outbox' = [outbox EXCEPT ![current] = OutboxFor[SettledState]]
       ELSE UNCHANGED <<state, outbox>>
  /\ phase' = "idle" /\ current' = NoAction /\ verdict' = "none"
  /\ UNCHANGED <<proposal, approvals, due, order, evidence, channel, todo, stops,
                 dropped, lookup, remote>>

\* The store raises inside _record_result and the transaction is rolled back:
\* the loop logs a failed cycle, and what was sent has no result.
SettleFails ==
  /\ phase = "settling"
  /\ phase' = "idle" /\ current' = NoAction /\ verdict' = "none"
  /\ dropped' = dropped \cup {current}
  /\ UNCHANGED <<stored, evidence, channel, todo, stops, lookup, remote>>

----------------------------------------------------------------------------
\* The process: a stop (reconfigure, shutdown or crash) at any point, a start
\* with the configuration of that moment, and recovery of the outbox.

Stop ==
  /\ phase # "down" /\ stops < MaxStops
  /\ phase' = "down" /\ stops' = stops + 1
  /\ current' = NoAction /\ verdict' = "none" /\ todo' = {}
  /\ lookup' = {} /\ dropped' = {}
  /\ UNCHANGED <<stored, evidence, channel, remote>>

Unsettled == {a \in Actions : outbox[a] \in {"queued", "dispatching"}}

\* V2Runtime.start: the dispatcher, and with it recovery, only runs with an
\* enabled channel and a transport.
Start(g) ==
  /\ phase = "down"
  /\ channel' = g
  /\ IF g.transport /\ g.enabled
       THEN phase' = "recovering" /\ todo' = Unsettled
       ELSE phase' = "off" /\ UNCHANGED todo
  /\ UNCHANGED <<stored, evidence, current, verdict, stops, dropped, lookup, remote>>

\* recover() judges an open row by the action's persisted state.
RecoveredResent(s) == IF s = "dispatching" THEN "queued" ELSE s
RecoveredLeft(s) == s
Recovered(s) == IF s = "dispatching" THEN "reconciliation_required" ELSE s

\* One turn of recover().
RecoverRow(a) ==
  /\ phase = "recovering" /\ a \in todo
  /\ todo' = todo \ {a}
  /\ state' = [state EXCEPT ![a] = Recovered(@)]
  /\ outbox' = [outbox EXCEPT ![a] = OutboxFor[Recovered(state[a])]]
  /\ UNCHANGED <<proposal, approvals, due, order, evidence, phase, channel, current,
                 verdict, stops, dropped, lookup, remote>>

RecoveryDone ==
  /\ phase = "recovering" /\ todo = {}
  /\ phase' = "idle"
  /\ UNCHANGED <<stored, evidence, channel, current, verdict, todo, stops, dropped,
                 lookup, remote>>

----------------------------------------------------------------------------
\* A new store, before the first start.
Init ==
  /\ state = [a \in Actions |-> "absent"]
  /\ proposal = [a \in Actions |-> NoProposal]
  /\ approvals = [a \in Actions |-> <<>>]
  /\ due = [a \in Actions |-> FALSE]
  /\ outbox = [a \in Actions |-> "none"]
  /\ order = <<>>
  /\ latest = [c \in Clusters |-> 0]
  /\ mergedInto = [c \in Clusters |-> NoCluster]
  /\ phase = "down"
  /\ channel = [enabled |-> FALSE, transport |-> FALSE, allowed |-> {}]
  /\ current = NoAction /\ verdict = "none" /\ todo = {} /\ stops = 0
  /\ dropped = {}
  /\ lookup = {}
  /\ sends = [a \in Actions |-> 0]
  /\ runs = [a \in Actions |-> 0]
  /\ sentOn = [a \in Actions |-> <<NoCluster, 0>>]
  /\ misjudged = {}

People ==
  \E a \in Actions :
    \/ \E u \in Analysts, c \in Clusters, r \in 0..MaxRevision, w \in Workflows :
         Propose(a, u, c, r, w)
    \/ Cancel(a)
    \/ \E u \in Responders : Approve(u, a)
    \/ Responders # {} /\ (ApproveExpires(a) \/ Reject(a) \/ CheckLookup(a))
    \/ \E delivered \in BOOLEAN : Responders # {} /\ Resolve(a, delivered)
    \/ CheckRecord(a)

Dispatcher == Claim \/ PolicyRefuses \/ Send \/ Settle \/ SettleFails

Recovery == (\E a \in Actions : RecoverRow(a)) \/ RecoveryDone

Environment ==
  \/ \E c \in Clusters : Revise(c)
  \/ \E c, d \in Clusters : Merge(c, d)
  \/ \E a \in Actions : TtlElapses(a)

Next ==
  \/ People
  \/ Dispatcher
  \/ Recovery
  \/ Environment
  \/ Stop
  \/ \E g \in Configs : Start(g)

Spec == Init /\ [][Next]_vars

\* The dispatcher's loop and recovery are tasks of the event loop, a send ends
\* by its HTTP timeout, and a stopped service is started again.  A send's
\* result is written or refused: the store may refuse it every time.  Nobody
\* has to propose, approve or reconcile anything.
Fairness ==
  /\ WF_vars(Claim) /\ WF_vars(PolicyRefuses) /\ WF_vars(Send)
  /\ WF_vars(Settle \/ SettleFails)
  /\ WF_vars(Recovery)
  /\ WF_vars(\E g \in Configs : Start(g))

FairSpec == Spec /\ Fairness

----------------------------------------------------------------------------
\* Properties.

Approvals == [by : Responders, at : Clusters \X (0..MaxRevision)]

RowsTyped ==
  /\ state \in [Actions -> ActionStates \cup {"absent"}]
  /\ proposal \in [Actions -> Proposals \cup {NoProposal}]
  /\ \A a \in Actions : state[a] # "absent" => proposal[a] \in Proposals
  /\ approvals \in [Actions -> Seq(Approvals)]
  /\ due \in [Actions -> BOOLEAN]
  /\ outbox \in [Actions -> OutboxStates]
  /\ order \in Seq(Actions)

EvidenceTyped ==
  /\ latest \in [Clusters -> 0..MaxRevision]
  /\ mergedInto \in [Clusters -> Clusters \cup {NoCluster}]

ProcessTyped ==
  /\ phase \in {"down", "recovering", "off", "idle", "sending", "settling"}
  /\ channel.enabled \in BOOLEAN /\ channel.transport \in BOOLEAN
  /\ channel.allowed \subseteq Workflows
  /\ current \in Actions \cup {NoAction}
  /\ phase \in {"sending", "settling"} <=> current # NoAction
  /\ verdict \in {"none", "accepted", "rejected", "unknown"}
  /\ todo \subseteq Actions
  /\ lookup \subseteq Actions
  /\ stops \in 0..MaxStops /\ dropped \subseteq Actions

RemoteTyped ==
  /\ sends \in [Actions -> Nat] /\ runs \in [Actions -> Nat]
  /\ sentOn \in [Actions -> (Clusters \cup {NoCluster}) \X (0..MaxRevision)]
  /\ misjudged \subseteq Actions

\* The rows, the requests and the process hold values of their kinds
\* (response_actions and outbox of migrations.py).
TypeOK == RowsTyped /\ EvidenceTyped /\ ProcessTyped /\ RemoteTyped

\* An action and its outbox row never disagree, whatever transaction the
\* process stopped after: there is no window where an action is final but its
\* row is still open, and recovery has nothing to repair or flag.
AgreeingPairs ==
  ({"absent", "approval_required", "rejected", "expired", "cancelled"} \X {"none"})
  \cup {<<s, s>> : s \in {"queued", "dispatching", "reconciliation_required",
                          "expired", "cancelled"}}
  \cup {<<"acknowledged", "delivered">>, <<"failed_without_effect", "failed">>}

PairAgrees == \A a \in Actions : <<state[a], outbox[a]>> \in AgreeingPairs

\* transport.send is called at most once for an action, over every stop,
\* restart and recovery: an ambiguous delivery is never resent.
AtMostOneRequest == \A a \in Actions : sends[a] <= 1

\* No request leaves for an action that was cancelled, rejected or expired,
\* even when that raced with the dispatcher.
WithdrawnNeverSent == \A a \in Actions : state[a] \in Withdrawn => sends[a] = 0

\* A queued or sent action carries the approvals its workflow needs, from that
\* many different people, the requester not among them under separation of
\* duties.
Approvers(a) == {approvals[a][i].by : i \in 1..Len(approvals[a])}
AuthorisedByEnough ==
  \A a \in Actions :
    state[a] = "queued" \/ sends[a] > 0 =>
      /\ Cardinality(Approvers(a)) >= Required[proposal[a].workflow]
      /\ proposal[a].workflow \in Separated => proposal[a].by \notin Approvers(a)

\* One workflow run per idempotency key, unless a person declared a request
\* undelivered that had in fact arrived: the unique index frees the key only
\* when nothing can have happened.
OneEffectPerKey ==
  \A a, b \in Actions :
    a # b /\ runs[a] > 0 /\ runs[b] > 0 /\ Key(proposal[a]) = Key(proposal[b])
      => {a, b} \cap misjudged # {}

\* An action is sent on the evidence everybody who approved it had seen.  The
\* contract document says so of every change of the investigation.
SentOnApprovedEvidence ==
  \A a \in Actions : sends[a] > 0 =>
    \A i \in 1..Len(approvals[a]) : approvals[a][i].at = sentOn[a]

\* The same, of an investigation that is not merged into another: approvals
\* and claim saw exactly the proposed revision.
UnmergedSentOnApprovedEvidence ==
  \A a \in Actions :
    sends[a] > 0 /\ mergedInto[proposal[a].cluster] = NoCluster =>
      /\ sentOn[a] = <<proposal[a].cluster, proposal[a].revision>>
      /\ \A i \in 1..Len(approvals[a]) : approvals[a][i].at = sentOn[a]

\* While the channel runs, an action says "dispatching" only when the dispatcher
\* holds it, recovery is about to judge it, or this process let go of it in a
\* cycle that raised (a workflow off the allowlist, a result the store refused).
\* The last stays so until the next start, which hands it to recovery with
\* whatever a stop left mid-send; nobody else can move it meanwhile.
DispatchingIsHeld ==
  phase \notin {"down", "off"} =>
    /\ \A a \in Actions :
         state[a] = "dispatching" => a = current \/ a \in todo \/ a \in dropped
    /\ \A a \in dropped : state[a] = "dispatching" /\ outbox[a] = "dispatching"

\* A process stopped mid-send leaves nothing "dispatching" once it is up again
\* (the delivery table of the contract document).
SettledOnRestart ==
  \A a \in Actions : Up /\ state[a] = "dispatching" => a = current

\* Actions move only along TRANSITIONS, whoever writes the row, and what is
\* final stays so: a late lookup or a slow dispatcher revives nothing.
OnlyLegalMoves ==
  [][\A a \in Actions :
       state'[a] # state[a] => state'[a] \in Transitions[state[a]]]_vars

\* The channel implements the delivery promise: every step is one of
\* DeliveryOnce, or changes nothing of it.
Stage(s) ==
  CASE s \in {"absent", "approval_required"} -> "open"
    [] s = "queued" -> "authorised"
    [] s = "dispatching" -> "taken"
    [] s \in Withdrawn -> "withdrawn"
    [] OTHER -> "settled"

DO == INSTANCE DeliveryOnce
        WITH stage <- [a \in Actions |-> Stage(state[a])], sent <- sends

DeliversOnce == DO!Spec

\* An action handed to the outbox gets an outcome, or its cycle raised and it
\* waits for the next start, which settles it: rows the dispatcher may not send,
\* and cycles that raise, do not hold up those behind them, and a process that
\* stops between the claim and the result leaves nothing open once it runs again.
Open(a) == state[a] \in {"queued", "dispatching"} /\ a \notin dropped
HandedOverSettles == \A a \in Actions : Open(a) ~> ~Open(a)

=============================================================================
