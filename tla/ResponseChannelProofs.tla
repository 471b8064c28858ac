----------------------- MODULE ResponseChannelProofs -----------------------
(***************************************************************************)
(* Proofs about ResponseChannel, for every set of actions, people,         *)
(* workflows and investigations, every configuration and any number of     *)
(* stops.                                                                  *)
(***************************************************************************)
EXTENDS ResponseChannel, TLAPS, FiniteSetTheorems

----------------------------------------------------------------------------
\* Types.

\* The investigation a proposal lives on is an investigation, and its evidence
\* is typed.
LEMMA LiveType ==
  ASSUME EvidenceTyped, NEW c \in Clusters
  PROVE  /\ Live(c) \in Clusters
         /\ Evidence(c) \in Clusters \X (0..MaxRevision)
<1>1. ASSUME NEW d \in Clusters PROVE Hop(d) \in Clusters
  BY <1>1 DEF EvidenceTyped, Hop
<1>2. Live(c) \in Clusters
  BY <1>1 DEF Live
<1>3. latest[Live(c)] \in 0..MaxRevision
  BY <1>2 DEF EvidenceTyped
<1> QED
  BY <1>2, <1>3 DEF Evidence

LEMMA AppendType ==
  ASSUME NEW S, NEW s \in Seq(S), NEW e \in S
  PROVE  Append(s, e) \in Seq(S)
OBVIOUS

LEMMA TypeInit == Init => TypeOK
BY ResponseAssumption
   DEF Init, TypeOK, RowsTyped, EvidenceTyped, ProcessTyped, RemoteTyped,
       ActionStates, OutboxStates, ResponseAssumption

\* Only people, the dispatcher, recovery and the clock write rows.
LEMMA RowsStep == TypeOK /\ [Next]_vars => RowsTyped'
<1> SUFFICES ASSUME TypeOK, [Next]_vars PROVE RowsTyped'
  OBVIOUS
<1>0. RowsTyped /\ EvidenceTyped
  BY DEF TypeOK
<1> USE DEF RowsTyped, ActionStates, OutboxStates
<1>1. ASSUME NEW a \in Actions, NEW u \in Analysts, NEW c \in Clusters,
             NEW r \in 0..MaxRevision, NEW w \in Workflows, Propose(a, u, c, r, w)
      PROVE RowsTyped'
  BY <1>0, <1>1 DEF Propose, Proposals
<1>2. ASSUME NEW a \in Actions, Cancel(a) PROVE RowsTyped'
  BY <1>0, <1>2 DEF Cancel, Cancellable
<1>3. ASSUME NEW a \in Actions, NEW u \in Responders, Approve(u, a) PROVE RowsTyped'
  <2>1. proposal[a].cluster \in Clusters
    BY <1>0, <1>3 DEF Approve, Proposals
  <2> DEFINE e == [by |-> u, at |-> Evidence(proposal[a].cluster)]
  <2>2. e \in Approvals
    BY <1>0, <2>1, LiveType DEF Approvals
  <2>3. approvals[a] \in Seq(Approvals)
    BY <1>0
  <2>4. Append(approvals[a], e) \in Seq(Approvals)
    BY <2>2, <2>3, AppendType
  <2>5. approvals' = [approvals EXCEPT ![a] = Append(approvals[a], e)]
    BY <1>3 DEF Approve
  <2> HIDE DEF e
  <2>6. approvals' \in [Actions -> Seq(Approvals)]
    BY <1>0, <2>4, <2>5
  <2>7. order' \in Seq(Actions)
    <3>1. order' = order \/ order' = Append(order, a)
      BY <1>3 DEF Approve
    <3>2. order \in Seq(Actions)
      BY <1>0
    <3>3. Append(order, a) \in Seq(Actions)
      BY <3>2, AppendType
    <3> QED
      BY <3>1, <3>2, <3>3
  <2> QED
    BY <1>0, <1>3, <2>6, <2>7 DEF Approve
<1>4. ASSUME NEW a \in Actions, ApproveExpires(a) \/ Reject(a) PROVE RowsTyped'
  BY <1>0, <1>4 DEF ApproveExpires, Reject
<1>5. ASSUME NEW a \in Actions, CheckRecord(a) PROVE RowsTyped'
  BY <1>0, <1>5 DEF CheckRecord, Proves
<1>6. ASSUME NEW a \in Actions, NEW d \in BOOLEAN, Resolve(a, d) PROVE RowsTyped'
  BY <1>0, <1>6 DEF Resolve
<1>7. CASE Claim
  <2>1. Oldest \subseteq Actions /\ \A a \in Oldest : state[a] = "queued"
    BY DEF Oldest, Sendable, Waiting
  <2> QED
    BY <1>0, <1>7, <2>1 DEF Claim
<1>8. CASE Settle
  <2>1. SettledState \in ActionStates
    BY DEF SettledState
  <2>2. OutboxFor[SettledState] \in OutboxStates
    BY DEF SettledState, OutboxFor
  <2>3. state[current] = "absent" => SettledState \notin Transitions[state[current]]
    BY DEF SettledState, Transitions
  <2> QED
    BY <1>0, <1>8, <2>1, <2>2, <2>3 DEF Settle
<1>9. ASSUME NEW a \in Actions, RecoverRow(a) PROVE RowsTyped'
  BY <1>0, <1>9 DEF RecoverRow, Recovered, OutboxFor
<1>10. ASSUME NEW a \in Actions, TtlElapses(a) PROVE RowsTyped'
  BY <1>0, <1>10 DEF TtlElapses
<1>11. ASSUME UNCHANGED stored PROVE RowsTyped'
  BY <1>0, <1>11 DEF stored
<1>12. ASSUME \/ \E a \in Actions : CheckLookup(a)
              \/ \E c \in Clusters : Revise(c)
              \/ \E c, d \in Clusters : Merge(c, d)
              \/ \E g \in Configs : Start(g)
              \/ PolicyRefuses \/ SettleFails \/ Send \/ RecoveryDone \/ Stop \/ UNCHANGED vars
       PROVE UNCHANGED stored
  BY <1>12 DEF CheckLookup, Revise, Merge, Start, PolicyRefuses, SettleFails, Send, RecoveryDone,
               Stop, vars
<1> QED
  BY <1>1, <1>2, <1>3, <1>4, <1>5, <1>6, <1>7, <1>8, <1>9, <1>10, <1>11, <1>12
     DEF Next, People, Dispatcher, Recovery, Environment

\* What people do changes rows only: not the investigations, the dispatcher,
\* what was sent.
Untouched ==
  /\ UNCHANGED evidence /\ UNCHANGED process
  /\ sends' = sends /\ runs' = runs /\ sentOn' = sentOn /\ misjudged \subseteq misjudged'
  /\ lookup' \subseteq lookup \cup Actions

LEMMA PeopleLeave == People => Untouched
<1>1. ASSUME NEW a \in Actions, NEW u \in Analysts, NEW c \in Clusters,
             NEW r \in 0..MaxRevision, NEW w \in Workflows, Propose(a, u, c, r, w)
      PROVE  Untouched
  BY <1>1 DEF Propose, Untouched, remote
<1>2. ASSUME NEW a \in Actions, Cancel(a) PROVE Untouched
  BY <1>2 DEF Cancel, Untouched, remote
<1>3. ASSUME NEW a \in Actions, NEW u \in Responders, Approve(u, a) PROVE Untouched
  BY <1>3 DEF Approve, Untouched, remote
<1>4. ASSUME NEW a \in Actions, ApproveExpires(a) PROVE Untouched
  BY <1>4 DEF ApproveExpires, Untouched, remote
<1>5. ASSUME NEW a \in Actions, Reject(a) PROVE Untouched
  BY <1>5 DEF Reject, Untouched, remote
<1>6. ASSUME NEW a \in Actions, CheckLookup(a) PROVE Untouched
  BY <1>6 DEF CheckLookup, Untouched, remote
<1>7. ASSUME NEW a \in Actions, NEW d \in BOOLEAN, Resolve(a, d) PROVE Untouched
  BY <1>7 DEF Resolve, Untouched, remote
<1>8. ASSUME NEW a \in Actions, CheckRecord(a) PROVE Untouched
  BY <1>8 DEF CheckRecord, Untouched, remote
<1> QED
  BY <1>1, <1>2, <1>3, <1>4, <1>5, <1>6, <1>7, <1>8 DEF People

\* Only the correlation of alerts changes what is known of an investigation.
LEMMA EvidenceStep == TypeOK /\ [Next]_vars => EvidenceTyped'
<1> SUFFICES ASSUME TypeOK, [Next]_vars PROVE EvidenceTyped'
  OBVIOUS
<1>0. EvidenceTyped
  BY DEF TypeOK
<1>1. ASSUME NEW c \in Clusters, Revise(c) PROVE EvidenceTyped'
  <2>1. latest[c] + 1 \in 0..MaxRevision
    BY <1>0, <1>1, ResponseAssumption DEF Revise, EvidenceTyped, ResponseAssumption
  <2> QED
    BY <1>0, <1>1, <2>1 DEF Revise, EvidenceTyped
<1>2. ASSUME NEW c \in Clusters, NEW d \in Clusters, Merge(c, d) PROVE EvidenceTyped'
  <2>1. latest[d] + 1 \in 0..MaxRevision
    BY <1>0, <1>2, ResponseAssumption DEF Merge, EvidenceTyped, ResponseAssumption
  <2> QED
    BY <1>0, <1>2, <2>1 DEF Merge, EvidenceTyped
<1>3. ASSUME UNCHANGED evidence PROVE EvidenceTyped'
  BY <1>0, <1>3 DEF evidence, EvidenceTyped
<1>4. ASSUME People \/ Dispatcher \/ Recovery \/ Stop \/ UNCHANGED vars
      PROVE UNCHANGED evidence
  <2>1. ASSUME Dispatcher \/ Recovery PROVE UNCHANGED evidence
    BY <2>1 DEF Dispatcher, Claim, PolicyRefuses, SettleFails, Send, Settle,
                Recovery, RecoverRow,
                RecoveryDone
  <2>2. ASSUME Stop \/ UNCHANGED vars PROVE UNCHANGED evidence
    BY <2>2 DEF Stop, vars
  <2> QED
    BY <1>4, <2>1, <2>2, PeopleLeave DEF Untouched
<1>5. ASSUME \/ \E a \in Actions : TtlElapses(a)
             \/ \E g \in Configs : Start(g)
      PROVE UNCHANGED evidence
  BY <1>5 DEF TtlElapses, Start
<1> QED
  BY <1>1, <1>2, <1>3, <1>4, <1>5 DEF Next, Environment

LEMMA ProcessStep == TypeOK /\ [Next]_vars => ProcessTyped'
<1> SUFFICES ASSUME TypeOK, [Next]_vars PROVE ProcessTyped'
  OBVIOUS
<1>0. ProcessTyped
  BY DEF TypeOK
<1> USE DEF ProcessTyped
<1>1. CASE Claim
  <2>1. Oldest \subseteq Actions
    BY DEF Oldest, Sendable, Waiting
  <2>2. NoAction \notin Actions
    BY ResponseAssumption DEF ResponseAssumption
  <2>3. \/ UNCHANGED <<phase, current>>
        \/ \E a \in Oldest : current' = a /\ phase' = "sending"
    BY <1>1 DEF Claim
  <2>4. UNCHANGED <<channel, verdict, todo, lookup, stops, dropped>>
    BY <1>1 DEF Claim
  <2> QED
    BY <1>0, <1>1, <2>1, <2>2, <2>3, <2>4 DEF Claim
<1>2. CASE PolicyRefuses \/ SettleFails
  BY <1>0, <1>2 DEF PolicyRefuses, SettleFails
<1>3. CASE Send
  BY <1>0, <1>3 DEF Send, DeliveryOutcomes
<1>4. CASE Settle
  BY <1>0, <1>4 DEF Settle
<1>5. ASSUME NEW a \in Actions, RecoverRow(a) PROVE ProcessTyped'
  BY <1>0, <1>5 DEF RecoverRow
<1>6. CASE RecoveryDone
  BY <1>0, <1>6 DEF RecoveryDone
<1>7. CASE Stop
  BY <1>0, <1>7, ResponseAssumption DEF Stop, ResponseAssumption
<1>8. ASSUME NEW g \in Configs, Start(g) PROVE ProcessTyped'
  BY <1>0, <1>8, ResponseAssumption DEF Start, Unsettled, ResponseAssumption
<1>9. ASSUME People \/ Environment \/ UNCHANGED vars
      PROVE UNCHANGED process /\ lookup' \subseteq Actions
  <2>1. ASSUME Environment \/ UNCHANGED vars
        PROVE  UNCHANGED process /\ lookup' \subseteq Actions
    BY <1>0, <2>1 DEF Environment, Revise, Merge, TtlElapses, vars
  <2> QED
    BY <1>0, <1>9, <2>1, PeopleLeave DEF Untouched
<1>10. ASSUME UNCHANGED process, lookup' \subseteq Actions PROVE ProcessTyped'
  BY <1>0, <1>10 DEF process
<1> QED
  BY <1>1, <1>2, <1>3, <1>4, <1>5, <1>6, <1>7, <1>8, <1>9, <1>10
     DEF Next, Dispatcher, Recovery

LEMMA RemoteStep == TypeOK /\ [Next]_vars => RemoteTyped'
<1> SUFFICES ASSUME TypeOK, [Next]_vars PROVE RemoteTyped'
  OBVIOUS
<1>0. RemoteTyped /\ ProcessTyped
  BY DEF TypeOK
<1> USE DEF RemoteTyped
<1>1. CASE Claim
  <2>1. ASSUME NEW a \in Oldest
        PROVE  Evidence(proposal[a].cluster)
                 \in (Clusters \cup {NoCluster}) \X (0..MaxRevision)
    <3>1. proposal[a].cluster \in Clusters
      BY DEF TypeOK, RowsTyped, Oldest, Sendable, Waiting, Proposals
    <3> QED
      BY <3>1, LiveType DEF TypeOK
  <2>2. \/ UNCHANGED sentOn
        \/ \E a \in Oldest :
             sentOn' = [sentOn EXCEPT ![a] = Evidence(proposal[a].cluster)]
    BY <1>1 DEF Claim
  <2>3. sentOn' \in [Actions -> (Clusters \cup {NoCluster}) \X (0..MaxRevision)]
    BY <1>0, <2>1, <2>2
  <2> QED
    BY <1>0, <1>1, <2>3 DEF Claim
<1>2. CASE Send
  <2>1. UNCHANGED <<sentOn, misjudged>>
    BY <1>2 DEF Send
  <2>2. PICK d \in DeliveryOutcomes : runs' = [runs EXCEPT ![current] = @ + d.ran]
    BY <1>2 DEF Send
  <2>3. d.ran \in Nat
    BY DEF DeliveryOutcomes
  <2>4. runs' \in [Actions -> Nat]
    <3>1. \A a \in Actions : runs[a] + d.ran \in Nat
      BY <1>0, <2>3
    <3> QED
      BY <1>0, <2>2, <3>1
  <2>5. sends' \in [Actions -> Nat]
    <3>1. \A a \in Actions : sends[a] + 1 \in Nat
      BY <1>0
    <3>2. sends' = [sends EXCEPT ![current] = @ + 1]
      BY <1>2 DEF Send
    <3> QED
      BY <1>0, <3>1, <3>2
  <2> QED
    BY <1>0, <2>1, <2>4, <2>5
<1>3. ASSUME NEW a \in Actions, NEW d \in BOOLEAN, Resolve(a, d) PROVE RemoteTyped'
  BY <1>0, <1>3 DEF Resolve
<1>4. ASSUME UNCHANGED remote PROVE RemoteTyped'
  BY <1>0, <1>4 DEF remote
<1>5. ASSUME \/ \E a \in Actions : Cancel(a) \/ ApproveExpires(a) \/ Reject(a)
                                     \/ CheckLookup(a) \/ CheckRecord(a)
             \/ \E a \in Actions, u \in Analysts, c \in Clusters,
                   r \in 0..MaxRevision, w \in Workflows : Propose(a, u, c, r, w)
             \/ \E a \in Actions, u \in Responders : Approve(u, a)
             \/ PolicyRefuses \/ Settle \/ SettleFails \/ Recovery \/ Environment \/ Stop
             \/ \E g \in Configs : Start(g)
             \/ UNCHANGED vars
      PROVE UNCHANGED remote
  BY <1>5 DEF Propose, Cancel, Approve, ApproveExpires, Reject, CheckLookup,
              CheckRecord, PolicyRefuses, Settle, SettleFails, Recovery, RecoverRow, RecoveryDone,
              Environment, Revise, Merge, TtlElapses, Stop, Start, vars
<1> QED
  BY <1>1, <1>2, <1>3, <1>4, <1>5 DEF Next, People, Dispatcher

LEMMA TypeStep == TypeOK /\ [Next]_vars => TypeOK'
BY RowsStep, EvidenceStep, ProcessStep, RemoteStep DEF TypeOK

\* The rows, the requests and the process hold values of their kinds, however
\* people, the dispatcher, recovery and stops interleave.
THEOREM TypeCorrect == Spec => []TypeOK
<1> QED
  BY TypeInit, TypeStep, PTL DEF Spec

----------------------------------------------------------------------------
\* The action state machine.

\* A claim takes and closes rows that are queued.
LEMMA ClaimedAreQueued ==
  /\ Oldest \subseteq Sendable
  /\ Skipped \subseteq Waiting
  /\ Sendable \subseteq Waiting
  /\ Waiting \subseteq Actions
  /\ \A a \in Sendable : state[a] = "queued"
  /\ \A a \in Waiting : outbox[a] = "queued"
BY DEF Oldest, Skipped, Sendable, Waiting

LEMMA LegalStep ==
  TypeOK /\ [Next]_vars =>
    \A a \in Actions : state'[a] # state[a] => state'[a] \in Transitions[state[a]]
<1> SUFFICES ASSUME TypeOK, [Next]_vars, NEW b \in Actions, state'[b] # state[b]
             PROVE  state'[b] \in Transitions[state[b]]
  OBVIOUS
<1>0. state \in [Actions -> ActionStates \cup {"absent"}]
  BY DEF TypeOK, RowsTyped
<1> USE DEF Transitions, ActionStates
<1>1. ASSUME NEW a \in Actions, NEW u \in Analysts, NEW c \in Clusters,
             NEW r \in 0..MaxRevision, NEW w \in Workflows, Propose(a, u, c, r, w)
      PROVE state'[b] \in Transitions[state[b]]
  BY <1>0, <1>1 DEF Propose
<1>2. ASSUME NEW a \in Actions, Cancel(a) \/ ApproveExpires(a) \/ Reject(a)
      PROVE state'[b] \in Transitions[state[b]]
  BY <1>0, <1>2 DEF Cancel, Cancellable, ApproveExpires, Reject
<1>3. ASSUME NEW a \in Actions, NEW u \in Responders, Approve(u, a)
      PROVE state'[b] \in Transitions[state[b]]
  BY <1>0, <1>3 DEF Approve
<1>4. ASSUME NEW a \in Actions, CheckRecord(a)
      PROVE state'[b] \in Transitions[state[b]]
  BY <1>0, <1>4 DEF CheckRecord, Proves
<1>5. ASSUME NEW a \in Actions, NEW d \in BOOLEAN, Resolve(a, d)
      PROVE state'[b] \in Transitions[state[b]]
  BY <1>0, <1>5 DEF Resolve
<1>6. CASE Claim
  BY <1>0, <1>6, ClaimedAreQueued DEF Claim
<1>7. CASE Settle
  <2>1. state' = state \/ (/\ state' = [state EXCEPT ![current] = SettledState]
                           /\ SettledState \in Transitions[state[current]])
    BY <1>7 DEF Settle
  <2> QED
    BY <1>0, <2>1
<1>8. ASSUME NEW a \in Actions, RecoverRow(a)
      PROVE state'[b] \in Transitions[state[b]]
  BY <1>0, <1>8 DEF RecoverRow, Recovered
<1>9. ASSUME \/ \E a \in Actions : CheckLookup(a)
             \/ Environment \/ Stop \/ (\E g \in Configs : Start(g))
             \/ PolicyRefuses \/ SettleFails \/ Send \/ RecoveryDone \/ UNCHANGED vars
       PROVE state' = state
  BY <1>9 DEF CheckLookup, Environment, Revise, Merge, TtlElapses, Start,
              PolicyRefuses, SettleFails, Send, RecoveryDone, Stop, vars, stored
<1> QED
  BY <1>1, <1>2, <1>3, <1>4, <1>5, <1>6, <1>7, <1>8, <1>9
     DEF Next, People, Dispatcher, Recovery

\* Actions move only along TRANSITIONS, whoever writes the row: a late lookup,
\* a slow dispatcher or recovery revives nothing that is final.
THEOREM LegalMoves == Spec => OnlyLegalMoves
<1>1. TypeOK /\ [Next]_vars =>
        [\A a \in Actions :
           state'[a] # state[a] => state'[a] \in Transitions[state[a]]]_vars
  BY LegalStep
<1> QED
  BY <1>1, TypeCorrect, PTL DEF Spec, OnlyLegalMoves

----------------------------------------------------------------------------
\* Rows, outbox and the process.

\* What keeps an action and its outbox row together: the dispatcher only holds
\* an action that is dispatching, and recovery only has open rows left.
HeldRows ==
  /\ current # NoAction => state[current] = "dispatching"
  /\ phase = "recovering" => todo \subseteq Unsettled

Rows == PairAgrees /\ HeldRows

LEMMA RowsInit == Init => Rows
BY DEF Init, Rows, PairAgrees, AgreeingPairs, HeldRows

LEMMA RowsKept == TypeOK /\ Rows /\ [Next]_vars => Rows'
<1> SUFFICES ASSUME TypeOK, Rows, [Next]_vars PROVE Rows'
  OBVIOUS
<1>0. /\ RowsTyped /\ ProcessTyped
      /\ state \in [Actions -> ActionStates \cup {"absent"}]
      /\ outbox \in [Actions -> OutboxStates]
      /\ PairAgrees /\ HeldRows
      /\ NoAction \notin Actions
  BY ResponseAssumption DEF TypeOK, RowsTyped, Rows, ResponseAssumption
<1>1. ASSUME Up, UNCHANGED process, NEW a \in Actions,
             state[a] # "dispatching",
             state' = [state EXCEPT ![a] = state'[a]],
             outbox' = [outbox EXCEPT ![a] = outbox'[a]],
             <<state'[a], outbox'[a]>> \in AgreeingPairs
      PROVE  Rows'
  <2>1. phase' = phase /\ current' = current /\ phase # "recovering"
    BY <1>1 DEF process, Up
  <2>2. HeldRows'
    BY <1>0, <1>1, <2>1 DEF HeldRows, ProcessTyped
  <2>3. PairAgrees'
    BY <1>0, <1>1 DEF PairAgrees
  <2> QED
    BY <2>2, <2>3 DEF Rows
<1>2. ASSUME NEW a \in Actions, NEW u \in Analysts, NEW c \in Clusters,
             NEW r \in 0..MaxRevision, NEW w \in Workflows, Propose(a, u, c, r, w)
      PROVE Rows'
  BY <1>0, <1>1, <1>2 DEF Propose, PairAgrees, AgreeingPairs
<1>3. ASSUME NEW a \in Actions, Cancel(a) PROVE Rows'
  <2>1. state[a] \in Cancellable /\ <<state[a], outbox[a]>> \in AgreeingPairs
    BY <1>0, <1>3 DEF Cancel, PairAgrees
  <2>2. state' = [state EXCEPT ![a] = state'[a]] /\ outbox' = [outbox EXCEPT ![a] = outbox'[a]]
    BY <1>0, <1>3 DEF Cancel
  <2>3. <<state'[a], outbox'[a]>> \in AgreeingPairs
    BY <1>0, <1>3, <2>1 DEF Cancel, Cancellable, AgreeingPairs
  <2>4. Up /\ UNCHANGED process /\ state[a] # "dispatching"
    BY <1>3, <2>1 DEF Cancel, Cancellable
  <2> QED
    BY <1>1, <2>2, <2>3, <2>4
<1>4. ASSUME NEW a \in Actions, ApproveExpires(a) \/ Reject(a) PROVE Rows'
  <2>1. state[a] = "approval_required" /\ <<state[a], outbox[a]>> \in AgreeingPairs
    BY <1>0, <1>4 DEF ApproveExpires, Reject, PairAgrees
  <2>2. state' = [state EXCEPT ![a] = state'[a]] /\ outbox' = [outbox EXCEPT ![a] = outbox'[a]]
    BY <1>0, <1>4 DEF ApproveExpires, Reject
  <2>3. <<state'[a], outbox'[a]>> \in AgreeingPairs
    BY <1>0, <1>4, <2>1 DEF ApproveExpires, Reject, AgreeingPairs
  <2>4. Up /\ UNCHANGED process
    BY <1>4 DEF ApproveExpires, Reject
  <2> QED
    BY <1>1, <2>1, <2>2, <2>3, <2>4
<1>5. ASSUME NEW a \in Actions, NEW u \in Responders, Approve(u, a) PROVE Rows'
  <2>1. state[a] = "approval_required" /\ <<state[a], outbox[a]>> \in AgreeingPairs
    BY <1>0, <1>5 DEF Approve, PairAgrees
  <2>2. state' = [state EXCEPT ![a] = state'[a]] /\ outbox' = [outbox EXCEPT ![a] = outbox'[a]]
    BY <1>0, <1>5 DEF Approve
  <2>3. <<state'[a], outbox'[a]>> \in AgreeingPairs
    BY <1>0, <1>5, <2>1 DEF Approve, AgreeingPairs
  <2>4. Up /\ UNCHANGED process
    BY <1>5 DEF Approve
  <2> QED
    BY <1>1, <2>1, <2>2, <2>3, <2>4
<1>6. ASSUME NEW a \in Actions, CheckRecord(a) PROVE Rows'
  <2>1. CASE state[a] = "reconciliation_required"
    BY <1>0, <1>1, <1>6, <2>1 DEF CheckRecord, Proves, AgreeingPairs
  <2>2. CASE state[a] # "reconciliation_required"
    BY <1>0, <1>6, <2>2
       DEF CheckRecord, Proves, Rows, PairAgrees, HeldRows, Unsettled, process
  <2> QED
    BY <2>1, <2>2
<1>7. ASSUME NEW a \in Actions, NEW d \in BOOLEAN, Resolve(a, d) PROVE Rows'
  BY <1>0, <1>1, <1>7 DEF Resolve, PairAgrees, AgreeingPairs
<1>8. CASE Claim
  <2>1. \A a \in Waiting : state[a] = "queued"
    BY <1>0, ClaimedAreQueued DEF PairAgrees, AgreeingPairs
  <2>2. PairAgrees'
    BY <1>0, <1>8, <2>1, ClaimedAreQueued DEF Claim, PairAgrees, AgreeingPairs
  <2>3. \/ UNCHANGED <<phase, current>>
        \/ \E a \in Oldest : current' = a /\ phase' = "sending"
    BY <1>8 DEF Claim
  <2>4. current = NoAction /\ phase = "idle"
    BY <1>0, <1>8 DEF Claim, ProcessTyped
  <2>5. HeldRows'
    BY <1>0, <1>8, <2>3, <2>4, ClaimedAreQueued DEF Claim, HeldRows
  <2> QED
    BY <2>2, <2>5 DEF Rows
<1>9. CASE Settle
  <2>1. current \in Actions /\ state[current] = "dispatching"
    BY <1>0, <1>9 DEF Settle, ProcessTyped, HeldRows
  <2>2. <<SettledState, OutboxFor[SettledState]>> \in AgreeingPairs
    BY DEF SettledState, OutboxFor, AgreeingPairs, ActionStates
  <2>3. PairAgrees'
    BY <1>0, <1>9, <2>1, <2>2 DEF Settle, PairAgrees
  <2>4. HeldRows'
    BY <1>9 DEF Settle, HeldRows
  <2> QED
    BY <2>3, <2>4 DEF Rows
<1>10. ASSUME NEW a \in Actions, RecoverRow(a) PROVE Rows'
  <2>1. state[a] \in {"queued", "dispatching"} /\ outbox[a] = state[a]
    BY <1>0, <1>10 DEF RecoverRow, HeldRows, Unsettled, PairAgrees, AgreeingPairs
  <2>2. <<Recovered(state[a]), OutboxFor[Recovered(state[a])]>> \in AgreeingPairs
    BY <2>1 DEF Recovered, OutboxFor, AgreeingPairs, ActionStates
  <2>3. PairAgrees'
    BY <1>0, <1>10, <2>2 DEF RecoverRow, PairAgrees
  <2>4. current = NoAction /\ current' = NoAction
    BY <1>0, <1>10 DEF RecoverRow, ProcessTyped
  <2>5. HeldRows'
    BY <1>0, <1>10, <2>4 DEF RecoverRow, HeldRows, Unsettled
  <2> QED
    BY <2>3, <2>5 DEF Rows
<1>11. ASSUME UNCHANGED <<state, outbox>>,
              phase' = "recovering" => todo' \subseteq Unsettled,
              current' = NoAction \/ current' = current
       PROVE Rows'
  BY <1>0, <1>11 DEF Rows, PairAgrees, HeldRows, Unsettled
<1>12. CASE PolicyRefuses \/ SettleFails
  BY <1>0, <1>11, <1>12 DEF PolicyRefuses, SettleFails, stored
<1>13. CASE Send
  BY <1>11, <1>13 DEF Send, stored
<1>14. CASE Stop \/ RecoveryDone
  BY <1>0, <1>11, <1>14 DEF Stop, RecoveryDone, stored
<1>15. ASSUME NEW g \in Configs, Start(g) PROVE Rows'
  BY <1>11, <1>15 DEF Start, stored
<1>16. ASSUME (\E a \in Actions : CheckLookup(a)) \/ Environment \/ UNCHANGED vars
       PROVE  UNCHANGED <<state, outbox, phase, todo, current>>
  BY <1>16 DEF CheckLookup, Environment, Revise, Merge, TtlElapses, vars, stored,
               process
<1>17. ASSUME UNCHANGED <<state, outbox, phase, todo, current>> PROVE Rows'
  BY <1>0, <1>11, <1>17 DEF HeldRows
<1> QED
  BY <1>2, <1>3, <1>4, <1>5, <1>6, <1>7, <1>8, <1>9, <1>10, <1>12, <1>13, <1>14,
     <1>15, <1>16, <1>17
     DEF Next, People, Dispatcher, Recovery

\* No stop, race or recovery leaves an action and its outbox row at odds.
THEOREM PairsAgree == Spec => []PairAgrees
<1>1. Spec => []Rows
  BY RowsInit, RowsKept, TypeCorrect, PTL DEF Spec
<1>2. Rows => PairAgrees
  BY DEF Rows
<1> QED
  BY <1>1, <1>2, PTL

----------------------------------------------------------------------------
\* Requests and the runs they start.

\* The states before a claim, and those a claim can no longer follow.
Unsent == {"absent", "approval_required", "queued"} \cup Withdrawn

\* A request leaves only between claim and settle; a failure the dispatcher
\* recorded started nothing.
Requests ==
  /\ \A a \in Actions : state[a] \in Unsent => sends[a] = 0
  /\ \A a \in Actions : sends[a] <= 1
  /\ \A a \in Actions : runs[a] > 0 => sends[a] > 0
  /\ phase = "sending" => sends[current] = 0
  /\ phase = "settling" /\ verdict = "rejected" => runs[current] = 0
  /\ \A a \in Actions :
       state[a] = "failed_without_effect" /\ runs[a] > 0 => a \in misjudged

LEMMA RequestsInit == Init => Requests
BY DEF Init, Requests

\* Nothing but Send makes a request or starts a run.
LEMMA OnlySendSends ==
  [Next]_vars => \/ Send
                 \/ sends' = sends /\ runs' = runs /\ misjudged \subseteq misjudged'
<1> SUFFICES ASSUME [Next]_vars, ~Send
             PROVE  sends' = sends /\ runs' = runs /\ misjudged \subseteq misjudged'
  OBVIOUS
<1>1. CASE People
  BY <1>1, PeopleLeave DEF Untouched
<1>2. CASE Claim \/ PolicyRefuses \/ Settle \/ SettleFails \/ Recovery
  BY <1>2 DEF Claim, PolicyRefuses, Settle, SettleFails, Recovery, RecoverRow, RecoveryDone, remote
<1>3. CASE Environment \/ Stop \/ (\E g \in Configs : Start(g)) \/ UNCHANGED vars
  BY <1>3 DEF Environment, Revise, Merge, TtlElapses, Stop, Start, vars, remote
<1> QED
  BY <1>1, <1>2, <1>3 DEF Next, Dispatcher

\* Nothing but a claim, a send and a settle moves the dispatcher within a cycle.
LEMMA DispatcherMoves ==
  [Next]_vars =>
    \/ UNCHANGED <<phase, current, verdict>>
    \/ Claim \/ Send
    \/ phase' \notin {"sending", "settling"}
<1> SUFFICES ASSUME [Next]_vars, ~Claim, ~Send
             PROVE  \/ UNCHANGED <<phase, current, verdict>>
                    \/ phase' \notin {"sending", "settling"}
  OBVIOUS
<1>1. CASE People
  <2>1. UNCHANGED process
    BY <1>1, PeopleLeave DEF Untouched
  <2> QED
    BY <2>1 DEF process
<1>2. CASE PolicyRefuses \/ Settle \/ SettleFails \/ Recovery
  BY <1>2 DEF PolicyRefuses, Settle, SettleFails, Recovery, RecoverRow, RecoveryDone
<1>3. CASE Environment \/ Stop \/ (\E g \in Configs : Start(g)) \/ UNCHANGED vars
  BY <1>3 DEF Environment, Revise, Merge, TtlElapses, Stop, Start, vars, process
<1> QED
  BY <1>1, <1>2, <1>3 DEF Next, Dispatcher

\* An action fails by the dispatcher's verdict or by a person's.
LEMMA WhoFails ==
  ASSUME TypeOK, Rows, [Next]_vars, NEW a \in Actions,
         state'[a] = "failed_without_effect", state[a] # "failed_without_effect"
  PROVE  \/ phase = "settling" /\ verdict = "rejected" /\ a = current
         \/ runs[a] > 0 => a \in misjudged'
<1>0. state \in [Actions -> ActionStates \cup {"absent"}]
  BY DEF TypeOK, RowsTyped
<1>1. CASE People
  <2>1. ASSUME NEW b \in Actions, NEW u \in Analysts, NEW c \in Clusters,
               NEW r \in 0..MaxRevision, NEW w \in Workflows, Propose(b, u, c, r, w)
        PROVE  FALSE
    BY <1>0, <2>1 DEF Propose
  <2>2. ASSUME NEW b \in Actions, Cancel(b) PROVE FALSE
    BY <1>0, <2>2 DEF Cancel
  <2>3. ASSUME NEW b \in Actions, NEW u \in Responders, Approve(u, b) PROVE FALSE
    BY <1>0, <2>3 DEF Approve
  <2>4. ASSUME NEW b \in Actions, ApproveExpires(b) \/ Reject(b) PROVE FALSE
    BY <1>0, <2>4 DEF ApproveExpires, Reject
  <2>5. ASSUME NEW b \in Actions, CheckLookup(b) \/ CheckRecord(b) PROVE FALSE
    BY <1>0, <2>5 DEF CheckLookup, CheckRecord, stored
  <2>6. ASSUME NEW b \in Actions, NEW d \in BOOLEAN, Resolve(b, d)
        PROVE  runs[a] > 0 => a \in misjudged'
    BY <1>0, <2>6 DEF Resolve
  <2> QED
    BY <1>1, <2>1, <2>2, <2>3, <2>4, <2>5, <2>6 DEF People
<1>2. CASE Settle
  BY <1>0, <1>2 DEF Settle, SettledState
<1>3. CASE Claim
  BY <1>0, <1>3, ClaimedAreQueued DEF Claim
<1>4. CASE PolicyRefuses \/ SettleFails \/ Send \/ Recovery
  BY <1>0, <1>4 DEF PolicyRefuses, SettleFails, Send, Recovery, RecoverRow, Recovered,
                    RecoveryDone, stored
<1>5. CASE Environment \/ Stop \/ (\E g \in Configs : Start(g)) \/ UNCHANGED vars
  BY <1>5 DEF Environment, Revise, Merge, TtlElapses, Stop, Start, vars, stored
<1> QED
  BY <1>1, <1>2, <1>3, <1>4, <1>5 DEF Next, Dispatcher

LEMMA RequestsKept == TypeOK /\ Rows /\ Requests /\ [Next]_vars => Requests'
<1> SUFFICES ASSUME TypeOK, Rows, Requests, [Next]_vars PROVE Requests'
  OBVIOUS
<1>0. /\ state \in [Actions -> ActionStates \cup {"absent"}]
      /\ sends \in [Actions -> Nat] /\ runs \in [Actions -> Nat]
      /\ phase \in {"sending", "settling"} <=> current # NoAction
      /\ current \in Actions \cup {NoAction}
      /\ current # NoAction => state[current] = "dispatching"
  BY DEF TypeOK, RowsTyped, RemoteTyped, ProcessTyped, Rows, HeldRows
<1>1. \A a \in Actions : state'[a] \in Unsent => state[a] \in Unsent
  BY <1>0, LegalStep DEF Unsent, Withdrawn, Transitions, ActionStates
<1>2. CASE Send
  <2>1. phase = "sending" /\ current \in Actions /\ state' = state
        /\ phase' = "settling" /\ current' = current /\ misjudged' = misjudged
    BY <1>0, <1>2 DEF Send, stored
  <2>2. sends[current] = 0 /\ state[current] = "dispatching" /\ runs[current] = 0
    BY <1>0, <2>1 DEF Requests
  <2>3. sends' = [sends EXCEPT ![current] = 1]
    BY <1>0, <1>2, <2>1, <2>2 DEF Send
  <2>4. PICK d \in DeliveryOutcomes :
          verdict' = d.verdict /\ runs' = [runs EXCEPT ![current] = d.ran]
    <3>1. PICK d \in DeliveryOutcomes :
            verdict' = d.verdict /\ runs' = [runs EXCEPT ![current] = @ + d.ran]
      BY <1>2 DEF Send
    <3>2. d.ran \in {0, 1}
      BY DEF DeliveryOutcomes
    <3>3. runs[current] + d.ran = d.ran
      BY <2>2, <3>2
    <3> QED
      BY <1>0, <2>1, <3>1, <3>3
  <2>5. d.verdict = "rejected" => d.ran = 0
    BY DEF DeliveryOutcomes
  <2> QED
    BY <1>0, <2>1, <2>2, <2>3, <2>4, <2>5 DEF Requests, Unsent, Withdrawn
<1>3. CASE sends' = sends /\ runs' = runs /\ misjudged \subseteq misjudged'
  <2>1. phase' = "sending" => sends'[current'] = 0
    <3>1. CASE Claim
      <4>1. \/ phase' = phase
            \/ \E a \in Oldest : current' = a
        BY <3>1 DEF Claim
      <4>2. phase = "idle"
        BY <3>1 DEF Claim
      <4> QED
        BY <1>3, <4>1, <4>2, ClaimedAreQueued DEF Requests, Unsent
    <3>2. CASE ~Claim
      BY <1>3, <3>2, DispatcherMoves DEF Requests, Send
    <3> QED
      BY <3>1, <3>2
  <2>2. phase' = "settling" /\ verdict' = "rejected" => runs'[current'] = 0
    <3>1. CASE Claim
      BY <3>1 DEF Claim
    <3>2. CASE Send
      BY <1>0, <1>3, <3>2 DEF Send, Requests
    <3>3. CASE ~Claim /\ ~Send
      BY <1>3, <3>3, DispatcherMoves DEF Requests
    <3> QED
      BY <3>1, <3>2, <3>3
  <2>3. ASSUME NEW a \in Actions, state'[a] = "failed_without_effect", runs'[a] > 0
        PROVE  a \in misjudged'
    <3>1. CASE state[a] = "failed_without_effect"
      BY <1>3, <2>3, <3>1 DEF Requests
    <3>2. CASE state[a] # "failed_without_effect"
      BY <1>0, <1>3, <2>3, <3>2, WhoFails DEF Requests
    <3> QED
      BY <3>1, <3>2
  <2> QED
    BY <1>1, <1>3, <2>1, <2>2, <2>3 DEF Requests
<1> QED
  BY <1>2, <1>3, OnlySendSends

\* At most one request per action, over every stop and recovery.
THEOREM OneRequest == Spec => []AtMostOneRequest
<1>1. Spec => []Requests
  BY RowsInit, RowsKept, RequestsInit, RequestsKept, TypeCorrect, PTL DEF Spec
<1>2. Requests => AtMostOneRequest
  BY DEF Requests, AtMostOneRequest
<1> QED
  BY <1>1, <1>2, PTL

\* An action that was withdrawn has not been sent, and never will be.
THEOREM NoWithdrawnRequest == Spec => []WithdrawnNeverSent
<1>1. Spec => []Requests
  BY RowsInit, RowsKept, RequestsInit, RequestsKept, TypeCorrect, PTL DEF Spec
<1>2. Requests => WithdrawnNeverSent
  BY DEF Requests, WithdrawnNeverSent, Unsent
<1> QED
  BY <1>1, <1>2, PTL

----------------------------------------------------------------------------
\* The channel implements DeliveryOnce.

LEMMA DeliveryInit == Init => DO!Init
<1> SUFFICES ASSUME Init PROVE DO!Init
  OBVIOUS
<1>1. \A a \in Actions : Stage(state[a]) = "open"
  BY DEF Init, Stage, Withdrawn
<1> QED
  BY <1>1 DEF Init, DO!Init

LEMMA DeliveryStep ==
  TypeOK /\ Rows /\ Requests /\ [Next]_vars => [DO!Next]_(DO!vars)
<1> SUFFICES ASSUME TypeOK, Rows, Requests, [Next]_vars PROVE DO!Next
  OBVIOUS
<1>0. /\ state \in [Actions -> ActionStates \cup {"absent"}]
      /\ sends \in [Actions -> Nat]
      /\ TypeOK'
      /\ Requests'
      /\ current \in Actions \cup {NoAction}
      /\ phase \in {"sending", "settling"} <=> current # NoAction
      /\ current # NoAction => state[current] = "dispatching"
  BY TypeStep, RequestsKept DEF TypeOK, RowsTyped, RemoteTyped, ProcessTyped, Rows,
                                HeldRows
<1>1. sends' \in [Actions -> 0..1]
  <2>1. sends' \in [Actions -> Nat]
    BY <1>0 DEF TypeOK, RemoteTyped
  <2>2. \A a \in Actions : sends'[a] <= 1
    BY <1>0 DEF Requests
  <2> QED
    BY <2>1, <2>2
<1>2. [a \in Actions |-> Stage(state'[a])] \in [Actions -> DO!Stages]
  BY DEF DO!Stages, Stage
<1>3. ASSUME NEW a \in Actions
      PROVE  DO!Same(a) \/ DO!Authorise(a) \/ DO!Withdraw(a) \/ DO!Take(a)
             \/ DO!Transmit(a) \/ DO!Settle(a)
  <2>1. CASE Send
    <3>1. phase = "sending" /\ current \in Actions /\ state' = state
      BY <1>0, <2>1 DEF Send, stored
    <3>2. sends[current] = 0 /\ state[current] = "dispatching"
      BY <1>0, <3>1 DEF Requests
    <3>3. sends' = [sends EXCEPT ![current] = 1]
      BY <1>0, <2>1, <3>2 DEF Send
    <3> QED
      BY <1>0, <3>1, <3>2, <3>3 DEF DO!Same, DO!Transmit, Stage, Withdrawn
  <2>2. CASE sends' = sends
    <3>1. CASE state'[a] = state[a]
      BY <2>2, <3>1 DEF DO!Same
    <3>2. CASE state'[a] \in Transitions[state[a]]
      BY <1>0, <2>2, <3>2
         DEF Transitions, ActionStates, DO!Same, DO!Authorise, DO!Withdraw, DO!Take,
             DO!Settle, Stage, Withdrawn
    <3> QED
      BY <3>1, <3>2, LegalStep
  <2> QED
    BY <2>1, <2>2, OnlySendSends
<1> QED
  BY <1>1, <1>2, <1>3 DEF DO!Next

\* Whatever happens to the process, the store and the network, each action is
\* authorised before it is taken, sent at most once and then settled.
THEOREM ChannelDeliversOnce == Spec => DeliversOnce
<1> QED
  BY DeliveryInit, DeliveryStep, RowsInit, RowsKept, RequestsInit, RequestsKept,
     TypeCorrect, PTL DEF Spec, DeliversOnce, DO!Spec

----------------------------------------------------------------------------
\* Who may have approved.

\* Only approve() counts approvals, and only it queues an action; only propose()
\* writes what the action is.
LEMMA RowsWritten ==
  ASSUME TypeOK, [Next]_vars
  PROVE  \/ \E a \in Actions, u \in Responders : Approve(u, a)
         \/ \E a \in Actions, u \in Analysts, c \in Clusters, r \in 0..MaxRevision,
               w \in Workflows : Propose(a, u, c, r, w)
         \/ /\ UNCHANGED <<proposal, approvals>>
            /\ \A a \in Actions :
                 state'[a] \in {"approval_required", "queued"} => state'[a] = state[a]
<1>0. state \in [Actions -> ActionStates \cup {"absent"}]
  BY DEF TypeOK, RowsTyped
<1> DEFINE Kept ==
      /\ UNCHANGED <<proposal, approvals>>
      /\ \A a \in Actions :
           state'[a] \in {"approval_required", "queued"} => state'[a] = state[a]
<1>1. ASSUME NEW a \in Actions,
             Cancel(a) \/ ApproveExpires(a) \/ Reject(a) \/ CheckRecord(a)
             \/ \E d \in BOOLEAN : Resolve(a, d)
      PROVE Kept
  BY <1>0, <1>1 DEF Cancel, ApproveExpires, Reject, CheckRecord, Resolve
<1>2. CASE Claim
  BY <1>0, <1>2, ClaimedAreQueued DEF Claim
<1>3. CASE Settle
  <2>1. SettledState \notin {"approval_required", "queued"}
    BY DEF SettledState
  <2> QED
    BY <1>0, <1>3, <2>1 DEF Settle
<1>4. ASSUME NEW a \in Actions, RecoverRow(a) PROVE Kept
  BY <1>0, <1>4 DEF RecoverRow, Recovered
<1>5. ASSUME \/ \E a \in Actions : CheckLookup(a)
             \/ Environment \/ Stop \/ (\E g \in Configs : Start(g))
             \/ PolicyRefuses \/ SettleFails \/ Send \/ RecoveryDone \/ UNCHANGED vars
      PROVE UNCHANGED <<proposal, approvals, state>>
  BY <1>5 DEF CheckLookup, Environment, Revise, Merge, TtlElapses, Start,
              PolicyRefuses, SettleFails, Send, RecoveryDone, Stop, vars, stored
<1> QED
  BY <1>1, <1>2, <1>3, <1>4, <1>5 DEF Next, People, Dispatcher, Recovery

\* The states an action can only reach with its approvals complete.
Authorised == {"queued", "dispatching", "acknowledged", "failed_without_effect",
               "reconciliation_required"}

\* Approvals are different people's, none the requester's where duties are
\* separated, and enough of them once the action is queued.
Counted(a) ==
  /\ state[a] = "absent" => approvals[a] = <<>>
  /\ \A i, j \in 1..Len(approvals[a]) :
       approvals[a][i].by = approvals[a][j].by => i = j
  /\ state[a] # "absent" /\ proposal[a].workflow \in Separated =>
       \A i \in 1..Len(approvals[a]) : approvals[a][i].by # proposal[a].by
  /\ state[a] \in Authorised =>
       Len(approvals[a]) >= Required[proposal[a].workflow]

Approved == \A a \in Actions : Counted(a)

LEMMA ApprovedInit == Init => Approved
BY DEF Init, Approved, Counted, Authorised

LEMMA ApprovedKept == TypeOK /\ Approved /\ [Next]_vars => Approved'
<1> SUFFICES ASSUME TypeOK, Approved, [Next]_vars, NEW b \in Actions
             PROVE  Counted(b)'
  BY DEF Approved
<1>0. /\ state \in [Actions -> ActionStates \cup {"absent"}]
      /\ proposal \in [Actions -> Proposals \cup {NoProposal}]
      /\ approvals \in [Actions -> Seq(Approvals)]
      /\ approvals[b] \in Seq(Approvals)
  BY DEF TypeOK, RowsTyped
<1>1. /\ state[b] = "absent" => approvals[b] = <<>>
      /\ \A i, j \in 1..Len(approvals[b]) :
           approvals[b][i].by = approvals[b][j].by => i = j
      /\ state[b] # "absent" /\ proposal[b].workflow \in Separated =>
           \A i \in 1..Len(approvals[b]) : approvals[b][i].by # proposal[b].by
      /\ state[b] \in Authorised =>
           Len(approvals[b]) >= Required[proposal[b].workflow]
  BY DEF Approved, Counted
<1>2. \/ state'[b] = state[b]
      \/ state'[b] \in Transitions[state[b]]
  BY LegalStep
<1>3. ASSUME NEW a \in Actions, NEW u \in Responders, Approve(u, a)
      PROVE  Counted(b)'
  <2> DEFINE e == [by |-> u, at |-> Evidence(proposal[a].cluster)]
  <2>1. proposal' = proposal /\ approvals' = [approvals EXCEPT ![a] = Append(@, e)]
        /\ state[a] = "approval_required"
    BY <1>3 DEF Approve
  <2>2. CASE a = b
    <3>1. approvals'[b] = Append(approvals[b], e)
      BY <1>0, <2>1, <2>2
    <3>2. e.by = u
      OBVIOUS
    <3>3. Len(approvals'[b]) = Len(approvals[b]) + 1
          /\ approvals'[b][Len(approvals[b]) + 1].by = u
          /\ \A i \in 1..Len(approvals[b]) : approvals'[b][i] = approvals[b][i]
      <4> HIDE DEF e
      <4> QED
        BY <1>0, <3>1, <3>2
    <3>4. /\ proposal[b].workflow \in Separated => u # proposal[b].by
          /\ \A i \in 1..Len(approvals[b]) : approvals[b][i].by # u
      BY <1>3, <2>2 DEF Approve, MayApprove
    <3>5. /\ state'[b] = "queued" =>
               Len(approvals[b]) + 1 >= Required[proposal[b].workflow]
          /\ state'[b] \in {"approval_required", "queued"}
      BY <1>0, <1>3, <2>2 DEF Approve
    <3>6. Len(approvals[b]) \in Nat
      BY <1>0
    <3>7. \A i \in 1..Len(approvals'[b]) :
            i \in 1..Len(approvals[b]) \/ i = Len(approvals[b]) + 1
      BY <3>3, <3>6
    <3>8. \A i, j \in 1..Len(approvals'[b]) :
            approvals'[b][i].by = approvals'[b][j].by => i = j
      BY <1>1, <3>3, <3>4, <3>7
    <3>9. proposal[b].workflow \in Separated =>
            \A i \in 1..Len(approvals'[b]) : approvals'[b][i].by # proposal[b].by
      BY <1>1, <2>1, <2>2, <3>3, <3>4, <3>7
    <3> QED
      BY <2>1, <2>2, <3>3, <3>5, <3>8, <3>9 DEF Authorised, Counted
  <2>3. CASE a # b
    <3>1. approvals'[b] = approvals[b] /\ state'[b] = state[b] /\ proposal' = proposal
      BY <1>0, <1>3, <2>1, <2>3 DEF Approve
    <3> HIDE DEF e
    <3> QED
      BY <1>1, <3>1 DEF Counted
  <2> QED
    BY <2>2, <2>3
<1>4. ASSUME NEW a \in Actions, NEW u \in Analysts, NEW c \in Clusters,
             NEW r \in 0..MaxRevision, NEW w \in Workflows, Propose(a, u, c, r, w)
      PROVE  Counted(b)'
  <2>1. approvals' = approvals /\ state' = [state EXCEPT ![a] = "approval_required"]
        /\ state[a] = "absent" /\ (b # a => proposal'[b] = proposal[b])
    BY <1>0, <1>4 DEF Propose
  <2>2. CASE a = b
    <3>1. approvals'[b] = <<>> /\ state'[b] = "approval_required"
      BY <1>0, <1>1, <2>1, <2>2
    <3> QED
      BY <3>1 DEF Authorised, Counted
  <2>3. CASE a # b
    BY <1>0, <1>1, <2>1, <2>3 DEF Counted
  <2> QED
    BY <2>2, <2>3
<1>5. CASE /\ UNCHANGED <<proposal, approvals>>
           /\ \A a \in Actions :
                state'[a] \in {"approval_required", "queued"} => state'[a] = state[a]
  <2>1. state'[b] \in Authorised => state[b] \in Authorised
    BY <1>0, <1>2, <1>5 DEF Authorised, Transitions, ActionStates
  <2>2. state'[b] = "absent" => state[b] = "absent"
    BY <1>0, <1>2 DEF Transitions, ActionStates
  <2>3. state[b] = "absent" => state'[b] = "absent"
    BY <1>0, <1>2, <1>5 DEF Transitions, ActionStates
  <2> QED
    BY <1>1, <1>5, <2>1, <2>2, <2>3 DEF Counted
<1> QED
  BY <1>3, <1>4, <1>5, RowsWritten

\* A queued or sent action was approved by as many different people as its
\* workflow requires, the requester not among them where duties are separated.
THEOREM EnoughApproved == Spec => []AuthorisedByEnough
<1>1. Spec => [](TypeOK /\ Requests /\ Approved)
  BY RowsInit, RowsKept, RequestsInit, RequestsKept, ApprovedInit, ApprovedKept,
     TypeCorrect, PTL DEF Spec
<1>2. ASSUME TypeOK, Requests, Approved, NEW a \in Actions,
             state[a] = "queued" \/ sends[a] > 0
      PROVE  /\ Cardinality(Approvers(a)) >= Required[proposal[a].workflow]
             /\ proposal[a].workflow \in Separated => proposal[a].by \notin Approvers(a)
  <2> DEFINE n == Len(approvals[a])
             f == [i \in 1..n |-> approvals[a][i].by]
  <2>1. state[a] \in Authorised /\ state[a] # "absent"
    BY <1>2 DEF TypeOK, RowsTyped, ActionStates, Requests, Unsent, Withdrawn, Authorised
  <2>2. n \in Nat /\ n >= Required[proposal[a].workflow]
    BY <1>2, <2>1 DEF TypeOK, RowsTyped, Approved, Counted
  <2>3. f \in Bijection(1..n, Approvers(a))
    <3>1. f \in [1..n -> Approvers(a)]
      BY DEF Approvers
    <3>2. \A i, j \in 1..n : f[i] = f[j] => i = j
      BY <1>2 DEF Approved, Counted
    <3>3. \A u \in Approvers(a) : \E i \in 1..n : f[i] = u
      BY DEF Approvers
    <3> QED
      BY <3>1, <3>2, <3>3 DEF Bijection, Injection, Surjection, IsInjective
  <2>4. Cardinality(Approvers(a)) = n
    <3> HIDE DEF n, f
    <3>1. ExistsBijection(1..n, Approvers(a))
      BY <2>3 DEF ExistsBijection
    <3> QED
      BY <2>2, <3>1, FS_CountingElements
  <2>5. proposal[a].workflow \in Separated => proposal[a].by \notin Approvers(a)
    BY <1>2, <2>1 DEF Approved, Counted, Approvers
  <2> QED
    BY <2>2, <2>4, <2>5
<1>3. TypeOK /\ Requests /\ Approved => AuthorisedByEnough
  BY <1>2 DEF AuthorisedByEnough
<1> QED
  BY <1>1, <1>3, PTL

----------------------------------------------------------------------------
\* One effect per idempotency key.

\* What the unique index keeps: two actions hold one key only when one of them
\* freed it.
KeysDiffer ==
  \A a, b \in Actions :
    a # b /\ {state[a], state[b]} \cap (KeyFree \cup {"absent"}) = {}
      => Key(proposal[a]) # Key(proposal[b])

LEMMA KeysInit == Init => KeysDiffer
BY DEF Init, KeysDiffer

LEMMA KeysKept == TypeOK /\ KeysDiffer /\ [Next]_vars => KeysDiffer'
<1> SUFFICES ASSUME TypeOK, KeysDiffer, [Next]_vars PROVE KeysDiffer'
  OBVIOUS
<1>0. /\ state \in [Actions -> ActionStates \cup {"absent"}]
      /\ proposal \in [Actions -> Proposals \cup {NoProposal}]
  BY DEF TypeOK, RowsTyped
<1>1. ASSUME NEW a \in Actions, state'[a] \notin KeyFree \cup {"absent"}
      PROVE  state[a] \notin KeyFree
  BY <1>0, <1>1, LegalStep DEF KeyFree, Withdrawn, Transitions, ActionStates
<1>2. ASSUME NEW a \in Actions, NEW u \in Analysts, NEW c \in Clusters,
             NEW r \in 0..MaxRevision, NEW w \in Workflows, Propose(a, u, c, r, w)
      PROVE KeysDiffer'
  <2> DEFINE p == [by |-> u, cluster |-> c, revision |-> r, workflow |-> w]
  <2>1. /\ \A b \in Actions :
             state[b] \notin KeyFree \cup {"absent"} => Key(proposal[b]) # Key(p)
        /\ proposal' = [proposal EXCEPT ![a] = p]
        /\ state' = [state EXCEPT ![a] = "approval_required"]
    BY <1>2 DEF Propose
  <2> HIDE DEF p
  <2>2. \A b, d \in Actions :
          b # d /\ {state'[b], state'[d]} \cap (KeyFree \cup {"absent"}) = {}
            => Key(proposal'[b]) # Key(proposal'[d])
    BY <1>0, <2>1 DEF KeysDiffer, Key
  <2> QED
    BY <2>2 DEF KeysDiffer, Key
<1>3. ASSUME UNCHANGED proposal,
             \A a \in Actions : state[a] = "absent" => state'[a] = "absent"
      PROVE KeysDiffer'
  BY <1>1, <1>3 DEF KeysDiffer, Key
<1>4. ASSUME NEW a \in Actions, NEW u \in Responders, Approve(u, a)
      PROVE  /\ UNCHANGED proposal
             /\ \A b \in Actions : state[b] = "absent" => state'[b] = "absent"
  BY <1>0, <1>4 DEF Approve
<1>5. ASSUME \A a \in Actions :
               state'[a] \in {"approval_required", "queued"} => state'[a] = state[a]
      PROVE  \A b \in Actions : state[b] = "absent" => state'[b] = "absent"
  BY <1>0, <1>5, LegalStep DEF Transitions, ActionStates
<1> QED
  BY <1>2, <1>3, <1>4, <1>5, RowsWritten

\* Two runs with one idempotency key happen only when a person declared one of
\* the requests undelivered although it had arrived.
THEOREM OneEffect == Spec => []OneEffectPerKey
<1>1. Spec => [](TypeOK /\ Requests /\ KeysDiffer)
  BY RowsInit, RowsKept, RequestsInit, RequestsKept, KeysInit, KeysKept, TypeCorrect,
     PTL DEF Spec
<1>2. ASSUME TypeOK, Requests, KeysDiffer, NEW a \in Actions, NEW b \in Actions,
             a # b, runs[a] > 0, runs[b] > 0, Key(proposal[a]) = Key(proposal[b])
      PROVE  {a, b} \cap misjudged # {}
  <2>1. ASSUME NEW x \in Actions, runs[x] > 0, x \notin misjudged
        PROVE  state[x] \notin KeyFree \cup {"absent"}
    <3>1. sends[x] # 0
      BY <2>1, <1>2 DEF Requests
    <3> QED
      BY <1>2, <2>1, <3>1 DEF Requests, Unsent, KeyFree
  <2> QED
    BY <1>2, <2>1 DEF KeysDiffer
<1>3. TypeOK /\ Requests /\ KeysDiffer => OneEffectPerKey
  BY <1>2 DEF OneEffectPerKey
<1> QED
  BY <1>1, <1>3, PTL

----------------------------------------------------------------------------
\* The evidence an action is sent on.

\* Revisions of an investigation only grow, and a merge is for good.
LEMMA EvidenceMoves ==
  ASSUME TypeOK, [Next]_vars, NEW c \in Clusters
  PROVE  /\ latest'[c] >= latest[c]
         /\ mergedInto'[c] = NoCluster => mergedInto[c] = NoCluster
<1>0. /\ latest \in [Clusters -> 0..MaxRevision]
      /\ mergedInto \in [Clusters -> Clusters \cup {NoCluster}]
      /\ latest[c] >= latest[c] /\ latest[c] + 1 >= latest[c]
  BY DEF TypeOK, EvidenceTyped
<1>1. ASSUME NEW d \in Clusters, Revise(d)
      PROVE  /\ latest'[c] >= latest[c]
             /\ mergedInto'[c] = NoCluster => mergedInto[c] = NoCluster
  BY <1>0, <1>1 DEF Revise
<1>2. ASSUME NEW d \in Clusters, NEW e \in Clusters, Merge(d, e)
      PROVE  /\ latest'[c] >= latest[c]
             /\ mergedInto'[c] = NoCluster => mergedInto[c] = NoCluster
  BY <1>0, <1>2 DEF Merge
<1>3. ASSUME People \/ Dispatcher \/ Recovery \/ Stop \/ UNCHANGED vars
      PROVE UNCHANGED evidence
  <2>1. ASSUME Dispatcher \/ Recovery PROVE UNCHANGED evidence
    BY <2>1 DEF Dispatcher, Claim, PolicyRefuses, SettleFails, Send, Settle,
                Recovery, RecoverRow,
                RecoveryDone
  <2>2. ASSUME Stop \/ UNCHANGED vars PROVE UNCHANGED evidence
    BY <2>2 DEF Stop, vars
  <2> QED
    BY <1>3, <2>1, <2>2, PeopleLeave DEF Untouched
<1>4. ASSUME \/ \E a \in Actions : TtlElapses(a)
             \/ \E g \in Configs : Start(g)
      PROVE UNCHANGED evidence
  BY <1>4 DEF TtlElapses, Start
<1>5. ASSUME UNCHANGED evidence
      PROVE  /\ latest'[c] >= latest[c]
             /\ mergedInto'[c] = NoCluster => mergedInto[c] = NoCluster
  BY <1>0, <1>5 DEF evidence
<1> QED
  BY <1>1, <1>2, <1>3, <1>4, <1>5 DEF Next, Environment

\* Of an investigation that is not merged, an action that is not stale was
\* proposed on the latest revision.
LEMMA FreshIsLatest ==
  ASSUME TypeOK, NEW a \in Actions, state[a] # "absent",
         proposal[a].revision <= latest[proposal[a].cluster],
         mergedInto[proposal[a].cluster] = NoCluster, ~Stale(a)
  PROVE  Evidence(proposal[a].cluster) = <<proposal[a].cluster, proposal[a].revision>>
<1> DEFINE c == proposal[a].cluster
<1>1. /\ c \in Clusters /\ latest[c] \in Nat
      /\ proposal[a].revision \in Nat
  BY ResponseAssumption
     DEF TypeOK, RowsTyped, EvidenceTyped, Proposals, ResponseAssumption
<1>2. Live(c) = c
  BY DEF Live, Hop
<1>3. latest[c] = 0 \/ latest[c] = proposal[a].revision
  BY <1>2 DEF Stale, CurrentRevision
<1>4. latest[c] = proposal[a].revision
  BY <1>1, <1>3
<1> QED
  BY <1>2, <1>4 DEF Evidence

\* What an action was approved and claimed on, while its investigation stands.
SeenOne(a) ==
  state[a] # "absent" =>
    /\ proposal[a].revision <= latest[proposal[a].cluster]
    /\ mergedInto[proposal[a].cluster] = NoCluster =>
         /\ \A i \in 1..Len(approvals[a]) :
              approvals[a][i].at = <<proposal[a].cluster, proposal[a].revision>>
         /\ sends[a] > 0 \/ a = current =>
              sentOn[a] = <<proposal[a].cluster, proposal[a].revision>>

Seen == \A a \in Actions : SeenOne(a)

LEMMA SeenInit == Init => Seen
BY DEF Init, Seen, SeenOne

\* Only a claim notes what it saw; only a claim and a send give an action to
\* the dispatcher.
LEMMA OnlyClaimSees ==
  ASSUME TypeOK, [Next]_vars
  PROVE  \/ Claim
         \/ UNCHANGED sentOn /\ (current' = current \/ current' = NoAction)
<1> SUFFICES ASSUME ~Claim
             PROVE  UNCHANGED sentOn /\ (current' = current \/ current' = NoAction)
  OBVIOUS
<1>1. CASE People
  <2>1. UNCHANGED process
    BY <1>1, PeopleLeave DEF Untouched
  <2>2. UNCHANGED sentOn
    BY <1>1, PeopleLeave DEF Untouched
  <2> QED
    BY <2>1, <2>2 DEF process
<1>2. CASE PolicyRefuses \/ Send \/ Settle \/ SettleFails \/ Recovery
  BY <1>2 DEF PolicyRefuses, Send, Settle, SettleFails, Recovery, RecoverRow, RecoveryDone, remote
<1>3. CASE Environment \/ Stop \/ (\E g \in Configs : Start(g)) \/ UNCHANGED vars
  BY <1>3 DEF Environment, Revise, Merge, TtlElapses, Stop, Start, vars, process, remote
<1> QED
  BY <1>1, <1>2, <1>3 DEF Next, Dispatcher

LEMMA SeenKept == TypeOK /\ Rows /\ Requests /\ Approved /\ Seen /\ [Next]_vars => Seen'
<1> SUFFICES ASSUME TypeOK, Rows, Requests, Approved, Seen, [Next]_vars,
                    NEW b \in Actions
             PROVE  SeenOne(b)'
  BY DEF Seen
<1>0. /\ state \in [Actions -> ActionStates \cup {"absent"}]
      /\ proposal \in [Actions -> Proposals \cup {NoProposal}]
      /\ approvals \in [Actions -> Seq(Approvals)]
      /\ approvals[b] \in Seq(Approvals)
      /\ sends \in [Actions -> Nat]
      /\ sentOn \in [Actions -> (Clusters \cup {NoCluster}) \X (0..MaxRevision)]
      /\ NoAction \notin Actions
      /\ SeenOne(b)
      /\ state[b] = "absent" => approvals[b] = <<>> /\ sends[b] = 0 /\ b # current
  <2>1. RowsTyped /\ RemoteTyped /\ HeldRows /\ NoAction \notin Actions /\ SeenOne(b)
    BY ResponseAssumption DEF TypeOK, Seen, Rows, ResponseAssumption
  <2>2. state[b] = "absent" => approvals[b] = <<>> /\ sends[b] = 0
    BY DEF Approved, Counted, Requests, Unsent
  <2>3. state[b] = "absent" => b # current
    BY <2>1 DEF HeldRows
  <2> QED
    BY <2>1, <2>2, <2>3 DEF RowsTyped, RemoteTyped
<1>1. ASSUME state[b] # "absent", UNCHANGED <<proposal, approvals>>
      PROVE  /\ proposal[b].revision <= latest'[proposal[b].cluster]
             /\ mergedInto'[proposal[b].cluster] = NoCluster =>
                  mergedInto[proposal[b].cluster] = NoCluster
  <2>1. proposal[b].cluster \in Clusters /\ proposal[b].revision \in Nat
    BY <1>1 DEF TypeOK, RowsTyped, Proposals
  <2>2. latest[proposal[b].cluster] \in Nat /\ latest'[proposal[b].cluster] \in Nat
    BY <2>1, TypeStep DEF TypeOK, EvidenceTyped
  <2>3. proposal[b].revision <= latest[proposal[b].cluster]
    BY <1>0, <1>1 DEF SeenOne
  <2> QED
    BY <2>1, <2>2, <2>3, EvidenceMoves
<1>2. CASE Send
  <2>1. state' = state /\ UNCHANGED <<proposal, approvals, sentOn, current, latest,
                                      mergedInto>>
    BY <1>2 DEF Send, stored, evidence
  <2>2. b # current => sends'[b] = sends[b]
    BY <1>0, <1>2 DEF Send
  <2> QED
    BY <1>0, <2>1, <2>2 DEF SeenOne
<1>3. CASE Claim
  <2>1. UNCHANGED <<proposal, approvals, latest, mergedInto, sends>>
    BY <1>3 DEF Claim, evidence
  <2>2. state'[b] = "absent" <=> state[b] = "absent"
    BY <1>0, <1>3, ClaimedAreQueued DEF Claim
  <2>3. \/ UNCHANGED <<current, sentOn>>
        \/ \E a \in Oldest :
             /\ current' = a
             /\ sentOn' = [sentOn EXCEPT ![a] = Evidence(proposal[a].cluster)]
    BY <1>3 DEF Claim
  <2>4. CASE b \in Oldest
    <3>1. ~Stale(b) /\ state[b] = "queued"
      BY <2>4 DEF Oldest, Sendable
    <3>2. sends[b] = 0 /\ b # current
      BY <1>0, <3>1 DEF Requests, Unsent, Rows, HeldRows
    <3>3. mergedInto[proposal[b].cluster] = NoCluster =>
            Evidence(proposal[b].cluster) = <<proposal[b].cluster, proposal[b].revision>>
      BY <1>0, <3>1, FreshIsLatest DEF SeenOne
    <3> QED
      BY <1>0, <2>1, <2>2, <2>3, <3>2, <3>3 DEF SeenOne
  <2>5. CASE b \notin Oldest
    BY <1>0, <2>1, <2>2, <2>3, <2>5, ClaimedAreQueued DEF SeenOne
  <2> QED
    BY <2>4, <2>5
<1>4. ASSUME ~Claim, ~Send
      PROVE  UNCHANGED <<sends, sentOn>> /\ (current' = current \/ current' = NoAction)
  BY <1>4, OnlySendSends, OnlyClaimSees
<1>5. ASSUME NEW a \in Actions, NEW u \in Responders, Approve(u, a), ~Claim, ~Send
      PROVE  SeenOne(b)'
  <2> DEFINE e == [by |-> u, at |-> Evidence(proposal[a].cluster)]
  <2>1. /\ proposal' = proposal /\ approvals' = [approvals EXCEPT ![a] = Append(@, e)]
        /\ state[a] = "approval_required" /\ ~Stale(a)
        /\ latest' = latest /\ mergedInto' = mergedInto
    BY <1>5 DEF Approve, evidence
  <2>2. state'[b] = "absent" <=> state[b] = "absent"
    BY <1>0, <1>5, <2>1 DEF Approve
  <2>3. CASE a = b
    <3>1. mergedInto[proposal[b].cluster] = NoCluster =>
            e.at = <<proposal[b].cluster, proposal[b].revision>>
      BY <1>0, <2>1, <2>3, FreshIsLatest DEF SeenOne
    <3>2. approvals'[b] = Append(approvals[b], e)
      BY <1>0, <2>1, <2>3
    <3>3. \A i \in 1..Len(approvals'[b]) :
            approvals'[b][i] = e \/ (/\ i \in 1..Len(approvals[b])
                                     /\ approvals'[b][i] = approvals[b][i])
      <4> HIDE DEF e
      <4> QED
        BY <1>0, <3>2
    <3> HIDE DEF e
    <3> QED
      BY <1>0, <1>4, <1>5, <2>1, <2>2, <3>1, <3>3 DEF SeenOne
  <2>4. CASE a # b
    <3>1. approvals'[b] = approvals[b]
      BY <1>0, <2>1, <2>4
    <3> HIDE DEF e
    <3> QED
      BY <1>0, <1>4, <1>5, <2>1, <2>2, <3>1 DEF SeenOne
  <2> QED
    BY <2>3, <2>4
<1>6. ASSUME NEW a \in Actions, NEW u \in Analysts, NEW c \in Clusters,
             NEW r \in 0..MaxRevision, NEW w \in Workflows, Propose(a, u, c, r, w),
             ~Claim, ~Send
      PROVE  SeenOne(b)'
  <2> DEFINE p == [by |-> u, cluster |-> c, revision |-> r, workflow |-> w]
  <2>1. /\ approvals' = approvals /\ state[a] = "absent" /\ r \in 0..latest[c]
        /\ proposal' = [proposal EXCEPT ![a] = p]
        /\ state' = [state EXCEPT ![a] = "approval_required"]
        /\ latest' = latest /\ mergedInto' = mergedInto
    BY <1>6 DEF Propose, evidence
  <2>2. CASE a = b
    <3>1. proposal'[b].revision <= latest'[proposal'[b].cluster]
      <4>1. proposal'[b] = p
        BY <1>0, <2>1, <2>2
      <4> QED
        BY <2>1, <4>1
    <3>2. approvals'[b] = <<>> /\ sends'[b] = 0 /\ b # current'
      BY <1>0, <1>4, <1>6, <2>1, <2>2
    <3> QED
      BY <3>1, <3>2 DEF SeenOne
  <2>3. CASE a # b
    <3>1. proposal'[b] = proposal[b] /\ state'[b] = state[b]
      BY <1>0, <2>1, <2>3
    <3> QED
      BY <1>0, <1>4, <1>6, <2>1, <3>1 DEF SeenOne
  <2> QED
    BY <2>2, <2>3
<1>7. CASE /\ ~Claim /\ ~Send /\ UNCHANGED <<proposal, approvals>>
           /\ \A a \in Actions :
                state'[a] \in {"approval_required", "queued"} => state'[a] = state[a]
  <2>1. state[b] = "absent" => state'[b] = "absent"
    BY <1>0, <1>7, LegalStep DEF Transitions, ActionStates
  <2> QED
    BY <1>0, <1>1, <1>4, <1>7, <2>1 DEF SeenOne
<1> QED
  BY <1>2, <1>3, <1>5, <1>6, <1>7, RowsWritten

\* While an investigation is not merged into another, every approval and the
\* claim of an action sent on it saw exactly the revision it was proposed on.
THEOREM SentOnSeenEvidence == Spec => []UnmergedSentOnApprovedEvidence
<1>1. Spec => [](TypeOK /\ Requests /\ Seen)
  BY RowsInit, RowsKept, RequestsInit, RequestsKept, ApprovedInit, ApprovedKept,
     SeenInit, SeenKept, TypeCorrect, PTL DEF Spec
<1>2. ASSUME TypeOK, Requests, Seen, NEW a \in Actions, sends[a] > 0,
             mergedInto[proposal[a].cluster] = NoCluster
      PROVE  /\ sentOn[a] = <<proposal[a].cluster, proposal[a].revision>>
             /\ \A i \in 1..Len(approvals[a]) : approvals[a][i].at = sentOn[a]
  <2>1. state[a] # "absent"
    BY <1>2 DEF Requests, Unsent
  <2> QED
    BY <1>2, <2>1 DEF Seen, SeenOne
<1>3. TypeOK /\ Requests /\ Seen => UnmergedSentOnApprovedEvidence
  BY <1>2 DEF UnmergedSentOnApprovedEvidence
<1> QED
  BY <1>1, <1>3, PTL

----------------------------------------------------------------------------
\* Nothing is left dispatching.

\* Every queued row is in the outbox's order, so the oldest one is one.
Ordered ==
  \A a \in Actions : outbox[a] = "queued" => \E i \in 1..Len(order) : order[i] = a

LEMMA OneOldest ==
  ASSUME TypeOK, Ordered, NEW a \in Oldest, NEW b \in Oldest
  PROVE  a = b
<1>1. /\ a \in Actions /\ b \in Actions
      /\ outbox[a] = "queued" /\ outbox[b] = "queued"
      /\ Place(a) <= Place(b) /\ Place(b) <= Place(a)
  BY DEF Oldest, Sendable, Waiting
<1>2. ASSUME NEW x \in Actions, outbox[x] = "queued"
      PROVE  Place(x) \in 1..Len(order) /\ order[Place(x)] = x
  BY <1>2 DEF Ordered, Place
<1>3. Place(a) \in Nat /\ Place(b) \in Nat
  BY <1>1, <1>2 DEF TypeOK, RowsTyped
<1>4. Place(a) = Place(b)
  BY <1>1, <1>3
<1> QED
  BY <1>1, <1>2, <1>4

\* An action is dispatching only in the running dispatcher's hands, before
\* recovery, or after the dispatcher let go of it.
HeldOne(a) ==
  state[a] = "dispatching" /\ phase \notin {"down", "off"}
  => a = current \/ a \in todo \/ a \in dropped

\* What the dispatcher let go of stays as the claim left it; a new process has
\* let go of nothing.
LetGoOne(a) ==
  a \in dropped =>
    state[a] = "dispatching" /\ a # current /\ phase \in {"idle", "sending", "settling"}

Held == Ordered /\ \A a \in Actions : HeldOne(a) /\ LetGoOne(a)

LEMMA HeldInit == Init => Held
BY DEF Init, Held, Ordered, HeldOne, LetGoOne

LEMMA OrderedKept == TypeOK /\ Rows /\ Ordered /\ [Next]_vars => Ordered'
<1> SUFFICES ASSUME TypeOK, Rows, Ordered, [Next]_vars PROVE Ordered'
  OBVIOUS
<1>0. /\ order \in Seq(Actions)
      /\ outbox \in [Actions -> OutboxStates]
      /\ state \in [Actions -> ActionStates \cup {"absent"}]
      /\ PairAgrees
  BY DEF TypeOK, RowsTyped, Rows
<1>1. ASSUME NEW a \in Actions, NEW u \in Responders, Approve(u, a) PROVE Ordered'
  <2>1. CASE order' = Append(order, a) /\ outbox' = [outbox EXCEPT ![a] = "queued"]
    <3>1. /\ Len(order') = Len(order) + 1 /\ Len(order) \in Nat
          /\ order'[Len(order) + 1] = a
          /\ \A i \in 1..Len(order) : order'[i] = order[i]
      BY <1>0, <2>1
    <3>2. ASSUME NEW x \in Actions, outbox'[x] = "queued"
          PROVE  \E i \in 1..Len(order') : order'[i] = x
      <4>1. CASE x = a
        BY <3>1, <4>1
      <4>2. CASE x # a
        <5>1. outbox[x] = "queued"
          BY <1>0, <2>1, <3>2, <4>2
        <5>2. PICK i \in 1..Len(order) : order[i] = x
          BY <5>1 DEF Ordered
        <5> QED
          BY <3>1, <5>2
      <4> QED
        BY <4>1, <4>2
    <3> QED
      BY <3>2 DEF Ordered
  <2>2. CASE UNCHANGED <<order, outbox>>
    BY <2>2 DEF Ordered
  <2> QED
    BY <1>1, <2>1, <2>2 DEF Approve
<1>2. ASSUME UNCHANGED order,
             \A a \in Actions : outbox'[a] = "queued" => outbox[a] = "queued"
      PROVE  Ordered'
  BY <1>2 DEF Ordered
<1>3. ASSUME NEW a \in Actions, Cancel(a) \/ CheckRecord(a)
             \/ \E d \in BOOLEAN : Resolve(a, d)
      PROVE  Ordered'
  BY <1>0, <1>2, <1>3 DEF Cancel, CheckRecord, Resolve
<1>4. CASE Claim
  BY <1>0, <1>2, <1>4 DEF Claim
<1>5. CASE Settle
  <2>1. OutboxFor[SettledState] # "queued"
    BY DEF SettledState, OutboxFor, ActionStates
  <2> QED
    BY <1>0, <1>2, <1>5, <2>1 DEF Settle
<1>6. ASSUME NEW a \in Actions, RecoverRow(a) PROVE Ordered'
  <2>1. state[a] \in {"queued", "dispatching"} /\ outbox[a] = state[a]
    BY <1>0, <1>6 DEF RecoverRow, Rows, HeldRows, Unsettled, PairAgrees, AgreeingPairs
  <2>2. OutboxFor[Recovered(state[a])] = "queued" => outbox[a] = "queued"
    BY <2>1 DEF Recovered, OutboxFor, ActionStates
  <2> QED
    BY <1>0, <1>2, <1>6, <2>2 DEF RecoverRow
<1>7. ASSUME \/ \E a \in Actions : CheckLookup(a) \/ ApproveExpires(a) \/ Reject(a)
             \/ \E a \in Actions, u \in Analysts, c \in Clusters, r \in 0..MaxRevision,
                   w \in Workflows : Propose(a, u, c, r, w)
             \/ Environment \/ Stop \/ (\E g \in Configs : Start(g))
             \/ PolicyRefuses \/ SettleFails \/ Send \/ RecoveryDone \/ UNCHANGED vars
       PROVE UNCHANGED <<order, outbox>>
  BY <1>7 DEF CheckLookup, ApproveExpires, Reject, Propose, Environment, Revise, Merge,
              TtlElapses, Start, PolicyRefuses, SettleFails, Send, RecoveryDone, Stop, vars, stored
<1> QED
  BY <1>1, <1>2, <1>3, <1>4, <1>5, <1>6, <1>7
     DEF Next, People, Dispatcher, Recovery

\* Nobody but the dispatcher and recovery moves a dispatching action.
LEMMA PeopleLeaveDispatching ==
  ASSUME TypeOK, People \/ Environment, NEW b \in Actions
  PROVE  state'[b] = "dispatching" <=> state[b] = "dispatching"
<1>0. state \in [Actions -> ActionStates \cup {"absent"}]
  BY DEF TypeOK, RowsTyped
<1>1. CASE Environment
  BY <1>1 DEF Environment, Revise, Merge, TtlElapses, stored
<1>2. ASSUME NEW a \in Actions, NEW u \in Analysts, NEW c \in Clusters,
             NEW r \in 0..MaxRevision, NEW w \in Workflows, Propose(a, u, c, r, w)
      PROVE  state'[b] = "dispatching" <=> state[b] = "dispatching"
  BY <1>0, <1>2 DEF Propose
<1>3. ASSUME NEW a \in Actions, NEW u \in Responders, Approve(u, a)
      PROVE  state'[b] = "dispatching" <=> state[b] = "dispatching"
  BY <1>0, <1>3 DEF Approve
<1>4. ASSUME NEW a \in Actions,
             Cancel(a) \/ ApproveExpires(a) \/ Reject(a) \/ CheckLookup(a)
             \/ CheckRecord(a) \/ \E d \in BOOLEAN : Resolve(a, d)
      PROVE  state'[b] = "dispatching" <=> state[b] = "dispatching"
  BY <1>0, <1>4 DEF Cancel, Cancellable, ApproveExpires, Reject, CheckLookup, stored,
                    CheckRecord, Proves, Resolve
<1> QED
  BY <1>1, <1>2, <1>3, <1>4 DEF People

LEMMA HeldKept == TypeOK /\ Rows /\ Held /\ [Next]_vars => Held'
<1> SUFFICES ASSUME TypeOK, Rows, Held, [Next]_vars, NEW b \in Actions
             PROVE  HeldOne(b)' /\ LetGoOne(b)'
  BY OrderedKept DEF Held
<1>0. /\ state \in [Actions -> ActionStates \cup {"absent"}]
      /\ PairAgrees /\ HeldRows /\ ProcessTyped
      /\ HeldOne(b) /\ LetGoOne(b)
      /\ NoAction \notin Actions
  BY ResponseAssumption DEF TypeOK, RowsTyped, Rows, Held, ResponseAssumption
<1>1. CASE People \/ Environment \/ UNCHANGED vars
  <2>1. UNCHANGED process
    BY <1>1, PeopleLeave DEF Untouched, Environment, Revise, Merge, TtlElapses, vars
  <2>2. state'[b] = "dispatching" <=> state[b] = "dispatching"
    BY <1>1, PeopleLeaveDispatching DEF vars, stored
  <2> QED
    BY <1>0, <2>1, <2>2 DEF HeldOne, LetGoOne, process
<1>3. CASE Claim
  <2>1. UNCHANGED <<todo, dropped>> /\ phase = "idle" /\ phase' \in {"idle", "sending"}
    BY <1>3 DEF Claim
  <2>2. current = NoAction
    BY <1>0, <2>1 DEF ProcessTyped
  <2>3. CASE b \in Oldest
    <3>1. PICK a \in Oldest : current' = a
      BY <1>3, <2>3 DEF Claim, Oldest
    <3>2. a = b
      BY <2>3, <3>1, OneOldest DEF Held
    <3>3. state[b] # "dispatching"
      BY <2>3 DEF Oldest, Sendable
    <3> QED
      BY <1>0, <2>1, <3>1, <3>2, <3>3 DEF HeldOne, LetGoOne
  <2>4. CASE b \notin Oldest
    <3>1. state'[b] = "dispatching" <=> state[b] = "dispatching"
      BY <1>0, <1>3, <2>4 DEF Claim
    <3>2. current' # b
      BY <1>0, <1>3, <2>2, <2>4 DEF Claim
    <3> QED
      BY <1>0, <2>1, <2>2, <3>1, <3>2 DEF HeldOne, LetGoOne
  <2> QED
    BY <2>3, <2>4
<1>4. CASE PolicyRefuses \/ SettleFails
  <2>1. /\ current \in Actions /\ state[current] = "dispatching"
        /\ state' = state /\ todo' = todo
        /\ phase' = "idle" /\ current' = NoAction /\ dropped' = dropped \cup {current}
    BY <1>0, <1>4 DEF PolicyRefuses, SettleFails, stored, ProcessTyped, HeldRows
  <2>2. phase \notin {"down", "off"}
    BY <1>4 DEF PolicyRefuses, SettleFails
  <2> QED
    BY <1>0, <2>1, <2>2 DEF HeldOne, LetGoOne
<1>5. CASE Send
  BY <1>0, <1>5 DEF Send, stored, HeldOne, LetGoOne
<1>6. CASE Settle
  <2>1. current \in Actions /\ state[current] = "dispatching"
    BY <1>0, <1>6 DEF Settle, ProcessTyped, HeldRows
  <2>2. SettledState \in Transitions["dispatching"] /\ SettledState # "dispatching"
    BY DEF SettledState, Transitions, ActionStates
  <2>3. state' = [state EXCEPT ![current] = SettledState]
        /\ UNCHANGED <<todo, dropped>>
    BY <1>6, <2>1, <2>2 DEF Settle
  <2> QED
    BY <1>0, <1>6, <2>1, <2>2, <2>3 DEF Settle, HeldOne, LetGoOne
<1>7. ASSUME NEW a \in Actions, RecoverRow(a) PROVE HeldOne(b)' /\ LetGoOne(b)'
  BY <1>0, <1>7 DEF RecoverRow, Recovered, HeldOne, LetGoOne
<1>8. CASE RecoveryDone
  BY <1>0, <1>8 DEF RecoveryDone, stored, HeldOne, LetGoOne
<1>9. CASE Stop
  BY <1>9 DEF Stop, HeldOne, LetGoOne
<1>10. ASSUME NEW g \in Configs, Start(g) PROVE HeldOne(b)' /\ LetGoOne(b)'
  <2>1. state[b] = "dispatching" => b \in Unsettled
    BY <1>0 DEF PairAgrees, AgreeingPairs, Unsettled
  <2> QED
    BY <1>0, <1>10, <2>1 DEF Start, stored, HeldOne, LetGoOne
<1> QED
  BY <1>1, <1>3, <1>4, <1>5, <1>6, <1>7, <1>8, <1>9, <1>10
     DEF Next, Dispatcher, Recovery

\* While the channel runs, an action in the middle of a send is in the
\* dispatcher's hands, about to be judged by recovery, or among those this
\* process let go of in a cycle that raised, where it stays until the next start.
THEOREM NothingLeftDispatching == Spec => []DispatchingIsHeld
<1>1. Spec => []TypeOK /\ []Rows /\ []Held
  BY RowsInit, RowsKept, HeldInit, HeldKept, TypeCorrect, PTL DEF Spec
<1>2. TypeOK /\ Rows /\ Held => DispatchingIsHeld
  <2>1. ASSUME TypeOK, Rows, Held, NEW a \in dropped
        PROVE  state[a] = "dispatching" /\ outbox[a] = "dispatching"
    BY <2>1 DEF TypeOK, ProcessTyped, Held, LetGoOne, Rows, PairAgrees, AgreeingPairs
  <2> QED
    BY <2>1 DEF Held, HeldOne, DispatchingIsHeld
<1> QED
  BY <1>1, <1>2, PTL

=============================================================================
