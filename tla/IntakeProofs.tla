---------------------------- MODULE IntakeProofs ----------------------------
(***************************************************************************)
(* Proofs about Intake, for every set of events, alerts and aliases and    *)
(* any number of revisions, attempts, failures and stops.                  *)
(***************************************************************************)
EXTENDS Intake, TLAPS

LEMMA ItemPairs ==
  /\ \A e \in Events, r \in 1..MaxRevision :
       <<e, r>> \in Items /\ <<e, r>>[1] = e /\ <<e, r>>[2] = r
  /\ \A i \in Items : /\ i[1] \in Events /\ i[2] \in 1..MaxRevision
                      /\ i = <<i[1], i[2]>>
BY DEF Items

----------------------------------------------------------------------------
\* Types.

\* Work exists of stored revisions only, and only of alerts that are nobody's
\* duplicate.
Queued ==
  \A i \in Items : work[i] # "none" =>
    i[2] <= revision[i[1]] /\ i[1] \in Alerts /\ duplicateOf[i[1]] = NoEvent

TypedQueue == TypeOK /\ Queued

LEMMA TypeInit == Init => TypedQueue
<1> SUFFICES ASSUME Init PROVE TypedQueue
  OBVIOUS
<1>1. LedgerTyped
  BY IntakeAssumption DEF Init, LedgerTyped, WorkStates, IntakeAssumption
<1>2. batch = {} /\ handled = NoItem /\ up \in BOOLEAN
  BY DEF Init
<1>3. /\ seen \subseteq Events /\ applied \in [Events -> 0..MaxRevision]
      /\ troubled \subseteq Events /\ failures \in 0..MaxFailures
      /\ stops \in 0..MaxStops
  BY IntakeAssumption DEF Init, IntakeAssumption
<1>4. Queued
  BY DEF Init, Queued
<1> QED
  BY <1>1, <1>2, <1>3, <1>4 DEF TypedQueue, TypeOK, ProcessTyped

LEMMA LedgerStep == TypeOK /\ [Next]_vars => LedgerTyped'
<1> SUFFICES ASSUME TypeOK, [Next]_vars PROVE LedgerTyped'
  OBVIOUS
<1>0. LedgerTyped /\ ProcessTyped
  BY DEF TypeOK
<1> USE DEF WorkStates
<1>1. ASSUME NEW e \in Events, NEW s \in BOOLEAN, Commit(e, s) PROVE LedgerTyped'
  <2> DEFINE r == revision[e] + 1
  <2>1. r \in 1..MaxRevision
    BY <1>0, <1>1, IntakeAssumption DEF Commit, LedgerTyped, IntakeAssumption
  <2>2. <<e, r>> \in Items
    BY <2>1, ItemPairs
  <2>3. Holders(e) \subseteq Events
    BY <1>0, IntakeAssumption DEF Holders, LedgerTyped, IntakeAssumption
  <2>4. duplicateOf' \in [Events -> Events \cup {NoEvent}]
    BY <1>0, <1>1, <2>3 DEF Commit, LedgerTyped
  <2>5. holder' \in [Aliases -> Events \cup {NoEvent}]
    BY <1>0, <1>1 DEF Commit, LedgerTyped, Registered
  <2>6. revision' \in [Events -> 0..MaxRevision]
    BY <1>0, <1>1, <2>1, IntakeAssumption DEF Commit, LedgerTyped, IntakeAssumption
  <2>7. work' \in [Items -> WorkStates]
    BY <1>0, <1>1, <2>2 DEF Commit, LedgerTyped
  <2>8. /\ latestKept' \subseteq Events /\ recent' \subseteq Events
        /\ snapshots' \subseteq Items /\ noise' \subseteq Items
    BY <1>0, <1>1, <2>2 DEF Commit, LedgerTyped
  <2> QED
    BY <1>0, <1>1, <2>4, <2>5, <2>6, <2>7, <2>8 DEF Commit, LedgerTyped
<1>2. CASE Purge
  BY <1>0, <1>2 DEF Purge, LedgerTyped, ledger, clock, queue
<1>3. ASSUME NEW e \in Events, LeaveWindow(e) PROVE LedgerTyped'
  BY <1>0, <1>3 DEF LeaveWindow, LedgerTyped, ledger, payloads, queue
<1>4. ASSUME NEW e \in Events, NEW r \in 1..MaxRevision, Lapse(e, r) PROVE LedgerTyped'
  BY <1>0, <1>4, ItemPairs DEF Lapse, LedgerTyped, ledger, payloads, queue
<1>5. CASE Claim
  BY <1>0, <1>5 DEF Claim, LedgerTyped, ledger, payloads, clock
<1>6. ASSUME NEW i \in Items, Handle(i) PROVE LedgerTyped'
  <2>1. flagged' \subseteq Items
    BY <1>0, <1>6, ItemPairs DEF Handle, Process, Revise, LedgerTyped
  <2> QED
    BY <1>0, <1>6, <2>1 DEF Handle, LedgerTyped, ledger, payloads, clock, queue
<1>7. ASSUME NEW i \in Items, Fail(i) PROVE LedgerTyped'
  BY <1>0, <1>7 DEF Fail, LedgerTyped, ledger, payloads, clock
<1>8. CASE Ack
  BY <1>0, <1>8 DEF Ack, LedgerTyped, ledger, payloads, clock
<1>9. CASE AckFails \/ Stop
  BY <1>0, <1>9 DEF AckFails, Stop, LedgerTyped, ledger, payloads, clock, queue
<1>10. CASE Start
  BY <1>0, <1>10 DEF Start, LedgerTyped, ledger, payloads, clock
<1>11. CASE UNCHANGED vars
  BY <1>0, <1>11 DEF vars, LedgerTyped, ledger, payloads, clock, queue
<1> QED
  BY <1>1, <1>2, <1>3, <1>4, <1>5, <1>6, <1>7, <1>8, <1>9, <1>10, <1>11
     DEF Next, Source, Time, Work

LEMMA ProcessStep == TypedQueue /\ [Next]_vars => ProcessTyped'
<1> SUFFICES ASSUME TypedQueue, [Next]_vars PROVE ProcessTyped'
  OBVIOUS
<1>0. LedgerTyped /\ ProcessTyped /\ Queued
  BY DEF TypedQueue, TypeOK
<1> USE DEF ProcessTyped
<1>1. ASSUME NEW e \in Events, NEW s \in BOOLEAN, Commit(e, s) PROVE ProcessTyped'
  <2>1. revision[e] + 1 \in 1..MaxRevision
    BY <1>0, <1>1, IntakeAssumption DEF Commit, LedgerTyped, IntakeAssumption
  <2>2. \A i \in batch : i # <<e, revision[e] + 1>>
    BY <1>0, <2>1, ItemPairs DEF Queued, LedgerTyped
  <2>3. \A i \in batch : work'[i] = work[i]
    BY <1>0, <1>1, <2>1, <2>2, ItemPairs DEF Commit, LedgerTyped
  <2> QED
    BY <1>0, <1>1, <2>3 DEF Commit, consumer, pipeline, history
<1>2. CASE Purge
  BY <1>0, <1>2 DEF Purge, queue, consumer, pipeline, history
<1>3. ASSUME NEW e \in Events, \/ LeaveWindow(e)
                               \/ \E r \in 1..MaxRevision : Lapse(e, r)
      PROVE ProcessTyped'
  BY <1>0, <1>3 DEF LeaveWindow, Lapse, queue, consumer, pipeline, history
<1>5. CASE Claim
  BY <1>0, <1>5 DEF Claim, Waiting, Reclaimable, pipeline, history, LedgerTyped
<1>6. ASSUME NEW i \in Items, Handle(i) PROVE ProcessTyped'
  <2>1. seen' \subseteq Events /\ applied' \in [Events -> 0..MaxRevision]
    BY <1>0, <1>6, ItemPairs, IntakeAssumption
       DEF Handle, Process, Revise, IntakeAssumption
  <2> QED
    BY <1>0, <1>6, <2>1 DEF Handle, Turn, queue, history
<1>7. ASSUME NEW i \in Items, Fail(i) PROVE ProcessTyped'
  BY <1>0, <1>7, ItemPairs, IntakeAssumption
     DEF Fail, pipeline, LedgerTyped, IntakeAssumption
<1>8. CASE Ack
  BY <1>0, <1>8 DEF Ack, pipeline, history, LedgerTyped
<1>9. CASE AckFails
  BY <1>0, <1>9, ItemPairs, IntakeAssumption DEF AckFails, queue, pipeline, IntakeAssumption
<1>10. CASE Stop
  <2>1. batch' = {} /\ handled' = NoItem /\ up' \in BOOLEAN
    BY <1>10 DEF Stop
  <2>2. /\ seen' \subseteq Events /\ applied' \in [Events -> 0..MaxRevision]
        /\ troubled' \subseteq Events /\ failures' \in 0..MaxFailures
        /\ stops' \in 0..MaxStops
    BY <1>0, <1>10, IntakeAssumption DEF Stop, history, IntakeAssumption
  <2> QED
    BY <2>1, <2>2
<1>11. CASE Start
  <2>1. batch' = {} /\ handled' = NoItem /\ up' \in BOOLEAN
    BY <1>0, <1>11 DEF Start, consumer
  <2>2. /\ seen' \subseteq Events /\ applied' \in [Events -> 0..MaxRevision]
        /\ troubled' \subseteq Events /\ failures' \in 0..MaxFailures
        /\ stops' \in 0..MaxStops
    BY <1>0, <1>11, IntakeAssumption
       DEF Start, Replayable, LedgerTyped, history, IntakeAssumption
  <2> QED
    BY <2>1, <2>2
<1>12. CASE UNCHANGED vars
  BY <1>0, <1>12 DEF vars, queue, consumer, pipeline, history
<1> QED
  BY <1>1, <1>2, <1>3, <1>5, <1>6, <1>7, <1>8, <1>9, <1>10, <1>11, <1>12
     DEF Next, Source, Time, Work

LEMMA QueuedStep == TypedQueue /\ [Next]_vars => Queued'
<1> SUFFICES ASSUME TypedQueue, [Next]_vars PROVE Queued'
  OBVIOUS
<1>0. LedgerTyped /\ ProcessTyped /\ Queued
  BY DEF TypedQueue, TypeOK
<1>1. ASSUME NEW e \in Events, NEW s \in BOOLEAN, Commit(e, s) PROVE Queued'
  <2> DEFINE new == <<e, revision[e] + 1>>
  <2>1. revision[e] \in 0..MaxRevision /\ revision[e] + 1 \in 1..MaxRevision
    BY <1>0, <1>1, IntakeAssumption DEF Commit, LedgerTyped, IntakeAssumption
  <2>2. new \in Items /\ new[1] = e /\ new[2] = revision[e] + 1
    BY <2>1, ItemPairs
  <2>3. \A f \in Events : f # e => /\ revision'[f] = revision[f]
                                   /\ duplicateOf'[f] = duplicateOf[f]
    BY <1>0, <1>1 DEF Commit, LedgerTyped
  <2>4. revision'[e] = revision[e] + 1
    BY <1>0, <1>1 DEF Commit, LedgerTyped
  <2>5. revision[e] > 0 => duplicateOf'[e] = duplicateOf[e]
    BY <1>1, <2>1 DEF Commit
  <2>6. \A i \in Items : i # new => work'[i] = work[i]
    BY <1>0, <1>1 DEF Commit, LedgerTyped
  <2>7. work'[new] # work[new] => e \in Alerts /\ duplicateOf'[e] = NoEvent
    BY <1>1 DEF Commit
  <2>8. work[new] = "none"
    BY <1>0, <2>1, <2>2 DEF Queued, LedgerTyped
  <2> HIDE DEF new
  <2> SUFFICES ASSUME NEW i \in Items, work'[i] # "none"
               PROVE  /\ i[2] <= revision'[i[1]] /\ i[1] \in Alerts
                      /\ duplicateOf'[i[1]] = NoEvent
    BY DEF Queued
  <2>9. CASE i = new
    BY <2>1, <2>2, <2>4, <2>7, <2>8, <2>9
  <2>10. CASE i # new
    <3>1. i[2] <= revision[i[1]] /\ i[1] \in Alerts /\ duplicateOf[i[1]] = NoEvent
      BY <1>0, <2>6, <2>10 DEF Queued
    <3>2. i[1] \in Events /\ i[2] \in 1..MaxRevision
      BY ItemPairs
    <3> QED
      BY <2>1, <2>3, <2>4, <2>5, <3>1, <3>2
  <2> QED
    BY <2>9, <2>10
<1>2. ASSUME UNCHANGED ledger, \A i \in Items : work[i] = "none" => work'[i] = "none"
      PROVE Queued'
  BY <1>0, <1>2 DEF Queued, ledger
<1>3. ASSUME \/ Purge \/ Claim \/ Ack \/ AckFails \/ Stop \/ Start \/ UNCHANGED vars
             \/ \E i \in Items : Handle(i) \/ Fail(i)
             \/ \E e \in Events : LeaveWindow(e) \/ \E r \in 1..MaxRevision : Lapse(e, r)
      PROVE UNCHANGED ledger
  BY <1>3 DEF Purge, Claim, Ack, AckFails, Stop, Start, vars, Handle, Fail,
              LeaveWindow, Lapse
<1>4. ASSUME \/ Purge \/ AckFails \/ Stop \/ UNCHANGED vars
             \/ \E i \in Items : Handle(i)
             \/ \E e \in Events : LeaveWindow(e) \/ \E r \in 1..MaxRevision : Lapse(e, r)
      PROVE \A i \in Items : work[i] = "none" => work'[i] = "none"
  BY <1>4 DEF Purge, AckFails, Stop, vars, Handle, LeaveWindow, Lapse, queue
<1>5. ASSUME Claim \/ Start \/ Ack \/ \E i \in Items : Fail(i)
      PROVE \A i \in Items : work[i] = "none" => work'[i] = "none"
  BY <1>0, <1>5
     DEF Claim, Waiting, Reclaimable, Start, Ack, Fail, Turn, LedgerTyped, ProcessTyped
<1> QED
  BY <1>1, <1>2, <1>3, <1>4, <1>5 DEF Next, Source, Time, Work

LEMMA TypeStep == TypedQueue /\ [Next]_vars => TypedQueue'
BY LedgerStep, ProcessStep, QueuedStep DEF TypeOK, TypedQueue

\* Every reachable state is well typed, and the consumer only holds claimed
\* items.
THEOREM TypeCorrect == Spec => []TypeOK
<1>1. TypedQueue => TypeOK
  BY DEF TypedQueue
<1> QED
  BY <1>1, TypeInit, TypeStep, PTL DEF Spec

----------------------------------------------------------------------------
\* Payloads.

LEMMA KeepsPayloadStep ==
  TypedQueue /\ WorkKeepsPayload /\ [Next]_vars => WorkKeepsPayload'
<1> SUFFICES ASSUME TypedQueue, WorkKeepsPayload, [Next]_vars PROVE WorkKeepsPayload'
  OBVIOUS
<1>0. LedgerTyped /\ ProcessTyped
  BY DEF TypedQueue, TypeOK
<1> USE DEF WorkKeepsPayload, Unresolved
<1>1. ASSUME NEW e \in Events, NEW s \in BOOLEAN, Commit(e, s) PROVE WorkKeepsPayload'
  BY <1>0, <1>1 DEF Commit, LedgerTyped
<1>2. CASE Purge
  <2> SUFFICES ASSUME NEW i \in Items, work'[i] \in Unresolved PROVE i \in snapshots'
    OBVIOUS
  <2>1. work[i] \in Unresolved /\ i \in snapshots
    BY <1>2 DEF Purge, queue
  <2>2. Open(i[1])
    BY <2>1, ItemPairs DEF Open
  <2> QED
    BY <1>2, <2>1, <2>2 DEF Purge
<1>3. ASSUME UNCHANGED snapshots,
             \A i \in Items : work'[i] \in Unresolved => work[i] \in Unresolved
      PROVE WorkKeepsPayload'
  BY <1>3
<1>4. ASSUME \/ Claim \/ Ack \/ AckFails \/ Stop \/ Start \/ UNCHANGED vars
             \/ \E i \in Items : Handle(i) \/ Fail(i)
             \/ \E e \in Events : LeaveWindow(e) \/ \E r \in 1..MaxRevision : Lapse(e, r)
      PROVE UNCHANGED snapshots
  BY <1>4 DEF Claim, Ack, AckFails, Stop, Start, vars, Handle, Fail, LeaveWindow,
              Lapse, payloads
<1>5. ASSUME \/ AckFails \/ Stop \/ UNCHANGED vars
             \/ \E i \in Items : Handle(i)
             \/ \E e \in Events : LeaveWindow(e) \/ \E r \in 1..MaxRevision : Lapse(e, r)
      PROVE UNCHANGED work
  BY <1>5 DEF AckFails, Stop, vars, Handle, LeaveWindow, Lapse, queue
<1>6. ASSUME Claim \/ Start \/ Ack \/ \E i \in Items : Fail(i)
      PROVE \A i \in Items : work'[i] \in Unresolved => work[i] \in Unresolved
  BY <1>0, <1>6
     DEF Claim, Waiting, Reclaimable, Start, Ack, Fail, Turn, LedgerTyped, ProcessTyped
<1> QED
  BY <1>1, <1>2, <1>3, <1>4, <1>5, <1>6 DEF Next, Source, Time, Work

\* Whenever the purge runs, the payload of unresolved work is still stored.
THEOREM PayloadsKept == Spec => []WorkKeepsPayload
<1>1. Init => WorkKeepsPayload
  BY DEF Init, WorkKeepsPayload, Unresolved
<1> QED
  BY <1>1, TypeInit, TypeStep, KeepsPayloadStep, PTL DEF Spec

----------------------------------------------------------------------------
\* Nothing is acknowledged unseen.

\* What the consumer is about to acknowledge, the pipeline has seen.
HandledSeen == handled # NoItem => handled[1] \in seen

SeenInv == HandledSeen /\ NothingLost

LEMMA HandledSeenStep == TypedQueue /\ HandledSeen /\ [Next]_vars => HandledSeen'
<1> SUFFICES ASSUME TypedQueue, HandledSeen, [Next]_vars PROVE HandledSeen'
  OBVIOUS
<1>0. LedgerTyped /\ ProcessTyped
  BY DEF TypedQueue, TypeOK
<1>1. ASSUME NEW i \in Items, Handle(i) PROVE HandledSeen'
  BY <1>0, <1>1, ItemPairs DEF HandledSeen, Handle, Process, Revise, NotSeen
<1>2. CASE Ack \/ AckFails \/ Stop
  BY <1>2 DEF HandledSeen, Ack, AckFails, Stop
<1>3. CASE Start
  BY <1>0, <1>3, IntakeAssumption
     DEF HandledSeen, Start, ProcessTyped, consumer, IntakeAssumption
<1>4. ASSUME UNCHANGED handled, UNCHANGED seen PROVE HandledSeen'
  BY <1>4 DEF HandledSeen
<1>5. ASSUME \/ Purge \/ Claim \/ UNCHANGED vars \/ \E i \in Items : Fail(i)
             \/ \E e \in Events, s \in BOOLEAN : Commit(e, s)
             \/ \E e \in Events : LeaveWindow(e) \/ \E r \in 1..MaxRevision : Lapse(e, r)
      PROVE UNCHANGED handled /\ UNCHANGED seen
  BY <1>5 DEF Purge, Claim, vars, Fail, Commit, LeaveWindow, Lapse, consumer, pipeline
<1> QED
  BY <1>1, <1>2, <1>3, <1>4, <1>5 DEF Next, Source, Time, Work

\* An alert whose work is done and that was not replayable a step ago has just
\* been committed anew, and so has open work.
LEMMA NothingLostStep ==
  TypedQueue /\ SeenInv /\ [Next]_vars => NothingLost'
<1> SUFFICES ASSUME TypedQueue, SeenInv, [Next]_vars,
                    NEW e \in Replayable', up',
                    \A r \in 1..revision'[e] : work'[<<e, r>>] = "processed"
             PROVE  e \in seen'
  BY DEF NothingLost
<1>0. LedgerTyped /\ ProcessTyped /\ HandledSeen /\ NothingLost /\ e \in Events
  BY IntakeAssumption DEF TypedQueue, TypeOK, SeenInv, Replayable, IntakeAssumption
<1>1. CASE Start
  BY <1>1 DEF Start, Replayable, ledger, payloads, clock
<1>2. CASE Stop
  BY <1>2 DEF Stop
<1>3. ASSUME NEW f \in Events, NEW s \in BOOLEAN, Commit(f, s) PROVE e \in seen'
  <2>1. CASE e = f
    <3>1. revision[e] + 1 \in 1..MaxRevision /\ revision'[e] = revision[e] + 1
      BY <1>0, <1>3, <2>1, IntakeAssumption DEF Commit, LedgerTyped, IntakeAssumption
    <3>2. e \in Alerts /\ duplicateOf'[e] = NoEvent
      BY DEF Replayable
    <3>3. work'[<<e, revision[e] + 1>>] = "pending"
      BY <1>0, <1>3, <2>1, <3>1, <3>2, ItemPairs DEF Commit, LedgerTyped
    <3> QED
      BY <3>1, <3>3
  <2>2. CASE e # f
    <3>1. /\ revision'[e] = revision[e] /\ duplicateOf'[e] = duplicateOf[e]
          /\ e \in latestKept /\ e \in recent /\ up /\ seen' = seen
      BY <1>0, <1>3, <2>2 DEF Commit, LedgerTyped, Replayable, pipeline
    <3>2. \A r \in 1..revision[e] : work'[<<e, r>>] = work[<<e, r>>]
      BY <1>0, <1>3, <2>2, ItemPairs DEF Commit, LedgerTyped
    <3>3. e \in Replayable
      BY <3>1 DEF Replayable
    <3> QED
      BY <1>0, <3>1, <3>2, <3>3 DEF NothingLost
  <2> QED
    BY <2>1, <2>2
<1>4. ASSUME UNCHANGED ledger, up, latestKept' \subseteq latestKept, recent' \subseteq recent,
             seen \subseteq seen',
             \A r \in 1..revision[e] :
               work'[<<e, r>>] = "processed" => work[<<e, r>>] = "processed" \/ e \in seen
      PROVE e \in seen'
  <2>1. e \in Replayable
    BY <1>4 DEF Replayable, ledger
  <2>2. revision[e] \in 1..MaxRevision /\ revision'[e] = revision[e]
    BY <1>0, <1>4, <2>1 DEF Replayable, ledger, LedgerTyped
  <2> QED
    BY <1>0, <1>4, <2>1, <2>2 DEF NothingLost
<1>5. ASSUME \/ Purge \/ Claim \/ AckFails \/ UNCHANGED vars
             \/ \E i \in Items : Handle(i) \/ Fail(i)
             \/ \E f \in Events : LeaveWindow(f) \/ \E r \in 1..MaxRevision : Lapse(f, r)
      PROVE e \in seen'
  <2>1. /\ UNCHANGED ledger /\ up /\ latestKept' \subseteq latestKept
        /\ recent' \subseteq recent /\ seen \subseteq seen'
    BY <1>5 DEF Purge, Claim, AckFails, vars, Handle, Process, Revise, Fail, LeaveWindow,
                Lapse, payloads, clock, pipeline
  <2>2. \A i \in Items : work'[i] = "processed" => work[i] = "processed"
    BY <1>0, <1>5 DEF Purge, Claim, AckFails, vars, Handle, Fail, LeaveWindow, Lapse,
                      queue, LedgerTyped
  <2>3. \A r \in 1..revision[e] : <<e, r>> \in Items
    <3>1. revision[e] \in 0..MaxRevision /\ MaxRevision \in Nat
      BY <1>0, IntakeAssumption DEF LedgerTyped, IntakeAssumption
    <3>2. \A r \in 1..revision[e] : r \in 1..MaxRevision
      BY <3>1
    <3> QED
      BY <1>0, <3>2, ItemPairs
  <2> QED
    BY <1>4, <2>1, <2>2, <2>3
<1>6. CASE Ack
  <2>1. /\ UNCHANGED ledger /\ up /\ latestKept' = latestKept /\ recent' = recent
        /\ seen' = seen
    BY <1>6 DEF Ack, payloads, clock, pipeline
  <2>2. \A r \in 1..revision[e] :
          work'[<<e, r>>] = "processed" => work[<<e, r>>] = "processed" \/ e \in seen
    <3> SUFFICES ASSUME NEW r \in 1..revision[e], <<e, r>> = handled PROVE e \in seen
      BY <1>0, <1>6, ItemPairs DEF Ack, LedgerTyped
    <3> QED
      BY <1>0, <1>6 DEF HandledSeen, Ack
  <2> QED
    BY <1>4, <2>1, <2>2
<1> QED
  BY <1>1, <1>2, <1>3, <1>5, <1>6 DEF Next, Source, Time, Work

\* An acknowledgement never covers an alert the pipeline has not taken in.
THEOREM AcknowledgedIsSeen == Spec => []NothingLost
<1>1. Init => SeenInv
  BY DEF Init, SeenInv, HandledSeen, NothingLost
<1>2. TypedQueue /\ SeenInv /\ [Next]_vars => SeenInv'
  BY HandledSeenStep, NothingLostStep DEF SeenInv
<1>3. SeenInv => NothingLost
  BY DEF SeenInv
<1> QED
  BY <1>1, <1>2, <1>3, TypeInit, TypeStep, PTL DEF Spec

----------------------------------------------------------------------------
\* One alert, one count.

\* A stored event that is no duplicate registered each of its provider ids,
\* and an id is registered by a stored event that carries it.
Owns ==
  \A e \in Events : revision[e] > 0 /\ duplicateOf[e] = NoEvent =>
    \A id \in AliasOf[e] : holder[id] = e

HoldersStored ==
  \A id \in Aliases : holder[id] # NoEvent =>
    revision[holder[id]] > 0 /\ id \in AliasOf[holder[id]]

DuplicatesShare ==
  \A e \in Events : LET f == duplicateOf[e] IN
    f # NoEvent => f # e /\ revision[f] > 0 /\ AliasOf[e] \cap AliasOf[f] # {}

\* The correlator holds stored events only, and no duplicates.
AppliedOwn ==
  \A e \in Events : applied[e] # 0 => revision[e] > 0 /\ duplicateOf[e] = NoEvent

OnceInv == Owns /\ HoldersStored /\ DuplicatesShare /\ AppliedOwn

LEMMA OnceImplies == TypeOK /\ OnceInv => CountsOnce
<1> SUFFICES ASSUME TypeOK, OnceInv PROVE CountsOnce
  OBVIOUS
<1>1. ASSUME NEW e \in Events, NEW f \in Events, e # f, applied[e] # 0, applied[f] # 0,
             NEW id \in AliasOf[e] \cap AliasOf[f]
      PROVE FALSE
  <2>1. holder[id] = e
    BY <1>1 DEF OnceInv, AppliedOwn, Owns
  <2>2. holder[id] = f
    BY <1>1 DEF OnceInv, AppliedOwn, Owns
  <2> QED
    BY <1>1, <2>1, <2>2
<1> QED
  BY <1>1 DEF CountsOnce, OnceInv, DuplicatesShare

LEMMA OnceCommit ==
  ASSUME TypedQueue, OnceInv, NEW e \in Events, NEW s \in BOOLEAN, Commit(e, s)
  PROVE  OnceInv'
<1>0. LedgerTyped /\ Owns /\ HoldersStored /\ DuplicatesShare /\ AppliedOwn
  BY DEF TypedQueue, TypeOK, OnceInv
<1> USE IntakeAssumption DEF IntakeAssumption
<1>1. /\ revision[e] \in 0..MaxRevision
      /\ revision' = [revision EXCEPT ![e] = revision[e] + 1]
      /\ revision'[e] = revision[e] + 1
      /\ \A f \in Events : revision[f] > 0 => revision'[f] > 0
  BY <1>0 DEF Commit, LedgerTyped
<1>2. \A f \in Events : f # e => /\ revision'[f] = revision[f]
                                 /\ duplicateOf'[f] = duplicateOf[f]
  BY <1>0, <1>1 DEF Commit, LedgerTyped
<1>3. CASE revision[e] > 0
  <2>1. UNCHANGED <<duplicateOf, holder, applied>>
    BY <1>1, <1>3 DEF Commit, pipeline
  <2>2. \A f \in Events : revision'[f] > 0 => revision[f] > 0
    BY <1>2, <1>3
  <2>3. \A id \in Aliases : holder[id] # NoEvent => holder[id] \in Events
    BY <1>0 DEF LedgerTyped
  <2>4. \A f \in Events : duplicateOf[f] # NoEvent => duplicateOf[f] \in Events
    BY <1>0 DEF LedgerTyped
  <2>5. Owns'
    BY <1>0, <2>1, <2>2 DEF Owns
  <2>6. HoldersStored'
    BY <1>0, <1>1, <2>1, <2>3 DEF HoldersStored
  <2>7. DuplicatesShare' /\ AppliedOwn'
    BY <1>0, <1>1, <2>1, <2>4 DEF DuplicatesShare, AppliedOwn
  <2> QED
    BY <2>5, <2>6, <2>7 DEF OnceInv
<1>4. CASE revision[e] = 0
  <2>1. PICK g \in IF Holders(e) = {} THEN {NoEvent} ELSE Holders(e) :
               duplicateOf' = [duplicateOf EXCEPT ![e] = g]
    BY <1>4 DEF Commit
  <2>2. duplicateOf'[e] = g
    BY <1>0, <2>1 DEF LedgerTyped
  <2>3. UNCHANGED applied /\ applied[e] = 0
    BY <1>0, <1>4 DEF Commit, pipeline, AppliedOwn
  <2>4. \A id \in Aliases :
          holder'[id] = IF id \in AliasOf[e] /\ holder[id] = NoEvent THEN e ELSE holder[id]
    BY <1>0, <1>4 DEF Commit, Registered, LedgerTyped
  <2>5. \A id \in Aliases : holder[id] # e /\ (holder[id] # NoEvent => holder[id] \in Events)
    BY <1>0, <1>4 DEF HoldersStored, LedgerTyped
  <2>6. ASSUME g = NoEvent PROVE \A id \in AliasOf[e] : holder'[id] = e
    <3>1. Holders(e) = {}
      BY <2>1, <2>6 DEF Holders
    <3>2. \A id \in AliasOf[e] : holder[id] = NoEvent
      BY <3>1, <2>5 DEF Holders
    <3> QED
      BY <2>4, <3>2
  <2>7. ASSUME g # NoEvent
        PROVE  g \in Events /\ g # e /\ revision[g] > 0 /\ AliasOf[e] \cap AliasOf[g] # {}
    <3>1. g \in Holders(e)
      BY <2>1, <2>7
    <3>2. PICK id \in AliasOf[e] : holder[id] = g /\ g # e
      BY <3>1 DEF Holders
    <3>3. id \in Aliases
      OBVIOUS
    <3>4. g \in Events
      BY <2>5, <2>7, <3>2, <3>3
    <3>5. revision[g] > 0 /\ id \in AliasOf[g]
      BY <1>0, <2>7, <3>2, <3>3 DEF HoldersStored
    <3> QED
      BY <3>2, <3>4, <3>5
  <2>8. Owns'
    <3> SUFFICES ASSUME NEW f \in Events, revision'[f] > 0, duplicateOf'[f] = NoEvent,
                        NEW id \in AliasOf[f]
                 PROVE  holder'[id] = f
      BY DEF Owns
    <3>1. CASE f = e
      BY <2>2, <2>6, <3>1
    <3>2. CASE f # e
      <4>1. holder[id] = f
        BY <1>0, <1>2, <3>2 DEF Owns
      <4> QED
        BY <2>4, <4>1
    <3> QED
      BY <3>1, <3>2
  <2>9. HoldersStored'
    <3> SUFFICES ASSUME NEW id \in Aliases, holder'[id] # NoEvent
                 PROVE  revision'[holder'[id]] > 0 /\ id \in AliasOf[holder'[id]]
      BY DEF HoldersStored
    <3>1. CASE id \in AliasOf[e] /\ holder[id] = NoEvent
      BY <1>1, <2>4, <3>1
    <3>2. CASE ~(id \in AliasOf[e] /\ holder[id] = NoEvent)
      BY <1>0, <1>1, <2>4, <2>5, <3>2 DEF HoldersStored
    <3> QED
      BY <3>1, <3>2
  <2>10. DuplicatesShare'
    <3> SUFFICES ASSUME NEW f \in Events, duplicateOf'[f] # NoEvent
                 PROVE  LET h == duplicateOf'[f] IN
                          h # f /\ revision'[h] > 0 /\ AliasOf[f] \cap AliasOf[h] # {}
      BY DEF DuplicatesShare
    <3>1. CASE f = e
      BY <1>1, <2>2, <2>7, <3>1
    <3>2. CASE f # e
      <4>1. duplicateOf'[f] = duplicateOf[f] /\ duplicateOf[f] \in Events
        BY <1>0, <1>2, <3>2 DEF LedgerTyped
      <4> QED
        BY <1>0, <1>1, <4>1 DEF DuplicatesShare
    <3> QED
      BY <3>1, <3>2
  <2>11. AppliedOwn'
    BY <1>0, <1>1, <1>2, <2>3 DEF AppliedOwn
  <2> QED
    BY <2>8, <2>9, <2>10, <2>11 DEF OnceInv
<1> QED
  BY <1>1, <1>3, <1>4

LEMMA OnceStep == TypedQueue /\ OnceInv /\ [Next]_vars => OnceInv'
<1> SUFFICES ASSUME TypedQueue, OnceInv, [Next]_vars PROVE OnceInv'
  OBVIOUS
<1>0. LedgerTyped /\ ProcessTyped /\ Queued /\ AppliedOwn
  BY DEF TypedQueue, TypeOK, OnceInv
<1>1. ASSUME UNCHANGED ledger, AppliedOwn' PROVE OnceInv'
  <2>1. UNCHANGED <<revision, duplicateOf, holder>>
    BY <1>1 DEF ledger
  <2> QED
    BY <1>1, <2>1 DEF OnceInv, Owns, HoldersStored, DuplicatesShare
<1>2. ASSUME NEW i \in Items, Handle(i) PROVE UNCHANGED ledger /\ AppliedOwn'
  <2>1. UNCHANGED ledger
    BY <1>2 DEF Handle
  <2>2. i[1] \in Events /\ i[2] \in 1..MaxRevision
    BY ItemPairs
  <2>3. revision[i[1]] > 0 /\ duplicateOf[i[1]] = NoEvent
    <3>1. work[i] # "none"
      BY <1>0, <1>2 DEF Handle, Turn, ProcessTyped
    <3> QED
      BY <1>0, <2>2, <3>1 DEF Queued, LedgerTyped
  <2>4. \A f \in Events : f # i[1] => applied'[f] = applied[f]
    BY <1>0, <1>2 DEF Handle, Process, Revise, ProcessTyped
  <2> QED
    BY <1>0, <2>1, <2>3, <2>4 DEF AppliedOwn, ledger
<1>3. ASSUME Start PROVE AppliedOwn'
  BY <1>0, <1>3, IntakeAssumption
     DEF Start, AppliedOwn, Replayable, ledger, IntakeAssumption
<1>4. ASSUME Stop PROVE AppliedOwn'
  BY <1>4 DEF Stop, AppliedOwn
<1>5. ASSUME \/ Purge \/ Claim \/ Ack \/ AckFails \/ UNCHANGED vars
             \/ \E i \in Items : Fail(i)
             \/ \E e \in Events : LeaveWindow(e) \/ \E r \in 1..MaxRevision : Lapse(e, r)
      PROVE UNCHANGED ledger /\ UNCHANGED applied
  BY <1>5 DEF Purge, Claim, Ack, AckFails, vars, Fail, LeaveWindow, Lapse, pipeline
<1>6. ASSUME UNCHANGED ledger, UNCHANGED applied PROVE AppliedOwn'
  BY <1>0, <1>6 DEF AppliedOwn, ledger
<1>7. CASE Start \/ Stop
  <2>1. UNCHANGED ledger
    BY <1>7 DEF Start, Stop
  <2> QED
    BY <1>1, <1>3, <1>4, <1>7, <2>1
<1> QED
  BY OnceCommit, <1>1, <1>2, <1>5, <1>6, <1>7 DEF Next, Source, Time, Work

\* However the APIs of a provider deliver an alert and whatever is replayed,
\* the correlator holds it once.
THEOREM CountedOnce == Spec => []CountsOnce
<1>1. Init => OnceInv
  BY IntakeAssumption
     DEF Init, OnceInv, Owns, HoldersStored, DuplicatesShare, AppliedOwn, IntakeAssumption
<1>2. TypedQueue /\ OnceInv => CountsOnce
  BY OnceImplies DEF TypedQueue
<1> QED
  BY <1>1, <1>2, TypeInit, TypeStep, OnceStep, PTL DEF Spec

----------------------------------------------------------------------------
\* The last revision wins when nothing failed.

\* The work of an event that met no failure.  A stop leaves items claimed;
\* the start after it puts them back, so only a running process is orderly.
Whole ==
  \A e \in Alerts : duplicateOf[e] = NoEvent =>
    \A r \in 1..revision[e] : work[<<e, r>>] # "none"

NeverFailed ==
  \A e \in Events \ troubled, r \in 1..MaxRevision :
    work[<<e, r>>] \notin {"failed_retryable", "quarantined"}

ClaimedInHand ==
  up => \A e \in Events \ troubled, r \in 1..MaxRevision :
          work[<<e, r>>] = "claimed" => <<e, r>> \in batch

PendingLater ==
  \A e \in Events \ troubled, q, r \in 1..MaxRevision :
    work[<<e, q>>] = "pending" /\ <<e, r>> \in batch => r < q

HandledFirst == handled # NoItem => Turn(handled)

DoneInOrder ==
  \A e \in Events \ troubled, q, r \in 1..MaxRevision :
    work[<<e, r>>] = "processed" /\ q <= r => work[<<e, q>>] = "processed"

OrderInv ==
  Whole /\ NeverFailed /\ ClaimedInHand /\ PendingLater /\ HandledFirst /\ DoneInOrder

\* A revision the pipeline has taken is in the correlator, or a person was
\* asked about it, or a later one was taken after it.
Done(i) == work[i] = "processed" \/ handled = i

AppliedKnown == \A e \in Events : applied[e] <= revision[e]

LastTaken ==
  up => \A e \in Events \ troubled : applied[e] # 0 =>
    \A r \in 1..revision[e] : Done(<<e, r>>) =>
      \/ applied[e] >= r \/ <<e, r>> \in flagged
      \/ \E q \in 1..revision[e] : r < q /\ Done(<<e, q>>)

LEMMA StoredPairs ==
  ASSUME TypeOK
  PROVE  /\ \A e \in Events : revision[e] \in 0..MaxRevision /\ revision[e] \in Nat
         /\ \A e \in Events : \A r \in 1..revision[e] :
              r \in 1..MaxRevision /\ <<e, r>> \in Items
<1>1. \A e \in Events : revision[e] \in 0..MaxRevision /\ revision[e] \in Nat
  BY IntakeAssumption DEF TypeOK, LedgerTyped, IntakeAssumption
<1>2. \A e \in Events : \A r \in 1..revision[e] : r \in 1..MaxRevision
  BY <1>1, IntakeAssumption DEF IntakeAssumption
<1>3. \A e \in Events, r \in 1..MaxRevision : <<e, r>> \in Items
  BY DEF Items
<1>4. \A e \in Events : \A r \in 1..revision[e] : r \in 1..MaxRevision /\ <<e, r>> \in Items
  BY <1>2, <1>3
<1> QED
  BY <1>1, <1>4

LEMMA CommitOrder ==
  ASSUME TypedQueue, OrderInv, NEW f \in Events, NEW s \in BOOLEAN, Commit(f, s)
  PROVE  OrderInv'
<1>0. LedgerTyped /\ ProcessTyped /\ Queued /\ TypeOK
  BY DEF TypedQueue, TypeOK
<1> DEFINE new == <<f, revision[f] + 1>>
<1>1. revision[f] \in 0..MaxRevision /\ revision[f] + 1 \in 1..MaxRevision
  BY <1>0, IntakeAssumption DEF Commit, LedgerTyped, IntakeAssumption
<1>2. new \in Items
  BY <1>1, ItemPairs
<1>3. /\ \A e \in Events : e # f => /\ revision'[e] = revision[e]
                                    /\ duplicateOf'[e] = duplicateOf[e]
      /\ revision'[f] = revision[f] + 1
      /\ revision[f] > 0 => duplicateOf' = duplicateOf
  BY <1>0, <1>1 DEF Commit, LedgerTyped
<1>4. work[new] = "none"
  BY <1>0, <1>1, <1>2 DEF Queued
<1>5. /\ \A i \in Items : i # new => work'[i] = work[i]
      /\ work'[new] \in {"none", "pending"}
      /\ f \in Alerts /\ duplicateOf'[f] = NoEvent => work'[new] = "pending"
  BY <1>0, <1>2, <1>4 DEF Commit, LedgerTyped
<1>6. UNCHANGED <<up, batch, handled, troubled>>
  BY DEF Commit, consumer, history
<1>7. new \notin batch
  BY <1>0, <1>4 DEF ProcessTyped
<1>8. \A e \in Events, r \in 1..MaxRevision :
        /\ <<e, r>> \in Items
        /\ <<e, r>> = new <=> e = f /\ r = revision[f] + 1
        /\ work[<<e, r>>] # "none" => r <= revision[e]
  <2> SUFFICES ASSUME NEW e \in Events, NEW r \in 1..MaxRevision
               PROVE  /\ <<e, r>> \in Items
                      /\ <<e, r>> = new <=> e = f /\ r = revision[f] + 1
                      /\ work[<<e, r>>] # "none" => r <= revision[e]
    OBVIOUS
  <2>1. <<e, r>> \in Items /\ <<e, r>>[1] = e /\ <<e, r>>[2] = r
    BY ItemPairs
  <2>2. work[<<e, r>>] # "none" => r <= revision[e]
    BY <1>0, <2>1 DEF Queued
  <2>3. <<e, r>> = new <=> e = f /\ r = revision[f] + 1
    OBVIOUS
  <2> QED
    BY <2>1, <2>2, <2>3
<1>9. Alerts \subseteq Events
  BY IntakeAssumption DEF IntakeAssumption
<1> HIDE DEF new
<1>10. Whole'
  <2> SUFFICES ASSUME NEW e \in Alerts, duplicateOf'[e] = NoEvent,
                      NEW r \in 1..revision'[e]
               PROVE  work'[<<e, r>>] # "none"
    BY DEF Whole
  <2>1. CASE e # f
    <3>1. r \in 1..revision[e] /\ r \in 1..MaxRevision /\ duplicateOf[e] = NoEvent
      BY <1>0, <1>3, <1>9, <2>1, StoredPairs
    <3>2. work[<<e, r>>] # "none"
      BY <3>1 DEF OrderInv, Whole
    <3> QED
      BY <1>5, <1>8, <1>9, <2>1, <3>1, <3>2
  <2>2. CASE e = f /\ r = revision[f] + 1
    BY <1>1, <1>5, <1>8, <2>2
  <2>3. CASE e = f /\ r # revision[f] + 1
    <3>0. r \in 1..revision[e] /\ revision[f] > 0
      BY <1>1, <1>3, <2>3, <1>0, StoredPairs
    <3>1. r \in 1..revision[e] /\ r \in 1..MaxRevision /\ duplicateOf[e] = NoEvent
      BY <1>0, <1>3, <1>9, <2>3, <3>0, StoredPairs
    <3>2. work[<<e, r>>] # "none"
      BY <3>1 DEF OrderInv, Whole
    <3> QED
      BY <1>5, <1>8, <2>3, <3>1, <3>2
  <2> QED
    BY <2>1, <2>2, <2>3
<1>11. NeverFailed'
  BY <1>5, <1>6, <1>8 DEF OrderInv, NeverFailed
<1>12. ClaimedInHand'
  BY <1>5, <1>6, <1>8 DEF OrderInv, ClaimedInHand
<1>13. PendingLater'
  <2> SUFFICES ASSUME NEW e \in Events \ troubled, NEW q \in 1..MaxRevision,
                      NEW r \in 1..MaxRevision, work'[<<e, q>>] = "pending",
                      <<e, r>> \in batch
               PROVE  r < q
    BY <1>6 DEF PendingLater
  <2>1. r <= revision[e]
    BY <1>0, <1>8 DEF ProcessTyped
  <2>2. CASE <<e, q>> = new
    BY <1>1, <1>8, <2>1, <2>2
  <2>3. CASE <<e, q>> # new
    BY <1>5, <1>8, <2>3 DEF OrderInv, PendingLater
  <2> QED
    BY <2>2, <2>3
<1>14. HandledFirst'
  BY <1>6 DEF OrderInv, HandledFirst, Turn
<1>15. DoneInOrder'
  <2> SUFFICES ASSUME NEW e \in Events \ troubled, NEW q \in 1..MaxRevision,
                      NEW r \in 1..MaxRevision, work'[<<e, r>>] = "processed", q <= r
               PROVE  work'[<<e, q>>] = "processed"
    BY <1>6 DEF DoneInOrder
  <2>1. <<e, r>> # new /\ work[<<e, r>>] = "processed"
    BY <1>5, <1>8
  <2>2. work[<<e, q>>] = "processed"
    BY <2>1 DEF OrderInv, DoneInOrder
  <2> QED
    BY <1>4, <1>5, <1>8, <2>2
<1> QED
  BY <1>10, <1>11, <1>12, <1>13, <1>14, <1>15 DEF OrderInv

\* An acknowledged revision was the first in hand, and nothing before it was
\* left behind.
LEMMA AckOrder ==
  ASSUME TypedQueue, OrderInv, Ack
  PROVE  OrderInv'
<1>0. LedgerTyped /\ ProcessTyped /\ Queued
  BY DEF TypedQueue, TypeOK
<1>1. /\ handled \in batch /\ handled \in Items /\ work[handled] = "claimed" /\ up
      /\ Turn(handled)
  BY <1>0 DEF Ack, ProcessTyped, OrderInv, HandledFirst
<1>2. /\ work' = [work EXCEPT ![handled] = "processed"]
      /\ batch' = batch \ {handled} /\ handled' = NoItem
      /\ UNCHANGED <<up, troubled, revision, duplicateOf>>
  BY DEF Ack, ledger, history
<1>3. /\ work'[handled] = "processed"
      /\ \A i \in Items : i # handled => work'[i] = work[i]
  BY <1>0, <1>1, <1>2 DEF LedgerTyped
<1>4. \A e \in Events, r \in 1..MaxRevision : <<e, r>> \in Items
  BY ItemPairs
<1>5. Whole'
  <2>1. \A e \in Alerts : e \in Events
    BY IntakeAssumption DEF IntakeAssumption
  <2>2. \A e \in Alerts : \A r \in 1..revision[e] : <<e, r>> \in Items
    BY <2>1, StoredPairs DEF TypedQueue
  <2> QED
    BY <1>2, <1>3, <2>2 DEF OrderInv, Whole
<1>6. NeverFailed' /\ ClaimedInHand' /\ PendingLater'
  BY <1>2, <1>3, <1>4 DEF OrderInv, NeverFailed, ClaimedInHand, PendingLater
<1>7. HandledFirst'
  BY <1>2 DEF HandledFirst
<1>8. DoneInOrder'
  <2> SUFFICES ASSUME NEW e \in Events \ troubled, NEW q \in 1..MaxRevision,
                      NEW r \in 1..MaxRevision, work'[<<e, r>>] = "processed", q <= r
               PROVE  work'[<<e, q>>] = "processed"
    BY <1>2 DEF DoneInOrder
  <2>1. CASE <<e, r>> # handled
    BY <1>3, <1>4, <2>1 DEF OrderInv, DoneInOrder
  <2>2. CASE <<e, r>> = handled /\ <<e, q>> = handled
    BY <1>3, <2>2
  <2>3. CASE <<e, r>> = handled /\ <<e, q>> # handled
    <3>1. q # r /\ q < r
      BY <2>3
    <3>2. work[<<e, q>>] # "pending"
      BY <1>1, <2>3, <3>1 DEF OrderInv, PendingLater
    <3>3. work[<<e, q>>] # "claimed"
      BY <1>1, <2>3, <3>1 DEF OrderInv, ClaimedInHand, Turn
    <3>4. work[<<e, q>>] \notin {"failed_retryable", "quarantined"}
      BY DEF OrderInv, NeverFailed
    <3>5. r <= revision[e] /\ e \in Alerts /\ duplicateOf[e] = NoEvent
      BY <1>0, <1>1, <1>4, <2>3 DEF Queued
    <3>6. revision[e] \in Nat
      BY StoredPairs DEF TypedQueue
    <3>7. q \in 1..revision[e]
      BY <3>1, <3>5, <3>6
    <3>8. work[<<e, q>>] # "none"
      BY <3>5, <3>7 DEF OrderInv, Whole
    <3> QED
      BY <1>0, <1>3, <1>4, <2>3, <3>2, <3>3, <3>4, <3>8 DEF LedgerTyped, WorkStates
  <2> QED
    BY <2>1, <2>2, <2>3
<1> QED
  BY <1>5, <1>6, <1>7, <1>8 DEF OrderInv

LEMMA OrderStep == TypedQueue /\ OrderInv /\ [Next]_vars => OrderInv'
<1> SUFFICES ASSUME TypedQueue, OrderInv, [Next]_vars PROVE OrderInv'
  OBVIOUS
<1>0. LedgerTyped /\ ProcessTyped /\ Queued
  BY DEF TypedQueue, TypeOK
<1>1. \A e \in Events, r \in 1..MaxRevision : <<e, r>> \in Items
  BY ItemPairs
<1>2. \A e \in Alerts : e \in Events /\ \A r \in 1..revision[e] : <<e, r>> \in Items
  BY StoredPairs, IntakeAssumption DEF TypedQueue, IntakeAssumption
<1>3. ASSUME UNCHANGED <<ledger, work, up, batch, handled, troubled>> PROVE OrderInv'
  BY <1>3 DEF OrderInv, Whole, NeverFailed, ClaimedInHand, PendingLater, HandledFirst,
              Turn, DoneInOrder, ledger
<1>4. ASSUME \/ Purge \/ UNCHANGED vars
             \/ \E e \in Events : LeaveWindow(e) \/ \E r \in 1..MaxRevision : Lapse(e, r)
      PROVE UNCHANGED <<ledger, work, up, batch, handled, troubled>>
  BY <1>4 DEF Purge, vars, LeaveWindow, Lapse, queue, consumer, history
<1>5. ASSUME NEW i \in Items, Handle(i) PROVE OrderInv'
  <2>1. UNCHANGED <<ledger, work, up, batch, troubled>> /\ handled' = i /\ Turn(i)
    BY <1>5 DEF Handle, queue, history
  <2> QED
    BY <2>1 DEF OrderInv, Whole, NeverFailed, ClaimedInHand, PendingLater, HandledFirst,
                Turn, DoneInOrder, ledger
<1>6. ASSUME Claim PROVE OrderInv'
  <2>1. PICK again \in SUBSET Reclaimable :
          /\ batch' = Waiting \cup again
          /\ work' = [i \in Items |-> IF i \in batch' THEN "claimed" ELSE work[i]]
    BY <1>6 DEF Claim
  <2>2. /\ up /\ batch = {} /\ handled = NoItem
        /\ UNCHANGED <<up, handled, troubled, revision, duplicateOf>>
    BY <1>0, <1>6 DEF Claim, ProcessTyped, ledger, history
  <2>3. \A i \in Items :
          /\ i \in batch' => work[i] \in {"pending", "failed_retryable", "claimed"}
          /\ i \in batch' => work'[i] = "claimed"
          /\ i \notin batch' => work'[i] = work[i] /\ work[i] # "pending"
    BY <2>1 DEF Waiting, Reclaimable
  <2>4. Whole' /\ NeverFailed' /\ ClaimedInHand'
    BY <1>1, <1>2, <2>2, <2>3 DEF OrderInv, Whole, NeverFailed, ClaimedInHand
  <2>5. PendingLater' /\ HandledFirst'
    BY <1>1, <2>2, <2>3 DEF PendingLater, HandledFirst
  <2>6. DoneInOrder'
    BY <1>1, <2>2, <2>3 DEF OrderInv, DoneInOrder
  <2> QED
    BY <2>4, <2>5, <2>6 DEF OrderInv
<1>7. ASSUME AckFails PROVE OrderInv'
  <2>1. /\ UNCHANGED <<revision, duplicateOf, work, up>>
        /\ batch' = {} /\ handled' = NoItem
        /\ \A e \in Events \ troubled' : /\ e \notin troubled
                                         /\ \A i \in batch : i[1] # e
    BY <1>7 DEF AckFails, ledger, queue
  <2>2. Whole' /\ NeverFailed' /\ PendingLater' /\ HandledFirst' /\ DoneInOrder'
    BY <2>1 DEF OrderInv, Whole, NeverFailed, PendingLater, HandledFirst, DoneInOrder
  <2>3. ClaimedInHand'
    BY <2>1 DEF OrderInv, ClaimedInHand
  <2> QED
    BY <2>2, <2>3 DEF OrderInv
<1>8. ASSUME NEW i \in Items, Fail(i) PROVE OrderInv'
  <2>1. /\ UNCHANGED <<revision, duplicateOf, up, handled>>
        /\ handled = NoItem
        /\ batch' = batch \ {i} /\ troubled' = troubled \cup {i[1]}
        /\ work'[i] # "none" /\ \A j \in Items : j # i => work'[j] = work[j]
    BY <1>0, <1>8 DEF Fail, ledger, LedgerTyped
  <2>2. \A e \in Events \ troubled', r \in 1..MaxRevision :
          e \notin troubled /\ <<e, r>> # i /\ work'[<<e, r>>] = work[<<e, r>>]
    <3> SUFFICES ASSUME NEW e \in Events \ troubled', NEW r \in 1..MaxRevision
                 PROVE  /\ e \notin troubled /\ <<e, r>> # i
                        /\ work'[<<e, r>>] = work[<<e, r>>]
      OBVIOUS
    <3>1. <<e, r>>[1] = e /\ i[1] # e /\ e \notin troubled
      BY <2>1
    <3> QED
      BY <1>1, <2>1, <3>1
  <2>3. Whole'
    BY <1>2, <2>1 DEF OrderInv, Whole
  <2>4. NeverFailed' /\ ClaimedInHand' /\ PendingLater' /\ HandledFirst' /\ DoneInOrder'
    BY <2>1, <2>2
       DEF OrderInv, NeverFailed, ClaimedInHand, PendingLater, HandledFirst, DoneInOrder
  <2> QED
    BY <2>3, <2>4 DEF OrderInv
<1>9. ASSUME Stop PROVE OrderInv'
  <2>1. /\ UNCHANGED <<revision, duplicateOf, work, troubled>> /\ ~up'
        /\ batch' = {} /\ handled' = NoItem
    BY <1>9 DEF Stop, ledger, queue, history
  <2> QED
    BY <2>1 DEF OrderInv, Whole, NeverFailed, ClaimedInHand, PendingLater, HandledFirst,
                DoneInOrder
<1>10. ASSUME Start PROVE OrderInv'
  <2>1. /\ UNCHANGED <<revision, duplicateOf, troubled>>
        /\ batch' = {} /\ handled' = NoItem
        /\ \A i \in Items :
             work'[i] = IF work[i] = "claimed" THEN "pending" ELSE work[i]
    BY <1>0, <1>10 DEF Start, ledger, history, consumer, ProcessTyped
  <2>2. Whole'
    BY <1>2, <2>1 DEF OrderInv, Whole
  <2>3. NeverFailed' /\ ClaimedInHand' /\ PendingLater' /\ HandledFirst' /\ DoneInOrder'
    BY <1>1, <2>1
       DEF OrderInv, NeverFailed, ClaimedInHand, PendingLater, HandledFirst, DoneInOrder
  <2> QED
    BY <2>2, <2>3 DEF OrderInv
<1> QED
  BY CommitOrder, AckOrder, <1>3, <1>4, <1>5, <1>6, <1>7, <1>8, <1>9, <1>10
     DEF Next, Source, Time, Work

LEMMA AppliedKnownStep == TypedQueue /\ AppliedKnown /\ [Next]_vars => AppliedKnown'
<1> SUFFICES ASSUME TypedQueue, AppliedKnown, [Next]_vars PROVE AppliedKnown'
  OBVIOUS
<1>0. /\ LedgerTyped /\ ProcessTyped /\ Queued
      /\ \A e \in Events : revision[e] \in Nat /\ applied[e] \in Nat
  BY IntakeAssumption
     DEF TypedQueue, TypeOK, LedgerTyped, ProcessTyped, IntakeAssumption
<1>1. ASSUME NEW e \in Events, NEW s \in BOOLEAN, Commit(e, s) PROVE AppliedKnown'
  <2>1. UNCHANGED applied /\ \A f \in Events : revision[f] <= revision'[f] /\ revision'[f] \in Nat
    BY <1>0, <1>1 DEF Commit, LedgerTyped, pipeline
  <2> QED
    BY <1>0, <2>1 DEF AppliedKnown
<1>2. ASSUME NEW i \in Items, Handle(i) PROVE AppliedKnown'
  <2>1. UNCHANGED revision /\ i[1] \in Events /\ i[2] \in 1..MaxRevision
    BY <1>2, ItemPairs DEF Handle, ledger
  <2>2. i[2] <= revision[i[1]]
    BY <1>0, <1>2 DEF Handle, Turn, ProcessTyped, Queued
  <2>3. \A f \in Events : applied'[f] = applied[f] \/ (f = i[1] /\ applied'[f] <= i[2])
    BY <1>0, <1>2, <2>1 DEF Handle, Process, Revise, ProcessTyped
  <2>4. i[2] \in Nat /\ \A f \in Events : applied'[f] \in Nat
    <3>1. i[2] \in Nat
      BY <2>1
    <3>2. CASE Process(i[1])
      BY <1>0, <3>1, <3>2 DEF Process, ProcessTyped
    <3>3. CASE Revise(i[1], i[2])
      BY <1>0, <3>1, <3>3 DEF Revise, ProcessTyped
    <3> QED
      BY <1>2, <3>1, <3>2, <3>3 DEF Handle
  <2> QED
    BY <1>0, <2>1, <2>2, <2>3, <2>4 DEF AppliedKnown
<1>3. ASSUME Stop \/ Start PROVE AppliedKnown'
  <2>1. revision' = revision
    BY <1>3 DEF Stop, Start, ledger
  <2>2. \A e \in Events : applied'[e] \in {0, revision[e]}
    BY <1>3 DEF Stop, Start
  <2> QED
    BY <1>0, <2>1, <2>2 DEF AppliedKnown
<1>4. ASSUME \/ Purge \/ Claim \/ Ack \/ AckFails \/ UNCHANGED vars
             \/ \E i \in Items : Fail(i)
             \/ \E e \in Events : LeaveWindow(e) \/ \E r \in 1..MaxRevision : Lapse(e, r)
      PROVE UNCHANGED <<revision, applied>>
  BY <1>4 DEF Purge, Claim, Ack, AckFails, vars, Fail, LeaveWindow, Lapse, ledger,
              pipeline
<1>5. ASSUME UNCHANGED <<revision, applied>> PROVE AppliedKnown'
  BY <1>5 DEF AppliedKnown
<1> QED
  BY <1>1, <1>2, <1>3, <1>4, <1>5 DEF Next, Source, Time, Work

\* Steps that give the correlator nothing: what is taken stays taken.
LEMMA LastTakenKept ==
  ASSUME TypedQueue, LastTaken, UNCHANGED <<applied, flagged>>, up' => up,
         \A e \in Events \ troubled' :
           /\ e \notin troubled
           /\ \A r \in 1..revision'[e] :
                Done(<<e, r>>)' => r \in 1..revision[e] /\ Done(<<e, r>>)
           /\ \A r \in 1..revision[e] :
                Done(<<e, r>>) => r \in 1..revision'[e] /\ Done(<<e, r>>)'
  PROVE  LastTaken'
<1> SUFFICES ASSUME up', NEW e \in Events \ troubled', applied'[e] # 0,
                    NEW r \in 1..revision'[e], Done(<<e, r>>)'
             PROVE  \/ applied'[e] >= r \/ <<e, r>> \in flagged'
                    \/ \E q \in 1..revision'[e] : r < q /\ Done(<<e, q>>)'
  BY DEF LastTaken
<1>1. /\ r \in 1..revision[e] /\ Done(<<e, r>>)
      /\ e \in Events \ troubled /\ applied[e] # 0 /\ up
  OBVIOUS
<1>2. \/ applied[e] >= r \/ <<e, r>> \in flagged
      \/ \E q \in 1..revision[e] : r < q /\ Done(<<e, q>>)
  BY <1>1 DEF LastTaken
<1> HIDE DEF Done
<1> QED
  BY <1>2

\* The item handed over is the last one taken of its event, and the correlator
\* now holds it, unless it never had the alert or a person is asked.
LEMMA HandleLast ==
  ASSUME TypedQueue, OrderInv, LastTaken, NEW i \in Items, Handle(i)
  PROVE  LastTaken'
<1>0. LedgerTyped /\ ProcessTyped /\ Queued
  BY DEF TypedQueue, TypeOK
<1> DEFINE f == i[1]
           n == i[2]
<1>1. i = <<f, n>> /\ f \in Events /\ n \in 1..MaxRevision /\ n \in Nat
  BY ItemPairs, IntakeAssumption DEF IntakeAssumption
<1>2. /\ handled = NoItem /\ handled' = i /\ work[i] = "claimed" /\ up
      /\ UNCHANGED <<revision, work, troubled>>
  BY <1>0 DEF Handle, Turn, ProcessTyped, ledger, queue, history
<1>3. n <= revision[f] /\ revision[f] \in Nat
  BY <1>0, <1>2, <1>1, StoredPairs DEF Queued, TypedQueue
<1>4. n \in 1..revision[f]
  BY <1>1, <1>3
<1>5. \A e \in Events : e # f => applied'[e] = applied[e]
  BY <1>0, <1>1 DEF Handle, Process, Revise, ProcessTyped
<1>6. flagged \subseteq flagged' /\ \A e \in Events : applied'[e] \in Nat
  BY <1>0, <1>1, IntakeAssumption
     DEF Handle, Process, Revise, ProcessTyped, IntakeAssumption
<1>7. applied'[f] # 0 => applied'[f] >= n \/ i \in flagged'
  <2>1. CASE n = 1
    BY <1>1, <1>6, <2>1
  <2>2. CASE n # 1
    <3>1. Revise(f, n)
      BY <2>2 DEF Handle
    <3> QED
      BY <1>0, <1>1, <3>1 DEF Revise, ProcessTyped
  <2> QED
    BY <2>1, <2>2
<1>8. handled # i /\ NoItem \notin Items
  BY <1>2, IntakeAssumption DEF IntakeAssumption
<1> HIDE DEF f, n
<1> SUFFICES ASSUME NEW e \in Events \ troubled, applied'[e] # 0,
                    NEW r \in 1..revision[e], Done(<<e, r>>)'
             PROVE  \/ applied'[e] >= r \/ <<e, r>> \in flagged'
                    \/ \E q \in 1..revision[e] : r < q /\ Done(<<e, q>>)'
  BY <1>2 DEF LastTaken
<1>9. <<e, r>> \in Items /\ r \in 1..MaxRevision
  BY StoredPairs DEF TypedQueue
<1>10. CASE e # f
  <2>1. Done(<<e, r>>) /\ applied[e] # 0
    BY <1>1, <1>2, <1>5, <1>10 DEF Done
  <2>2. \/ applied[e] >= r \/ <<e, r>> \in flagged
        \/ \E q \in 1..revision[e] : r < q /\ Done(<<e, q>>)
    BY <1>2, <2>1 DEF LastTaken
  <2>3. \A q \in 1..revision[e] : Done(<<e, q>>) => Done(<<e, q>>)'
    <3>1. \A q \in 1..revision[e] : <<e, q>> \in Items
      BY StoredPairs DEF TypedQueue
    <3> QED
      BY <1>2, <1>8, <3>1 DEF Done
  <2> QED
    BY <1>5, <1>6, <1>10, <2>2, <2>3
<1>11. CASE e = f /\ r = n
  BY <1>1, <1>7, <1>11
<1>12. CASE e = f /\ r # n
  <2>1. work[<<e, r>>] = "processed"
    BY <1>1, <1>2, <1>12 DEF Done
  <2>2. ~(n <= r)
    BY <1>1, <1>2, <1>9, <1>12, <2>1 DEF OrderInv, DoneInOrder
  <2>3. r < n
    BY <1>1, <1>9, <2>2, IntakeAssumption DEF IntakeAssumption
  <2>4. Done(<<e, n>>)'
    BY <1>1, <1>2, <1>12 DEF Done
  <2> QED
    BY <1>4, <1>12, <2>3, <2>4
<1> QED
  BY <1>10, <1>11, <1>12

LEMMA LastTakenStep ==
  TypedQueue /\ OrderInv /\ LastTaken /\ [Next]_vars => LastTaken'
<1> SUFFICES ASSUME TypedQueue, OrderInv, LastTaken, [Next]_vars PROVE LastTaken'
  OBVIOUS
<1>0. LedgerTyped /\ ProcessTyped /\ Queued
  BY DEF TypedQueue, TypeOK
<1>1. \A e \in Events : revision[e] \in Nat /\ \A r \in 1..revision[e] : <<e, r>> \in Items
  BY StoredPairs DEF TypedQueue
<1>2. ASSUME NEW f \in Events, NEW s \in BOOLEAN, Commit(f, s) PROVE LastTaken'
  <2> DEFINE new == <<f, revision[f] + 1>>
  <2>1. UNCHANGED <<applied, flagged, up, handled, troubled>>
    BY <1>2 DEF Commit, consumer, pipeline, history
  <2>2. /\ revision'[f] = revision[f] + 1
        /\ \A e \in Events : e # f => revision'[e] = revision[e]
    BY <1>0, <1>2 DEF Commit, LedgerTyped
  <2>3. new \in Items /\ work[new] = "none"
    <3>1. revision[f] + 1 \in 1..MaxRevision
      BY <1>1, <1>2 DEF Commit
    <3> QED
      BY <1>0, <1>1, <3>1, ItemPairs DEF Queued, LedgerTyped, WorkStates
  <2>4. /\ work'[new] # "processed"
        /\ \A j \in Items : j # new => work'[j] = work[j]
    BY <1>0, <1>2, <2>3 DEF Commit, LedgerTyped
  <2>5. handled # new
    BY <1>0, <2>3, IntakeAssumption DEF ProcessTyped, IntakeAssumption
  <2>6. \A e \in Events, r \in Nat : <<e, r>> = new <=> e = f /\ r = revision[f] + 1
    OBVIOUS
  <2> HIDE DEF new
  <2>7. \A e \in Events : \A r \in 1..revision'[e] :
          <<e, r>> # new => r \in 1..revision[e]
    BY <1>1, <2>2, <2>6
  <2>8. \A e \in Events : \A r \in 1..revision[e] : r \in 1..revision'[e] /\ <<e, r>> # new
    BY <1>1, <2>2, <2>6
  <2>9. \A j \in Items : j = new => ~Done(j)'
    BY <2>1, <2>4, <2>5 DEF Done
  <2>10. \A j \in Items : j # new => (Done(j)' <=> Done(j))
    BY <2>1, <2>4 DEF Done
  <2>11. ASSUME NEW e \in Events, NEW r \in 1..revision'[e], Done(<<e, r>>)'
         PROVE  r \in 1..revision[e] /\ Done(<<e, r>>)
    <3>1. r \in Nat /\ (<<e, r>> = new => <<e, r>> \in Items)
      BY <2>3
    <3>2. <<e, r>> # new
      BY <2>9, <2>11, <3>1
    <3>3. r \in 1..revision[e]
      BY <2>7, <3>2
    <3> QED
      BY <1>1, <2>10, <2>11, <3>2, <3>3
  <2>12. ASSUME NEW e \in Events, NEW r \in 1..revision[e], Done(<<e, r>>)
         PROVE  r \in 1..revision'[e] /\ Done(<<e, r>>)'
    BY <1>1, <2>8, <2>10, <2>12
  <2> QED
    BY LastTakenKept, <2>1, <2>11, <2>12
<1>3. ASSUME NEW i \in Items, Handle(i) PROVE LastTaken'
  BY HandleLast, <1>3
<1>4. ASSUME \/ Purge \/ UNCHANGED vars
             \/ \E e \in Events : LeaveWindow(e) \/ \E r \in 1..MaxRevision : Lapse(e, r)
      PROVE LastTaken'
  <2>1. UNCHANGED <<applied, flagged, up, handled, troubled, revision, work>>
    BY <1>4 DEF Purge, vars, LeaveWindow, Lapse, ledger, queue, consumer, pipeline, history
  <2> QED
    BY <2>1 DEF LastTaken, Done
<1>5. ASSUME Claim PROVE LastTaken'
  <2>1. /\ UNCHANGED <<applied, flagged, up, handled, troubled, revision>>
        /\ \A j \in Items : work'[j] = "processed" <=> work[j] = "processed"
    BY <1>0, <1>5
       DEF Claim, Waiting, Reclaimable, ledger, pipeline, history, LedgerTyped
  <2>2. \A j \in Items : Done(j)' <=> Done(j)
    BY <2>1 DEF Done
  <2> QED
    BY LastTakenKept, <1>1, <2>1, <2>2
<1>6. ASSUME Ack PROVE LastTaken'
  <2>1. /\ UNCHANGED <<applied, flagged, up, troubled, revision>> /\ handled' = NoItem
        /\ NoItem \notin Items
        /\ \A j \in Items :
             work'[j] = "processed" <=> work[j] = "processed" \/ j = handled
    BY <1>0, <1>6, IntakeAssumption
       DEF Ack, ledger, pipeline, history, LedgerTyped, IntakeAssumption
  <2>2. \A j \in Items : Done(j)' <=> Done(j)
    BY <2>1 DEF Done
  <2> QED
    BY LastTakenKept, <1>1, <2>1, <2>2
<1>7. ASSUME AckFails PROVE LastTaken'
  <2>1. /\ UNCHANGED <<applied, flagged, up, revision, work>> /\ handled' = NoItem
        /\ NoItem \notin Items /\ handled \in batch
        /\ troubled' = troubled \cup {j[1] : j \in batch}
    BY <1>0, <1>7, IntakeAssumption
       DEF AckFails, ledger, queue, pipeline, ProcessTyped, IntakeAssumption
  <2>2. \A e \in Events \ troubled' : \A r \in 1..revision[e] :
          <<e, r>> # handled /\ <<e, r>> # NoItem
    BY <1>1, <2>1
  <2>3. \A e \in Events \ troubled' : \A r \in 1..revision[e] :
          Done(<<e, r>>)' <=> Done(<<e, r>>)
    BY <2>1, <2>2 DEF Done
  <2> QED
    BY LastTakenKept, <2>1, <2>3
<1>8. ASSUME NEW i \in Items, Fail(i) PROVE LastTaken'
  <2>1. /\ UNCHANGED <<applied, flagged, up, revision, handled>>
        /\ troubled' = troubled \cup {i[1]}
        /\ \A j \in Items : j # i => work'[j] = work[j]
    BY <1>0, <1>8 DEF Fail, ledger, pipeline, LedgerTyped
  <2>2. \A e \in Events \ troubled' : \A r \in 1..revision[e] : <<e, r>> # i
    BY <2>1
  <2>3. \A e \in Events \ troubled' : \A r \in 1..revision[e] :
          Done(<<e, r>>)' <=> Done(<<e, r>>)
    BY <1>1, <2>1, <2>2 DEF Done
  <2> QED
    BY LastTakenKept, <2>1, <2>3
<1>9. ASSUME Stop PROVE LastTaken'
  BY <1>9 DEF Stop, LastTaken
<1>10. ASSUME Start PROVE LastTaken'
  <2>1. \A e \in Events : applied'[e] # 0 => applied'[e] = revision'[e]
    BY <1>0, <1>10 DEF Start, ledger
  <2>2. \A e \in Events : revision'[e] \in Nat
    BY <1>1, <1>10 DEF Start, ledger
  <2>3. \A e \in Events : applied'[e] # 0 => \A r \in 1..revision'[e] : applied'[e] >= r
    BY <2>1, <2>2
  <2> QED
    BY <2>3 DEF LastTaken
<1> QED
  BY <1>2, <1>3, <1>4, <1>5, <1>6, <1>7, <1>8, <1>9, <1>10 DEF Next, Source, Time, Work

LEMMA LastImplies ==
  TypedQueue /\ AppliedKnown /\ LastTaken => DrainedIsLatest
<1> SUFFICES ASSUME TypedQueue, AppliedKnown, LastTaken, NEW e \in Events \ troubled,
                    up, applied[e] # 0, <<e, revision[e]>> \notin flagged,
                    \A r \in 1..revision[e] : work[<<e, r>>] = "processed"
             PROVE  applied[e] = revision[e]
  BY DEF DrainedIsLatest
<1>1. applied[e] \in Nat /\ revision[e] \in Nat /\ applied[e] <= revision[e]
  BY StoredPairs, IntakeAssumption
     DEF TypedQueue, TypeOK, ProcessTyped, AppliedKnown, IntakeAssumption
<1>2. revision[e] \in 1..revision[e]
  BY <1>1
<1>3. Done(<<e, revision[e]>>)
  BY <1>2 DEF Done
<1>4. \/ applied[e] >= revision[e]
      \/ \E q \in 1..revision[e] : revision[e] < q /\ Done(<<e, q>>)
  BY <1>2, <1>3 DEF LastTaken
<1>5. \A q \in 1..revision[e] : ~(revision[e] < q)
  BY <1>1
<1>6. applied[e] >= revision[e]
  BY <1>4, <1>5
<1> QED
  BY <1>1, <1>6

\* Without failures the content the correlator ends with is the newest, or a
\* person has been asked, over every interleaving of commits and stops.
THEOREM LatestWins == Spec => []DrainedIsLatest
<1>1. Init => OrderInv /\ AppliedKnown /\ LastTaken
  <2> SUFFICES ASSUME Init PROVE OrderInv /\ AppliedKnown /\ LastTaken
    OBVIOUS
  <2>1. /\ ~up /\ batch = {} /\ handled = NoItem
        /\ \A e \in Events : revision[e] = 0 /\ applied[e] = 0
        /\ \A e \in Events, r \in 1..MaxRevision : work[<<e, r>>] = "none"
    BY ItemPairs DEF Init
  <2>2. \A e \in Alerts : 1..revision[e] = {}
    BY <2>1, IntakeAssumption DEF IntakeAssumption
  <2>3. OrderInv
    BY <2>1, <2>2 DEF OrderInv, Whole, NeverFailed, ClaimedInHand, PendingLater,
                      HandledFirst, DoneInOrder
  <2> QED
    BY <2>1, <2>3 DEF AppliedKnown, LastTaken
<1> QED
  BY <1>1, TypeInit, TypeStep, OrderStep, AppliedKnownStep, LastTakenStep, LastImplies, PTL
     DEF Spec

=============================================================================
