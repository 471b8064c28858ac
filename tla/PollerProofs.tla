---------------------------- MODULE PollerProofs ----------------------------
(***************************************************************************)
(* Proofs about Poller, for any alerts, page size and bounds: polling      *)
(* skips nothing, and a restarted poller rebuilds the chains a new alert   *)
(* belongs to.                                                             *)
(***************************************************************************)
EXTENDS Poller, FiniteSetTheorems, WellFoundedInduction, TLAPS

----------------------------------------------------------------------------
\* Lemmas: sets of alerts.

\* A finite set of alerts that is not empty has a newest.
LEMMA SomeNewest ==
  ASSUME NEW S \in SUBSET Hits, S # {}
  PROVE  \E r \in S : \A q \in S : FiledAt[q] <= FiledAt[r]
<1> DEFINE Topless == {A \in SUBSET S : A # {} /\ ~ \E r \in A : \A q \in A : FiledAt[q] <= FiledAt[r]}
<1>1. SUFFICES ASSUME Topless # {} PROVE FALSE
  OBVIOUS
<1>2. IsWellFoundedOn(StrictSubsetOrdering(S), FiniteSubsetsOf(S))
  BY FS_StrictSubsetOrderingWellFounded
<1>3. Topless \subseteq FiniteSubsetsOf(S)
  <2>1. IsFiniteSet(S)
    BY FS_Subset, PollerAssumption
  <2> QED
    BY <2>1, FS_FiniteSubsetsOfFinite
<1>4. PICK A \in Topless : \A B \in Topless : <<B, A>> \notin StrictSubsetOrdering(S)
  <2> HIDE DEF Topless
  <2> QED
    BY <1>1, <1>2, <1>3, WFMin
<1>5. PICK x \in A : TRUE
  OBVIOUS
<1>6. A \ {x} \notin Topless
  BY <1>4, <1>5 DEF StrictSubsetOrdering
<1>7. CASE A \ {x} = {}
  <2>1. A = {x} /\ FiledAt[x] \in Nat
    BY <1>5, <1>7, PollerAssumption
  <2> QED
    BY <2>1
<1>8. CASE A \ {x} # {}
  <2>1. PICK y \in A \ {x} : \A q \in A \ {x} : FiledAt[q] <= FiledAt[y]
    BY <1>6, <1>8
  <2>2. \A q \in A : FiledAt[q] \in Nat
    BY PollerAssumption
  <2>3. CASE FiledAt[x] <= FiledAt[y]
    BY <2>1, <2>2, <2>3
  <2>4. CASE ~(FiledAt[x] <= FiledAt[y])
    <3>1. \A q \in A : FiledAt[q] <= FiledAt[x]
      BY <2>1, <2>2, <2>4, <1>5
    <3> QED
      BY <3>1, <1>5
  <2> QED
    BY <2>3, <2>4
<1> QED
  BY <1>7, <1>8

LEMMA NewestIs ==
  ASSUME NEW S \in SUBSET Hits, S # {}
  PROVE  /\ NewestTime(S) \in Nat
         /\ \E r \in S : FiledAt[r] = NewestTime(S)
         /\ \A q \in S : FiledAt[q] <= NewestTime(S)
<1>1. PICK r \in S : \A q \in S : FiledAt[q] <= FiledAt[r]
  BY SomeNewest
<1>2. FiledAt[r] \in {FiledAt[h] : h \in S} /\ \A q \in S : FiledAt[q] <= FiledAt[r]
  BY <1>1
<1>3. NewestTime(S) \in {FiledAt[h] : h \in S} /\ \A q \in S : FiledAt[q] <= NewestTime(S)
  BY <1>2 DEF NewestTime
<1> QED
  BY <1>3, PollerAssumption

\* A page that is not full is all there is; one that is full is not empty.
LEMMA PageIs ==
  ASSUME Remaining \subseteq Hits, NEW p, IsPage(p)
  PROVE  /\ p \subseteq Remaining
         /\ p = {} => Remaining = {}
         /\ Cardinality(p) < PageSize => p = Remaining
         /\ \A g \in p, h \in Remaining \ p : FiledAt[g] <= FiledAt[h]
<1>1. IsFiniteSet(Remaining)
  BY FS_Subset, PollerAssumption
<1>2. p \subseteq Remaining /\ \A g \in p, h \in Remaining \ p : FiledAt[g] <= FiledAt[h]
  BY DEF IsPage
<1>3. /\ Cardinality(p) \in Nat /\ Cardinality(Remaining) \in Nat
      /\ Cardinality(p) = Cardinality(Remaining) => p = Remaining
      /\ p = {} => Cardinality(p) = 0
  BY <1>1, <1>2, FS_Subset, FS_CardinalityType, FS_EmptySet
<1>4. Cardinality(p) < PageSize => Cardinality(p) = Cardinality(Remaining)
  BY <1>3, PollerAssumption DEF IsPage
<1> QED
  BY <1>2, <1>3, <1>4, PollerAssumption

----------------------------------------------------------------------------
\* The invariant.

Typed ==
  /\ now \in Nat /\ filed \subseteq Hits /\ belated \subseteq filed
  /\ running \in BOOLEAN /\ cycle \in {"wait", "page"}
  /\ position \in Nat /\ until \in Nat /\ seek \in Nat /\ fetched \in BOOLEAN
  /\ boundary \subseteq Hits /\ saved \in Nat /\ resumed \in Nat
  /\ held \subseteq everRead /\ waiting \subseteq held /\ everRead \subseteq filed
  /\ promised \in Nat /\ torn \subseteq Hits

\* Where a cycle is: behind the clock, its pages at most one past its seek.
Clocks ==
  /\ position <= now /\ until <= now /\ saved <= now /\ \A h \in filed : FiledAt[h] <= now
  /\ ~running => cycle = "wait" /\ held = {}
  /\ running /\ cycle = "page" =>
       position \in {seek, seek + 1} /\ position <= until /\ boundary \subseteq everRead

\* Everything in time before t is read.
Due(t) == \A h \in InTime : promised <= FiledAt[h] /\ FiledAt[h] < t => h \in everRead
Front == IF cycle = "wait" THEN position ELSE seek

Read ==
  /\ running => Due(Front)
  /\ saved # 0 => Due(Resume)

Inv == Typed /\ Clocks /\ Read

LEMMA Times == \A h \in Hits : FiledAt[h] \in Nat
BY PollerAssumption

LEMMA ResumeType == saved \in Nat => Resume \in Nat /\ Resume <= saved
BY PollerAssumption DEF Resume, Lookback

LEMMA InitInv == PollerInit => Inv
<1> SUFFICES ASSUME PollerInit PROVE Inv
  OBVIOUS
<1>1. Typed
  BY DEF PollerInit, Typed
<1>3. Clocks
  BY DEF PollerInit, Clocks
<1>2. Read
  BY DEF PollerInit, Read
<1> QED
  BY <1>1, <1>2, <1>3 DEF Inv

LEMMA FrontType == ASSUME Typed, Clocks PROVE Front \in Nat /\ Front <= now
<1>1. cycle = "page" => running
  BY DEF Typed, Clocks
<1> QED
  BY <1>1 DEF Typed, Clocks, Front

\* What is read stays read: a step that adds only alerts of the present to those
\* in time, and moves neither the front nor what is saved.
LEMMA ReadStays ==
  ASSUME Inv, \A g \in InTime' : g \in InTime \/ FiledAt[g] = now,
         running' => running /\ Front' <= Front /\ Front' \in Nat,
         promised' = promised, saved' = saved, everRead \subseteq everRead',
         InTime' \subseteq Hits
  PROVE  Read'
<1>1. Front \in Nat /\ Front <= now /\ Resume \in Nat /\ Resume <= now /\ now \in Nat
  BY FrontType, ResumeType DEF Inv, Typed, Clocks
<1>2. promised \in Nat /\ \A g \in InTime' : FiledAt[g] \in Nat
  BY Times DEF Inv, Typed
<1>3. running' => Due(Front)'
  <2>1. SUFFICES ASSUME running', NEW g \in InTime', promised <= FiledAt[g], FiledAt[g] < Front'
                 PROVE  g \in everRead
    BY DEF Due
  <2>2. running /\ FiledAt[g] < Front
    BY <1>1, <1>2, <2>1
  <2>3. g \in InTime
    BY <1>1, <1>2, <2>1, <2>2
  <2> QED
    BY <2>1, <2>2, <2>3 DEF Inv, Read, Due
<1>4. saved' # 0 => Due(Resume)'
  <2>1. Resume' = Resume
    BY DEF Resume
  <2>2. SUFFICES ASSUME saved # 0, NEW g \in InTime', promised <= FiledAt[g], FiledAt[g] < Resume
                 PROVE  g \in everRead
    BY <2>1 DEF Due
  <2>3. g \in InTime
    BY <1>1, <1>2, <2>2
  <2> QED
    BY <2>2, <2>3 DEF Inv, Read, Due
<1> QED
  BY <1>3, <1>4 DEF Read

LEMMA FileInv == ASSUME Inv, NEW h \in Hits, File(h) PROVE Inv'
<1>1. Typed'
  BY DEF Inv, Typed, File, paging, memory
<1>2. Clocks'
  BY DEF Inv, Typed, Clocks, File, paging, memory
<1>3. \A g \in InTime' : g \in InTime \/ FiledAt[g] = now
  BY Times DEF Inv, Typed, Clocks, File, InTime
<1>4. Front \in Nat /\ Front' = Front
  BY FrontType DEF Inv, Front, File, paging
<1>5. InTime' \subseteq Hits
  BY DEF Inv, Typed, File, InTime
<1> QED
  BY <1>1, <1>2, <1>3, <1>4, <1>5, ReadStays DEF Inv, File

LEMMA TickInv == ASSUME Inv, Tick PROVE Inv'
<1>1. Typed'
  BY DEF Inv, Typed, Tick, paging, memory
<1>2. Clocks'
  <2>1. now' \in Nat /\ now <= now' /\ now \in Nat /\ \A h \in filed : FiledAt[h] \in Nat
    BY Times DEF Inv, Typed, Tick
  <2>2. position \in Nat /\ until \in Nat /\ saved \in Nat
    BY DEF Inv, Typed
  <2>3. /\ position' <= now' /\ until' <= now' /\ saved' <= now'
        /\ \A h \in filed' : FiledAt[h] <= now'
    BY <2>1, <2>2 DEF Inv, Clocks, Tick, paging
  <2> QED
    BY <2>3 DEF Inv, Clocks, Tick, paging, memory
<1>3. InTime' = InTime /\ InTime \subseteq Hits
  BY DEF Inv, Typed, Tick, InTime
<1>4. Front \in Nat /\ Front' = Front
  BY FrontType DEF Inv, Front, Tick, paging
<1> QED
  BY <1>1, <1>2, <1>3, <1>4, ReadStays DEF Inv, Tick

LEMMA BeginCycleInv == ASSUME Inv, BeginCycle PROVE Inv'
<1>1. Typed'
  BY DEF Inv, Typed, BeginCycle, elastic, memory
<1>2. Clocks'
  BY DEF Inv, Typed, Clocks, BeginCycle, elastic, memory
<1>3. InTime' = InTime /\ InTime \subseteq Hits
  BY DEF Inv, Typed, BeginCycle, elastic, InTime
<1>4. Front \in Nat /\ Front' = Front
  BY FrontType DEF Inv, Front, BeginCycle
<1> QED
  BY <1>1, <1>2, <1>3, <1>4, ReadStays DEF Inv, BeginCycle

LEMMA PruneInv == ASSUME Inv, Prune PROVE Inv'
<1>1. Typed'
  <2>1. held' \subseteq held /\ waiting' \subseteq waiting
    BY DEF Prune
  <2>2. waiting' \subseteq held'
    BY DEF Inv, Typed, Prune, Doomed
  <2> QED
    BY <2>1, <2>2 DEF Inv, Typed, Prune, elastic, paging
<1>2. Clocks'
  <2>1. held' = held \ Doomed(held \ waiting', NewestTime(held)) /\ held # {}
    BY DEF Prune
  <2>2. running
    BY DEF Prune
  <2> QED
    BY <2>2 DEF Inv, Clocks, Prune, elastic, paging
<1>3. InTime' = InTime /\ InTime \subseteq Hits
  BY DEF Inv, Typed, Prune, elastic, InTime
<1>4. Front \in Nat /\ Front' = Front
  BY FrontType DEF Inv, Front, Prune, paging
<1> QED
  BY <1>1, <1>2, <1>3, <1>4, ReadStays DEF Inv, Prune

LEMMA StopInv == ASSUME Inv, StopPolling PROVE Inv'
<1>1. Typed'
  BY DEF Inv, Typed, StopPolling, elastic
<1>2. Clocks'
  BY DEF Inv, Typed, Clocks, StopPolling, elastic
<1>3. InTime' = InTime /\ InTime \subseteq Hits
  BY DEF Inv, Typed, StopPolling, elastic, InTime
<1> QED
  BY <1>1, <1>2, <1>3, ReadStays DEF Inv, StopPolling

LEMMA StartInv == ASSUME Inv, StartPolling PROVE Inv'
<1>0. Resume \in Nat /\ Resume <= saved /\ Resume' = Resume
  BY ResumeType DEF Inv, Typed, StartPolling, Resume
<1>1. Typed'
  BY <1>0 DEF Inv, Typed, StartPolling, elastic, memory
<1>2. Clocks'
  BY <1>0 DEF Inv, Typed, Clocks, StartPolling, elastic, memory
<1>3. CASE saved = 0
  <2>1. promised' = now /\ position' = now /\ cycle' = "wait" /\ saved' = 0
    BY <1>3 DEF Inv, Clocks, StartPolling
  <2>2. now \in Nat /\ \A g \in InTime' : FiledAt[g] \in Nat
    BY Times DEF Inv, Typed, InTime, StartPolling, elastic
  <2>3. Due(Front)'
    BY <2>1, <2>2 DEF Due, Front
  <2> QED
    BY <1>1, <1>2, <2>1, <2>3 DEF Inv, Read
<1>4. CASE saved # 0
  <2>1. \A g \in InTime' : g \in InTime \/ FiledAt[g] >= Resume
    BY <1>4 DEF InTime, StartPolling, elastic
  <2>2. InTime' \subseteq Hits /\ \A g \in InTime' : FiledAt[g] \in Nat
    BY Times DEF Inv, Typed, InTime, StartPolling, elastic
  <2>3. Due(Resume)'
    BY <1>0, <1>4, <2>1, <2>2 DEF Inv, Read, Due, StartPolling
  <2>4. Front' = Resume'
    BY <1>0, <1>4 DEF Inv, Clocks, Front, StartPolling
  <2> QED
    BY <1>1, <1>2, <2>3, <2>4 DEF Inv, Read
<1> QED
  BY <1>1, <1>2, <1>3, <1>4 DEF Inv

LEMMA PageFailsInv == ASSUME Inv, PageFails PROVE Inv'
<1>0. saved' \in {position, saved} /\ cycle' = "wait" /\ position' = position
  BY DEF PageFails, SaveCursor
<1>1. Typed'
  BY <1>0 DEF Inv, Typed, PageFails, elastic, memory
<1>2. Clocks'
  BY <1>0 DEF Inv, Typed, Clocks, PageFails, elastic, memory
<1>3. InTime' \subseteq InTime /\ \A g \in InTime' : FiledAt[g] < position => g \in everRead
  BY DEF Inv, Typed, InTime, PageFails, elastic
<1>4. Due(Front)'
  BY <1>0, <1>3 DEF Due, Front, PageFails
<1>5. saved' # 0 => Due(Resume)'
  <2>1. CASE saved' = position
    <3>1. Resume' \in Nat /\ Resume' <= position /\ position \in Nat
      BY <2>1, PollerAssumption DEF Inv, Typed, Resume, Lookback
    <3>2. \A g \in InTime' : FiledAt[g] \in Nat
      BY <1>3, Times DEF Inv, Typed, InTime
    <3> QED
      BY <1>3, <3>1, <3>2 DEF Due, PageFails
  <2>2. CASE saved' = saved
    BY <1>3, <2>2 DEF Inv, Read, Due, Resume, PageFails
  <2> QED
    BY <1>0, <2>1, <2>2
<1> QED
  BY <1>1, <1>2, <1>4, <1>5 DEF Inv, Read

\* A page that brings something ends at a time within the cycle's range, and
\* everything before that time is read then; after a page that is not full,
\* everything of that time too.
LEMMA PageReads ==
  ASSUME Inv, running, cycle = "page", NEW p \in SUBSET filed, IsPage(p), p # {}
  PROVE  LET last == NewestTime(p)
         IN /\ last \in Nat /\ seek <= last /\ last < until /\ Past(last) = last + 1
            /\ \A g \in InTime : /\ promised <= FiledAt[g]
                                 /\ \/ FiledAt[g] < last
                                    \/ Cardinality(p) < PageSize /\ FiledAt[g] <= last
                                 => g \in everRead \cup p
<1> DEFINE last == NewestTime(p)
<1>0. /\ filed \subseteq Hits /\ seek \in Nat /\ until \in Nat /\ position \in {seek, seek + 1}
      /\ boundary \subseteq everRead
  BY DEF Inv, Typed, Clocks
<1>1. Remaining \subseteq Hits
  BY <1>0 DEF Remaining
<1>2. /\ p \subseteq Remaining
      /\ Cardinality(p) < PageSize => p = Remaining
      /\ \A g \in p, h \in Remaining \ p : FiledAt[g] <= FiledAt[h]
  BY <1>1, PageIs
<1>3. /\ last \in Nat
      /\ \E r \in p : FiledAt[r] = last
  BY <1>0, NewestIs
<1>4. seek <= last /\ last < until
  BY <1>2, <1>3 DEF Remaining
<1>5. Past(last) = last + 1
  BY <1>0, <1>3, <1>4 DEF Past
<1>6. ASSUME NEW g \in InTime, promised <= FiledAt[g],
             FiledAt[g] < last \/ (Cardinality(p) < PageSize /\ FiledAt[g] <= last)
      PROVE  g \in everRead \cup p
  <2>1. g \in filed /\ FiledAt[g] \in Nat
    BY <1>0, Times DEF InTime
  <2>2. CASE FiledAt[g] < seek
    BY <1>6, <2>2 DEF Inv, Read, Due, Front
  <2>3. CASE ~(FiledAt[g] < seek)
    <3>1. FiledAt[g] < until
      BY <1>0, <1>3, <1>4, <1>6, <2>1
    <3>2. g \in boundary \/ g \in Remaining
      BY <1>0, <2>1, <2>3, <3>1 DEF Remaining
    <3>3. CASE g \in Remaining \ p
      BY <1>2, <1>3, <1>6, <2>1, <3>3
    <3> QED
      BY <1>0, <3>2, <3>3
  <2> QED
    BY <2>2, <2>3
<1> HIDE DEF last
<1> QED
  BY <1>3, <1>4, <1>5, <1>6 DEF last

\* After an empty page everything before the position is read.
LEMMA EmptyPageReads ==
  ASSUME Inv, running, cycle = "page", IsPage({})
  PROVE  Due(position)
<1>1. /\ Remaining \subseteq Hits /\ seek \in Nat /\ until \in Nat /\ position \in {seek, seek + 1}
      /\ position <= until /\ boundary \subseteq everRead /\ filed \subseteq Hits
  BY DEF Inv, Typed, Clocks, Remaining
<1>2. Remaining = {}
  BY <1>1, PageIs
<1>3. SUFFICES ASSUME NEW g \in InTime, promised <= FiledAt[g], FiledAt[g] < position
               PROVE  g \in everRead
  BY DEF Due
<1>4. g \in filed /\ FiledAt[g] \in Nat
  BY <1>1, Times DEF InTime
<1>5. CASE FiledAt[g] < seek
  BY <1>3, <1>5 DEF Inv, Read, Due, Front
<1>6. CASE ~(FiledAt[g] < seek)
  <2>1. FiledAt[g] < until /\ seek <= FiledAt[g]
    BY <1>1, <1>3, <1>4, <1>6
  <2> QED
    BY <1>1, <1>2, <1>4, <2>1 DEF Remaining
<1> QED
  BY <1>5, <1>6

\* A position that is saved: everything before it is read.
LEMMA SavedReads ==
  ASSUME NEW t \in Nat, saved' = t, InTime' \subseteq Hits,
         \A g \in InTime' : promised' <= FiledAt[g] /\ FiledAt[g] < t => g \in everRead'
  PROVE  Due(Resume)'
<1>1. Resume' \in Nat /\ Resume' <= t
  BY PollerAssumption DEF Resume, Lookback
<1>2. \A g \in InTime' : FiledAt[g] \in Nat
  BY Times
<1> QED
  BY <1>1, <1>2 DEF Due

LEMMA ReadPageInv == ASSUME Inv, ReadPage PROVE Inv'
<1>0. PICK p \in SUBSET filed :
       /\ IsPage(p) /\ Take(p)
       /\ IF p = {}
            THEN /\ cycle' = "wait" /\ SaveCursor(position, fetched)
                 /\ UNCHANGED <<position, seek, boundary, fetched>>
            ELSE LET last == NewestTime(p)  same == {h \in p : FiledAt[h] = last}
                 IN /\ position' = Past(last) /\ fetched' = TRUE
                    /\ seek' = SeekFrom(last)
                    /\ boundary' = IF last = seek THEN boundary \cup same ELSE same
                    /\ IF Cardinality(p) < PageSize
                         THEN cycle' = "wait" /\ SaveCursor(Past(last), TRUE)
                         ELSE UNCHANGED <<cycle, saved>>
  BY DEF ReadPage
<1>1. /\ running /\ cycle = "page" /\ running' = running /\ now' = now /\ filed' = filed
      /\ belated' = belated /\ until' = until /\ resumed' = resumed /\ promised' = promised
      /\ torn' = torn /\ everRead' = everRead \cup p /\ held' = held \cup p
      /\ waiting' = waiting \cup (p \ held)
  BY <1>0 DEF ReadPage, Take, elastic
<1>2. InTime' = InTime /\ InTime \subseteq Hits
  BY <1>1 DEF InTime, Inv, Typed
<1>3. CASE p = {}
  <2>1. cycle' = "wait" /\ position' = position /\ seek' = seek /\ boundary' = boundary
        /\ fetched' = fetched /\ saved' \in {position, saved}
    BY <1>0, <1>3 DEF SaveCursor
  <2>2. Typed' /\ Clocks'
    BY <1>1, <1>3, <2>1 DEF Inv, Typed, Clocks
  <2>3. Due(position)
    BY <1>0, <1>1, <1>3, EmptyPageReads
  <2>4. Due(Front)'
    BY <1>1, <1>2, <2>1, <2>3 DEF Due, Front
  <2>5. saved' # 0 => Due(Resume)'
    <3>1. CASE saved' = position
      BY <1>1, <1>2, <2>3, <3>1, SavedReads DEF Due, Inv, Typed
    <3>2. CASE saved' = saved
      BY <1>1, <1>2, <3>2 DEF Inv, Read, Due, Resume
    <3> QED
      BY <2>1, <3>1, <3>2
  <2> QED
    BY <2>2, <2>4, <2>5 DEF Inv, Read
<1>4. CASE p # {}
  <2> DEFINE last == NewestTime(p)
  <2>1. /\ last \in Nat /\ seek <= last /\ last < until /\ Past(last) = last + 1
        /\ \A g \in InTime : /\ promised <= FiledAt[g]
                             /\ \/ FiledAt[g] < last
                                \/ Cardinality(p) < PageSize /\ FiledAt[g] <= last
                             => g \in everRead \cup p
    BY <1>0, <1>1, <1>4, PageReads
  <2>2. /\ position' = last + 1 /\ fetched' = TRUE /\ seek' = last
        /\ boundary' \subseteq boundary \cup p
        /\ \/ Cardinality(p) < PageSize /\ cycle' = "wait" /\ saved' = last + 1
           \/ cycle' = cycle /\ saved' = saved
    BY <1>0, <1>4, <2>1 DEF SaveCursor, SeekFrom
  <2> HIDE DEF last
  <2>3. until <= now /\ until \in Nat /\ now \in Nat
    BY DEF Inv, Typed, Clocks
  <2>4. Typed'
    BY <1>1, <2>1, <2>2 DEF Inv, Typed
  <2>5. Clocks'
    <3>1. last + 1 <= now /\ last + 1 <= until
      BY <2>1, <2>3
    <3> QED
      BY <1>1, <2>2, <3>1 DEF Inv, Typed, Clocks
  <2>6. \A g \in InTime : FiledAt[g] \in Nat
    BY <1>2, Times
  <2>7. CASE Cardinality(p) < PageSize /\ cycle' = "wait" /\ saved' = last + 1
    <3>1. \A g \in InTime' : promised' <= FiledAt[g] /\ FiledAt[g] < last + 1 => g \in everRead'
      BY <1>1, <1>2, <2>1, <2>6, <2>7
    <3>2. Due(Front)'
      BY <2>2, <2>7, <3>1 DEF Due, Front
    <3>3. Due(Resume)'
      BY <1>2, <2>1, <2>7, <3>1, SavedReads
    <3> QED
      BY <2>4, <2>5, <3>2, <3>3 DEF Inv, Read
  <2>8. CASE cycle' = cycle /\ saved' = saved
    <3>1. Due(Front)'
      BY <1>1, <1>2, <2>1, <2>2, <2>8 DEF Due, Front
    <3>2. saved' # 0 => Due(Resume)'
      BY <1>1, <1>2, <2>8 DEF Inv, Read, Due, Resume
    <3> QED
      BY <2>4, <2>5, <3>1, <3>2 DEF Inv, Read
  <2> QED
    BY <2>2, <2>7, <2>8
<1> QED
  BY <1>3, <1>4

LEMMA StepInv == Inv /\ [PollerNext]_pollerVars => Inv'
<1> SUFFICES ASSUME Inv, [PollerNext]_pollerVars PROVE Inv'
  OBVIOUS
<1>1. CASE UNCHANGED pollerVars
  <2>1. UNCHANGED <<now, filed, belated, running, cycle, position, until, seek, boundary,
                    fetched, saved, resumed, held, waiting, everRead, promised, torn>>
    BY <1>1 DEF pollerVars, elastic, paging, memory
  <2>2. Typed'
    BY <2>1 DEF Inv, Typed
  <2>5. Clocks'
    BY <2>1 DEF Inv, Clocks
  <2>3. InTime' = InTime /\ Front' = Front /\ Resume' = Resume
    BY <2>1 DEF InTime, Front, Resume
  <2>4. Read'
    BY <2>1, <2>3 DEF Inv, Read, Due
  <2> QED
    BY <2>2, <2>4, <2>5 DEF Inv
<1>2. CASE PollerNext
  BY <1>2, FileInv, TickInv, BeginCycleInv, ReadPageInv, PageFailsInv, PruneInv, StopInv,
     StartInv DEF PollerNext
<1> QED
  BY <1>1, <1>2

LEMMA AlwaysInv == PollerSpec => []Inv
BY InitInv, StepInv, PTL DEF PollerSpec

\* Polling skips nothing, for any alerts, ties, page size, failures and
\* restarts (ElasticConnector.poll and fetch_batch of
\* src/engine/connectors/elastic.py).
THEOREM NothingSkipped == PollerSpec => []PollSkipsNothing
<1>1. Inv => PollSkipsNothing
  <2>1. SUFFICES ASSUME Inv, running, NEW h \in InTime, promised <= FiledAt[h],
                        FiledAt[h] < position
                 PROVE  h \in everRead \/ MidPage(h)
    BY DEF PollSkipsNothing
  <2>2. FiledAt[h] \in Nat /\ seek \in Nat
    BY <2>1, Times DEF Inv, Typed, InTime
  <2>3. CASE cycle = "wait"
    BY <2>1, <2>3 DEF Inv, Read, Due, Front
  <2>4. CASE cycle = "page"
    <3>1. CASE FiledAt[h] < seek
      BY <2>1, <2>4, <3>1 DEF Inv, Read, Due, Front
    <3>2. CASE FiledAt[h] >= seek
      BY <2>4, <3>2 DEF MidPage
    <3> QED
      BY <2>2, <3>1, <3>2
  <2> QED
    BY <2>1, <2>3, <2>4 DEF Inv, Typed
<1> QED
  BY <1>1, AlwaysInv, PTL
----------------------------------------------------------------------------
\* What a restarted poller holds in memory.

\* Chains are kept long enough: whoever may still be linked to an alert that
\* was dropped would have been read before it was.
Outlasts == Span <= Retention + 1 /\ Span <= Slack + Retention

\* A run reads again from here on.
Reached == IF resumed > Lookback THEN resumed - Lookback ELSE 0

\* An alert that was dropped: too old for anything to come, and with no
\* neighbour after it left behind.
Parted(h) ==
  /\ held # {} /\ FiledAt[h] + Slack + Retention < NewestTime(held)
  /\ \A g \in held : FiledAt[h] <= FiledAt[g] => ~Near(g, h)

Recalls ==
  \A h \in InTime :
    promised <= FiledAt[h] /\ Reached <= FiledAt[h] /\ FiledAt[h] < Front =>
      h \in held \/ Parted(h)

\* What is held lies behind the position, and a page goes on from the newest.
Behind ==
  /\ \A g \in held : FiledAt[g] < position
  /\ running /\ cycle = "page" => /\ \A g \in held : FiledAt[g] <= seek
                                  /\ \A b \in boundary : b \in held /\ FiledAt[b] = seek

Memory == Inv /\ Behind /\ (running /\ resumed # 0 => Recalls)

LEMMA HeldType ==
  ASSUME Inv
  PROVE  held \subseteq Hits /\ filed \subseteq Hits /\ InTime \subseteq Hits
BY DEF Inv, Typed, InTime

\* An alert stays dropped while only newer ones come and the newest remains.
LEMMA PartedStays ==
  ASSUME Inv, Outlasts, NEW h \in Hits, Parted(h), held' \subseteq Hits,
         \A g \in held' \ held : NewestTime(held) <= FiledAt[g],
         \E n \in held' : FiledAt[n] = NewestTime(held)
  PROVE  Parted(h)'
<1>1. held \subseteq Hits /\ held # {}
  BY HeldType DEF Parted
<1>2. NewestTime(held) \in Nat
  BY <1>1, NewestIs
<1>3. held' # {}
  OBVIOUS
<1>4. NewestTime(held') \in Nat /\ \A q \in held' : FiledAt[q] <= NewestTime(held')
  BY <1>3, NewestIs
<1>5. NewestTime(held) <= NewestTime(held')
  BY <1>4
<1>6. /\ FiledAt[h] \in Nat /\ Slack \in Nat /\ Retention \in Nat /\ Span \in Nat
      /\ \A g \in held' : FiledAt[g] \in Nat
  BY Times, PollerAssumption
<1>7. FiledAt[h] + Slack + Retention < NewestTime(held')
  BY <1>2, <1>4, <1>5, <1>6 DEF Parted
<1>8. ASSUME NEW g \in held', FiledAt[h] <= FiledAt[g], Near(g, h) PROVE FALSE
  <2>1. CASE g \in held
    BY <1>8, <2>1 DEF Parted
  <2>2. CASE g \notin held
    <3>1. NewestTime(held) <= FiledAt[g] /\ FiledAt[g] <= FiledAt[h] + Span
      BY <1>8, <2>2 DEF Near
    <3>2. FiledAt[h] + Slack + Retention < NewestTime(held) /\ Span <= Slack + Retention
      BY DEF Parted, Outlasts
    <3> QED
      BY <1>2, <1>6, <3>1, <3>2
  <2> QED
    BY <2>1, <2>2
<1> QED
  BY <1>3, <1>7, <1>8 DEF Parted, Near

\* A step that reads and drops nothing.
LEMMA RecallsStay ==
  ASSUME Memory, \A g \in InTime' : g \in InTime \/ FiledAt[g] = now,
         InTime' \subseteq Hits, running' => running /\ Front' <= Front /\ Front' \in Nat,
         promised' = promised, resumed' = resumed, held' = held
  PROVE  running' /\ resumed' # 0 => Recalls'
<1>1. Front \in Nat /\ Front <= now /\ now \in Nat
  BY FrontType DEF Memory, Inv, Typed
<1>2. Reached' = Reached
  BY DEF Reached, Lookback
<1>3. SUFFICES ASSUME running', resumed # 0, NEW h \in InTime', promised <= FiledAt[h],
                      Reached <= FiledAt[h], FiledAt[h] < Front'
               PROVE  h \in held \/ Parted(h)
  BY <1>2 DEF Recalls, Parted
<1>4. FiledAt[h] \in Nat
  BY Times
<1>5. running /\ FiledAt[h] < Front /\ h \in InTime
  BY <1>1, <1>3, <1>4
<1> QED
  BY <1>3, <1>5 DEF Memory, Recalls

LEMMA FileMemory == ASSUME Memory, NEW h \in Hits, File(h) PROVE Memory'
<1>1. Inv'
  BY FileInv DEF Memory
<1>2. Behind'
  BY DEF Memory, Behind, File, paging, memory
<1>3. \A g \in InTime' : g \in InTime \/ FiledAt[g] = now
  BY Times DEF Memory, Inv, Typed, Clocks, File, InTime
<1>4. Front \in Nat /\ Front' = Front
  BY FrontType DEF Memory, Inv, Front, File, paging
<1>5. InTime' \subseteq Hits
  BY DEF Memory, Inv, Typed, File, InTime
<1>6. running' = running /\ promised' = promised /\ resumed' = resumed /\ held' = held
  BY DEF File, memory
<1>7. running' /\ resumed' # 0 => Recalls'
  BY <1>3, <1>4, <1>5, <1>6, RecallsStay
<1> QED
  BY <1>1, <1>2, <1>7 DEF Memory

LEMMA TickMemory == ASSUME Memory, Tick PROVE Memory'
<1>1. Inv'
  BY TickInv DEF Memory
<1>2. Behind'
  BY DEF Memory, Behind, Tick, paging, memory
<1>3. InTime' = InTime /\ InTime \subseteq Hits
  BY DEF Memory, Inv, Typed, Tick, InTime
<1>4. Front \in Nat /\ Front' = Front
  BY FrontType DEF Memory, Inv, Front, Tick, paging
<1>5. running' = running /\ promised' = promised /\ resumed' = resumed /\ held' = held
  BY DEF Tick, memory
<1>6. running' /\ resumed' # 0 => Recalls'
  BY <1>3, <1>4, <1>5, RecallsStay
<1> QED
  BY <1>1, <1>2, <1>6 DEF Memory

LEMMA BeginCycleMemory == ASSUME Memory, BeginCycle PROVE Memory'
<1>1. Inv'
  BY BeginCycleInv DEF Memory
<1>2. Behind'
  <2>1. /\ seek' = position /\ boundary' = {} /\ held' = held /\ position' = position
        /\ position \in Nat /\ \A g \in held : FiledAt[g] \in Nat
    BY HeldType, Times DEF BeginCycle, memory, Memory, Inv, Typed
  <2> QED
    BY <2>1 DEF Memory, Behind
<1>3. InTime' = InTime /\ InTime \subseteq Hits
  BY DEF Memory, Inv, Typed, BeginCycle, elastic, InTime
<1>4. Front \in Nat /\ Front' = Front
  BY FrontType DEF Memory, Inv, Front, BeginCycle
<1>5. running' = running /\ promised' = promised /\ resumed' = resumed /\ held' = held
  BY DEF BeginCycle, memory
<1>6. running' /\ resumed' # 0 => Recalls'
  BY <1>3, <1>4, <1>5, RecallsStay
<1> QED
  BY <1>1, <1>2, <1>6 DEF Memory

LEMMA StopMemory == ASSUME Memory, StopPolling PROVE Memory'
BY StopInv DEF Memory, Behind, StopPolling

LEMMA StartMemory == ASSUME Memory, StartPolling PROVE Memory'
<1>1. Inv'
  BY StartInv DEF Memory
<1>2. held' = {} /\ cycle' = "wait"
  BY DEF Memory, Inv, Clocks, StartPolling, memory
<1>3. Behind'
  BY <1>2 DEF Behind
<1>4. ASSUME resumed' # 0 PROVE Recalls'
  <2>1. Front' = Resume /\ Reached' = Resume
    BY <1>2, <1>4 DEF StartPolling, Front, Reached, Resume, Lookback
  <2>2. InTime' \subseteq Hits /\ Resume \in Nat
    BY <1>1, ResumeType DEF Memory, Inv, Typed, InTime
  <2>3. \A h \in InTime' : FiledAt[h] \in Nat
    BY <2>2, Times
  <2> QED
    BY <2>1, <2>2, <2>3 DEF Recalls
<1> QED
  BY <1>1, <1>3, <1>4 DEF Memory

\* What a failed page leaves out is torn, the rest is held.
LEMMA PageFailsMemory == ASSUME Memory, PageFails PROVE Memory'
<1>1. Inv'
  BY PageFailsInv DEF Memory
<1>2. cycle' = "wait" /\ position' = position /\ held' = held /\ filed' = filed
  BY DEF PageFails, memory, elastic
<1>3. Behind'
  BY <1>2 DEF Memory, Behind
<1>4. \A h \in InTime' : FiledAt[h] < position => h \in held'
  BY <1>2 DEF InTime, PageFails
<1>5. Recalls'
  BY <1>2, <1>4 DEF Recalls, Front
<1> QED
  BY <1>1, <1>3, <1>5 DEF Memory

\* What is near a placed alert is linked to what that is linked to.
LEMMA LinkedOn ==
  ASSUME NEW S, NEW h \in S, NEW g \in S, Near(h, g)
  PROVE  Linked(S, g) \subseteq Linked(S, h)
<1> SUFFICES ASSUME NEW x \in Linked(S, g), NEW T \in SUBSET S, h \in T,
                    \A v \in T, y \in S : Near(v, y) => y \in T
             PROVE  x \in T
  BY DEF Linked
<1>1. g \in T
  OBVIOUS
<1> QED
  BY <1>1 DEF Linked

LEMMA LinkedSelf == ASSUME NEW S, NEW h \in S PROVE h \in Linked(S, h)
BY DEF Linked

LEMMA PruneMemory == ASSUME Memory, Outlasts, Prune PROVE Memory'
<1> DEFINE N == NewestTime(held)
           S == held \ waiting'
<1>0. /\ held \subseteq Hits /\ held # {} /\ InTime \subseteq Hits
      /\ held' = held \ Doomed(S, N) /\ waiting' = {h \in waiting : FiledAt[h] + Slack > N}
  BY HeldType DEF Memory, Prune
<1>1. /\ N \in Nat /\ \A q \in held : FiledAt[q] <= N /\ FiledAt[q] \in Nat
      /\ \E n \in held : FiledAt[n] = N
  BY <1>0, NewestIs, Times
<1>2. Slack \in Nat /\ Retention \in Nat /\ Span \in Nat
  BY PollerAssumption
<1> HIDE DEF N
<1>3. \A h \in Doomed(S, N) : h \in S /\ FiledAt[h] + Slack + Retention < N
  BY LinkedSelf DEF Doomed
<1>4. \A n \in held : FiledAt[n] = N => n \in held'
  BY <1>0, <1>1, <1>2, <1>3
<1>5. Inv'
  BY PruneInv DEF Memory
<1>6. /\ running' = running /\ cycle' = cycle /\ position' = position /\ seek' = seek
      /\ boundary' = boundary /\ promised' = promised /\ resumed' = resumed
      /\ InTime' = InTime
  BY DEF Prune, elastic, paging, InTime
<1>7. Behind'
  <2>1. ASSUME running, cycle = "page", NEW b \in boundary
        PROVE  b \in held'
    <3>1. /\ b \in held /\ FiledAt[b] = seek /\ \A g \in held : FiledAt[g] <= seek
      BY <2>1 DEF Memory, Behind
    <3>2. FiledAt[b] = N
      BY <1>1, <3>1
    <3> QED
      BY <1>4, <3>1, <3>2
  <2> QED
    BY <1>0, <1>6, <2>1 DEF Memory, Behind
<1>8. ASSUME NEW h \in Doomed(S, N)
      PROVE  Parted(h)'
  <2>1. h \in S /\ h \in Hits /\ FiledAt[h] + Slack + Retention < N /\ FiledAt[h] \in Nat
    BY <1>0, <1>1, <1>3, <1>8
  <2>2. held' # {} /\ NewestTime(held') \in Nat /\ N <= NewestTime(held')
    <3>1. held' # {} /\ held' \subseteq Hits
      BY <1>0, <1>1, <1>4
    <3>2. NewestTime(held') \in Nat /\ \A q \in held' : FiledAt[q] <= NewestTime(held')
      BY <3>1, NewestIs
    <3> QED
      BY <1>1, <1>4, <3>1, <3>2
  <2>3. FiledAt[h] + Slack + Retention < NewestTime(held')
    BY <1>1, <1>2, <2>1, <2>2
  <2>4. ASSUME NEW g \in held', FiledAt[h] <= FiledAt[g], Near(g, h) PROVE FALSE
    <3>1. g \in held /\ g \notin Doomed(S, N) /\ FiledAt[g] \in Nat
      BY <1>0, <1>1
    <3>2. CASE g \in S
      <4>1. Near(h, g)
        BY <2>4 DEF Near
      <4>2. Linked(S, g) \subseteq Linked(S, h)
        BY <2>1, <3>2, <4>1, LinkedOn
      <4>3. g \in Doomed(S, N)
        BY <1>8, <3>2, <4>2 DEF Doomed
      <4> QED
        BY <3>1, <4>3
    <3>3. CASE g \notin S
      <4>1. FiledAt[g] + Slack > N
        BY <1>0, <3>1, <3>3
      <4>2. FiledAt[g] <= FiledAt[h] + Span /\ Span <= Retention + 1
        BY <2>4 DEF Near, Outlasts
      <4> QED
        BY <1>1, <1>2, <2>1, <3>1, <4>1, <4>2
    <3> QED
      BY <3>2, <3>3
  <2> QED
    BY <2>2, <2>3, <2>4 DEF Parted, Near
<1>9. ASSUME running, resumed # 0 PROVE Recalls'
  <2>1. Front' = Front /\ Reached' = Reached
    BY <1>6 DEF Front, Reached, Lookback
  <2>2. SUFFICES ASSUME NEW h \in InTime, promised <= FiledAt[h], Reached <= FiledAt[h],
                        FiledAt[h] < Front
                 PROVE  h \in held' \/ Parted(h)'
    BY <1>6, <2>1 DEF Recalls
  <2>3. h \in held \/ Parted(h)
    BY <1>9, <2>2 DEF Memory, Recalls
  <2>4. CASE h \in held
    BY <1>0, <1>8, <2>4
  <2>5. CASE Parted(h)
    <3>1. held' \subseteq held
      BY <1>0
    <3>2. \E n \in held' : FiledAt[n] = NewestTime(held)
      BY <1>1, <1>4 DEF N
    <3> QED
      BY <1>0, <2>2, <2>5, <3>1, <3>2, PartedStays DEF Memory
  <2> QED
    BY <2>3, <2>4, <2>5
<1> QED
  BY <1>5, <1>6, <1>7, <1>9 DEF Memory

\* A page that brings something: every alert in time before its last time, and
\* after a page that is not full of that time, is held or was dropped.
LEMMA PageRecalls ==
  ASSUME Memory, Outlasts, running, cycle = "page", resumed # 0,
         NEW p \in SUBSET filed, IsPage(p), held' = held \cup p, NEW end \in Nat,
         \A h \in Hits : FiledAt[h] >= seek /\ FiledAt[h] < end =>
           FiledAt[h] < until /\ (h \in Remaining => h \in p)
  PROVE  \A h \in InTime :
           promised <= FiledAt[h] /\ Reached <= FiledAt[h] /\ FiledAt[h] < end =>
             h \in held' \/ Parted(h)'
<1>1. SUFFICES ASSUME NEW h \in InTime, promised <= FiledAt[h], Reached <= FiledAt[h],
                      FiledAt[h] < end
               PROVE  h \in held' \/ Parted(h)'
  OBVIOUS
<1>2. /\ held \subseteq Hits /\ filed \subseteq Hits /\ h \in Hits /\ h \in filed
      /\ FiledAt[h] \in Nat /\ seek \in Nat
  BY HeldType, Times DEF Memory, Inv, Typed, InTime
<1>3. CASE FiledAt[h] >= seek
  <2>1. FiledAt[h] < until /\ (h \in Remaining => h \in p)
    BY <1>1, <1>2, <1>3
  <2>2. h \in boundary \/ h \in p
    BY <1>2, <1>3, <2>1 DEF Remaining
  <2> QED
    BY <2>2 DEF Memory, Behind
<1>4. CASE ~(FiledAt[h] >= seek)
  <2>1. FiledAt[h] < Front
    BY <1>2, <1>4 DEF Front
  <2>2. h \in held \/ Parted(h)
    BY <1>1, <2>1 DEF Memory, Recalls
  <2>3. CASE Parted(h)
    <3>1. held # {}
      BY <2>3 DEF Parted
    <3>2. NewestTime(held) \in Nat /\ \E n \in held : FiledAt[n] = NewestTime(held)
      BY <1>2, <3>1, NewestIs
    <3>3. NewestTime(held) <= seek
      BY <3>2 DEF Memory, Behind
    <3>4. \A g \in held' \ held : FiledAt[g] \in Nat /\ seek <= FiledAt[g]
      BY <1>2, Times DEF IsPage, Remaining
    <3>5. held' \subseteq Hits /\ \A g \in held' \ held : NewestTime(held) <= FiledAt[g]
      BY <1>2, <3>2, <3>3, <3>4
    <3>6. \E n \in held' : FiledAt[n] = NewestTime(held)
      BY <3>2
    <3> QED
      BY <1>2, <2>3, <3>5, <3>6, PartedStays DEF Memory
  <2> QED
    BY <2>2, <2>3
<1> QED
  BY <1>3, <1>4

LEMMA ReadPageMemory == ASSUME Memory, Outlasts, ReadPage PROVE Memory'
<1>0. PICK p \in SUBSET filed :
       /\ IsPage(p) /\ Take(p)
       /\ IF p = {}
            THEN /\ cycle' = "wait" /\ SaveCursor(position, fetched)
                 /\ UNCHANGED <<position, seek, boundary, fetched>>
            ELSE LET last == NewestTime(p)  same == {h \in p : FiledAt[h] = last}
                 IN /\ position' = Past(last) /\ fetched' = TRUE
                    /\ seek' = SeekFrom(last)
                    /\ boundary' = IF last = seek THEN boundary \cup same ELSE same
                    /\ IF Cardinality(p) < PageSize
                         THEN cycle' = "wait" /\ SaveCursor(Past(last), TRUE)
                         ELSE UNCHANGED <<cycle, saved>>
  BY DEF ReadPage
<1>1. /\ running /\ cycle = "page" /\ running' = running /\ filed' = filed
      /\ belated' = belated /\ torn' = torn /\ promised' = promised /\ resumed' = resumed
      /\ held' = held \cup p
  BY <1>0 DEF ReadPage, Take, elastic
<1>2. /\ filed \subseteq Hits /\ held \subseteq Hits /\ seek \in Nat /\ until \in Nat
      /\ position \in {seek, seek + 1} /\ position <= until /\ position \in Nat
      /\ InTime' = InTime /\ Reached' = Reached
  BY <1>1, HeldType DEF Memory, Inv, Typed, Clocks, InTime, Reached, Lookback
<1>3. Remaining \subseteq Hits
  BY <1>2 DEF Remaining
<1>4. /\ p \subseteq Remaining
      /\ p = {} => Remaining = {}
      /\ Cardinality(p) < PageSize => p = Remaining
      /\ \A g \in p, h \in Remaining \ p : FiledAt[g] <= FiledAt[h]
  BY <1>0, <1>3, PageIs
<1>5. Inv'
  BY ReadPageInv DEF Memory
<1>6. CASE p = {}
  <2>1. cycle' = "wait" /\ position' = position /\ held' = held
    BY <1>0, <1>1, <1>6
  <2>2. Behind'
    BY <2>1 DEF Memory, Behind
  <2>3. ASSUME resumed # 0 PROVE Recalls'
    <3>1. \A h \in Hits : FiledAt[h] >= seek /\ FiledAt[h] < position =>
            FiledAt[h] < until /\ (h \in Remaining => h \in p)
      BY <1>2, <1>4, <1>6, Times
    <3>2. \A h \in InTime :
            promised <= FiledAt[h] /\ Reached <= FiledAt[h] /\ FiledAt[h] < position =>
              h \in held' \/ Parted(h)'
      BY <1>0, <1>1, <1>2, <2>3, <3>1, PageRecalls
    <3> QED
      BY <1>1, <1>2, <2>1, <3>2 DEF Recalls, Front
  <2> QED
    BY <1>1, <1>5, <2>2, <2>3 DEF Memory
<1>7. CASE p # {}
  <2> DEFINE last == NewestTime(p)
  <2>1. /\ last \in Nat /\ \A q \in p : FiledAt[q] <= last /\ FiledAt[q] \in Nat
        /\ \E r \in p : FiledAt[r] = last
    BY <1>2, <1>7, NewestIs, Times
  <2>2. seek <= last /\ last < until /\ Past(last) = last + 1
    BY <1>2, <1>4, <2>1 DEF Remaining, Past
  <2>3. /\ position' = last + 1 /\ seek' = last
        /\ \A b \in boundary' : \/ b \in p /\ FiledAt[b] = last
                                \/ b \in boundary /\ last = seek
        /\ \/ Cardinality(p) < PageSize /\ cycle' = "wait"
           \/ cycle' = cycle
    BY <1>0, <1>7, <2>2 DEF SeekFrom
  <2> HIDE DEF last
  <2>4. \A g \in held : FiledAt[g] \in Nat /\ FiledAt[g] <= last
    BY <1>1, <1>2, <2>1, <2>2, Times DEF Memory, Behind
  <2>5. Behind'
    <3>1. \A g \in held' : FiledAt[g] <= last /\ FiledAt[g] \in Nat
      BY <1>1, <2>1, <2>4
    <3>2. \A b \in boundary' : b \in held' /\ FiledAt[b] = last
      BY <1>1, <2>3 DEF Memory, Behind
    <3> QED
      BY <2>1, <2>3, <3>1, <3>2 DEF Behind
  <2>6. ASSUME resumed # 0 PROVE Recalls'
    <3>1. CASE Cardinality(p) < PageSize /\ cycle' = "wait"
      <4>1. \A h \in Hits : FiledAt[h] >= seek /\ FiledAt[h] < last + 1 =>
              FiledAt[h] < until /\ (h \in Remaining => h \in p)
        BY <1>2, <1>4, <2>1, <2>2, <3>1, Times
      <4>2. \A h \in InTime :
              promised <= FiledAt[h] /\ Reached <= FiledAt[h] /\ FiledAt[h] < last + 1 =>
                h \in held' \/ Parted(h)'
        BY <1>0, <1>1, <2>1, <2>6, <4>1, PageRecalls
      <4> QED
        BY <1>1, <1>2, <2>3, <3>1, <4>2 DEF Recalls, Front
    <3>2. CASE cycle' = cycle
      <4>1. \A h \in Hits : FiledAt[h] >= seek /\ FiledAt[h] < last =>
              FiledAt[h] < until /\ (h \in Remaining => h \in p)
        BY <1>2, <1>4, <2>1, <2>2, Times
      <4>2. \A h \in InTime :
              promised <= FiledAt[h] /\ Reached <= FiledAt[h] /\ FiledAt[h] < last =>
                h \in held' \/ Parted(h)'
        BY <1>0, <1>1, <2>1, <2>6, <4>1, PageRecalls
      <4> QED
        BY <1>1, <1>2, <2>3, <3>2, <4>2 DEF Recalls, Front
    <3> QED
      BY <2>3, <3>1, <3>2
  <2> QED
    BY <1>1, <1>5, <2>5, <2>6 DEF Memory
<1> QED
  BY <1>6, <1>7

LEMMA InitMemory == PollerInit => Memory
BY InitInv DEF PollerInit, Memory, Behind

LEMMA StepMemory ==
  ASSUME Outlasts
  PROVE  Memory /\ [PollerNext]_pollerVars => Memory'
<1> SUFFICES ASSUME Memory, [PollerNext]_pollerVars PROVE Memory'
  OBVIOUS
<1>1. CASE UNCHANGED pollerVars
  <2>1. UNCHANGED <<now, filed, belated, running, cycle, position, until, seek, boundary,
                    fetched, saved, resumed, held, waiting, everRead, promised, torn>>
    BY <1>1 DEF pollerVars, elastic, paging, memory
  <2>2. Inv'
    BY StepInv DEF Memory
  <2>3. Behind'
    BY <2>1 DEF Memory, Behind
  <2>4. InTime' = InTime /\ Front' = Front /\ Reached' = Reached
    BY <2>1 DEF InTime, Front, Reached, Lookback
  <2>5. running' /\ resumed' # 0 => Recalls'
    BY <2>1, <2>4 DEF Memory, Recalls, Parted
  <2> QED
    BY <2>2, <2>3, <2>5 DEF Memory
<1>2. CASE PollerNext
  BY <1>2, FileMemory, TickMemory, BeginCycleMemory, ReadPageMemory, PageFailsMemory,
     PruneMemory, StopMemory, StartMemory DEF PollerNext
<1> QED
  BY <1>1, <1>2

\* When a new alert is read after a restart, whatever it is linked to is in
\* memory again, for any alerts and page size, where chains are kept as long
\* as the window in which alerts are linked (EngineRunner._poll of
\* src/engine/server.py, CorrelationEngine.prune_before).
THEOREM ChainsRebuilt ==
  ASSUME Outlasts
  PROVE  PollerSpec => []NeighboursHeld
<1>1. Memory => NeighboursHeld
  <2>1. SUFFICES ASSUME Memory, running, resumed # 0, NEW g \in held, NEW h \in InTime,
                        FiledAt[g] >= resumed, FiledAt[h] >= promised,
                        FiledAt[h] <= FiledAt[g], Near(g, h)
                 PROVE  h \in held \/ MidPage(h)
    BY DEF NeighboursHeld
  <2>2. /\ FiledAt[g] \in Nat /\ FiledAt[h] \in Nat /\ resumed \in Nat /\ seek \in Nat
        /\ promised \in Nat /\ position \in Nat /\ FiledAt[g] < position
    BY <2>1, HeldType, Times DEF Memory, Inv, Typed, Behind
  <2>3. Reached <= FiledAt[h]
    BY <2>1, <2>2, PollerAssumption DEF Near, Reached, Lookback
  <2>4. CASE cycle = "page" /\ FiledAt[h] >= seek
    BY <2>4 DEF MidPage
  <2>5. CASE ~(cycle = "page" /\ FiledAt[h] >= seek)
    <3>1. FiledAt[h] < Front
      BY <2>1, <2>2, <2>5 DEF Memory, Inv, Typed, Front
    <3>2. h \in held \/ Parted(h)
      BY <2>1, <2>3, <3>1 DEF Memory, Recalls
    <3> QED
      BY <2>1, <3>2 DEF Parted
  <2> QED
    BY <2>4, <2>5
<1> QED
  BY <1>1, InitMemory, StepMemory, PTL DEF PollerSpec
=============================================================================
