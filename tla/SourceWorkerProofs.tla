------------------------- MODULE SourceWorkerProofs -------------------------
(***************************************************************************)
(* Proofs about SourceWorker, for any source, bounds and paging style: the *)
(* types, one window for each decision to tolerate bad rows, that no older *)
(* version of a record comes back as its newest, and that no cursor passes *)
(* a row.                                                                  *)
(***************************************************************************)
EXTENDS SourceWorker, FiniteSetTheorems, WellFoundedInduction, TLAPS

Pages == [rows : SUBSET Rows, bad : SUBSET Rows, next : CursorSet, complete : BOOLEAN,
          strict : BOOLEAN]

----------------------------------------------------------------------------
\* Lemmas: sets of rows.

\* A finite set of numbers that is not empty has a greatest.
LEMMA Greatest ==
  ASSUME NEW S \in SUBSET Nat, IsFiniteSet(S), S # {}
  PROVE  \E r \in S : \A q \in S : q <= r
<1> DEFINE Topless == {A \in SUBSET S : A # {} /\ ~ \E r \in A : \A q \in A : q <= r}
<1>1. SUFFICES ASSUME Topless # {} PROVE FALSE
  OBVIOUS
<1>2. IsWellFoundedOn(StrictSubsetOrdering(S), FiniteSubsetsOf(S))
  BY FS_StrictSubsetOrderingWellFounded
<1>3. Topless \subseteq FiniteSubsetsOf(S)
  BY FS_FiniteSubsetsOfFinite
<1>4. PICK A \in Topless : \A B \in Topless : <<B, A>> \notin StrictSubsetOrdering(S)
  <2> HIDE DEF Topless
  <2> QED
    BY <1>1, <1>2, <1>3, WFMin
<1>5. PICK x \in A : TRUE
  OBVIOUS
<1>6. A \ {x} \notin Topless
  BY <1>4, <1>5 DEF StrictSubsetOrdering
<1>7. CASE A \ {x} = {}
  <2>1. A = {x} /\ x <= x
    BY <1>5, <1>7
  <2> QED
    BY <2>1
<1>8. CASE A \ {x} # {}
  <2>1. PICK y \in A \ {x} : \A q \in A \ {x} : q <= y
    BY <1>6, <1>8
  <2>2. x \in Nat /\ y \in Nat /\ A \subseteq Nat
    BY <2>1
  <2>3. CASE x <= y
    BY <2>1, <2>2, <2>3
  <2>4. CASE ~(x <= y)
    <3>1. \A q \in A : q <= x
      BY <2>1, <2>2, <2>4
    <3> QED
      BY <3>1
  <2> QED
    BY <2>3, <2>4
<1> QED
  BY <1>7, <1>8

\* The latest row of a record on a page.
LEMMA LatestOfPage ==
  ASSUME NEW p \in SUBSET Rows, NEW e, \E r \in p : RecordOf[r] = e
  PROVE  LET top == CHOOSE r \in p : RecordOf[r] = e /\ \A q \in p : RecordOf[q] = e => q <= r
         IN top \in p /\ RecordOf[top] = e /\ \A q \in p : RecordOf[q] = e => q <= top
<1> DEFINE S == {r \in p : RecordOf[r] = e}
<1>1. S \in SUBSET Nat /\ IsFiniteSet(S) /\ S # {}
  BY FS_Subset, SourceAssumption
<1>2. PICK r \in S : \A q \in S : q <= r
  <2> HIDE DEF S
  <2> QED
    BY <1>1, Greatest
<1>3. r \in p /\ RecordOf[r] = e /\ \A q \in p : RecordOf[q] = e => q <= r
  BY <1>2
<1> QED
  BY <1>3

LEMMA StoreTypes ==
  ASSUME NEW p \in SUBSET Rows, Store(p), kept \subseteq Rows, held \in [Records -> Rows \cup {0}]
  PROVE  kept' \subseteq Rows /\ held' \in [Records -> Rows \cup {0}]
<1>1. kept' \subseteq Rows
  BY DEF Store
<1>2. ASSUME NEW e \in Records PROVE held'[e] \in Rows \cup {0}
  <2>1. CASE \E r \in p : RecordOf[r] = e
    BY <2>1, LatestOfPage DEF Store
  <2>2. CASE ~ \E r \in p : RecordOf[r] = e
    BY <2>2 DEF Store
  <2> QED
    BY <2>1, <2>2
<1>3. held' \in [Records -> Rows \cup {0}]
  BY <1>2 DEF Store
<1> QED
  BY <1>1, <1>3

----------------------------------------------------------------------------
\* Lemmas: cursors and pages.

LEMMA CursorTypes ==
  ASSUME TypeOK, NEW c \in CursorSet
  PROVE  /\ Start(c) \in Nat /\ End(c) \in Nat /\ From(c) \in Nat
         /\ QueryOf(c) \in {0, 1, 2} /\ KindOf(c) \in {"v2", "backfill"}
         /\ c.kind # "backfill" => KindOf(c) = "v2"
<1>1. \A t \in Nat : Back(t) \in Nat
  BY SourceAssumption DEF Back
<1>2. c.start \in Nat /\ c.end \in Nat /\ c.from \in Nat /\ clock \in Nat
  BY DEF CursorSet, TypeOK
<1>3. Start(c) \in Nat
  BY <1>1, <1>2 DEF Start
<1>4. End(c) \in Nat
  BY <1>2 DEF End
<1>5. From(c) \in Nat
  BY <1>1, <1>2, <1>3 DEF From
<1>6. QueryOf(c) \in {0, 1, 2}
  BY DEF QueryOf, CursorSet, TypeOK
<1> QED
  BY <1>3, <1>4, <1>5, <1>6 DEF KindOf

LEMMA NoCursorType == NoCursor \in CursorSet /\ NoCursor.kind = "none" /\ ~NoCursor.more
                      /\ NoCursor.end = 0
  BY DEF NoCursor, CursorSet

LEMMA NoPageType == NoPage \in Pages /\ NoPage.bad = {} /\ NoPage.rows = {} /\ NoPage.strict
                    /\ NoPage.next = NoCursor
  BY NoCursorType DEF NoPage, Pages

\* The cursors of a window's end and of its middle.
LEMMA WindowCursors ==
  ASSUME TypeOK, NEW c \in CursorSet
  PROVE  /\ Drained(c) \in CursorSet /\ Drained(c).kind = "v2" /\ Drained(c).end = End(c)
         /\ More(c) \in CursorSet /\ More(c).kind = KindOf(c) /\ More(c).end = End(c)
  BY CursorTypes DEF Drained, More, NoCursor, CursorSet

\* A cursor with another place in its window is a cursor of the window.
SameWindow(n, m) == n \in CursorSet /\ n.kind = m.kind /\ n.end = m.end

LEMMA SeekCursor ==
  ASSUME NEW m \in CursorSet, NEW key \in Rows \cup {0}
  PROVE  SameWindow([m EXCEPT !.seek = key], m)
  BY DEF CursorSet, SameWindow

LEMMA RowsCursor ==
  ASSUME NEW m \in CursorSet, NEW J \in SUBSET Rows
  PROVE  SameWindow([m EXCEPT !.rows = J], m)
  BY DEF CursorSet, SameWindow

LEMMA JobCursor ==
  ASSUME NEW m \in CursorSet, NEW J \in SUBSET Rows
  PROVE  SameWindow([m EXCEPT !.job = "running", !.rows = J], m)
  BY DEF CursorSet, SameWindow

LEMMA PlaceCursor ==
  ASSUME NEW m \in CursorSet, NEW J \in SUBSET Rows, NEW i \in Nat
  PROVE  SameWindow([m EXCEPT !.job = "done", !.rows = J, !.offset = i], m)
  BY DEF CursorSet, SameWindow

\* What a fetch from the cursor c of the stream s delivers.  Where records
\* change, a row is the newest the source shows up to the end of the window.
Fresh(r, c, s) ==
  /\ StreamOf(r) = s /\ r \in shown /\ At[r] < End(c)
  /\ \A q \in shown : RecordOf[q] = RecordOf[r] /\ At[q] < End(c) => q <= r
Goes(c, next) == c.kind # "backfill" => next.kind # "backfill"
Brings(c, s, p, next) ==
  /\ next \in CursorSet /\ Goes(c, next)
  /\ Changes => next.end = End(c) /\ \A r \in p : Fresh(r, c, s)
Fetched(w, c, s) ==
  \E p \in SUBSET Rows, next \in CursorSet, complete \in BOOLEAN :
    Deliver(w, p, next, complete) /\ Brings(c, s, p, next)

LEMMA SentinelFetches ==
  ASSUME TypeOK, NEW w \in Readers, NEW c \in CursorSet, provider = "sentinel",
         SentinelPage(w, c)
  PROVE  Fetched(w, c, "alerts")
<1> DEFINE inWindow == {r \in Readable("alerts", QueryOf(c)) :
                          Start(c) <= At[r] /\ At[r] < End(c)}
           left == {r \in Latest(inWindow) : Continues(c) /\ c.seek # 0 => Seek(c, r)}
<1>1. PICK p \in SUBSET left :
        IF Cardinality(p) >= Limit
          THEN \E last \in p : Deliver(w, p, [More(c) EXCEPT !.seek = last], FALSE)
          ELSE Deliver(w, p, Drained(c), TRUE)
  BY DEF SentinelPage
<1>2. left \subseteq inWindow /\ inWindow \subseteq shown /\ shown \subseteq Rows
  BY DEF Latest, Readable, TypeOK
<1>3. ASSUME NEW r \in left PROVE Fresh(r, c, "alerts")
  <2>1. r \in inWindow /\ r \in shown /\ Start(c) <= At[r] /\ At[r] < End(c)
        /\ StreamOf(r) = "alerts" /\ InQuery(r, QueryOf(c))
    BY <1>2, <1>3 DEF Readable
  <2>2. ASSUME NEW q \in shown, RecordOf[q] = RecordOf[r], At[q] < End(c), ~(q <= r)
        PROVE  FALSE
    <3>1. q \in Nat /\ r \in Nat /\ q > r /\ q \in Rows /\ r \in Rows
      BY <1>2, <2>1, <2>2, SourceAssumption
    <3>2. Start(c) <= At[q]
      <4>1. At[r] <= At[q] /\ At[r] \in Nat /\ At[q] \in Nat
        BY <3>1, SourceAssumption
      <4> QED
        BY <2>1, <4>1, CursorTypes
    <3>3. StreamOf(q) = "alerts"
      BY DEF StreamOf
    <3>4. InQuery(q, QueryOf(c))
      BY <2>1, <2>2, <3>1, SourceAssumption DEF InQuery
    <3>5. q \in inWindow
      BY <2>2, <3>2, <3>3, <3>4 DEF Readable
    <3> QED
      BY <1>3, <2>2, <3>1, <3>5 DEF Latest, Changes
  <2> QED
    BY <2>1, <2>2 DEF Fresh
<1> HIDE DEF left, inWindow
<1>4. p \subseteq Rows /\ \A r \in p : Fresh(r, c, "alerts")
  BY <1>1, <1>2, <1>3
<1>5. CASE Cardinality(p) >= Limit
  <2>1. PICK last \in p : Deliver(w, p, [More(c) EXCEPT !.seek = last], FALSE)
    BY <1>1, <1>5
  <2> DEFINE next == [More(c) EXCEPT !.seek = last]
  <2>2. last \in Rows \cup {0}
    BY <1>4
  <2>3. next \in CursorSet /\ next.kind = KindOf(c) /\ next.end = End(c)
    BY <2>2, WindowCursors, SeekCursor DEF SameWindow
  <2>4. Brings(c, "alerts", p, next)
    BY <1>4, <2>3, CursorTypes DEF Brings, Goes
  <2> HIDE DEF next
  <2>5. Deliver(w, p, next, FALSE)
    BY <2>1 DEF next
  <2> QED
    BY <1>4, <2>3, <2>4, <2>5 DEF Fetched
<1>6. CASE ~(Cardinality(p) >= Limit)
  <2>1. Deliver(w, p, Drained(c), TRUE)
    BY <1>1, <1>6
  <2>2. Brings(c, "alerts", p, Drained(c))
    BY <1>4, WindowCursors DEF Brings, Goes
  <2> QED
    BY <1>4, <2>1, <2>2, WindowCursors DEF Fetched
<1> QED
  BY <1>5, <1>6

LEMMA GraphFetches ==
  ASSUME TypeOK, NEW w \in Readers, NEW c \in CursorSet, NEW s, provider = "graph",
         GraphPage(w, c, s)
  PROVE  Fetched(w, c, s)
<1> DEFINE left == {r \in Latest(Readable(s, QueryOf(c))) :
                      Start(c) <= At[r] /\ At[r] < End(c) /\ r \notin c.rows}
<1>1. PICK p \in SUBSET left :
        IF p # left THEN Deliver(w, p, [More(c) EXCEPT !.rows = c.rows \cup p], FALSE)
        ELSE Deliver(w, p, Drained(c), TRUE)
  BY DEF GraphPage
<1>2. left \subseteq Readable(s, QueryOf(c)) /\ left \subseteq shown /\ shown \subseteq Rows
  BY DEF Latest, Readable, TypeOK
<1>3. ASSUME NEW r \in left PROVE Fresh(r, c, s)
  <2>1. r \in shown /\ At[r] < End(c) /\ StreamOf(r) = s
    BY <1>2, <1>3 DEF Readable
  <2>2. ASSUME NEW q \in shown, RecordOf[q] = RecordOf[r], ~(q <= r)
        PROVE  FALSE
    <3>1. q \in Nat /\ r \in Nat /\ q > r /\ q \in Rows /\ r \in Rows
      <4>1. q \in Rows /\ r \in Rows
        BY <2>1, <2>2 DEF TypeOK
      <4> QED
        BY <2>2, <4>1, SourceAssumption
    <3>2. StreamOf(q) = s
      BY <2>1, <2>2, <3>1, SourceAssumption DEF StreamOf
    <3>3. q \in Readable(s, QueryOf(c))
      BY <2>2, <3>2 DEF Readable, InQuery, Fingerprinted
    <3> QED
      BY <1>3, <2>2, <3>1, <3>3 DEF Latest, Changes
  <2> QED
    BY <2>1, <2>2 DEF Fresh
<1> HIDE DEF left
<1>4. p \subseteq Rows /\ \A r \in p : Fresh(r, c, s)
  BY <1>1, <1>2, <1>3
<1>5. CASE p # left
  <2> DEFINE next == [More(c) EXCEPT !.rows = c.rows \cup p]
  <2>1. Deliver(w, p, next, FALSE)
    BY <1>1, <1>5
  <2>2. c.rows \cup p \in SUBSET Rows
    BY <1>4 DEF CursorSet
  <2>3. next \in CursorSet /\ next.kind = KindOf(c) /\ next.end = End(c)
    BY <2>2, WindowCursors, RowsCursor DEF SameWindow
  <2>4. Brings(c, s, p, next)
    BY <1>4, <2>3, CursorTypes DEF Brings, Goes
  <2> HIDE DEF next
  <2> QED
    BY <1>4, <2>1, <2>3, <2>4 DEF Fetched
<1>6. CASE p = left
  <2>1. Deliver(w, p, Drained(c), TRUE)
    BY <1>1, <1>6
  <2>2. Brings(c, s, p, Drained(c))
    BY <1>4, WindowCursors DEF Brings, Goes
  <2> QED
    BY <1>4, <2>1, <2>2, WindowCursors DEF Fetched
<1> QED
  BY <1>5, <1>6

\* Splunk: a page of a job, old or new, of the rows J.
LEMMA SplunkReads ==
  ASSUME TypeOK, NEW w \in Readers, NEW c \in CursorSet, provider = "splunk", NEW s,
         NEW J \in SUBSET Rows, NEW i \in Nat, NEW n \in Nat, SplunkRead(w, c, J, i, n)
  PROVE  Fetched(w, c, s)
<1> DEFINE p == Slice(J, i, n)
           next == [More(c) EXCEPT !.job = "done", !.rows = J, !.offset = i + n]
<1>1. p \in SUBSET Rows /\ i + n \in Nat
  BY DEF Slice
<1>2. ~Changes
  BY DEF Changes
<1>3. next \in CursorSet /\ next.kind = KindOf(c)
  <2>1. More(c) \in CursorSet /\ More(c).kind = KindOf(c)
    BY WindowCursors
  <2> DEFINE place == i + n
  <2>2. place \in Nat
    BY <1>1
  <2> HIDE DEF place
  <2>3. SameWindow([More(c) EXCEPT !.job = "done", !.rows = J, !.offset = place], More(c))
    BY <2>1, <2>2, PlaceCursor
  <2> QED
    BY <2>1, <2>3 DEF SameWindow, place
<1>4. Deliver(w, p, next, FALSE) \/ Deliver(w, p, Drained(c), TRUE)
  BY DEF SplunkRead
<1> HIDE DEF p, next
<1>5. Brings(c, s, p, next) /\ Brings(c, s, p, Drained(c))
  BY <1>1, <1>2, <1>3, WindowCursors, CursorTypes DEF Brings, Goes
<1> QED
  BY <1>1, <1>3, <1>4, <1>5, WindowCursors DEF Fetched

LEMMA SplunkFetches ==
  ASSUME TypeOK, NEW w \in Readers, NEW c \in CursorSet, provider = "splunk", NEW s,
         SplunkPage(w, c)
  PROVE  Fetched(w, c, s)
<1> DEFINE snapshot == {r \in Readable("alerts", QueryOf(c)) :
                          Start(c) <= At[r] /\ At[r] <= End(c)}
           Runs(J) == [More(c) EXCEPT !.job = "running", !.rows = J]
<1>1. snapshot \in SUBSET Rows /\ c.rows \in SUBSET Rows
  BY DEF Readable, TypeOK, CursorSet
<1>2. c.offset \in Nat /\ \A n \in 0 .. Limit : n \in Nat
  BY SourceAssumption DEF CursorSet
<1>3. \/ \E n \in 0 .. Limit : SplunkRead(w, c, snapshot, 0, n)
      \/ \E n \in 0 .. Limit : SplunkRead(w, c, c.rows, c.offset, n)
      \/ Deliver(w, {}, Runs(snapshot), FALSE)
      \/ Deliver(w, {}, Runs(c.rows), FALSE)
  BY DEF SplunkPage
<1> HIDE DEF snapshot
<1>4. CASE \/ \E n \in 0 .. Limit : SplunkRead(w, c, snapshot, 0, n)
           \/ \E n \in 0 .. Limit : SplunkRead(w, c, c.rows, c.offset, n)
  BY <1>1, <1>2, <1>4, SplunkReads
<1>5. ASSUME NEW J \in SUBSET Rows, Deliver(w, {}, Runs(J), FALSE)
      PROVE  Fetched(w, c, s)
  <2>1. Runs(J) \in CursorSet /\ Runs(J).kind = KindOf(c)
    BY WindowCursors, JobCursor DEF SameWindow
  <2> HIDE DEF Runs
  <2>2. Brings(c, s, {}, Runs(J))
    BY <2>1, CursorTypes DEF Brings, Goes, Changes
  <2> QED
    BY <1>5, <2>1, <2>2 DEF Fetched
<1> HIDE DEF Runs
<1> QED
  BY <1>1, <1>3, <1>4, <1>5

LEMMA ElasticFetches ==
  ASSUME TypeOK, NEW w \in Readers, NEW c \in CursorSet, provider = "elastic", NEW s,
         ElasticPage(w, c)
  PROVE  Fetched(w, c, s)
<1> DEFINE hits == {r \in Readable("alerts", 2) : Since(c) <= At[r] /\ At[r] < Until(c)}
           next == [NoCursor EXCEPT !.kind = "v2", !.from = From(c)]
           more == [next EXCEPT !.kind = KindOf(c), !.more = TRUE, !.end = Until(c)]
<1>1. PICK p \in SUBSET hits :
        \/ \E last \in p :
             Deliver(w, p, [more EXCEPT !.start = Beyond(At[last], Since(c))], FALSE)
        \/ \E resume \in {Since(c), Back(clock)} :
             Deliver(w, p, [next EXCEPT !.start = resume], TRUE)
  BY DEF ElasticPage
<1>2. p \in SUBSET Rows
  BY DEF Readable, TypeOK
<1>3. clock \in Nat /\ c.start \in Nat /\ c.end \in Nat /\ Back(clock) \in Nat
  BY SourceAssumption DEF TypeOK, CursorSet, Back
<1>4. Since(c) \in Nat /\ Until(c) \in Nat
  BY <1>3 DEF Since, Until
<1>5. ~Changes
  BY DEF Changes
<1>6. CASE \E last \in p :
             Deliver(w, p, [more EXCEPT !.start = Beyond(At[last], Since(c))], FALSE)
  <2>1. PICK last \in p :
          Deliver(w, p, [more EXCEPT !.start = Beyond(At[last], Since(c))], FALSE)
    BY <1>6
  <2> DEFINE n == [more EXCEPT !.start = Beyond(At[last], Since(c))]
  <2>2. At[last] \in Nat
    BY <1>2, SourceAssumption
  <2>3. Beyond(At[last], Since(c)) \in Nat
    BY <1>4, <2>2 DEF Beyond
  <2>4. n \in CursorSet /\ n.kind = KindOf(c)
    BY <1>4, <2>3, CursorTypes DEF NoCursor, CursorSet
  <2>5. Deliver(w, p, n, FALSE)
    BY <2>1
  <2> HIDE DEF n
  <2>6. Brings(c, s, p, n)
    BY <1>2, <1>5, <2>4, CursorTypes DEF Brings, Goes
  <2> QED
    BY <1>2, <2>4, <2>5, <2>6 DEF Fetched
<1>7. CASE \E resume \in {Since(c), Back(clock)} :
             Deliver(w, p, [next EXCEPT !.start = resume], TRUE)
  <2>1. PICK resume \in Nat : Deliver(w, p, [next EXCEPT !.start = resume], TRUE)
    <3> HIDE DEF next
    <3> QED
      BY <1>3, <1>4, <1>7
  <2> DEFINE n == [next EXCEPT !.start = resume]
  <2>2. n \in CursorSet /\ n.kind = "v2"
    BY CursorTypes DEF NoCursor, CursorSet
  <2>3. Deliver(w, p, n, TRUE)
    BY <2>1
  <2> HIDE DEF n
  <2>4. Brings(c, s, p, n)
    BY <1>2, <1>5, <2>2 DEF Brings, Goes
  <2> QED
    BY <1>2, <2>2, <2>3, <2>4 DEF Fetched
<1> QED
  BY <1>1, <1>6, <1>7

LEMMA PageFetched ==
  ASSUME TypeOK, NEW w \in Readers, NEW c \in CursorSet, NEW s \in StreamsOf,
         FetchPage(w, c, s)
  PROVE  Fetched(w, c, s)
<1>1. provider = "graph" \/ s = "alerts"
  BY DEF StreamsOf
<1> QED
  BY <1>1, SentinelFetches, GraphFetches, SplunkFetches, ElasticFetches DEF FetchPage

LEMMA EventsCount ==
  ASSUME TypeOK, NEW w, NEW c, NEW s, FetchPage(w, c, s)
  PROVE  events' \in Nat
<1>1. events' = events \/ events' = events + 1
  BY DEF FetchPage, SentinelPage, SplunkPage, GraphPage, ElasticPage, Happens
<1> QED
  BY <1>1 DEF TypeOK

\* The page a reader then holds.
Holds(w, p, next) ==
  /\ hand' \in [Readers -> Pages]
  /\ \A v \in Readers \ {w} : hand'[v] = hand[v]
  /\ hand'[w].rows \subseteq p /\ hand'[w].next = next /\ hand'[w].strict = Strict(w)
  /\ provider = "splunk" /\ hand'[w].bad # {} => ~Strict(w)

LEMMA Delivered ==
  ASSUME TypeOK, NEW w \in Readers, NEW p \in SUBSET Rows, NEW next \in CursorSet,
         NEW complete \in BOOLEAN, Deliver(w, p, next, complete)
  PROVE  Holds(w, p, next)
<1> DEFINE page == [rows |-> p \ Unkeyed(p), bad |-> Unkeyed(p), next |-> next,
                    complete |-> complete, strict |-> Strict(w)]
<1>1. hand' = [hand EXCEPT ![w] = page] /\ ~Stuck(w, p)
  BY DEF Deliver
<1>2. Strict(w) \in BOOLEAN /\ Unkeyed(p) \in SUBSET Rows
  BY DEF Strict, Unkeyed
<1>3. page \in Pages /\ page.rows \subseteq p /\ page.next = next /\ page.strict = Strict(w)
      /\ page.bad = Unkeyed(p)
  BY <1>2 DEF Pages
<1>4. hand \in [Readers -> Pages]
  BY DEF TypeOK, Pages
<1>5. provider = "splunk" /\ Unkeyed(p) # {} => ~Strict(w)
  BY <1>1 DEF Stuck, Unkeyed
<1> HIDE DEF page
<1>6. hand' \in [Readers -> Pages] /\ hand'[w] = page /\ \A v \in Readers \ {w} : hand'[v] = hand[v]
  BY <1>1, <1>3, <1>4
<1> QED
  BY <1>3, <1>5, <1>6 DEF Holds

LEMMA PageHeld ==
  ASSUME TypeOK, NEW w \in Readers, NEW c, NEW s, Fetched(w, c, s)
  PROVE  \E p \in SUBSET Rows, next \in CursorSet : Holds(w, p, next) /\ Brings(c, s, p, next)
  BY Delivered, Zenon DEF Fetched

----------------------------------------------------------------------------
\* The types, and what the readers read.

Reading ==
  /\ \A w \in Readers : stream[w] \in StreamsOf
  /\ hand["live"].next.kind # "backfill"
Typed == TypeOK /\ Reading

LEMMA InitTyped == Init => Typed
<1> SUFFICES ASSUME Init PROVE Typed
  OBVIOUS
<1>1. provider \in Providers /\ clock \in Nat /\ shown \subseteq Rows /\ tardy \subseteq shown
  BY SourceAssumption DEF Init
<1>2. kept \subseteq Rows
  BY <1>1 DEF Init
<1>3. \A at \in 1 .. FirstClock, more \in BOOLEAN :
        OldCursor(at, more) \in CursorSet /\ OldCursor(at, more).kind = "v1"
  <2>1. \A at \in 1 .. FirstClock : at \in Nat
    BY SourceAssumption
  <2>2. FirstClock \in Nat
    BY SourceAssumption
  <2>3. ASSUME NEW at \in Nat, NEW more \in BOOLEAN
        PROVE  OldCursor(at, more) \in CursorSet /\ OldCursor(at, more).kind = "v1"
    <3>1. (IF more THEN at ELSE 0) \in Nat /\ (IF more THEN FirstClock ELSE at) \in Nat
      BY <2>2
    <3> QED
      BY <3>1 DEF OldCursor, NoCursor, CursorSet
  <2> QED
    BY <2>1, <2>3
<1>4. cursor \in [Streams -> {c \in CursorSet : c.kind # "backfill"}]
  BY <1>3, NoCursorType DEF Init
<1>5. ASSUME NEW e \in Records PROVE held[e] \in Rows \cup {0}
  <2>1. CASE \E r \in kept : RecordOf[r] = e
    BY <1>2, <2>1, LatestOfPage DEF Init
  <2>2. CASE ~ \E r \in kept : RecordOf[r] = e
    BY <2>2 DEF Init
  <2> QED
    BY <2>1, <2>2
<1>6. held \in [Records -> Rows \cup {0}]
  BY <1>5 DEF Init
<1>7. /\ phase \in [Readers -> {"wait", "fetch", "commit"}] /\ stream \in [Readers -> Streams]
      /\ \A w \in Readers : stream[w] \in StreamsOf
  BY DEF Init, StreamsOf, Streams
<1>8. hand \in [Readers -> Pages] /\ hand["live"].next.kind # "backfill"
  BY NoPageType, NoCursorType DEF Init, Readers
<1>9. aside \subseteq Rows /\ dbPaused \in BOOLEAN /\ query \in {1, 2} /\ up \in BOOLEAN
  BY DEF Init
<1>10. refill \in CursorSet /\ pages \in Nat /\ paused \in BOOLEAN /\ tolerant \in BOOLEAN
  BY NoCursorType DEF Init
<1>11. patch \in {"none", "paused", "running"} /\ refilled \subseteq Records
  BY DEF Init
<1>12. grants \in Nat /\ lax \in Nat /\ events \in Nat
  BY DEF Init
<1> QED
  BY <1>1, <1>2, <1>4, <1>6, <1>7, <1>8, <1>9, <1>10, <1>11, <1>12 DEF Typed, TypeOK, Reading, Pages

LEMMA ShowTyped == ASSUME Typed, NEW r \in Rows, Show(r) PROVE Typed'
  BY DEF Typed, TypeOK, Reading, Show, ledger, saved, reader, switch, ghosts, StreamsOf

LEMMA TickTyped == ASSUME Typed, Tick PROVE Typed'
<1>1. clock' \in Nat
  BY SourceAssumption DEF Typed, TypeOK, Tick
<1> QED
  BY <1>1 DEF Typed, TypeOK, Reading, Tick, ledger, saved, reader, switch, ghosts, StreamsOf

LEMMA LiveFetchTyped == ASSUME Typed, NEW s \in Streams, LiveFetch(s) PROVE Typed'
<1>1. s \in StreamsOf
  BY DEF Typed, Reading, LiveFetch, StreamsOf, Streams, Readers
<1>2. cursor[s] \in CursorSet /\ cursor[s].kind # "backfill"
  BY DEF Typed, TypeOK
<1>3. FetchPage("live", cursor[s], s) /\ "live" \in Readers
  BY DEF LiveFetch, Readers
<1>4. Fetched("live", cursor[s], s)
  BY <1>1, <1>2, <1>3, PageFetched DEF Typed
<1>5. hand' \in [Readers -> Pages] /\ hand'["live"].next.kind # "backfill"
  <2>1. PICK p \in SUBSET Rows, next \in CursorSet :
          Holds("live", p, next) /\ Brings(cursor[s], s, p, next)
    BY <1>3, <1>4, PageHeld DEF Typed
  <2> QED
    BY <1>2, <2>1 DEF Holds, Brings, Goes
<1>6. events' \in Nat
  BY <1>3, EventsCount DEF Typed
<1>7. /\ phase' \in [Readers -> {"wait", "fetch", "commit"}] /\ stream' \in [Readers -> Streams]
      /\ \A w \in Readers : stream'[w] \in StreamsOf
  BY <1>1 DEF Typed, TypeOK, Reading, LiveFetch
<1> QED
  BY <1>5, <1>6, <1>7
     DEF Typed, TypeOK, Reading, Pages, LiveFetch, source, ledger, saved, switch, ghosts, StreamsOf

LEMMA BackfillFetchTyped == ASSUME Typed, BackfillFetch PROVE Typed'
<1>1. refill \in CursorSet /\ "backfill" \in Readers /\ "live" \in Readers /\ "live" # "backfill"
  BY DEF Typed, TypeOK, Readers
<1>2. FetchPage("backfill", refill, stream["backfill"])
  BY DEF BackfillFetch
<1>3. stream["backfill"] \in StreamsOf
  BY <1>1 DEF Typed, Reading
<1>4. Fetched("backfill", refill, stream["backfill"])
  BY <1>1, <1>2, <1>3, PageFetched DEF Typed
<1>5. hand' \in [Readers -> Pages] /\ hand'["live"] = hand["live"]
  <2>1. PICK p \in SUBSET Rows, next \in CursorSet : Holds("backfill", p, next)
    BY <1>1, <1>4, PageHeld DEF Typed
  <2> QED
    BY <1>1, <2>1 DEF Holds
<1>6. events' \in Nat
  BY <1>2, EventsCount DEF Typed
<1>7. phase' \in [Readers -> {"wait", "fetch", "commit"}]
  BY DEF Typed, TypeOK, BackfillFetch
<1> QED
  BY <1>5, <1>6, <1>7
     DEF Typed, TypeOK, Reading, Pages, BackfillFetch, source, ledger, saved, switch, ghosts,
         StreamsOf

LEMMA SetAsideTyped == ASSUME Typed, NEW w \in Readers, SetAside(w) PROVE Typed'
<1>1. hand \in [Readers -> Pages]
  BY DEF Typed, TypeOK, Pages
<1>2. hand' = [hand EXCEPT ![w] = [hand[w] EXCEPT !.bad = {}]]
  BY <1>1 DEF SetAside, Pages
<1>3. [hand[w] EXCEPT !.bad = {}] \in Pages /\ [hand[w] EXCEPT !.bad = {}].next = hand[w].next
  BY <1>1 DEF Pages
<1>4. hand' \in [Readers -> Pages] /\ hand'["live"].next = hand["live"].next
  BY <1>1, <1>2, <1>3 DEF Readers
<1>5. aside' \subseteq Rows
  BY <1>1 DEF Typed, TypeOK, SetAside, Pages
<1> QED
  BY <1>4, <1>5 DEF Typed, TypeOK, Reading, Pages, SetAside, source, saved, switch, ghosts, StreamsOf

LEMMA LiveCommitTyped == ASSUME Typed, LiveCommit PROVE Typed'
<1>1. hand \in [Readers -> Pages] /\ hand["live"] \in Pages /\ stream["live"] \in Streams
  BY DEF Typed, TypeOK, Pages, Readers
<1>2. Store(hand["live"].rows)
  BY DEF LiveCommit
<1>3. kept' \subseteq Rows /\ held' \in [Records -> Rows \cup {0}]
  BY <1>1, <1>2, StoreTypes DEF Typed, TypeOK, Pages
<1>4. cursor' \in [Streams -> {c \in CursorSet : c.kind # "backfill"}]
  BY <1>1 DEF Typed, TypeOK, Reading, Pages, LiveCommit, Saved, SavedAlways
<1>5. tolerant' \in BOOLEAN /\ lax' \in Nat
  <2>1. tolerant \in BOOLEAN /\ lax \in Nat
    BY DEF Typed, TypeOK
  <2>2. tolerant' = FALSE \/ tolerant' = tolerant
    BY DEF LiveCommit, Tolerance
  <2>3. lax' = lax + 1 \/ lax' = lax
    BY DEF LiveCommit
  <2>4. tolerant' \in BOOLEAN
    BY <2>1, <2>2
  <2>5. lax' \in Nat
    BY <2>1, <2>3
  <2> QED
    BY <2>4, <2>5
<1>6. /\ phase' \in [Readers -> {"wait", "fetch", "commit"}] /\ stream' \in [Readers -> Streams]
      /\ \A w \in Readers : stream'[w] \in StreamsOf
  <2>1. /\ phase \in [Readers -> {"wait", "fetch", "commit"}] /\ stream \in [Readers -> Streams]
        /\ \A w \in Readers : stream[w] \in StreamsOf
    BY DEF Typed, TypeOK, Reading
  <2>2. CASE stream["live"] = "alerts" /\ "incidents" \in StreamsOf
    BY <2>1, <2>2 DEF LiveCommit, Streams
  <2>3. CASE ~(stream["live"] = "alerts" /\ "incidents" \in StreamsOf)
    BY <2>1, <2>3 DEF LiveCommit, Done
  <2> QED
    BY <2>2, <2>3
<1>7. hand' \in [Readers -> Pages] /\ hand'["live"].next.kind # "backfill"
  BY <1>1, NoPageType, NoCursorType DEF LiveCommit, Readers
<1> QED
  BY <1>3, <1>4, <1>5, <1>6, <1>7
     DEF Typed, TypeOK, Reading, Pages, LiveCommit, source, StreamsOf

LEMMA BackfillCommitTyped == ASSUME Typed, BackfillCommit PROVE Typed'
<1>1. hand \in [Readers -> Pages] /\ hand["backfill"] \in Pages
  BY DEF Typed, TypeOK, Pages, Readers
<1>2. Store(hand["backfill"].rows)
  BY DEF BackfillCommit
<1>3. kept' \subseteq Rows /\ held' \in [Records -> Rows \cup {0}]
  BY <1>1, <1>2, StoreTypes DEF Typed, TypeOK, Pages
<1>4. cursor' = cursor
  BY DEF BackfillCommit, Saved
<1>5. refilled' \subseteq Records
  <2>1. hand["backfill"].rows \subseteq Rows
    BY <1>1 DEF Pages
  <2> QED
    BY <2>1, SourceAssumption DEF Typed, TypeOK, BackfillCommit
<1>6. refill' \in CursorSet /\ pages' \in Nat
  BY <1>1, NoCursorType DEF Typed, TypeOK, Pages, BackfillCommit
<1>7. phase' \in [Readers -> {"wait", "fetch", "commit"}]
  BY DEF Typed, TypeOK, BackfillCommit, Done
<1>8. hand' \in [Readers -> Pages] /\ hand'["live"] = hand["live"]
  BY <1>1, NoPageType DEF BackfillCommit, Readers
<1> QED
  BY <1>3, <1>4, <1>5, <1>6, <1>7, <1>8
     DEF Typed, TypeOK, Reading, Pages, BackfillCommit, source, switch, StreamsOf

\* A live poll that ends without a commit, and a backfill.
LEMMA LiveEnds ==
  ASSUME Typed, phase' = Done("live"), hand' = [hand EXCEPT !["live"] = NoPage]
  PROVE  /\ phase' \in [Readers -> {"wait", "fetch", "commit"}]
         /\ hand' \in [Readers -> Pages] /\ hand'["live"] = NoPage
         /\ hand'["backfill"] = hand["backfill"]
  BY NoPageType DEF Typed, TypeOK, Pages, Done, Readers

LEMMA LiveFailsTyped == ASSUME Typed, LiveFails PROVE Typed'
<1>1. events' \in Nat
  BY DEF Typed, TypeOK, LiveFails, Happens
<1>2. /\ phase' \in [Readers -> {"wait", "fetch", "commit"}]
      /\ hand' \in [Readers -> Pages] /\ hand'["live"].next.kind # "backfill"
  BY LiveEnds, NoPageType, NoCursorType DEF LiveFails
<1> QED
  BY <1>1, <1>2
     DEF Typed, TypeOK, Reading, Pages, LiveFails, source, ledger, saved, switch, ghosts, StreamsOf

LEMMA BackfillFailsTyped == ASSUME Typed, BackfillFails PROVE Typed'
<1>1. /\ phase' \in [Readers -> {"wait", "fetch", "commit"}]
      /\ hand' \in [Readers -> Pages] /\ hand'["live"] = hand["live"]
  BY NoPageType DEF Typed, TypeOK, Pages, BackfillFails, Done, Readers
<1>2. refill' \in CursorSet
  BY NoCursorType DEF BackfillFails
<1> QED
  BY <1>1, <1>2
     DEF Typed, TypeOK, Reading, Pages, BackfillFails, source, ledger, saved, switch, ghosts,
         StreamsOf

LEMMA SetPauseTyped == ASSUME Typed, NEW b \in BOOLEAN, SetPause(b) PROVE Typed'
<1>1. events' \in Nat
  BY DEF Typed, TypeOK, SetPause, Happens
<1> QED
  BY <1>1 DEF Typed, TypeOK, Reading, SetPause, source, ledger, reader, ghosts, StreamsOf

LEMMA AllowTyped == ASSUME Typed, AllowBadRowsOnce PROVE Typed'
  BY DEF Typed, TypeOK, Reading, AllowBadRowsOnce, Happens, source, ledger, saved, reader, StreamsOf

LEMMA PatchReadsTyped == ASSUME Typed, PatchReads PROVE Typed'
  BY DEF Typed, TypeOK, Reading, PatchReads, Happens, source, ledger, saved, reader, ghosts, StreamsOf

LEMMA PatchAppliesTyped == ASSUME Typed, PatchApplies PROVE Typed'
<1>1. /\ phase' \in [Readers -> {"wait", "fetch", "commit"}]
      /\ hand' \in [Readers -> Pages] /\ hand'["live"].next.kind # "backfill"
  BY LiveEnds, NoPageType, NoCursorType DEF PatchApplies, NewWorker
<1>2. query' \in {1, 2} /\ tolerant' \in BOOLEAN /\ paused' \in BOOLEAN /\ patch' = "none"
  BY DEF PatchApplies, NewWorker
<1> QED
  BY <1>1, <1>2
     DEF Typed, TypeOK, Reading, Pages, PatchApplies, source, ledger, ghosts, StreamsOf

LEMMA ConfirmTyped == ASSUME Typed, NEW from \in Nat, Confirm(from) PROVE Typed'
<1>1. Back(from) \in Nat
  BY SourceAssumption DEF Back
<1>2. ConfirmedCursor(from) \in CursorSet /\ ConfirmedCursor(from).kind = "v2"
  BY <1>1 DEF ConfirmedCursor, NoCursor, CursorSet, Typed, TypeOK
<1>3. cursor' \in [Streams -> {c \in CursorSet : c.kind # "backfill"}]
  BY <1>2 DEF Confirm, Typed, TypeOK
<1> QED
  BY <1>3
     DEF Typed, TypeOK, Reading, Confirm, Happens, source, ledger, reader, switch, ghosts, StreamsOf

LEMMA BackfillTyped ==
  ASSUME Typed, NEW s \in Streams, NEW from \in Nat, NEW to \in Nat, Backfill(s, from, to)
  PROVE  Typed'
<1>1. refill' \in CursorSet /\ pages' \in Nat
  BY DEF Backfill, BackfillCursor, NoCursor, CursorSet, Typed, TypeOK
<1>2. /\ phase' \in [Readers -> {"wait", "fetch", "commit"}] /\ stream' \in [Readers -> Streams]
      /\ \A w \in Readers : stream'[w] \in StreamsOf
  BY DEF Backfill, Typed, TypeOK, Reading
<1> QED
  BY <1>1, <1>2
     DEF Typed, TypeOK, Reading, Backfill, Happens, source, ledger, saved, switch, ghosts, StreamsOf

LEMMA StopTyped == ASSUME Typed, Stop PROVE Typed'
<1>1. /\ phase' \in [Readers -> {"wait", "fetch", "commit"}] /\ stream' \in [Readers -> Streams]
      /\ \A w \in Readers : stream'[w] \in StreamsOf
  BY DEF Stop, Quiet, StreamsOf, Streams
<1>2. hand' \in [Readers -> Pages] /\ hand'["live"].next.kind # "backfill"
  BY NoPageType, NoCursorType DEF Stop, Quiet, Readers
<1>3. refill' \in CursorSet /\ pages' \in Nat
  BY NoCursorType DEF Stop, Quiet
<1>4. events' \in Nat
  BY DEF Stop, Happens, Typed, TypeOK
<1>5. tolerant' \in BOOLEAN /\ up' \in BOOLEAN /\ patch' = "none"
  BY DEF Stop
<1> QED
  BY <1>1, <1>2, <1>3, <1>4, <1>5
     DEF Typed, TypeOK, Reading, Pages, Stop, source, ledger, saved, ghosts, StreamsOf

LEMMA BeginTyped == ASSUME Typed, Begin PROVE Typed'
  BY DEF Typed, TypeOK, Reading, Begin, source, ledger, saved, reader, ghosts, StreamsOf

LEMMA StepTyped == Typed /\ [Next]_vars => Typed'
<1> SUFFICES ASSUME Typed, [Next]_vars PROVE Typed'
  OBVIOUS
<1>1. "live" \in Readers /\ "backfill" \in Readers /\ 0 .. clock \subseteq Nat
  BY DEF Readers, Typed, TypeOK
<1>2. ASSUME NEW r \in Rows, Show(r) PROVE Typed'
  BY <1>2, ShowTyped
<1>3. CASE Tick
  BY <1>3, TickTyped
<1>4. CASE Live \/ LiveFails
  BY <1>1, <1>4, LiveFetchTyped, SetAsideTyped, LiveCommitTyped, LiveFailsTyped DEF Live
<1>5. CASE Refilling \/ BackfillFails
  BY <1>1, <1>5, BackfillFetchTyped, SetAsideTyped, BackfillCommitTyped, BackfillFailsTyped
     DEF Refilling
<1>6. ASSUME NEW b \in BOOLEAN, SetPause(b) PROVE Typed'
  BY <1>6, SetPauseTyped
<1>7. CASE AllowBadRowsOnce \/ PatchReads \/ PatchApplies
  BY <1>7, AllowTyped, PatchReadsTyped, PatchAppliesTyped
<1>8. ASSUME NEW from \in 0 .. clock, Confirm(from) PROVE Typed'
  BY <1>1, <1>8, ConfirmTyped
<1>9. ASSUME NEW s \in Streams, NEW from \in 0 .. clock, NEW to \in 0 .. clock,
             Backfill(s, from, to)
      PROVE  Typed'
  BY <1>1, <1>9, BackfillTyped
<1>10. CASE Stop \/ Begin
  BY <1>10, StopTyped, BeginTyped
<1>11. CASE UNCHANGED vars
  BY <1>11
     DEF Typed, TypeOK, Reading, vars, source, ledger, saved, reader, switch, ghosts, StreamsOf
<1> QED
  BY <1>2, <1>3, <1>4, <1>5, <1>6, <1>7, <1>8, <1>9, <1>10, <1>11 DEF Next

LEMMA AlwaysTyped == Spec => []Typed
  BY InitTyped, StepTyped, PTL DEF Spec

\* The source, its records and cursors, and the readers' pages keep their
\* types through fetches, failures, requests and restarts.
THEOREM SourceTypeCorrect == Spec => []TypeOK
<1>1. Typed => TypeOK
  BY DEF Typed
<1> QED
  BY <1>1, AlwaysTyped, PTL

----------------------------------------------------------------------------
\* One window for each decision to tolerate bad rows.

\* A decision is spent when the window it covers drains; while it is open, or a
\* page read under it is in hand, one more window than lax may drain.
Decided ==
  /\ lax <= grants
  /\ tolerant \/ ~hand["live"].strict => lax + 1 <= grants
  /\ hand["backfill"].strict
  /\ provider = "splunk" /\ grants = 0 =>
       aside = {} /\ hand["live"].bad = {} /\ hand["backfill"].bad = {}

LEMMA InitDecided == Init => Decided
  BY NoPageType DEF Init, Decided, Readers

\* Steps that put no page in a reader's hand and decide nothing.
LEMMA QuietDecided ==
  ASSUME Decided, UNCHANGED <<provider, aside, grants, lax>>,
         tolerant' = tolerant \/ tolerant' = FALSE,
         hand'["live"] = hand["live"] \/ hand'["live"] = NoPage,
         hand'["backfill"] = hand["backfill"] \/ hand'["backfill"] = NoPage
  PROVE  Decided'
<1>1. lax' <= grants' /\ hand'["backfill"].strict
  BY NoPageType DEF Decided
<1>2. tolerant' \/ ~hand'["live"].strict => tolerant \/ ~hand["live"].strict
  BY NoPageType
<1>3. tolerant' \/ ~hand'["live"].strict => lax' + 1 <= grants'
  BY <1>2 DEF Decided
<1>4. provider' = "splunk" /\ grants' = 0 =>
        aside' = {} /\ hand'["live"].bad = {} /\ hand'["backfill"].bad = {}
  BY NoPageType DEF Decided
<1> QED
  BY <1>1, <1>3, <1>4 DEF Decided

LEMMA LiveFetchDecided == ASSUME Typed, Decided, NEW s \in Streams, LiveFetch(s) PROVE Decided'
<1>1. s \in StreamsOf /\ "live" \in Readers /\ "backfill" \in Readers \ {"live"}
  BY DEF Typed, Reading, LiveFetch, StreamsOf, Streams, Readers
<1>2. Fetched("live", cursor[s], s)
  BY <1>1, PageFetched DEF Typed, TypeOK, LiveFetch
<1>3. PICK p \in SUBSET Rows, next \in CursorSet : Holds("live", p, next)
  BY <1>1, <1>2, PageHeld DEF Typed
<1>4. /\ hand'["backfill"] = hand["backfill"] /\ hand'["live"].strict = Strict("live")
      /\ provider = "splunk" /\ hand'["live"].bad # {} => ~Strict("live")
  BY <1>1, <1>3 DEF Holds
<1>5. UNCHANGED <<provider, aside, grants, lax, tolerant>>
  BY DEF LiveFetch, source, ledger, switch, ghosts
<1>6. ~hand'["live"].strict => tolerant
  BY <1>4 DEF Strict
<1>7. provider = "splunk" /\ hand'["live"].bad # {} => tolerant
  BY <1>4 DEF Strict
<1>8. tolerant' \/ ~hand'["live"].strict => lax' + 1 <= grants'
  BY <1>5, <1>6 DEF Decided
<1>9. provider = "splunk" /\ grants = 0 => hand'["live"].bad = {}
  <2>1. tolerant => grants # 0
    BY DEF Decided, Typed, TypeOK
  <2> QED
    BY <1>7, <2>1
<1>10. provider = "splunk" /\ grants = 0 => aside = {} /\ hand["backfill"].bad = {}
  BY DEF Decided
<1>11. lax' <= grants' /\ hand'["backfill"].strict
  BY <1>4, <1>5 DEF Decided
<1> QED
  BY <1>4, <1>5, <1>8, <1>9, <1>10, <1>11 DEF Decided

LEMMA BackfillFetchDecided == ASSUME Typed, Decided, BackfillFetch PROVE Decided'
<1>1. "backfill" \in Readers /\ "live" \in Readers \ {"backfill"}
  BY DEF Readers
<1>2. Fetched("backfill", refill, stream["backfill"])
  BY <1>1, PageFetched DEF Typed, TypeOK, Reading, BackfillFetch
<1>3. PICK p \in SUBSET Rows, next \in CursorSet : Holds("backfill", p, next)
  BY <1>1, <1>2, PageHeld DEF Typed
<1>4. Strict("backfill")
  BY DEF Strict
<1>5. /\ hand'["live"] = hand["live"] /\ hand'["backfill"].strict
      /\ provider = "splunk" => hand'["backfill"].bad = {}
  BY <1>1, <1>3, <1>4 DEF Holds
<1>6. UNCHANGED <<provider, aside, grants, lax, tolerant>>
  BY DEF BackfillFetch, source, ledger, switch, ghosts
<1> QED
  BY <1>5, <1>6 DEF Decided

LEMMA SetAsideDecided == ASSUME Typed, Decided, NEW w \in Readers, SetAside(w) PROVE Decided'
<1>1. hand \in [Readers -> Pages]
  BY DEF Typed, TypeOK, Pages
<1>2. hand' = [hand EXCEPT ![w] = [hand[w] EXCEPT !.bad = {}]] /\ hand[w].bad # {}
  BY <1>1 DEF SetAside, Pages
<1>3. [hand[w] EXCEPT !.bad = {}].strict = hand[w].strict /\ w \in {"live", "backfill"}
  BY <1>1 DEF Pages, Readers
<1>4. hand'["live"].strict = hand["live"].strict /\ hand'["backfill"].strict = hand["backfill"].strict
  BY <1>1, <1>2, <1>3 DEF Readers
<1>5. UNCHANGED <<provider, grants, lax, tolerant>>
  BY DEF SetAside, source, switch, ghosts
<1>6. ~(provider = "splunk" /\ grants = 0)
  BY <1>2, <1>3 DEF Decided
<1> QED
  BY <1>4, <1>5, <1>6 DEF Decided

LEMMA LiveCommitDecided == ASSUME Typed, Decided, LiveCommit PROVE Decided'
<1>1. hand \in [Readers -> Pages] /\ hand' = [hand EXCEPT !["live"] = NoPage]
  BY DEF Typed, TypeOK, Pages, LiveCommit
<1>2. hand'["live"] = NoPage /\ hand'["backfill"] = hand["backfill"]
  BY <1>1 DEF Readers
<1>3. UNCHANGED <<provider, aside, grants>>
  BY DEF LiveCommit, source
<1>4. lax \in Nat /\ grants \in Nat
  BY DEF Typed, TypeOK
<1>5. CASE hand["live"].complete
  <2>1. tolerant' = FALSE
    BY <1>5 DEF LiveCommit, Tolerance
  <2>2. lax' <= grants
    BY <1>4, <1>5 DEF LiveCommit, Decided
  <2> QED
    BY <1>2, <1>3, <2>1, <2>2, NoPageType DEF Decided
<1>6. CASE ~hand["live"].complete
  <2>1. tolerant' = tolerant
    BY <1>6 DEF LiveCommit, Tolerance
  <2>2. lax' = lax
    BY <1>6 DEF LiveCommit
  <2> QED
    BY <1>2, <1>3, <2>1, <2>2, QuietDecided
<1> QED
  BY <1>5, <1>6

LEMMA AllowDecided == ASSUME Typed, Decided, AllowBadRowsOnce PROVE Decided'
<1>1. UNCHANGED <<provider, aside, hand, lax>> /\ grants' = grants + 1
  BY DEF AllowBadRowsOnce, source, ledger, reader
<1>2. grants \in Nat /\ lax \in Nat
  BY DEF Typed, TypeOK
<1> QED
  BY <1>1, <1>2 DEF Decided

LEMMA StepDecided == Typed /\ Decided /\ [Next]_vars => Decided'
<1> SUFFICES ASSUME Typed, Decided, [Next]_vars PROVE Decided'
  OBVIOUS
<1>1. hand \in [Readers -> Pages] /\ "live" \in Readers /\ "backfill" \in Readers
  BY DEF Typed, TypeOK, Pages, Readers
<1>2. CASE \/ \E r \in Rows : Show(r)
           \/ \E b \in BOOLEAN : SetPause(b)
           \/ \E from \in 0 .. clock : Confirm(from)
           \/ \E s \in Streams, from, to \in 0 .. clock : Backfill(s, from, to)
           \/ Tick \/ PatchReads \/ Begin \/ UNCHANGED vars
  <2>1. UNCHANGED <<provider, aside, grants, lax, tolerant, hand>>
    BY <1>2 DEF Show, SetPause, Confirm, Backfill, Tick, PatchReads, Begin, vars, source, ledger,
                reader, switch, ghosts
  <2> QED
    BY <2>1, QuietDecided
<1>3. CASE LiveFails \/ BackfillFails \/ PatchApplies \/ BackfillCommit
  <2>1. UNCHANGED <<provider, aside, grants, lax>> /\ (tolerant' = tolerant \/ tolerant' = FALSE)
    BY <1>3 DEF LiveFails, BackfillFails, PatchApplies, NewWorker, BackfillCommit, source, ledger,
                switch, ghosts
  <2>2. \E w \in Readers : hand' = [hand EXCEPT ![w] = NoPage]
    BY <1>1, <1>3 DEF LiveFails, BackfillFails, PatchApplies, NewWorker, BackfillCommit
  <2>3. \A v \in Readers : hand'[v] = hand[v] \/ hand'[v] = NoPage
    BY <1>1, <2>2
  <2> QED
    BY <1>1, <2>1, <2>3, QuietDecided
<1>4. CASE Stop
  <2>1. UNCHANGED <<provider, aside, grants, lax>> /\ tolerant' = FALSE
    BY <1>4 DEF Stop, source, ledger, ghosts
  <2>2. hand'["live"] = NoPage /\ hand'["backfill"] = NoPage
    BY <1>1, <1>4 DEF Stop, Quiet
  <2> QED
    BY <2>1, <2>2, QuietDecided
<1>5. CASE Live
  BY <1>1, <1>5, LiveFetchDecided, SetAsideDecided, LiveCommitDecided DEF Live
<1>6. CASE BackfillFetch \/ SetAside("backfill")
  BY <1>1, <1>6, BackfillFetchDecided, SetAsideDecided
<1>7. CASE AllowBadRowsOnce
  BY <1>7, AllowDecided
<1> QED
  BY <1>2, <1>3, <1>4, <1>5, <1>6, <1>7 DEF Next, Refilling

\* Each decision of an administrator to tolerate bad rows covers one window,
\* however polls, failures, changes of the source and restarts come between.
THEOREM ToleranceCoversOneWindow == Spec => []OneWindowPerDecision
<1>1. Decided => OneWindowPerDecision
  BY DEF Decided, OneWindowPerDecision
<1> QED
  BY <1>1, InitDecided, StepDecided, AlwaysTyped, PTL DEF Spec

----------------------------------------------------------------------------
\* No older version of a record comes back.

\* A window up to t of the stream s ends after every row kept of it, but for the
\* records a backfill has brought.
Own(q) == RecordOf[q] \notin refilled
Past(s, t) == t <= clock /\ \A q \in kept : Own(q) /\ StreamOf(q) = s => At[q] < t

\* A row in hand is the newest of its record among the rows kept.
NewInHand(r) ==
  /\ r \in shown /\ StreamOf(r) = stream["live"]
  /\ hand["live"].next.end <= clock /\ At[r] < hand["live"].next.end
  /\ \A q \in kept : Own(q) /\ RecordOf[q] = RecordOf[r] => q <= r

KeptInOrder == \A q \in kept : q \in shown /\ (Own(q) => At[q] < clock /\ q <= held[RecordOf[q]])
CursorsPast == \A s \in StreamsOf : cursor[s].more => Past(s, cursor[s].end)
HandInOrder ==
  /\ hand["live"].next.more => Past(stream["live"], hand["live"].next.end)
  /\ \A r \in hand["live"].rows : NewInHand(r)
  /\ hand["backfill"].rows \subseteq shown
Newer == Changes => KeptInOrder /\ CursorsPast /\ HandInOrder

LEMMA InitNewer == Init => Newer
<1> SUFFICES ASSUME Init PROVE Newer
  OBVIOUS
<1>1. clock = FirstClock /\ FirstClock \in Nat /\ refilled = {}
  BY SourceAssumption DEF Init
<1>2. shown \subseteq Rows /\ kept \subseteq shown
  BY DEF Init
<1>3. ASSUME NEW q \in kept PROVE At[q] < FirstClock /\ q <= held[RecordOf[q]]
  <2>1. q \in Rows /\ RecordOf[q] \in Records /\ At[q] < FirstClock
    BY <1>2, SourceAssumption DEF Init
  <2>2. kept \in SUBSET Rows /\ \E r \in kept : RecordOf[r] = RecordOf[q]
    BY <1>2
  <2> DEFINE e == RecordOf[q]
             newest == CHOOSE r \in kept : RecordOf[r] = e
                                           /\ \A x \in kept : RecordOf[x] = e => x <= r
  <2>3. held[e] = newest
    BY <2>1, <2>2 DEF Init
  <2>4. q <= newest
    BY <2>1, <2>2, LatestOfPage
  <2> QED
    BY <2>1, <2>3, <2>4
<1>4. ASSUME NEW s \in Streams PROVE ~cursor[s].more \/ cursor[s].end = FirstClock
  <2>1. CASE cursor = [x \in Streams |-> NoCursor]
    BY <2>1 DEF NoCursor
  <2>2. CASE \E at \in 1 .. FirstClock, more \in BOOLEAN :
               cursor = [x \in Streams |-> OldCursor(at, more)]
    <3>1. PICK at \in 1 .. FirstClock, more \in BOOLEAN :
                 cursor = [x \in Streams |-> OldCursor(at, more)]
      BY <2>2
    <3>2. cursor[s] = OldCursor(at, more)
      BY <3>1
    <3>3. CASE more = TRUE
      BY <3>2, <3>3 DEF OldCursor, NoCursor
    <3>4. CASE more = FALSE
      BY <3>2, <3>4 DEF OldCursor, NoCursor
    <3> QED
      BY <3>3, <3>4
  <2> QED
    BY <2>1, <2>2 DEF Init
<1>5. \A s \in StreamsOf : s \in Streams
  BY DEF StreamsOf, Streams
<1>6. KeptInOrder
  BY <1>1, <1>2, <1>3 DEF KeptInOrder
<1>7. CursorsPast
  BY <1>1, <1>3, <1>4, <1>5 DEF CursorsPast, Past
<1>8. HandInOrder
  BY NoPageType, NoCursorType DEF Init, HandInOrder, Readers
<1> QED
  BY <1>6, <1>7, <1>8 DEF Newer

\* Steps that store nothing and put no page in a reader's hand.
LEMMA QuietNewer ==
  ASSUME Typed, Newer, UNCHANGED <<provider, kept, held, refilled>>, shown \subseteq shown',
         clock' \in Nat, clock <= clock',
         \A s \in Streams : cursor'[s] = cursor[s] \/ ~cursor'[s].more,
         \/ hand'["live"] = NoPage
         \/ /\ hand'["live"].rows = hand["live"].rows /\ hand'["live"].next = hand["live"].next
            /\ stream'["live"] = stream["live"],
         hand'["backfill"].rows \subseteq hand["backfill"].rows
  PROVE  Newer'
<1> SUFFICES ASSUME Changes PROVE (KeptInOrder /\ CursorsPast /\ HandInOrder)'
  BY DEF Newer, Changes
<1>1. KeptInOrder /\ CursorsPast /\ HandInOrder
  BY DEF Newer
<1>2. clock \in Nat /\ kept \subseteq Rows /\ \A r \in Rows : At[r] \in Nat
  BY SourceAssumption DEF Typed, TypeOK
<1>3. KeptInOrder'
  BY <1>1, <1>2 DEF KeptInOrder, Own
<1>4. ASSUME NEW s, NEW t \in Nat, Past(s, t) PROVE Past(s, t)'
  BY <1>2, <1>4 DEF Past, Own, StreamOf
<1>5. CursorsPast'
  <2> SUFFICES ASSUME NEW s \in StreamsOf, cursor'[s].more PROVE Past(s, cursor[s].end)'
    BY DEF CursorsPast, StreamsOf
  <2>1. s \in Streams /\ cursor[s].end \in Nat
    BY DEF StreamsOf, Streams, Typed, TypeOK, CursorSet
  <2>2. cursor'[s] = cursor[s] /\ Past(s, cursor[s].end)
    BY <1>1, <2>1 DEF CursorsPast
  <2>3. Past(s, cursor[s].end)'
    <3> DEFINE t == cursor[s].end
    <3>1. Past(s, t) /\ t \in Nat /\ t = cursor'[s].end
      BY <2>1, <2>2
    <3> HIDE DEF t
    <3>2. t <= clock /\ \A q \in kept : Own(q) /\ StreamOf(q) = s => At[q] < t
      BY <3>1 DEF Past
    <3>3. t <= clock' /\ \A q \in kept' : Own(q)' /\ StreamOf(q)' = s => At[q] < t
      BY <1>2, <3>1, <3>2 DEF Own, StreamOf
    <3> QED
      BY <3>1, <3>3, <2>2 DEF Past
  <2> QED
    BY <2>2, <2>3 DEF Past
<1>6. CASE hand'["live"] = NoPage
  <2>1. hand'["live"].rows = {} /\ ~hand'["live"].next.more
    BY <1>6 DEF NoPage, NoCursor
  <2>2. hand'["backfill"].rows \subseteq shown'
    BY <1>1 DEF HandInOrder
  <2>3. (hand["live"].next.more => Past(stream["live"], hand["live"].next.end))'
    BY <2>1
  <2>4. (\A r \in hand["live"].rows : NewInHand(r))'
    BY <2>1
  <2> QED
    BY <1>3, <1>5, <2>2, <2>3, <2>4 DEF HandInOrder
<1>7. CASE /\ hand'["live"].rows = hand["live"].rows /\ hand'["live"].next = hand["live"].next
           /\ stream'["live"] = stream["live"]
  <2>1. hand["live"].next.end \in Nat
    BY DEF Typed, TypeOK, Readers, CursorSet
  <2>2. hand'["live"].next.more => Past(stream["live"], hand["live"].next.end)
    BY <1>1, <1>7 DEF HandInOrder
  <2>3. (hand["live"].next.more => Past(stream["live"], hand["live"].next.end))'
    BY <1>2, <1>7, <2>1, <2>2 DEF Past, Own, StreamOf
  <2>4. ASSUME NEW r \in hand["live"].rows PROVE NewInHand(r)'
    <3>1. NewInHand(r) /\ r \in Rows
      BY <1>1 DEF HandInOrder, Typed, TypeOK, Readers
    <3> QED
      BY <1>2, <1>7, <2>1, <3>1 DEF NewInHand, Own, StreamOf
  <2>5. hand'["backfill"].rows \subseteq shown'
    BY <1>1 DEF HandInOrder
  <2>6. (\A r \in hand["live"].rows : NewInHand(r))'
    BY <1>7, <2>4
  <2> QED
    BY <1>3, <1>5, <2>3, <2>5, <2>6 DEF HandInOrder
<1> QED
  BY <1>3, <1>5, <1>6, <1>7

\* A window fetched now ends after every row kept of its stream.
LEMMA WindowPast ==
  ASSUME Typed, Newer, Changes, NEW s \in StreamsOf
  PROVE  Past(s, End(cursor[s])) /\ End(cursor[s]) \in Nat
<1>1. cursor[s] \in CursorSet
  BY DEF StreamsOf, Streams, Typed, TypeOK
<1>2. clock \in Nat /\ End(cursor[s]) \in Nat
  BY <1>1, CursorTypes DEF Typed, TypeOK
<1>3. CASE cursor[s].more
  <2>1. Past(s, cursor[s].end)
    BY <1>3 DEF Newer, CursorsPast
  <2>2. End(cursor[s]) = cursor[s].end
    BY <1>3 DEF End
  <2> QED
    BY <1>2, <2>1, <2>2
<1>4. CASE ~cursor[s].more
  BY <1>2, <1>4 DEF Newer, KeptInOrder, Past, End
<1> QED
  BY <1>2, <1>3, <1>4

LEMMA LiveFetchNewer == ASSUME Typed, Newer, NEW s \in Streams, LiveFetch(s) PROVE Newer'
<1> SUFFICES ASSUME Changes PROVE (KeptInOrder /\ CursorsPast /\ HandInOrder)'
  BY DEF Newer, Changes, LiveFetch, source
<1>1. s \in StreamsOf /\ "live" \in Readers /\ "backfill" \in Readers \ {"live"}
  BY DEF Typed, Reading, LiveFetch, StreamsOf, Streams, Readers
<1>2. Fetched("live", cursor[s], s)
  BY <1>1, PageFetched DEF Typed, TypeOK, LiveFetch
<1>3. PICK p \in SUBSET Rows, next \in CursorSet :
        Holds("live", p, next) /\ Brings(cursor[s], s, p, next)
  BY <1>1, <1>2, PageHeld DEF Typed
<1>4. /\ hand'["backfill"] = hand["backfill"]
      /\ hand'["live"].rows \subseteq p /\ hand'["live"].next = next
  BY <1>1, <1>3 DEF Holds
<1>5. next.end = End(cursor[s]) /\ \A r \in p : Fresh(r, cursor[s], s)
  BY <1>3 DEF Brings
<1>6. /\ UNCHANGED <<provider, clock, shown, kept, held, cursor, refilled>>
      /\ stream'["live"] = s
  BY DEF LiveFetch, source, ledger, saved, ghosts, Typed, TypeOK, Readers
<1>7. Past(s, next.end)
  BY <1>1, <1>5, WindowPast
<1>8. KeptInOrder' /\ CursorsPast'
  BY <1>6 DEF Newer, KeptInOrder, CursorsPast, Past, Own, StreamOf, StreamsOf
<1>9. Past(stream["live"], hand["live"].next.end)'
  BY <1>4, <1>6, <1>7 DEF Past, Own, StreamOf
<1>10. ASSUME NEW r \in hand'["live"].rows PROVE NewInHand(r)'
  <2>1. /\ r \in shown /\ StreamOf(r) = s /\ At[r] < next.end
        /\ \A q \in shown : RecordOf[q] = RecordOf[r] /\ At[q] < next.end => q <= r
    BY <1>4, <1>5 DEF Fresh
  <2>2. ASSUME NEW q \in kept, Own(q), RecordOf[q] = RecordOf[r] PROVE q <= r
    <3>1. q \in shown /\ q \in Rows /\ r \in Rows
      BY <2>1 DEF Newer, KeptInOrder, Typed, TypeOK
    <3>2. StreamOf(q) = s
      BY <2>1, <2>2, <3>1, SourceAssumption DEF StreamOf
    <3>3. At[q] < next.end
      BY <1>7, <2>2, <3>2 DEF Past
    <3> QED
      BY <2>1, <2>2, <3>1, <3>3
  <2> QED
    BY <1>4, <1>6, <1>7, <2>1, <2>2 DEF NewInHand, Past, Own, StreamOf
<1>11. hand'["backfill"].rows \subseteq shown'
  BY <1>4, <1>6 DEF Newer, HandInOrder
<1> QED
  BY <1>8, <1>9, <1>10, <1>11 DEF HandInOrder

LEMMA BackfillFetchNewer == ASSUME Typed, Newer, BackfillFetch PROVE Newer'
<1> SUFFICES ASSUME Changes PROVE (KeptInOrder /\ CursorsPast /\ HandInOrder)'
  BY DEF Newer, Changes, BackfillFetch, source
<1>1. "backfill" \in Readers /\ "live" \in Readers \ {"backfill"}
  BY DEF Readers
<1>2. Fetched("backfill", refill, stream["backfill"])
  BY <1>1, PageFetched DEF Typed, TypeOK, Reading, BackfillFetch
<1>3. PICK p \in SUBSET Rows, next \in CursorSet :
        Holds("backfill", p, next) /\ Brings(refill, stream["backfill"], p, next)
  BY <1>1, <1>2, PageHeld DEF Typed
<1>4. hand'["live"] = hand["live"] /\ hand'["backfill"].rows \subseteq shown
  BY <1>1, <1>3 DEF Holds, Brings, Fresh
<1>5. UNCHANGED <<provider, clock, shown, kept, held, cursor, refilled, stream>>
  BY DEF BackfillFetch, source, ledger, saved, ghosts
<1>6. KeptInOrder' /\ CursorsPast'
  BY <1>5 DEF Newer, KeptInOrder, CursorsPast, Past, Own, StreamOf, StreamsOf
<1>7. HandInOrder'
  BY <1>4, <1>5 DEF Newer, HandInOrder, NewInHand, Past, Own, StreamOf
<1> QED
  BY <1>6, <1>7

\* The latest revisions after a page was stored.
LEMMA StoreHolds ==
  ASSUME NEW p \in SUBSET Rows, Store(p), NEW e \in Records
  PROVE  /\ \A r \in p : RecordOf[r] = e =>
              held'[e] \in p /\ RecordOf[held'[e]] = e /\ r <= held'[e]
         /\ (\A r \in p : RecordOf[r] # e) => held'[e] = held[e]
<1>1. CASE \E r \in p : RecordOf[r] = e
  <2>1. held'[e] = CHOOSE r \in p : RecordOf[r] = e /\ \A q \in p : RecordOf[q] = e => q <= r
    BY <1>1 DEF Store
  <2> DEFINE top == CHOOSE r \in p : RecordOf[r] = e /\ \A q \in p : RecordOf[q] = e => q <= r
  <2>2. top \in p /\ RecordOf[top] = e /\ \A q \in p : RecordOf[q] = e => q <= top
    BY <1>1, LatestOfPage
  <2>3. held'[e] = top
    BY <2>1
  <2> HIDE DEF top
  <2> QED
    BY <1>1, <2>2, <2>3
<1>2. CASE ~ \E r \in p : RecordOf[r] = e
  BY <1>2 DEF Store
<1> QED
  BY <1>1, <1>2

LEMMA LiveCommitNewer == ASSUME Typed, Newer, LiveCommit PROVE Newer'
<1> SUFFICES ASSUME Changes PROVE (KeptInOrder /\ CursorsPast /\ HandInOrder)'
  BY DEF Newer, Changes, LiveCommit, source
<1> DEFINE p == hand["live"].rows
           s == stream["live"]
           t == hand["live"].next.end
<1>1. KeptInOrder /\ CursorsPast /\ HandInOrder
  BY DEF Newer
<1>2. /\ p \in SUBSET Rows /\ s \in StreamsOf /\ s \in Streams /\ t \in Nat /\ clock \in Nat
      /\ kept \subseteq Rows /\ held \in [Records -> Rows \cup {0}]
  BY DEF Typed, TypeOK, Reading, Readers, CursorSet
<1>3. Store(p) /\ kept' = kept \cup p
  BY DEF LiveCommit, Store
<1>4. UNCHANGED <<provider, clock, shown, refilled>>
  BY DEF LiveCommit, source
<1>5. cursor' = [cursor EXCEPT ![s] = hand["live"].next]
  BY DEF LiveCommit, Saved, SavedAlways
<1>6. hand'["live"] = NoPage /\ hand'["backfill"] = hand["backfill"]
  BY DEF LiveCommit, Typed, TypeOK, Readers
<1>7. \A r \in p : NewInHand(r)
  BY <1>1 DEF HandInOrder
<1> HIDE DEF p
<1>8. KeptInOrder'
  <2>1. ASSUME NEW q \in kept' PROVE q \in shown'
    BY <1>1, <1>3, <1>4, <1>7 DEF KeptInOrder, NewInHand
  <2>2. ASSUME NEW q \in kept', Own(q) PROVE At[q] < clock
    <3>1. CASE q \in kept
      BY <1>1, <2>2, <3>1 DEF KeptInOrder
    <3>2. CASE q \in p
      <4>1. At[q] < t /\ t <= clock /\ At[q] \in Nat
        BY <1>2, <1>7, <3>2, SourceAssumption DEF NewInHand
      <4> QED
        BY <1>2, <4>1
    <3> QED
      BY <1>3, <3>1, <3>2
  <2>3. ASSUME NEW q \in kept', Own(q) PROVE q <= held'[RecordOf[q]]
    <3> DEFINE e == RecordOf[q]
    <3>1. q \in Rows /\ q \in Nat /\ e \in Records
      BY <1>2, <1>3, SourceAssumption
    <3>2. CASE \E r \in p : RecordOf[r] = e
      <4>1. PICK r \in p : RecordOf[r] = e
        BY <3>2
      <4>2. held'[e] \in p /\ RecordOf[held'[e]] = e /\ r <= held'[e]
        BY <1>2, <1>3, <3>1, <4>1, StoreHolds
      <4>3. CASE q \in kept
        BY <1>7, <2>3, <4>2, <4>3 DEF NewInHand
      <4>4. CASE q \in p
        BY <1>2, <1>3, <3>1, <4>4, StoreHolds
      <4> QED
        BY <1>3, <4>3, <4>4
    <3>3. CASE ~ \E r \in p : RecordOf[r] = e
      <4>1. held'[e] = held[e] /\ q \in kept
        BY <1>2, <1>3, <3>1, <3>3, StoreHolds
      <4> QED
        BY <1>1, <2>3, <4>1 DEF KeptInOrder
    <3> QED
      BY <3>2, <3>3
  <2> QED
    BY <1>4, <2>1, <2>2, <2>3 DEF KeptInOrder, Own
<1>9. CursorsPast'
  <2> SUFFICES ASSUME NEW x \in StreamsOf, cursor'[x].more PROVE Past(x, cursor[x].end)'
    BY <1>4 DEF CursorsPast, StreamsOf
  <2>1. x \in Streams
    BY DEF StreamsOf, Streams
  <2>2. CASE x = s
    <3>1. cursor'[x] = hand["live"].next
      BY <1>2, <1>5, <2>2 DEF Typed, TypeOK
    <3>2. Past(s, t)
      BY <1>1, <2>2, <3>1 DEF HandInOrder
    <3>3. \A r \in p : At[r] < t
      BY <1>7 DEF NewInHand
    <3> QED
      BY <1>3, <1>4, <2>2, <3>1, <3>2, <3>3 DEF Past, Own, StreamOf
  <2>3. CASE x # s
    <3>1. cursor'[x] = cursor[x]
      BY <1>2, <1>5, <2>1, <2>3 DEF Typed, TypeOK
    <3>2. Past(x, cursor[x].end)
      BY <1>1, <3>1 DEF CursorsPast
    <3>3. \A r \in p : StreamOf(r) # x
      BY <1>7, <2>3 DEF NewInHand
    <3> QED
      BY <1>3, <1>4, <3>1, <3>2, <3>3 DEF Past, Own, StreamOf
  <2> QED
    BY <2>2, <2>3
<1>10. HandInOrder'
  BY <1>1, <1>4, <1>6, NoPageType, NoCursorType DEF HandInOrder
<1> QED
  BY <1>8, <1>9, <1>10

LEMMA BackfillCommitNewer == ASSUME Typed, Newer, BackfillCommit PROVE Newer'
<1> SUFFICES ASSUME Changes PROVE (KeptInOrder /\ CursorsPast /\ HandInOrder)'
  BY DEF Newer, Changes, BackfillCommit, source
<1> DEFINE p == hand["backfill"].rows
<1>1. KeptInOrder /\ CursorsPast /\ HandInOrder
  BY DEF Newer
<1>2. p \in SUBSET Rows /\ p \subseteq shown /\ kept \subseteq Rows
  BY <1>1 DEF HandInOrder, Typed, TypeOK, Readers
<1>3. Store(p) /\ kept' = kept \cup p
  BY DEF BackfillCommit, Store
<1>4. UNCHANGED <<provider, clock, shown, cursor, stream>>
  BY DEF BackfillCommit, Saved, source
<1>5. refilled' = refilled \cup {RecordOf[r] : r \in p}
  BY DEF BackfillCommit
<1>6. hand'["live"] = hand["live"] /\ hand'["backfill"] = NoPage
  BY DEF BackfillCommit, Typed, TypeOK, Readers
<1> HIDE DEF p
<1>7. ASSUME NEW q \in kept', Own(q)'
      PROVE  q \in kept /\ Own(q) /\ \A r \in p : RecordOf[r] # RecordOf[q]
  BY <1>3, <1>5, <1>7 DEF Own
<1>8. KeptInOrder'
  <2>1. ASSUME NEW q \in kept' PROVE q \in shown'
    BY <1>1, <1>2, <1>3, <1>4 DEF KeptInOrder
  <2>2. ASSUME NEW q \in kept', Own(q)' PROVE At[q] < clock' /\ q <= held'[RecordOf[q]]
    <3>1. q \in kept /\ Own(q) /\ \A r \in p : RecordOf[r] # RecordOf[q]
      BY <1>7, <2>2
    <3>2. RecordOf[q] \in Records
      BY <1>2, <3>1, SourceAssumption
    <3>3. held'[RecordOf[q]] = held[RecordOf[q]]
      BY <1>2, <1>3, <3>1, <3>2, StoreHolds
    <3> QED
      BY <1>1, <1>4, <3>1, <3>3 DEF KeptInOrder
  <2> QED
    BY <2>1, <2>2 DEF KeptInOrder
<1>9. ASSUME NEW x, NEW t, Past(x, t) PROVE t <= clock' /\ \A q \in kept' : (Own(q) /\ StreamOf(q) = x)' => At[q] < t
  BY <1>4, <1>7, <1>9 DEF Past, StreamOf
<1>10. CursorsPast'
  BY <1>1, <1>4, <1>9 DEF CursorsPast, StreamsOf, Past, Own, StreamOf
<1>11. HandInOrder'
  <2>1. (hand["live"].next.more => Past(stream["live"], hand["live"].next.end))'
    BY <1>1, <1>4, <1>6, <1>9 DEF HandInOrder, Past, Own, StreamOf
  <2>2. ASSUME NEW r \in hand'["live"].rows PROVE NewInHand(r)'
    <3>1. NewInHand(r)
      BY <1>1, <1>6, <2>2 DEF HandInOrder
    <3>2. \A q \in kept' : Own(q)' /\ RecordOf[q] = RecordOf[r] => q <= r
      BY <1>7, <3>1 DEF NewInHand
    <3> QED
      BY <1>4, <1>6, <3>1, <3>2 DEF NewInHand, StreamOf
  <2>3. hand'["backfill"].rows \subseteq shown'
    BY <1>6, NoPageType
  <2> QED
    BY <2>1, <2>2, <2>3 DEF HandInOrder
<1> QED
  BY <1>8, <1>10, <1>11

LEMMA StepNewer == Typed /\ Newer /\ [Next]_vars => Newer'
<1> SUFFICES ASSUME Typed, Newer, [Next]_vars PROVE Newer'
  OBVIOUS
<1>1. /\ hand \in [Readers -> Pages] /\ "live" \in Readers /\ "backfill" \in Readers
      /\ clock \in Nat /\ NoPage.rows = {}
  BY NoPageType DEF Typed, TypeOK, Pages, Readers
<1>2. CASE \/ \E r \in Rows : Show(r)
           \/ \E b \in BOOLEAN : SetPause(b)
           \/ \E s \in Streams, from, to \in 0 .. clock : Backfill(s, from, to)
           \/ Tick \/ AllowBadRowsOnce \/ PatchReads \/ Begin \/ UNCHANGED vars
  <2>1. UNCHANGED <<provider, kept, held, refilled, cursor, hand>> /\ shown \subseteq shown'
    BY <1>2 DEF Show, SetPause, Backfill, Tick, AllowBadRowsOnce, PatchReads, Begin, vars, source,
                ledger, saved, reader, switch, ghosts
  <2>2. stream'["live"] = stream["live"]
    BY <1>2 DEF Show, SetPause, Backfill, Tick, AllowBadRowsOnce, PatchReads, Begin, vars, reader,
                Typed, TypeOK, Readers
  <2>3. clock' \in Nat /\ clock <= clock'
    <3>1. CASE Tick
      <4>1. PICK t \in clock + 1 .. MaxClock : clock' = t
        BY <3>1 DEF Tick
      <4> QED
        BY <1>1, <4>1, SourceAssumption
    <3>2. CASE ~Tick
      <4>1. clock' = clock
        BY <1>2, <3>2 DEF Show, SetPause, Backfill, AllowBadRowsOnce, PatchReads, Begin, vars,
                          source
      <4> QED
        BY <1>1, <4>1
    <3> QED
      BY <3>1, <3>2
  <2>4. \A s \in Streams : cursor'[s] = cursor[s]
    BY <2>1
  <2> QED
    BY <2>1, <2>2, <2>3, <2>4, QuietNewer
<1>3. CASE LiveFails \/ BackfillFails \/ PatchApplies \/ Stop
  <2>1. UNCHANGED <<provider, kept, held, refilled, cursor, shown, clock>>
    BY <1>3 DEF LiveFails, BackfillFails, PatchApplies, Stop, source, ledger, saved, ghosts
  <2>2. \/ hand'["live"] = NoPage
        \/ hand'["live"] = hand["live"] /\ stream'["live"] = stream["live"]
    BY <1>1, <1>3 DEF LiveFails, BackfillFails, PatchApplies, NewWorker, Stop, Quiet
  <2>3. hand'["backfill"] = hand["backfill"] \/ hand'["backfill"] = NoPage
    BY <1>1, <1>3 DEF LiveFails, BackfillFails, PatchApplies, NewWorker, Stop, Quiet
  <2> QED
    BY <1>1, <2>1, <2>2, <2>3, QuietNewer
<1>4. ASSUME NEW from \in 0 .. clock, Confirm(from) PROVE Newer'
  <2>1. UNCHANGED <<provider, kept, held, refilled, shown, clock, hand, stream>>
    BY <1>4 DEF Confirm, source, ledger, reader, ghosts
  <2>2. \A s \in Streams : cursor'[s] = cursor[s] \/ ~cursor'[s].more
    BY <1>4 DEF Confirm, ConfirmedCursor, NoCursor, Typed, TypeOK
  <2> QED
    BY <1>1, <2>1, <2>2, QuietNewer
<1>5. ASSUME NEW w \in Readers, SetAside(w) PROVE Newer'
  <2>1. UNCHANGED <<provider, kept, held, refilled, shown, clock, cursor, stream>>
    BY <1>5 DEF SetAside, source, saved, ghosts
  <2>2. \A v \in Readers : hand'[v].rows = hand[v].rows /\ hand'[v].next = hand[v].next
    <3>1. hand' = [hand EXCEPT ![w] = [hand[w] EXCEPT !.bad = {}]]
      BY <1>1, <1>5 DEF SetAside, Pages
    <3>2. /\ [hand[w] EXCEPT !.bad = {}].rows = hand[w].rows
          /\ [hand[w] EXCEPT !.bad = {}].next = hand[w].next
      BY <1>1, <1>5 DEF Pages
    <3> QED
      BY <1>1, <3>1, <3>2
  <2> QED
    BY <1>1, <2>1, <2>2, QuietNewer
<1>6. CASE Live
  BY <1>1, <1>5, <1>6, LiveFetchNewer, LiveCommitNewer DEF Live
<1>7. CASE Refilling
  BY <1>1, <1>5, <1>7, BackfillFetchNewer, BackfillCommitNewer DEF Refilling
<1> QED
  BY <1>2, <1>3, <1>4, <1>6, <1>7 DEF Next

\* The windows overlap, polls are retried and the program restarts: no older
\* version of an alert or incident becomes its newest revision again, unless a
\* backfill was asked for.
THEOREM NewestRevisionKept == Spec => []NewestKept
<1>1. Typed /\ Newer => NewestKept
  <2> SUFFICES ASSUME Typed, Newer, Changes, NEW q \in kept, held[RecordOf[q]] < q,
                      RecordOf[q] \notin refilled
               PROVE  FALSE
    BY DEF NewestKept
  <2>1. q \in Rows /\ RecordOf[q] \in Records
    BY SourceAssumption DEF Typed, TypeOK
  <2>2. q \in Nat /\ held[RecordOf[q]] \in Nat
    <3>1. held[RecordOf[q]] \in Rows \cup {0}
      BY <2>1 DEF Typed, TypeOK
    <3>2. Rows \subseteq Nat
      BY SourceAssumption
    <3>3. held[RecordOf[q]] \in Nat
      <4>1. \A x \in Rows \cup {0} : x \in Nat
        BY <3>2
      <4> QED
        BY <3>1, <4>1, Zenon
    <3> QED
      BY <2>1, <3>2, <3>3
  <2>3. q <= held[RecordOf[q]]
    BY DEF Newer, KeptInOrder, Own
  <2> QED
    BY <2>2, <2>3
<1> QED
  BY <1>1, InitNewer, StepNewer, AlwaysTyped, PTL DEF Spec

----------------------------------------------------------------------------
\* Nothing is passed.

LEMMA RowFacts == \A r \in Rows : r \in Nat /\ r > 0 /\ At[r] \in Nat
  BY SourceAssumption

LEMMA BackFacts ==
  /\ \A t \in Nat : Back(t) \in Nat /\ Back(t) <= t
  /\ \A t, u \in Nat : t <= u => Back(t) <= Back(u)
  /\ \A t, u \in Nat : t <= u + Late => Back(t) <= u
  BY SourceAssumption DEF Back

LEMMA CursorFields ==
  ASSUME NEW c \in CursorSet
  PROVE  /\ c.start \in Nat /\ c.end \in Nat /\ c.from \in Nat /\ c.offset \in Nat
         /\ c.seek \in Rows \cup {0} /\ c.rows \in SUBSET Rows /\ c.more \in BOOLEAN
         /\ c.kind \in {"none", "v1", "v2", "backfill"}
         /\ c.job \in {"none", "running", "done"}
  BY DEF CursorSet

\* The fields of a window's cursors.
LEMMA WindowFields ==
  ASSUME NEW c, NEW n \in {More(c), Drained(c)}
  PROVE  /\ n.query = QueryOf(c) /\ n.from = From(c) /\ n.end = End(c)
         /\ n.seek = 0 /\ n.job = "none" /\ n.rows = {} /\ n.offset = 0
  BY DEF More, Drained, NoCursor

LEMMA WindowEdges ==
  ASSUME NEW c
  PROVE  /\ More(c).kind = KindOf(c) /\ More(c).more /\ More(c).start = Start(c)
         /\ Drained(c).kind = "v2" /\ ~Drained(c).more
  BY DEF More, Drained, NoCursor

\* A cursor is of its kind: a drained one keeps no place in a window, one of
\* v2.0.0 no search job, and none answers for a time that has not come.
Shaped(c) ==
  /\ c.kind = "none" => ~c.more
  /\ ~c.more => c.rows = {} /\ c.job = "none"
  /\ c.kind = "v1" => c.job = "none" /\ Fingerprinted /\ (c.more => c.start <= clock)
  /\ provider # "elastic" => c.end <= clock

\* The rows the cursor c answers for, whatever the query of the moment.
Claimed(s, c) == {r \in Latest(Readable(s, c.query)) : At[r] >= c.from}

\* Nothing of the stream s is behind the cursor c but what is stored, set aside
\* or among the rows P in hand.  Elastic's has no overlap: of what it has passed
\* it also misses rows that are late, shown or not.
Unstored(P) == Rows \ (kept \cup aside \cup P)
Behind(c, r) == c.from <= At[r] /\ At[r] < c.start
Excused(r) == Loose(r) \/ (r \notin shown /\ At[r] < clock)
Covered(s, c, P) ==
  IF provider = "elastic"
    THEN \A r \in Unstored(P) : Behind(c, r) => Excused(r)
    ELSE \A r \in Unstored(P) : r \in Claimed(s, c) => Ahead(c, r)
Sound(s, c) == Shaped(c) /\ (c.kind # "none" => Covered(s, c, {}))

\* The page p and the cursor after it.
Keeps(s, p, n) == n.kind = "v2" /\ Shaped(n) /\ Covered(s, n, p)

CursorsCover == \A s \in StreamsOf, c \in CursorSet : c = cursor[s] => Sound(s, c)
HandCovers ==
  phase["live"] = "commit" =>
    \A s \in Streams, n \in CursorSet, p \in SUBSET Rows :
      s = stream["live"] /\ n = hand["live"].next /\ p = hand["live"].rows \cup hand["live"].bad
      => Keeps(s, p, n)
ShownInTime == \A r \in shown : At[r] <= clock
Covering == CursorsCover /\ HandCovers /\ ShownInTime

\* Where a row that is owed and not stored is, as a window with overlap opens:
\* beyond its end, or in it and still to be met.
LEMMA WindowClaims ==
  ASSUME Typed, NEW s, NEW c \in CursorSet, c.kind # "backfill", ~Refused(c), Sound(s, c),
         provider # "elastic", NEW r \in Unstored({}),
         r \in Latest(Readable(s, QueryOf(c))), At[r] >= From(c)
  PROVE  \/ At[r] >= Back(End(c))
         \/ At[r] >= Start(c) /\ (Continues(c) => Unread(c, r))
<1>1. r \in Rows /\ At[r] \in Nat /\ clock \in Nat /\ QueryOf(c) = query
  BY RowFacts DEF Unstored, Typed, TypeOK, QueryOf
<1>2. c.start \in Nat /\ c.end \in Nat /\ c.from \in Nat /\ c.more \in BOOLEAN
  BY CursorFields
<1>3. CASE c.kind = "none"
  <2>1. From(c) = Back(clock) /\ End(c) = clock
    BY <1>3 DEF From, End, Sound, Shaped
  <2> QED
    BY <2>1
<1>4. CASE c.kind = "v1" /\ c.query # query
  BY <1>4 DEF From, Continues
<1>5. ASSUME c.kind # "none", Readable(s, QueryOf(c)) = Readable(s, c.query), From(c) = c.from
      PROVE  Ahead(c, r)
  BY <1>5 DEF Sound, Covered, Claimed
<1>6. CASE c.kind = "v1" /\ c.query = query
  <2>1. Ahead(c, r)
    BY <1>1, <1>5, <1>6 DEF From
  <2>2. Start(c) = Back(IF c.more THEN c.start ELSE c.end)
    BY <1>6 DEF Start
  <2>3. At[r] >= Back(IF c.more THEN c.start ELSE c.end)
        \/ (c.more /\ At[r] >= c.start)
    BY <1>6, <2>1 DEF Ahead, Unread
  <2>4. Back(c.start) <= c.start /\ Back(c.start) \in Nat
    BY <1>2, BackFacts
  <2>5. At[r] >= Start(c)
    BY <1>1, <1>2, <2>2, <2>3, <2>4
  <2> QED
    BY <1>6, <2>5 DEF Continues
<1>7. CASE c.kind = "v2"
  <2>1. Readable(s, QueryOf(c)) = Readable(s, c.query)
    BY <1>1, <1>7 DEF Refused, Readable, InQuery
  <2>2. Ahead(c, r)
    BY <1>5, <1>7, <2>1 DEF From
  <2>3. At[r] >= Back(c.end) \/ Unread(c, r)
    BY <1>7, <2>2 DEF Ahead
  <2>4. CASE c.more
    <3>1. End(c) = c.end /\ Start(c) = c.start
      BY <1>7, <2>4 DEF End, Start
    <3> QED
      BY <2>3, <3>1 DEF Unread
  <2>5. CASE ~c.more
    <3>1. Start(c) = Back(c.end) /\ ~Continues(c) /\ ~Unread(c, r)
      BY <1>7, <2>5 DEF Start, Continues, Unread
    <3> QED
      BY <2>3, <3>1
  <2> QED
    BY <2>4, <2>5
<1> QED
  BY <1>2, <1>3, <1>4, <1>6, <1>7, CursorFields

\* A cursor that is in its window keeps whatever is beyond the window.
LEMMA BeyondEnd ==
  ASSUME provider # "elastic", NEW n, n.kind = "v2", NEW r, At[r] >= Back(n.end)
  PROVE  Ahead(n, r)
  BY DEF Ahead

LEMMA EndInTime ==
  ASSUME Typed, NEW s, NEW c \in CursorSet, Sound(s, c), provider # "elastic"
  PROVE  End(c) <= clock
  BY DEF Sound, Shaped, End, Typed, TypeOK

\* What the worker reads from, and what it comes back with.
Reads(s, c) ==
  /\ Typed /\ Covering /\ s \in StreamsOf /\ c \in CursorSet
  /\ c.kind # "backfill" /\ ~Refused(c) /\ Sound(s, c)
Kept(c, s) ==
  \E p \in SUBSET Rows, n \in CursorSet, complete \in BOOLEAN :
    Deliver("live", p, n, complete) /\ Keeps(s, p, n)

\* A window's cursor n with the page p in hand, when what is left of the window
\* is on the page or still to be met.
LEMMA WindowKeeps ==
  ASSUME NEW s, NEW c, Reads(s, c), provider # "elastic", NEW p \in SUBSET Rows, NEW n,
         n.kind = "v2", n.query = QueryOf(c), n.from = From(c), n.end = End(c),
         ~n.more => n.rows = {} /\ n.job = "none",
         \A r \in Unstored(p) :
           /\ r \in Latest(Readable(s, QueryOf(c)))
           /\ Start(c) <= At[r] /\ At[r] < End(c) /\ (Continues(c) => Unread(c, r))
           => Unread(n, r)
  PROVE  Keeps(s, p, n)
<1>1. Shaped(n)
  BY EndInTime DEF Shaped, Reads
<1>2. ASSUME NEW r \in Unstored(p), r \in Claimed(s, n) PROVE Ahead(n, r)
  <2>1. r \in Latest(Readable(s, QueryOf(c))) /\ At[r] >= From(c) /\ r \in Unstored({})
    BY <1>2 DEF Claimed, Unstored
  <2>2. \/ At[r] >= Back(End(c))
        \/ At[r] >= Start(c) /\ (Continues(c) => Unread(c, r))
    BY <2>1, WindowClaims DEF Reads
  <2>3. CASE At[r] >= Back(End(c))
    BY <2>3, BeyondEnd
  <2>4. CASE At[r] >= Start(c) /\ (Continues(c) => Unread(c, r))
    <3>1. At[r] \in Nat /\ End(c) \in Nat /\ Start(c) \in Nat
      BY RowFacts, CursorTypes DEF Unstored, Reads, Typed
    <3>2. CASE At[r] < End(c)
      BY <1>2, <2>1, <2>4, <3>1, <3>2 DEF Ahead
    <3>3. CASE ~(At[r] < End(c))
      <4>1. At[r] >= Back(End(c))
        BY <3>1, <3>3, BackFacts
      <4> QED
        BY <4>1, BeyondEnd
    <3> QED
      BY <3>2, <3>3
  <2> QED
    BY <2>2, <2>3, <2>4
<1> QED
  BY <1>1, <1>2 DEF Keeps, Covered

LEMMA SentinelKeeps ==
  ASSUME NEW c, Reads("alerts", c), provider = "sentinel", SentinelPage("live", c)
  PROVE  Kept(c, "alerts")
<1> DEFINE inWindow == {r \in Readable("alerts", QueryOf(c)) :
                          Start(c) <= At[r] /\ At[r] < End(c)}
           left == {r \in Latest(inWindow) : Continues(c) /\ c.seek # 0 => Seek(c, r)}
<1>1. PICK p \in SUBSET left :
        /\ Capped(left, p) /\ \A x \in p, y \in left \ p : x < y
        /\ IF Cardinality(p) >= Limit
             THEN \E last \in p : /\ \A x \in p : x <= last
                                  /\ Deliver("live", p, [More(c) EXCEPT !.seek = last], FALSE)
             ELSE Deliver("live", p, Drained(c), TRUE)
  BY DEF SentinelPage
<1>2. c \in CursorSet /\ TypeOK /\ KindOf(c) = "v2"
  BY DEF Reads, Typed, KindOf
<1>3. left \subseteq Rows
  BY <1>2 DEF Latest, Readable, TypeOK
<1>4. p \in SUBSET Rows
  BY <1>1, <1>3
<1>5. ASSUME NEW r \in Unstored(p), r \in Latest(Readable("alerts", QueryOf(c))),
             Start(c) <= At[r], At[r] < End(c), Continues(c) => Unread(c, r)
      PROVE  r \in left
  <2>1. r \in Latest(inWindow)
    BY <1>5 DEF Latest
  <2>2. Continues(c) => Seek(c, r)
    BY <1>5 DEF Unread, Seek, Reads
  <2> QED
    BY <2>1, <2>2
<1> HIDE DEF left
<1>6. CASE Cardinality(p) >= Limit
  <2>1. PICK last \in p : /\ \A x \in p : x <= last
                          /\ Deliver("live", p, [More(c) EXCEPT !.seek = last], FALSE)
    BY <1>1, <1>6
  <2> DEFINE n == [More(c) EXCEPT !.seek = last]
  <2>2. last \in Rows \cup {0} /\ last \in left /\ More(c) \in CursorSet
    BY <1>1, <1>2, <1>4, <2>1, WindowCursors
  <2>3. /\ n \in CursorSet /\ n.kind = "v2" /\ n.query = QueryOf(c) /\ n.from = From(c)
        /\ n.end = End(c) /\ n.more /\ n.start = Start(c) /\ n.seek = last
    <3>1. n.seek = last
      BY <2>2 DEF CursorSet
    <3> QED
      BY <1>2, <2>2, <3>1, SeekCursor, WindowFields, WindowEdges DEF SameWindow
  <2>4. Deliver("live", p, n, FALSE)
    BY <2>1
  <2> HIDE DEF n
  <2>5. ASSUME NEW r \in Unstored(p), r \in Latest(Readable("alerts", QueryOf(c))),
               Start(c) <= At[r], At[r] < End(c), Continues(c) => Unread(c, r)
        PROVE  Unread(n, r)
    <3>1. r \in left \ p
      BY <1>5, <2>5 DEF Unstored
    <3>2. r > last
      <4>1. last < r /\ last \in Nat /\ r \in Nat
        BY <1>1, <1>3, <2>1, <2>2, <3>1, RowFacts
      <4> QED
        BY <4>1
    <3> QED
      BY <2>3, <2>5, <3>2 DEF Unread
  <2>6. Keeps("alerts", p, n)
    BY <1>4, <2>3, <2>5, WindowKeeps
  <2> QED
    BY <1>4, <2>3, <2>4, <2>6 DEF Kept
<1>7. CASE ~(Cardinality(p) >= Limit)
  <2>1. Deliver("live", p, Drained(c), TRUE)
    BY <1>1, <1>7
  <2>2. p = left
    BY <1>1, <1>7, SourceAssumption DEF Capped
  <2>3. Keeps("alerts", p, Drained(c))
    <3>1. \A r \in Unstored(p) :
            /\ r \in Latest(Readable("alerts", QueryOf(c)))
            /\ Start(c) <= At[r] /\ At[r] < End(c) /\ (Continues(c) => Unread(c, r))
            => Unread(Drained(c), r)
      BY <1>5, <2>2 DEF Unstored
    <3> QED
      BY <1>4, <3>1, WindowKeeps, WindowFields, WindowEdges
  <2> QED
    BY <1>2, <1>4, <2>1, <2>3, WindowCursors DEF Kept
<1> QED
  BY <1>6, <1>7

LEMMA GraphKeeps ==
  ASSUME NEW s, NEW c, Reads(s, c), provider = "graph", GraphPage("live", c, s)
  PROVE  Kept(c, s)
<1> DEFINE left == {r \in Latest(Readable(s, QueryOf(c))) :
                      Start(c) <= At[r] /\ At[r] < End(c) /\ r \notin c.rows}
<1>1. PICK p \in SUBSET left :
        IF p # left
          THEN Deliver("live", p, [More(c) EXCEPT !.rows = c.rows \cup p], FALSE)
          ELSE Deliver("live", p, Drained(c), TRUE)
  BY DEF GraphPage
<1>2. c \in CursorSet /\ TypeOK /\ KindOf(c) = "v2" /\ c.rows \in SUBSET Rows
  BY CursorFields DEF Reads, Typed, KindOf
<1>3. p \in SUBSET Rows
  BY <1>2 DEF Latest, Readable, TypeOK
<1>4. ASSUME NEW r \in Unstored(p), r \in Latest(Readable(s, QueryOf(c))),
             Start(c) <= At[r], At[r] < End(c), Continues(c) => Unread(c, r)
      PROVE  r \in left /\ r \notin c.rows
  <2>1. CASE Continues(c)
    BY <1>4, <2>1 DEF Unread
  <2>2. CASE ~Continues(c)
    <3>1. ~c.more
      BY <2>2, <1>2 DEF Continues, Reads, Sound, Shaped, Fingerprinted
    <3> QED
      BY <1>4, <3>1 DEF Reads, Sound, Shaped
  <2> QED
    BY <2>1, <2>2
<1> HIDE DEF left
<1>5. CASE p # left
  <2> DEFINE n == [More(c) EXCEPT !.rows = c.rows \cup p]
  <2>1. Deliver("live", p, n, FALSE)
    BY <1>1, <1>5
  <2>2. More(c) \in CursorSet /\ c.rows \cup p \in SUBSET Rows
    BY <1>2, <1>3, WindowCursors
  <2>3. /\ n \in CursorSet /\ n.kind = "v2" /\ n.query = QueryOf(c) /\ n.from = From(c)
        /\ n.end = End(c) /\ n.more /\ n.start = Start(c) /\ n.rows = c.rows \cup p
    <3>1. /\ n.rows = c.rows \cup p /\ n.query = More(c).query /\ n.from = More(c).from
          /\ n.more = More(c).more /\ n.start = More(c).start
      BY <2>2 DEF CursorSet
    <3> QED
      BY <1>2, <2>2, <3>1, RowsCursor, WindowFields, WindowEdges DEF SameWindow
  <2> HIDE DEF n
  <2>4. ASSUME NEW r \in Unstored(p), r \in Latest(Readable(s, QueryOf(c))),
               Start(c) <= At[r], At[r] < End(c), Continues(c) => Unread(c, r)
        PROVE  Unread(n, r)
    BY <1>4, <2>3, <2>4 DEF Unread, Unstored
  <2>5. Keeps(s, p, n)
    BY <1>3, <2>3, <2>4, WindowKeeps
  <2> QED
    BY <1>3, <2>1, <2>3, <2>5 DEF Kept
<1>6. CASE p = left
  <2>1. Deliver("live", p, Drained(c), TRUE)
    BY <1>1, <1>6
  <2>2. \A r \in Unstored(p) :
          /\ r \in Latest(Readable(s, QueryOf(c)))
          /\ Start(c) <= At[r] /\ At[r] < End(c) /\ (Continues(c) => Unread(c, r))
          => Unread(Drained(c), r)
    BY <1>4, <1>6 DEF Unstored
  <2>3. Keeps(s, p, Drained(c))
    BY <1>3, <2>2, WindowKeeps, WindowFields, WindowEdges
  <2> QED
    BY <1>2, <1>3, <2>1, <2>3, WindowCursors DEF Kept
<1> QED
  BY <1>5, <1>6

LEMMA RankBelow ==
  ASSUME NEW J \in SUBSET Rows, NEW r \in J
  PROVE  Rank(J, r) \in Nat /\ Cardinality(J) \in Nat /\ Rank(J, r) < Cardinality(J)
<1> DEFINE before == {q \in J : q < r}
<1>1. IsFiniteSet(J) /\ r \in Nat
  BY FS_Subset, RowFacts, SourceAssumption
<1>2. before \in SUBSET J /\ before # J
  BY <1>1
<1>3. IsFiniteSet(before) /\ Cardinality(before) <= Cardinality(J)
      /\ (Cardinality(J) = Cardinality(before) => J = before)
  <2> HIDE DEF before
  <2> QED
    BY <1>1, <1>2, FS_Subset
<1>4. Cardinality(before) \in Nat /\ Cardinality(J) \in Nat
  BY <1>1, <1>3, FS_CardinalityType
<1> QED
  BY <1>2, <1>3, <1>4 DEF Rank

\* What a job still has to read.
Pending(c, J, i) ==
  \A r \in Unstored({}) :
    /\ r \in Latest(Readable("alerts", QueryOf(c)))
    /\ Start(c) <= At[r] /\ At[r] < End(c) /\ (Continues(c) => Unread(c, r))
    => r \in J /\ Rank(J, r) >= i

LEMMA SplunkReadKeeps ==
  ASSUME NEW c, Reads("alerts", c), provider = "splunk", NEW J \in SUBSET Rows, NEW i \in Nat,
         NEW n \in Nat, Pending(c, J, i), SplunkRead("live", c, J, i, n)
  PROVE  Kept(c, "alerts")
<1>1. c \in CursorSet /\ TypeOK /\ KindOf(c) = "v2" /\ Slice(J, i, n) \in SUBSET Rows
  BY DEF Reads, Typed, KindOf, Slice
<1>2. ASSUME NEW r \in Unstored(Slice(J, i, n)), r \in Latest(Readable("alerts", QueryOf(c))),
             Start(c) <= At[r], At[r] < End(c), Continues(c) => Unread(c, r)
      PROVE  r \in J /\ Rank(J, r) >= i + n /\ Rank(J, r) < Cardinality(J)
             /\ Cardinality(J) \in Nat /\ Rank(J, r) \in Nat
  <2>1. r \in J /\ Rank(J, r) >= i
    BY <1>2 DEF Pending, Unstored
  <2>2. r \notin Slice(J, i, n)
    BY <1>2 DEF Unstored
  <2> QED
    BY <2>1, <2>2, RankBelow DEF Slice
<1> DEFINE p == Slice(J, i, n)
<1>3. CASE i + n < Cardinality(J)
  <2> DEFINE next == [More(c) EXCEPT !.job = "done", !.rows = J, !.offset = i + n]
  <2>1. Deliver("live", p, next, FALSE)
    BY <1>3 DEF SplunkRead
  <2>2. More(c) \in CursorSet
    BY <1>1, WindowCursors
  <2>3. /\ next \in CursorSet /\ next.kind = "v2" /\ next.query = QueryOf(c)
        /\ next.from = From(c) /\ next.end = End(c) /\ next.more /\ next.start = Start(c)
        /\ next.job = "done" /\ next.rows = J /\ next.offset = i + n
    <3>1. /\ next.job = "done" /\ next.rows = J /\ next.offset = i + n
          /\ next.query = More(c).query /\ next.from = More(c).from
          /\ next.more = More(c).more /\ next.start = More(c).start
      BY <2>2 DEF CursorSet
    <3>2. next \in CursorSet /\ next.kind = More(c).kind /\ next.end = More(c).end
      <4>1. i + n \in Nat
        OBVIOUS
      <4>2. SameWindow(next, More(c))
        BY <2>2, <4>1, PlaceCursor
      <4> QED
        BY <4>2 DEF SameWindow
    <3> HIDE DEF next
    <3> QED
      BY <1>1, <3>1, <3>2, WindowFields, WindowEdges
  <2> HIDE DEF next
  <2>4. ASSUME NEW r \in Unstored(p), r \in Latest(Readable("alerts", QueryOf(c))),
               Start(c) <= At[r], At[r] < End(c), Continues(c) => Unread(c, r)
        PROVE  Unread(next, r)
    BY <1>2, <2>3, <2>4 DEF Unread
  <2>5. Keeps("alerts", p, next)
    <3> HIDE DEF p
    <3>1. p \in SUBSET Rows
      BY <1>1 DEF p
    <3> QED
      BY <2>3, <2>4, <3>1, WindowKeeps
  <2> QED
    BY <1>1, <2>1, <2>3, <2>5 DEF Kept
<1>4. CASE ~(i + n < Cardinality(J))
  <2>1. Deliver("live", p, Drained(c), TRUE)
    BY <1>4 DEF SplunkRead
  <2>2. Cardinality(J) \in Nat => i + n >= Cardinality(J)
    BY <1>4
  <2>3. \A r \in Unstored(p) :
          /\ r \in Latest(Readable("alerts", QueryOf(c)))
          /\ Start(c) <= At[r] /\ At[r] < End(c) /\ (Continues(c) => Unread(c, r))
          => Unread(Drained(c), r)
    BY <1>2, <2>2
  <2>4. Keeps("alerts", p, Drained(c))
    <3> HIDE DEF p
    <3>1. p \in SUBSET Rows
      BY <1>1 DEF p
    <3> QED
      BY <2>3, <3>1, WindowKeeps, WindowFields, WindowEdges
  <2> QED
    BY <1>1, <2>1, <2>4, WindowCursors DEF Kept
<1> QED
  BY <1>3, <1>4

LEMMA SplunkKeeps ==
  ASSUME NEW c, Reads("alerts", c), provider = "splunk", SplunkPage("live", c)
  PROVE  Kept(c, "alerts")
<1> DEFINE snapshot == {r \in Readable("alerts", QueryOf(c)) :
                          Start(c) <= At[r] /\ At[r] <= End(c)}
<1>1. c \in CursorSet /\ TypeOK /\ KindOf(c) = "v2" /\ c.rows \in SUBSET Rows
      /\ c.offset \in Nat /\ Start(c) \in Nat /\ End(c) \in Nat
  BY CursorFields, CursorTypes DEF Reads, Typed, KindOf
<1>2. snapshot \in SUBSET Rows
  BY <1>1 DEF Readable, TypeOK
<1>3. Pending(c, snapshot, 0)
  <2> SUFFICES ASSUME NEW r \in Unstored({}), r \in Latest(Readable("alerts", QueryOf(c))),
                      Start(c) <= At[r], At[r] < End(c)
               PROVE  r \in snapshot /\ Rank(snapshot, r) >= 0
    BY DEF Pending
  <2>1. r \in snapshot
    BY <1>1, RowFacts DEF Latest, Unstored
  <2> HIDE DEF snapshot
  <2> QED
    BY <1>2, <2>1, RankBelow
<1>4. c.job # "none" => Pending(c, c.rows, c.offset)
  <2>1. c.job # "none" => Continues(c)
    BY DEF Reads, Sound, Shaped, Continues
  <2> QED
    BY <2>1 DEF Pending, Unread
<1> HIDE DEF snapshot
<1>5. ASSUME NEW J \in SUBSET Rows, NEW i \in Nat, Pending(c, J, i),
             \/ \E n \in 0 .. Limit : SplunkRead("live", c, J, i, n)
             \/ /\ i = 0 \/ c.job # "done"
                /\ Deliver("live", {}, [More(c) EXCEPT !.job = "running", !.rows = J], FALSE)
      PROVE  Kept(c, "alerts")
  <2>1. CASE \E n \in 0 .. Limit : SplunkRead("live", c, J, i, n)
    BY <1>5, <2>1, SplunkReadKeeps
  <2>2. CASE Deliver("live", {}, [More(c) EXCEPT !.job = "running", !.rows = J], FALSE)
    <3> DEFINE next == [More(c) EXCEPT !.job = "running", !.rows = J]
    <3>1. Deliver("live", {}, next, FALSE)
      BY <2>2
    <3>2. More(c) \in CursorSet
      BY <1>1, WindowCursors
    <3>3. /\ next \in CursorSet /\ next.kind = "v2" /\ next.query = QueryOf(c)
          /\ next.from = From(c) /\ next.end = End(c) /\ next.more /\ next.start = Start(c)
          /\ next.job = "running" /\ next.rows = J /\ next.offset = 0
      <4>1. /\ next.job = "running" /\ next.rows = J /\ next.offset = More(c).offset
            /\ next.query = More(c).query /\ next.from = More(c).from
            /\ next.more = More(c).more /\ next.start = More(c).start
        BY <3>2 DEF CursorSet
      <4>2. next \in CursorSet /\ next.kind = More(c).kind /\ next.end = More(c).end
        BY <3>2, JobCursor DEF SameWindow
      <4> HIDE DEF next
      <4> QED
        BY <1>1, <4>1, <4>2, WindowFields, WindowEdges
    <3> HIDE DEF next
    <3>4. ASSUME NEW r \in Unstored({}), r \in Latest(Readable("alerts", QueryOf(c))),
                 Start(c) <= At[r], At[r] < End(c), Continues(c) => Unread(c, r)
          PROVE  Unread(next, r)
      <4>1. r \in J
        BY <1>5, <3>4 DEF Pending
      <4>2. Rank(J, r) >= 0
        BY <4>1, RankBelow
      <4> QED
        BY <3>3, <3>4, <4>1, <4>2 DEF Unread
    <3>5. Keeps("alerts", {}, next)
      BY <3>3, <3>4, WindowKeeps
    <3> QED
      BY <3>1, <3>3, <3>5 DEF Kept
  <2> QED
    BY <1>5, <2>1, <2>2
<1>6. \/ /\ c.job = "none"
         /\ \/ \E n \in 0 .. Limit : SplunkRead("live", c, snapshot, 0, n)
            \/ Deliver("live", {}, [More(c) EXCEPT !.job = "running", !.rows = snapshot], FALSE)
      \/ /\ c.job # "none"
         /\ \/ \E n \in 0 .. Limit : SplunkRead("live", c, c.rows, c.offset, n)
            \/ /\ c.job # "done"
               /\ Deliver("live", {}, [More(c) EXCEPT !.job = "running", !.rows = c.rows], FALSE)
      \/ /\ c.job # "none"
         /\ \E n \in 0 .. Limit : SplunkRead("live", c, snapshot, 0, n)
  BY DEF SplunkPage, snapshot
<1> QED
  BY <1>1, <1>2, <1>3, <1>4, <1>5, <1>6

\* A page of one timestamp that is full leaves out only rows it could not hold.
LEMMA FullTie ==
  ASSUME NEW p \in SUBSET Rows, NEW r \in Rows \ p, Cardinality(p) = Limit,
         \A x \in p : At[x] = At[r]
  PROVE  Ties(r) > Limit
<1> DEFINE ties == {q \in Rows : At[q] = At[r]}
<1>1. IsFiniteSet(Rows) /\ ties \in SUBSET Rows /\ p \in SUBSET ties /\ r \in ties /\ p # ties
  BY SourceAssumption
<1> HIDE DEF ties
<1>2. IsFiniteSet(ties)
  BY <1>1, FS_Subset
<1>3. IsFiniteSet(p) /\ Cardinality(p) <= Cardinality(ties) /\ Cardinality(p) # Cardinality(ties)
  BY <1>1, <1>2, FS_Subset
<1>4. Cardinality(p) \in Nat /\ Cardinality(ties) \in Nat
  BY <1>2, <1>3, FS_CardinalityType
<1>5. Ties(r) = Cardinality(ties)
  BY DEF Ties, ties
<1> QED
  BY <1>3, <1>4, <1>5

LEMMA ElasticKeeps ==
  ASSUME NEW c, Reads("alerts", c), provider = "elastic", ElasticPage("live", c)
  PROVE  Kept(c, "alerts")
<1> DEFINE hits == {r \in Readable("alerts", 2) : Since(c) <= At[r] /\ At[r] < Until(c)}
           next == [NoCursor EXCEPT !.kind = "v2", !.from = From(c)]
           more == [next EXCEPT !.kind = KindOf(c), !.more = TRUE, !.end = Until(c)]
<1>1. PICK p \in SUBSET hits :
        /\ Capped(hits, p) /\ \A x \in p, y \in hits \ p : At[x] <= At[y]
        /\ IF Cardinality(p) >= Limit
             THEN \E last \in p :
                    /\ \A x \in p : At[x] <= At[last]
                    /\ Deliver("live", p, [more EXCEPT !.start = Beyond(At[last], Since(c))],
                               FALSE)
             ELSE \E resume \in {Since(c), Back(clock)} :
                    /\ resume >= Since(c) /\ resume >= Back(clock)
                    /\ Deliver("live", p, [next EXCEPT !.start = resume], TRUE)
  BY DEF ElasticPage
<1>2. /\ c \in CursorSet /\ TypeOK /\ KindOf(c) = "v2" /\ Until(c) = clock + 1
      /\ clock \in Nat /\ c.start \in Nat /\ Back(clock) \in Nat /\ Back(clock) <= clock
  BY CursorFields, BackFacts DEF Reads, Typed, KindOf, Until, TypeOK
<1>3. /\ From(c) \in Nat /\ Since(c) \in Nat
      /\ c.kind = "none" => From(c) = Back(clock) /\ Since(c) = Back(clock)
      /\ c.kind # "none" => c.kind = "v2" /\ From(c) = c.from /\ Since(c) = c.start
  BY <1>2, CursorTypes, CursorFields DEF From, Since, Reads, Sound, Shaped, Fingerprinted
<1>4. hits \subseteq Rows /\ p \in SUBSET Rows /\ p \subseteq shown
      /\ \A r \in shown : At[r] <= clock
  BY <1>2 DEF Readable, TypeOK, Reads, Covering, ShownInTime
<1>5. ASSUME NEW r \in Rows, r \in shown, Since(c) <= At[r] PROVE r \in hits
  BY <1>2, <1>4, <1>5, RowFacts DEF Readable, InQuery, Fingerprinted, StreamOf
\* What was passed before is still excused.
<1>6. ASSUME NEW r \in Unstored(p), From(c) <= At[r], At[r] < Since(c) PROVE Excused(r)
  <2>1. At[r] \in Nat /\ r \in Unstored({})
    BY RowFacts DEF Unstored
  <2>2. c.kind # "none"
    BY <1>2, <1>3, <1>6, <2>1
  <2> QED
    BY <1>3, <1>6, <2>1, <2>2 DEF Reads, Sound, Covered, Behind
<1>7. ASSUME NEW t \in Nat,
             \A r \in Unstored(p) : Since(c) <= At[r] /\ At[r] < t => Excused(r)
      PROVE  \A r \in Unstored(p) : From(c) <= At[r] /\ At[r] < t => Excused(r)
  <2> SUFFICES ASSUME NEW r \in Unstored(p), From(c) <= At[r], At[r] < t PROVE Excused(r)
    OBVIOUS
  <2>1. At[r] \in Nat
    BY RowFacts DEF Unstored
  <2> QED
    BY <1>3, <1>6, <1>7, <2>1
<1>8. ASSUME NEW n \in CursorSet, n.kind = "v2", n.from = From(c), n.rows = {}, n.job = "none",
             NEW t \in Nat, n.start = t,
             \A r \in Unstored(p) : Since(c) <= At[r] /\ At[r] < t => Excused(r)
      PROVE  Keeps("alerts", p, n)
  BY <1>7, <1>8 DEF Keeps, Shaped, Covered, Behind
<1>9. next \in CursorSet /\ next.kind = "v2" /\ next.from = From(c) /\ next.rows = {}
      /\ next.job = "none"
  BY <1>3, NoCursorType DEF NoCursor, CursorSet
<1> HIDE DEF next
<1>10. more \in CursorSet /\ more.kind = "v2" /\ more.from = From(c) /\ more.rows = {}
       /\ more.job = "none"
  <2>1. Until(c) \in Nat
    BY <1>2
  <2>2. KindOf(c) = "v2"
    BY <1>2
  <2> QED
    BY <1>9, <2>1, <2>2 DEF CursorSet
<1> HIDE DEF more
<1>11. ASSUME NEW m \in {next, more}, NEW t \in Nat
       PROVE  LET n == [m EXCEPT !.start = t]
              IN /\ n \in CursorSet /\ n.kind = "v2" /\ n.from = From(c) /\ n.rows = {}
                 /\ n.job = "none" /\ n.start = t
  BY <1>9, <1>10 DEF CursorSet
<1>12. CASE Cardinality(p) >= Limit
  <2>1. PICK last \in p :
          /\ \A x \in p : At[x] <= At[last]
          /\ Deliver("live", p, [more EXCEPT !.start = Beyond(At[last], Since(c))], FALSE)
    BY <1>1, <1>12
  <2>2. PICK t \in Nat : t = Beyond(At[last], Since(c))
    BY <1>3, <1>4, RowFacts DEF Beyond
  <2>3. At[last] \in Nat /\ At[last] >= Since(c) /\ At[last] <= clock /\ last \in Rows
    BY <1>1, <1>4, RowFacts
  <2>4. ASSUME NEW r \in Unstored(p), Since(c) <= At[r], At[r] < t PROVE Excused(r)
    <3>1. r \in Rows \ p /\ At[r] \in Nat
      BY RowFacts DEF Unstored
    <3>2. CASE At[r] < At[last]
      <4>1. r \notin hits
        BY <1>1, <2>3, <3>1, <3>2
      <4> QED
        BY <1>2, <1>5, <2>3, <2>4, <3>1, <3>2, <4>1 DEF Excused
    <3>3. CASE ~(At[r] < At[last])
      <4>1. At[last] = Since(c) /\ At[r] = Since(c)
        BY <1>3, <2>2, <2>3, <2>4, <3>1, <3>3 DEF Beyond
      <4>2. \A x \in p : At[x] = At[r]
        <5> SUFFICES ASSUME NEW x \in p PROVE At[x] = At[r]
          OBVIOUS
        <5>1. At[x] \in Nat /\ At[x] >= Since(c) /\ At[x] <= At[last]
          BY <1>4, <2>1, RowFacts
        <5> QED
          BY <1>3, <4>1, <5>1
      <4>3. Cardinality(p) = Limit
        <5>1. CASE Cardinality(hits) < Limit
          <6>1. p = hits
            BY <1>1, <5>1 DEF Capped
          <6>2. IsFiniteSet(p)
            BY <1>4, FS_Subset, SourceAssumption
          <6>3. Cardinality(p) \in Nat
            BY <6>2, FS_CardinalityType
          <6> HIDE DEF hits
          <6> QED
            BY <1>12, <5>1, <6>1, <6>3, SourceAssumption
        <5>2. CASE ~(Cardinality(hits) < Limit)
          BY <1>1, <5>2 DEF Capped
        <5> QED
          BY <5>1, <5>2
      <4>4. Ties(r) > Limit
        BY <1>4, <3>1, <4>2, <4>3, FullTie
      <4> QED
        BY <4>4 DEF Excused, Loose
    <3> QED
      BY <3>2, <3>3
  <2> DEFINE n == [more EXCEPT !.start = t]
  <2>5. Deliver("live", p, n, FALSE)
    BY <2>1, <2>2
  <2>6. /\ n \in CursorSet /\ n.kind = "v2" /\ n.from = From(c) /\ n.rows = {}
        /\ n.job = "none" /\ n.start = t
    BY <1>11
  <2> HIDE DEF n, hits
  <2>7. Keeps("alerts", p, n)
    BY <1>8, <2>4, <2>6
  <2> QED
    BY <1>4, <2>5, <2>6, <2>7 DEF Kept
<1>13. CASE ~(Cardinality(p) >= Limit)
  <2>1. PICK resume \in {Since(c), Back(clock)} :
          /\ resume >= Since(c) /\ resume >= Back(clock)
          /\ Deliver("live", p, [next EXCEPT !.start = resume], TRUE)
    BY <1>1, <1>13
  <2>2. p = hits
    BY <1>1, <1>13, SourceAssumption DEF Capped
  <2>3. resume \in Nat
    BY <1>2, <1>3
  <2>4. ASSUME NEW r \in Unstored(p), Since(c) <= At[r], At[r] < resume PROVE Excused(r)
    <3>1. r \in Rows \ p /\ At[r] \in Nat
      BY RowFacts DEF Unstored
    <3>2. r \notin shown
      BY <1>5, <2>2, <2>4, <3>1
    <3>3. At[r] < clock
      BY <1>2, <1>3, <2>1, <2>4, <3>1
    <3> QED
      BY <3>2, <3>3 DEF Excused
  <2> DEFINE n == [next EXCEPT !.start = resume]
  <2>5. Deliver("live", p, n, TRUE)
    BY <2>1
  <2>6. /\ n \in CursorSet /\ n.kind = "v2" /\ n.from = From(c) /\ n.rows = {}
        /\ n.job = "none" /\ n.start = resume
    BY <1>11, <2>3
  <2> HIDE DEF n, hits
  <2>7. Keeps("alerts", p, n)
    BY <1>8, <2>3, <2>4, <2>6
  <2> QED
    BY <1>4, <2>5, <2>6, <2>7 DEF Kept
<1> QED
  BY <1>12, <1>13

LEMMA PageKeeps ==
  ASSUME NEW s, NEW c, Reads(s, c), FetchPage("live", c, s)
  PROVE  Kept(c, s)
<1>1. provider = "graph" \/ s = "alerts"
  BY DEF Reads, StreamsOf
<1> QED
  BY <1>1, SentinelKeeps, GraphKeeps, SplunkKeeps, ElasticKeeps DEF FetchPage

----------------------------------------------------------------------------
\* Steps.

\* Time passes, rows are shown late, pages are stored and set aside: what is
\* covered stays so.
LEMMA CoverStays ==
  ASSUME Typed, ShownInTime, NEW s, NEW c \in CursorSet, c.kind \in {"v1", "v2"}, Shaped(c),
         NEW P, NEW Q, Covered(s, c, P),
         provider' = provider, clock \in Nat, clock' \in Nat, clock <= clock',
         shown \subseteq shown', tardy \subseteq tardy', shown' \subseteq Rows,
         \A r \in shown' \ shown : clock <= At[r] + Late /\ At[r] <= clock
                                   /\ (At[r] < clock => r \in tardy'),
         kept \cup aside \cup P \subseteq kept' \cup aside' \cup Q
  PROVE  Covered(s, c, Q)'
<1>1. \A r \in Rows : At[r] \in Nat
  BY RowFacts
<1>2. CASE provider = "elastic"
  <2> SUFFICES ASSUME NEW r \in Rows, r \notin kept' \cup aside' \cup Q, Behind(c, r)
               PROVE  Loose(r)' \/ (r \notin shown' /\ At[r] < clock')
    BY <1>2 DEF Covered, Unstored, Excused, Behind
  <2>1. Excused(r)
    BY <1>2 DEF Covered, Unstored
  <2>2. CASE Loose(r)
    BY <2>2 DEF Loose, Ties
  <2>3. CASE r \notin shown /\ At[r] < clock
    <3>1. CASE r \in shown'
      BY <1>2, <2>3, <3>1 DEF Loose, Ties
    <3>2. CASE r \notin shown'
      BY <1>1, <2>3, <3>2
    <3> QED
      BY <3>1, <3>2
  <2> QED
    BY <2>1, <2>2, <2>3 DEF Excused
<1>3. CASE provider # "elastic"
  <2> SUFFICES ASSUME NEW r \in Rows, r \notin kept' \cup aside' \cup Q,
                      r \in Claimed(s, c)'
               PROVE  Ahead(c, r)'
    BY <1>3 DEF Covered, Unstored
  <2>1. Ahead(c, r) => Ahead(c, r)'
    BY DEF Ahead, Unread
  <2>2. CASE r \in shown
    <3>1. r \in Claimed(s, c)
      BY <2>2 DEF Claimed, Latest, Readable, Changes, StreamOf, InQuery, Fingerprinted
    <3>2. r \in Unstored(P)
      BY DEF Unstored
    <3> QED
      BY <1>3, <2>1, <3>1, <3>2 DEF Covered
  <2>3. CASE r \notin shown
    <3>1. r \in shown'
      BY DEF Claimed, Latest, Readable
    <3>2. clock <= At[r] + Late /\ c.end <= clock /\ (c.kind = "v1" /\ c.more => c.start <= clock)
      BY <1>3, <2>3, <3>1 DEF Shaped
    <3>3. c.start \in Nat /\ c.end \in Nat /\ At[r] \in Nat /\ Late \in Nat
      BY <1>1, CursorFields, SourceAssumption
    <3>4. Back(c.end) <= At[r] /\ (c.kind = "v1" /\ c.more => Back(c.start) <= At[r])
      <4>1. c.end <= At[r] + Late /\ (c.kind = "v1" /\ c.more => c.start <= At[r] + Late)
        BY <3>2, <3>3
      <4> QED
        BY <3>3, <4>1, BackFacts
    <3>5. Ahead(c, r)
      BY <1>3, <3>4 DEF Ahead
    <3> QED
      BY <2>1, <3>5
  <2> QED
    BY <2>2, <2>3
<1> QED
  BY <1>2, <1>3

LEMMA ShapeStays ==
  ASSUME NEW c \in CursorSet, Shaped(c), provider' = provider, clock \in Nat, clock' \in Nat,
         clock <= clock'
  PROVE  Shaped(c)'
<1>1. c.start \in Nat /\ c.end \in Nat
  BY CursorFields
<1> QED
  BY <1>1 DEF Shaped, Fingerprinted


\* Time and the source go on; what is stored stays.
Onward ==
  /\ provider' = provider /\ clock' \in Nat /\ clock <= clock'
  /\ shown \subseteq shown' /\ tardy \subseteq tardy' /\ shown' \subseteq Rows
  /\ \A r \in shown' \ shown :
       clock <= At[r] + Late /\ At[r] <= clock /\ (At[r] < clock => r \in tardy')
  /\ kept \cup aside \subseteq kept' \cup aside'

LEMMA SoundStays ==
  ASSUME Typed, ShownInTime, Onward, NEW s, NEW c \in CursorSet, c.kind # "backfill", Sound(s, c)
  PROVE  Sound(s, c)'
<1>1. clock \in Nat /\ c.kind \in {"none", "v1", "v2"}
  BY CursorFields DEF Typed, TypeOK
<1>2. Shaped(c)'
  BY <1>1, ShapeStays DEF Sound, Onward
<1>3. c.kind # "none" => Covered(s, c, {})'
  <2> SUFFICES ASSUME c.kind # "none" PROVE Covered(s, c, {})'
    OBVIOUS
  <2>1. Covered(s, c, {}) /\ Shaped(c) /\ c.kind \in {"v1", "v2"}
    BY <1>1 DEF Sound
  <2>2. kept \cup aside \cup {} \subseteq kept' \cup aside' \cup {}
    BY DEF Onward
  <2> QED
    BY <1>1, <2>1, <2>2, CoverStays DEF Onward
<1> QED
  BY <1>2, <1>3 DEF Sound

LEMMA KeepsStays ==
  ASSUME Typed, ShownInTime, Onward, NEW s, NEW n \in CursorSet, NEW p, NEW q, Keeps(s, p, n),
         p \subseteq kept' \cup aside' \cup q
  PROVE  Keeps(s, q, n)'
<1>1. clock \in Nat /\ n.kind \in {"v1", "v2"} /\ Shaped(n) /\ Covered(s, n, p)
  BY DEF Typed, TypeOK, Keeps
<1>2. Shaped(n)'
  BY <1>1, ShapeStays DEF Onward
<1>3. kept \cup aside \cup p \subseteq kept' \cup aside' \cup q
  BY DEF Onward
<1>4. Covered(s, n, q)'
  BY <1>1, <1>3, CoverStays DEF Onward
<1> QED
  BY <1>2, <1>4 DEF Keeps

\* Steps that move no cursor and put no page in the worker's hand.
LEMMA QuietCovering ==
  ASSUME Typed, Covering, Onward, UNCHANGED cursor,
         phase'["live"] = "commit" =>
           /\ phase["live"] = "commit" /\ stream'["live"] = stream["live"]
           /\ hand'["live"].next = hand["live"].next
           /\ hand["live"].rows \cup hand["live"].bad
              \subseteq kept' \cup aside' \cup hand'["live"].rows \cup hand'["live"].bad
  PROVE  Covering'
<1>1. CursorsCover /\ HandCovers /\ ShownInTime
  BY DEF Covering
<1>2. ASSUME NEW s \in StreamsOf, NEW c \in CursorSet, c = cursor[s] PROVE Sound(s, c)'
  <2>1. c.kind # "backfill" /\ Sound(s, c)
    BY <1>1, <1>2 DEF CursorsCover, Typed, TypeOK, StreamsOf, Streams
  <2> QED
    BY <1>1, <2>1, SoundStays
<1>3. CursorsCover'
  BY <1>2 DEF CursorsCover, Onward, StreamsOf
<1>4. ASSUME phase'["live"] = "commit", NEW s \in Streams, NEW n \in CursorSet,
             NEW q \in SUBSET Rows, s = stream'["live"], n = hand'["live"].next,
             q = hand'["live"].rows \cup hand'["live"].bad
      PROVE  Keeps(s, q, n)'
  <2> DEFINE p == hand["live"].rows \cup hand["live"].bad
  <2>1. p \in SUBSET Rows
    BY DEF Typed, TypeOK, Readers
  <2>2. s = stream["live"] /\ n = hand["live"].next /\ phase["live"] = "commit"
        /\ p \subseteq kept' \cup aside' \cup q
    BY <1>4
  <2>3. Keeps(s, p, n)
    BY <1>1, <2>1, <2>2 DEF HandCovers
  <2> HIDE DEF p
  <2> QED
    BY <1>1, <2>2, <2>3, KeepsStays
<1>5. HandCovers'
  BY <1>4 DEF HandCovers
<1>6. ShownInTime'
  <2> SUFFICES ASSUME NEW r \in shown' PROVE At[r] <= clock'
    BY DEF ShownInTime
  <2>1. At[r] <= clock /\ At[r] \in Nat
    BY <1>1, RowFacts DEF Onward, ShownInTime
  <2> QED
    BY <2>1 DEF Onward, Typed, TypeOK
<1> QED
  BY <1>3, <1>5, <1>6 DEF Covering

\* Most steps leave the source, the ledger and the clock alone.
LEMMA StillOnward ==
  ASSUME Typed, UNCHANGED source, kept \cup aside \subseteq kept' \cup aside'
  PROVE  Onward
  BY DEF Onward, source, Typed, TypeOK

LEMMA ShowCovering == ASSUME Typed, Covering, NEW r \in Rows, Show(r) PROVE Covering'
<1>1. Onward
  BY DEF Onward, Show, ledger, Typed, TypeOK
<1> QED
  BY <1>1, QuietCovering DEF Show, saved, reader, ledger

LEMMA TickCovering == ASSUME Typed, Covering, Tick PROVE Covering'
<1>1. Onward
  BY SourceAssumption DEF Onward, Tick, ledger, Typed, TypeOK
<1> QED
  BY <1>1, QuietCovering DEF Tick, saved, reader, ledger

LEMMA LiveFetchCovering == ASSUME Typed, Covering, NEW s \in Streams, LiveFetch(s) PROVE Covering'
<1>1. UNCHANGED <<source, kept, aside, cursor>> /\ ~Refused(cursor[s])
      /\ FetchPage("live", cursor[s], s) /\ stream'["live"] = s
  BY DEF LiveFetch, ledger, saved, Typed, TypeOK, Readers
<1>2. Onward
  BY <1>1, StillOnward
<1>3. CursorsCover /\ ShownInTime
  BY DEF Covering
<1> DEFINE c == cursor[s]
<1>4. s \in StreamsOf /\ c \in CursorSet /\ c.kind # "backfill"
  BY DEF LiveFetch, Typed, TypeOK, Reading, Readers, StreamsOf, Streams
<1>5. Reads(s, c)
  BY <1>1, <1>3, <1>4 DEF Reads, CursorsCover
<1>6. Kept(c, s)
  <2> HIDE DEF c
  <2> QED
    BY <1>1, <1>5, PageKeeps DEF c
<1>7. PICK p \in SUBSET Rows, n \in CursorSet, complete \in BOOLEAN :
        Deliver("live", p, n, complete) /\ Keeps(s, p, n)
  BY <1>6 DEF Kept
<1>8. /\ hand'["live"].next = n /\ hand'["live"].rows \cup hand'["live"].bad = p
  <2>1. hand'["live"] = [rows |-> p \ Unkeyed(p), bad |-> Unkeyed(p), next |-> n,
                         complete |-> complete, strict |-> Strict("live")]
    BY <1>7 DEF Deliver, Typed, TypeOK, Readers
  <2> QED
    BY <2>1 DEF Unkeyed
<1>9. ASSUME NEW t \in StreamsOf, NEW d \in CursorSet, d = cursor[t] PROVE Sound(t, d)'
  <2>1. d.kind # "backfill" /\ Sound(t, d)
    BY <1>3, <1>9 DEF CursorsCover, Typed, TypeOK, StreamsOf, Streams
  <2> QED
    BY <1>2, <1>3, <2>1, SoundStays
<1>10. CursorsCover'
  BY <1>1, <1>9 DEF CursorsCover, source, StreamsOf
<1>11. Keeps(s, p, n)'
  BY <1>2, <1>3, <1>7, KeepsStays
<1>12. HandCovers'
  BY <1>1, <1>8, <1>11 DEF HandCovers
<1>13. ShownInTime'
  BY <1>1, <1>3 DEF ShownInTime, source
<1> QED
  BY <1>10, <1>12, <1>13 DEF Covering

LEMMA BackfillFetchCovering == ASSUME Typed, Covering, BackfillFetch PROVE Covering'
<1>1. PICK p \in SUBSET Rows, next \in CursorSet : Holds("backfill", p, next)
  <2>1. "backfill" \in Readers /\ TypeOK
    BY DEF Readers, Typed
  <2>2. Fetched("backfill", refill, stream["backfill"])
    BY <2>1, PageFetched DEF Typed, TypeOK, Reading, BackfillFetch
  <2> QED
    BY <2>1, <2>2, PageHeld
<1>2. hand'["live"] = hand["live"] /\ phase'["live"] = phase["live"]
  BY <1>1 DEF Holds, BackfillFetch, Typed, TypeOK, Readers
<1>3. Onward
  BY StillOnward DEF BackfillFetch, ledger
<1> QED
  BY <1>2, <1>3, QuietCovering DEF BackfillFetch, saved, ledger

LEMMA SetAsideCovering ==
  ASSUME Typed, Covering, NEW w \in Readers, SetAside(w) PROVE Covering'
<1>1. Onward
  BY StillOnward DEF SetAside
<1>2. /\ hand'["live"].next = hand["live"].next
      /\ hand["live"].rows \cup hand["live"].bad
         \subseteq aside' \cup hand'["live"].rows \cup hand'["live"].bad
  BY DEF SetAside, Typed, TypeOK, Readers
<1> QED
  BY <1>1, <1>2, QuietCovering DEF SetAside, saved

LEMMA LiveCommitCovering == ASSUME Typed, Covering, LiveCommit PROVE Covering'
<1>1. /\ UNCHANGED <<source, aside>> /\ kept' = kept \cup hand["live"].rows
      /\ phase["live"] = "commit" /\ hand["live"].bad = {} /\ phase'["live"] # "commit"
      /\ cursor' = [cursor EXCEPT ![stream["live"]] = hand["live"].next]
  BY DEF LiveCommit, Store, Saved, SavedAlways, Done, Typed, TypeOK, Readers
<1>2. PICK s \in Streams : s = stream["live"]
  BY DEF Typed, TypeOK, Readers
<1>3. PICK n \in CursorSet : n = hand["live"].next /\ n.kind # "backfill"
  BY DEF Typed, TypeOK, Reading, Readers
<1>4. PICK p \in SUBSET Rows : p = hand["live"].rows \cup hand["live"].bad
  BY DEF Typed, TypeOK, Readers
<1>5. Onward
  BY <1>1, StillOnward
<1>6. CursorsCover /\ HandCovers /\ ShownInTime
  BY DEF Covering
<1>7. Keeps(s, p, n)
  BY <1>1, <1>2, <1>3, <1>4, <1>6 DEF HandCovers
<1>8. Keeps(s, {}, n)'
  <2>1. p \subseteq kept' \cup aside' \cup {}
    BY <1>1, <1>4
  <2> QED
    BY <1>5, <1>6, <1>7, <2>1, KeepsStays
<1>9. Sound(s, n)'
  BY <1>8 DEF Keeps, Sound
<1>10. ASSUME NEW t \in StreamsOf, NEW d \in CursorSet, d = cursor'[t] PROVE Sound(t, d)'
  <2>1. t \in Streams /\ cursor \in [Streams -> CursorSet] /\ cursor[t].kind # "backfill"
    BY DEF StreamsOf, Streams, Typed, TypeOK
  <2>2. CASE t = s
    BY <1>1, <1>2, <1>3, <1>9, <1>10, <2>1, <2>2
  <2>3. CASE t # s
    <3>1. d = cursor[t]
      BY <1>1, <1>2, <1>10, <2>1, <2>3
    <3> QED
      BY <1>5, <1>6, <2>1, <3>1, SoundStays DEF CursorsCover
  <2> QED
    BY <2>2, <2>3
<1>11. CursorsCover'
  BY <1>1, <1>10 DEF CursorsCover, source, StreamsOf
<1>12. HandCovers'
  BY <1>1 DEF HandCovers
<1>13. ShownInTime'
  BY <1>1, <1>6 DEF ShownInTime, source
<1> QED
  BY <1>11, <1>12, <1>13 DEF Covering

LEMMA BackfillCommitCovering == ASSUME Typed, Covering, BackfillCommit PROVE Covering'
<1>1. Onward
  BY StillOnward DEF BackfillCommit, Store
<1>2. hand'["live"] = hand["live"] /\ phase'["live"] = phase["live"]
  BY DEF BackfillCommit, Done, Typed, TypeOK, Readers
<1>3. UNCHANGED <<cursor, stream>>
  BY DEF BackfillCommit, Saved
<1> QED
  BY <1>1, <1>2, <1>3, QuietCovering

LEMMA LiveFailsCovering == ASSUME Typed, Covering, LiveFails PROVE Covering'
<1>1. Onward /\ phase'["live"] # "commit"
  BY StillOnward DEF LiveFails, ledger, Done, Typed, TypeOK, Readers
<1> QED
  BY <1>1, QuietCovering DEF LiveFails, saved

LEMMA BackfillFailsCovering == ASSUME Typed, Covering, BackfillFails PROVE Covering'
<1>1. Onward /\ phase'["live"] = phase["live"] /\ hand'["live"] = hand["live"]
  BY StillOnward DEF BackfillFails, ledger, Done, Typed, TypeOK, Readers
<1> QED
  BY <1>1, QuietCovering DEF BackfillFails, saved

\* A confirmed cursor answers for nothing it has passed.
LEMMA ConfirmCovering == ASSUME Typed, Covering, NEW from \in Nat, Confirm(from) PROVE Covering'
<1> DEFINE n == ConfirmedCursor(from)
<1>1. /\ UNCHANGED <<source, ledger, phase, stream, hand>> /\ from <= clock /\ Fingerprinted
      /\ cursor' = [cursor EXCEPT !["alerts"] = n]
  BY DEF Confirm, reader, Confirmable
<1>2. /\ n.kind = "v2" /\ n.from = Back(from) /\ n.end = from /\ ~n.more
      /\ n.rows = {} /\ n.job = "none"
  BY DEF ConfirmedCursor, NoCursor
<1> HIDE DEF n
<1>3. Onward /\ provider # "elastic" /\ provider' = provider
  BY <1>1, StillOnward DEF ledger, source, Fingerprinted
<1>4. CursorsCover /\ HandCovers /\ ShownInTime
  BY DEF Covering
<1>5. ASSUME NEW t \in StreamsOf, NEW d \in CursorSet, d = cursor'[t] PROVE Sound(t, d)'
  <2>1. t \in Streams /\ cursor \in [Streams -> CursorSet] /\ cursor[t].kind # "backfill"
    BY DEF StreamsOf, Streams, Typed, TypeOK
  <2>2. CASE t = "alerts"
    <3>1. d = n
      BY <1>1, <1>5, <2>1, <2>2
    <3>2. Shaped(d)'
      BY <1>1, <1>2, <3>1 DEF Shaped, source
    <3>3. ASSUME NEW r \in Claimed(t, d)' PROVE Ahead(d, r)'
      BY <1>2, <1>3, <3>1, <3>3 DEF Claimed, Ahead
    <3> QED
      BY <1>3, <3>2, <3>3 DEF Sound, Covered
  <2>3. CASE t # "alerts"
    <3>1. d = cursor[t]
      BY <1>1, <1>5, <2>1, <2>3
    <3> QED
      BY <1>3, <1>4, <2>1, <3>1, SoundStays DEF CursorsCover
  <2> QED
    BY <2>2, <2>3
<1>6. CursorsCover'
  BY <1>3, <1>5 DEF CursorsCover, StreamsOf
<1>7. HandCovers'
  <2> SUFFICES ASSUME phase'["live"] = "commit", NEW s \in Streams, NEW m \in CursorSet,
                      NEW p \in SUBSET Rows, s = stream'["live"], m = hand'["live"].next,
                      p = hand'["live"].rows \cup hand'["live"].bad
               PROVE  Keeps(s, p, m)'
    BY DEF HandCovers
  <2>1. Keeps(s, p, m)
    BY <1>1, <1>4 DEF HandCovers
  <2> QED
    BY <1>3, <1>4, <2>1, KeepsStays
<1>8. ShownInTime'
  BY <1>1, <1>4 DEF ShownInTime, source
<1> QED
  BY <1>6, <1>7, <1>8 DEF Covering

\* The administrator's other requests, a stop and a start.
LEMMA RequestCovering ==
  ASSUME Typed, Covering,
         \/ \E b \in BOOLEAN : SetPause(b)
         \/ AllowBadRowsOnce \/ PatchReads \/ PatchApplies
         \/ \E t \in Streams, from, to \in Nat : Backfill(t, from, to)
         \/ Stop \/ Begin \/ UNCHANGED vars
  PROVE  Covering'
<1>1. Onward
  BY StillOnward DEF SetPause, AllowBadRowsOnce, PatchReads, PatchApplies, Backfill, Stop, Begin,
     vars, ledger
<1>2. cursor' = cursor
  BY DEF SetPause, AllowBadRowsOnce, PatchReads, PatchApplies, Backfill, Stop, Begin, vars, saved
<1>3. \/ phase'["live"] # "commit"
      \/ /\ phase'["live"] = phase["live"] /\ stream'["live"] = stream["live"]
         /\ hand'["live"] = hand["live"]
  <2>1. CASE Stop \/ PatchApplies
    BY <2>1 DEF Stop, PatchApplies, Quiet, NewWorker, Done, Typed, TypeOK, Readers
  <2>2. CASE \E t \in Streams, from, to \in Nat : Backfill(t, from, to)
    BY <2>2 DEF Backfill, Typed, TypeOK, Readers
  <2>3. CASE \/ \E b \in BOOLEAN : SetPause(b)
             \/ AllowBadRowsOnce \/ PatchReads \/ Begin \/ UNCHANGED vars
    BY <2>3 DEF SetPause, AllowBadRowsOnce, PatchReads, Begin, vars, reader
  <2> QED
    BY <2>1, <2>2, <2>3
<1> QED
  BY <1>1, <1>2, <1>3, QuietCovering

LEMMA StepCovering == Typed /\ Covering /\ [Next]_vars => Covering'
<1> SUFFICES ASSUME Typed, Covering, [Next]_vars PROVE Covering'
  OBVIOUS
<1>1. "live" \in Readers /\ "backfill" \in Readers /\ 0 .. clock \subseteq Nat
  BY DEF Readers, Typed, TypeOK
<1>2. CASE (\E r \in Rows : Show(r)) \/ Tick
  BY <1>2, ShowCovering, TickCovering
<1>3. CASE Live \/ LiveFails
  BY <1>1, <1>3, LiveFetchCovering, SetAsideCovering, LiveCommitCovering, LiveFailsCovering
     DEF Live
<1>4. CASE Refilling \/ BackfillFails
  BY <1>1, <1>4, BackfillFetchCovering, SetAsideCovering, BackfillCommitCovering,
     BackfillFailsCovering DEF Refilling
<1>5. CASE \E from \in 0 .. clock : Confirm(from)
  BY <1>1, <1>5, ConfirmCovering
<1>6. CASE \/ \E b \in BOOLEAN : SetPause(b)
           \/ AllowBadRowsOnce \/ PatchReads \/ PatchApplies
           \/ \E t \in Streams, from, to \in 0 .. clock : Backfill(t, from, to)
           \/ Stop \/ Begin \/ UNCHANGED vars
  BY <1>1, <1>6, RequestCovering
<1> QED
  BY <1>2, <1>3, <1>4, <1>5, <1>6 DEF Next

LEMMA InitCovering == Init => Covering
<1> SUFFICES ASSUME Init PROVE Covering
  OBVIOUS
<1>1. Typed /\ clock = FirstClock /\ FirstClock \in Nat
  BY InitTyped, SourceAssumption DEF Init
<1>2. ASSUME NEW s \in StreamsOf, NEW c \in CursorSet, c = cursor[s] PROVE Sound(s, c)
  <2>1. s \in Streams
    BY DEF StreamsOf, Streams
  <2>2. CASE cursor = [t \in Streams |-> NoCursor]
    BY <1>1, <1>2, <2>1, <2>2 DEF NoCursor, Sound, Shaped
  <2>3. CASE /\ Fingerprinted
             /\ \E at \in 1 .. FirstClock, more \in BOOLEAN :
                  /\ kept = {r \in shown \ (BadRows \cup Extra) : At[r] < at}
                  /\ cursor = [t \in Streams |-> OldCursor(at, more)]
    <3>1. PICK at \in 1 .. FirstClock, more \in BOOLEAN : c = OldCursor(at, more)
      BY <1>2, <2>1, <2>3
    <3>2. at \in Nat /\ at <= FirstClock
      BY <1>1
    <3>3. /\ c.kind = "v1" /\ c.from = at /\ c.more = more /\ c.rows = {} /\ c.job = "none"
          /\ c.start = (IF more THEN at ELSE 0) /\ c.end = (IF more THEN FirstClock ELSE at)
      BY <3>1 DEF OldCursor, NoCursor
    <3>4. Shaped(c)
      BY <1>1, <2>3, <3>2, <3>3 DEF Shaped
    <3>5. ASSUME NEW r \in Rows, r \in Claimed(s, c) PROVE Ahead(c, r)
      <4>1. At[r] \in Nat /\ Back(at) \in Nat /\ Back(at) <= at /\ At[r] >= at
        BY <3>2, <3>3, <3>5, RowFacts, BackFacts DEF Claimed
      <4>2. At[r] >= Back(at)
        BY <3>2, <4>1
      <4>3. (IF c.kind = "v1" /\ c.more THEN c.start ELSE c.end) = at
        BY <3>3
      <4> QED
        BY <2>3, <4>2, <4>3 DEF Ahead, Fingerprinted
    <3> QED
      BY <2>3, <3>4, <3>5 DEF Sound, Covered, Unstored, Fingerprinted
  <2> QED
    BY <2>2, <2>3 DEF Init
<1>3. HandCovers
  BY DEF Init, HandCovers, Readers
<1>4. ShownInTime
  BY <1>1, RowFacts DEF Init, ShownInTime
<1> QED
  BY <1>2, <1>3, <1>4 DEF Covering, CursorsCover

\* A cursor never moves past a row it answers for: through any polls, faults,
\* lost jobs, late rows, pauses, backfills and changes of the query, the row is
\* stored, set aside or still to be met (ConnectionWorker._poll_once over the
\* connectors' fetch_page and resolve_window).  Elastic's cursor, without an
\* overlap, is excused the rows that are late and the ties beyond a page.
THEOREM NoRowPassed == Spec => []NothingPassed
<1>1. Typed /\ Covering => NothingPassed
  <2> SUFFICES ASSUME Typed, Covering, NEW s \in StreamsOf, cursor[s].kind # "none",
                      NEW r \in Passed(s)
               PROVE  Loose(r)
    BY DEF NothingPassed
  <2> DEFINE c == cursor[s]
  <2>1. c \in CursorSet /\ shown \subseteq Rows
    BY DEF Typed, TypeOK, StreamsOf, Streams
  <2>2. Sound(s, c)
    BY <2>1 DEF Covering, CursorsCover
  <2>3. r \in Owed(s, c) /\ r \notin kept \cup aside /\ ~Ahead(c, r)
    BY DEF Passed
  <2> HIDE DEF c
  <2>4. r \in shown /\ r \in Unstored({}) /\ At[r] >= c.from
    BY <2>1, <2>3 DEF Owed, Latest, Readable, Unstored
  <2>5. r \in Claimed(s, c)
    BY <2>3 DEF Owed, Claimed
  <2>6. Covered(s, c, {})
    BY <2>2 DEF Sound, c
  <2>7. CASE provider = "elastic"
    <3>1. At[r] \in Nat /\ c.start \in Nat /\ c.from \in Nat
      BY <2>1, <2>4, RowFacts, CursorFields DEF Unstored
    <3>2. Behind(c, r)
      BY <2>3, <2>4, <2>7, <3>1 DEF Ahead, Behind
    <3> QED
      BY <2>4, <2>6, <2>7, <3>2 DEF Covered, Excused
  <2>8. CASE provider # "elastic"
    BY <2>3, <2>4, <2>5, <2>6, <2>8 DEF Covered
  <2> QED
    BY <2>7, <2>8
<1> QED
  BY <1>1, InitTyped, StepTyped, InitCovering, StepCovering, PTL DEF Spec
=============================================================================
