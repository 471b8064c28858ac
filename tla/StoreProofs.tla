----------------------------- MODULE StoreProofs -----------------------------
(***************************************************************************)
(* Theorems about Store: the audit log tells nothing but what was          *)
(* committed, and all of it but the changes cut off before the transaction *)
(* that records them; and only a cancellation that met BEGIN leaves a      *)
(* transaction open.  For any number of writers, cancellations, crashes.   *)
(*                                                                         *)
(* The argument.  The queue of the connection's thread holds what is left  *)
(* of one transaction and then only BEGINs (Shape); the one who holds the  *)
(* lock waits for the last statement (Held); so a transaction that is      *)
(* still wanted is alone in the queue, and what the statement at the head  *)
(* will find is known (Data).                                              *)
(***************************************************************************)
EXTENDS Store, SequenceTheorems, TLAPS

Statements == [kind : Awaited, by : Operations]
Hashes == (Operations \X {1, 2}) \cup {Genesis}
Items == [entry : Operations \X {1, 2}, prev : Hashes]
Stores == [changes : SUBSET Operations, log : Seq(Items)]

\* Types.
Typed ==
  /\ job \in [Operations -> Awaited \cup {"new", "between", "done", "failed"}]
  /\ line \in Seq(Statements)
  /\ tables \in Stores /\ disk \in Stores
  /\ looked \in [Operations -> Hashes]
  /\ opened \in BOOLEAN /\ beginCut \in BOOLEAN

\* The holder of the lock, and nobody else, waits for a statement: the last.
Held ==
  /\ \A o \in Operations : job[o] \in Awaited <=> owner = o
  /\ owner # Nobody =>
       /\ owner \in Operations /\ line # <<>>
       /\ line[Len(line)] = [kind |-> job[owner], by |-> owner]

\* What is left of one transaction, then transactions that have not begun.
Shape ==
  /\ \A i \in 2 .. Len(line) :
       line[i].kind = "begin"
       \/ (i = 2 /\ line[1].kind \in Body /\ line[2].kind = "rollback")
  /\ line # <<>> /\ line[1].kind \in Body =>
       (owner # Nobody /\ Len(line) = 1) \/ (Len(line) > 1 /\ line[2].kind = "rollback")

\* What an operation's statement in the queue is there to do is not yet done.
Pending(o) ==
  /\ Wanted(o) \cap Written(disk.log) = {}
  /\ o \notin Apart => o \notin disk.changes

\* Each operation has its turn once, or, recorded apart, once for each part.
Turns ==
  /\ \A o \in Operations : job[o] \in {"new", "between"} =>
       /\ Pending(o) /\ \A i \in 1 .. Len(line) : line[i].by # o
       /\ job[o] = "new" <=> o \notin disk.changes
  /\ \A o \in Operations : job[o] = "done" =>
       o \in disk.changes /\ Wanted(o) \subseteq Written(disk.log)
  /\ \A i \in 1 .. Len(line) : Pending(line[i].by)
  /\ \A i, j \in 1 .. Len(line) : i < j /\ line[j].kind = "begin" => line[i].by # line[j].by

\* A transaction nobody ends.
Left ==
  /\ \A i \in 1 .. Len(line) :
       line[i].kind = "begin" /\ job[line[i].by] # "begin" => beginCut
  /\ opened /\ (line = <<>> \/ line[1].kind = "begin") => beginCut

\* What the statement at the head finds.
Some(o) ==
  Written(tables.log) = Written(disk.log)
  \/ (o \in Doubles /\ Written(tables.log) = Written(disk.log) \cup {<<o, 1>>})
Changed(o) == tables.changes = disk.changes \cup {o}
Recorded(o) ==
  \/ Written(tables.log) = Written(disk.log) \cup Wanted(o)
  \/ o \in Apart /\ o \notin disk.changes /\ Written(tables.log) = Written(disk.log)
Told ==
  /\ Verifies(tables.log) /\ Verifies(disk.log)
  /\ Written(disk.log) \subseteq UNION {Wanted(o) : o \in disk.changes}
  /\ \A o \in disk.changes \ Apart : Wanted(o) \subseteq Written(disk.log)
Data ==
  /\ Told
  /\ line = <<>> => tables = disk
  /\ line # <<>> =>
       LET o == line[1].by  k == line[1].kind
       IN /\ k \in {"begin", "change"} => tables = disk
          /\ k = "change" => o \notin disk.changes
          /\ k \in {"look", "insert"} =>
               Changed(o) /\ Some(o) /\ (o \in Apart => o \in disk.changes)
          /\ k = "insert" => looked[o] = LastHash(tables.log)
          /\ k = "commit" => Changed(o) /\ Recorded(o)

Inv == Typed /\ Held /\ Shape /\ Turns /\ Left /\ Data

----------------------------------------------------------------------------
\* An entry is appended to the log.

LEMMA LogGrows ==
  ASSUME NEW log \in Seq(Items), NEW x \in Items
  PROVE  /\ Append(log, x) \in Seq(Items)
         /\ Written(Append(log, x)) = Written(log) \cup {x.entry}
         /\ Verifies(log) /\ x.prev = LastHash(log) => Verifies(Append(log, x))
<1> DEFINE new == Append(log, x)
<1>1. /\ new \in Seq(Items) /\ Len(new) = Len(log) + 1 /\ Len(log) \in Nat
      /\ \A i \in 1 .. Len(log) : new[i] = log[i]
      /\ new[Len(log) + 1] = x
  BY AppendProperties, LenProperties
<1>2. DOMAIN log = 1 .. Len(log) /\ DOMAIN new = 1 .. Len(log) + 1
  BY <1>1, LenProperties
<1> HIDE DEF new
<1>3. Written(new) = Written(log) \cup {x.entry}
  <2>1. \A i \in DOMAIN new : i \in DOMAIN log \/ i = Len(log) + 1
    BY <1>1, <1>2
  <2>2. \A i \in DOMAIN log : i \in DOMAIN new /\ new[i] = log[i]
    BY <1>1, <1>2
  <2>3. Len(log) + 1 \in DOMAIN new
    BY <1>1, <1>2
  <2> QED
    BY <1>1, <2>1, <2>2, <2>3 DEF Written
<1>4. ASSUME Verifies(log), x.prev = LastHash(log) PROVE Verifies(new)
  <2> SUFFICES ASSUME NEW i \in DOMAIN new
               PROVE  new[i].prev = IF i = 1 THEN Genesis ELSE new[i - 1].entry
    BY DEF Verifies
  <2>1. CASE i \in DOMAIN log
    <3>1. new[i] = log[i] /\ i \in Nat /\ (i # 1 => new[i - 1] = log[i - 1])
      BY <1>1, <1>2, <2>1
    <3> QED
      BY <1>4, <2>1, <3>1 DEF Verifies
  <2>2. CASE i \notin DOMAIN log
    <3>1. i = Len(log) + 1
      BY <1>1, <1>2, <2>2
    <3>2. CASE log = <<>>
      <4>1. i = 1 /\ new[i].prev = Genesis
        BY <1>1, <1>4, <3>1, <3>2, EmptySeq DEF LastHash
      <4> QED
        BY <4>1
    <3>3. CASE log # <<>>
      <4>1. Len(log) \in 1 .. Len(log) /\ i # 1 /\ i - 1 = Len(log)
        BY <1>1, <3>1, <3>3, EmptySeq
      <4>2. new[i - 1] = log[Len(log)]
        BY <1>1, <4>1
      <4> QED
        BY <1>1, <1>4, <3>1, <3>3, <4>1, <4>2 DEF LastHash
    <3> QED
      BY <3>2, <3>3
  <2> QED
    BY <2>1, <2>2
<1> QED
  BY <1>1, <1>3, <1>4 DEF new

\* The statement submitted goes to the end of the queue.
LEMMA LineGrows ==
  ASSUME NEW q \in Seq(Statements), NEW x \in Statements
  PROVE  /\ Append(q, x) \in Seq(Statements) /\ Append(q, x) # <<>>
         /\ Len(Append(q, x)) = Len(q) + 1 /\ Len(q) \in Nat
         /\ \A i \in 1 .. Len(q) : Append(q, x)[i] = q[i]
         /\ Append(q, x)[Len(q) + 1] = x
         /\ q = <<>> <=> Len(q) = 0
BY AppendProperties, LenProperties, EmptySeq

LEMMA LineShrinks ==
  ASSUME NEW q \in Seq(Statements), q # <<>>
  PROVE  /\ Len(q) \in Nat \ {0} /\ q[1] \in Statements /\ Head(q) = q[1]
         /\ Tail(q) \in Seq(Statements) /\ Len(Tail(q)) = Len(q) - 1
         /\ \A i \in 1 .. Len(q) - 1 : Tail(q)[i] = q[i + 1]
         /\ Tail(q) = <<>> <=> Len(q) = 1
<1>1. Len(q) \in Nat \ {0}
  BY EmptySeq
<1>2. q[1] \in Statements
  BY <1>1, ElementOfSeq
<1>3. Head(q) = q[1]
  OBVIOUS
<1>4. /\ Tail(q) \in Seq(Statements) /\ Len(Tail(q)) = Len(q) - 1
      /\ \A i \in 1 .. Len(q) - 1 : Tail(q)[i] = q[i + 1]
  BY HeadTailProperties
<1>5. Tail(q) = <<>> <=> Len(q) = 1
  BY <1>1, <1>4, EmptySeq
<1> QED
  BY <1>1, <1>2, <1>3, <1>4, <1>5

----------------------------------------------------------------------------
\* What the invariant says of the statement at the head.

\* A transaction that is still wanted is alone in the queue.
LEMMA WantedIsAlone ==
  ASSUME Inv, line # <<>>, job[line[1].by] = line[1].kind
  PROVE  Len(line) = 1 /\ owner = line[1].by
<1>1. Len(line) \in Nat \ {0} /\ line[1] \in Statements
  BY LineShrinks DEF Inv, Typed
<1> DEFINE o == line[1].by
<1>2. o \in Operations /\ line[1].kind \in Awaited
  BY <1>1 DEF Statements
<1>3. owner = o
  BY <1>2 DEF Inv, Held
<1>4. line[Len(line)].kind = line[1].kind /\ line[Len(line)].by = line[1].by
  BY <1>2, <1>3, StoreAssumption DEF Inv, Held
<1>5. CASE Len(line) # 1
  <2>1. \A n \in Nat \ {0} : n # 1 => n \in 2 .. n /\ 1 \in 1 .. n /\ n \in 1 .. n /\ 1 < n
    OBVIOUS
  <2>2. Len(line) \in 2 .. Len(line) /\ 1 \in 1 .. Len(line) /\ Len(line) \in 1 .. Len(line)
        /\ 1 < Len(line)
    BY <1>1, <1>5, <2>1
  <2>3. CASE line[Len(line)].kind = "begin"
    BY <1>4, <2>2, <2>3 DEF Inv, Turns
  <2>4. CASE Len(line) = 2 /\ line[1].kind \in Body /\ line[2].kind = "rollback"
    BY <1>4, <2>4 DEF Body
  <2> QED
    BY <2>2, <2>3, <2>4 DEF Inv, Shape
<1> QED
  BY <1>3, <1>5

\* One whose task was cancelled is rolled back, if it had begun.
LEMMA UnwantedIsFollowed ==
  ASSUME Inv, line # <<>>, job[line[1].by] # line[1].kind
  PROVE  /\ owner # Nobody => Len(line) > 1
         /\ line[1].kind \in Body => Len(line) > 1 /\ line[2].kind = "rollback"
<1>1. Len(line) \in Nat \ {0} /\ line[1] \in Statements
  BY LineShrinks DEF Inv, Typed
<1>2. ASSUME owner # Nobody PROVE Len(line) # 1
  <2>1. line[Len(line)].kind = job[owner] /\ line[Len(line)].by = owner
    BY <1>2 DEF Inv, Held
  <2> QED
    BY <2>1
<1>3. owner # Nobody => Len(line) > 1
  <2>1. \A n \in Nat \ {0} : n # 1 => n > 1
    OBVIOUS
  <2> QED
    BY <1>1, <1>2, <2>1
<1>4. ASSUME line[1].kind \in Body PROVE Len(line) > 1 /\ line[2].kind = "rollback"
  <2>1. Shape
    BY DEF Inv
  <2>2. (owner # Nobody /\ Len(line) = 1) \/ (Len(line) > 1 /\ line[2].kind = "rollback")
    BY <1>4, <2>1, Zenon DEF Shape
  <2> QED
    BY <1>2, <2>2, Zenon
<1> QED
  BY <1>3, <1>4, Zenon

----------------------------------------------------------------------------
\* The steps.

LEMMA InitInv == StoreInit => Inv
<1> SUFFICES ASSUME StoreInit PROVE Inv
  OBVIOUS
<1>1. Typed
  BY EmptySeq DEF StoreInit, Typed, Stores, Hashes
<1>2. Held /\ Shape /\ Turns /\ Left
  BY EmptySeq, StoreAssumption
     DEF StoreInit, Held, Shape, Turns, Pending, Written, Left, Awaited, Body
<1>3. Data
  BY DEF StoreInit, Data, Told, Verifies, Written
<1> QED
  BY <1>1, <1>2, <1>3 DEF Inv

LEMMA AcquireInv == ASSUME Inv, NEW o \in Operations, Acquire(o) PROVE Inv'
<1> DEFINE x == [kind |-> "begin", by |-> o]
<1>1. /\ job[o] \in {"new", "between"} /\ owner = Nobody /\ owner' = o
      /\ line' = Append(line, x)
      /\ job' = [job EXCEPT ![o] = "begin"]
      /\ UNCHANGED <<opened, tables, disk, looked, beginCut>>
  BY DEF Acquire
<1>2. x \in Statements /\ x.kind = "begin" /\ x.by = o
  BY DEF Statements, Awaited
<1>3. line \in Seq(Statements) /\ job \in [Operations -> Awaited \cup {"new", "between", "done", "failed"}]
  BY DEF Inv, Typed
<1> HIDE DEF x
<1>4. /\ line' \in Seq(Statements) /\ line' # <<>>
      /\ Len(line') = Len(line) + 1 /\ Len(line) \in Nat
      /\ \A i \in 1 .. Len(line) : line'[i] = line[i]
      /\ line'[Len(line) + 1] = x
      /\ line = <<>> <=> Len(line) = 0
  BY <1>1, <1>2, <1>3, LineGrows
<1>5. job'[o] = "begin" /\ \A p \in Operations \ {o} : job'[p] = job[p]
  BY <1>1, <1>3
<1>6. ASSUME NEW i \in 1 .. Len(line) PROVE line[i].by \in Operations
  <2>1. line[i] \in Statements
    BY <1>3, ElementOfSeq
  <2> QED
    BY <2>1 DEF Statements
<1>7. Typed'
  BY <1>1, <1>4 DEF Inv, Typed, Awaited
<1>8. Held'
  <2>1. \A p \in Operations : job'[p] \in Awaited <=> owner' = p
    BY <1>1, <1>5, StoreAssumption DEF Inv, Held, Awaited
  <2>2. line'[Len(line')] = [kind |-> job'[owner'], by |-> owner']
    BY <1>1, <1>4, <1>5 DEF x
  <2> QED
    BY <1>1, <1>4, <2>1, <2>2 DEF Inv, Held
<1>9. Shape'
  <2>1. ASSUME NEW i \in 2 .. Len(line')
        PROVE  line'[i].kind = "begin"
               \/ (i = 2 /\ line'[1].kind \in Body /\ line'[2].kind = "rollback")
    <3>1. CASE i = Len(line) + 1
      BY <1>2, <1>4, <3>1
    <3>2. CASE i # Len(line) + 1
      <4>1. i \in 2 .. Len(line) /\ i \in 1 .. Len(line) /\ 1 \in 1 .. Len(line)
        BY <1>4, <3>2
      <4> QED
        BY <1>4, <4>1 DEF Inv, Shape
    <3> QED
      BY <3>1, <3>2
  <2>2. ASSUME line'[1].kind \in Body PROVE Len(line') > 1 /\ line'[2].kind = "rollback"
    <3>1. Len(line) # 0
      BY <1>2, <1>4, <2>2 DEF Body
    <3>2. line'[1] = line[1] /\ line # <<>>
      BY <1>4, <3>1
    <3>3. Len(line) > 1 /\ line[2].kind = "rollback"
      BY <1>1, <2>2, <3>2 DEF Inv, Shape
    <3> QED
      BY <1>4, <3>3
  <2> QED
    BY <2>1, <2>2 DEF Shape
<1>10. Turns'
  <2>0. /\ \A p : Pending(p) => Pending(p)'
        /\ Pending(o) /\ \A i \in 1 .. Len(line) : line[i].by # o
    BY <1>1 DEF Inv, Turns, Pending
  <2>1. ASSUME NEW p \in Operations, job'[p] \in {"new", "between"}
        PROVE  /\ Pending(p)' /\ \A i \in 1 .. Len(line') : line'[i].by # p
               /\ job'[p] = "new" <=> p \notin disk'.changes
    <3>1. p # o /\ job[p] = job'[p]
      BY <1>5, <2>1
    <3>2. Pending(p) /\ \A i \in 1 .. Len(line) : line[i].by # p
      BY <2>1, <3>1 DEF Inv, Turns
    <3> QED
      BY <1>1, <1>2, <1>4, <2>0, <2>1, <3>1, <3>2 DEF Inv, Turns
  <2>2. ASSUME NEW i \in 1 .. Len(line') PROVE Pending(line[i].by)'
    <3>1. Pending(line'[i].by)
      BY <1>2, <1>4, <2>0 DEF Inv, Turns
    <3> QED
      BY <2>0, <3>1 DEF Pending
  <2>4. ASSUME NEW p \in Operations, job'[p] = "done"
        PROVE  p \in disk'.changes /\ Wanted(p) \subseteq Written(disk'.log)
    <3>1. job[p] = "done"
      BY <1>5, <2>4
    <3> QED
      BY <1>1, <3>1 DEF Inv, Turns
  <2>3. ASSUME NEW i \in 1 .. Len(line'), NEW j \in 1 .. Len(line'), i < j,
               line'[j].kind = "begin"
        PROVE  line'[i].by # line'[j].by
    <3>1. i \in 1 .. Len(line) /\ line'[i] = line[i]
      BY <1>4, <2>3
    <3>2. CASE j = Len(line) + 1
      BY <1>2, <1>4, <2>0, <3>1, <3>2
    <3>3. CASE j \in 1 .. Len(line)
      BY <1>4, <2>3, <3>1, <3>3 DEF Inv, Turns
    <3> QED
      BY <1>4, <3>2, <3>3
  <2> QED
    BY <2>1, <2>2, <2>3, <2>4 DEF Turns
<1>11. Left'
  <2>1. ASSUME NEW i \in 1 .. Len(line'), line'[i].kind = "begin", job'[line'[i].by] # "begin"
        PROVE  beginCut'
    <3>1. i \in 1 .. Len(line) /\ line'[i] = line[i]
      BY <1>2, <1>4, <1>5, <2>1
    <3>2. line[i].by # o
      BY <1>5, <2>1, <3>1
    <3> QED
      BY <1>1, <1>5, <1>6, <2>1, <3>1, <3>2 DEF Inv, Left
  <2>2. ASSUME opened', line'[1].kind = "begin" PROVE beginCut'
    <3>1. line = <<>> \/ line'[1] = line[1]
      BY <1>4
    <3> QED
      BY <1>1, <2>2, <3>1 DEF Inv, Left
  <2> QED
    BY <1>4, <2>1, <2>2 DEF Left
<1>12. Data'
  <2>1. CASE line = <<>>
    <3>1. line'[1] = x
      BY <1>4, <2>1
    <3> QED
      BY <1>1, <1>2, <1>4, <2>1, <3>1 DEF Inv, Data, Told
  <2>2. CASE line # <<>>
    <3>1. line'[1] = line[1]
      BY <1>4, <2>2
    <3> QED
      BY <1>1, <1>4, <2>2, <3>1 DEF Inv, Data, Told, Recorded, Changed, Some
  <2> QED
    BY <2>1, <2>2
<1> QED
  BY <1>7, <1>8, <1>9, <1>10, <1>11, <1>12 DEF Inv

\* Steps that keep the head and the data.
LEMMA DataStays ==
  ASSUME Data, line # <<>>, line' # <<>>, line'[1] = line[1], UNCHANGED <<tables, disk, looked>>
  PROVE  Data'
BY DEF Data, Told, Recorded, Changed, Some

\* Cancelled in the body of the transaction: a ROLLBACK follows.
LEMMA CutBodyInv ==
  ASSUME Inv, NEW o \in Operations, job[o] \in Body, CutBody(o),
         UNCHANGED <<opened, tables, disk, looked, beginCut>>
  PROVE  Inv'
<1> DEFINE x == [kind |-> "rollback", by |-> o]
<1>1. /\ job' = [job EXCEPT ![o] = "rollback"] /\ line' = Append(line, x)
      /\ UNCHANGED owner
  BY DEF CutBody, AfterError, Submit
<1>2. x \in Statements /\ x.kind = "rollback" /\ x.by = o
  BY DEF Statements, Awaited
<1>3. line \in Seq(Statements) /\ job \in [Operations -> Awaited \cup {"new", "between", "done", "failed"}]
  BY DEF Inv, Typed
<1>4. /\ owner = o /\ owner # Nobody /\ line # <<>>
      /\ line[Len(line)].kind = job[o] /\ line[Len(line)].by = o
  BY StoreAssumption DEF Inv, Held, Awaited
<1> HIDE DEF x
<1>5. /\ line' \in Seq(Statements) /\ line' # <<>>
      /\ Len(line') = Len(line) + 1
      /\ \A i \in 1 .. Len(line) : line'[i] = line[i]
      /\ line'[Len(line) + 1] = x
  BY <1>1, <1>2, <1>3, LineGrows
<1>6. Len(line) \in Nat \ {0}
  BY <1>3, <1>4, LineShrinks
<1>7. Len(line) = 1
  <2>1. \A n \in Nat \ {0} : n # 1 => n \in 2 .. n
    OBVIOUS
  <2>2. CASE Len(line) # 1
    <3>1. Len(line) \in 2 .. Len(line)
      BY <1>6, <2>1, <2>2
    <3>2. line[Len(line)].kind = "begin" \/ line[Len(line)].kind = "rollback"
      BY <3>1 DEF Inv, Shape
    <3> QED
      BY <1>4, <3>2 DEF Body
  <2> QED
    BY <2>2
<1>8. Len(line') = 2 /\ line'[1] = line[1] /\ line'[2] = x /\ line[1].kind \in Body /\ line[1].by = o
  BY <1>4, <1>5, <1>7
<1>9. job'[o] = "rollback" /\ \A p \in Operations \ {o} : job'[p] = job[p]
  BY <1>1, <1>3
<1>10. \A i \in 1 .. Len(line') : i = 1 \/ i = 2
  BY <1>8
<1>11. \A i \in 1 .. Len(line') : line'[i].by = o /\ line'[i].kind # "begin"
  BY <1>2, <1>8, <1>10 DEF Body
<1>12. Typed'
  BY <1>1, <1>5 DEF Inv, Typed, Awaited
<1>13. Held'
  <2>1. \A p \in Operations : job'[p] \in Awaited <=> owner' = p
    BY <1>1, <1>4, <1>9 DEF Inv, Held, Awaited
  <2>2. line'[Len(line')] = [kind |-> job'[owner'], by |-> owner']
    BY <1>1, <1>4, <1>8, <1>9 DEF x
  <2> QED
    BY <1>1, <1>4, <1>5, <2>1, <2>2 DEF Held
<1>14. Shape'
  <2>1. \A i \in 2 .. Len(line') : i = 2
    BY <1>8
  <2>2. line'[2].kind = "rollback" /\ line'[1].kind \in Body /\ Len(line') > 1
    BY <1>2, <1>8
  <2> QED
    BY <2>1, <2>2 DEF Shape
<1>15. Turns'
  <2>1. job[o] # "new" /\ job'[o] # "new"
    BY <1>9 DEF Body
  <2>2. Pending(o)
    BY <1>4, <1>7, <1>8 DEF Inv, Turns
  <2>3. job'[o] \notin {"new", "between", "done"}
    BY <1>9
  <2>4. ASSUME NEW p \in Operations, job'[p] \in {"new", "between"}
        PROVE  p # o /\ Pending(p)' /\ (job'[p] = "new" <=> p \notin disk'.changes)
    BY <1>9, <2>3, <2>4 DEF Inv, Turns, Pending
  <2>5. ASSUME NEW p \in Operations, job'[p] = "done"
        PROVE  p \in disk'.changes /\ Wanted(p) \subseteq Written(disk'.log)
    BY <1>9, <2>3, <2>5 DEF Inv, Turns
  <2>6. \A i \in 1 .. Len(line') : Pending(line[i].by)'
    BY <1>11, <2>2 DEF Pending
  <2> QED
    BY <1>11, <2>4, <2>5, <2>6 DEF Turns
<1>16. Left'
  BY <1>5, <1>8, <1>11 DEF Left, Body
<1>17. Data'
  BY <1>4, <1>5, <1>8, DataStays DEF Inv
<1> QED
  BY <1>12, <1>13, <1>14, <1>15, <1>16, <1>17 DEF Inv

\* Cancelled elsewhere: the lock is given up, the statement is still to run.
LEMMA GivenUpInv ==
  ASSUME Inv, NEW o \in Operations, job[o] \in Awaited, job[o] \notin Body,
         Release(line, o, "failed"), UNCHANGED <<opened, tables, disk, looked>>,
         beginCut' = (beginCut \/ job[o] = "begin")
  PROVE  Inv'
<1>1. job' = [job EXCEPT ![o] = "failed"] /\ line' = line /\ owner' = Nobody
  BY DEF Release
<1>2. job'[o] = "failed" /\ \A p \in Operations \ {o} : job'[p] = job[p]
  BY <1>1 DEF Inv, Typed
<1>3. owner = o /\ owner # Nobody /\ line # <<>> /\ line[Len(line)].kind = job[o]
  BY StoreAssumption DEF Inv, Held
<1>4. Typed'
  BY <1>1 DEF Inv, Typed
<1>5. Held'
  <2>1. ASSUME NEW p \in Operations PROVE job'[p] \notin Awaited
    <3>1. CASE p = o
      BY <1>2, <3>1 DEF Awaited, Body
    <3>2. CASE p # o
      BY <1>2, <1>3, <3>2 DEF Inv, Held
    <3> QED
      BY <3>1, <3>2
  <2>2. \A p \in Operations : owner' # p
    BY <1>1, StoreAssumption
  <2> QED
    BY <1>1, <2>1, <2>2 DEF Held
<1>6. Shape'
  <2>1. Len(line) = 1 => line[1].kind \notin Body
    BY <1>3
  <2> QED
    BY <1>1, <2>1 DEF Inv, Shape
<1>7. Turns'
  <2>1. ASSUME NEW p \in Operations, job'[p] \in {"new", "between", "done"}
        PROVE  job'[p] = job[p]
    BY <1>2, <2>1
  <2> QED
    BY <1>1, <2>1 DEF Inv, Turns, Pending
<1>8. Left'
  <2>1. ASSUME NEW i \in 1 .. Len(line), line[i].kind = "begin", job'[line[i].by] # "begin"
        PROVE  beginCut'
    <3>1. line[i] \in Statements
      BY ElementOfSeq DEF Inv, Typed
    <3>2. line[i].by \in Operations
      BY <3>1 DEF Statements
    <3>3. CASE line[i].by = o /\ job[o] = "begin"
      BY <3>3
    <3>4. CASE job[line[i].by] # "begin"
      BY <2>1, <3>4 DEF Inv, Left
    <3> QED
      BY <1>2, <2>1, <3>2, <3>3, <3>4
  <2> QED
    BY <1>1, <2>1 DEF Inv, Left
<1>9. Data'
  BY <1>1, <1>3, DataStays DEF Inv
<1> QED
  BY <1>4, <1>5, <1>6, <1>7, <1>8, <1>9 DEF Inv

LEMMA CutInv == ASSUME Inv, NEW o \in Operations, Cut(o) PROVE Inv'
<1>1. CASE job[o] \in Body
  <2>1. job[o] # "begin"
    BY <1>1 DEF Body
  <2>2. beginCut' = beginCut
    BY <2>1 DEF Cut, Inv, Typed
  <2> QED
    BY <1>1, <2>2, CutBodyInv DEF Cut
<1>2. CASE job[o] \notin Body
  BY <1>2, GivenUpInv DEF Cut
<1> QED
  BY <1>1, <1>2

\* Cancelled between the two transactions.
LEMMA CutBetweenInv == ASSUME Inv, NEW o \in Operations, CutBetween(o) PROVE Inv'
<1>1. /\ job[o] = "between" /\ job' = [job EXCEPT ![o] = "failed"]
      /\ UNCHANGED <<owner, line, opened, tables, disk, looked, beginCut>>
  BY DEF CutBetween
<1>2. job'[o] = "failed" /\ \A p \in Operations \ {o} : job'[p] = job[p]
  BY <1>1 DEF Inv, Typed
<1>3. /\ owner # o
      /\ \A i \in 1 .. Len(line) : line[i].by # o
  BY <1>1 DEF Inv, Held, Turns, Awaited, Body
<1>4. Typed'
  BY <1>1 DEF Inv, Typed
<1>5. Held'
  <2>1. ASSUME NEW p \in Operations PROVE job'[p] \in Awaited <=> owner' = p
    <3>1. CASE p = o
      BY <1>1, <1>2, <1>3, <3>1 DEF Awaited, Body
    <3>2. CASE p # o
      BY <1>1, <1>2, <3>2 DEF Inv, Held
    <3> QED
      BY <3>1, <3>2
  <2>2. ASSUME owner # Nobody PROVE owner \in Operations /\ job'[owner] = job[owner]
    BY <1>2, <1>3, <2>2 DEF Inv, Held
  <2> QED
    BY <1>1, <2>1, <2>2 DEF Inv, Held
<1>6. Shape'
  BY <1>1 DEF Inv, Shape
<1>7. Turns'
  <2>1. ASSUME NEW p \in Operations, job'[p] \in {"new", "between", "done"}
        PROVE  job'[p] = job[p]
    BY <1>2, <2>1
  <2> QED
    BY <1>1, <2>1 DEF Inv, Turns, Pending
<1>8. Left'
  <2>1. ASSUME NEW i \in 1 .. Len(line) PROVE job'[line[i].by] = job[line[i].by]
    <3>1. line[i] \in Statements
      BY ElementOfSeq DEF Inv, Typed
    <3> QED
      BY <1>2, <1>3, <3>1 DEF Statements
  <2> QED
    BY <1>1, <2>1 DEF Inv, Left
<1>9. Data'
  BY <1>1 DEF Inv, Data, Told, Recorded, Changed, Some
<1> QED
  BY <1>4, <1>5, <1>6, <1>7, <1>8, <1>9 DEF Inv

LEMMA ReopenInv == ASSUME Inv, Reopen PROVE Inv'
<1>1. /\ job' = [o \in Operations |->
                   IF job[o] \in Awaited \cup {"between"} THEN "failed" ELSE job[o]]
      /\ owner' = Nobody /\ line' = <<>> /\ ~opened' /\ opened' \in BOOLEAN
      /\ tables' = disk /\ disk' = disk /\ beginCut' \in BOOLEAN
      /\ looked' = [o \in Operations |-> Genesis]
  BY DEF Reopen
<1>2. Len(line') = 0 /\ line' \in Seq(Statements)
  BY <1>1, EmptySeq
<1>3. Typed'
  BY <1>1, <1>2 DEF Inv, Typed, Hashes
<1>4. Held'
  BY <1>1, StoreAssumption DEF Held, Awaited, Body
<1>5. Shape' /\ Left'
  BY <1>1, <1>2 DEF Shape, Left
<1>6. Turns'
  BY <1>1, <1>2 DEF Inv, Turns, Pending
<1>7. Data'
  BY <1>1 DEF Inv, Data, Told
<1> QED
  BY <1>3, <1>4, <1>5, <1>6, <1>7 DEF Inv

----------------------------------------------------------------------------
\* The statement at the head runs.

\* An operation changes a table once, and records each of its decisions once.
LEMMA EntryIsNext ==
  ASSUME NEW o \in Operations, Pending(o), Some(o)
  PROVE  /\ Entry(o) \in Operations \X {1, 2}
         /\ IF Wanted(o) \subseteq Written(tables.log) \cup {Entry(o)}
              THEN Written(tables.log) \cup {Entry(o)} = Written(disk.log) \cup Wanted(o)
              ELSE /\ o \in Doubles
                   /\ Written(tables.log) \cup {Entry(o)} = Written(disk.log) \cup {<<o, 1>>}
<1> DEFINE first == <<o, 1>>  second == <<o, 2>>
<1>1. first \notin Written(disk.log) /\ (o \in Doubles => second \notin Written(disk.log))
  <2>1. first \in Wanted(o) /\ (o \in Doubles => second \in Wanted(o))
    BY DEF Wanted
  <2> HIDE DEF first, second
  <2> QED
    BY <2>1 DEF Pending
<1>2. first # second
  OBVIOUS
<1>3. CASE Written(tables.log) = Written(disk.log)
  <2>1. Entry(o) = first
    BY <1>1, <1>3 DEF Entry
  <2>2. CASE o \in Doubles
    <3>1. Wanted(o) = {first, second}
      BY <2>2 DEF Wanted
    <3> HIDE DEF first, second
    <3>2. ~(Wanted(o) \subseteq Written(tables.log) \cup {Entry(o)})
      BY <1>1, <1>2, <1>3, <2>1, <2>2, <3>1
    <3> QED
      BY <1>3, <2>1, <2>2, <3>2 DEF first
  <2>3. CASE o \notin Doubles
    <3>1. Wanted(o) = {first}
      BY <2>3 DEF Wanted
    <3> QED
      BY <1>3, <2>1, <3>1
  <2> QED
    BY <2>2, <2>3
<1>4. CASE o \in Doubles /\ Written(tables.log) = Written(disk.log) \cup {first}
  <2>1. Entry(o) = second
    BY <1>4 DEF Entry
  <2>2. Wanted(o) = {first, second}
    BY <1>4 DEF Wanted
  <2> QED
    BY <1>4, <2>1, <2>2
<1> QED
  BY <1>3, <1>4 DEF Some

\* What a statement does to the tables, the disk and the log.
LEMMA ExecuteEffect ==
  ASSUME Inv, line # <<>>, NEW o, NEW k, line[1].by = o, line[1].kind = k, Execute(line[1])
  PROVE  /\ o \in Operations /\ k \in Awaited /\ Pending(o)
         /\ tables' \in Stores /\ disk' \in Stores /\ opened' \in BOOLEAN
         /\ looked' \in [Operations -> Hashes]
         /\ Told'
         /\ IF k = "commit" THEN disk' = tables /\ Changed(o) /\ Recorded(o)
                            ELSE disk' = disk
         /\ k = "begin" => tables' = disk'
         /\ k \in {"commit", "rollback"} => tables' = disk' /\ ~opened'
         /\ k = "change" => /\ o \notin disk.changes /\ Changed(o)'
                           /\ Written(tables'.log) = Written(disk'.log)
         /\ k = "look" => /\ (Changed(o) /\ Some(o))' /\ (o \in Apart => o \in disk.changes)
                         /\ looked'[o] = LastHash(tables'.log)
         /\ k = "insert" =>
              /\ Changed(o)' /\ (o \in Apart => o \in disk.changes)
              /\ IF Wanted(o) \subseteq Written(tables.log) \cup {Entry(o)}
                   THEN Written(tables'.log) = Written(disk'.log) \cup Wanted(o)
                   ELSE Some(o)'
<1>1. line[1] \in Statements
  BY LineShrinks DEF Inv, Typed
<1>2. o \in Operations /\ k \in Awaited
  BY <1>1 DEF Statements
<1>3. Len(line) \in Nat \ {0}
  BY LineShrinks DEF Inv, Typed
<1>4. Pending(o)
  <2>1. 1 \in 1 .. Len(line)
    BY <1>3
  <2> QED
    BY <2>1 DEF Inv, Turns
<1>5. /\ tables \in Stores /\ disk \in Stores /\ looked \in [Operations -> Hashes]
      /\ opened \in BOOLEAN
      /\ Told
  BY DEF Inv, Typed, Data
<1>6. /\ k \in {"begin", "change"} => tables = disk
      /\ k = "change" => o \notin disk.changes
      /\ k \in {"look", "insert"} =>
           Changed(o) /\ Some(o) /\ (o \in Apart => o \in disk.changes)
      /\ k = "insert" => looked[o] = LastHash(tables.log)
      /\ k = "commit" => Changed(o) /\ Recorded(o)
  BY DEF Inv, Data
<1>7. opened' \in BOOLEAN
  BY <1>5 DEF Execute
<1>8. LastHash(tables.log) \in Hashes
  <2>1. CASE tables.log = <<>>
    BY <2>1 DEF LastHash, Hashes
  <2>2. CASE tables.log # <<>>
    <3>1. tables.log \in Seq(Items)
      BY <1>5 DEF Stores
    <3>2. tables.log[Len(tables.log)] \in Items
      <4>1. Len(tables.log) \in 1 .. Len(tables.log)
        BY <2>2, <3>1, EmptySeq
      <4> QED
        BY <3>1, <4>1, ElementOfSeq
    <3> QED
      BY <2>2, <3>2 DEF LastHash, Hashes, Items
  <2> QED
    BY <2>1, <2>2
<1>9. CASE k = "begin"
  <2>1. tables' = tables /\ disk' = disk /\ looked' = looked
    BY <1>9 DEF Execute
  <2> QED
    BY <1>2, <1>4, <1>5, <1>6, <1>7, <1>9, <2>1 DEF Told
<1>10. CASE k = "change"
  <2>1. tables' = [tables EXCEPT !.changes = tables.changes \cup {o}] /\ disk' = disk
        /\ looked' = looked
    BY <1>10 DEF Execute
  <2>2. tables'.changes = tables.changes \cup {o} /\ tables'.log = tables.log /\ tables' \in Stores
    BY <1>2, <1>5, <2>1 DEF Stores
  <2>3. Changed(o)' /\ Written(tables'.log) = Written(disk'.log)
    BY <1>6, <1>10, <2>1, <2>2 DEF Changed
  <2> QED
    BY <1>2, <1>4, <1>5, <1>6, <1>7, <1>10, <2>1, <2>2, <2>3 DEF Told
<1>11. CASE k = "look"
  <2>1. tables' = tables /\ disk' = disk
        /\ looked' = [looked EXCEPT ![o] = LastHash(tables.log)]
    BY <1>11 DEF Execute
  <2>2. looked'[o] = LastHash(tables'.log) /\ looked' \in [Operations -> Hashes]
    BY <1>2, <1>5, <1>8, <2>1
  <2>3. Changed(o)' /\ Some(o)'
    BY <1>6, <1>11, <2>1 DEF Changed, Some
  <2> QED
    BY <1>2, <1>4, <1>5, <1>6, <1>7, <1>11, <2>1, <2>2, <2>3 DEF Told
<1>12. CASE k = "insert"
  <2> DEFINE x == [entry |-> Entry(o), prev |-> looked[o]]
  <2>1. tables' = [tables EXCEPT !.log = Append(tables.log, x)] /\ disk' = disk
        /\ looked' = looked
    BY <1>12 DEF Execute
  <2>2. /\ Entry(o) \in Operations \X {1, 2}
        /\ IF Wanted(o) \subseteq Written(tables.log) \cup {Entry(o)}
             THEN Written(tables.log) \cup {Entry(o)} = Written(disk.log) \cup Wanted(o)
             ELSE /\ o \in Doubles
                  /\ Written(tables.log) \cup {Entry(o)} = Written(disk.log) \cup {<<o, 1>>}
    BY <1>2, <1>4, <1>6, <1>12, EntryIsNext
  <2>3. x \in Items /\ x.entry = Entry(o) /\ x.prev = LastHash(tables.log)
    BY <1>2, <1>5, <1>6, <1>12, <2>2 DEF Items
  <2>4. tables.log \in Seq(Items)
    BY <1>5 DEF Stores
  <2> HIDE DEF x
  <2>5. /\ Append(tables.log, x) \in Seq(Items)
        /\ Written(Append(tables.log, x)) = Written(tables.log) \cup {Entry(o)}
        /\ Verifies(Append(tables.log, x))
    BY <1>5, <2>3, <2>4, LogGrows DEF Told
  <2>6. tables'.log = Append(tables.log, x) /\ tables'.changes = tables.changes
        /\ tables' \in Stores
    BY <1>5, <2>1, <2>5 DEF Stores
  <2>7. Changed(o)'
    BY <1>6, <1>12, <2>1, <2>6 DEF Changed
  <2>8. Written(tables'.log) = Written(tables.log) \cup {Entry(o)}
    BY <2>5, <2>6
  <2>9. IF Wanted(o) \subseteq Written(tables.log) \cup {Entry(o)}
          THEN Written(tables'.log) = Written(disk'.log) \cup Wanted(o)
          ELSE Some(o)'
    BY <2>1, <2>2, <2>8 DEF Some
  <2>10. Verifies(tables'.log)
    BY <2>5, <2>6
  <2> QED
    BY <1>2, <1>4, <1>5, <1>6, <1>7, <1>12, <2>1, <2>6, <2>7, <2>9, <2>10 DEF Told
<1>13. CASE k = "commit"
  <2>1. tables' = tables /\ disk' = tables /\ looked' = looked /\ ~opened'
    BY <1>13 DEF Execute
  <2>2. Changed(o) /\ Recorded(o)
    BY <1>6, <1>13
  <2>3. Written(disk'.log) \subseteq UNION {Wanted(p) : p \in disk'.changes}
    BY <1>5, <2>1, <2>2 DEF Told, Changed, Recorded
  <2>4. \A p \in disk'.changes \ Apart : Wanted(p) \subseteq Written(disk'.log)
    BY <1>5, <2>1, <2>2 DEF Told, Changed, Recorded
  <2>5. Told'
    BY <1>5, <2>1, <2>3, <2>4 DEF Told
  <2> QED
    BY <1>2, <1>4, <1>5, <1>7, <1>13, <2>1, <2>2, <2>5
<1>14. CASE k = "rollback"
  <2>1. tables' = disk /\ disk' = disk /\ looked' = looked /\ ~opened'
    BY <1>14 DEF Execute
  <2> QED
    BY <1>2, <1>4, <1>5, <1>7, <1>14, <2>1 DEF Told
<1> QED
  BY <1>2, <1>9, <1>10, <1>11, <1>12, <1>13, <1>14 DEF Awaited, Body

\* A commit does another operation's part neither for it nor away.
LEMMA OthersKeep ==
  ASSUME Inv, line # <<>>, NEW o, NEW k, line[1].by = o, line[1].kind = k, Execute(line[1])
  PROVE  /\ \A p \in Operations : job[p] = "done" =>
              p \in disk'.changes /\ Wanted(p) \subseteq Written(disk'.log)
         /\ \A p \in Operations \ {o} :
              /\ Pending(p) => Pending(p)'
              /\ p \in disk'.changes <=> p \in disk.changes
<1>1. IF k = "commit" THEN disk' = tables /\ Changed(o) /\ Recorded(o) ELSE disk' = disk
  BY ExecuteEffect
<1>2. /\ Written(disk.log) \subseteq Written(disk'.log)
      /\ Written(disk'.log) \subseteq Written(disk.log) \cup Wanted(o)
      /\ disk.changes \subseteq disk'.changes /\ disk'.changes \subseteq disk.changes \cup {o}
  BY <1>1 DEF Changed, Recorded
<1>3. ASSUME NEW p \in Operations, job[p] = "done"
      PROVE  p \in disk'.changes /\ Wanted(p) \subseteq Written(disk'.log)
  BY <1>2, <1>3 DEF Inv, Turns
<1>4. ASSUME NEW p \in Operations \ {o}
      PROVE  /\ Pending(p) => Pending(p)'
             /\ p \in disk'.changes <=> p \in disk.changes
  <2>1. Wanted(p) \cap Wanted(o) = {}
    BY DEF Wanted
  <2> QED
    BY <1>2, <2>1 DEF Pending
<1> QED
  BY <1>3, <1>4

\* A statement nobody waits for any more.
LEMMA UnwantedInv ==
  ASSUME Inv, line # <<>>, NEW o, NEW k, line[1].by = o, line[1].kind = k, Execute(line[1]),
         job[o] # k, line' = Tail(line), UNCHANGED <<job, owner, beginCut>>
  PROVE  Inv'
<1>1. job[line[1].by] # line[1].kind
  OBVIOUS
<1>2. /\ o \in Operations /\ k \in Awaited
      /\ tables' \in Stores /\ disk' \in Stores /\ opened' \in BOOLEAN
      /\ looked' \in [Operations -> Hashes]
      /\ Told'
      /\ k = "begin" => tables' = disk'
      /\ k \in {"commit", "rollback"} => tables' = disk' /\ ~opened'
      /\ k # "commit" => disk' = disk
  BY ExecuteEffect
<1>3. /\ Len(line) \in Nat \ {0}
      /\ line' \in Seq(Statements) /\ Len(line') = Len(line) - 1
      /\ \A i \in 1 .. Len(line) - 1 : line'[i] = line[i + 1]
      /\ line' = <<>> <=> Len(line) = 1
  BY LineShrinks DEF Inv, Typed
<1>4. ASSUME NEW i \in 1 .. Len(line')
      PROVE  line'[i] = line[i + 1] /\ i + 1 \in 2 .. Len(line) /\ i + 1 \in 1 .. Len(line)
  BY <1>3
<1>5. /\ owner # Nobody => Len(line) > 1
      /\ k \in Body => Len(line) > 1 /\ line[2].kind = "rollback"
  BY <1>1, UnwantedIsFollowed
<1>6. ASSUME line' # <<>>
      PROVE  /\ line'[1] = line[2] /\ 2 \in 2 .. Len(line)
             /\ IF k \in Body THEN line'[1].kind = "rollback" ELSE line'[1].kind = "begin"
  <2>1. 1 \in 1 .. Len(line') /\ 2 \in 2 .. Len(line) /\ line'[1] = line[2]
    BY <1>3, <1>6
  <2>2. line[2].kind = "begin" \/ k \in Body
    BY <1>1, <2>1 DEF Inv, Shape
  <2> QED
    BY <1>5, <2>1, <2>2
<1>7. Typed'
  BY <1>2, <1>3 DEF Inv, Typed
<1>8. Held'
  <2>1. ASSUME owner # Nobody PROVE line' # <<>> /\ line'[Len(line')] = line[Len(line)]
    <3>1. Len(line) > 1
      BY <1>5, <2>1
    <3>2. Len(line') \in 1 .. Len(line') /\ Len(line') + 1 = Len(line)
      BY <1>3, <3>1
    <3> QED
      BY <1>3, <1>4, <3>1, <3>2
  <2> QED
    BY <2>1 DEF Inv, Held
<1>9. Shape'
  <2>1. ASSUME NEW i \in 2 .. Len(line') PROVE line'[i].kind = "begin"
    <3>1. i \in 1 .. Len(line') /\ i + 1 # 2
      BY <1>3
    <3>2. line'[i] = line[i + 1] /\ i + 1 \in 2 .. Len(line)
      BY <1>4, <3>1
    <3> QED
      BY <3>1, <3>2 DEF Inv, Shape
  <2>2. ASSUME line' # <<>> PROVE line'[1].kind \notin Body
    BY <1>6, <2>2 DEF Body
  <2> QED
    BY <2>1, <2>2 DEF Shape
<1>10. ASSUME NEW i \in 1 .. Len(line') PROVE Pending(line[i].by)'
  <2>1. Pending(line'[i].by) /\ line'[i].by \in Operations
    <3>1. line[i + 1] \in Statements
      BY <1>4, ElementOfSeq DEF Inv, Typed
    <3> QED
      BY <1>4, <3>1 DEF Inv, Turns, Statements
  <2>2. CASE k = "commit"
    <3>1. line[i + 1].kind = "begin" /\ 1 \in 1 .. Len(line) /\ 1 < i + 1
      BY <1>1, <1>3, <1>4, <2>2 DEF Inv, Shape, Body
    <3>2. line[1].by # line[i + 1].by
      BY <1>4, <3>1 DEF Inv, Turns
    <3> QED
      BY <1>4, <2>1, <3>2, OthersKeep DEF Pending
  <2>3. CASE k # "commit"
    BY <1>2, <2>1, <2>3 DEF Pending
  <2> QED
    BY <2>2, <2>3
<1>11. Turns'
  <2>1. ASSUME NEW p \in Operations, job[p] \in {"new", "between"}
        PROVE  /\ Pending(p)' /\ \A i \in 1 .. Len(line') : line'[i].by # p
               /\ job[p] = "new" <=> p \notin disk'.changes
    <3>1. /\ Pending(p) /\ \A i \in 1 .. Len(line) : line[i].by # p
          /\ job[p] = "new" <=> p \notin disk.changes
      BY <2>1 DEF Inv, Turns
    <3>2. 1 \in 1 .. Len(line)
      BY <1>3
    <3>3. p # o
      BY <3>1, <3>2
    <3> QED
      BY <1>4, <3>1, <3>3, OthersKeep
  <2>2. ASSUME NEW i \in 1 .. Len(line'), NEW j \in 1 .. Len(line'), i < j,
               line'[j].kind = "begin"
        PROVE  line'[i].by # line'[j].by
    <3>1. line'[i] = line[i + 1] /\ i + 1 \in 1 .. Len(line) /\ line'[j] = line[j + 1]
          /\ j + 1 \in 1 .. Len(line) /\ i + 1 < j + 1
      BY <1>3, <1>4, <2>2
    <3> QED
      BY <2>2, <3>1 DEF Inv, Turns
  <2> QED
    BY <1>10, <2>1, <2>2, OthersKeep DEF Turns
<1>12. Left'
  <2>1. ASSUME NEW i \in 1 .. Len(line'), line'[i].kind = "begin", job[line'[i].by] # "begin"
        PROVE  beginCut
    BY <1>4, <2>1 DEF Inv, Left
  <2>2. ASSUME opened', line' = <<>> \/ line'[1].kind = "begin" PROVE beginCut
    <3>1. k \notin Body
      BY <1>3, <1>5, <1>6, <2>2
    <3>2. k = "begin"
      BY <1>2, <2>2, <3>1 DEF Awaited
    <3>3. 1 \in 1 .. Len(line)
      BY <1>3
    <3> QED
      BY <1>1, <3>2, <3>3 DEF Inv, Left
  <2> QED
    BY <2>1, <2>2 DEF Left
<1>13. Data'
  <2>1. CASE k \in Body
    <3>1. line' # <<>> /\ line'[1].kind = "rollback"
      BY <1>3, <1>5, <1>6, <2>1
    <3> QED
      BY <1>2, <3>1 DEF Data
  <2>2. CASE k \notin Body
    <3>1. tables' = disk'
      BY <1>2, <2>2 DEF Awaited
    <3>2. line' = <<>> \/ line'[1].kind = "begin"
      BY <1>6, <2>2
    <3> QED
      BY <1>2, <3>1, <3>2 DEF Data
  <2> QED
    BY <2>1, <2>2
<1> QED
  BY <1>7, <1>8, <1>9, <1>11, <1>12, <1>13 DEF Inv

\* The transaction ends.
LEMMA EndInv ==
  ASSUME Inv, line # <<>>, NEW o, NEW k, line[1].by = o, line[1].kind = k, Execute(line[1]),
         job[o] = k, NEW end, Release(<<>>, o, end), UNCHANGED beginCut,
         IF k = "commit" THEN end = AfterCommit(o) ELSE end = "failed",
         k \in {"commit", "rollback"} \/ (k = "begin" /\ opened)
  PROVE  Inv'
<1>1. job[line[1].by] = line[1].kind
  OBVIOUS
<1>2. /\ o \in Operations /\ k \in Awaited
      /\ tables' \in Stores /\ disk' \in Stores /\ opened' \in BOOLEAN
      /\ looked' \in [Operations -> Hashes]
      /\ Told' /\ Pending(o)
      /\ k = "begin" => tables' = disk'
      /\ k \in {"commit", "rollback"} => tables' = disk' /\ ~opened'
      /\ k = "commit" => disk' = tables /\ Changed(o) /\ Recorded(o)
  BY <1>1, ExecuteEffect
<1>0. end \in {"between", "done", "failed"}
  BY DEF AfterCommit
<1>3. job' = [job EXCEPT ![o] = end] /\ line' = <<>> /\ owner' = Nobody
  BY DEF Release
<1>4. job'[o] = end /\ \A p \in Operations \ {o} : job'[p] = job[p]
  BY <1>2, <1>3 DEF Inv, Typed
<1>5. owner = o
  BY <1>1, WantedIsAlone
<1>6. Len(line') = 0 /\ line' \in Seq(Statements)
  BY <1>3, EmptySeq
<1>7. Typed'
  BY <1>0, <1>2, <1>3, <1>6 DEF Inv, Typed
<1>8. Held'
  <2>1. ASSUME NEW p \in Operations PROVE job'[p] \notin Awaited
    <3>1. CASE p = o
      BY <1>0, <1>4, <3>1 DEF Awaited, Body
    <3>2. CASE p # o
      BY <1>4, <1>5, <3>2 DEF Inv, Held
    <3> QED
      BY <3>1, <3>2
  <2>2. \A p \in Operations : owner' # p
    BY <1>3, StoreAssumption
  <2> QED
    BY <1>3, <2>1, <2>2 DEF Held
<1>9. Shape'
  BY <1>3, <1>6 DEF Shape
<1>10. Turns'
  <2>1. ASSUME NEW p \in Operations, p # o
        PROVE  /\ job'[p] \in {"new", "between"} =>
                    Pending(p)' /\ (job'[p] = "new" <=> p \notin disk'.changes)
               /\ job'[p] = "done" =>
                    p \in disk'.changes /\ Wanted(p) \subseteq Written(disk'.log)
    <3>1. job'[p] = job[p]
      BY <1>4, <2>1
    <3>2. job[p] \in {"new", "between"} =>
            Pending(p) /\ (job[p] = "new" <=> p \notin disk.changes)
      BY DEF Inv, Turns
    <3> QED
      BY <2>1, <3>1, <3>2, OthersKeep
  <2>2. ASSUME end = "between" PROVE Pending(o)' /\ o \in disk'.changes
    <3>1. k = "commit" /\ ~(Wanted(o) \subseteq Written(tables.log))
      BY <2>2 DEF AfterCommit
    <3>2. o \in Apart /\ Written(tables.log) = Written(disk.log)
      BY <1>2, <3>1 DEF Recorded
    <3> QED
      BY <1>2, <3>1, <3>2 DEF Pending, Changed
  <2>3. ASSUME end = "done"
        PROVE  o \in disk'.changes /\ Wanted(o) \subseteq Written(disk'.log)
    <3>1. k = "commit" /\ Wanted(o) \subseteq Written(tables.log)
      BY <2>3 DEF AfterCommit
    <3> QED
      BY <1>2, <3>1 DEF Changed
  <2> QED
    BY <1>0, <1>4, <1>6, <2>1, <2>2, <2>3 DEF Turns
<1>11. Left'
  <2>1. ASSUME opened' PROVE beginCut
    <3>1. k = "begin" /\ opened
      BY <1>2, <2>1
    <3> QED
      BY <3>1 DEF Inv, Left
  <2> QED
    BY <1>6, <2>1 DEF Left
<1>12. Data'
  BY <1>2, <1>3 DEF Data
<1> QED
  BY <1>7, <1>8, <1>9, <1>10, <1>11, <1>12 DEF Inv

\* The transaction goes on with its next statement.
LEMMA GoesOnInv ==
  ASSUME Inv, line # <<>>, NEW o, NEW k, line[1].by = o, line[1].kind = k, Execute(line[1]),
         job[o] = k, k \notin {"commit", "rollback"}, ~(k = "begin" /\ opened),
         NEW kind \in Following(line[1]), Submit(<<>>, o, kind), UNCHANGED beginCut
  PROVE  Inv'
<1>1. /\ o \in Operations /\ k \in Awaited /\ Pending(o)
      /\ tables' \in Stores /\ disk' \in Stores /\ opened' \in BOOLEAN
      /\ looked' \in [Operations -> Hashes]
      /\ Told' /\ disk' = disk
      /\ k = "begin" => tables' = disk'
      /\ k = "change" => /\ o \notin disk.changes /\ Changed(o)'
                        /\ Written(tables'.log) = Written(disk'.log)
      /\ k = "look" => /\ (Changed(o) /\ Some(o))' /\ (o \in Apart => o \in disk.changes)
                      /\ looked'[o] = LastHash(tables'.log)
      /\ k = "insert" =>
           /\ Changed(o)' /\ (o \in Apart => o \in disk.changes)
           /\ IF Wanted(o) \subseteq Written(tables.log) \cup {Entry(o)}
                THEN Written(tables'.log) = Written(disk'.log) \cup Wanted(o)
                ELSE Some(o)'
  BY ExecuteEffect
<1>2. k = "begin" \/ k = "change" \/ k = "look" \/ k = "insert"
  BY <1>1 DEF Awaited, Body
<1>3. /\ k = "begin" => kind = IF o \in disk.changes THEN "look" ELSE "change"
      /\ k = "change" => kind \in {IF o \in Apart THEN "commit" ELSE "look", "rollback"}
      /\ k = "look" => kind = "insert"
      /\ k = "insert" =>
           IF Wanted(o) \subseteq Written(tables.log) \cup {Entry(o)}
             THEN kind \in {"commit", "rollback"} ELSE kind \in {"look", "rollback"}
  BY DEF Following, AfterError
<1>4. kind \in Awaited /\ kind # "begin"
  BY <1>2, <1>3 DEF Awaited, Body
<1> DEFINE x == [kind |-> kind, by |-> o]
<1>5. job' = [job EXCEPT ![o] = kind] /\ line' = Append(<<>>, x) /\ owner' = owner
  BY DEF Submit
<1>6. x \in Statements /\ x.kind = kind /\ x.by = o
  BY <1>1, <1>4 DEF Statements
<1>7. owner = o /\ job[line[1].by] = line[1].kind
  BY WantedIsAlone
<1>8. job'[o] = kind /\ \A p \in Operations \ {o} : job'[p] = job[p]
  BY <1>1, <1>5 DEF Inv, Typed
<1>9. line' \in Seq(Statements) /\ line' # <<>> /\ Len(line') = 1 /\ line'[1] = x
  <2> HIDE DEF x
  <2>1. <<>> \in Seq(Statements) /\ Len(<<>>) = 0
    OBVIOUS
  <2> QED
    BY <1>5, <1>6, <2>1, LineGrows
<1>10. \A i \in 1 .. Len(line') : i = 1
  BY <1>9
<1>11. Typed'
  BY <1>1, <1>4, <1>5, <1>9 DEF Inv, Typed
<1>12. Held'
  <2>1. ASSUME NEW p \in Operations PROVE job'[p] \in Awaited <=> owner' = p
    BY <1>4, <1>5, <1>7, <1>8, <2>1 DEF Inv, Held
  <2>2. line'[Len(line')] = [kind |-> job'[owner'], by |-> owner']
    BY <1>5, <1>7, <1>8, <1>9
  <2> QED
    BY <1>1, <1>5, <1>7, <1>9, <2>1, <2>2 DEF Held
<1>13. Shape'
  <2>1. owner' # Nobody
    BY <1>1, <1>5, <1>7, StoreAssumption
  <2>2. \A i \in 2 .. Len(line') : FALSE
    BY <1>9
  <2> QED
    BY <1>9, <2>1, <2>2 DEF Shape
<1>14. Turns'
  <2>1. ASSUME NEW p \in Operations, job'[p] \in {"new", "between", "done"}
        PROVE  p # o /\ job[p] = job'[p]
    BY <1>4, <1>8, <2>1 DEF Awaited, Body
  <2>2. \A i \in 1 .. Len(line') : line'[i].by = o
    BY <1>6, <1>9, <1>10
  <2>4. \A p : Pending(p) => Pending(p)'
    BY <1>1 DEF Pending
  <2>5. \A i \in 1 .. Len(line') : Pending(line[i].by)'
    BY <1>1, <2>2, <2>4 DEF Pending
  <2>3. \A i, j \in 1 .. Len(line') : ~(i < j)
    BY <1>9
  <2> QED
    BY <1>1, <2>1, <2>2, <2>3, <2>4, <2>5 DEF Inv, Turns
<1>15. Left'
  <2>1. \A i \in 1 .. Len(line') : line'[i].kind # "begin"
    BY <1>4, <1>6, <1>9, <1>10
  <2> QED
    BY <1>4, <1>6, <1>9, <2>1 DEF Left
<1>16. Data'
  <2>1. line'[1].by = o /\ line'[1].kind = kind
    BY <1>6, <1>9
  <2>2. CASE k = "begin"
    BY <1>1, <1>3, <1>9, <2>1, <2>2 DEF Data, Changed, Some
  <2>3. CASE k = "change"
    BY <1>1, <1>3, <1>9, <2>1, <2>3 DEF Data, Changed, Some, Recorded
  <2>4. CASE k = "look"
    BY <1>1, <1>3, <1>9, <2>1, <2>4 DEF Data, Changed, Some
  <2>5. CASE k = "insert"
    BY <1>1, <1>3, <1>9, <2>1, <2>5 DEF Data, Changed, Some, Recorded
  <2> QED
    BY <1>2, <2>2, <2>3, <2>4, <2>5
<1> QED
  BY <1>11, <1>12, <1>13, <1>14, <1>15, <1>16 DEF Inv

LEMMA RunInv == ASSUME Inv, Run PROVE Inv'
<1>1. line # <<>> /\ line \in Seq(Statements) /\ UNCHANGED beginCut
  BY DEF Run, Inv, Typed
<1>2. PICK o, k : line[1].by = o /\ line[1].kind = k
  OBVIOUS
<1>3. Head(line) = line[1] /\ Execute(line[1])
  BY <1>1, LineShrinks DEF Run
<1>4. CASE job[o] # k
  <2>1. line' = Tail(line) /\ UNCHANGED <<job, owner>>
    BY <1>2, <1>3, <1>4 DEF Run
  <2> QED
    BY <1>1, <1>2, <1>3, <1>4, <2>1, UnwantedInv
<1>5. CASE job[o] = k
  <2>1. Tail(line) = <<>>
    <3>1. Len(line) = 1
      BY <1>1, <1>2, <1>5, WantedIsAlone
    <3> QED
      BY <1>1, <3>1, LineShrinks
  <2>2. CASE k = "begin" /\ opened
    <3>1. Release(<<>>, o, "failed")
      BY <1>2, <1>3, <1>5, <2>1, <2>2 DEF Run
    <3> QED
      BY <1>1, <1>2, <1>3, <1>5, <2>2, <3>1, EndInv
  <2>3. CASE k = "commit"
    <3>1. Release(<<>>, o, AfterCommit(o))
      BY <1>2, <1>3, <1>5, <2>1, <2>3 DEF Run
    <3> QED
      BY <1>1, <1>2, <1>3, <1>5, <2>3, <3>1, EndInv
  <2>4. CASE k = "rollback"
    <3>1. Release(<<>>, o, "failed")
      BY <1>2, <1>3, <1>5, <2>1, <2>4 DEF Run
    <3> QED
      BY <1>1, <1>2, <1>3, <1>5, <2>4, <3>1, EndInv
  <2>5. CASE k \notin {"commit", "rollback"} /\ ~(k = "begin" /\ opened)
    <3>1. PICK kind \in Following(line[1]) : Submit(<<>>, o, kind)
      BY <1>2, <1>3, <1>5, <2>1, <2>5 DEF Run
    <3> QED
      BY <1>1, <1>2, <1>3, <1>5, <2>5, <3>1, GoesOnInv
  <2> QED
    BY <2>2, <2>3, <2>4, <2>5
<1> QED
  BY <1>4, <1>5

LEMMA StepInv == Inv /\ [StoreNext]_storeVars => Inv'
<1> SUFFICES ASSUME Inv, [StoreNext]_storeVars PROVE Inv'
  OBVIOUS
<1>1. CASE UNCHANGED storeVars
  <2>1. /\ job' = job /\ owner' = owner /\ line' = line /\ opened' = opened
        /\ tables' = tables /\ disk' = disk /\ looked' = looked /\ beginCut' = beginCut
        /\ cuts' = cuts
    BY <1>1 DEF storeVars
  <2>2. Typed'
    BY <2>1 DEF Inv, Typed
  <2>3. Held'
    BY <2>1 DEF Inv, Held
  <2>4. Shape'
    BY <2>1 DEF Inv, Shape
  <2>5. Turns'
    BY <2>1 DEF Inv, Turns, Pending
  <2>6. Left'
    BY <2>1 DEF Inv, Left
  <2>7. Data'
    BY <2>1 DEF Inv, Data, Told, Recorded, Changed, Some
  <2> QED
    BY <2>2, <2>3, <2>4, <2>5, <2>6, <2>7, Zenon DEF Inv
<1>2. CASE StoreNext
  BY <1>2, AcquireInv, CutInv, CutBetweenInv, RunInv, ReopenInv DEF StoreNext
<1> QED
  BY <1>1, <1>2

LEMMA AlwaysInv == StoreSpec => []Inv
BY InitInv, StepInv, PTL DEF StoreSpec

----------------------------------------------------------------------------

\* The hash chain verifies at every moment; the committed log tells of nothing
\* but committed changes, of each one recorded in its own transaction, and of
\* each one recorded apart that was reported as done.  For any writers,
\* cancellations and crashes (src/engine/response/audit.py,
\* src/engine/store/database.py, the routes of src/engine/api/router_v2.py).
THEOREM AuditIsComplete == StoreSpec => []AuditTellsAll
<1>1. Inv => AuditTellsAll
  BY DEF Inv, Data, Told, Turns, AuditTellsAll
<1> QED
  BY <1>1, AlwaysInv, PTL

\* Whatever is cancelled and whenever the program dies, a transaction is left
\* open with nobody to end it only after a cancellation that met BEGIN
\* (src/engine/store/database.py).
THEOREM OnlyBeginLeavesOpen == StoreSpec => []OpenOnlyIfBeginCut
<1>1. Inv => OpenOnlyIfBeginCut
  BY DEF Inv, Left, OpenOnlyIfBeginCut
<1> QED
  BY <1>1, AlwaysInv, PTL
=============================================================================
